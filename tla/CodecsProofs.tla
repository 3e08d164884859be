---------------------------- MODULE CodecsProofs ----------------------------
(***************************************************************************)
(* Proofs about the codecs of Codecs: of encrypt and decrypt, for every    *)
(* size of a nonce, a block, the pool and a budget, and any number of      *)
(* bytes and of records.                                                   *)
(***************************************************************************)
EXTENDS Codecs, SequenceTheorems, TLAPS

everything == <<part, framingVars, cipherVars, codecVars>>

-----------------------------------------------------------------------------
(* What is drawn, sealed and put on the wire.                              *)

Width  == cipher.cipher.nonce
Mode   == Encrypted!mode(cipher)
Family == cipher.cipher.family
Rotate == cipher.rotate

Draw   == Nat \X Nat \X Nat
CodedByte   == [of : Draw, at : Int, data : Int]
Record == [of : Draw, data : Nat, damage : {"none", "short", "altered"}]
States == {"open", "ended", "failed"}

(* The variables' types, whatever the mode.                                *)
Drawing ==
  /\ cipher \in Encrypted!Accepted /\ plaintext \in Nat /\ announced \in {0, 1}
  /\ pool \in [draw : Nat, used : 0..Pool] /\ nonces \in Seq(Draw)
  /\ sealing \in States /\ opener \in States

(* A draw is of the pool at hand or of an earlier one, and of what that    *)
(* has used; and none overlaps another.                                    *)
Fresh ==
  /\ \A i \in 1..Len(nonces) :
       /\ nonces[i][1] <= pool.draw /\ nonces[i][2] + Width <= Pool
       /\ nonces[i][1] = pool.draw => nonces[i][2] + Width <= pool.used
  /\ \A i, j \in 1..Len(nonces) : i # j => ~Encrypted!Overlap(nonces[i], nonces[j])

Sealer ==
  /\ feed \in Seq(Int) /\ pending \in Seq(Int) /\ fed \in Nat /\ issued \in Nat
  /\ session = <<>> \/ session \in Draw
  /\ records \in Seq(CodedByte)

(* A session has passed to the cipher what it has emitted and what is      *)
(* pending; it has room to close within its budget, and is open while      *)
(* that is not spent.                                                      *)
Budgeted ==
  /\ session = <<>> => fed = 0
  /\ fed = issued + Len(pending)
  /\ Family = "block" => issued % CipherBlock = 0 /\ Len(pending) < CipherBlock
  /\ Rotate # -1 =>
       /\ fed <= Encrypted!allowance(cipher) + Encrypted!slack(cipher)
       /\ issued < Encrypted!allowance(cipher)
       /\ \A i \in 1..Len(records) : records[i].at <= Rotate

Streaming == Mode = "stream" => Sealer /\ Budgeted

(* A record is of a message that was sent; of one at a time, decrypt keeps *)
(* nothing.                                                                *)
Recording == Mode = "record" =>
  /\ feed = <<>> /\ reading = <<>> /\ header = <<>> /\ opening = <<>> /\ session = <<>>
  /\ ~severed
  /\ records \in Seq(Record)
  /\ \A i \in 1..Len(records) : records[i].data \in 1..plaintext
  /\ opener # "open" =>
       \/ opener = "ended" /\ records = <<>> /\ sealing # "open"
       \/ Encrypted!on_fail(cipher) = "error" /\ opener = "failed"
       \/ Encrypted!on_fail(cipher) = "halt" /\ opener = "ended"
  /\ decrypted \in Seq(Int)
  /\ Family = "aead" => \A i \in 1..Len(decrypted) : decrypted[i] \in 1..plaintext

Announced ==
  cipher.random_key /\ (plaintext > 0 \/ sealing = "ended") => announced = 1

CipherIInv == Drawing /\ Fresh /\ Streaming /\ Recording /\ Announced

(* What has come out, and what is on its way.                              *)
Came(n)  == \E i \in 1..Len(decrypted) : decrypted[i] = n
Going(n) == \E i \in 1..Len(records) : records[i].data = n

(* A message of which no record was harmed has come out or is on its way,  *)
(* and a record that was damaged counts among the harmed.                  *)
Reaches == Mode = "record" =>
  /\ \A n \in 1..plaintext : n \in harmed \/ Came(n) \/ Going(n)
  /\ \A i \in 1..Len(records) : records[i].damage # "none" => records[i].data \in harmed

-----------------------------------------------------------------------------
(* What the checks of the options leave.                                   *)

(* What is configured is of the table, and what rotates is a stream with   *)
(* room for a byte in each session.                                        *)
LEMMA Configured ==
  ASSUME cipher \in Encrypted!Accepted
  PROVE  /\ Width \in Nat /\ Width <= Pool
         /\ Family \in {"block", "keystream", "aead"}
         /\ Mode \in {"record", "stream"} /\ Rotate \in Int
         /\ Family = "aead" => Mode = "record"
         /\ Rotate # -1 => /\ Mode = "stream" /\ Rotate \in Nat
                           /\ Encrypted!allowance(cipher) \in Int
                           /\ Encrypted!allowance(cipher) > 0
                           /\ Family = "block" => Rotate % CipherBlock = 0
<1> DEFINE ciphers == Encrypted!BlockModes \cup Encrypted!Keystreams \cup Encrypted!Aeads
<1>1. cipher \in Encrypted!Written /\ ~Encrypted!refused(cipher)
  BY DEF Encrypted!Accepted
<1>2. cipher.cipher \in ciphers
  BY <1>1 DEF Encrypted!Written
<1>3. /\ cipher.mode \in {"unset", "record", "stream"}
      /\ cipher.rotate \in {Encrypted!Unset} \cup Budgets
  BY <1>1 DEF Encrypted!Written
<1>4. /\ Width \in {0, Nonce \div 2, Nonce}
      /\ Family \in {"block", "keystream", "aead"}
  BY <1>2 DEF Encrypted!BlockModes, Encrypted!Keystreams, Encrypted!Aeads, Width, Family
<1>5. Width \in Nat /\ Width <= Pool
  <2> HIDE DEF ciphers
  <2>1. Nonce \in Nat /\ Pool \in Nat /\ Nonce <= Pool
    BY CodecsAssumption
  <2>2. Nonce \div 2 \in Nat /\ Nonce \div 2 <= Nonce
    BY <2>1
  <2> QED
    BY <1>4, <2>1, <2>2
<1>6. Mode \in {"record", "stream"}
  BY <1>3, Zenon DEF Mode, Encrypted!mode
<1>7. Rotate \in Int /\ (Rotate # -1 => Rotate \in Nat)
  <2>1. CASE Rotate \in Budgets
    <3>1. Rotate \in Nat
      BY <2>1, CodecsAssumption
    <3> QED
      BY <3>1
  <2>2. CASE Rotate = -1
    BY <2>2
  <2> QED
    BY <1>3, <2>1, <2>2 DEF Rotate, Encrypted!Unset
<1>8. Family = "aead" => Mode = "record"
  <2>1. ~(cipher.mode = "stream" /\ cipher.cipher.family = "aead")
    BY <1>1, Zenon DEF Encrypted!refused
  <2> QED
    BY <1>3, <2>1, Zenon DEF Mode, Encrypted!mode, Family
<1>9. ASSUME Rotate # -1
      PROVE  /\ Mode = "stream"
             /\ Family = "block" => Rotate % CipherBlock = 0
             /\ ~(Encrypted!allowance(cipher) <= 0)
  <2>1. ~Encrypted!rotation_refused(cipher)
    BY <1>1, Zenon DEF Encrypted!refused
  <2> QED
    BY <1>9, <2>1, Zenon DEF Encrypted!rotation_refused, Mode, Family, Rotate, Encrypted!Unset
<1>10. Rotate # -1 => Encrypted!allowance(cipher) \in Int
  <2>1. CipherBlock \in Nat
    BY CodecsAssumption
  <2> QED
    BY <1>7, <2>1 DEF Rotate, Encrypted!allowance
<1>11. Rotate # -1 => Encrypted!allowance(cipher) > 0
  BY <1>9, <1>10
<1> QED
  BY <1>4, <1>5, <1>6, <1>7, <1>8, <1>9, <1>10, <1>11, Zenon

(* The options stay.                                                       *)
LEMMA OptionsStay ==
  ASSUME cipher' = cipher
  PROVE  /\ Width' = Width /\ Mode' = Mode /\ Family' = Family /\ Rotate' = Rotate
         /\ Encrypted!allowance(cipher)' = Encrypted!allowance(cipher)
         /\ Encrypted!slack(cipher)' = Encrypted!slack(cipher)
         /\ Encrypted!on_fail(cipher)' = Encrypted!on_fail(cipher)
BY DEF Width, Mode, Family, Rotate, Encrypted!allowance, Encrypted!slack, Encrypted!on_fail,
       Encrypted!mode, Encrypted!padding

(* What overlaps overlaps the other way round.                             *)
LEMMA OverlapIsMutual ==
  ASSUME NEW m \in Draw, NEW n \in Draw, Encrypted!Overlap(m, n)
  PROVE  Encrypted!Overlap(n, m)
BY DEF Encrypted!Overlap

(* A nonce that is drawn is fresh.                                         *)
LEMMA DrawsFresh ==
  ASSUME Drawing, Fresh, Encrypted!Draws, cipher' = cipher
  PROVE  /\ Encrypted!Drawn \in Draw
         /\ pool' \in [draw : Nat, used : 0..Pool] /\ nonces' \in Seq(Draw) /\ Fresh'
<1> DEFINE fill == Encrypted!Filled
           drawn == Encrypted!Drawn
<1>1. Width \in Nat /\ Width <= Pool /\ Pool \in Nat
  BY Configured, CodecsAssumption DEF Drawing
<1>2. /\ pool.draw \in Nat /\ pool.used \in 0..Pool
      /\ pool = [draw |-> pool.draw, used |-> pool.used]
  BY DEF Drawing
<1>3. /\ fill = [draw |-> fill.draw, used |-> fill.used]
      /\ fill.draw \in Nat /\ fill.used \in 0..Pool /\ fill.used + Width <= Pool
      /\ \/ fill.draw = pool.draw /\ fill.used = pool.used
         \/ fill.draw = pool.draw + 1 /\ fill.used = 0
  <2>1. CASE cipher.cipher.nonce > 0 /\ pool.used + cipher.cipher.nonce > Pool
    <3>1. fill = [draw |-> pool.draw + 1, used |-> 0]
      BY <2>1, Zenon DEF Encrypted!Filled
    <3> QED
      BY <3>1, <1>1, <1>2
  <2>2. CASE ~(cipher.cipher.nonce > 0 /\ pool.used + cipher.cipher.nonce > Pool)
    <3>1. fill = pool
      BY <2>2, Zenon DEF Encrypted!Filled
    <3>2. pool.used + Width <= Pool
      BY <2>2, <1>1, <1>2 DEF Width
    <3> QED
      BY <3>1, <3>2, <1>2
  <2> QED
    BY <2>1, <2>2
<1>4. drawn = <<fill.draw, fill.used, Len(nonces) + 1>> /\ nonces \in Seq(Draw)
  BY DEF Encrypted!Drawn, Drawing
<1>5. pool' = [fill EXCEPT !.used = @ + Width] /\ nonces' = Append(nonces, drawn)
  BY DEF Encrypted!Draws, Width
<1> HIDE DEF fill, drawn
<1>6. /\ pool' = [draw |-> fill.draw, used |-> fill.used + Width]
      /\ fill.used + Width \in 0..Pool
  BY <1>1, <1>3, <1>5
<1>7. pool' \in [draw : Nat, used : 0..Pool]
  BY <1>3, <1>6
<1>8. drawn \in Draw /\ drawn[1] = fill.draw /\ drawn[2] = fill.used
  <2>1. Len(nonces) + 1 \in Nat
    BY <1>4, LenProperties
  <2> QED
    BY <1>3, <1>4, <2>1 DEF Draw
<1>9. /\ nonces' \in Seq(Draw) /\ Len(nonces) \in Nat /\ Len(nonces') = Len(nonces) + 1
      /\ \A i \in 1..Len(nonces) : nonces'[i] = nonces[i] /\ nonces[i] \in Draw
      /\ nonces'[Len(nonces) + 1] = drawn
  BY <1>4, <1>5, <1>8, AppendProperties, ElementOfSeq, LenProperties
<1>10. \A i \in 1..Len(nonces') : i = Len(nonces') \/ i \in 1..Len(nonces)
  BY <1>9
<1>11. ASSUME NEW i \in 1..Len(nonces)
       PROVE  /\ nonces[i][1] \in Nat /\ nonces[i][2] \in Nat
              /\ nonces[i][1] <= fill.draw /\ nonces[i][2] + Width <= Pool
              /\ nonces[i][1] = fill.draw => nonces[i][2] + Width <= fill.used
  <2>1. nonces[i] \in Draw
    BY <1>9
  <2>2. nonces[i][1] \in Nat /\ nonces[i][2] \in Nat
    BY <2>1 DEF Draw
  <2>3. /\ nonces[i][1] <= pool.draw /\ nonces[i][2] + Width <= Pool
        /\ nonces[i][1] = pool.draw => nonces[i][2] + Width <= pool.used
    BY DEF Fresh
  <2> QED
    BY <2>2, <2>3, <1>1, <1>2, <1>3
<1>12. Width' = Width
  BY OptionsStay
<1>13. ASSUME NEW i \in 1..Len(nonces')
       PROVE  /\ nonces'[i][1] <= pool'.draw /\ nonces'[i][2] + Width <= Pool
              /\ nonces'[i][1] = pool'.draw => nonces'[i][2] + Width <= pool'.used
  <2>1. CASE i = Len(nonces')
    BY <2>1, <1>1, <1>3, <1>6, <1>8, <1>9
  <2>2. CASE i \in 1..Len(nonces)
    <3>1. nonces'[i] = nonces[i]
      BY <2>2, <1>9
    <3>2. pool'.draw = fill.draw /\ pool'.used = fill.used + Width
      BY <1>6
    <3> QED
      BY <2>2, <3>1, <3>2, <1>1, <1>3, <1>11
  <2> QED
    BY <2>1, <2>2, <1>10
<1>14. ASSUME NEW i \in 1..Len(nonces) PROVE ~Encrypted!Overlap(nonces[i], drawn)
  <2>1. nonces[i][1] = fill.draw => ~(drawn[2] < nonces[i][2] + Width)
    BY <1>1, <1>3, <1>8, <1>11
  <2> QED
    BY <2>1, <1>8 DEF Encrypted!Overlap, Width
<1>15. ASSUME NEW i \in 1..Len(nonces'), NEW j \in 1..Len(nonces'), i # j
       PROVE  ~Encrypted!Overlap(nonces'[i], nonces'[j])
  <2>1. CASE i \in 1..Len(nonces) /\ j \in 1..Len(nonces)
    BY <2>1, <1>9, <1>15, Zenon DEF Fresh
  <2>2. CASE i \in 1..Len(nonces) /\ j = Len(nonces')
    BY <2>2, <1>9, <1>14
  <2>3. CASE i = Len(nonces') /\ j \in 1..Len(nonces)
    <3>1. ~Encrypted!Overlap(nonces[j], drawn) /\ nonces'[j] = nonces[j] /\ nonces'[i] = drawn
      BY <2>3, <1>9, <1>14
    <3>2. nonces[j] \in Draw
      BY <2>3, <1>9
    <3> QED
      BY <3>1, <3>2, <1>8, OverlapIsMutual
  <2> QED
    BY <2>1, <2>2, <2>3, <1>10, <1>15
<1>16. \A i, j \in 1..Len(nonces') : i # j => ~Encrypted!Overlap(nonces'[i], nonces'[j])
  BY <1>15
<1>17. \A m, n : Encrypted!Overlap(m, n) <=>
         m[1] = n[1] /\ m[2] < n[2] + Width /\ n[2] < m[2] + Width
  BY DEF Encrypted!Overlap, Width
<1>18. Fresh'
  BY <1>12, <1>13, <1>16, <1>17, OptionsStay DEF Fresh, Encrypted!Overlap, Width
<1> QED
  BY <1>7, <1>8, <1>9, <1>18 DEF drawn

(* Whatever leaves the nonces and the pool alone keeps them fresh.         *)
LEMMA StaysFresh ==
  ASSUME Fresh, cipher' = cipher, UNCHANGED <<pool, nonces>>
  PROVE  Fresh'
BY DEF Fresh, Width, Encrypted!Overlap

-----------------------------------------------------------------------------
(* Sealing a stream.                                                       *)

(* A number is blocks and what is left of one.                             *)
LEMMA Blocks ==
  ASSUME NEW b \in Nat \ {0}, NEW n \in Nat
  PROVE  /\ n % b \in Nat /\ n % b < b /\ n % b <= n
         /\ n = b * (n \div b) + (n % b) /\ n \div b \in Nat
OBVIOUS

(* A product is whole blocks.                                              *)
LEMMA WholeBlocks ==
  ASSUME NEW b \in Nat \ {0}, NEW q \in Nat
  PROVE  (b * q) % b = 0
OBVIOUS

(* Of two numbers of whole blocks the larger is larger by a block.         *)
LEMMA BlockApart ==
  ASSUME NEW b \in Nat \ {0}, NEW m \in Nat, NEW n \in Nat, m % b = 0, n % b = 0, m < n
  PROVE  m + b <= n
<1> DEFINE p == m \div b
           q == n \div b
<1>1. p \in Nat /\ q \in Nat /\ m = b * p /\ n = b * q
  <2>1. m % b \in Nat /\ n % b \in Nat /\ b * (m \div b) \in Nat /\ b * (n \div b) \in Nat
    BY Blocks
  <2> QED
    BY <2>1, Blocks
<1> HIDE DEF p, q
<1>2. p < q
  BY <1>1
<1>3. q = p + 1 + (q - p - 1) /\ q - p - 1 \in Nat
  BY <1>1, <1>2
<1>4. b * q = b * p + b + b * (q - p - 1)
  BY <1>1, <1>3
<1>5. b * (q - p - 1) >= 0
  BY <1>3
<1> QED
  BY <1>1, <1>4, <1>5

(* Whole blocks together are whole blocks, and so is what a remainder      *)
(* leaves.                                                                 *)
LEMMA BlocksAdd ==
  ASSUME NEW b \in Nat \ {0}, NEW m \in Nat, NEW n \in Nat, m % b = 0
  PROVE  n - (n % b) \in Nat /\ (m + (n - (n % b))) % b = 0
<1> DEFINE p == m \div b
           q == n \div b
<1>1. /\ p \in Nat /\ q \in Nat /\ m = b * p + (m % b) /\ n = b * q + (n % b)
      /\ n % b \in Nat /\ b * p \in Nat /\ b * q \in Nat
  BY Blocks
<1> HIDE DEF p, q
<1>2. m = b * p /\ n - (n % b) = b * q
  BY <1>1
<1>3. b * p + b * q = b * (p + q) /\ p + q \in Nat
  BY <1>1
<1>4. (b * (p + q)) % b = 0
  BY <1>3, WholeBlocks
<1> QED
  BY <1>1, <1>2, <1>3, <1>4

(* What a session has sealed, with a block of padding, is in its budget.   *)
LEMMA BudgetHolds ==
  ASSUME cipher \in Encrypted!Accepted, Rotate # -1, NEW n \in Nat,
         n <= Encrypted!allowance(cipher) + Encrypted!slack(cipher),
         Family = "block" => n % CipherBlock = 0
  PROVE  n + (IF Encrypted!pads THEN CipherBlock ELSE 0) <= Rotate
<1>1. CipherBlock \in Nat \ {0} /\ Rotate \in Nat /\ (Family = "block" => Rotate % CipherBlock = 0)
  BY Configured, CodecsAssumption
<1>2. CASE Encrypted!pads
  <2>1. Family = "block" /\ Encrypted!padding(cipher) = "pkcs7"
    BY <1>2 DEF Encrypted!pads, Encrypted!family, Family
  <2>2. Encrypted!allowance(cipher) = Rotate - CipherBlock /\ Encrypted!slack(cipher) = CipherBlock - 1
    BY <2>1 DEF Encrypted!allowance, Encrypted!slack, Rotate, Family
  <2>3. n < Rotate
    BY <1>1, <2>2
  <2>4. n + CipherBlock <= Rotate
    BY <1>1, <2>1, <2>3, BlockApart
  <2> QED
    BY <1>2, <2>4
<1>3. CASE ~Encrypted!pads
  <2>1. Encrypted!allowance(cipher) = Rotate /\ Encrypted!slack(cipher) = 0
    BY <1>3, Zenon DEF Encrypted!allowance, Encrypted!slack, Rotate, Encrypted!pads, Encrypted!family
  <2> QED
    BY <1>1, <1>3, <2>1
<1> QED
  BY <1>2, <1>3

(* What is emitted and what is left are all there is.                      *)
LEMMA Remainder ==
  ASSUME NEW n \in Nat, NEW r \in Nat, r <= n
  PROVE  n - r \in 0..n /\ n - (n - r) = r /\ (n - r) + (n - (n - r)) = n /\ n \in 0..n /\ n - n = 0
OBVIOUS

(* The fields of a record of two.                                          *)
LEMMA Fields ==
  ASSUME NEW a, NEW b, NEW r, r = [out |-> a, rest |-> b]
  PROVE  r.out = a /\ r.rest = b
OBVIOUS

(* The bytes of one call are whole blocks to emit, and what is left.       *)
LEMMA SealedIs ==
  ASSUME NEW bytes \in Seq(Int), pending \in Seq(Int)
  PROVE  LET sealed == Encrypted!Sealed(bytes)
         IN  /\ sealed.out \in Seq(Int) /\ sealed.rest \in Seq(Int)
             /\ Len(sealed.out) \in Nat /\ Len(sealed.rest) \in Nat
             /\ Len(sealed.out) + Len(sealed.rest) = Len(pending) + Len(bytes)
             /\ Family = "block" =>
                  /\ Len(sealed.rest) < CipherBlock
                  /\ \A m \in Nat : m % CipherBlock = 0 => (m + Len(sealed.out)) % CipherBlock = 0
<1> DEFINE all == pending \o bytes
           n == Len(all)
           whole == IF Family = "block" THEN n - (n % CipherBlock) ELSE n
           sealed == Encrypted!Sealed(bytes)
<1>1. all \in Seq(Int) /\ n \in Nat /\ n = Len(pending) + Len(bytes)
  BY ConcatProperties, LenProperties
<1>2. sealed = [out |-> SubSeq(all, 1, whole), rest |-> SubSeq(all, whole + 1, n)]
  BY DEF Encrypted!Sealed, Encrypted!family, Family
<1>3. CipherBlock \in Nat \ {0}
  BY CodecsAssumption
<1> HIDE DEF n, all
<1>4. n % CipherBlock \in Nat /\ n % CipherBlock < CipherBlock /\ n % CipherBlock <= n
  BY <1>1, <1>3, Blocks
<1>5. whole \in 0..n /\ (Family = "block" => n - whole = n % CipherBlock)
  <2>1. CASE Family = "block"
    <3>1. whole = n - (n % CipherBlock)
      BY <2>1, Zenon
    <3> HIDE DEF whole
    <3> QED
      BY <1>1, <1>4, <3>1, Remainder, Zenon
  <2>2. CASE Family # "block"
    <3>1. whole = n
      BY <2>2, Zenon
    <3> HIDE DEF whole
    <3>2. n \in 0..n
      BY <1>1, <1>4, Remainder, Zenon
    <3> QED
      BY <2>2, <3>1, <3>2, Zenon
  <2> QED
    BY <2>1, <2>2
<1>6. ASSUME NEW m \in Nat, m % CipherBlock = 0, Family = "block"
      PROVE  (m + whole) % CipherBlock = 0
  BY <1>1, <1>3, <1>6, BlocksAdd
<1> HIDE DEF whole
<1>7. \A i \in 1..n : all[i] \in Int
  BY <1>1, ElementOfSeq DEF n
<1>8. /\ SubSeq(all, 1, whole) \in Seq(Int) /\ Len(SubSeq(all, 1, whole)) = whole
      /\ SubSeq(all, whole + 1, n) \in Seq(Int) /\ Len(SubSeq(all, whole + 1, n)) = n - whole
  <2>1. \A i \in 1..whole : all[i] \in Int
    BY <1>1, <1>5, <1>7
  <2>2. \A i \in (whole + 1)..n : all[i] \in Int
    BY <1>1, <1>5, <1>7
  <2>3. 1 \in Int /\ whole \in Int /\ whole + 1 \in Int /\ n \in Int
    BY <1>1, <1>5
  <2>4. /\ SubSeq(all, 1, whole) \in Seq(Int)
        /\ Len(SubSeq(all, 1, whole)) = IF 1 <= whole THEN whole - 1 + 1 ELSE 0
    BY <2>1, <2>3, SubSeqProperties
  <2>5. /\ SubSeq(all, whole + 1, n) \in Seq(Int)
        /\ Len(SubSeq(all, whole + 1, n)) = IF whole + 1 <= n THEN n - (whole + 1) + 1 ELSE 0
    BY <2>2, <2>3, SubSeqProperties
  <2> QED
    BY <1>1, <1>5, <2>4, <2>5
<1>9. sealed.out = SubSeq(all, 1, whole) /\ sealed.rest = SubSeq(all, whole + 1, n)
  <2> DEFINE some == SubSeq(all, 1, whole)
             others == SubSeq(all, whole + 1, n)
  <2>1. sealed = [out |-> some, rest |-> others]
    BY <1>2, Zenon
  <2> HIDE DEF some, others, sealed
  <2>2. sealed.out = some /\ sealed.rest = others
    BY <2>1, Fields
  <2> QED
    BY <2>2, Zenon DEF some, others
<1> HIDE DEF sealed
<1>10. /\ Len(sealed.out) \in Nat /\ Len(sealed.rest) \in Nat
      /\ Len(sealed.out) + Len(sealed.rest) = Len(pending) + Len(bytes)
  <2>1. Len(sealed.out) = whole /\ Len(sealed.rest) = n - whole
    BY <1>8, <1>9, Zenon
  <2> HIDE DEF sealed
  <2>2. whole \in Nat /\ n - whole \in Nat /\ whole + (n - whole) = n
    BY <1>1, <1>5
  <2> QED
    BY <1>1, <2>1, <2>2, Zenon
<1>11. Family = "block" => Len(sealed.rest) < CipherBlock
  BY <1>4, <1>5, <1>8, <1>9
<1>12. Family = "block" =>
         \A m \in Nat : m % CipherBlock = 0 => (m + Len(sealed.out)) % CipherBlock = 0
  BY <1>6, <1>8, <1>9
<1> QED
  BY <1>8, <1>9, <1>10, <1>11, <1>12 DEF sealed

(* What ends a session is one block of padding, or nothing.                *)
LEMMA EpilogueIs ==
  ASSUME NEW rest \in Seq(Int), Family = "block" => Len(rest) < CipherBlock
  PROVE  /\ Encrypted!Epilogue(rest) \in Seq(Int)
         /\ Len(Encrypted!Epilogue(rest)) = IF Encrypted!pads THEN CipherBlock ELSE 0
<1>1. CASE Encrypted!pads
  <2> DEFINE n == CipherBlock - Len(rest)
             filler == [i \in 1..n |-> Len(rest) - CipherBlock]
  <2>1. Len(rest) \in Nat /\ CipherBlock \in Nat /\ Len(rest) < CipherBlock
    BY <1>1, CodecsAssumption, LenProperties DEF Encrypted!pads, Encrypted!family, Family
  <2>2. n \in Nat /\ Len(rest) - CipherBlock \in Int
    BY <2>1
  <2>3. filler \in Seq(Int) /\ Len(filler) = n
    BY <2>2
  <2>4. Encrypted!Epilogue(rest) = rest \o filler
    BY <1>1, Zenon DEF Encrypted!Epilogue
  <2> HIDE DEF filler
  <2>5. rest \o filler \in Seq(Int) /\ Len(rest \o filler) = Len(rest) + Len(filler)
    BY <2>3, ConcatProperties
  <2>6. Len(rest) + Len(filler) = CipherBlock
    BY <2>1, <2>3
  <2> QED
    BY <1>1, <2>4, <2>5, <2>6
<1>2. CASE ~Encrypted!pads
  <2>1. Encrypted!Epilogue(rest) = <<>>
    BY <1>2, Zenon DEF Encrypted!Epilogue
  <2>2. <<>> \in Seq(Int) /\ Len(<<>>) = 0
    OBVIOUS
  <2> QED
    BY <1>2, <2>1, <2>2
<1> QED
  BY <1>1, <1>2

(* Bytes of which none is at a place beyond a bound.                       *)
Within(s, bound) == \A i \in 1..Len(s) : s[i].at <= bound

(* Ciphertext is at the places that follow what was emitted before.        *)
LEMMA CiphertextIs ==
  ASSUME NEW nonce \in Draw, NEW from \in Nat, NEW bytes \in Seq(Int)
  PROVE  /\ Encrypted!Ciphertext(nonce, from, bytes) \in Seq(CodedByte)
         /\ Len(Encrypted!Ciphertext(nonce, from, bytes)) = Len(bytes)
         /\ Within(Encrypted!Ciphertext(nonce, from, bytes), from + Len(bytes))
<1> DEFINE byte(i) == [of |-> nonce, at |-> from + i, data |-> bytes[i]]
           n == Len(bytes)
           text == [i \in 1..n |-> byte(i)]
<1>1. n \in Nat /\ \A i \in 1..n : bytes[i] \in Int
  BY ElementOfSeq, LenProperties
<1>2. \A i \in 1..n : byte(i) \in CodedByte
  BY <1>1 DEF CodedByte
<1>3. \A i \in 1..n : byte(i).at <= from + n
  BY <1>1
<1> HIDE DEF byte, n
<1>4. text \in Seq(CodedByte) /\ Len(text) = n /\ \A i \in 1..n : text[i] = byte(i)
  BY <1>1, <1>2
<1>5. Encrypted!Ciphertext(nonce, from, bytes) = text
  BY DEF Encrypted!Ciphertext, byte, n
<1> QED
  BY <1>3, <1>4, <1>5 DEF Within, n

(* The bytes of a nonce are before its session.                            *)
LEMMA NonceBytesAre ==
  ASSUME cipher \in Encrypted!Accepted, NEW nonce \in Draw
  PROVE  /\ Encrypted!NonceBytes(nonce) \in Seq(CodedByte)
         /\ Within(Encrypted!NonceBytes(nonce), 0)
<1> DEFINE byte(i) == [of |-> nonce, at |-> i - Width, data |-> Encrypted!Garbage]
           text == [i \in 1..Width |-> byte(i)]
<1>1. Width \in Nat
  BY Configured
<1>2. \A i \in 1..Width : byte(i) \in CodedByte
  BY <1>1 DEF CodedByte, Encrypted!Garbage
<1>3. \A i \in 1..Width : byte(i).at <= 0
  BY <1>1
<1> HIDE DEF byte
<1>4. text \in Seq(CodedByte) /\ Len(text) = Width /\ \A i \in 1..Width : text[i] = byte(i)
  BY <1>1, <1>2
<1>5. Encrypted!NonceBytes(nonce) = text
  BY DEF Encrypted!NonceBytes, byte, Width
<1> QED
  BY <1>3, <1>4, <1>5 DEF Within

(* Bytes within a bound, one after another, are within it.                 *)
LEMMA WithinBoth ==
  ASSUME NEW s \in Seq(CodedByte), NEW t \in Seq(CodedByte), NEW bound \in Int,
         Within(s, bound), Within(t, bound)
  PROVE  s \o t \in Seq(CodedByte) /\ Within(s \o t, bound)
<1>1. /\ s \o t \in Seq(CodedByte) /\ Len(s \o t) = Len(s) + Len(t)
      /\ Len(s) \in Nat /\ Len(t) \in Nat
  BY ConcatProperties, LenProperties
<1>2. ASSUME NEW i \in 1..Len(s \o t) PROVE (s \o t)[i].at <= bound
  <2>1. CASE i <= Len(s)
    <3>1. (s \o t)[i] = s[i] /\ i \in 1..Len(s)
      BY <1>1, <2>1, ConcatProperties
    <3> QED
      BY <3>1 DEF Within
  <2>2. CASE i > Len(s)
    <3>1. (s \o t)[i] = t[i - Len(s)] /\ i - Len(s) \in 1..Len(t)
      BY <1>1, <2>2, ConcatProperties
    <3> QED
      BY <3>1 DEF Within
  <2> QED
    BY <1>1, <2>1, <2>2
<1> QED
  BY <1>1, <1>2 DEF Within

(* A bound may be raised.                                                  *)
LEMMA WithinMore ==
  ASSUME NEW s \in Seq(CodedByte), NEW a \in Int, NEW b \in Int, a <= b, Within(s, a)
  PROVE  Within(s, b)
<1> SUFFICES ASSUME NEW i \in 1..Len(s) PROVE s[i].at <= b
  BY DEF Within
<1>1. s[i] \in CodedByte
  BY ElementOfSeq
<1>2. s[i].at \in Int
  BY <1>1 DEF CodedByte
<1>3. s[i].at <= a
  BY DEF Within
<1> QED
  BY <1>2, <1>3

(* Part of what is within a bound is.                                      *)
LEMMA WithinPart ==
  ASSUME NEW s \in Seq(CodedByte), NEW a \in 1..(Len(s) + 1), NEW b \in 0..Len(s),
         NEW bound, Within(s, bound)
  PROVE  SubSeq(s, a, b) \in Seq(CodedByte) /\ Within(SubSeq(s, a, b), bound)
<1>1. Len(s) \in Nat
  BY LenProperties
<1>2. /\ SubSeq(s, a, b) \in Seq(CodedByte)
      /\ Len(SubSeq(s, a, b)) = IF a <= b THEN b - a + 1 ELSE 0
      /\ \A i \in 1..(b - a + 1) : SubSeq(s, a, b)[i] = s[a + i - 1]
  <2>1. \A i \in a..b : s[i] \in CodedByte
    BY <1>1, ElementOfSeq
  <2>2. a \in Int /\ b \in Int
    BY <1>1
  <2> QED
    BY <2>1, <2>2, SubSeqProperties
<1>3. ASSUME NEW i \in 1..Len(SubSeq(s, a, b)) PROVE SubSeq(s, a, b)[i].at <= bound
  <2>1. i \in 1..(b - a + 1) /\ a + i - 1 \in 1..Len(s)
    BY <1>1, <1>2
  <2>2. SubSeq(s, a, b)[i] = s[a + i - 1]
    BY <1>2, <2>1
  <2> QED
    BY <2>1, <2>2 DEF Within
<1> QED
  BY <1>2, <1>3 DEF Within

(* A key that was generated has been announced by the end of a call.       *)
LEMMA AnnouncesKey ==
  ASSUME announced \in {0, 1}, Encrypted!announce, cipher' = cipher
  PROVE  announced' \in {0, 1} /\ Announced'
BY DEF Encrypted!announce, Announced

(* What is neither sent nor announced nor ended changes nothing about it.  *)
LEMMA StaysAnnounced ==
  ASSUME Announced, UNCHANGED <<cipher, plaintext, announced>>,
         sealing' = "ended" => sealing = "ended"
  PROVE  Announced'
BY DEF Announced

(* In a stream, what is said of records says nothing, and the other way.   *)
LEMMA OneMode ==
  ASSUME cipher \in Encrypted!Accepted, cipher' = cipher
  PROVE  /\ Mode = "stream" => Mode # "record" /\ Recording'
         /\ Mode = "record" => Mode # "stream" /\ Streaming'
BY OptionsStay DEF Recording, Streaming

(* Budgeted and Streaming, of the state after a step.                      *)
LEMMA StreamsOn ==
  ASSUME cipher' = cipher, Sealer',
         session' = <<>> => fed' = 0,
         fed' = issued' + Len(pending'),
         Family = "block" => issued' % CipherBlock = 0 /\ Len(pending') < CipherBlock,
         Rotate # -1 =>
           /\ fed' <= Encrypted!allowance(cipher) + Encrypted!slack(cipher)
           /\ issued' < Encrypted!allowance(cipher)
           /\ Within(records', Rotate)
  PROVE  Streaming'
<1>1. /\ Family' = Family /\ Rotate' = Rotate
      /\ Encrypted!allowance(cipher)' = Encrypted!allowance(cipher)
      /\ Encrypted!slack(cipher)' = Encrypted!slack(cipher)
  BY OptionsStay
<1> QED
  BY <1>1, Zenon DEF Streaming, Budgeted, Within

(* A step that leaves the sealer and the records alone.                    *)
LEMMA SealerRests ==
  ASSUME Drawing, Streaming, cipher' = cipher,
         UNCHANGED <<feed, pending, fed, issued, session, records>>
  PROVE  Streaming'
<1>1. /\ Family' = Family /\ Rotate' = Rotate /\ Mode' = Mode
      /\ Encrypted!allowance(cipher)' = Encrypted!allowance(cipher)
      /\ Encrypted!slack(cipher)' = Encrypted!slack(cipher)
  BY OptionsStay
<1> QED
  BY <1>1 DEF Streaming, Sealer, Budgeted

(* encrypt is handed bytes.                                                *)
LEMMA BytesKeep ==
  ASSUME CipherIInv, NEW n \in 1..MaxSent, Encrypted!on_bytes(n)
  PROVE  CipherIInv'
<1>1. /\ cipher' = cipher /\ Mode = "stream" /\ plaintext' = plaintext + n
      /\ feed' = [i \in 1..n |-> plaintext + i] /\ Encrypted!announce
      /\ UNCHANGED <<session, fed, issued, pending, sealing, pool, nonces, records, opener>>
  BY DEF Encrypted!on_bytes, Encrypted!decrypt, Mode
<1>2. n \in Nat /\ plaintext \in Nat /\ plaintext + n \in Nat
  BY CodecsAssumption DEF CipherIInv, Drawing
<1>3. feed' \in Seq(Int)
  BY <1>1, <1>2
<1>4. Drawing'
  BY <1>1, <1>2, AnnouncesKey, Zenon DEF CipherIInv, Drawing
<1>5. Fresh'
  BY <1>1, StaysFresh, Zenon DEF CipherIInv
<1>6. Streaming'
  <2>1. Sealer'
    BY <1>1, <1>3 DEF CipherIInv, Streaming, Sealer
  <2>2. Family' = Family /\ Rotate' = Rotate
    BY <1>1, OptionsStay
  <2>3. Budgeted'
    BY <1>1, <2>2, OptionsStay DEF CipherIInv, Streaming, Budgeted
  <2> QED
    BY <2>1, <2>3 DEF Streaming
<1>7. Recording'
  BY <1>1, OneMode, Zenon DEF CipherIInv, Drawing
<1>8. Announced'
  BY <1>1, AnnouncesKey, Zenon DEF CipherIInv, Drawing
<1> QED
  BY <1>4, <1>5, <1>6, <1>7, <1>8 DEF CipherIInv

(* A session that is opened is a draw, and fresh.                          *)
LEMMA OpensFresh ==
  ASSUME Drawing, Fresh, cipher' = cipher,
         IF session = Encrypted!Closed THEN Encrypted!Draws ELSE UNCHANGED <<pool, nonces>>
  PROVE  /\ pool' \in [draw : Nat, used : 0..Pool] /\ nonces' \in Seq(Draw) /\ Fresh'
         /\ session = <<>> => Encrypted!Drawn \in Draw
<1>1. CASE session = <<>>
  BY <1>1, DrawsFresh DEF Encrypted!Closed
<1>2. CASE session # <<>>
  <2>1. UNCHANGED <<pool, nonces>>
    BY <1>2, Zenon DEF Encrypted!Closed
  <2> QED
    BY <1>2, <2>1, StaysFresh DEF Drawing
<1> QED
  BY <1>1, <1>2

(* A session takes what the call has and it has room for.                  *)
LEMMA TakesInBudget ==
  ASSUME cipher \in Encrypted!Accepted, fed \in Nat, NEW n \in Nat,
         Rotate # -1 => fed <= Encrypted!allowance(cipher) + Encrypted!slack(cipher)
  PROVE  /\ Encrypted!Room(n) \in 0..n
         /\ Rotate # -1 =>
              fed + Encrypted!Room(n) <= Encrypted!allowance(cipher) + Encrypted!slack(cipher)
<1> DEFINE limit == Encrypted!allowance(cipher) + Encrypted!slack(cipher)
<1>1. CASE Rotate = -1
  <2>1. Encrypted!Room(n) = n
    BY <1>1, Zenon DEF Encrypted!Room, Rotate, Encrypted!Unset
  <2> QED
    BY <1>1, <2>1
<1>2. CASE Rotate # -1
  <2>1. Encrypted!allowance(cipher) \in Int /\ CipherBlock \in Nat
    BY <1>2, Configured, CodecsAssumption
  <2>2. Encrypted!slack(cipher) \in Int
    BY <2>1 DEF Encrypted!slack
  <2>3. limit \in Int /\ fed <= limit
    BY <1>2, <2>1, <2>2
  <2>4. Encrypted!Room(n) = IF n < limit - fed THEN n ELSE limit - fed
    <3> DEFINE spare == Encrypted!allowance(cipher) + (Encrypted!slack(cipher) - fed)
    <3>1. Encrypted!Room(n) = Encrypted!Least(n, spare)
      BY <1>2, Zenon DEF Encrypted!Room, Rotate, Encrypted!Unset
    <3>2. spare = limit - fed
      BY <2>1, <2>2
    <3> HIDE DEF limit, spare
    <3> QED
      BY <3>1, <3>2 DEF Encrypted!Least
  <2> HIDE DEF limit
  <2>5. Encrypted!Room(n) \in 0..n /\ fed + Encrypted!Room(n) <= limit
    BY <2>3, <2>4
  <2> QED
    BY <2>5 DEF limit
<1> QED
  BY <1>1, <1>2

(* What is emitted and left, and what was pending and taken.               *)
LEMMA SumsAgree ==
  ASSUME NEW e \in Nat, NEW p \in Nat, NEW t \in Nat, NEW o \in Nat, NEW r \in Nat, o + r = p + t
  PROVE  e + o \in Nat /\ (e + o) + r = (e + p) + t
OBVIOUS

(* What is emitted with less than a bound that is kept is within it.       *)
LEMMA SumsBound ==
  ASSUME NEW e \in Nat, NEW o \in Nat, NEW t \in Nat, NEW m \in Nat, NEW r \in Nat,
         t <= m, (e + o) + m <= r
  PROVE  e + (o + t) <= r
OBVIOUS

(* A nonce that was drawn is not the mark of a closed session.             *)
LEMMA DrawIsNot ==
  ASSUME NEW d \in Draw
  PROVE  d # <<>>
<1>1. d = <<d[1], d[2], d[3]>>
  BY DEF Draw
<1>2. Len(<<d[1], d[2], d[3]>>) = 3 /\ Len(<<>>) = 0
  OBVIOUS
<1>3. d = <<>> => Len(d) = 3 /\ Len(d) = 0
  BY <1>1, <1>2, Zenon
<1> QED
  BY <1>3

(* A session that is closed has room for one to open.                      *)
LEMMA RoomToStart ==
  ASSUME cipher \in Encrypted!Accepted, Rotate # -1
  PROVE  /\ 0 <= Encrypted!allowance(cipher) + Encrypted!slack(cipher)
         /\ 0 < Encrypted!allowance(cipher)
<1>1. Encrypted!allowance(cipher) \in Int /\ Encrypted!allowance(cipher) > 0
  BY Configured
<1>2. CipherBlock - 1 \in Nat
  BY CodecsAssumption
<1>3. Encrypted!slack(cipher) \in Nat
  BY <1>2 DEF Encrypted!slack
<1> QED
  BY <1>1, <1>3

(* One round of the loop of on_bytes.                                      *)
LEMMA SealSomeKeeps ==
  ASSUME CipherIInv, Encrypted!SealSome
  PROVE  CipherIInv'
<1> DEFINE starts == session = Encrypted!Closed
           nonce  == IF starts THEN Encrypted!Drawn ELSE session
           before == IF starts THEN 0 ELSE issued
           take   == Encrypted!Room(Len(feed))
           bytes  == SubSeq(feed, 1, take)
           sealed == Encrypted!Sealed(bytes)
           now    == before + Len(sealed.out)
           closes == Encrypted!Spent(now)
           tail   == IF closes THEN Encrypted!Epilogue(sealed.rest) ELSE <<>>
           out    == sealed.out \o tail
           opening_ == IF starts THEN Encrypted!NonceBytes(nonce) ELSE <<>>
           limit  == Encrypted!allowance(cipher) + Encrypted!slack(cipher)
<1>1. /\ feed # <<>> /\ feed' = SubSeq(feed, take + 1, Len(feed))
      /\ IF starts THEN Encrypted!Draws ELSE UNCHANGED <<pool, nonces>>
  BY Zenon DEF Encrypted!SealSome
<1>2. /\ session' = IF closes THEN Encrypted!Closed ELSE nonce
      /\ fed' = IF closes THEN 0 ELSE fed + take
      /\ issued' = IF closes THEN 0 ELSE now
      /\ pending' = IF closes THEN <<>> ELSE sealed.rest
  BY Zenon DEF Encrypted!SealSome
<1>3. records' = records \o opening_ \o Encrypted!Ciphertext(nonce, before, out)
  BY Zenon DEF Encrypted!SealSome
<1>4. UNCHANGED <<cipher, plaintext, sealing, announced, opener>>
  BY DEF Encrypted!SealSome, Encrypted!decrypt
<1>5. Mode = "stream" /\ Sealer /\ Budgeted
  BY <1>1, Configured, Zenon DEF CipherIInv, Drawing, Streaming, Recording
<1>6. cipher \in Encrypted!Accepted /\ Drawing /\ Fresh
  BY DEF CipherIInv, Drawing
<1>7. /\ pool' \in [draw : Nat, used : 0..Pool] /\ nonces' \in Seq(Draw) /\ Fresh'
      /\ nonce \in Draw
  <2>1. session = <<>> => Encrypted!Drawn \in Draw
    BY <1>1, <1>4, <1>6, OpensFresh, Zenon
  <2>2. nonce \in Draw
    BY <1>5, <2>1, Zenon DEF Sealer, Encrypted!Closed
  <2> QED
    BY <1>1, <1>4, <1>6, <2>2, OpensFresh, Zenon
<1>8. Drawing'
  BY <1>4, <1>6, <1>7, Zenon DEF Drawing
<1>9. before = issued /\ issued \in Nat /\ Len(pending) \in Nat /\ pending \in Seq(Int)
  <2>1. session = <<>> => issued = 0
    <3>1. fed = issued + Len(pending) /\ fed \in Nat /\ issued \in Nat /\ Len(pending) \in Nat
      BY <1>5, LenProperties DEF Sealer, Budgeted
    <3>2. session = <<>> => fed = 0
      BY <1>5 DEF Budgeted
    <3> QED
      BY <3>1, <3>2
  <2> QED
    BY <1>5, <2>1, LenProperties DEF Sealer, Encrypted!Closed
<1>10. /\ take \in 0..Len(feed) /\ Len(feed) \in Nat
       /\ Rotate # -1 => fed + take <= limit
  <2>1. Len(feed) \in Nat /\ fed \in Nat
    BY <1>5, LenProperties DEF Sealer
  <2>2. Rotate # -1 => fed <= limit
    BY <1>5, Zenon DEF Budgeted
  <2> QED
    BY <1>6, <2>1, <2>2, TakesInBudget, Zenon
<1>11. bytes \in Seq(Int) /\ Len(bytes) = take /\ feed' \in Seq(Int)
  <2> HIDE DEF take
  <2>1. feed \in Seq(Int)
    BY <1>5 DEF Sealer
  <2>2. \A i \in 1..Len(feed) : feed[i] \in Int
    BY <2>1, ElementOfSeq
  <2>3. /\ \A i \in 1..take : feed[i] \in Int
        /\ \A i \in (take + 1)..Len(feed) : feed[i] \in Int
        /\ 1 \in Int /\ take \in Int /\ take + 1 \in Int /\ Len(feed) \in Int
    BY <1>10, <2>2
  <2>4. /\ SubSeq(feed, 1, take) \in Seq(Int)
        /\ Len(SubSeq(feed, 1, take)) = IF 1 <= take THEN take - 1 + 1 ELSE 0
    BY <2>3, SubSeqProperties
  <2>5. SubSeq(feed, take + 1, Len(feed)) \in Seq(Int)
    BY <2>3, SubSeqProperties
  <2> QED
    BY <1>1, <1>10, <2>4, <2>5
<1>12. /\ sealed.out \in Seq(Int) /\ sealed.rest \in Seq(Int)
       /\ Len(sealed.out) \in Nat /\ Len(sealed.rest) \in Nat
       /\ Len(sealed.out) + Len(sealed.rest) = Len(pending) + Len(bytes)
       /\ Family = "block" =>
            /\ Len(sealed.rest) < CipherBlock
            /\ \A m \in Nat : m % CipherBlock = 0 => (m + Len(sealed.out)) % CipherBlock = 0
  BY <1>9, <1>11, SealedIs, Zenon
<1>13. Family = "block" => now % CipherBlock = 0
  BY <1>5, <1>9, <1>12, Zenon DEF Budgeted
<1> HIDE DEF take, bytes, sealed, before, starts
<1>14. now \in Nat /\ now + Len(sealed.rest) = fed + take
  <2>1. fed = issued + Len(pending)
    BY <1>5 DEF Budgeted
  <2> QED
    <3>1. /\ Len(bytes) \in Nat /\ Len(pending) \in Nat /\ issued \in Nat
          /\ Len(sealed.out) \in Nat /\ Len(sealed.rest) \in Nat
          /\ Len(sealed.out) + Len(sealed.rest) = Len(pending) + Len(bytes)
      BY <1>9, <1>11, <1>12, LenProperties, Zenon
    <3>2. /\ issued + Len(sealed.out) \in Nat
          /\ (issued + Len(sealed.out)) + Len(sealed.rest) = (issued + Len(pending)) + Len(bytes)
      <4> DEFINE o == Len(sealed.out)
                 r == Len(sealed.rest)
                 p == Len(pending)
                 t == Len(bytes)
      <4>1. t \in Nat /\ p \in Nat /\ issued \in Nat /\ o \in Nat /\ r \in Nat /\ o + r = p + t
        BY <3>1, Zenon
      <4> HIDE DEF o, r, p, t
      <4>2. issued + o \in Nat /\ (issued + o) + r = (issued + p) + t
        BY <4>1, SumsAgree
      <4> QED
        BY <4>2, Zenon DEF o, r, p, t
    <3>3. before = issued /\ Len(bytes) = take
      BY <1>9, <1>11, Zenon
    <3> QED
      BY <2>1, <3>2, <3>3, Zenon
<1> HIDE DEF now
<1>15. Rotate # -1 =>
         /\ now <= limit
         /\ now + (IF Encrypted!pads THEN CipherBlock ELSE 0) <= Rotate
  <2> SUFFICES ASSUME Rotate # -1
               PROVE  /\ now <= limit
                      /\ now + (IF Encrypted!pads THEN CipherBlock ELSE 0) <= Rotate
    OBVIOUS
  <2>1. limit \in Int
    <3>1. Encrypted!allowance(cipher) \in Int /\ CipherBlock \in Nat
      BY <1>6, Configured, CodecsAssumption
    <3> QED
      BY <3>1 DEF Encrypted!slack
  <2>2. fed + take <= limit /\ fed \in Nat
    BY <1>5, <1>10, Zenon DEF Sealer
  <2> HIDE DEF limit
  <2>3. now <= limit
    BY <1>10, <1>12, <1>14, <2>1, <2>2
  <2> QED
    BY <1>6, <1>13, <1>14, <2>3, BudgetHolds, Zenon DEF limit
<1>16. /\ tail \in Seq(Int) /\ out \in Seq(Int)
       /\ Len(out) = Len(sealed.out) + Len(tail)
       /\ Len(tail) = IF closes /\ Encrypted!pads THEN CipherBlock ELSE 0
  <2>1. /\ Encrypted!Epilogue(sealed.rest) \in Seq(Int)
        /\ Len(Encrypted!Epilogue(sealed.rest)) = IF Encrypted!pads THEN CipherBlock ELSE 0
    BY <1>12, EpilogueIs, Zenon
  <2>2. <<>> \in Seq(Int) /\ Len(<<>>) = 0
    OBVIOUS
  <2>3. tail \in Seq(Int) /\ Len(tail) = IF closes /\ Encrypted!pads THEN CipherBlock ELSE 0
    <3>1. CASE closes
      BY <2>1, <3>1, Zenon
    <3>2. CASE ~closes
      <4>1. tail = <<>>
        BY <3>2, Zenon
      <4>2. (IF closes /\ Encrypted!pads THEN CipherBlock ELSE 0) = 0
        BY <3>2, Zenon
      <4> HIDE DEF tail
      <4> QED
        BY <2>2, <4>1, <4>2, Zenon
    <3> QED
      BY <3>1, <3>2
  <2> HIDE DEF tail
  <2> QED
    BY <1>12, <2>3, ConcatProperties, Zenon
<1> HIDE DEF tail, out
<1>17. Len(out) \in Nat /\ (Rotate # -1 => before + Len(out) <= Rotate)
  <2>1. CipherBlock \in Nat /\ (Rotate # -1 => Rotate \in Nat)
    BY <1>6, Configured, CodecsAssumption
  <2>2. Len(tail) \in Nat /\ Len(tail) <= IF Encrypted!pads THEN CipherBlock ELSE 0
    BY <1>16, <2>1
  <2> DEFINE more == IF Encrypted!pads THEN CipherBlock ELSE 0
  <2>3. more \in Nat
    BY <2>1
  <2>4. Rotate # -1 => now + more <= Rotate
    BY <1>15
  <2>5. Len(tail) <= more
    BY <2>2
  <2> HIDE DEF more
  <2>6. now = before + Len(sealed.out)
    BY DEF now
  <2>7. Len(out) \in Nat
    BY <1>12, <1>16, <2>2
  <2>8. ASSUME Rotate # -1 PROVE before + Len(out) <= Rotate
    <3>1. Rotate \in Nat /\ now + more <= Rotate /\ before \in Nat
      BY <1>9, <2>1, <2>4, <2>8
    <3> QED
      BY <1>12, <1>16, <2>2, <2>3, <2>5, <2>6, <3>1, SumsBound, ZenonT(40)
  <2> QED
    BY <2>7, <2>8
<1>18. /\ Encrypted!Ciphertext(nonce, before, out) \in Seq(CodedByte)
       /\ Within(Encrypted!Ciphertext(nonce, before, out), before + Len(out))
  <2> HIDE DEF nonce
  <2>1. before \in Nat
    BY <1>9
  <2> QED
    BY <1>7, <1>16, <2>1, CiphertextIs, Zenon
<1>19. opening_ \in Seq(CodedByte) /\ Within(opening_, 0)
  <2> HIDE DEF nonce
  <2>1. Encrypted!NonceBytes(nonce) \in Seq(CodedByte) /\ Within(Encrypted!NonceBytes(nonce), 0)
    BY <1>6, <1>7, NonceBytesAre, Zenon
  <2>2. <<>> \in Seq(CodedByte) /\ Within(<<>>, 0)
    BY DEF Within
  <2> QED
    BY <2>1, <2>2, Zenon
<1> HIDE DEF opening_, nonce
<1>20. /\ records' \in Seq(CodedByte)
       /\ Rotate # -1 => Within(records', Rotate)
  <2>1. records \in Seq(CodedByte) /\ (Rotate # -1 => Within(records, Rotate))
    BY <1>5, Zenon DEF Sealer, Budgeted, Within
  <2> DEFINE text == Encrypted!Ciphertext(nonce, before, out)
  <2>2. text \in Seq(CodedByte) /\ Within(text, before + Len(out))
    BY <1>18
  <2>3. records' = (records \o opening_) \o text
    BY <1>3
  <2> HIDE DEF text
  <2>4. records' \in Seq(CodedByte)
    BY <1>19, <2>1, <2>2, <2>3, ConcatProperties
  <2>5. ASSUME Rotate # -1 PROVE Within(records', Rotate)
    <3>1. Rotate \in Nat /\ 0 <= Rotate /\ before + Len(out) <= Rotate /\ before + Len(out) \in Nat
      BY <1>6, <1>9, <1>17, <2>5, Configured
    <3>2. Within(opening_, Rotate) /\ Within(text, Rotate)
      <4>1. Rotate \in Int /\ 0 \in Int /\ before + Len(out) \in Int
        BY <3>1
      <4> QED
        BY <1>19, <2>2, <3>1, <4>1, WithinMore, Zenon
    <3>3. records \o opening_ \in Seq(CodedByte) /\ Within(records \o opening_, Rotate)
      BY <1>19, <2>1, <2>5, <3>1, <3>2, WithinBoth
    <3> QED
      <4>1. Rotate \in Int
        BY <3>1
      <4> QED
        BY <2>2, <2>3, <3>2, <3>3, <4>1, WithinBoth, Zenon
  <2> QED
    BY <2>4, <2>5
<1>21. Sealer'
  <2>1. session' = <<>> \/ session' \in Draw
    BY <1>2, <1>7, Zenon DEF Encrypted!Closed
  <2>2. fed' \in Nat /\ issued' \in Nat
    <3>1. fed + take \in Nat
      BY <1>5, <1>10 DEF Sealer
    <3>2. 0 \in Nat
      OBVIOUS
    <3> QED
      BY <1>2, <1>14, <3>1, <3>2, Zenon
  <2>3. pending' \in Seq(Int)
    <3>1. <<>> \in Seq(Int)
      OBVIOUS
    <3> QED
      BY <1>2, <1>12, <3>1, Zenon
  <2> QED
    BY <1>11, <1>20, <2>1, <2>2, <2>3, Zenon DEF Sealer
<1>22. Streaming'
  <2>1. CASE closes
    <3>1. session' = <<>> /\ fed' = 0 /\ issued' = 0 /\ pending' = <<>>
      BY <1>2, <2>1, Zenon DEF Encrypted!Closed
    <3>2. Len(<<>>) = 0 /\ 0 = 0 + 0
      OBVIOUS
    <3>3. CipherBlock \in Nat \ {0} /\ 0 % CipherBlock = 0 /\ 0 < CipherBlock
      BY CodecsAssumption
    <3>4. Rotate # -1 => 0 <= limit /\ 0 < Encrypted!allowance(cipher)
      BY <1>6, RoomToStart, Zenon
    <3> QED
      BY <1>4, <1>20, <1>21, <3>1, <3>2, <3>3, <3>4, StreamsOn, Zenon
  <2>2. CASE ~closes
    <3>1. session' = nonce /\ fed' = fed + take /\ issued' = now /\ pending' = sealed.rest
      BY <1>2, <2>2, Zenon
    <3>2. session' # <<>>
      BY <1>7, <3>1, DrawIsNot, Zenon
    <3>3. Rotate # -1 => now < Encrypted!allowance(cipher)
      <4>1. ASSUME Rotate # -1 PROVE now < Encrypted!allowance(cipher)
        <5>1. ~(now >= Encrypted!allowance(cipher))
          BY <2>2, <4>1, Zenon DEF Encrypted!Spent, Rotate, Encrypted!Unset
        <5>2. Encrypted!allowance(cipher) \in Int
          BY <1>6, <4>1, Configured
        <5> QED
          BY <1>14, <5>1, <5>2
      <4> QED
        BY <4>1
    <3> QED
      BY <1>4, <1>10, <1>12, <1>13, <1>14, <1>20, <1>21, <3>1, <3>2, <3>3, StreamsOn, Zenon DEF now
  <2> QED
    BY <2>1, <2>2
<1>23. Recording'
  BY <1>4, <1>5, <1>6, OneMode, Zenon
<1>24. Announced'
  BY <1>4, StaysAnnounced DEF CipherIInv
<1> QED
  BY <1>7, <1>8, <1>22, <1>23, <1>24 DEF CipherIInv

(* encrypt comes to the end of its stream.                                 *)
LEMMA EofKeeps ==
  ASSUME CipherIInv, Encrypted!on_eof
  PROVE  CipherIInv'
<1> DEFINE fails == session # Encrypted!Closed /\ Family = "block" /\ ~Encrypted!pads /\ pending # <<>>
           stays == session = Encrypted!Closed \/ fails \/ Mode = "record"
           text  == Encrypted!Ciphertext(session, issued, Encrypted!Epilogue(pending))
           limit == Encrypted!allowance(cipher) + Encrypted!slack(cipher)
<1>1. /\ sealing = "open" /\ feed = <<>> /\ Encrypted!announce
      /\ sealing' = (IF fails THEN "failed" ELSE "ended")
      /\ records' = IF stays THEN records ELSE records \o text
  BY Zenon DEF Encrypted!on_eof, Encrypted!family, Family, Mode
<1>2. session' = <<>> /\ fed' = 0 /\ issued' = 0 /\ pending' = <<>>
  BY Zenon DEF Encrypted!on_eof, Encrypted!Closed
<1>3. UNCHANGED <<cipher, plaintext, feed, pool, nonces, severed, reading, header, opening, opened,
                  heldback, decrypted, opener>>
  BY DEF Encrypted!on_eof, Encrypted!decrypt
<1>4. cipher \in Encrypted!Accepted /\ Drawing /\ Fresh
  BY DEF CipherIInv, Drawing
<1> HIDE DEF fails
<1>5. Drawing'
  <2>1. sealing' \in States
    BY <1>1 DEF States
  <2>2. announced' \in {0, 1}
    BY <1>1, <1>3, <1>4, AnnouncesKey, Zenon DEF Drawing
  <2> QED
    BY <1>3, <1>4, <2>1, <2>2, Zenon DEF Drawing
<1>6. Fresh'
  BY <1>3, <1>4, StaysFresh, Zenon
<1>7. Announced'
  BY <1>1, <1>3, <1>4, AnnouncesKey, Zenon DEF Drawing
<1>8. CASE Mode = "stream"
  <2>1. Sealer /\ Budgeted
    BY <1>8, Zenon DEF CipherIInv, Streaming
  <2>2. records \in Seq(CodedByte) /\ (Rotate # -1 => Within(records, Rotate))
    BY <2>1, Zenon DEF Sealer, Budgeted, Within
  <2>3. records' \in Seq(CodedByte) /\ (Rotate # -1 => Within(records', Rotate))
    <3>1. CASE stays
      BY <1>1, <2>2, <3>1, Zenon
    <3>2. CASE ~stays
      <4> DEFINE tail == Encrypted!Epilogue(pending)
                 more == IF Encrypted!pads THEN CipherBlock ELSE 0
      <4>1. session \in Draw /\ issued \in Nat /\ pending \in Seq(Int)
        BY <2>1, <3>2, Zenon DEF Sealer, Encrypted!Closed
      <4>2. tail \in Seq(Int) /\ Len(tail) = more
        BY <2>1, <4>1, EpilogueIs, Zenon DEF Budgeted
      <4>3. text \in Seq(CodedByte) /\ Within(text, issued + Len(tail))
        BY <4>1, <4>2, CiphertextIs, Zenon
      <4>4. records' = records \o text
        BY <1>1, <3>2, Zenon
      <4> HIDE DEF tail, text
      <4>5. records' \in Seq(CodedByte)
        BY <2>2, <4>3, <4>4, ConcatProperties, Zenon
      <4>6. ASSUME Rotate # -1 PROVE Within(records', Rotate)
        <5>1. /\ Encrypted!allowance(cipher) \in Int /\ CipherBlock \in Nat
              /\ issued < Encrypted!allowance(cipher) /\ Rotate \in Int
          BY <1>4, <2>1, <4>6, Configured, CodecsAssumption DEF Budgeted
        <5>2. Encrypted!slack(cipher) \in Int /\ Encrypted!slack(cipher) >= 0
          <6>1. CipherBlock - 1 \in Nat
            BY CodecsAssumption
          <6> QED
            BY <6>1 DEF Encrypted!slack
        <5>3. issued <= limit
          BY <4>1, <5>1, <5>2
        <5>4. Family = "block" => issued % CipherBlock = 0
          BY <2>1 DEF Budgeted
        <5>5. issued + more <= Rotate
          BY <1>4, <4>1, <4>6, <5>3, <5>4, BudgetHolds, Zenon
        <5>6. more \in Nat
          BY <5>1
        <5> HIDE DEF more
        <5>7. issued + Len(tail) \in Int
          BY <4>1, <4>2, <5>6
        <5>8. Within(text, Rotate)
          BY <4>2, <4>3, <5>1, <5>5, <5>7, WithinMore, Zenon
        <5> QED
          BY <2>2, <4>3, <4>4, <4>6, <5>1, <5>8, WithinBoth, Zenon
      <4> QED
        BY <4>5, <4>6
    <3> QED
      BY <3>1, <3>2
  <2>4. Len(<<>>) = 0 /\ 0 = 0 + 0 /\ 0 \in Nat /\ <<>> \in Seq(Int)
    OBVIOUS
  <2>5. CipherBlock \in Nat \ {0} /\ 0 % CipherBlock = 0 /\ 0 < CipherBlock
    BY CodecsAssumption
  <2>6. Sealer'
    BY <1>2, <1>3, <2>1, <2>3, <2>4, Zenon DEF Sealer
  <2>7. Rotate # -1 => 0 <= limit /\ 0 < Encrypted!allowance(cipher)
    BY <1>4, RoomToStart, Zenon
  <2>8. Streaming'
    BY <1>2, <1>3, <2>3, <2>4, <2>5, <2>6, <2>7, StreamsOn, Zenon
  <2>9. Recording'
    BY <1>3, <1>4, <1>8, OneMode, Zenon
  <2> QED
    BY <1>5, <1>6, <1>7, <2>8, <2>9 DEF CipherIInv
<1>9. CASE Mode = "record"
  <2>1. records' = records
    BY <1>1, <1>9, Zenon
  <2>2. /\ Family' = Family /\ Encrypted!on_fail(cipher)' = Encrypted!on_fail(cipher)
    BY <1>3, OptionsStay
  <2>3. sealing' # "open"
    BY <1>1
  <2>4. Recording'
    BY <1>2, <1>3, <1>9, <2>1, <2>2, <2>3, Zenon DEF CipherIInv, Recording
  <2>5. Streaming'
    BY <1>3, <1>4, <1>9, OneMode, Zenon
  <2> QED
    BY <1>5, <1>6, <1>7, <2>4, <2>5 DEF CipherIInv
<1> QED
  BY <1>4, <1>8, <1>9, Configured, Zenon

(* encrypt is handed a message.                                            *)
LEMMA RecordKeeps ==
  ASSUME CipherIInv, NEW whole \in BOOLEAN, Encrypted!SealRecord(whole)
  PROVE  CipherIInv'
<1> DEFINE record == [of |-> Encrypted!Drawn, data |-> plaintext', damage |-> "none"]
<1>1. /\ Mode = "record" /\ sealing = "open" /\ plaintext' = plaintext + 1
      /\ Encrypted!announce /\ Encrypted!Draws
      /\ \/ sealing' = "failed" /\ records' = records
         \/ records' = Append(records, record) /\ sealing' = sealing
  BY Zenon DEF Encrypted!SealRecord, Mode
<1>2. UNCHANGED <<cipher, feed, session, severed, reading, header, opening, decrypted, opener>>
  BY DEF Encrypted!SealRecord, Encrypted!decrypt
<1>3. cipher \in Encrypted!Accepted /\ Drawing /\ Fresh /\ Recording
  BY DEF CipherIInv, Drawing
<1>4. /\ Encrypted!Drawn \in Draw /\ Fresh'
      /\ pool' \in [draw : Nat, used : 0..Pool] /\ nonces' \in Seq(Draw)
  BY <1>1, <1>2, <1>3, DrawsFresh, Zenon
<1>5. plaintext \in Nat /\ plaintext' \in Nat /\ plaintext' \in 1..plaintext'
  BY <1>1, <1>3 DEF Drawing
<1>6. Drawing'
  <2>1. sealing' \in States
    BY <1>1, <1>3 DEF States, Drawing
  <2>2. announced' \in {0, 1}
    BY <1>1, <1>2, <1>3, AnnouncesKey, Zenon DEF Drawing
  <2> QED
    BY <1>2, <1>3, <1>4, <1>5, <2>1, <2>2, Zenon DEF Drawing
<1>7. Announced'
  BY <1>1, <1>2, <1>3, AnnouncesKey, Zenon DEF Drawing
<1>8. record \in Record /\ record.data = plaintext'
  BY <1>4, <1>5 DEF Record
<1>9. records \in Seq(Record) /\ \A i \in 1..Len(records) : records[i].data \in 1..plaintext
  BY <1>1, <1>3, Zenon DEF Recording
<1>10. 1..plaintext \subseteq 1..plaintext'
  BY <1>1, <1>5
<1> HIDE DEF record
<1>11. records' \in Seq(Record) /\ \A i \in 1..Len(records') : records'[i].data \in 1..plaintext'
  <2>1. CASE records' = records
    BY <1>9, <1>10, <2>1, Zenon
  <2>2. CASE records' = Append(records, record)
    <3>1. /\ records' \in Seq(Record) /\ Len(records') = Len(records) + 1 /\ Len(records) \in Nat
          /\ \A i \in 1..Len(records) : records'[i] = records[i]
          /\ records'[Len(records) + 1] = record
      BY <1>8, <1>9, <2>2, AppendProperties, LenProperties
    <3>2. ASSUME NEW i \in 1..Len(records') PROVE records'[i].data \in 1..plaintext'
      <4>1. i = Len(records) + 1 \/ i \in 1..Len(records)
        BY <3>1
      <4> QED
        BY <1>5, <1>8, <1>9, <1>10, <3>1, <4>1, Zenon
    <3> QED
      BY <3>1, <3>2
  <2> QED
    BY <1>1, <2>1, <2>2
<1>12. /\ Family' = Family /\ Mode' = Mode /\ Encrypted!on_fail(cipher)' = Encrypted!on_fail(cipher)
  BY <1>2, OptionsStay
<1>13. Recording'
  <2>1. opener # "open" => \/ Encrypted!on_fail(cipher) = "error" /\ opener = "failed"
                           \/ Encrypted!on_fail(cipher) = "halt" /\ opener = "ended"
    BY <1>1, <1>3, Zenon DEF Recording
  <2>2. Family = "aead" => \A i \in 1..Len(decrypted) : decrypted[i] \in 1..plaintext'
    BY <1>1, <1>3, <1>10, Zenon DEF Recording
  <2>3. decrypted \in Seq(Int) /\ feed = <<>> /\ reading = <<>> /\ header = <<>> /\ opening = <<>>
        /\ session = <<>> /\ ~severed
    BY <1>1, <1>3, Zenon DEF Recording
  <2> QED
    BY <1>2, <1>11, <1>12, <2>1, <2>2, <2>3, Zenon DEF Recording
<1>14. Streaming'
  BY <1>1, <1>2, <1>3, OneMode, Zenon
<1> QED
  BY <1>4, <1>6, <1>7, <1>13, <1>14 DEF CipherIInv

-----------------------------------------------------------------------------
(* The way between them, and opening.                                      *)

(* A step in a stream that leaves encrypt alone, and of the bytes on the   *)
(* way leaves some.                                                        *)
LEMMA FarEndKeeps ==
  ASSUME CipherIInv, Mode = "stream", UNCHANGED <<cipher, plaintext, Encrypted!sealer>>,
         opener' \in States, records' \in Seq(CodedByte),
         Rotate # -1 /\ Within(records, Rotate) => Within(records', Rotate)
  PROVE  CipherIInv'
<1>1. UNCHANGED <<feed, session, fed, issued, pending, sealing, announced, pool, nonces>>
  BY DEF Encrypted!sealer
<1>2. cipher \in Encrypted!Accepted /\ Drawing /\ Fresh /\ Announced /\ Sealer /\ Budgeted
  BY DEF CipherIInv, Drawing, Streaming
<1>3. Drawing'
  BY <1>1, <1>2, Zenon DEF Drawing
<1>4. Fresh'
  BY <1>1, <1>2, StaysFresh, Zenon
<1>5. Announced'
  BY <1>1, <1>2, StaysAnnounced, Zenon
<1>6. Sealer'
  BY <1>1, <1>2, Zenon DEF Sealer
<1>7. Rotate # -1 => Within(records', Rotate)
  BY <1>2, Zenon DEF Budgeted, Within
<1>8. Streaming'
  BY <1>1, <1>2, <1>6, <1>7, StreamsOn, Zenon DEF Budgeted
<1>9. Recording'
  BY <1>2, OneMode, Zenon
<1> QED
  BY <1>3, <1>4, <1>5, <1>8, <1>9 DEF CipherIInv

(* The connection is cut.                                                  *)
LEMMA CutKeeps ==
  ASSUME CipherIInv, Encrypted!Cut
  PROVE  CipherIInv'
<1>1. /\ Mode = "stream" /\ UNCHANGED <<cipher, plaintext, Encrypted!sealer, opener>>
      /\ \E n \in 0..Len(records) : records' = SubSeq(records, 1, n)
  BY DEF Encrypted!Cut, Encrypted!decrypt, Mode
<1>2. PICK n \in 0..Len(records) : records' = SubSeq(records, 1, n)
  BY <1>1
<1>3. records \in Seq(CodedByte) /\ opener \in States
  BY <1>1 DEF CipherIInv, Streaming, Sealer, Drawing
<1>4. 1 \in 1..(Len(records) + 1)
  BY <1>3, LenProperties
<1>5. records' \in Seq(CodedByte)
  <2>1. \A i \in 1..n : records[i] \in CodedByte
    BY <1>3, ElementOfSeq
  <2>2. 1 \in Int /\ n \in Int
    OBVIOUS
  <2> QED
    BY <1>2, <2>1, <2>2, SubSeqProperties
<1>6. ASSUME Within(records, Rotate) PROVE Within(records', Rotate)
  BY <1>2, <1>3, <1>4, <1>6, WithinPart, Zenon
<1> QED
  BY <1>1, <1>3, <1>5, <1>6, FarEndKeeps, Zenon

(* decrypt is handed bytes.                                                *)
LEMMA ReadKeeps ==
  ASSUME CipherIInv, NEW n \in 1..Len(records), Encrypted!Read(n)
  PROVE  CipherIInv'
<1>1. /\ Mode = "stream" /\ UNCHANGED <<cipher, plaintext, Encrypted!sealer, opener>>
      /\ records' = SubSeq(records, n + 1, Len(records))
  BY DEF Encrypted!Read, Mode
<1>2. records \in Seq(CodedByte) /\ opener \in States
  BY <1>1 DEF CipherIInv, Streaming, Sealer, Drawing
<1>3. Len(records) \in Nat /\ n + 1 \in 1..(Len(records) + 1) /\ Len(records) \in 0..Len(records)
  BY <1>2, LenProperties
<1>4. records' \in Seq(CodedByte)
  <2>1. \A i \in (n + 1)..Len(records) : records[i] \in CodedByte
    BY <1>2, <1>3, ElementOfSeq
  <2>2. n + 1 \in Int /\ Len(records) \in Int
    BY <1>3
  <2> QED
    BY <1>1, <2>1, <2>2, SubSeqProperties
<1>5. ASSUME Within(records, Rotate) PROVE Within(records', Rotate)
  BY <1>1, <1>2, <1>3, <1>5, WithinPart, Zenon
<1> QED
  BY <1>1, <1>2, <1>4, <1>5, FarEndKeeps, Zenon

(* What decrypt has been handed is of a stream.                            *)
LEMMA ReadingIsAStream ==
  ASSUME CipherIInv, reading # <<>>
  PROVE  Mode = "stream"
BY Configured, Zenon DEF CipherIInv, Drawing, Recording

(* decrypt looks at the bytes it was handed.                               *)
LEMMA LooksKeep ==
  ASSUME CipherIInv, Encrypted!CollectNonce \/ Encrypted!OpenSome
  PROVE  CipherIInv'
<1>1. /\ reading # <<>> /\ UNCHANGED <<cipher, plaintext, Encrypted!sealer, records>>
      /\ opener' \in {opener, "failed"}
  <2>1. CASE Encrypted!CollectNonce
    BY <2>1 DEF Encrypted!CollectNonce
  <2>2. CASE Encrypted!OpenSome
    <3> DEFINE plain == [i \in 1..Encrypted!Takes |-> Encrypted!Plain(reading[i], opened + i)]
               rest == Encrypted!Opened(plain).rest
    <3>1. reading # <<>> /\ UNCHANGED <<cipher, plaintext, Encrypted!sealer, records>>
      BY <2>2 DEF Encrypted!OpenSome
    <3>2. \/ \E ok \in BOOLEAN : opener' = IF ok THEN opener ELSE "failed"
          \/ opener' = opener
      BY <2>2, Zenon DEF Encrypted!OpenSome
    <3> QED
      BY <3>1, <3>2
  <2> QED
    BY <2>1, <2>2
<1>2. Mode = "stream"
  BY <1>1, ReadingIsAStream
<1>3. opener' \in States /\ records' \in Seq(CodedByte)
  BY <1>1, <1>2 DEF CipherIInv, Drawing, States, Streaming, Sealer
<1> QED
  BY <1>1, <1>2, <1>3, FarEndKeeps, Zenon

(* decrypt comes to the end of its stream.                                 *)
LEMMA DecryptEofKeeps ==
  ASSUME CipherIInv, Encrypted!DecryptEof
  PROVE  CipherIInv'
<1>1. /\ opener = "open" /\ records = <<>> /\ (sealing # "open" \/ severed)
      /\ UNCHANGED <<cipher, plaintext, Encrypted!sealer, records, severed, reading>>
      /\ opening' = <<>> /\ header' = <<>>
  BY DEF Encrypted!DecryptEof, Encrypted!Closed
<1>2. opener' \in {"ended", "failed"}
  <2>1. CASE opening = Encrypted!Closed
    BY <2>1 DEF Encrypted!DecryptEof
  <2>2. CASE opening # Encrypted!Closed
    <3>1. \E ok \in BOOLEAN : opener' = IF ok THEN "ended" ELSE "failed"
      BY <2>2, Zenon DEF Encrypted!DecryptEof
    <3> QED
      BY <3>1
  <2> QED
    BY <2>1, <2>2
<1>3. CASE Mode = "stream"
  <2>1. opener' \in States /\ records' \in Seq(CodedByte)
    BY <1>1, <1>2, <1>3 DEF CipherIInv, States, Streaming, Sealer
  <2> QED
    BY <1>1, <1>3, <2>1, FarEndKeeps, Zenon
<1>4. CASE Mode = "record"
  <2>1. Recording /\ cipher \in Encrypted!Accepted /\ Drawing /\ Fresh /\ Announced
    BY DEF CipherIInv, Drawing
  <2>2. opening = <<>> /\ header = <<>> /\ ~severed
    BY <1>4, <2>1 DEF Recording
  <2>3. opener' = "ended" /\ decrypted' = decrypted
    BY <2>2, Zenon DEF Encrypted!DecryptEof, Encrypted!Closed
  <2>4. /\ UNCHANGED <<feed, session, sealing, announced, pool, nonces>> /\ sealing # "open"
        /\ Family' = Family
    BY <1>1, <2>2, OptionsStay DEF Encrypted!sealer
  <2>5. Recording'
    BY <1>1, <1>4, <2>1, <2>3, <2>4, Zenon DEF Recording
  <2>6. "ended" \in States
    BY DEF States
  <2>7. Drawing'
    BY <1>1, <2>1, <2>3, <2>4, <2>6, Zenon DEF Drawing
  <2>8. Fresh'
    BY <1>1, <2>1, <2>4, StaysFresh, Zenon
  <2>9. Announced'
    BY <1>1, <2>1, <2>4, StaysAnnounced, Zenon
  <2>10. Streaming'
    BY <1>1, <1>4, <2>1, OneMode, Zenon
  <2> QED
    BY <2>5, <2>7, <2>8, <2>9, <2>10 DEF CipherIInv
<1> QED
  BY <1>3, <1>4, Configured DEF CipherIInv, Drawing

(* Records of messages that were sent.                                     *)
Sent == {r \in Record : r.data \in 1..plaintext}

(* What is on the way is of messages that were sent.                       *)
LEMMA RecordsAreSent ==
  ASSUME NEW s
  PROVE  /\ s \in Seq(Record) /\ (\A i \in 1..Len(s) : s[i].data \in 1..plaintext) => s \in Seq(Sent)
         /\ s \in Seq(Sent) => s \in Seq(Record) /\ \A i \in 1..Len(s) : s[i].data \in 1..plaintext
<1>1. ASSUME s \in Seq(Record), \A i \in 1..Len(s) : s[i].data \in 1..plaintext
      PROVE  s \in Seq(Sent)
  <2>1. Len(s) \in Nat /\ s = [i \in 1..Len(s) |-> s[i]]
    BY <1>1, LenProperties
  <2>2. \A i \in 1..Len(s) : s[i] \in Sent
    BY <1>1, ElementOfSeq DEF Sent
  <2>3. \A n \in Nat : [1..n -> Sent] \subseteq Seq(Sent)
    OBVIOUS
  <2> QED
    BY <2>1, <2>2, <2>3
<1>2. ASSUME s \in Seq(Sent)
      PROVE  s \in Seq(Record) /\ \A i \in 1..Len(s) : s[i].data \in 1..plaintext
  <2>1. \A i \in 1..Len(s) : s[i] \in Sent
    BY <1>2, ElementOfSeq
  <2>2. Sent \subseteq Record
    BY DEF Sent
  <2>3. s \in Seq(Record)
    BY <1>2, <2>2
  <2> QED
    BY <2>1, <2>3 DEF Sent
<1> QED
  BY <1>1, <1>2

(* A network between them loses, repeats, overtakes and damages.           *)
LEMMA NetworkKeeps ==
  ASSUME CipherIInv, Encrypted!Network
  PROVE  CipherIInv'
<1>1. /\ Mode = "record" /\ records # <<>>
      /\ Encrypted!Lose \/ Encrypted!Duplicate \/ Encrypted!Overtake \/ Encrypted!Damage
      /\ UNCHANGED <<cipher, plaintext, severed, Encrypted!sealer, Encrypted!decrypt>>
  BY DEF Encrypted!Network, Mode
<1>2. UNCHANGED <<feed, session, sealing, announced, pool, nonces, reading, header, opening, decrypted,
                  opener>>
  BY <1>1 DEF Encrypted!sealer, Encrypted!decrypt
<1>3. Recording /\ cipher \in Encrypted!Accepted /\ Drawing /\ Fresh /\ Announced
  BY DEF CipherIInv, Drawing
<1>4. records \in Seq(Sent)
  BY <1>1, <1>3, RecordsAreSent, Zenon DEF Recording
<1>5. Len(records) \in Nat /\ Len(records) >= 1 /\ \A i \in 1..Len(records) : records[i] \in Sent
  BY <1>1, <1>4, ElementOfSeq, LenProperties, EmptySeq
<1>6. records' \in Seq(Sent)
  <2>1. CASE Encrypted!Lose
    BY <1>1, <1>4, <2>1, HeadTailProperties DEF Encrypted!Lose
  <2>2. CASE Encrypted!Duplicate
    <3>1. Head(records) \in Sent
      BY <1>1, <1>4, HeadTailProperties
    <3>2. <<Head(records)>> \in Seq(Sent)
      BY <3>1
    <3>3. records' = <<Head(records)>> \o records
      BY <2>2, Zenon DEF Encrypted!Duplicate
    <3> QED
      BY <1>4, <3>2, <3>3, ConcatProperties
  <2>3. CASE Encrypted!Overtake
    <3>1. Len(records) > 1 /\ records' = <<records[2], records[1]>> \o SubSeq(records, 3, Len(records))
      BY <2>3, Zenon DEF Encrypted!Overtake
    <3>2. records[1] \in Sent /\ records[2] \in Sent
      BY <1>5, <3>1
    <3>3. <<records[2], records[1]>> \in Seq(Sent)
      BY <3>2
    <3>4. SubSeq(records, 3, Len(records)) \in Seq(Sent)
      <4>1. /\ \A i \in 3..Len(records) : records[i] \in Sent
            /\ 3 \in Int /\ Len(records) \in Int
        BY <1>5
      <4> QED
        BY <4>1, SubSeqProperties
    <3> QED
      BY <3>1, <3>3, <3>4, ConcatProperties
  <2>4. CASE Encrypted!Damage
    <3>1. PICK d \in {"short", "altered"} : records' = [records EXCEPT ![1].damage = d]
      BY <2>4 DEF Encrypted!Damage
    <3> DEFINE r == [records[1] EXCEPT !.damage = d]
    <3>2. records[1] \in Sent
      BY <1>5
    <3>3. r \in Sent
      BY <3>2 DEF Sent, Record
    <3>4. records' = [records EXCEPT ![1] = r]
      BY <3>1
    <3> HIDE DEF r
    <3> QED
      BY <1>4, <1>5, <3>3, <3>4, ExceptSeq
  <2> QED
    BY <1>1, <2>1, <2>2, <2>3, <2>4
<1>7. records' \in Seq(Record) /\ \A i \in 1..Len(records') : records'[i].data \in 1..plaintext
  BY <1>6, RecordsAreSent, Zenon
<1>8. Recording'
  <2>1. /\ Family' = Family /\ Encrypted!on_fail(cipher)' = Encrypted!on_fail(cipher)
    BY <1>1, OptionsStay
  <2>2. opener # "open" => \/ Encrypted!on_fail(cipher) = "error" /\ opener = "failed"
                           \/ Encrypted!on_fail(cipher) = "halt" /\ opener = "ended"
    BY <1>1, <1>3, Zenon DEF Recording
  <2> QED
    BY <1>1, <1>2, <1>3, <1>7, <2>1, <2>2, Zenon DEF Recording
<1>9. Drawing'
  BY <1>1, <1>2, <1>3, Zenon DEF Drawing
<1>10. Fresh'
  BY <1>1, <1>2, <1>3, StaysFresh, Zenon
<1>11. Announced'
  BY <1>1, <1>2, <1>3, StaysAnnounced, Zenon
<1>12. Streaming'
  BY <1>1, <1>3, OneMode, Zenon
<1> QED
  BY <1>8, <1>9, <1>10, <1>11, <1>12 DEF CipherIInv

(* What comes of a record is its message, or a number that is none; under  *)
(* an authenticated cipher it is its message.                              *)
LEMMA OpensAsIs ==
  ASSUME cipher \in Encrypted!Accepted, NEW r \in Sent, NEW out \in Encrypted!OpensAs(r),
         out # Encrypted!Unset
  PROVE  out \in Int /\ (Family = "aead" => out \in 1..plaintext)
<1>1. r.data \in Int /\ r.data \in 1..plaintext
  BY DEF Sent, Record
<1>2. Encrypted!family = Family
  BY DEF Encrypted!family, Family
<1>3. CASE Family = "aead"
  <2>1. Encrypted!OpensAs(r) \subseteq {Encrypted!Unset, r.data}
    BY <1>2, <1>3, Zenon DEF Encrypted!OpensAs, Encrypted!AeadOpens
  <2> QED
    BY <1>1, <1>3, <2>1
<1>4. CASE Family = "block"
  <2>1. Encrypted!OpensAs(r) \subseteq {Encrypted!Unset, Encrypted!Garbage, r.data}
    BY <1>2, <1>4 DEF Encrypted!OpensAs, Encrypted!BlockOpens
  <2> QED
    BY <1>1, <1>4, <2>1 DEF Encrypted!Garbage, Encrypted!Unset
<1>5. CASE Family = "keystream"
  <2>1. Encrypted!OpensAs(r) \subseteq {Encrypted!Unset, Encrypted!Garbage, r.data}
    BY <1>2, <1>5 DEF Encrypted!OpensAs, Encrypted!KeystreamOpens
  <2> QED
    BY <1>1, <1>5, <2>1 DEF Encrypted!Garbage, Encrypted!Unset
<1> QED
  BY <1>3, <1>4, <1>5, Configured

(* decrypt is handed a record.                                             *)
LEMMA OpenRecordKeeps ==
  ASSUME CipherIInv, Encrypted!OpenRecord
  PROVE  CipherIInv'
<1>1. /\ Mode = "record" /\ opener = "open" /\ records # <<>> /\ records' = Tail(records)
      /\ UNCHANGED <<cipher, plaintext, severed, Encrypted!sealer, reading, header, opening>>
  BY DEF Encrypted!OpenRecord, Mode
<1>2. PICK out \in Encrypted!OpensAs(Head(records)) :
        IF out = Encrypted!Unset THEN Encrypted!Rejects /\ UNCHANGED decrypted
        ELSE decrypted' = Append(decrypted, out) /\ UNCHANGED opener
  BY Zenon DEF Encrypted!OpenRecord
<1>3. UNCHANGED <<feed, session, sealing, announced, pool, nonces>>
  BY <1>1 DEF Encrypted!sealer
<1>4. Recording /\ cipher \in Encrypted!Accepted /\ Drawing /\ Fresh /\ Announced
  BY DEF CipherIInv, Drawing
<1>5. records \in Seq(Sent) /\ Head(records) \in Sent /\ Tail(records) \in Seq(Sent)
  <2>1. records \in Seq(Sent)
    BY <1>1, <1>4, RecordsAreSent, Zenon DEF Recording
  <2> QED
    BY <1>1, <2>1, HeadTailProperties
<1>6. records' \in Seq(Record) /\ \A i \in 1..Len(records') : records'[i].data \in 1..plaintext
  BY <1>1, <1>5, RecordsAreSent, Zenon
<1>7. decrypted \in Seq(Int) /\ (Family = "aead" => \A i \in 1..Len(decrypted) : decrypted[i] \in 1..plaintext)
  BY <1>1, <1>4 DEF Recording
<1>8. /\ opener' # "open" => \/ Encrypted!on_fail(cipher) = "error" /\ opener' = "failed"
                             \/ Encrypted!on_fail(cipher) = "halt" /\ opener' = "ended"
      /\ opener' \in States
  <2>1. CASE out = Encrypted!Unset
    <3>1. opener' = CASE Encrypted!on_fail(cipher) = "error" -> "failed"
                      [] Encrypted!on_fail(cipher) = "halt" -> "ended"
                      [] OTHER -> opener
      BY <1>2, <2>1, Zenon DEF Encrypted!Rejects
    <3> QED
      BY <1>1, <3>1 DEF States
  <2>2. CASE out # Encrypted!Unset
    BY <1>1, <1>2, <2>2 DEF States
  <2> QED
    BY <2>1, <2>2
<1>9. /\ decrypted' \in Seq(Int)
      /\ Family = "aead" => \A i \in 1..Len(decrypted') : decrypted'[i] \in 1..plaintext
  <2>1. CASE out = Encrypted!Unset
    BY <1>2, <1>7, <2>1
  <2>2. CASE out # Encrypted!Unset
    <3>1. out \in Int /\ (Family = "aead" => out \in 1..plaintext) /\ decrypted' = Append(decrypted, out)
      BY <1>2, <1>4, <1>5, <2>2, OpensAsIs, Zenon
    <3>2. /\ decrypted' \in Seq(Int) /\ Len(decrypted') = Len(decrypted) + 1 /\ Len(decrypted) \in Nat
          /\ \A i \in 1..Len(decrypted) : decrypted'[i] = decrypted[i]
          /\ decrypted'[Len(decrypted) + 1] = out
      BY <1>7, <3>1, AppendProperties, LenProperties
    <3>3. ASSUME NEW i \in 1..Len(decrypted'), Family = "aead" PROVE decrypted'[i] \in 1..plaintext
      <4>1. i = Len(decrypted) + 1 \/ i \in 1..Len(decrypted)
        BY <3>2
      <4> QED
        BY <1>7, <3>1, <3>2, <3>3, <4>1, Zenon
    <3> QED
      BY <3>2, <3>3, Zenon
  <2> QED
    BY <2>1, <2>2
<1>10. Recording'
  <2>1. /\ Family' = Family /\ Encrypted!on_fail(cipher)' = Encrypted!on_fail(cipher)
    BY <1>1, OptionsStay
  <2> QED
    BY <1>1, <1>3, <1>4, <1>6, <1>8, <1>9, <2>1, Zenon DEF Recording
<1>11. Drawing'
  BY <1>1, <1>3, <1>4, <1>8, Zenon DEF Drawing
<1>12. Fresh'
  BY <1>1, <1>3, <1>4, StaysFresh, Zenon
<1>13. Announced'
  BY <1>1, <1>3, <1>4, StaysAnnounced, Zenon
<1>14. Streaming'
  BY <1>1, <1>4, OneMode, Zenon
<1> QED
  BY <1>10, <1>11, <1>12, <1>13, <1>14 DEF CipherIInv

-----------------------------------------------------------------------------
(* Every message that nothing befell comes out.                            *)

(* A step that keeps what is on its way, and what came out, and puts a     *)
(* message on its way only as it counts it.                                *)
LEMMA ReachesStill ==
  ASSUME Reaches, cipher' = cipher, plaintext' = plaintext, records' = records, harmed' = harmed,
         decrypted' = decrypted
  PROVE  Reaches'
BY OptionsStay, Zenon DEF Reaches, Came, Going

(* A record that nothing befell opens to its message.                      *)
LEMMA IntactOpens ==
  ASSUME cipher \in Encrypted!Accepted, NEW r, r.damage = "none"
  PROVE  Encrypted!OpensAs(r) = {r.data}
<1>1. "none" # "short" /\ Family \in {"block", "keystream", "aead"}
  BY Configured
<1>2. CASE Family = "aead"
  BY <1>1, <1>2 DEF Encrypted!OpensAs, Encrypted!AeadOpens, Encrypted!family, Family
<1>3. CASE Family = "block"
  BY <1>1, <1>3 DEF Encrypted!OpensAs, Encrypted!BlockOpens, Encrypted!family, Family
<1>4. CASE Family = "keystream"
  BY <1>1, <1>4 DEF Encrypted!OpensAs, Encrypted!KeystreamOpens, Encrypted!family, Family
<1> QED
  BY <1>1, <1>2, <1>3, <1>4

(* A message that is sealed is on its way, or is counted as not sealed.    *)
LEMMA SealReaches ==
  ASSUME CipherIInv, Reaches, NEW whole \in BOOLEAN, Encrypted!SealRecord(whole)
  PROVE  Reaches'
<1> DEFINE n == plaintext'
           record == [of |-> Encrypted!Drawn, data |-> n, damage |-> "none"]
<1>1. /\ Mode = "record" /\ n = plaintext + 1
      /\ \/ harmed' = harmed \cup {n} /\ records' = records
         \/ records' = Append(records, record) /\ harmed' = harmed
      /\ cipher' = cipher /\ decrypted' = decrypted
  BY Zenon DEF Encrypted!SealRecord, Encrypted!decrypt, Mode
<1>2. /\ \A m \in 1..plaintext : m \in harmed \/ Came(m) \/ Going(m)
      /\ \A i \in 1..Len(records) : records[i].damage # "none" => records[i].data \in harmed
  BY <1>1 DEF Reaches
<1>3. record.data = n /\ record.damage = "none"
  OBVIOUS
<1>4. plaintext \in Nat /\ records \in Seq(Record)
  BY <1>1 DEF CipherIInv, Drawing, Recording
<1>5. \A m \in 1..n : m = n \/ m \in 1..plaintext
  BY <1>1, <1>4
<1> HIDE DEF n, record
<1>6. \A m : Came(m)' <=> Came(m)
  BY <1>1 DEF Came
<1>7. /\ \A m \in 1..n : m \in harmed' \/ Came(m)' \/ Going(m)'
      /\ \A i \in 1..Len(records') : records'[i].damage # "none" => records'[i].data \in harmed'
  <2>1. CASE harmed' = harmed \cup {n} /\ records' = records
    BY <1>2, <1>5, <1>6, <2>1, Zenon DEF Going
  <2>2. CASE records' = Append(records, record) /\ harmed' = harmed
    <3> DEFINE l == Len(records)
    <3>1. l \in Nat /\ Len(records') = l + 1
      BY <1>4, <2>2, LenProperties
    <3>2. (\A i \in 1..l : records'[i] = records[i]) /\ records'[l + 1] = record
      BY <1>4, <2>2
    <3>3. (\A i \in 1..l : i \in 1..Len(records')) /\ l + 1 \in 1..Len(records')
          /\ \A i \in 1..Len(records') : i = l + 1 \/ i \in 1..l
      BY <3>1
    <3>4. \A m : Going(m) => Going(m)'
      BY <3>2, <3>3, Zenon DEF Going, l
    <3>5. \E i \in 1..Len(records') : records'[i].data = n
      BY <1>3, <3>2, <3>3, Zenon
    <3>7. ASSUME NEW m, m = n PROVE Going(m)'
      BY <3>5, <3>7, Zenon DEF Going
    <3>6. ASSUME NEW i \in 1..Len(records'), records'[i].damage # "none"
          PROVE  records'[i].data \in harmed'
      BY <1>2, <1>3, <2>2, <3>2, <3>3, <3>6, Zenon DEF l
    <3> QED
      BY <1>2, <1>5, <1>6, <2>2, <3>4, <3>6, <3>7, Zenon
  <2> QED
    BY <1>1, <2>1, <2>2
<1> QED
  BY <1>7 DEF Reaches, n

(* What the network drops or damages it counts; what it repeats or lets be *)
(* overtaken is on its way still.                                          *)
LEMMA NetworkReaches ==
  ASSUME CipherIInv, Reaches, Encrypted!Network
  PROVE  Reaches'
<1>1. /\ Mode = "record" /\ records # <<>>
      /\ Encrypted!Lose \/ Encrypted!Duplicate \/ Encrypted!Overtake \/ Encrypted!Damage
      /\ UNCHANGED <<cipher, plaintext, decrypted>>
  BY DEF Encrypted!Network, Encrypted!decrypt, Mode
<1>2. /\ \A m \in 1..plaintext : m \in harmed \/ Came(m) \/ Going(m)
      /\ \A i \in 1..Len(records) : records[i].damage # "none" => records[i].data \in harmed
  BY <1>1 DEF Reaches
<1>3. records \in Seq(Record) /\ Len(records) \in Nat /\ Len(records) >= 1
  <2>1. records \in Seq(Record)
    BY <1>1 DEF CipherIInv, Recording
  <2> QED
    BY <1>1, <2>1, LenProperties, EmptySeq
<1> DEFINE l == Len(records)
(* Every record there is now was there, or is one that was with its damage *)
(* counted; and every one that was is there still, or is counted.          *)
<1>4. /\ \A j \in 1..Len(records') :
           \/ \E i \in 1..l : records'[j] = records[i]
           \/ records'[j].data \in harmed'
      /\ \A i \in 1..l :
           \/ \E j \in 1..Len(records') : records'[j].data = records[i].data
           \/ records[i].data \in harmed'
      /\ harmed \subseteq harmed'
  <2>1. CASE Encrypted!Lose
    <3>1. records' = Tail(records) /\ harmed' = harmed \cup {records[1].data}
      BY <2>1 DEF Encrypted!Lose, Encrypted!Harms
    <3>2. Len(records') = l - 1 /\ \A j \in 1..(l - 1) : records'[j] = records[j + 1]
      BY <1>1, <1>3, <3>1
    <3>3. \A j \in 1..(l - 1) : j + 1 \in 1..l
      BY <1>3
    <3>4. \A i \in 1..l : i = 1 \/ (i - 1 \in 1..(l - 1) /\ i - 1 + 1 = i)
      BY <1>3
    <3> HIDE DEF l
    <3>5. \A j \in 1..Len(records') : \E i \in 1..l : records'[j] = records[i]
      BY <3>2, <3>3
    <3>6. ASSUME NEW i \in 1..l
          PROVE  \/ \E j \in 1..Len(records') : records'[j].data = records[i].data
                 \/ records[i].data \in harmed'
      BY <3>1, <3>2, <3>4
    <3> QED
      BY <3>1, <3>5, <3>6
  <2>2. CASE Encrypted!Duplicate
    <3>1. records' = <<records[1]>> \o records /\ harmed' = harmed
      BY <1>1, <1>3, <2>2, HeadTailProperties DEF Encrypted!Duplicate
    <3>2. Len(records') = l + 1 /\ records'[1] = records[1]
          /\ \A j \in 2..(l + 1) : records'[j] = records[j - 1]
      BY <1>3, <3>1
    <3>3. \A j \in 1..(l + 1) : j = 1 \/ (j \in 2..(l + 1) /\ j - 1 \in 1..l)
      BY <1>3
    <3>4. 1 \in 1..l /\ \A i \in 1..l : i + 1 \in 2..(l + 1) /\ i + 1 \in 1..(l + 1) /\ i + 1 - 1 = i
      BY <1>3
    <3> HIDE DEF l
    <3>5. ASSUME NEW j \in 1..Len(records') PROVE \E i \in 1..l : records'[j] = records[i]
      BY <3>2, <3>3, <3>4
    <3>6. ASSUME NEW i \in 1..l PROVE \E j \in 1..Len(records') : records'[j].data = records[i].data
      BY <3>2, <3>4
    <3> QED
      BY <3>1, <3>5, <3>6
  <2>3. CASE Encrypted!Overtake
    <3>1. /\ l > 1 /\ records' = <<records[2], records[1]>> \o SubSeq(records, 3, l)
          /\ harmed' = harmed
      BY <2>3, Zenon DEF Encrypted!Overtake
    <3> DEFINE rest == SubSeq(records, 3, l)
               two == <<records[2], records[1]>>
    <3>2. /\ rest \in Seq(Record) /\ Len(rest) = l - 2
          /\ \A j \in 1..(l - 2) : rest[j] = records[j + 2]
      <4>1. \A i \in 3..l : records[i] \in Record
        BY <1>3
      <4>2. 3 \in Int /\ l \in Int
        BY <1>3
      <4> QED
        BY <1>3, <3>1, <4>1, <4>2, SubSeqProperties
    <3>3. two \in Seq(Record) /\ Len(two) = 2 /\ two[1] = records[2] /\ two[2] = records[1]
      BY <1>3, <3>1
    <3> HIDE DEF rest, two
    <3>4. /\ Len(records') = 2 + Len(rest)
          /\ \A j \in 1..2 : records'[j] = two[j]
          /\ \A j \in 1..Len(rest) : records'[2 + j] = rest[j]
      BY <3>1, <3>2, <3>3 DEF rest, two
    <3>5. Len(records') = l
      BY <1>3, <3>2, <3>4
    <3>6. records'[1] = records[2] /\ records'[2] = records[1]
      BY <3>3, <3>4
    <3>7. \A j \in 1..(l - 2) : records'[2 + j] = records[j + 2]
      BY <3>2, <3>4
    <3> HIDE DEF l
    <3>8. l \in Nat /\ l > 1
      BY <1>3, <3>1 DEF l
    <3>9. \A i \in 1..l : i = 1 \/ i = 2 \/ (i - 2 \in 1..(l - 2) /\ 2 + (i - 2) = i /\ (i - 2) + 2 = i)
      BY <3>8
    <3>10. ASSUME NEW i \in 1..l, i # 1, i # 2 PROVE records'[i] = records[i]
      BY <3>7, <3>9, <3>10
    <3>11. 1 \in 1..l /\ 2 \in 1..l
      BY <3>8
    <3>12. ASSUME NEW j \in 1..Len(records') PROVE \E i \in 1..l : records'[j] = records[i]
      BY <3>5, <3>6, <3>10, <3>11
    <3>13. ASSUME NEW i \in 1..l PROVE \E j \in 1..Len(records') : records'[j].data = records[i].data
      BY <3>5, <3>6, <3>10, <3>11
    <3> QED
      BY <3>1, <3>12, <3>13
  <2>4. CASE Encrypted!Damage
    <3>1. PICK d \in {"short", "altered"} : records' = [records EXCEPT ![1].damage = d]
      BY <2>4 DEF Encrypted!Damage
    <3>2. harmed' = harmed \cup {records[1].data}
      BY <2>4 DEF Encrypted!Damage, Encrypted!Harms
    <3>3. records[1] \in Record /\ 1 \in 1..l
      BY <1>3, ElementOfSeq
    <3>4. /\ Len(records') = l /\ \A j \in 1..l : j # 1 => records'[j] = records[j]
          /\ records'[1].data = records[1].data
      BY <1>3, <3>1, <3>3 DEF Record
    <3> QED
      BY <3>2, <3>4
  <2> QED
    BY <1>1, <2>1, <2>2, <2>3, <2>4
<1> HIDE DEF l
<1>5. ASSUME NEW m, Going(m) PROVE m \in harmed' \/ Going(m)'
  BY <1>4, <1>5 DEF Going, l
<1>6. ASSUME NEW j \in 1..Len(records'), records'[j].damage # "none"
      PROVE  records'[j].data \in harmed'
  BY <1>2, <1>4, <1>6 DEF l
<1>7. Mode' = Mode /\ \A m : Came(m)' <=> Came(m)
  BY <1>1, OptionsStay DEF Came
<1> QED
  BY <1>1, <1>2, <1>4, <1>5, <1>6, <1>7, Zenon DEF Reaches

(* A record that is opened has come out, unless it is counted.             *)
LEMMA OpenReaches ==
  ASSUME CipherIInv, Reaches, Encrypted!OpenRecord
  PROVE  Reaches'
<1>1. /\ Mode = "record" /\ records # <<>> /\ records' = Tail(records)
      /\ UNCHANGED <<cipher, plaintext, harmed>>
  BY DEF Encrypted!OpenRecord, Mode
<1>2. PICK out \in Encrypted!OpensAs(Head(records)) :
        IF out = Encrypted!Unset THEN Encrypted!Rejects /\ UNCHANGED decrypted
        ELSE decrypted' = Append(decrypted, out) /\ UNCHANGED opener
  BY Zenon DEF Encrypted!OpenRecord
<1>3. /\ \A m \in 1..plaintext : m \in harmed \/ Came(m) \/ Going(m)
      /\ \A i \in 1..Len(records) : records[i].damage # "none" => records[i].data \in harmed
  BY <1>1 DEF Reaches
<1>4. /\ cipher \in Encrypted!Accepted /\ records \in Seq(Record) /\ decrypted \in Seq(Int)
      /\ plaintext \in Nat /\ \A i \in 1..Len(records) : records[i].data \in 1..plaintext
  BY <1>1 DEF CipherIInv, Drawing, Recording
<1> DEFINE l == Len(records)
           r == records[1]
<1>5. /\ l \in Nat /\ l >= 1 /\ Head(records) = r /\ Len(records') = l - 1
      /\ \A j \in 1..(l - 1) : records'[j] = records[j + 1]
  <2>1. l \in Nat /\ l >= 1
    BY <1>1, <1>4, LenProperties, EmptySeq
  <2> QED
    BY <1>1, <1>4, <2>1
<1>6. \A m : Came(m) => Came(m)'
  <2>1. CASE decrypted' = decrypted
    BY <2>1 DEF Came
  <2>2. CASE decrypted' = Append(decrypted, out)
    <3>1. Len(decrypted) \in Nat /\ Len(decrypted') = Len(decrypted) + 1
      BY <1>4, <2>2, LenProperties
    <3>2. \A i \in 1..Len(decrypted) : decrypted'[i] = decrypted[i]
      BY <1>4, <2>2
    <3>3. \A i \in 1..Len(decrypted) : i \in 1..Len(decrypted')
      BY <3>1
    <3> QED
      BY <3>2, <3>3, Zenon DEF Came
  <2> QED
    BY <1>2, <2>1, <2>2
<1>7. r.data \in harmed \/ \E i \in 1..Len(decrypted') : decrypted'[i] = r.data
  <2>1. CASE r.damage = "none"
    <3>1. out = r.data
      BY <1>2, <1>4, <1>5, <2>1, IntactOpens
    <3>2. r.data \in 1..plaintext
      BY <1>4, <1>5
    <3>3. out # Encrypted!Unset
      BY <1>4, <3>1, <3>2 DEF Encrypted!Unset
    <3>4. decrypted' = Append(decrypted, out)
      BY <1>2, <3>3
    <3>5. /\ Len(decrypted) + 1 \in 1..Len(decrypted')
          /\ decrypted'[Len(decrypted) + 1] = out
      BY <1>4, <3>4
    <3> DEFINE d == r.data
    <3>6. \E i \in 1..Len(decrypted') : decrypted'[i] = d
      BY <3>1, <3>5
    <3> HIDE DEF d
    <3>7. d \in harmed \/ \E i \in 1..Len(decrypted') : decrypted'[i] = d
      BY <3>6
    <3> QED
      BY <3>7, Zenon DEF d
  <2>2. CASE r.damage # "none"
    <3>1. 1 \in 1..Len(records)
      BY <1>5
    <3> QED
      BY <1>3, <2>2, <3>1
  <2> QED
    BY <2>1, <2>2
<1> HIDE DEF l, r
<1>8. ASSUME NEW m, Going(m) PROVE m \in harmed \/ Came(m)' \/ Going(m)'
  <2>1. PICK i \in 1..l : records[i].data = m
    BY <1>8 DEF Going, l
  <2>2. CASE i = 1
    <3>1. r.data = m
      BY <2>1, <2>2 DEF r
    <3>2. m \in harmed \/ \E k \in 1..Len(decrypted') : decrypted'[k] = m
      BY <1>7, <3>1
    <3> QED
      BY <3>2, Zenon DEF Came
  <2>3. CASE i # 1
    <3>1. i - 1 \in 1..(l - 1) /\ (i - 1) + 1 = i
      BY <1>5, <2>3
    <3>2. records'[i - 1] = records[i] /\ i - 1 \in 1..Len(records')
      BY <1>5, <3>1
    <3> QED
      BY <2>1, <3>2 DEF Going
  <2> QED
    BY <2>2, <2>3
<1>9. ASSUME NEW j \in 1..Len(records'), records'[j].damage # "none"
      PROVE  records'[j].data \in harmed'
  <2>1. j \in 1..(l - 1) /\ j + 1 \in 1..l
    BY <1>5
  <2>2. records'[j] = records[j + 1]
    BY <1>5, <2>1
  <2> QED
    BY <1>1, <1>3, <1>9, <2>1, <2>2 DEF l
<1>10. Mode' = Mode
  BY <1>1, OptionsStay
<1> QED
  BY <1>1, <1>3, <1>6, <1>8, <1>9, <1>10, Zenon DEF Reaches

(* Of records there is nothing for the steps of a stream to do.            *)
LEMMA StreamReaches ==
  ASSUME CipherIInv, Reaches, UNCHANGED cipher, Mode = "stream"
  PROVE  Reaches'
BY OptionsStay DEF Reaches

(* And no end of the stream takes any away.                                *)
LEMMA EndReaches ==
  ASSUME CipherIInv, Reaches, Encrypted!on_eof \/ Encrypted!DecryptEof
  PROVE  Reaches'
<1>1. cipher' = cipher /\ plaintext' = plaintext /\ harmed' = harmed
  BY DEF Encrypted!on_eof, Encrypted!DecryptEof
<1>2. CASE Mode = "stream"
  BY <1>1, <1>2, StreamReaches
<1>3. CASE Mode = "record"
  <2>1. opening = <<>> /\ session = <<>>
    BY <1>3 DEF CipherIInv, Recording
  <2>2. CASE Encrypted!on_eof
    <3>1. records' = records /\ decrypted' = decrypted
      BY <1>3, <2>1, <2>2, Zenon DEF Encrypted!on_eof, Encrypted!decrypt, Encrypted!Closed
    <3> QED
      BY <1>1, <3>1, ReachesStill
  <2>3. CASE Encrypted!DecryptEof
    <3>1. records' = records /\ decrypted' = decrypted
      BY <2>1, <2>3, Zenon DEF Encrypted!DecryptEof, Encrypted!Closed
    <3> QED
      BY <1>1, <3>1, ReachesStill
  <2> QED
    BY <2>2, <2>3
<1> QED
  BY <1>2, <1>3, Configured DEF CipherIInv, Drawing

(* Every step keeps it.                                                    *)
LEMMA AllReaches ==
  ASSUME CipherIInv, Reaches, Encrypted!Next
  PROVE  Reaches'
<1>1. CASE Encrypted!Encrypts
  <2>1. CASE Encrypted!on_eof
    BY <2>1, EndReaches
  <2>2. CASE Encrypted!SealSome
    <3>1. feed # <<>> /\ cipher' = cipher
      BY <2>2 DEF Encrypted!SealSome
    <3>2. Mode = "stream"
      BY <3>1, Configured DEF CipherIInv, Drawing, Recording
    <3> QED
      BY <3>1, <3>2, StreamReaches
  <2>3. CASE \E n \in 1..MaxSent : Encrypted!on_bytes(n)
    <3>1. Mode = "stream" /\ cipher' = cipher
      BY <2>3 DEF Encrypted!on_bytes, Mode
    <3> QED
      BY <3>1, StreamReaches
  <2>4. CASE \E b \in BOOLEAN : Encrypted!SealRecord(b)
    BY <2>4, SealReaches
  <2> QED
    BY <1>1, <2>1, <2>2, <2>3, <2>4, Zenon DEF Encrypted!Encrypts
<1>2. CASE Encrypted!Network
  BY <1>2, NetworkReaches
<1>3. CASE Encrypted!Cut
  <2>1. Mode = "stream" /\ cipher' = cipher
    BY <1>3 DEF Encrypted!Cut, Mode
  <2> QED
    BY <2>1, StreamReaches
<1>4. CASE Encrypted!Decrypts
  <2>1. CASE Encrypted!CollectNonce \/ Encrypted!OpenSome
    <3>1. reading # <<>> /\ cipher' = cipher
      BY <2>1 DEF Encrypted!CollectNonce, Encrypted!OpenSome
    <3> QED
      BY <3>1, ReadingIsAStream, StreamReaches
  <2>2. CASE \E n \in 1..Len(records) : Encrypted!Read(n)
    <3>1. Mode = "stream" /\ cipher' = cipher
      BY <2>2 DEF Encrypted!Read, Mode
    <3> QED
      BY <3>1, StreamReaches
  <2>3. CASE Encrypted!DecryptEof
    BY <2>3, EndReaches
  <2>4. CASE Encrypted!OpenRecord
    BY <2>4, OpenReaches
  <2> QED
    BY <1>4, <2>1, <2>2, <2>3, <2>4, Zenon DEF Encrypted!Decrypts
<1> QED
  BY <1>1, <1>2, <1>3, <1>4, Zenon DEF Encrypted!Next

-----------------------------------------------------------------------------
(* Together.                                                               *)

(* What both ends begin with.                                              *)
LEMMA CipherStarts ==
  ASSUME CodecsInit
  PROVE  CipherIInv
<1>1. /\ cipher \in Encrypted!Accepted /\ plaintext = 0 /\ feed = <<>> /\ session = <<>> /\ fed = 0
      /\ issued = 0 /\ pending = <<>> /\ sealing = "open" /\ announced = 0
      /\ pool = [draw |-> 0, used |-> Pool] /\ nonces = <<>> /\ records = <<>> /\ severed = FALSE
      /\ reading = <<>> /\ header = <<>> /\ opening = <<>> /\ decrypted = <<>> /\ opener = "open"
  BY DEF CodecsInit, Encrypted!Init, Encrypted!Closed
<1>2. Len(<<>>) = 0 /\ 0 = 0 + 0 /\ 0 \in Nat /\ 0 \in {0, 1} /\ 1..0 = {}
  OBVIOUS
<1>3. /\ <<>> \in Seq(Int) /\ <<>> \in Seq(Draw) /\ <<>> \in Seq(CodedByte) /\ <<>> \in Seq(Record)
  OBVIOUS
<1>4. CipherBlock \in Nat \ {0} /\ 0 % CipherBlock = 0 /\ 0 < CipherBlock /\ Pool \in Nat
  BY CodecsAssumption
<1>5. Drawing
  <2>1. pool \in [draw : Nat, used : 0..Pool]
    BY <1>1, <1>4
  <2>2. "open" \in States
    BY DEF States
  <2> QED
    BY <1>1, <1>2, <1>3, <2>1, <2>2, Zenon DEF Drawing
<1>6. Fresh
  BY <1>1, <1>2 DEF Fresh
<1>7. Streaming
  <2>1. Sealer
    BY <1>1, <1>2, <1>3, Zenon DEF Sealer
  <2>2. Rotate # -1 => /\ 0 <= Encrypted!allowance(cipher) + Encrypted!slack(cipher)
                       /\ 0 < Encrypted!allowance(cipher)
    BY <1>1, RoomToStart, Zenon
  <2>3. \A i \in 1..Len(records) : records[i].at <= Rotate
    BY <1>1, <1>2
  <2>4. Budgeted
    BY <1>1, <1>2, <1>4, <2>2, <2>3, Zenon DEF Budgeted
  <2> QED
    BY <2>1, <2>4 DEF Streaming
<1>8. Recording
  <2>1. \A i \in 1..0 : records[i].data \in 1..plaintext /\ decrypted[i] \in 1..plaintext
    BY <1>2
  <2> QED
    BY <1>1, <1>2, <1>3, <2>1, Zenon DEF Recording
<1>9. Announced
  BY <1>1 DEF Announced
<1> QED
  BY <1>5, <1>6, <1>7, <1>8, <1>9 DEF CipherIInv

(* Whatever either end or the network does keeps the invariant.            *)
LEMMA CipherKeeps ==
  ASSUME CipherIInv, Encrypted!Next
  PROVE  CipherIInv'
<1>1. CASE Encrypted!Encrypts
  <2>1. \/ Encrypted!on_eof \/ Encrypted!SealSome
        \/ (\E n \in 1..MaxSent : Encrypted!on_bytes(n)) \/ \E b \in BOOLEAN : Encrypted!SealRecord(b)
    BY <1>1, Zenon DEF Encrypted!Encrypts
  <2> QED
    BY <2>1, EofKeeps, SealSomeKeeps, BytesKeep, RecordKeeps, Zenon
<1>2. CASE Encrypted!Network
  BY <1>2, NetworkKeeps
<1>3. CASE Encrypted!Cut
  BY <1>3, CutKeeps
<1>4. CASE Encrypted!Decrypts
  <2>1. \/ Encrypted!CollectNonce \/ Encrypted!OpenSome \/ Encrypted!DecryptEof \/ Encrypted!OpenRecord
        \/ \E n \in 1..Len(records) : Encrypted!Read(n)
    BY <1>4, Zenon DEF Encrypted!Decrypts
  <2> QED
    BY <2>1, LooksKeep, DecryptEofKeeps, OpenRecordKeeps, ReadKeeps, Zenon
<1> QED
  BY <1>1, <1>2, <1>3, <1>4, Zenon DEF Encrypted!Next

(* What does not change what is encrypted keeps what is true of it.        *)
LEMMA CipherRests ==
  ASSUME CipherIInv, UNCHANGED cipherVars
  PROVE  CipherIInv'
<1>1. UNCHANGED <<cipher, plaintext, feed, session, fed, issued, pending, sealing, announced, pool,
                  nonces, records, severed, reading, header, opening, decrypted, opener>>
  BY DEF cipherVars
<1>2. /\ Family' = Family /\ Mode' = Mode /\ Encrypted!on_fail(cipher)' = Encrypted!on_fail(cipher)
  BY <1>1, OptionsStay
<1>3. Drawing'
  BY <1>1, Zenon DEF CipherIInv, Drawing
<1>4. Fresh'
  BY <1>1, StaysFresh, Zenon DEF CipherIInv
<1>5. Announced'
  BY <1>1, StaysAnnounced DEF CipherIInv
<1>6. Streaming'
  BY <1>1, SealerRests, Zenon DEF CipherIInv
<1>7. Recording'
  BY <1>1, <1>2, Zenon DEF CipherIInv, Recording
<1> QED
  BY <1>3, <1>4, <1>5, <1>6, <1>7 DEF CipherIInv

(* A nonce drawn is in the pool and overlaps no other, and a session keeps *)
(* its budget.                                                             *)
LEMMA NoncesFresh ==
  ASSUME CipherIInv
  PROVE  Encrypted!NoncesAreFresh
<1>1. \A i, j \in 1..Len(nonces) : i # j => ~Encrypted!Overlap(nonces[i], nonces[j])
  BY DEF CipherIInv, Fresh
<1>2. \A i \in 1..Len(nonces) : nonces[i][2] + cipher.cipher.nonce <= Pool
  BY Zenon DEF CipherIInv, Fresh, Width
<1>3. Mode = "stream" /\ Rotate # -1 => \A i \in 1..Len(records) : records[i].at <= Rotate
  BY Zenon DEF CipherIInv, Streaming, Budgeted
<1> QED
  BY <1>1, <1>2, <1>3, Zenon DEF Encrypted!NoncesAreFresh, Mode, Rotate, Encrypted!Unset

(* A record that does not open costs itself, or what was asked for.        *)
LEMMA RecordsAlone ==
  ASSUME CipherIInv, Reaches
  PROVE  Encrypted!RecordsStandAlone
<1>1. Family = "aead" => Mode = "record"
  BY Configured DEF CipherIInv, Drawing
<1>2. Mode = "record" /\ opener # "open" =>
        \/ opener = "ended" /\ records = <<>> /\ sealing # "open"
        \/ Encrypted!on_fail(cipher) = "error" /\ opener = "failed"
        \/ Encrypted!on_fail(cipher) = "halt" /\ opener = "ended"
  BY Zenon DEF CipherIInv, Recording
<1>3. Family = "aead" => \A i \in 1..Len(decrypted) : decrypted[i] \in 1..plaintext
  BY <1>1, Zenon DEF CipherIInv, Recording
<1>4. cipher.random_key /\ (plaintext > 0 \/ sealing = "ended") => announced = 1
  BY Zenon DEF CipherIInv, Announced
<1>5. Mode = "record" => \A n \in 1..plaintext : n \in harmed \/ Came(n) \/ Going(n)
  BY DEF Reaches
<1> QED
  BY <1>2, <1>3, <1>4, <1>5, Zenon
  DEF Came, Going, Encrypted!RecordsStandAlone, Mode, Family, Encrypted!family

(* No byte of randomness is used twice and no session carries more than    *)
(* its budget (Random::fill and Encrypt::on_bytes); and of the messages    *)
(* that are sealed as records each one comes out or is on its way, but     *)
(* those a record of which was lost or damaged, however many were and      *)
(* whatever was repeated or overtaken (Decrypt::record and rejected): for  *)
(* every size, budget and number of records.                               *)
THEOREM NothingIsReused == CodecsSpec => []RecordsStandAlone
<1>1. CodecsInit => CipherIInv /\ Reaches
  <2>1. CodecsInit => plaintext = 0 /\ records = <<>>
    BY DEF CodecsInit, Encrypted!Init
  <2>2. Len(<<>>) = 0 /\ 1..0 = {}
    OBVIOUS
  <2>3. CodecsInit => Reaches
    BY <2>1, <2>2 DEF Reaches
  <2> QED
    BY <2>3, CipherStarts
<1>2. CipherIInv /\ Reaches /\ [CodecsNext]_everything => CipherIInv' /\ Reaches'
  <2> SUFFICES ASSUME CipherIInv, Reaches, [CodecsNext]_everything PROVE CipherIInv' /\ Reaches'
    OBVIOUS
  <2>1. Encrypted!Next \/ UNCHANGED cipherVars
    BY Zenon DEF CodecsNext, everything
  <2>2. UNCHANGED cipherVars => UNCHANGED <<cipher, plaintext, records, harmed, decrypted>>
    BY DEF cipherVars
  <2> QED
    BY <2>1, <2>2, CipherKeeps, CipherRests, AllReaches, ReachesStill
<1>3. CipherIInv /\ Reaches => RecordsStandAlone
  BY NoncesFresh, RecordsAlone DEF RecordsStandAlone
<1> QED
  BY <1>1, <1>2, <1>3, PTL DEF CodecsSpec, everything
=============================================================================

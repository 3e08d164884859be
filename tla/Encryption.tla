----------------------------- MODULE Encryption -----------------------------
(***************************************************************************)
(* encrypt and decrypt (crates/tocat-plugins/src/encrypt.rs): one end      *)
(* seals, the other opens, each cutting the stream where its own reads     *)
(* fall.  A session is a nonce and what follows it; with rotate-after both *)
(* ends count ciphertext to find the next nonce.  A record is a session of *)
(* its own, and meets a network that loses, repeats, reorders and damages. *)
(*                                                                         *)
(* A payload byte is its place in the stream, a padding byte is minus the  *)
(* length of its padding, and a byte that decrypts to neither is Garbage.  *)
(* In record mode the numbers are those of messages.                       *)
(***************************************************************************)
EXTENDS Integers, SequencesExt

CONSTANTS
  Block,       (* bytes of a cipher block                                  *)
  Nonce,       (* bytes of a whole nonce; even, as half of one is sent     *)
               (* by some                                                  *)
  Pool,        (* RANDOM_POOL                                              *)
  Budgets,     (* values of rotate-after                                   *)
  MaxSent,     (* bound on the bytes of the stream                         *)
  MaxRecords   (* bound on the messages, and on those under way            *)

VARIABLES
  conf,      (* the options, the same at both ends                         *)
  sent,      (* bytes, or messages, encrypt was handed                     *)
  feed,      (* those of the call at hand that it has not sealed           *)
  session,   (* of encrypt: the nonce of the session that is open          *)
  fed, emitted, pending,
  sealing,   (* "open", "ended", "failed"                                  *)
  announced, (* times a generated key was reported                         *)
  pool,      (* the draw of randomness in hand, and how much of it is used *)
  nonces,    (* those drawn so far                                         *)
  wire,
  cut,       (* the connection ended before encrypt did                    *)
  harmed,    (* messages a record of which was lost, damaged or not sealed *)
  reading,   (* bytes of the call at hand that decrypt has not looked at   *)
  header,    (* the nonce it has of the session to come                    *)
  opening,   (* the nonce of the session that is open                      *)
  opened, held,
  delivered, opener  (* of decrypt's path: what came out, and as sealing   *)

sealer   == <<feed, session, fed, emitted, pending, sealing, announced, pool, nonces>>
decrypt  == <<reading, header, opening, opened, held, delivered, opener>>
vars     == <<conf, sent, sealer, wire, cut, harmed, decrypt>>

Closed  == <<>>
Garbage == 0
Unset   == -1

(* The rows of the cipher table, by what the stages ask of them: how many  *)
(* bytes of nonce go on the wire, and whether a document specifies them.   *)
BlockModes == [family : {"block"}, nonce : {0, Nonce}, standard : {TRUE}]
Keystreams == [family : {"keystream"}, nonce : {0, Nonce \div 2, Nonce}, standard : {TRUE}]
Aeads      == [family : {"aead"}, nonce : {Nonce}, standard : BOOLEAN]

(* A configuration as it is written; named counts the keys it gives.       *)
Written ==
  [cipher : BlockModes \cup Keystreams \cup Aeads,
   mode : {"unset", "record", "stream"}, padding : {"unset", "pkcs7", "none"},
   rotate : {Unset} \cup Budgets, nonstandard : BOOLEAN,
   on_fail : {"unset", "error", "drop", "halt"},
   named : 0..2, random_key : BOOLEAN, fits : BOOLEAN, key_out : BOOLEAN]

mode(c) ==
  IF c.mode # "unset" THEN c.mode
  ELSE IF c.cipher.family = "aead" THEN "record" ELSE "stream"

padding(c) == IF c.padding = "unset" THEN "pkcs7" ELSE c.padding
on_fail(c) == IF c.on_fail = "unset" THEN "error" ELSE c.on_fail

(* Payload a session may take before it closes, and how much more fits in  *)
(* its padding block.                                                      *)
allowance(c) ==
  IF c.cipher.family = "block" /\ padding(c) = "pkcs7" THEN c.rotate - Block ELSE c.rotate

slack(c) == IF c.cipher.family = "block" /\ padding(c) = "pkcs7" THEN Block - 1 ELSE 0

rotation_refused(c) ==
  /\ c.rotate # Unset
  /\ \/ mode(c) # "stream"
     \/ c.cipher.nonce = 0
     \/ c.cipher.family = "block" /\ c.rotate % Block # 0
     \/ allowance(c) <= 0

(* One source of the key, neither none nor two; and where it is not        *)
(* generated, one that decodes to as many bytes as the cipher takes.       *)
key_source(c)   == c.named + (IF c.random_key THEN 1 ELSE 0) = 1
key_material(c) == c.random_key \/ c.fits
specified(c)    == c.cipher.standard \/ c.nonstandard

(* EncryptFactory::build and DecryptFactory::build.                        *)
refused(c) ==
  \/ ~specified(c)
  \/ c.key_out /\ ~c.random_key
  \/ c.mode = "stream" /\ c.cipher.family = "aead"
  \/ c.padding # "unset" /\ c.cipher.family # "block"
  \/ c.on_fail # "unset" /\ mode(c) = "stream"
  \/ rotation_refused(c) \/ ~key_source(c) \/ ~key_material(c)

(* Of the configurations that are accepted, those that differ in more than *)
(* what is refused: a cipher may be named without a document, and a key    *)
(* that was generated is reported.                                         *)
Accepted ==
  {c \in Written : c.nonstandard /\ c.fits /\ c.key_out = c.random_key
                   /\ c.padding # "pkcs7" /\ c.on_fail # "error" /\ ~refused(c)}

Init ==
  /\ conf \in Accepted
  /\ sent = 0 /\ feed = <<>>
  /\ session = Closed /\ fed = 0 /\ emitted = 0 /\ pending = <<>>
  /\ sealing = "open" /\ announced = 0
  /\ pool = [draw |-> 0, used |-> Pool] /\ nonces = <<>>
  /\ wire = <<>> /\ cut = FALSE /\ harmed = {}
  /\ reading = <<>> /\ header = <<>> /\ opening = Closed /\ opened = 0 /\ held = <<>>
  /\ delivered = <<>> /\ opener = "open"

family == conf.cipher.family
pads   == family = "block" /\ padding(conf) = "pkcs7"
Range0(n) == [i \in 1..n |-> i]

(***************************************************************************)
(* Sealing.                                                                *)
(***************************************************************************)
(* Random::fill: what is left of the pool goes to waste if it is short.    *)
Filled ==
  IF conf.cipher.nonce > 0 /\ pool.used + conf.cipher.nonce > Pool
  THEN [draw |-> pool.draw + 1, used |-> 0] ELSE pool

(* The nonce a session opens with: which bytes of which draw.  A cipher    *)
(* without one has only its key.                                           *)
Drawn == <<Filled.draw, Filled.used, Len(nonces) + 1>>

Draws ==
  /\ pool' = [Filled EXCEPT !.used = @ + conf.cipher.nonce]
  /\ nonces' = Append(nonces, Drawn)

(* Encrypt::announce, at the head of on_bytes and of on_eof.               *)
announce == announced' = IF conf.random_key /\ announced = 0 THEN 1 ELSE announced

NonceBytes(nonce) == [i \in 1..conf.cipher.nonce |-> [of |-> nonce, at |-> i - conf.cipher.nonce, data |-> Garbage]]
Ciphertext(nonce, from, bytes) ==
  [i \in 1..Len(bytes) |-> [of |-> nonce, at |-> from + i, data |-> bytes[i]]]

(* Encrypt::on_bytes is handed n bytes.                                    *)
on_bytes(n) ==
  /\ mode(conf) = "stream" /\ sealing = "open" /\ feed = <<>>
  /\ sent + n <= MaxSent
  /\ sent' = sent + n /\ feed' = [i \in 1..n |-> sent + i]
  /\ announce
  /\ UNCHANGED <<conf, session, fed, emitted, pending, sealing, pool, nonces, wire, cut, harmed,
                 decrypt>>

Least(a, b) == IF a < b THEN a ELSE b

(* Mutant: a session takes whatever one call holds.                        *)
RoomOfCall(n) == n

Room(n) ==
  IF conf.rotate = Unset THEN n ELSE Least(n, allowance(conf) + slack(conf) - fed)

(* Seal::update of each family: whole blocks, or everything.               *)
Sealed(bytes) ==
  LET all == pending \o bytes
      whole == IF family = "block" THEN Len(all) - (Len(all) % Block) ELSE Len(all)
  IN [out |-> SubSeq(all, 1, whole), rest |-> SubSeq(all, whole + 1, Len(all))]

(* What Seal::finish adds: a padding block, which is never empty.          *)
Epilogue(rest) ==
  IF pads THEN rest \o [i \in 1..(Block - Len(rest)) |-> Len(rest) - Block] ELSE <<>>

Spent(n) == conf.rotate # Unset /\ n >= allowance(conf)

(* One round of the loop in on_bytes: open a session if there is none,     *)
(* seal what it has room for, and close it where its budget is spent.      *)
SealSome ==
  /\ feed # <<>>
  /\ LET starts == session = Closed
         nonce == IF starts THEN Drawn ELSE session
         before == IF starts THEN 0 ELSE emitted
         take == Room(Len(feed))
         sealed == Sealed(SubSeq(feed, 1, take))
         now == before + Len(sealed.out)
         closes == Spent(now)
         out == sealed.out \o (IF closes THEN Epilogue(sealed.rest) ELSE <<>>)
     IN /\ feed' = SubSeq(feed, take + 1, Len(feed))
        /\ IF starts THEN Draws ELSE UNCHANGED <<pool, nonces>>
        /\ session' = IF closes THEN Closed ELSE nonce
        /\ fed' = IF closes THEN 0 ELSE fed + take
        /\ emitted' = IF closes THEN 0 ELSE now
        /\ pending' = IF closes THEN <<>> ELSE sealed.rest
        /\ wire' = wire \o (IF starts THEN NonceBytes(nonce) ELSE <<>>)
                        \o Ciphertext(nonce, before, out)
  /\ UNCHANGED <<conf, sent, sealing, announced, cut, harmed, decrypt>>

(* Encrypt::on_eof.                                                        *)
on_eof ==
  /\ sealing = "open" /\ feed = <<>>
  /\ announce
  /\ LET fails == session # Closed /\ family = "block" /\ ~pads /\ pending # <<>>
     IN /\ sealing' = IF fails THEN "failed" ELSE "ended"
        /\ wire' = IF session = Closed \/ fails \/ mode(conf) = "record" THEN wire
                   ELSE wire \o Ciphertext(session, emitted, Epilogue(pending))
  /\ session' = Closed /\ fed' = 0 /\ emitted' = 0 /\ pending' = <<>>
  /\ UNCHANGED <<conf, sent, feed, pool, nonces, cut, harmed, decrypt>>

(* Encrypt::on_bytes in record mode, of a message that is a whole number   *)
(* of blocks or is not.                                                    *)
SealRecord(whole) ==
  /\ mode(conf) = "record" /\ sealing = "open" /\ sent < MaxRecords
  /\ sent' = sent + 1
  /\ announce /\ Draws
  /\ IF family = "block" /\ ~pads /\ ~whole
     THEN sealing' = "failed" /\ harmed' = harmed \cup {sent'} /\ UNCHANGED wire
     ELSE /\ wire' = Append(wire, [of |-> Drawn, data |-> sent', damage |-> "none"])
          /\ UNCHANGED <<sealing, harmed>>
  /\ UNCHANGED <<conf, feed, session, fed, emitted, pending, cut, decrypt>>

(***************************************************************************)
(* The way between them.                                                   *)
(***************************************************************************)
(* A byte stream may end early, and what had not been read is gone.        *)
Cut ==
  /\ mode(conf) = "stream" /\ ~cut /\ cut' = TRUE
  /\ \E n \in 0..Len(wire) : wire' = SubSeq(wire, 1, n)
  /\ UNCHANGED <<conf, sent, sealer, harmed, decrypt>>

(* A datagram may be lost, come twice, or be overtaken by the next; and it *)
(* may come short of its header, or changed.                               *)
Harms     == harmed' = harmed \cup {wire[1].data}
Lose      == wire' = Tail(wire) /\ Harms
Duplicate ==
  /\ Len(delivered) + Len(wire) <= MaxRecords
  /\ wire' = <<Head(wire)>> \o wire /\ UNCHANGED harmed
Overtake  ==
  /\ Len(wire) > 1
  /\ wire' = <<wire[2], wire[1]>> \o SubSeq(wire, 3, Len(wire)) /\ UNCHANGED harmed
Damage    ==
  /\ wire[1].damage = "none" /\ Harms
  /\ \E d \in {"short", "altered"} :
       /\ d = "short" => conf.cipher.nonce > 0
       /\ wire' = [wire EXCEPT ![1].damage = d]

Network ==
  /\ mode(conf) = "record" /\ wire # <<>>
  /\ Lose \/ Duplicate \/ Overtake \/ Damage
  /\ UNCHANGED <<conf, sent, sealer, cut, decrypt>>

(***************************************************************************)
(* Opening.                                                                *)
(***************************************************************************)
(* Decrypt::on_bytes is handed what one read brought.                      *)
Read(n) ==
  /\ mode(conf) = "stream" /\ opener = "open" /\ reading = <<>>
  /\ n <= Len(wire)
  /\ reading' = SubSeq(wire, 1, n) /\ wire' = SubSeq(wire, n + 1, Len(wire))
  /\ UNCHANGED <<conf, sent, sealer, cut, harmed, header, opening, opened, held, delivered, opener>>

(* Decrypt::session while it has no session: the nonce may straddle calls. *)
CollectNonce ==
  /\ opening = Closed /\ reading # <<>>
  /\ LET take == Least(conf.cipher.nonce - Len(header), Len(reading))
         bytes == header \o SubSeq(reading, 1, take)
         whole == Len(bytes) = conf.cipher.nonce
     IN /\ reading' = SubSeq(reading, take + 1, Len(reading))
        /\ header' = IF whole THEN <<>> ELSE bytes
        /\ opening' = IF whole THEN <<bytes>> ELSE Closed
  /\ opened' = 0 /\ held' = <<>>
  /\ UNCHANGED <<conf, sent, sealer, wire, cut, harmed, delivered, opener>>

(* One byte under the session that is open, at its place in it: it has to  *)
(* be of the session whose nonce was collected, and in step with it.       *)
Plain(byte, at) ==
  IF opening = <<NonceBytes(byte.of)>> /\ byte.at = at THEN byte.data ELSE Garbage

(* Open::update: with padding the last whole block is held back.           *)
Opened(bytes) ==
  LET all == held \o bytes
      spare == IF pads THEN Block ELSE 0
      ready == IF Len(all) < spare THEN 0 ELSE Len(all) - spare
      whole == IF family = "block" THEN ready - (ready % Block) ELSE ready
  IN [out |-> SubSeq(all, 1, whole), rest |-> SubSeq(all, whole + 1, Len(all))]

(* Open::finish, of the bytes held back: what it adds, and whether it can. *)
(* Payload that was cut may happen to end in what reads as padding.        *)
Finishes(rest, out, ok) ==
  IF ~pads
  THEN /\ out = rest
       /\ ok = (family = "block" => Len(rest) % Block = 0)
  ELSE IF rest = <<>> \/ Len(rest) % Block # 0 THEN out = <<>> /\ ok = FALSE
  ELSE LET last == rest[Len(rest)]
       IN IF last < 0 THEN out = SubSeq(rest, 1, Len(rest) + last) /\ ok = TRUE
          ELSE \/ out = <<>> /\ ok = FALSE
               \/ ok = TRUE /\ \E n \in 1..Block : out = SubSeq(rest, 1, Len(rest) - n)

Takes == IF conf.rotate = Unset THEN Len(reading) ELSE Least(Len(reading), conf.rotate - opened)

(* Decrypt::session in a session, which closes at the budget.              *)
OpenSome ==
  /\ opening # Closed /\ reading # <<>>
  /\ LET take == Takes
         plain == [i \in 1..take |-> Plain(reading[i], opened + i)]
         result == Opened(plain)
         closes == opened + take = conf.rotate
     IN /\ reading' = SubSeq(reading, take + 1, Len(reading))
        /\ opened' = opened + take
        /\ IF closes
           THEN \E out \in Prefixes(result.rest), ok \in BOOLEAN :
                  /\ Finishes(result.rest, out, ok)
                  /\ delivered' = delivered \o result.out \o out
                  /\ opener' = IF ok THEN opener ELSE "failed"
                  /\ opening' = Closed /\ held' = <<>>
           ELSE /\ delivered' = delivered \o result.out /\ held' = result.rest
                /\ UNCHANGED <<opening, opener>>
  /\ UNCHANGED <<conf, sent, sealer, wire, cut, harmed, header>>

(* Decrypt::on_eof.                                                        *)
DecryptEof ==
  /\ opener = "open" /\ reading = <<>> /\ wire = <<>>
  /\ sealing # "open" \/ cut
  /\ IF opening = Closed
     THEN opener' = (IF header = <<>> THEN "ended" ELSE "failed") /\ UNCHANGED delivered
     ELSE \E out \in Prefixes(held), ok \in BOOLEAN :
            /\ Finishes(held, out, ok)
            /\ delivered' = delivered \o out
            /\ opener' = IF ok THEN "ended" ELSE "failed"
  /\ opening' = Closed /\ header' = <<>> /\ held' = <<>>
  /\ UNCHANGED <<conf, sent, sealer, wire, cut, harmed, reading, opened>>

(* A whole record under each family: a tag tells that it was changed, its  *)
(* padding may, a keystream does not.                                      *)
AeadOpens(record)      == {IF record.damage = "none" THEN record.data ELSE Unset}
BlockOpens(record)     == IF record.damage = "none" THEN {record.data} ELSE {Unset, Garbage}
KeystreamOpens(record) == {IF record.damage = "none" THEN record.data ELSE Garbage}

(* Mutant: a record opens under a nonce that is counted and not read.      *)
OpensInTurn(record) ==
  {IF record.damage = "none" /\ record.data = Len(delivered) + 1 THEN record.data ELSE Unset}

(* Decrypt::record: what may come out of one, or Unset if it will not open.*)
OpensAs(record) ==
  IF record.damage = "short" THEN {Unset}
  ELSE CASE family = "aead" -> AeadOpens(record)
         [] family = "block" -> BlockOpens(record)
         [] OTHER -> KeystreamOpens(record)

(* Decrypt::rejected.                                                      *)
Rejects ==
  opener' = CASE on_fail(conf) = "error" -> "failed"
              [] on_fail(conf) = "halt" -> "ended"
              [] OTHER -> opener

OpenRecord ==
  /\ mode(conf) = "record" /\ opener = "open" /\ wire # <<>>
  /\ \E out \in OpensAs(Head(wire)) :
       IF out = Unset THEN Rejects /\ UNCHANGED delivered
       ELSE delivered' = Append(delivered, out) /\ UNCHANGED opener
  /\ wire' = Tail(wire)
  /\ UNCHANGED <<conf, sent, sealer, cut, harmed, reading, header, opening, opened, held>>

Encrypts == on_eof \/ SealSome \/ (\E n \in 1..MaxSent : on_bytes(n)) \/ \E b \in BOOLEAN : SealRecord(b)
Decrypts == CollectNonce \/ OpenSome \/ DecryptEof \/ OpenRecord \/ \E n \in 1..Len(wire) : Read(n)

(* The ends of a stream share only the wire, which decrypt reads in any    *)
(* pieces: its steps wait until the bytes that will reach it are there.    *)
Next ==
  \/ Encrypts /\ ~cut
  \/ Network
  \/ Cut /\ reading = <<>> /\ opener = "open" /\ opening = Closed /\ header = <<>>
  \/ opener = "open" /\ Decrypts /\ (mode(conf) = "stream" => cut \/ sealing # "open")

-----------------------------------------------------------------------------
(* "The far end chunks differently and has only that count to go on"       *)
(* (Encrypt::on_bytes): wherever either end cuts the stream, what decrypt  *)
(* delivers is what encrypt was handed, and all of it once both have ended *)
(* a connection that was not cut.                                          *)
DecryptedAsSent ==
  mode(conf) = "stream" =>
    /\ delivered = Range0(Len(delivered)) /\ Len(delivered) <= sent
    /\ opener = "ended" /\ sealing = "ended" /\ ~cut => Len(delivered) = sent
    /\ opener = "failed" => cut \/ sealing = "failed"

Overlap(m, n) == m[1] = n[1] /\ m[2] < n[2] + conf.cipher.nonce /\ n[2] < m[2] + conf.cipher.nonce

(* No two sessions or records have a byte of randomness in common          *)
(* ("a repeated nonce under one key is catastrophic"), none reads past the *)
(* pool, and no session carries more than its budget.                      *)
NoncesAreFresh ==
  /\ \A i, j \in 1..Len(nonces) : i # j => conf.cipher.nonce = 0 \/ ~Overlap(nonces[i], nonces[j])
  /\ \A i \in 1..Len(nonces) : conf.cipher.nonce = 0 \/ nonces[i][2] + conf.cipher.nonce <= Pool
  /\ mode(conf) = "stream" /\ conf.rotate # Unset =>
       \A i \in 1..Len(wire) : wire[i].at <= conf.rotate

(* "A lost or reordered message costs exactly that message": every message *)
(* none of whose records was lost or damaged is delivered, or still on its *)
(* way, whatever became of the others and in whatever order they came; one *)
(* that cannot be opened does what on-fail says; an authenticated cipher   *)
(* delivers only what was sent; and a key that was generated is reported   *)
(* once before anything was sealed under it.                               *)
RecordsStandAlone ==
  /\ mode(conf) = "record" => \A n \in 1..sent :
       \/ n \in harmed
       \/ \E i \in 1..Len(delivered) : delivered[i] = n
       \/ \E i \in 1..Len(wire) : wire[i].data = n
  /\ mode(conf) = "record" /\ opener # "open" =>
       \/ opener = "ended" /\ wire = <<>> /\ sealing # "open"
       \/ on_fail(conf) = "error" /\ opener = "failed"
       \/ on_fail(conf) = "halt" /\ opener = "ended"
  /\ family = "aead" => \A i \in 1..Len(delivered) : delivered[i] \in 1..sent
  /\ conf.random_key /\ (sent > 0 \/ sealing = "ended") => announced = 1
=============================================================================

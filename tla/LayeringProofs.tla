--------------------------- MODULE LayeringProofs ---------------------------
(***************************************************************************)
(* Proofs about the layers of Layering, for every length of a stack, every *)
(* policy, every size of a record and every set of names.                  *)
(***************************************************************************)
EXTENDS Layering, SequenceTheorems, WellFoundedInduction, TLAPS

everything == <<part, vars, noiseVars, tlsVars, tunnelVars, frameVars>>

-----------------------------------------------------------------------------
(* Induction over the numbers, as a statement about a set of them.         *)

(* A set of numbers has a least one.                                       *)
LEMMA Least ==
  ASSUME NEW T, T \subseteq Nat, T # {}
  PROVE  \E x \in T : \A y \in T : x <= y
<1> DEFINE R == OpToRel(<, Nat)
<1>1. IsWellFoundedOn(R, Nat)
  BY NatLessThanWellFounded
<1>2. \A x, y \in Nat : x < y => <<x, y>> \in R
  <2> TAKE x \in Nat, y \in Nat
  <2> HAVE x < y
  <2>1. <<x, y>> \in Nat \X Nat /\ <<x, y>>[1] < <<x, y>>[2]
    OBVIOUS
  <2> QED
    BY <2>1 DEF OpToRel
<1> HIDE DEF R
<1>3. \E x \in T : \A y \in T : ~(<<y, x>> \in R)
  BY <1>1, WFMin
<1>4. PICK x \in T : \A y \in T : ~(<<y, x>> \in R)
  BY <1>3
<1>5. ASSUME NEW y \in T PROVE x <= y
  <2>1. ~(<<y, x>> \in R) /\ x \in Nat /\ y \in Nat
    BY <1>4
  <2>2. ~(y < x)
    BY <1>2, <2>1
  <2> QED
    BY <2>1, <2>2
<1> QED
  BY <1>4, <1>5

(* What holds of 0 and goes from a number to the next holds of them all.   *)
LEMMA Induct ==
  ASSUME NEW S, 0 \in S, \A n \in Nat : n \in S => n + 1 \in S
  PROVE  \A n \in Nat : n \in S
<1> DEFINE T == Nat \ S
<1>1. SUFFICES ASSUME T # {} PROVE FALSE
  OBVIOUS
<1>2. T \subseteq Nat
  OBVIOUS
<1> HIDE DEF T
<1>3. \E x \in T : \A y \in T : x <= y
  BY <1>1, <1>2, Least
<1>4. PICK x \in T : \A y \in T : x <= y
  BY <1>3
<1>5. x \in Nat /\ x \notin S
  BY <1>4 DEF T
<1>6. x # 0
  BY <1>5
<1>7. x - 1 \in Nat /\ x - 1 + 1 = x /\ ~(x <= x - 1)
  BY <1>5, <1>6
<1>8. x - 1 \in S
  BY <1>4, <1>7 DEF T
<1> QED
  BY <1>5, <1>7, <1>8

-----------------------------------------------------------------------------
(* What a layer has from the ones below it: f[i] is its own or, in keep,   *)
(* that of the layer below.                                                *)
Inherits(f, n, bottom, keep, own) ==
  f = [i \in 0..n |-> IF i = 0 THEN bottom ELSE IF i \in keep THEN f[i - 1] ELSE own[i]]

(* There is such a function, of any length.                                *)
LEMMA Inherited ==
  ASSUME NEW bottom, NEW keep, NEW own
  PROVE  \A n \in Nat : \E f : Inherits(f, n, bottom, keep, own)
<1> DEFINE S == {n \in Nat : \E f : Inherits(f, n, bottom, keep, own)}
<1>1. 0 \in S
  <2> DEFINE f == [i \in 0..0 |-> bottom]
  <2>1. \A i \in 0..0 : i = 0
    OBVIOUS
  <2>2. Inherits(f, 0, bottom, keep, own)
    BY <2>1 DEF Inherits
  <2> QED
    BY <2>2
<1>2. ASSUME NEW n \in Nat, n \in S PROVE n + 1 \in S
  <2>1. PICK f : Inherits(f, n, bottom, keep, own)
    BY <1>2
  <2> DEFINE g == [i \in 0..(n + 1) |-> IF i <= n THEN f[i]
                                        ELSE IF i \in keep THEN f[n] ELSE own[i]]
  <2>2. ASSUME NEW i \in 0..(n + 1)
        PROVE  g[i] = IF i = 0 THEN bottom ELSE IF i \in keep THEN g[i - 1] ELSE own[i]
    <3>1. CASE i = 0
      <4>1. f[0] = bottom
        BY <2>1 DEF Inherits
      <4> QED
        BY <3>1, <4>1
    <3>2. CASE i \in 1..n
      <4>1. f[i] = IF i \in keep THEN f[i - 1] ELSE own[i]
        BY <2>1, <3>2 DEF Inherits
      <4>2. i - 1 \in 0..(n + 1) /\ i - 1 <= n
        BY <3>2
      <4> QED
        BY <3>2, <4>1, <4>2
    <3>3. CASE i = n + 1
      <4>1. i - 1 = n /\ n \in 0..(n + 1) /\ ~(i <= n) /\ i # 0
        BY <3>3
      <4> QED
        BY <4>1
    <3>4. i = 0 \/ i \in 1..n \/ i = n + 1
      OBVIOUS
    <3> QED
      BY <3>1, <3>2, <3>3, <3>4
  <2>3. g = [i \in 0..(n + 1) |-> g[i]]
    OBVIOUS
  <2> HIDE DEF g
  <2>4. Inherits(g, n + 1, bottom, keep, own)
    BY <2>2, <2>3 DEF Inherits
  <2> QED
    BY <2>4
<1> HIDE DEF S
<1>3. \A n \in Nat : n \in S
  BY <1>1, <1>2, Induct
<1> QED
  BY <1>3 DEF S

(* And it is one, however far it is followed.                              *)
LEMMA InheritedOnce ==
  ASSUME NEW bottom, NEW keep, NEW own, NEW f, NEW g, NEW m \in Nat, NEW n \in Nat,
         Inherits(f, m, bottom, keep, own), Inherits(g, n, bottom, keep, own)
  PROVE  \A i \in Nat : i <= m /\ i <= n => f[i] = g[i]
<1> DEFINE S == {i \in Nat : i <= m /\ i <= n => f[i] = g[i]}
<1>1. 0 \in S
  BY DEF Inherits
<1>2. ASSUME NEW i \in Nat, i \in S PROVE i + 1 \in S
  <2> SUFFICES ASSUME i + 1 <= m, i + 1 <= n PROVE f[i + 1] = g[i + 1]
    OBVIOUS
  <2>1. f[i] = g[i]
    BY <1>2
  <2>2. i + 1 \in 0..m /\ i + 1 \in 0..n /\ i + 1 # 0 /\ i + 1 - 1 = i
    OBVIOUS
  <2> DEFINE k == i + 1
  <2> HIDE DEF k
  <2>3. f[k] = IF k \in keep THEN f[k - 1] ELSE own[k]
    BY <2>2 DEF Inherits, k
  <2>4. g[k] = IF k \in keep THEN g[k - 1] ELSE own[k]
    BY <2>2 DEF Inherits, k
  <2> QED
    BY <2>1, <2>2, <2>3, <2>4 DEF k
<1> HIDE DEF S
<1>3. \A i \in Nat : i \in S
  BY <1>1, <1>2, Induct
<1> QED
  BY <1>3 DEF S

(* What carries messages above one layer more.                             *)
LEMMA CarriesMore ==
  ASSUME NEW s, NEW n \in Nat
  PROVE  /\ CarriesAfter(s, 0) = is_datagram(s.transport)
         /\ CarriesAfter(s, n + 1) = layer_is_datagram(s.layers[n + 1], CarriesAfter(s, n))
<1> DEFINE bottom == is_datagram(s.transport)
           keep   == {i \in Nat : s.layers[i] \in Tunnels}
           own    == [i \in Nat |-> s.layers[i] = "ws"]
           P(f, m) == f = [i \in 0..m |-> IF i = 0 THEN is_datagram(s.transport)
                                          ELSE layer_is_datagram(s.layers[i], f[i - 1])]
           C(m)    == CHOOSE f : P(f, m)
<1>1. ASSUME NEW m \in Nat, NEW f PROVE P(f, m) <=> Inherits(f, m, bottom, keep, own)
  <2>1. \A i \in 0..m : (IF i = 0 THEN is_datagram(s.transport) ELSE layer_is_datagram(s.layers[i], f[i - 1]))
                        = (IF i = 0 THEN bottom ELSE IF i \in keep THEN f[i - 1] ELSE own[i])
    BY DEF layer_is_datagram
  <2>2. [i \in 0..m |-> IF i = 0 THEN is_datagram(s.transport) ELSE layer_is_datagram(s.layers[i], f[i - 1])]
        = [i \in 0..m |-> IF i = 0 THEN bottom ELSE IF i \in keep THEN f[i - 1] ELSE own[i]]
    BY <2>1
  <2> QED
    BY <2>2 DEF Inherits
<1>2. ASSUME NEW m \in Nat PROVE Inherits(C(m), m, bottom, keep, own)
  <2>1. \E f : P(f, m)
    <3>1. PICK f : Inherits(f, m, bottom, keep, own)
      BY Inherited
    <3>2. P(f, m)
      BY <1>1, <3>1
    <3> QED
      BY <3>2
  <2>2. P(C(m), m)
    BY <2>1
  <2> QED
    BY <1>1, <2>2
<1>3. \A m \in Nat : CarriesAfter(s, m) = C(m)[m]
  BY DEF CarriesAfter
<1> HIDE DEF C
<1>4. C(n + 1)[n] = C(n)[n]
  <2>1. n + 1 \in Nat /\ n <= n + 1 /\ n <= n
    OBVIOUS
  <2>2. Inherits(C(n), n, bottom, keep, own) /\ Inherits(C(n + 1), n + 1, bottom, keep, own)
    BY <1>2, <2>1
  <2> HIDE DEF keep, own, bottom, P
  <2>3. \A i \in Nat : i <= n + 1 /\ i <= n => C(n + 1)[i] = C(n)[i]
    BY <2>1, <2>2, InheritedOnce
  <2> QED
    BY <2>1, <2>3
<1>5. C(0)[0] = bottom
  <2>1. Inherits(C(0), 0, bottom, keep, own) /\ 0 \in 0..0
    BY <1>2
  <2> QED
    BY <2>1 DEF Inherits
<1>6. C(n + 1)[n + 1] = IF n + 1 \in keep THEN C(n + 1)[n] ELSE own[n + 1]
  <2>1. n + 1 \in Nat /\ n + 1 \in 0..(n + 1) /\ n + 1 # 0 /\ n + 1 - 1 = n
    OBVIOUS
  <2>2. Inherits(C(n + 1), n + 1, bottom, keep, own)
    BY <1>2, <2>1
  <2> QED
    BY <2>1, <2>2 DEF Inherits
<1> QED
  BY <1>3, <1>4, <1>5, <1>6 DEF layer_is_datagram

(* It is true or false.                                                    *)
LEMMA CarriesOrNot ==
  ASSUME NEW s
  PROVE  \A n \in Nat : CarriesAfter(s, n) \in BOOLEAN
<1> DEFINE S == {n \in Nat : CarriesAfter(s, n) \in BOOLEAN}
<1>1. 0 \in S
  <2>1. 0 \in Nat /\ (s.transport \in Messages) \in BOOLEAN
    OBVIOUS
  <2>2. CarriesAfter(s, 0) = (s.transport \in Messages)
    BY <2>1, CarriesMore DEF is_datagram
  <2> QED
    BY <2>1, <2>2
<1>2. ASSUME NEW n \in Nat, n \in S PROVE n + 1 \in S
  <2>1. CarriesAfter(s, n + 1) = layer_is_datagram(s.layers[n + 1], CarriesAfter(s, n))
    BY CarriesMore
  <2>2. CarriesAfter(s, n) \in BOOLEAN
    BY <1>2
  <2>3. layer_is_datagram(s.layers[n + 1], CarriesAfter(s, n)) \in BOOLEAN
    BY <2>2 DEF layer_is_datagram
  <2> QED
    BY <2>1, <2>3
<1> HIDE DEF S
<1>3. \A n \in Nat : n \in S
  BY <1>1, <1>2, Induct
<1> QED
  BY <1>3 DEF S

(* Who is above one layer more.                                            *)
LEMMA HostMore ==
  ASSUME NEW s, NEW n \in Nat
  PROVE  /\ HostAbove(s, 0) = IF names_host(s.transport) THEN 0 ELSE -1
         /\ HostAbove(s, n + 1) = IF s.layers[n + 1] \in Tunnels THEN n + 1 ELSE HostAbove(s, n)
<1> DEFINE bottom == IF names_host(s.transport) THEN 0 ELSE -1
           keep   == {i \in Nat : s.layers[i] \notin Tunnels}
           own    == [i \in Nat |-> i]
           P(f, m) == f = [i \in 0..m |-> IF i = 0 THEN bottom
                                          ELSE IF s.layers[i] \in Tunnels THEN i ELSE f[i - 1]]
           C(m)    == CHOOSE f : P(f, m)
<1>1. ASSUME NEW m \in Nat, NEW f PROVE P(f, m) <=> Inherits(f, m, bottom, keep, own)
  <2>1. \A i \in 0..m : (IF i = 0 THEN bottom ELSE IF s.layers[i] \in Tunnels THEN i ELSE f[i - 1])
                        = (IF i = 0 THEN bottom ELSE IF i \in keep THEN f[i - 1] ELSE own[i])
    OBVIOUS
  <2>2. [i \in 0..m |-> IF i = 0 THEN bottom ELSE IF s.layers[i] \in Tunnels THEN i ELSE f[i - 1]]
        = [i \in 0..m |-> IF i = 0 THEN bottom ELSE IF i \in keep THEN f[i - 1] ELSE own[i]]
    BY <2>1
  <2> QED
    BY <2>2 DEF Inherits
<1>2. ASSUME NEW m \in Nat PROVE Inherits(C(m), m, bottom, keep, own)
  <2>1. \E f : P(f, m)
    <3>1. PICK f : Inherits(f, m, bottom, keep, own)
      BY Inherited
    <3>2. P(f, m)
      BY <1>1, <3>1
    <3> QED
      BY <3>2
  <2>2. P(C(m), m)
    BY <2>1
  <2> QED
    BY <1>1, <2>2
<1>3. \A m \in Nat : HostAbove(s, m) = C(m)[m]
  BY DEF HostAbove
<1> HIDE DEF C
<1>4. C(n + 1)[n] = C(n)[n]
  <2>1. n + 1 \in Nat /\ n <= n + 1 /\ n <= n
    OBVIOUS
  <2>2. Inherits(C(n), n, bottom, keep, own) /\ Inherits(C(n + 1), n + 1, bottom, keep, own)
    BY <1>2, <2>1
  <2> HIDE DEF keep, own, bottom, P
  <2>3. \A i \in Nat : i <= n + 1 /\ i <= n => C(n + 1)[i] = C(n)[i]
    BY <2>1, <2>2, InheritedOnce
  <2> QED
    BY <2>1, <2>3
<1>5. C(0)[0] = bottom
  <2>1. Inherits(C(0), 0, bottom, keep, own) /\ 0 \in 0..0
    BY <1>2
  <2> QED
    BY <2>1 DEF Inherits
<1>6. C(n + 1)[n + 1] = IF n + 1 \in keep THEN C(n + 1)[n] ELSE own[n + 1]
  <2>1. n + 1 \in Nat /\ n + 1 \in 0..(n + 1) /\ n + 1 # 0 /\ n + 1 - 1 = n
    OBVIOUS
  <2>2. Inherits(C(n + 1), n + 1, bottom, keep, own)
    BY <1>2, <2>1
  <2> QED
    BY <2>1, <2>2 DEF Inherits
<1> QED
  BY <1>3, <1>4, <1>5, <1>6

(* The layer above the first n is told of the last tunnel among them.      *)
LEMMA LastTunnel ==
  ASSUME NEW s
  PROVE  \A n \in Nat :
           LET tunnels == {j \in 1..n : s.layers[j] \in Tunnels}
           IN  IF tunnels = {} THEN HostAbove(s, n) \in {0, -1}
               ELSE HostAbove(s, n) \in tunnels /\ \A j \in tunnels : j <= HostAbove(s, n)
<1> DEFINE T(n) == {j \in 1..n : s.layers[j] \in Tunnels}
           Q(n) == IF T(n) = {} THEN HostAbove(s, n) \in {0, -1}
                   ELSE HostAbove(s, n) \in T(n) /\ \A j \in T(n) : j <= HostAbove(s, n)
           S    == {n \in Nat : Q(n)}
<1>1. 0 \in S
  <2>1. T(0) = {}
    OBVIOUS
  <2>2. HostAbove(s, 0) \in {0, -1}
    BY HostMore
  <2> QED
    BY <2>1, <2>2
<1>2. ASSUME NEW n \in Nat, n \in S PROVE n + 1 \in S
  <2>1. T(n + 1) = IF s.layers[n + 1] \in Tunnels THEN T(n) \cup {n + 1} ELSE T(n)
    OBVIOUS
  <2>2. HostAbove(s, n + 1) = IF s.layers[n + 1] \in Tunnels THEN n + 1 ELSE HostAbove(s, n)
    BY HostMore
  <2>3. Q(n)
    BY <1>2
  <2>4. \A j \in T(n) : j <= n + 1
    OBVIOUS
  <2> HIDE DEF T
  <2>5. CASE s.layers[n + 1] \in Tunnels
    BY <2>1, <2>2, <2>4, <2>5
  <2>6. CASE s.layers[n + 1] \notin Tunnels
    BY <2>1, <2>2, <2>3, <2>6
  <2> QED
    BY <2>5, <2>6
<1> HIDE DEF S
<1>3. \A n \in Nat : n \in S
  BY <1>1, <1>2, Induct
<1> QED
  BY <1>3 DEF S

-----------------------------------------------------------------------------
(* tls.                                                                    *)

(* The variables' types.                                                   *)
TlsTyped ==
  /\ tls \in Secured!Options /\ listening \in BOOLEAN
  /\ session \in {"check", "configure", "handshake", "open", "refused", "failed"}
  /\ written \in Nat /\ read \in Nat /\ lost \in Nat
  /\ ending \in {"no", "notify", "cut", "reset"} /\ closing \in {"open", "eof", "error"}

(* Nothing is configured but what passed check, and nothing opens but what *)
(* was accepted.                                                           *)
Vetted ==
  /\ session \notin {"check", "refused"} => Secured!check(tls, FALSE, listening)
  /\ session = "open" => Secured!Accepts
  /\ missing = FALSE

(* What was read was written and not lost, which only a cut does, and the  *)
(* end comes after it.                                                     *)
Ended ==
  /\ read + lost <= written /\ (ending # "cut" => lost = 0)
  /\ closing = "eof" => ending \in {"notify", "cut"} /\ read + lost = written
  /\ closing = "error" => ending = "reset"

TlsIInv == TlsTyped /\ Vetted /\ Ended

(* As a stream is wrapped in TLS nothing is vetted, and nothing needs to   *)
(* be.                                                                     *)
LEMMA TlsInit == Secured!Init => TlsIInv
BY DEF Secured!Init, TlsIInv, TlsTyped, Vetted, Ended

(* Every step of a TLS layer keeps what is known of it.                    *)
LEMMA TlsStep == TlsIInv /\ (Secured!Next \/ UNCHANGED tlsVars) => TlsIInv'
<1> SUFFICES ASSUME TlsIInv, Secured!Next \/ UNCHANGED tlsVars PROVE TlsIInv'
  OBVIOUS
<1>0. TlsTyped /\ Vetted /\ Ended
  BY DEF TlsIInv
<1>1. ASSUME UNCHANGED <<tls, listening, host, files, certificate>>
      PROVE  /\ Secured!check(tls, FALSE, listening)' <=> Secured!check(tls, FALSE, listening)
             /\ Secured!Accepts' <=> Secured!Accepts
             /\ (tls \in Secured!Options)' <=> (tls \in Secured!Options)
  BY <1>1 DEF Secured!check, Secured!Accepts, Secured!verifier, Secured!roots, Secured!Options,
     Secured!None, Secured!NoCertificate
<1>2. CASE UNCHANGED tlsVars
  BY <1>0, <1>1, <1>2 DEF tlsVars, TlsIInv, TlsTyped, Vetted, Ended
<1>3. CASE Secured!Checks
  <2>1. /\ UNCHANGED <<tls, listening, host, files, certificate, missing, written, ending, lost, read, closing>>
        /\ \/ session' = "configure" /\ \E datagram \in BOOLEAN : Secured!check(tls, datagram, listening)
           \/ session' = "refused"
    BY <1>3 DEF Secured!Checks, Secured!given, Secured!session
  <2>2. session' = "configure" => Secured!check(tls, FALSE, listening)
    BY <2>1 DEF Secured!check
  <2> QED
    BY <1>0, <1>1, <2>1, <2>2 DEF TlsIInv, TlsTyped, Vetted, Ended
<1>4. CASE Secured!Configures
  <2>1. /\ UNCHANGED <<tls, listening, host, files, certificate, written, ending, lost, read, closing>>
        /\ session = "configure" /\ session' \in {"failed", "handshake"}
        /\ missing' = (listening /\ (~(tls.cert /\ tls.keyfile) \/ (tls.client_auth # "none" /\ ~tls.cafile)))
    BY <1>4 DEF Secured!Configures, Secured!given, Secured!session, Secured!None
  <2>2. Secured!check(tls, FALSE, listening)
    BY <1>0, <2>1 DEF Vetted
  <2>3. missing' = FALSE
    BY <1>0, <2>1, <2>2 DEF Secured!check, TlsTyped, Secured!Options, Secured!None
  <2> QED
    BY <1>0, <1>1, <2>1, <2>2, <2>3 DEF TlsIInv, TlsTyped, Vetted, Ended
<1>5. CASE Secured!Handshakes
  <2>1. /\ UNCHANGED <<tls, listening, host, files, certificate, missing, written, ending, lost, read, closing>>
        /\ session = "handshake" /\ session' \in {"open", "failed"}
        /\ session' = "open" => Secured!Accepts
    BY <1>5 DEF Secured!Handshakes, Secured!given, Secured!session
  <2> QED
    BY <1>0, <1>1, <2>1 DEF TlsIInv, TlsTyped, Vetted, Ended
<1>6. CASE Secured!PeerWrites
  <2>1. /\ UNCHANGED <<tls, listening, host, files, certificate, session, missing, ending, lost, read, closing>>
        /\ ending = "no" /\ written' = written + 1
    BY <1>6 DEF Secured!PeerWrites, Secured!given
  <2>2. TlsTyped'
    BY <1>0, <1>1, <2>1 DEF TlsTyped
  <2>3. Vetted'
    BY <1>0, <1>1, <2>1 DEF Vetted
  <2>4. Ended'
    BY <1>0, <2>1 DEF TlsTyped, Ended
  <2> QED
    BY <2>2, <2>3, <2>4 DEF TlsIInv
<1>7. CASE Secured!PeerEnds
  <2>1. /\ UNCHANGED <<tls, listening, host, files, certificate, session, missing, written, read, closing>>
        /\ ending = "no" /\ ending' \in {"notify", "cut", "reset"}
        /\ lost' \in (IF ending' = "cut" THEN 0..(written - read) ELSE {0})
    BY <1>7 DEF Secured!PeerEnds, Secured!given
  <2>2. TlsTyped'
    <3>1. lost' \in Nat
      <4>1. written \in Nat /\ read \in Nat
        BY <1>0 DEF TlsTyped
      <4> QED
        BY <2>1, <4>1
    <3> QED
      BY <1>0, <1>1, <2>1, <3>1 DEF TlsTyped
  <2>3. Vetted'
    BY <1>0, <1>1, <2>1 DEF Vetted
  <2>4. Ended'
    <3>1. /\ written \in Nat /\ read \in Nat /\ read + lost <= written /\ lost = 0
          /\ closing # "eof" /\ closing # "error"
      BY <1>0, <2>1 DEF TlsTyped, Ended
    <3>2. read + lost' <= written /\ (ending' # "cut" => lost' = 0)
      <4>1. read \in Nat /\ written \in Nat /\ read <= written
        BY <1>0, <2>1 DEF TlsTyped, Ended
      <4>2. CASE ending' = "cut"
        <5>1. lost' \in 0..(written - read)
          BY <2>1, <4>2
        <5> DEFINE l == lost'
        <5>2. l \in 0..(written - read)
          BY <5>1
        <5> HIDE DEF l
        <5>3. read + l <= written
          BY <4>1, <5>2
        <5> QED
          BY <4>2, <5>3 DEF l
      <4>3. CASE ending' # "cut"
        <5>1. lost' = 0
          BY <2>1, <4>3
        <5> QED
          BY <4>1, <5>1
      <4> QED
        BY <4>2, <4>3
    <3> QED
      BY <2>1, <3>1, <3>2 DEF Ended
  <2> QED
    BY <2>2, <2>3, <2>4 DEF TlsIInv
<1>8. CASE Secured!poll_read
  <2>1. /\ UNCHANGED <<tls, listening, host, files, certificate, session, missing, written, ending, lost>>
        /\ closing = "open"
        /\ \/ read < written - lost /\ read' = read + 1 /\ closing' = closing
           \/ /\ ~(read < written - lost /\ ending # "reset") /\ ending # "no" /\ read' = read
              /\ closing' = IF ending \in {"notify", "cut"} THEN "eof" ELSE "error"
    BY <1>8 DEF Secured!poll_read, Secured!given, Secured!ReadsAs
  <2>2. TlsTyped'
    BY <1>0, <1>1, <2>1 DEF TlsTyped
  <2>3. Vetted'
    BY <1>0, <1>1, <2>1 DEF Vetted
  <2>4. Ended'
    BY <1>0, <2>1 DEF TlsTyped, Ended
  <2> QED
    BY <2>2, <2>3, <2>4 DEF TlsIInv
<1> QED
  BY <1>2, <1>3, <1>4, <1>5, <1>6, <1>7, <1>8 DEF Secured!Next

(* An endpoint under tls is open to whom it was told to and to nobody      *)
(* else, whatever its options; an option that passed check is never found  *)
(* wanting; and its reader sees an end only where the peer ended, with all *)
(* it wrote if it said goodbye, and an error only of a connection that had *)
(* one (endpoint/layer/tls.rs).                                            *)
THEOREM OpenToWhomItWasTold == LayeringSpec => []PeerIsAsNamed
<1>1. LayeringInit => TlsIInv
  BY TlsInit DEF LayeringInit
<1>2. TlsIInv /\ [LayeringNext]_everything => TlsIInv'
  <2>1. [LayeringNext]_everything => Secured!Next \/ UNCHANGED tlsVars
    BY DEF LayeringNext, everything
  <2> QED
    BY <2>1, TlsStep
<1>3. TlsIInv => PeerIsAsNamed
  <2> SUFFICES ASSUME TlsIInv PROVE PeerIsAsNamed
    OBVIOUS
  <2>0. TlsTyped /\ Vetted /\ Ended
    BY DEF TlsIInv
  <2>1. Secured!HangUpIsAnEnd
    BY <2>0 DEF TlsTyped, Ended, Secured!HangUpIsAnEnd
  <2>2. ASSUME session = "open" PROVE Secured!check(tls, FALSE, listening) /\ Secured!Accepts
    BY <2>0, <2>2 DEF Vetted
  <2>3. ASSUME session = "open", ~listening
        PROVE  \/ tls.pin # 0 /\ certificate.leaf = tls.pin
               \/ tls.pin = 0 /\ tls.verify = "none"
               \/ /\ tls.pin = 0 /\ certificate.issuer = (IF tls.cafile THEN "cafile" ELSE "platform")
                  /\ certificate.name \in {host, tls.servername}
                  /\ tls.servername # "none" => certificate.name = tls.servername
    <3> DEFINE anchor == IF tls.pin # 0 \/ tls.verify = "none" THEN "none" ELSE Secured!roots(tls)
               name   == IF tls.servername = "none" THEN host ELSE tls.servername
    <3>1. /\ tls.pin # 0 => certificate.leaf = tls.pin
          /\ anchor # "none" => certificate.issuer = anchor /\ certificate.name = name
      BY <2>2, <2>3 DEF Secured!Accepts, Secured!verifier, Secured!None
    <3>2. Secured!roots(tls) = IF tls.cafile THEN "cafile" ELSE "platform"
      BY DEF Secured!roots
    <3> QED
      BY <3>1, <3>2
  <2>4. ASSUME session = "open", listening
        PROVE  /\ tls.pin = 0 /\ tls.servername = "none" /\ tls.verify = "peer"
               /\ tls.client_auth = "required" => certificate # Secured!NoCertificate
               /\ tls.client_auth # "none" /\ certificate # Secured!NoCertificate
                    => certificate.issuer = "cafile"
    <3>1. /\ tls.pin = 0 /\ tls.servername = "none" /\ tls.verify = "peer"
          /\ (tls.client_auth # "none") <=> tls.cafile
      BY <2>0, <2>2, <2>4 DEF Secured!check, Secured!None, TlsTyped, Secured!Options
    <3>2. \/ tls.client_auth = "none"
          \/ IF certificate = Secured!NoCertificate THEN tls.client_auth = "optional"
             ELSE certificate.issuer = Secured!roots(tls)
      BY <2>2, <2>4 DEF Secured!Accepts, Secured!None
    <3> QED
      BY <3>1, <3>2 DEF Secured!roots
  <2>5. ~missing
    BY <2>0 DEF Vetted
  <2>6. Secured!PeerIsAsNamed
    BY <2>3, <2>4, <2>5 DEF Secured!PeerIsAsNamed, Secured!None
  <2> QED
    BY <2>1, <2>6 DEF PeerIsAsNamed
<1> QED
  BY <1>1, <1>2, <1>3, PTL DEF LayeringSpec, everything

-----------------------------------------------------------------------------
(* The opening of an endpoint.                                             *)

(* The variables' types.                                                   *)
OpeningTyped ==
  /\ spec.layers \in Seq(Layers) /\ wrapped \in 0..Len(spec.layers)
  /\ spec.policy.limit \in Nat /\ spec.policy.deadline \in Nat
  /\ phase \in {"check", "dial", "rest", "wrap", "open", "refused", "failed"}
  /\ attempt \in Nat /\ elapsed \in Nat

(* What passed check is wrapped as far as it is, and told of whom.         *)
Wrapping ==
  /\ phase \notin {"check", "refused"} => check(spec)
  /\ phase \in {"check", "dial", "rest", "refused"} => wrapped = 0 /\ told = <<>>
  /\ phase \in {"wrap", "open"} =>
       /\ stream = opens(spec.transport) \/ stream = "message"
       /\ spec.transport # "chan" => ((stream = "message") <=> CarriesAfter(spec, wrapped))
       /\ stream = "message" /\ spec.transport = "chan" => opens(spec.transport) # "duplex"
  /\ phase = "open" => wrapped = Len(spec.layers)
  /\ told \in Seq(Int) /\ Len(told) = wrapped
  /\ \A i \in 1..Len(told) : told[i] = HostAbove(spec, i - 1)
  /\ why \in {"side", "shape"} => opens(spec.transport) # "duplex"

(* The attempts are within the policy.                                     *)
Attempted ==
  /\ phase = "check" => attempt = 0 /\ elapsed = 0
  /\ spec.policy.limit > 0 => attempt <= spec.policy.limit
  /\ phase = "rest" => again(spec.policy, attempt)
  /\ phase = "dial" /\ spec.policy.deadline > 0 => elapsed <= spec.policy.deadline
  /\ phase # "failed" => why = "none"
  /\ why = "dial" => ~again(spec.policy, attempt) /\ attempt = spec.policy.limit

OpeningIInv == OpeningTyped /\ Wrapping /\ Attempted

(* As an endpoint is opened, no layer is up and nothing was told.          *)
LEMMA OpeningInit == Init => OpeningIInv
<1> SUFFICES ASSUME Init PROVE OpeningIInv
  OBVIOUS
<1>1. /\ spec \in Specs
      /\ phase = "check" /\ why = "none" /\ attempt = 0 /\ elapsed = 0
      /\ stream = "none" /\ wrapped = 0 /\ told = <<>>
  BY DEF Init
<1>2. /\ spec.layers \in Stacks /\ spec.policy \in Policies(spec.transport)
  BY <1>1 DEF Specs
<1>3. spec.layers \in Seq(Layers) /\ Len(spec.layers) \in Nat
  <2>1. PICK n \in 0..MaxLayers : spec.layers \in [1..n -> Layers]
    BY <1>2 DEF Stacks
  <2>2. n \in Nat
    BY <2>1, OpeningAssumption
  <2>3. spec.layers \in Seq(Layers)
    BY <2>1, <2>2
  <2> QED
    BY <2>3
<1>4. spec.policy.limit \in Nat /\ spec.policy.deadline \in Nat
  <2>1. Limits \subseteq Nat /\ Deadlines \subseteq Nat
    BY OpeningAssumption
  <2>2. CASE spec.policy \in [limit : Limits, deadline : Deadlines]
    BY <2>1, <2>2
  <2>3. CASE spec.policy = NoRetry
    BY <2>3 DEF NoRetry
  <2> QED
    BY <1>2, <2>2, <2>3 DEF Policies
<1>5. OpeningTyped
  BY <1>1, <1>3, <1>4 DEF OpeningTyped
<1>6. <<>> \in Seq(Int) /\ Len(<<>>) = 0 /\ \A i \in 1..0 : FALSE
  OBVIOUS
<1>7. Wrapping
  BY <1>1, <1>6 DEF Wrapping
<1>8. Attempted
  BY <1>1, <1>4 DEF Attempted
<1> QED
  BY <1>5, <1>7, <1>8 DEF OpeningIInv

(* Bailing out keeps what is said of an opening, but for the cause.        *)
LEMMA BailsKeeps ==
  ASSUME OpeningIInv, NEW cause, Bails(cause), phase = "wrap", cause # "dial",
         cause \in {"side", "shape"} => opens(spec.transport) # "duplex"
  PROVE  OpeningIInv'
<1>1. /\ phase' = "failed" /\ why' = cause
      /\ UNCHANGED <<spec, attempt, elapsed, stream, wrapped, told>>
  BY DEF Bails
<1>2. OpeningTyped /\ Wrapping /\ Attempted
  BY DEF OpeningIInv
<1>3. OpeningTyped'
  BY <1>1, <1>2 DEF OpeningTyped
<1>4. check(spec)' <=> check(spec)
  BY <1>1 DEF check
<1>5. \A i \in 1..Len(told) : HostAbove(spec, i - 1)' = HostAbove(spec, i - 1)
  BY <1>1 DEF HostAbove
<1>6. Wrapping'
  BY <1>1, <1>2, <1>4, <1>5 DEF Wrapping
<1>7. Attempted'
  BY <1>1, <1>2 DEF Attempted
<1> QED
  BY <1>3, <1>6, <1>7 DEF OpeningIInv

(* A step that wraps nothing.                                              *)
LEMMA Unwrapped ==
  ASSUME OpeningIInv, UNCHANGED <<spec, wrapped, told>>, stream' = stream,
         phase' \in {"check", "refused"} \/ (phase \notin {"check", "refused"}) \/ check(spec),
         phase' \in {"check", "dial", "rest", "refused"} => phase \in {"check", "dial", "rest", "refused"},
         phase' \in {"wrap", "open"} => phase \in {"wrap", "open"},
         phase' = "open" => phase = "open" \/ wrapped = Len(spec.layers),
         why' \in {"side", "shape"} => why = why'
  PROVE  Wrapping'
<1>1. check(spec)' <=> check(spec)
  BY DEF check
<1>2. \A i \in 1..Len(told) : HostAbove(spec, i - 1)' = HostAbove(spec, i - 1)
  BY DEF HostAbove
<1>3. CarriesAfter(spec, wrapped)' <=> CarriesAfter(spec, wrapped)
  BY DEF CarriesAfter
<1>4. Wrapping
  BY DEF OpeningIInv
<1>5. opens(spec.transport)' = opens(spec.transport)
  BY DEF opens
<1> QED
  BY <1>1, <1>2, <1>3, <1>4, <1>5 DEF Wrapping

(* Every step of opening an endpoint keeps what is known of it.            *)
LEMMA OpeningStep == OpeningIInv /\ (Next \/ UNCHANGED vars) => OpeningIInv'
<1> SUFFICES ASSUME OpeningIInv, Next \/ UNCHANGED vars PROVE OpeningIInv'
  OBVIOUS
<1>0. OpeningTyped /\ Wrapping /\ Attempted
  BY DEF OpeningIInv
<1>1. CASE UNCHANGED vars
  <2>1. UNCHANGED <<spec, phase, why, attempt, elapsed, stream, wrapped, told>>
    BY <1>1 DEF vars
  <2>2. Wrapping'
    BY <2>1, Unwrapped
  <2>3. OpeningTyped' /\ Attempted'
    BY <1>0, <2>1 DEF OpeningTyped, Attempted
  <2> QED
    BY <2>2, <2>3 DEF OpeningIInv
<1>2. CASE Checks
  <2>1. /\ phase = "check" /\ UNCHANGED <<spec, why, elapsed, stream, wrapped, told>>
        /\ \/ check(spec) /\ phase' = "dial" /\ attempt' = 1
           \/ phase' = "refused" /\ attempt' = attempt
    BY <1>2 DEF Checks
  <2>2. Wrapping'
    BY <2>1, Unwrapped
  <2>3. OpeningTyped'
    BY <1>0, <2>1 DEF OpeningTyped
  <2>4. Attempted'
    BY <1>0, <2>1 DEF OpeningTyped, Attempted
  <2> QED
    BY <2>2, <2>3, <2>4 DEF OpeningIInv
<1>3. CASE Passes
  <2>1. /\ phase \in {"dial", "wrap"} /\ elapsed' = elapsed + 1
        /\ phase = "dial" /\ spec.policy.deadline > 0 => elapsed < spec.policy.deadline
        /\ UNCHANGED <<spec, phase, why, attempt, stream, wrapped, told>>
    BY <1>3 DEF Passes
  <2>2. Wrapping'
    BY <2>1, Unwrapped
  <2>3. OpeningTyped'
    BY <1>0, <2>1 DEF OpeningTyped
  <2>4. Attempted'
    BY <1>0, <2>1 DEF OpeningTyped, Attempted
  <2> QED
    BY <2>2, <2>3, <2>4 DEF OpeningIInv
<1>4. CASE connect_once
  <2>1. /\ phase = "dial" /\ phase' = "wrap" /\ stream' = opens(spec.transport) /\ elapsed' = 0
        /\ UNCHANGED <<spec, why, attempt, wrapped, told>>
    BY <1>4 DEF connect_once
  <2>2. check(spec) /\ wrapped = 0 /\ told = <<>>
    BY <1>0, <2>1 DEF Wrapping
  <2>3. check(spec)' <=> check(spec)
    BY <2>1 DEF check
  <2>4. CarriesAfter(spec, 0) <=> is_datagram(spec.transport)
    BY CarriesMore
  <2>5. CarriesAfter(spec, wrapped)' <=> is_datagram(spec.transport)
    <3>1. CarriesAfter(spec, wrapped)' <=> CarriesAfter(spec, wrapped)
      BY <2>1 DEF CarriesAfter
    <3> QED
      BY <2>2, <2>4, <3>1
  <2>6. spec.transport # "chan" => ((stream' = "message") <=> is_datagram(spec.transport))
    BY <2>1 DEF opens, is_datagram, Messages
  <2>7. spec.transport = "chan" => opens(spec.transport) # "duplex"
    BY DEF opens
  <2>8. <<>> \in Seq(Int) /\ Len(<<>>) = 0 /\ \A i \in 1..0 : FALSE
    OBVIOUS
  <2>9. opens(spec.transport)' = opens(spec.transport)
    BY <2>1 DEF opens
  <2>10. why' = "none"
    BY <1>0, <2>1 DEF Attempted
  <2>11. Wrapping'
    BY <2>1, <2>2, <2>3, <2>5, <2>6, <2>7, <2>8, <2>9, <2>10 DEF Wrapping
  <2>12. OpeningTyped' /\ Attempted'
    BY <1>0, <2>1 DEF OpeningTyped, Attempted
  <2> QED
    BY <2>11, <2>12 DEF OpeningIInv
<1>5. CASE DialFails
  <2>1. /\ phase = "dial" /\ UNCHANGED <<spec, attempt, elapsed, stream, wrapped, told>>
        /\ \/ again(spec.policy, attempt) /\ phase' = "rest" /\ why' = why
           \/ ~again(spec.policy, attempt) /\ phase' = "failed" /\ why' = "dial"
    BY <1>5 DEF DialFails
  <2>2. Wrapping'
    BY <2>1, Unwrapped
  <2>3. OpeningTyped'
    BY <1>0, <2>1 DEF OpeningTyped
  <2>4. ~again(spec.policy, attempt) => attempt = spec.policy.limit
    BY <1>0 DEF OpeningTyped, Attempted, again
  <2>5. Attempted'
    BY <1>0, <2>1, <2>4 DEF OpeningTyped, Attempted, again
  <2> QED
    BY <2>2, <2>3, <2>5 DEF OpeningIInv
<1>6. CASE Rests
  <2>1. /\ phase = "rest" /\ phase' = "dial" /\ attempt' = attempt + 1 /\ elapsed' = 0
        /\ UNCHANGED <<spec, why, stream, wrapped, told>>
    BY <1>6 DEF Rests
  <2>2. Wrapping'
    BY <2>1, Unwrapped
  <2>3. OpeningTyped'
    BY <1>0, <2>1 DEF OpeningTyped
  <2>4. Attempted'
    BY <1>0, <2>1 DEF OpeningTyped, Attempted, again
  <2> QED
    BY <2>2, <2>3, <2>4 DEF OpeningIInv
(* The loop of wrap: what passed check is refused only where the transport *)
(* is no two-way stream.                                                   *)
<1>7. ASSUME phase = "wrap", wrapped < Len(spec.layers)
      PROVE  /\ ~CarriesAfter(spec, wrapped) /\ ~(is_listen(spec.transport) /\ Layer \in Tunnels)
             /\ wrapped + 1 \in 1..Len(spec.layers) /\ wrapped \in Nat
  <2>1. wrapped + 1 \in 1..Len(spec.layers) /\ wrapped + 1 - 1 = wrapped /\ wrapped \in Nat
    BY <1>0, <1>7 DEF OpeningTyped
  <2>2. check(spec)
    BY <1>0, <1>7 DEF Wrapping
  <2>3. layer_checks(spec.layers[wrapped + 1], CarriesAfter(spec, wrapped + 1 - 1), is_listen(spec.transport))
    BY <2>1, <2>2 DEF check
  <2> QED
    BY <2>1, <2>3 DEF layer_checks, Layer
<1>8. CASE RefusedSide
  BY <1>7, <1>8 DEF RefusedSide
<1>9. CASE RefusedShape
  <2>1. phase = "wrap" /\ wrapped < Len(spec.layers) /\ stream # "duplex" /\ Bails("shape")
    BY <1>9 DEF RefusedShape
  <2>2. opens(spec.transport) # "duplex"
    BY <1>0, <1>7, <2>1 DEF Wrapping
  <2> QED
    BY <2>1, <2>2, BailsKeeps
<1>10. CASE HandshakeFails
  BY <1>10, BailsKeeps DEF HandshakeFails
<1>11. CASE wrap
  <2>1. /\ phase = "wrap" /\ wrapped < Len(spec.layers) /\ stream = "duplex"
        /\ told' = Append(told, HostAbove(spec, wrapped)) /\ wrapped' = wrapped + 1
        /\ stream' = IF Layer = "ws" THEN "message" ELSE stream
        /\ UNCHANGED <<spec, phase, why, attempt, elapsed>>
    BY <1>11 DEF wrap
  <2>2. /\ ~CarriesAfter(spec, wrapped) /\ wrapped \in Nat /\ wrapped + 1 \in 1..Len(spec.layers)
    BY <1>7, <2>1
  <2>3. CarriesAfter(spec, wrapped + 1) <=> Layer = "ws"
    <3>1. CarriesAfter(spec, wrapped + 1) = layer_is_datagram(Layer, CarriesAfter(spec, wrapped))
      BY <2>2, CarriesMore DEF Layer
    <3>2. Layer \in Layers
      BY <1>0, <2>2 DEF OpeningTyped, Layer
    <3> QED
      BY <2>2, <3>1 DEF layer_is_datagram, Tunnels
  <2>4. CarriesAfter(spec, wrapped)' <=> CarriesAfter(spec, wrapped + 1)
    BY <2>1 DEF CarriesAfter
  <2>5. HostAbove(spec, wrapped) \in Int
    <3>1. \/ HostAbove(spec, wrapped) \in {0, -1}
          \/ HostAbove(spec, wrapped) \in {j \in 1..wrapped : spec.layers[j] \in Tunnels}
      BY <2>2, LastTunnel
    <3> QED
      BY <3>1
  <2>6. /\ told \in Seq(Int) /\ Len(told) = wrapped
        /\ \A i \in 1..Len(told) : told[i] = HostAbove(spec, i - 1)
    BY <1>0 DEF Wrapping
  <2> DEFINE whom == HostAbove(spec, wrapped)
  <2>7. whom \in Int
    BY <2>5
  <2> HIDE DEF whom
  <2>8. /\ told' = Append(told, whom)
    BY <2>1 DEF whom
  <2>9. /\ told' \in Seq(Int) /\ Len(told') = wrapped + 1
        /\ \A i \in 1..wrapped : told'[i] = told[i]
        /\ told'[wrapped + 1] = whom
    BY <2>6, <2>7, <2>8
  <2>10. \A i : HostAbove(spec, i - 1)' = HostAbove(spec, i - 1)
    BY <2>1 DEF HostAbove
  <2>11. ASSUME NEW i \in 1..Len(told') PROVE told'[i] = HostAbove(spec, i - 1)
    <3>1. CASE i \in 1..wrapped
      BY <2>6, <2>9, <3>1
    <3>2. CASE i = wrapped + 1
      <4>1. i - 1 = wrapped
        BY <2>2, <3>2
      <4> QED
        BY <2>9, <3>2, <4>1 DEF whom
    <3> QED
      BY <2>2, <2>9, <3>1, <3>2
  <2>12. /\ check(spec)' <=> check(spec)
         /\ opens(spec.transport)' = opens(spec.transport)
    BY <2>1 DEF check, opens
  <2>13. stream' = "message" /\ spec.transport = "chan" => opens(spec.transport) # "duplex"
    BY DEF opens
  <2>14. Wrapping'
    BY <1>0, <2>1, <2>3, <2>4, <2>9, <2>10, <2>11, <2>12, <2>13 DEF Wrapping
  <2>15. OpeningTyped'
    BY <1>0, <2>1, <2>2 DEF OpeningTyped
  <2>16. Attempted'
    BY <1>0, <2>1 DEF Attempted
  <2> QED
    BY <2>14, <2>15, <2>16 DEF OpeningIInv
<1>12. CASE connect_shared
  <2>1. /\ phase = "wrap" /\ wrapped = Len(spec.layers)
        /\ \/ Bails("keep")
           \/ phase' = "open" /\ UNCHANGED <<spec, why, attempt, elapsed, stream, wrapped, told>>
    BY <1>12 DEF connect_shared
  <2>2. CASE Bails("keep")
    BY <2>1, <2>2, BailsKeeps
  <2>3. CASE phase' = "open" /\ UNCHANGED <<spec, why, attempt, elapsed, stream, wrapped, told>>
    <3>1. Wrapping'
      BY <2>1, <2>3, Unwrapped
    <3>2. OpeningTyped' /\ Attempted'
      BY <1>0, <2>1, <2>3 DEF OpeningTyped, Attempted
    <3> QED
      BY <3>1, <3>2 DEF OpeningIInv
  <2> QED
    BY <2>1, <2>2, <2>3
<1> QED
  BY <1>1, <1>2, <1>3, <1>4, <1>5, <1>6, <1>8, <1>9, <1>10, <1>11, <1>12 DEF Next

(* An endpoint that opens carries messages just where the boundary checks  *)
(* of the chain were told it would; a stack that passed check over a       *)
(* two-way stream is refused by its peer alone, each layer told the host   *)
(* of the last tunnel below it; and no endpoint is dialled more often, or  *)
(* for longer, than its policy says (endpoint.rs, endpoint/layer.rs).      *)
THEOREM OpenedAsDeclared == LayeringSpec => []OpensAsAsked
<1>1. LayeringInit => OpeningIInv
  BY OpeningInit DEF LayeringInit
<1>2. OpeningIInv /\ [LayeringNext]_everything => OpeningIInv'
  <2>1. [LayeringNext]_everything => Next \/ UNCHANGED vars
    BY DEF LayeringNext, everything
  <2> QED
    BY <2>1, OpeningStep
<1>3. OpeningIInv => OpensAsAsked
  <2> SUFFICES ASSUME OpeningIInv PROVE OpensAsAsked
    OBVIOUS
  <2>0. OpeningTyped /\ Wrapping /\ Attempted
    BY DEF OpeningIInv
  <2>1. AttemptsHold
    BY <2>0 DEF Attempted, AttemptsHold
  <2>2. ASSUME phase = "open", spec.transport # "chan"
        PROVE  (stream = "message") = spec_is_datagram(spec)
    <3>1. (stream = "message") <=> CarriesAfter(spec, Len(spec.layers))
      BY <2>0, <2>2 DEF Wrapping
    <3>2. CarriesAfter(spec, Len(spec.layers)) \in BOOLEAN
      <4>1. Len(spec.layers) \in Nat
        BY <2>0 DEF OpeningTyped
      <4> QED
        BY <4>1, CarriesOrNot
    <3> QED
      BY <3>1, <3>2 DEF spec_is_datagram
  <2>3. why \in {"side", "shape"} => opens(spec.transport) # "duplex"
    BY <2>0 DEF Wrapping
  <2>4. ASSUME NEW i \in 1..Len(told)
        PROVE  LET tunnels == {j \in 1..(i - 1) : spec.layers[j] \in Tunnels}
               IN  IF tunnels = {} THEN told[i] \in {0, -1}
                   ELSE told[i] \in tunnels /\ \A j \in tunnels : j <= told[i]
    <3>1. told[i] = HostAbove(spec, i - 1) /\ i - 1 \in Nat
      BY <2>0 DEF Wrapping
    <3> QED
      BY <3>1, LastTunnel
  <2>5. OpensAsDeclared
    BY <2>2, <2>3, <2>4 DEF OpensAsDeclared
  <2> QED
    BY <2>1, <2>5 DEF OpensAsAsked
<1> QED
  BY <1>1, <1>2, <1>3, PTL DEF LayeringSpec, everything

-----------------------------------------------------------------------------
(* The stream of noise.                                                    *)

(* The key of the n-th record, with rekey at e.                            *)
KeyOf(e, n) == IF e = 0 THEN 0 ELSE n \div e

(* The j-th unit of the n-th record, of bytes first to last.               *)
Unit(e, n, first, last, j) ==
  LET inside == j # 1 /\ j # last - first + 3
  IN  [nonce |-> n, key |-> KeyOf(e, n), size |-> last - first + 2,
       kind |-> IF j = 1 THEN "length" ELSE IF inside THEN "payload" ELSE "tag",
       byte |-> IF inside THEN first + j - 2 ELSE 0]

Units(e) == [nonce : Nat, key : {KeyOf(e, n) : n \in Nat}, kind : {"length", "payload", "tag"},
          byte : Nat, size : Nat]

(* Where the n-th record starts, when bytes[n] bytes are in those before.  *)
Past(bytes, n) == bytes[n] + 2 * n

(* Where a record starts is a number of bytes.                             *)
LEMMA PastIs ==
  ASSUME NEW bytes \in [Nat -> Nat], NEW n \in Nat
  PROVE  Past(bytes, n) \in Nat /\ Past(bytes, n) \in Int
BY DEF Past

(* What the m units w are: the records r to n - 1, the last perhaps cut.   *)
Sealed(e, bytes, r, n, m, w) ==
  /\ bytes \in [Nat -> Nat]
  /\ \A i, j \in r..n : i <= j => bytes[i] <= bytes[j]
  /\ m <= Past(bytes, n) - Past(bytes, r)
  /\ \A k \in r..(n - 1) : \A j \in 1..(bytes[k + 1] - bytes[k] + 2) :
       LET i == Past(bytes, k) - Past(bytes, r) + j
       IN  i <= m => w[i] = Unit(e, k, bytes[k] + 1, bytes[k + 1], j)

(* The units that were written and not read.                               *)
Written == (collected \o line) \o buffered

NoiseTyped ==
  /\ ends \in [pattern : Noised!Handshakes, initiator : Noised!Given, responder : Noised!Given]
  /\ turn \in [Noised!End -> 0..3] /\ from \in Noised!End
  /\ pairing \in [Noised!End -> {"check", "handshake", "open", "refused", "failed"}]
  /\ accepted \in Nat /\ nonce \in Nat /\ received \in Nat /\ received <= nonce
  /\ buffered \in Seq(Units(every)) /\ line \in Seq(Units(every))
  /\ collected \in Seq(Units(every))
  /\ plain \in Seq(Nat) /\ given \in Seq(Nat)
  /\ over \in {"no", "shut", "cut"} /\ opener \in {"open", "eof", "error"}

(* The ends that got past check; the initiator, where it read a message,   *)
(* and so all that opened, made the same of it as the responder; and an end*)
(* that opened has all the messages and a pin that held.                   *)
Paired ==
  /\ \A e \in Noised!End : pairing[e] \notin {"check", "refused"} =>
       Noised!check(ends.pattern, ends[e], e = "responder")
  /\ turn["initiator"] >= 2 => ~Noised!Mismatch
  /\ \A e \in Noised!End : pairing[e] = "open" =>
       turn[e] = Noised!messages(ends.pattern) /\ Noised!PinHolds(e)

(* Records are made by an end that opened, and decrypted by one.           *)
Begun ==
  /\ nonce > 0 => pairing[from] = "open"
  /\ received > 0 => pairing[Noised!Other(from)] = "open"
Agreed == Paired /\ Begun

(* What is handed on, and decrypted, is counted up.                        *)
Numbered ==
  /\ \A i \in 1..Len(given) : given[i] = i
  /\ \A i \in 1..Len(plain) : plain[i] = Len(given) + i

(* There are numbers of bytes by which the units are whole records, all of *)
(* them as long as the connection was not cut.                             *)
Recording(bytes) ==
  /\ Sealed(every, bytes, received, nonce, Len(Written), Written)
  /\ bytes[received] = Len(given) + Len(plain) /\ bytes[nonce] = accepted
  /\ over # "cut" => Len(Written) = Past(bytes, nonce) - Past(bytes, received)
Recorded == \E bytes : Recording(bytes)

(* A record is not whole while it is collected.                            *)
Collecting == collected # <<>> => Len(collected) <= collected[1].size

(* How the stream ends.                                                    *)
Finished ==
  /\ over # "no" => buffered = <<>>
  /\ opener = "error" => over = "cut"
  /\ opener = "eof" => over # "no" /\ plain = <<>> /\ (over = "shut" => Len(given) = accepted)

NoiseIInv == NoiseTyped /\ Agreed /\ Numbered /\ Recorded /\ Collecting /\ Finished

(* What the units of a record are.                                         *)
LEMMA RecordIs ==
  ASSUME NEW n \in Nat, NEW first \in Nat, NEW last \in Nat, first <= last + 1, first > 0
  PROVE  /\ Noised!Record(n, first, last) \in Seq(Units(every))
         /\ Len(Noised!Record(n, first, last)) = last - first + 3
         /\ \A j \in 1..(last - first + 3) :
              Noised!Record(n, first, last)[j] = Unit(every, n, first, last, j)
<1> DEFINE m    == last - first + 1
           u(j) == Unit(every, n, first, last, j)
           p    == [i \in 1..m |-> u(i + 1)]
<1>1. m \in Nat /\ last - first + 3 = m + 2 /\ last - first + 2 \in Nat
  OBVIOUS
<1>2. ASSUME NEW j \in 1..(m + 2) PROVE u(j) \in Units(every)
  <2> DEFINE inside == j # 1 /\ j # last - first + 3
             b == IF inside THEN first + j - 2 ELSE 0
  <2>1. b \in Nat
    OBVIOUS
  <2>2. KeyOf(every, n) \in {KeyOf(every, k) : k \in Nat}
    OBVIOUS
  <2> HIDE DEF m
  <2>3. u(j) = [nonce |-> n, key |-> KeyOf(every, n), size |-> last - first + 2,
                kind |-> IF j = 1 THEN "length" ELSE IF inside THEN "payload" ELSE "tag",
                byte |-> b]
    BY DEF Unit
  <2>4. (IF j = 1 THEN "length" ELSE IF inside THEN "payload" ELSE "tag")
           \in {"length", "payload", "tag"}
    OBVIOUS
  <2> HIDE DEF b, u, inside
  <2> QED
    BY <1>1, <2>1, <2>2, <2>3, <2>4 DEF Units
<1>3. Noised!Record(n, first, last) = (<<u(1)>> \o p) \o <<u(m + 2)>>
  <2>1. u(1) = [nonce |-> n, key |-> KeyOf(every, n), kind |-> "length", byte |-> 0,
                size |-> last - first + 2]
    BY DEF Unit
  <2>2. u(m + 2) = [nonce |-> n, key |-> KeyOf(every, n), kind |-> "tag", byte |-> 0,
                    size |-> last - first + 2]
    <3>1. m + 2 = last - first + 3 /\ m + 2 # 1
      BY <1>1
    <3> QED
      BY <3>1 DEF Unit
  <2>3. ASSUME NEW i \in 1..m
        PROVE  u(i + 1) = [nonce |-> n, key |-> KeyOf(every, n), kind |-> "payload",
                           byte |-> first + i - 1, size |-> last - first + 2]
    <3>1. i + 1 # 1 /\ i + 1 # last - first + 3 /\ first + (i + 1) - 2 = first + i - 1
      OBVIOUS
    <3> QED
      BY <3>1 DEF Unit
  <2>4. p = [i \in 1..m |-> [nonce |-> n, key |-> KeyOf(every, n), kind |-> "payload",
                             byte |-> first + i - 1, size |-> last - first + 2]]
    BY <2>3
  <2> HIDE DEF u, p
  <2> QED
    BY <2>1, <2>2, <2>4 DEF Noised!Record, Noised!Key, KeyOf
<1> HIDE DEF u
<1>4. p \in Seq(Units(every)) /\ Len(p) = m /\ \A i \in 1..m : p[i] = u(i + 1)
  <2>1. \A i \in 1..m : i + 1 \in 1..(m + 2)
    BY <1>1
  <2>2. \A i \in 1..m : u(i + 1) \in Units(every)
    BY <2>1, <1>2
  <2> QED
    BY <1>1, <2>2
<1>5. u(1) \in Units(every) /\ u(m + 2) \in Units(every)
  BY <1>1, <1>2
<1> HIDE DEF p, m
<1>6. /\ <<u(1)>> \in Seq(Units(every)) /\ Len(<<u(1)>>) = 1 /\ <<u(1)>>[1] = u(1)
      /\ <<u(m + 2)>> \in Seq(Units(every)) /\ Len(<<u(m + 2)>>) = 1 /\ <<u(m + 2)>>[1] = u(m + 2)
  BY <1>5
<1>7. /\ <<u(1)>> \o p \in Seq(Units(every)) /\ Len(<<u(1)>> \o p) = m + 1
      /\ \A i \in 1..(m + 1) : (<<u(1)>> \o p)[i] = u(i)
  <2>1. \A i \in 2..(m + 1) : i - 1 \in 1..m /\ i - 1 + 1 = i
    BY <1>1
  <2>2. \A i \in 2..(m + 1) : p[i - 1] = u(i)
    BY <2>1, <1>4
  <2> QED
    BY <1>1, <1>4, <1>6, <2>2
<1>8. /\ (<<u(1)>> \o p) \o <<u(m + 2)>> \in Seq(Units(every))
      /\ Len((<<u(1)>> \o p) \o <<u(m + 2)>>) = m + 2
      /\ \A i \in 1..(m + 2) : ((<<u(1)>> \o p) \o <<u(m + 2)>>)[i] = u(i)
  BY <1>1, <1>6, <1>7
<1> QED
  BY <1>1, <1>3, <1>8 DEF u

(* Bytes that go to the connection do not change what was written.         *)
LEMMA SentOn ==
  ASSUME NEW b \in Seq(Units(every)), NEW k \in 0..Len(b),
         line \in Seq(Units(every)), collected \in Seq(Units(every))
  PROVE  /\ line \o SubSeq(b, 1, k) \in Seq(Units(every))
         /\ SubSeq(b, k + 1, Len(b)) \in Seq(Units(every))
         /\ (collected \o (line \o SubSeq(b, 1, k))) \o SubSeq(b, k + 1, Len(b))
              = (collected \o line) \o b
<1> DEFINE S == Units(every)
           u == SubSeq(b, 1, k)
           v == SubSeq(b, k + 1, Len(b))
<1>1. Len(b) \in Nat /\ \A i \in 1..Len(b) : b[i] \in S
  OBVIOUS
<1> HIDE DEF S
<1>2. u \in Seq(S)
  BY <1>1, SubSeqProperties
<1>3. v \in Seq(S)
  BY <1>1, SubSeqProperties
<1>4. 1 \in 1..(Len(b) + 1) /\ k \in (1 - 1)..Len(b) /\ Len(b) \in k..Len(b) /\ b \in Seq(S)
  BY <1>1 DEF S
<1>5. u \o v = SubSeq(b, 1, Len(b))
  BY <1>4, ConcatAdjacentSubSeq
<1>6. u \o v = b
  BY <1>4, <1>5, SubSeqFull
<1> HIDE DEF u, v
<1>7. collected \o (line \o u) = (collected \o line) \o u /\ line \o u \in Seq(S)
      /\ collected \o line \in Seq(S)
  BY <1>2 DEF S
<1> DEFINE q == collected \o line
<1>8. (q \o u) \o v = q \o (u \o v)
  <2>1. q \in Seq(S)
    BY <1>7
  <2> HIDE DEF q
  <2> QED
    BY <1>2, <1>3, <2>1, SMTT(30)
<1> QED
  BY <1>3, <1>6, <1>7, <1>8 DEF u, v, S

(* Nor do those that the reader takes from it.                             *)
LEMMA TakenOff ==
  ASSUME NEW c \in Seq(Units(every)), NEW l \in Seq(Units(every)),
         NEW b \in Seq(Units(every)), NEW k \in 0..Len(l)
  PROVE  /\ c \o SubSeq(l, 1, k) \in Seq(Units(every)) /\ Len(c \o SubSeq(l, 1, k)) = Len(c) + k
         /\ SubSeq(l, k + 1, Len(l)) \in Seq(Units(every))
         /\ ((c \o SubSeq(l, 1, k)) \o SubSeq(l, k + 1, Len(l))) \o b = (c \o l) \o b
<1> DEFINE u == SubSeq(l, 1, k)
           v == SubSeq(l, k + 1, Len(l))
<1>1. Len(l) \in Nat /\ \A i \in 1..Len(l) : l[i] \in Units(every)
  OBVIOUS
<1>2. u \in Seq(Units(every)) /\ Len(u) = k
  BY <1>1, SubSeqProperties
<1>3. v \in Seq(Units(every))
  BY <1>1, SubSeqProperties
<1>4. 1 \in 1..(Len(l) + 1) /\ k \in (1 - 1)..Len(l) /\ Len(l) \in k..Len(l)
  BY <1>1
<1>5. u \o v = SubSeq(l, 1, Len(l))
  BY <1>4, ConcatAdjacentSubSeq
<1>6. u \o v = l
  BY <1>5, SubSeqFull
<1> HIDE DEF u, v
<1>7. (c \o u) \o v = c \o (u \o v)
  BY <1>2, <1>3
<1>8. c \o u \in Seq(Units(every)) /\ Len(c \o u) = Len(c) + k
  BY <1>2, ConcatProperties
<1> QED
  BY <1>3, <1>6, <1>7, <1>8 DEF u, v

(* The m units w, with a record of take bytes after them, are v.           *)
Grown(bytes, m, w, take, v) ==
  /\ received \in Nat /\ nonce \in Nat /\ received <= nonce /\ m \in Nat /\ take \in Nat
  /\ Sealed(every, bytes, received, nonce, m, w)
  /\ m = Past(bytes, nonce) - Past(bytes, received)
  /\ \A i \in 1..m : v[i] = w[i]
  /\ \A j \in 1..(take + 2) :
       v[m + j] = Unit(every, nonce, bytes[nonce] + 1, bytes[nonce] + take, j)

Counted(bytes, take) == [bytes EXCEPT ![nonce + 1] = bytes[nonce] + take]

(* A record more.                                                          *)
LEMMA SealedMore ==
  ASSUME NEW bytes, NEW m, NEW w, NEW v, NEW take, Grown(bytes, m, w, take, v)
  PROVE  /\ Sealed(every, Counted(bytes, take), received, nonce + 1, m + (take + 2), v)
         /\ Counted(bytes, take)[received] = bytes[received]
         /\ Counted(bytes, take)[nonce + 1] = bytes[nonce] + take
         /\ m + (take + 2)
              = Past(Counted(bytes, take), nonce + 1) - Past(Counted(bytes, take), received)
<1> DEFINE more == Counted(bytes, take)
<1>0. /\ received \in Nat /\ nonce \in Nat /\ received <= nonce /\ m \in Nat /\ take \in Nat
      /\ Sealed(every, bytes, received, nonce, m, w)
      /\ m = Past(bytes, nonce) - Past(bytes, received)
      /\ \A i \in 1..m : v[i] = w[i]
      /\ \A j \in 1..(take + 2) :
           v[m + j] = Unit(every, nonce, bytes[nonce] + 1, bytes[nonce] + take, j)
  BY DEF Grown
<1>1. bytes \in [Nat -> Nat] /\ bytes[nonce] \in Nat /\ bytes[received] \in Nat
  BY <1>0 DEF Sealed
<1>4. more \in [Nat -> Nat] /\ more[nonce + 1] = bytes[nonce] + take
      /\ \A i \in received..nonce : more[i] = bytes[i]
  BY <1>0, <1>1 DEF Counted
<1> HIDE DEF more
<1>5. received \in received..nonce
  BY <1>0
<1>6. Past(more, nonce + 1) = Past(bytes, nonce) + (take + 2) /\ Past(more, received) = Past(bytes, received)
      /\ Past(bytes, nonce) \in Nat /\ Past(bytes, received) \in Nat
  BY <1>0, <1>1, <1>4, <1>5 DEF Past
<1>8. m + (take + 2) = Past(more, nonce + 1) - Past(more, received)
  BY <1>0, <1>6
<1>9. ASSUME NEW i \in received..(nonce + 1), NEW j \in received..(nonce + 1), i <= j PROVE more[i] <= more[j]
  <2>1. CASE j \in received..nonce
    BY <1>0, <1>4, <1>9, <2>1 DEF Sealed
  <2>2. CASE j = nonce + 1 /\ i \in received..nonce
    <3>1. bytes[i] <= bytes[nonce] /\ bytes[i] \in Nat
      BY <1>0, <1>1, <2>2 DEF Sealed
    <3> QED
      BY <1>0, <1>1, <1>4, <2>2, <3>1
  <2>3. CASE i = nonce + 1 /\ j = nonce + 1
    BY <1>0, <1>1, <1>4, <2>3
  <2> QED
    BY <1>0, <1>9, <2>1, <2>2, <2>3
<1>10. ASSUME NEW k \in received..nonce, NEW j \in 1..(more[k + 1] - more[k] + 2)
       PROVE  LET i == Past(more, k) - Past(more, received) + j
              IN  v[i] = Unit(every, k, more[k] + 1, more[k + 1], j)
  <2>1. CASE k = nonce
    <3>1. Past(more, k) - Past(more, received) = m
      BY <1>0, <1>4, <1>5, <1>6, <2>1 DEF Past
    <3>2. j \in 1..(take + 2)
      BY <1>0, <1>1, <1>4, <2>1
    <3> QED
      BY <1>0, <1>4, <2>1, <3>1, <3>2
  <2>2. CASE k \in received..(nonce - 1)
    <3>1. k + 1 \in received..nonce /\ more[k] = bytes[k] /\ more[k + 1] = bytes[k + 1]
          /\ bytes[k] \in Nat /\ bytes[k + 1] \in Nat /\ Past(more, k) = Past(bytes, k)
      BY <1>0, <1>1, <1>4, <2>2 DEF Past
    <3>2. bytes[k + 1] <= bytes[nonce] /\ bytes[received] <= bytes[k]
      BY <1>0, <2>2, <3>1 DEF Sealed
    <3> DEFINE i == Past(bytes, k) - Past(bytes, received) + j
    <3>3. i \in 1..m
      BY <1>0, <1>1, <2>2, <3>1, <3>2 DEF Past
    <3>4. w[i] = Unit(every, k, bytes[k] + 1, bytes[k + 1], j)
      BY <1>0, <2>2, <3>1, <3>3 DEF Sealed
    <3> QED
      BY <1>0, <1>6, <3>1, <3>3, <3>4
  <2> QED
    BY <1>0, <2>1, <2>2
<1>11. Sealed(every, more, received, nonce + 1, m + (take + 2), v)
  <2>1. nonce + 1 - 1 = nonce
    BY <1>0
  <2>2. m + (take + 2) <= Past(more, nonce + 1) - Past(more, received)
    BY <1>0, <1>6, <1>8
  <2> QED
    BY <1>0, <1>4, <1>9, <1>10, <2>1, <2>2 DEF Sealed
<1> QED
  BY <1>4, <1>5, <1>8, <1>11 DEF more

(* The m units w, without the first record, of size units, are v.          *)
Shrunk(bytes, m, w, size, v) ==
  /\ received \in Nat /\ nonce \in Nat /\ received < nonce /\ m \in Nat /\ size \in Nat
  /\ Sealed(every, bytes, received, nonce, m, w)
  /\ size = bytes[received + 1] - bytes[received] + 2 /\ size <= m
  /\ \A i \in 1..(m - size) : v[i] = w[size + i]

(* A record less, which is the first.                                      *)
LEMMA SealedLess ==
  ASSUME NEW bytes, NEW m, NEW w, NEW v, NEW size, Shrunk(bytes, m, w, size, v)
  PROVE  /\ Sealed(every, bytes, received + 1, nonce, m - size, v)
         /\ Past(bytes, received + 1) = Past(bytes, received) + size
<1>0. /\ received \in Nat /\ nonce \in Nat /\ received < nonce /\ m \in Nat /\ size \in Nat
      /\ Sealed(every, bytes, received, nonce, m, w)
      /\ size = bytes[received + 1] - bytes[received] + 2 /\ size <= m
      /\ \A i \in 1..(m - size) : v[i] = w[size + i]
  BY DEF Shrunk
<1>1. bytes \in [Nat -> Nat] /\ bytes[nonce] \in Nat /\ bytes[received] \in Nat /\ bytes[received + 1] \in Nat
  BY <1>0 DEF Sealed
<1>2. Past(bytes, received + 1) = Past(bytes, received) + size /\ Past(bytes, received) \in Nat
      /\ Past(bytes, nonce) \in Nat
  BY <1>0, <1>1 DEF Past
<1>3. m - size <= Past(bytes, nonce) - Past(bytes, received + 1)
  BY <1>0, <1>2 DEF Sealed
<1>4. \A i, j \in (received + 1)..nonce : i <= j => bytes[i] <= bytes[j]
  BY <1>0 DEF Sealed
<1>5. ASSUME NEW k \in (received + 1)..(nonce - 1), NEW j \in 1..(bytes[k + 1] - bytes[k] + 2),
             Past(bytes, k) - Past(bytes, received + 1) + j <= m - size
      PROVE  v[Past(bytes, k) - Past(bytes, received + 1) + j] = Unit(every, k, bytes[k] + 1, bytes[k + 1], j)
  <2> DEFINE i == Past(bytes, k) - Past(bytes, received + 1) + j
  <2>1. bytes[received + 1] <= bytes[k] /\ bytes[k] \in Nat /\ bytes[k + 1] \in Nat /\ k \in received..(nonce - 1)
    BY <1>0, <1>1 DEF Sealed
  <2>2. Past(bytes, k) - Past(bytes, received + 1) \in Nat /\ Past(bytes, k) \in Nat
    BY <1>0, <1>1, <2>1 DEF Past
  <2>3. i \in 1..(m - size) /\ size + i = Past(bytes, k) - Past(bytes, received) + j /\ size + i <= m
    BY <1>0, <1>2, <1>5, <2>1, <2>2
  <2>4. w[size + i] = Unit(every, k, bytes[k] + 1, bytes[k + 1], j)
    BY <1>0, <2>1, <2>3 DEF Sealed
  <2> QED
    BY <1>0, <2>3, <2>4
<1> QED
  BY <1>0, <1>1, <1>2, <1>3, <1>4, <1>5 DEF Sealed

(* The first units of what was sealed.                                     *)
LEMMA SealedCut ==
  ASSUME NEW e, NEW r \in Nat, NEW n \in Nat, NEW bytes, NEW m \in Nat, NEW w, NEW v,
         Sealed(e, bytes, r, n, m, w), NEW l \in 0..m, \A i \in 1..l : v[i] = w[i],
         r <= n
  PROVE  Sealed(e, bytes, r, n, l, v)
<1>1. bytes \in [Nat -> Nat] /\ bytes[n] \in Nat /\ bytes[r] \in Nat
  BY DEF Sealed
<1>2. l <= Past(bytes, n) - Past(bytes, r)
  BY <1>1 DEF Sealed, Past
<1>3. ASSUME NEW k \in r..(n - 1), NEW j \in 1..(bytes[k + 1] - bytes[k] + 2),
             Past(bytes, k) - Past(bytes, r) + j <= l
      PROVE  v[Past(bytes, k) - Past(bytes, r) + j] = Unit(e, k, bytes[k] + 1, bytes[k + 1], j)
  <2> DEFINE i == Past(bytes, k) - Past(bytes, r) + j
  <2>1. bytes[r] <= bytes[k] /\ bytes[k] \in Nat /\ bytes[k + 1] \in Nat
    BY <1>1 DEF Sealed
  <2>2. i \in 1..l /\ i <= m
    BY <1>1, <1>3, <2>1 DEF Past
  <2>3. w[i] = Unit(e, k, bytes[k] + 1, bytes[k + 1], j)
    BY <2>2 DEF Sealed
  <2> QED
    BY <2>2, <2>3
<1> QED
  BY <1>1, <1>2, <1>3 DEF Sealed

(* What a unit says.                                                       *)
LEMMA UnitIs ==
  ASSUME NEW e, NEW n \in Nat, NEW first \in Nat, NEW last \in Nat, first <= last + 1,
         NEW j \in 1..(last - first + 3)
  PROVE  LET u == Unit(e, n, first, last, j)
         IN  /\ u.nonce = n /\ u.key = KeyOf(e, n) /\ u.size = last - first + 2
             /\ j # 1 /\ j # last - first + 3 => u.byte = first + j - 2
BY DEF Unit

(* How long it says that its record is.                                    *)
LEMMA SizeIs ==
  \A e, n, first, last, j : Unit(e, n, first, last, j).size = last - first + 2
BY Zenon DEF Unit

(* The first unit of some is one.                                          *)
LEMMA UnitsAre ==
  ASSUME NEW u \in Seq(Units(every)), Len(u) = 1
  PROVE  u[1].size \in Nat
<1>1. u[1] \in Units(every)
  OBVIOUS
<1> QED
  BY <1>1 DEF Units

(* The first record of those that are sealed, if there is a unit of it.    *)
LEMMA SealedFirst ==
  ASSUME received \in Nat, nonce \in Nat, received <= nonce, NEW bytes, NEW m \in Nat, NEW w,
         Sealed(every, bytes, received, nonce, m, w), m > 0
  PROVE  /\ received < nonce /\ bytes[received] \in Nat /\ bytes[received + 1] \in Nat /\ bytes[received] <= bytes[received + 1]
         /\ \A j \in 1..(bytes[received + 1] - bytes[received] + 2) :
              j <= m => w[j] = Unit(every, received, bytes[received] + 1, bytes[received + 1], j)
<1>1. bytes \in [Nat -> Nat] /\ bytes[received] \in Nat /\ bytes[received + 1] \in Nat /\ bytes[nonce] \in Nat
  BY DEF Sealed
<1>2. received # nonce
  BY <1>1 DEF Sealed, Past
<1>3. received \in received..(nonce - 1) /\ received \in received..nonce /\ received + 1 \in received..nonce
  BY <1>2
<1>4. bytes[received] <= bytes[received + 1]
  BY <1>3 DEF Sealed
<1>5. ASSUME NEW j \in 1..(bytes[received + 1] - bytes[received] + 2), j <= m
      PROVE  w[j] = Unit(every, received, bytes[received] + 1, bytes[received + 1], j)
  <2> DEFINE i == Past(bytes, received) - Past(bytes, received) + j
  <2>1. i = j
    BY <1>1 DEF Past
  <2>2. i <= m => w[i] = Unit(every, received, bytes[received] + 1, bytes[received + 1], j)
    BY <1>3 DEF Sealed
  <2> QED
    BY <1>5, <2>1, <2>2
<1> QED
  BY <1>1, <1>2, <1>4, <1>5

(* As a Noise session starts, nothing is on the line.                      *)
LEMMA NoiseInit == Noised!Init => NoiseIInv
<1> SUFFICES ASSUME Noised!Init PROVE NoiseIInv
  OBVIOUS
<1>1. /\ accepted = 0 /\ nonce = 0 /\ received = 0 /\ collected = <<>> /\ line = <<>>
      /\ buffered = <<>> /\ plain = <<>> /\ given = <<>> /\ over = "no" /\ opener = "open"
      /\ pairing = [e \in Noised!End |-> "check"] /\ turn = [e \in Noised!End |-> 0]
  BY DEF Noised!Init
<1>2. \A S : <<>> \in Seq(S)
  OBVIOUS
<1>3. NoiseTyped
  BY <1>1, <1>2 DEF NoiseTyped, Noised!Init
<1>8. Agreed
  BY <1>1 DEF Agreed, Paired, Begun, Noised!End
<1>4. Written = <<>> /\ Len(Written) = 0
  BY <1>1 DEF Written
<1> DEFINE bytes == [k \in Nat |-> 0]
<1>5. Sealed(every, bytes, 0, 0, 0, Written)
  BY DEF Sealed, Past
<1>6. Recording(bytes)
  BY <1>1, <1>4, <1>5 DEF Recording, Past
<1>7. Recorded
  BY <1>6 DEF Recorded
<1> QED
  BY <1>1, <1>3, <1>7, <1>8 DEF NoiseIInv, Numbered, Collecting, Finished

(* Before the session is open only its ends and its phase change.          *)
LEMMA StreamStays ==
  ASSUME NoiseIInv, UNCHANGED Noised!stream
  PROVE  Numbered' /\ Recorded' /\ Collecting' /\ Finished'
<1>1. UNCHANGED <<every, accepted, nonce, buffered, line, over, collected, received, plain,
                  given, opener>>
  BY DEF Noised!stream
<1>2. Numbered' /\ Collecting' /\ Finished'
  BY <1>1 DEF NoiseIInv, Numbered, Collecting, Finished
<1>3. Written' = Written
  BY <1>1 DEF Written
<1>4. PICK bytes : Recording(bytes)
  BY DEF NoiseIInv, Recorded
<1>5. Recording(bytes)'
  BY <1>1, <1>3, <1>4 DEF Recording
<1> QED
  BY <1>2, <1>5 DEF Recorded

(* There are two ends, and each has the other.                             *)
LEMMA OtherIs ==
  ASSUME NEW e \in Noised!End
  PROVE  /\ Noised!Other(e) \in Noised!End /\ Noised!Other(e) # e
         /\ \A o \in Noised!End : o # e => o = Noised!Other(e)
<1>1. \E o \in Noised!End : o # e
  BY DEF Noised!End
<1>2. Noised!Other(e) \in Noised!End /\ Noised!Other(e) # e
  BY <1>1 DEF Noised!Other
<1> QED
  BY <1>2 DEF Noised!End

(* How far the ends are does not change once the records go, whose counts  *)
(* must be of ends that opened.                                            *)
LEMMA AgreedStays ==
  ASSUME Agreed, UNCHANGED <<ends, turn, pairing, from>>,
         nonce' > 0 => pairing[from] = "open",
         received' > 0 => pairing[Noised!Other(from)] = "open"
  PROVE  Agreed'
<1>1. Paired'
  BY DEF Agreed, Paired, Noised!check, Noised!Mismatch, Noised!PinHolds, Noised!theirs_of,
         Noised!theirs, Noised!mine
<1>2. Begun'
  BY DEF Begun
<1> QED
  BY <1>1, <1>2 DEF Agreed

(* And no other step counts a record.                                      *)
LEMMA AgreedKeeps ==
  ASSUME NoiseIInv, UNCHANGED <<ends, turn, pairing, from, nonce, received>>
  PROVE  Agreed'
BY AgreedStays DEF NoiseIInv, Agreed, Begun

(* A step that does nothing keeps it all.                                  *)
LEMMA StuttersKeep == ASSUME NoiseIInv, UNCHANGED noiseVars PROVE NoiseIInv'
<1>1. UNCHANGED Noised!stream /\ UNCHANGED <<ends, turn, pairing, from, nonce, received>>
  BY DEF noiseVars, Noised!stream
<1>2. NoiseTyped'
  BY <1>1 DEF NoiseIInv, NoiseTyped, Noised!stream
<1> QED
  BY <1>1, <1>2, StreamStays, AgreedKeeps DEF NoiseIInv

(* check judges the ends, before any message.                              *)
LEMMA ChecksPair == ASSUME NoiseIInv, Noised!Checks PROVE NoiseIInv'
<1>1. /\ UNCHANGED <<ends, turn, from, Noised!stream>>
      /\ \A e \in Noised!End : pairing[e] = "check"
      /\ pairing' = [e \in Noised!End |->
                       IF Noised!check(ends.pattern, ends[e], e = "responder")
                       THEN "handshake" ELSE "refused"]
  BY DEF Noised!Checks
<1>2. NoiseTyped'
  BY <1>1 DEF NoiseIInv, NoiseTyped, Noised!stream
<1>3. Paired'
  <2>1. ends' = ends /\ turn' = turn
    BY <1>1
  <2>2. turn'["initiator"] >= 2 => ~Noised!Mismatch'
    BY <2>1 DEF NoiseIInv, Agreed, Paired, Noised!Mismatch, Noised!theirs_of, Noised!theirs,
                Noised!mine
  <2>3. \A e \in Noised!End : pairing'[e] \notin {"check", "refused"} =>
          Noised!check(ends.pattern, ends[e], e = "responder")
    BY <1>1
  <2>4. \A e \in Noised!End : pairing'[e] # "open"
    BY <1>1
  <2> QED
    BY <2>1, <2>2, <2>3, <2>4 DEF Paired, Noised!check
<1>4. Begun'
  <2>1. from \in Noised!End /\ Noised!Other(from) \in Noised!End /\ nonce' = nonce
        /\ received' = received /\ from' = from
    BY <1>1, OtherIs DEF NoiseIInv, NoiseTyped, Noised!stream
  <2>2. ~(nonce > 0) /\ ~(received > 0)
    BY <1>1, <2>1 DEF NoiseIInv, Agreed, Begun
  <2> QED
    BY <2>1, <2>2 DEF Begun
<1> QED
  BY <1>1, <1>2, <1>3, <1>4, StreamStays DEF NoiseIInv, Agreed

(* A connection that is dropped carries a part of what was written.        *)
Dropped(k) ==
  /\ k \in 0..Len(line) /\ line' = SubSeq(line, 1, k) /\ over' = "cut" /\ buffered' = <<>>
  /\ UNCHANGED <<every, accepted, nonce, collected, received, plain, given, opener>>

(* What is on it, counted and collected is still as it must be.            *)
LEMMA DropKeeps ==
  ASSUME NoiseIInv, NEW k, Dropped(k)
  PROVE  /\ line' \in Seq(Units(every')) /\ buffered' \in Seq(Units(every'))
         /\ Recorded' /\ Numbered' /\ Collecting' /\ Finished'
<1>1. UNCHANGED <<every, accepted, nonce, collected, received, plain, given, opener>>
      /\ over' = "cut" /\ buffered' = <<>>
  BY DEF Dropped
<1>2. k \in 0..Len(line) /\ line' = SubSeq(line, 1, k)
  BY DEF Dropped
<1>3. /\ buffered \in Seq(Units(every)) /\ line \in Seq(Units(every))
      /\ collected \in Seq(Units(every)) /\ received \in Nat /\ nonce \in Nat /\ received <= nonce
  BY DEF NoiseIInv, NoiseTyped
<1>4. line' \in Seq(Units(every)) /\ buffered' \in Seq(Units(every))
  BY <1>1, <1>2, <1>3
<1>5. /\ Len(Written') \in 0..Len(Written) /\ Len(Written) \in Nat
      /\ \A i \in 1..Len(Written') : Written'[i] = Written[i]
  <2> DEFINE l == SubSeq(line, 1, k)
             c == collected
             b == buffered
             S == Units(every)
  <2>1. Written' = (c \o l) \o <<>> /\ Written = (c \o line) \o b
    BY <1>1, <1>2 DEF Written
  <2>2. c \in Seq(S) /\ line \in Seq(S) /\ b \in Seq(S) /\ k \in 0..Len(line)
    BY <1>2, <1>3
  <2> HIDE DEF c, b, S
  <2>3. l \in Seq(S) /\ Len(l) = k /\ \A i \in 1..k : l[i] = line[i]
    BY <2>2
  <2> HIDE DEF l
  <2>4. Len(c) \in Nat /\ Len(line) \in Nat /\ Len(b) \in Nat /\ k \in Nat /\ k <= Len(line)
    BY <2>2
  <2>5. /\ (c \o l) \o <<>> = c \o l /\ c \o l \in Seq(S) /\ Len(c \o l) = Len(c) + k
        /\ \A i \in 1..(Len(c) + k) : (c \o l)[i] = IF i <= Len(c) THEN c[i] ELSE l[i - Len(c)]
    <3>1. l \in Seq(S) /\ Len(l) = k
      BY <2>3
    <3>2. c \o l \in Seq(S) /\ Len(c \o l) = Len(c) + k
      BY <2>2, <3>1
    <3>3. \A i \in 1..(Len(c) + k) : (c \o l)[i] = IF i <= Len(c) THEN c[i] ELSE l[i - Len(c)]
      BY <2>2, <3>1
    <3> DEFINE z == c \o l
    <3>4. z \o <<>> = z
      <4>1. z \in Seq(S)
        BY <3>2
      <4> HIDE DEF z
      <4> QED
        BY <4>1
    <3> QED
      BY <3>2, <3>3, <3>4, Zenon
  <2>6. /\ c \o line \in Seq(S) /\ Len(c \o line) = Len(c) + Len(line)
        /\ \A i \in 1..(Len(c) + Len(line)) :
             (c \o line)[i] = IF i <= Len(c) THEN c[i] ELSE line[i - Len(c)]
    BY <2>2
  <2> DEFINE d == c \o line
  <2>7. d \in Seq(S) /\ Len(d) = Len(c) + Len(line)
    BY <2>6
  <2> HIDE DEF d
  <2>8. /\ Len(d \o b) = Len(c) + Len(line) + Len(b)
        /\ \A i \in 1..Len(d) : (d \o b)[i] = d[i]
    <3>1. d \in Seq(S) /\ b \in Seq(S)
      BY <2>2, <2>7
    <3>2. Len(d \o b) = Len(d) + Len(b) /\ \A i \in 1..Len(d) : (d \o b)[i] = d[i]
      BY <3>1
    <3> QED
      BY <2>7, <3>2, Zenon
  <2>9. Len(c \o l) \in 0..Len(d \o b) /\ Len(d \o b) \in Nat
    BY <2>4, <2>5, <2>8
  <2>10. ASSUME NEW i \in 1..(Len(c) + k) PROVE (c \o l)[i] = (d \o b)[i]
    <3>1. i \in 1..(Len(c) + Len(line)) /\ i \in 1..Len(d) /\ i \in Int
      BY <2>4, <2>7
    <3>2. (c \o l)[i] = IF i <= Len(c) THEN c[i] ELSE l[i - Len(c)]
      BY <2>5
    <3>3. d[i] = IF i <= Len(c) THEN c[i] ELSE line[i - Len(c)]
      BY <2>6, <3>1, Zenon DEF d
    <3>4. ~(i <= Len(c)) => i - Len(c) \in 1..k
      BY <2>4, <3>1
    <3>5. (d \o b)[i] = d[i]
      BY <2>8, <3>1
    <3> QED
      BY <2>3, <3>2, <3>3, <3>4, <3>5, Zenon
  <2> QED
    BY <2>1, <2>5, <2>9, <2>10, Zenon DEF d
<1>7. Recorded'
  <2>1. PICK bytes : Recording(bytes)
    BY DEF NoiseIInv, Recorded
  <2> DEFINE m == Len(Written)
             l == Len(Written')
             v == Written'
  <2>2. Sealed(every, bytes, received, nonce, m, Written)
    BY <2>1 DEF Recording
  <2>3. m \in Nat /\ l \in 0..m /\ \A i \in 1..l : v[i] = Written[i]
    BY <1>5
  <2> HIDE DEF m, l, v
  <2>4. Sealed(every, bytes, received, nonce, l, v)
    BY <1>3, <2>2, <2>3, SealedCut
  <2>5. Sealed(every', bytes, received', nonce', Len(Written'), Written')
    BY <1>1, <2>4 DEF l, v
  <2>6. Recording(bytes)'
    BY <1>1, <2>1, <2>5, Zenon DEF Recording
  <2> QED
    BY <2>6 DEF Recorded
<1>8. Numbered' /\ Collecting'
  BY <1>1 DEF NoiseIInv, Numbered, Collecting
<1>9. Finished'
  BY <1>1 DEF NoiseIInv, Finished
<1> QED
  BY <1>1, <1>4, <1>7, <1>8, <1>9

(* A message of the handshake, a pin or the loss of the peer changes one   *)
(* end, and it may fail.                                                   *)
LEMMA ShakingKeeps ==
  ASSUME NoiseIInv, NEW e \in Noised!End,
         \/ Noised!WritesMessage(e) \/ Noised!ReadsMessage(e)
         \/ Noised!LosesPeer(e) \/ Noised!Pins(e)
  PROVE  NoiseIInv'
<1>1. /\ pairing[e] = "handshake" /\ UNCHANGED <<ends, from, nonce, received>>
      /\ every' = every
      /\ \/ UNCHANGED pairing
         \/ pairing' = [pairing EXCEPT ![e] = "failed"]
         \/ pairing' = [pairing EXCEPT ![e] = "open"]
  BY DEF Noised!WritesMessage, Noised!ReadsMessage, Noised!LosesPeer, Noised!Pins, Noised!Fails,
         Noised!Shaking, Noised!stream
<1>2. /\ ends \in [pattern : Noised!Handshakes, initiator : Noised!Given, responder : Noised!Given]
      /\ turn \in [Noised!End -> 0..3] /\ from \in Noised!End
      /\ pairing \in [Noised!End -> {"check", "handshake", "open", "refused", "failed"}]
  BY DEF NoiseIInv, NoiseTyped
<1>3. Noised!messages(ends.pattern) \in {2, 3}
  BY DEF Noised!messages
<1>4. \/ UNCHANGED turn
      \/ /\ turn[e] < Noised!messages(ends.pattern) /\ turn' = [turn EXCEPT ![e] = @ + 1]
         /\ UNCHANGED pairing
         /\ e = "initiator" /\ turn[e] = 1 => ~Noised!Mismatch
  <2>1. CASE Noised!WritesMessage(e)
    <3>1. turn[e] < Noised!messages(ends.pattern) /\ turn' = [turn EXCEPT ![e] = @ + 1]
          /\ UNCHANGED pairing /\ Noised!MyTurn(e)
      BY <2>1 DEF Noised!WritesMessage, Noised!Goes
    <3>2. ~(e = "initiator" /\ turn[e] = 1)
      BY <3>1 DEF Noised!MyTurn
    <3> QED
      BY <3>1, <3>2
  <2>2. CASE Noised!ReadsMessage(e)
    <3>1. CASE Noised!Mismatch /\ Noised!encrypted(turn[e] + 1)
      BY <2>2, <3>1 DEF Noised!ReadsMessage
    <3>2. CASE ~(Noised!Mismatch /\ Noised!encrypted(turn[e] + 1))
      <4>1. turn[e] < Noised!messages(ends.pattern) /\ turn' = [turn EXCEPT ![e] = @ + 1]
            /\ UNCHANGED pairing
        BY <2>2, <3>2 DEF Noised!ReadsMessage, Noised!Goes
      <4>2. turn[e] = 1 => Noised!encrypted(turn[e] + 1)
        BY DEF Noised!encrypted
      <4> QED
        BY <3>2, <4>1, <4>2
    <3> QED
      BY <3>1, <3>2
  <2>3. CASE Noised!LosesPeer(e) \/ Noised!Pins(e)
    BY <2>3 DEF Noised!LosesPeer, Noised!Pins
  <2> QED
    BY <2>1, <2>2, <2>3
<1>5. /\ turn' \in [Noised!End -> 0..3] /\ from' \in Noised!End
      /\ pairing' \in [Noised!End -> {"check", "handshake", "open", "refused", "failed"}]
  BY <1>1, <1>2, <1>3, <1>4
<1>6. Paired'
  <2>1. Paired
    BY DEF NoiseIInv, Agreed
  <2>2. (Noised!Mismatch' <=> Noised!Mismatch)
        /\ \A d \in Noised!End : Noised!PinHolds(d)' <=> Noised!PinHolds(d)
    BY <1>1 DEF Noised!Mismatch, Noised!PinHolds, Noised!theirs_of, Noised!theirs, Noised!mine
  <2>3. ASSUME NEW d \in Noised!End, pairing'[d] \notin {"check", "refused"}
        PROVE  Noised!check(ends.pattern, ends[d], d = "responder")
    BY <1>1, <1>2, <2>1, <2>3 DEF Paired
  <2>4. ASSUME turn'["initiator"] >= 2 PROVE ~Noised!Mismatch
    <3>1. CASE turn["initiator"] >= 2
      BY <2>1, <3>1 DEF Paired
    <3>2. CASE ~(turn["initiator"] >= 2)
      <4>1. "initiator" \in Noised!End /\ turn["initiator"] \in 0..3
        BY <1>2 DEF Noised!End
      <4>2. e = "initiator" /\ turn[e] = 1
        BY <1>2, <1>4, <2>4, <3>2, <4>1
      <4> QED
        BY <1>4, <2>4, <3>2, <4>2
    <3> QED
      BY <3>1, <3>2
  <2>5. ASSUME NEW d \in Noised!End, pairing'[d] = "open"
        PROVE  turn'[d] = Noised!messages(ends.pattern) /\ Noised!PinHolds(d)
    <3>1. CASE d # e
      <4>1. pairing[d] = "open" /\ turn'[d] = turn[d]
        BY <1>1, <1>2, <1>4, <2>5, <3>1
      <4> QED
        BY <2>1, <4>1 DEF Paired
    <3>2. CASE d = e
      <4>1. pairing' # pairing
        BY <1>1, <1>2, <2>5, <3>2
      <4>2. CASE Noised!WritesMessage(e)
        BY <4>1, <4>2 DEF Noised!WritesMessage
      <4>3. CASE Noised!ReadsMessage(e) \/ Noised!LosesPeer(e)
        <5>1. pairing' = [pairing EXCEPT ![e] = "failed"]
          BY <4>1, <4>3 DEF Noised!ReadsMessage, Noised!LosesPeer, Noised!Fails
        <5> QED
          BY <1>2, <2>5, <3>2, <5>1
      <4>4. CASE Noised!Pins(e)
        <5>1. turn[e] = Noised!messages(ends.pattern) /\ UNCHANGED turn
          BY <4>4 DEF Noised!Pins
        <5>2. CASE Noised!PinHolds(e)
          BY <3>2, <5>1, <5>2
        <5>3. CASE ~Noised!PinHolds(e)
          <6>1. pairing' = [pairing EXCEPT ![e] = "failed"]
            BY <4>4, <5>3 DEF Noised!Pins, Noised!Fails
          <6> QED
            BY <1>2, <2>5, <3>2, <6>1
        <5> QED
          BY <5>2, <5>3
      <4> QED
        BY <4>2, <4>3, <4>4
    <3> QED
      BY <3>1, <3>2
  <2>6. ends' = ends
    BY <1>1
  <2>7. /\ \A d \in Noised!End : pairing'[d] \notin {"check", "refused"} =>
             Noised!check(ends'.pattern, ends'[d], d = "responder")
        /\ \A d \in Noised!End : pairing'[d] = "open" => turn'[d] = Noised!messages(ends'.pattern)
    BY <2>3, <2>5, <2>6
  <2> QED
    BY <2>2, <2>4, <2>5, <2>7 DEF Paired, Noised!check
<1>7. Begun'
  <2>1. Noised!Other(from) \in Noised!End
    BY <1>2, OtherIs
  <2>2. \A d \in Noised!End : pairing[d] = "open" => pairing'[d] = "open"
    BY <1>1, <1>2
  <2> QED
    BY <1>1, <1>2, <2>1, <2>2 DEF NoiseIInv, Agreed, Begun
<1>8. CASE UNCHANGED Noised!stream
  <2>1. NoiseTyped'
    BY <1>1, <1>2, <1>5, <1>8 DEF NoiseIInv, NoiseTyped, Noised!stream
  <2> QED
    BY <1>6, <1>7, <1>8, <2>1, StreamStays DEF NoiseIInv, Agreed
<1>9. CASE Noised!Fails(e)
  <2>1. over' = "cut" /\ buffered' = <<>> /\ line' = line
        /\ UNCHANGED <<every, accepted, nonce, collected, received, plain, given, opener>>
    BY <1>9 DEF Noised!Fails
  <2>2. Len(line) \in 0..Len(line) /\ line' = SubSeq(line, 1, Len(line))
    <3>1. line \in Seq(Units(every))
      BY DEF NoiseIInv, NoiseTyped
    <3> DEFINE S == Units(every)
    <3>2. line \in Seq(S)
      BY <3>1
    <3> HIDE DEF S
    <3> QED
      BY <2>1, <3>2
  <2>3. /\ line' \in Seq(Units(every')) /\ buffered' \in Seq(Units(every'))
        /\ Recorded' /\ Numbered' /\ Collecting' /\ Finished'
    BY <2>1, <2>2, DropKeeps DEF Dropped
  <2>4. NoiseTyped'
    BY <1>1, <1>2, <1>5, <2>1, <2>3 DEF NoiseIInv, NoiseTyped
  <2> QED
    BY <1>6, <1>7, <2>3, <2>4 DEF NoiseIInv, Agreed
<1>10. UNCHANGED Noised!stream \/ Noised!Fails(e)
  BY DEF Noised!WritesMessage, Noised!ReadsMessage, Noised!LosesPeer, Noised!Pins
<1> QED
  BY <1>8, <1>9, <1>10

(* A record is made and begins to go, or waits.                            *)
Making(take, k) ==
  /\ NoiseIInv /\ pairing[from] = "open" /\ buffered = <<>> /\ over = "no"
  /\ accepted' = accepted + take /\ nonce' = nonce + 1
  /\ Noised!Sends(k, Noised!Record(nonce, accepted + 1, accepted + take))
  /\ UNCHANGED <<ends, turn, pairing, from, every, over, collected, received, plain, given, opener>>

(* Which leaves records, and all else.                                     *)
LEMMA RecordKeeps ==
  ASSUME NEW take \in Nat, NEW k \in Int, Making(take, k)
  PROVE  NoiseIInv'
<1> DEFINE record == Noised!Record(nonce, accepted + 1, accepted + take)
<1>1. /\ accepted \in Nat /\ nonce \in Nat /\ received \in Nat /\ received <= nonce
      /\ line \in Seq(Units(every)) /\ collected \in Seq(Units(every))
  BY DEF Making, NoiseIInv, NoiseTyped
<1>2. PICK bytes : Recording(bytes)
  BY DEF Making, NoiseIInv, Recorded
<1>3. /\ record \in Seq(Units(every)) /\ Len(record) = take + 2
      /\ \A j \in 1..(take + 2) : record[j] = Unit(every, nonce, accepted + 1, accepted + take, j)
  <2>1. /\ accepted + 1 \in Nat /\ accepted + take \in Nat /\ accepted + 1 <= accepted + take + 1
        /\ accepted + 1 > 0 /\ accepted + take - (accepted + 1) + 3 = take + 2
    BY <1>1
  <2> DEFINE first == accepted + 1
             last  == accepted + take
  <2>2. first \in Nat /\ last \in Nat /\ first <= last + 1 /\ first > 0 /\ last - first + 3 = take + 2
    BY <1>1
  <2> HIDE DEF first, last
  <2>3. /\ Noised!Record(nonce, first, last) \in Seq(Units(every))
        /\ Len(Noised!Record(nonce, first, last)) = last - first + 3
        /\ \A j \in 1..(last - first + 3) :
             Noised!Record(nonce, first, last)[j] = Unit(every, nonce, first, last, j)
    BY <1>1, <2>2, RecordIs
  <2> QED
    BY <2>2, <2>3 DEF first, last
<1> HIDE DEF record
<1>4. record \in Seq(Units(every)) /\ Len(record) = take + 2
  BY <1>3
<1>5. /\ k \in 0..Len(record) /\ line' = line \o SubSeq(record, 1, k)
      /\ buffered' = SubSeq(record, k + 1, Len(record)) /\ collected' = collected
  BY DEF Making, Noised!Sends, record
<1>6. /\ line' \in Seq(Units(every)) /\ buffered' \in Seq(Units(every))
      /\ Written' = (collected \o line) \o record
  <2>1. /\ line \o SubSeq(record, 1, k) \in Seq(Units(every))
        /\ SubSeq(record, k + 1, Len(record)) \in Seq(Units(every))
        /\ (collected \o (line \o SubSeq(record, 1, k))) \o SubSeq(record, k + 1, Len(record))
             = (collected \o line) \o record
    BY <1>1, <1>4, <1>5, SentOn
  <2> QED
    BY <1>5, <2>1, Zenon DEF Written
<1>7. Written' = Written \o record /\ Written \in Seq(Units(every))
  <2>1. buffered = <<>>
    BY DEF Making
  <2>2. (collected \o line) \o buffered = collected \o line
        /\ collected \o line \in Seq(Units(every))
    BY <1>1, <2>1
  <2> QED
    BY <1>6, <2>2, Zenon DEF Written
<1>8. /\ Len(Written') = Len(Written) + (take + 2) /\ Len(Written) \in Nat
      /\ \A i \in 1..Len(Written) : Written'[i] = Written[i]
      /\ \A j \in 1..(take + 2) : Written'[Len(Written) + j] = record[j]
  <2> DEFINE w == Written
  <2>1. w \in Seq(Units(every))
    BY <1>7
  <2> HIDE DEF w
  <2>2. /\ Len(w \o record) = Len(w) + (take + 2) /\ Len(w) \in Nat
        /\ \A i \in 1..Len(w) : (w \o record)[i] = w[i]
        /\ \A j \in 1..(take + 2) : (w \o record)[Len(w) + j] = record[j]
    BY <1>4, <2>1
  <2> QED
    BY <1>7, <2>2, Zenon DEF w
<1>9. NoiseTyped'
  <2>1. (nonce + 1) \in Nat /\ accepted + take \in Nat /\ received <= nonce + 1
    BY <1>1
  <2> QED
    BY <1>6, <2>1 DEF Making, NoiseIInv, NoiseTyped
<1>10. Recorded'
  <2> DEFINE m    == Len(Written)
             v    == Written'
  <2>1. /\ Sealed(every, bytes, received, nonce, m, Written)
        /\ bytes[received] = Len(given) + Len(plain) /\ bytes[nonce] = accepted
        /\ m = Past(bytes, nonce) - Past(bytes, received)
    BY <1>2 DEF Making, Recording
  <2>2. /\ m \in Nat /\ \A i \in 1..m : v[i] = Written[i]
    BY <1>8
  <2>3. \A j \in 1..(take + 2) :
             v[m + j] = Unit(every, nonce, bytes[nonce] + 1, bytes[nonce] + take, j)
    BY <1>3, <1>8, <2>1, Zenon
  <2> HIDE DEF m, v
  <2>4. PICK more :
        /\ Sealed(every, more, received, nonce + 1, m + (take + 2), v)
        /\ more[received] = bytes[received] /\ more[nonce + 1] = bytes[nonce] + take
        /\ m + (take + 2) = Past(more, nonce + 1) - Past(more, received)
    <3>1. Grown(bytes, m, Written, take, v)
      BY <1>1, <2>1, <2>2, <2>3, Zenon DEF Grown
    <3> QED
      BY <3>1, SealedMore
  <2>5. Len(Written') = m + (take + 2)
    BY <1>8 DEF m
  <2>6. /\ every' = every /\ received' = received /\ nonce' = nonce + 1 /\ given' = given
        /\ plain' = plain /\ accepted' = accepted + take
    BY DEF Making
  <2>7. Sealed(every', more, received', nonce', Len(Written'), Written')
    BY <2>4, <2>5, <2>6, Zenon DEF v
  <2>8. more[received'] = Len(given') + Len(plain') /\ more[nonce'] = accepted'
    BY <2>1, <2>4, <2>6, Zenon
  <2>9. Len(Written') = Past(more, nonce') - Past(more, received')
    BY <2>4, <2>5, <2>6, Zenon
  <2>10. Recording(more)'
    BY <2>7, <2>8, <2>9 DEF Recording
  <2> QED
    BY <2>10 DEF Recorded
<1>11. Numbered' /\ Collecting'
  BY DEF Making, NoiseIInv, Numbered, Collecting
<1>12. Agreed'
  <2>1. received' > 0 => pairing[Noised!Other(from)] = "open"
    BY DEF Making, NoiseIInv, Agreed, Begun
  <2> QED
    BY <2>1, AgreedStays DEF Making, NoiseIInv
<1>13. Finished'
  BY DEF Making, NoiseIInv, Finished
<1> QED
  BY <1>9, <1>10, <1>11, <1>12, <1>13 DEF NoiseIInv

(* Nothing that was written is lost, or read.                              *)
LEMMA RecordingStays ==
  ASSUME NEW bytes, Recording(bytes), Written' = Written,
         UNCHANGED <<every, received, nonce, given, plain, accepted>>, over' # "cut" => over # "cut"
  PROVE  Recording(bytes)'
BY DEF Recording

(* A record that is sealed is written behind the others.                   *)
LEMMA SendKeeps == ASSUME NoiseIInv, Noised!poll_send PROVE NoiseIInv'
<1>1. PICK k : Noised!Sends(k, buffered)
  BY DEF Noised!poll_send
<1>2. UNCHANGED <<ends, turn, pairing, from, every, accepted, nonce, over, collected, received, plain, given,
                  opener>>
  BY DEF Noised!poll_send
<1>3. /\ buffered \in Seq(Units(every)) /\ line \in Seq(Units(every))
      /\ collected \in Seq(Units(every))
  BY DEF NoiseIInv, NoiseTyped
<1>4. /\ k \in 0..Len(buffered) /\ line' = line \o SubSeq(buffered, 1, k)
      /\ buffered' = SubSeq(buffered, k + 1, Len(buffered))
  BY <1>1 DEF Noised!Sends
<1>5. /\ line \o SubSeq(buffered, 1, k) \in Seq(Units(every))
      /\ SubSeq(buffered, k + 1, Len(buffered)) \in Seq(Units(every))
      /\ (collected \o (line \o SubSeq(buffered, 1, k))) \o SubSeq(buffered, k + 1, Len(buffered))
           = (collected \o line) \o buffered
  BY <1>3, <1>4, SentOn
<1>6. Written' = Written
  BY <1>2, <1>4, <1>5, Zenon DEF Written
<1>7. NoiseTyped'
  BY <1>2, <1>4, <1>5 DEF NoiseIInv, NoiseTyped
<1>8. Recorded'
  <2>1. PICK bytes : Recording(bytes)
    BY DEF NoiseIInv, Recorded
  <2>2. Recording(bytes)'
    BY <1>2, <1>6, <2>1, RecordingStays
  <2> QED
    BY <2>2 DEF Recorded
<1>9. Numbered' /\ Collecting' /\ Agreed'
  BY <1>2, AgreedKeeps DEF NoiseIInv, Numbered, Collecting
<1>10. Finished'
  <2>1. over = "no"
    BY DEF Noised!poll_send
  <2> QED
    BY <1>2, <2>1 DEF NoiseIInv, Finished
<1> QED
  BY <1>7, <1>8, <1>9, <1>10 DEF NoiseIInv

(* A shutdown seals no more.                                               *)
LEMMA ShutdownKeeps == ASSUME NoiseIInv, Noised!poll_shutdown PROVE NoiseIInv'
<1>1. UNCHANGED <<ends, turn, pairing, from, every, accepted, nonce, buffered, line, collected, received, plain,
                  given, opener>> /\ over = "no" /\ over' = "shut" /\ buffered = <<>>
  BY DEF Noised!poll_shutdown
<1>2. NoiseTyped'
  BY <1>1 DEF NoiseIInv, NoiseTyped
<1>3. Recorded'
  <2>1. PICK bytes : Recording(bytes)
    BY DEF NoiseIInv, Recorded
  <2>2. Written' = Written
    BY <1>1 DEF Written
  <2>3. Recording(bytes)'
    BY <1>1, <2>1, <2>2, RecordingStays
  <2> QED
    BY <2>3 DEF Recorded
<1>4. Numbered' /\ Collecting' /\ Agreed'
  BY <1>1, AgreedKeeps DEF NoiseIInv, Numbered, Collecting
<1>5. Finished'
  BY <1>1 DEF NoiseIInv, Finished
<1> QED
  BY <1>2, <1>3, <1>4, <1>5 DEF NoiseIInv

(* A line that is cut carries a part of what was written.                  *)
LEMMA CutKeeps == ASSUME NoiseIInv, Noised!Cut PROVE NoiseIInv'
<1>1. UNCHANGED <<ends, turn, pairing, from, every, accepted, nonce, collected, received, plain,
                  given, opener>>
      /\ over' = "cut" /\ buffered' = <<>>
  BY DEF Noised!Cut
<1>2. PICK k \in 0..Len(line) : line' = SubSeq(line, 1, k)
  BY DEF Noised!Cut
<1>3. /\ line' \in Seq(Units(every')) /\ buffered' \in Seq(Units(every'))
      /\ Recorded' /\ Numbered' /\ Collecting' /\ Finished'
  BY <1>1, <1>2, DropKeeps DEF Dropped
<1>4. NoiseTyped'
  BY <1>1, <1>3 DEF NoiseIInv, NoiseTyped
<1> QED
  BY <1>1, <1>3, <1>4, AgreedKeeps DEF NoiseIInv

(* What was opened is handed on in order.                                  *)
LEMMA HandsOnKeeps == ASSUME NoiseIInv, Noised!HandsOn PROVE NoiseIInv'
<1>1. UNCHANGED <<ends, turn, pairing, from, every, accepted, nonce, buffered, line, over, collected, received,
                  opener>> /\ plain # <<>>
  BY DEF Noised!HandsOn
<1>2. PICK n \in 1..Len(plain) :
           given' = given \o SubSeq(plain, 1, n) /\ plain' = SubSeq(plain, n + 1, Len(plain))
  BY DEF Noised!HandsOn
<1>3. plain \in Seq(Nat) /\ given \in Seq(Nat)
  BY DEF NoiseIInv, NoiseTyped
<1>4. given' \in Seq(Nat) /\ plain' \in Seq(Nat)
  BY <1>2, <1>3, SMTT(30)
<1>5. Len(given') = Len(given) + n /\ Len(plain') = Len(plain) - n
      /\ Len(given) \in Nat /\ Len(plain) \in Nat /\ n \in Nat
  BY <1>2, <1>3
<1>6. NoiseTyped'
  BY <1>1, <1>4 DEF NoiseIInv, NoiseTyped
<1>7. Numbered'
  <2>1. \A i \in 1..Len(given) : given[i] = i
    BY DEF NoiseIInv, Numbered
  <2>2. \A i \in 1..Len(plain) : plain[i] = Len(given) + i
    BY DEF NoiseIInv, Numbered
  <2>3. \A i \in 1..Len(given') :
          given'[i] = IF i <= Len(given) THEN given[i] ELSE plain[i - Len(given)]
    <3> DEFINE l == SubSeq(plain, 1, n)
    <3>1. l \in Seq(Nat) /\ Len(l) = n /\ \A i \in 1..n : l[i] = plain[i]
      BY <1>3
    <3> HIDE DEF l
    <3>2. Len(l) = n /\ l \in Seq(Nat)
      BY <3>1
    <3>3. \A i \in 1..(Len(given) + n) :
            (given \o l)[i] = IF i <= Len(given) THEN given[i] ELSE l[i - Len(given)]
      BY <1>3, <3>2
    <3>4. \A i \in 1..(Len(given) + n) : ~(i <= Len(given)) => i - Len(given) \in 1..n
      BY <1>5
    <3> QED
      BY <1>2, <1>5, <3>1, <3>3, <3>4, Zenon DEF l
  <2>4. \A i \in 1..Len(plain') : plain'[i] = plain[n + i]
    <3>1. \A i \in 1..(Len(plain) - n) : SubSeq(plain, n + 1, Len(plain))[i] = plain[n + i]
      BY <1>3
    <3> QED
      BY <1>2, <1>5, <3>1, Zenon
  <2>5. ASSUME NEW i \in 1..Len(given') PROVE given'[i] = i
    <3>1. CASE i <= Len(given)
      BY <1>5, <2>1, <2>3, <3>1
    <3>2. CASE ~(i <= Len(given))
      <4>1. i - Len(given) \in 1..Len(plain) /\ Len(given) + (i - Len(given)) = i
        BY <1>5, <3>2
      <4> QED
        BY <2>2, <2>3, <3>2, <4>1
    <3> QED
      BY <3>1, <3>2
  <2>6. ASSUME NEW i \in 1..Len(plain') PROVE plain'[i] = Len(given') + i
    <3>1. n + i \in 1..Len(plain) /\ Len(given) + (n + i) = Len(given') + i
      BY <1>5
    <3> QED
      BY <2>2, <2>4, <3>1
  <2> QED
    BY <2>5, <2>6 DEF Numbered
<1>8. Recorded'
  <2>1. PICK bytes : Recording(bytes)
    BY DEF NoiseIInv, Recorded
  <2>2. Written' = Written
    BY <1>1 DEF Written
  <2>3. Len(given') + Len(plain') = Len(given) + Len(plain)
    BY <1>5
  <2>4. Recording(bytes)'
    BY <1>1, <2>1, <2>2, <2>3, Zenon DEF Recording
  <2> QED
    BY <2>4 DEF Recorded
<1>9. Collecting' /\ Agreed'
  BY <1>1, AgreedKeeps DEF NoiseIInv, Collecting
<1>10. Finished'
  BY <1>1 DEF NoiseIInv, Finished
<1> QED
  BY <1>6, <1>7, <1>8, <1>9, <1>10 DEF NoiseIInv

(* What the reader has after it has taken k units more.                    *)
Taken(k) == collected \o SubSeq(line, 1, k)
Left(k)  == SubSeq(line, k + 1, Len(line))

(* What is taken from the line and what is left of it make up what was     *)
(* written.                                                                *)
LEMMA TakenIs ==
  ASSUME NoiseTyped, NEW k \in 0..Len(line)
  PROVE  /\ Taken(k) \in Seq(Units(every)) /\ Len(Taken(k)) = Len(collected) + k
         /\ collected # <<>> => Taken(k)[1] = collected[1]
         /\ Left(k) \in Seq(Units(every)) /\ Written = (Taken(k) \o Left(k)) \o buffered
         /\ Written \in Seq(Units(every))
<1>1. /\ buffered \in Seq(Units(every)) /\ line \in Seq(Units(every))
      /\ collected \in Seq(Units(every))
  BY DEF NoiseTyped
<1>2. /\ Taken(k) \in Seq(Units(every)) /\ Len(Taken(k)) = Len(collected) + k
      /\ Left(k) \in Seq(Units(every)) /\ Written = (Taken(k) \o Left(k)) \o buffered
  BY <1>1, TakenOff, ZenonT(40) DEF Taken, Left, Written
<1> DEFINE l == SubSeq(line, 1, k)
<1>3. l \in Seq(Units(every))
  BY <1>1
<1> HIDE DEF l
<1>4. collected # <<>> => (collected \o l)[1] = collected[1]
  BY <1>1, <1>3
<1>5. Written \in Seq(Units(every))
  BY <1>1 DEF Written
<1> QED
  BY <1>2, <1>4, <1>5, Zenon DEF Taken, l

(* The units that are taken are the first that were written.               *)
LEMMA TakenFirst ==
  ASSUME NoiseTyped, NEW k \in 0..Len(line)
  PROVE  /\ Len(Written) \in Nat /\ Len(Taken(k)) \in Nat /\ Len(Taken(k)) <= Len(Written)
         /\ \A i \in 1..Len(Taken(k)) : Taken(k)[i] = Written[i]
         /\ Len(Left(k) \o buffered) = Len(Written) - Len(Taken(k))
         /\ \A i \in 1..(Len(Written) - Len(Taken(k))) :
              (Left(k) \o buffered)[i] = Written[Len(Taken(k)) + i]
<1> DEFINE u == Taken(k)
           v == Left(k)
           b == buffered
           w == Written
           S == Units(every)
<1>1. u \in Seq(S) /\ v \in Seq(S) /\ b \in Seq(S) /\ w = (u \o v) \o b
  BY TakenIs DEF NoiseTyped
<1> HIDE DEF u, v, b, w, S
<1> DEFINE z == v \o b
<1>2. z \in Seq(S) /\ (u \o v) \o b = u \o z
  BY <1>1, SMTT(30)
<1> HIDE DEF z
<1>3. /\ Len(u \o z) = Len(u) + Len(z) /\ Len(u) \in Nat /\ Len(z) \in Nat
      /\ \A i \in 1..Len(u) : (u \o z)[i] = u[i]
      /\ \A i \in 1..Len(z) : (u \o z)[Len(u) + i] = z[i]
  BY <1>1, <1>2
<1>4. w = u \o z
  BY <1>1, <1>2
<1>5. /\ Len(w) = Len(u) + Len(z)
      /\ \A i \in 1..Len(u) : w[i] = u[i]
      /\ \A i \in 1..Len(z) : w[Len(u) + i] = z[i]
  BY <1>3, <1>4, Zenon
<1>6. Len(w) \in Nat /\ Len(u) \in Nat /\ Len(u) <= Len(w) /\ Len(z) = Len(w) - Len(u)
  BY <1>3, <1>5
<1> QED
  BY <1>5, <1>6, Zenon DEF u, w, z, v, b

(* The first record, of what is not read.                                  *)
LEMMA FirstIs ==
  ASSUME NoiseTyped, NEW bytes, Recording(bytes), NEW k \in 0..Len(line), Len(Taken(k)) > 0
  PROVE  /\ received < nonce /\ bytes[received] \in Nat /\ bytes[received + 1] \in Nat
         /\ bytes[received] <= bytes[received + 1]
         /\ \A j \in 1..Len(Taken(k)) :
              j <= bytes[received + 1] - bytes[received] + 2 =>
                Taken(k)[j] = Unit(every, received, bytes[received] + 1, bytes[received + 1], j)
<1> DEFINE m == Len(Written)
           n == Len(Taken(k))
<1>1. m \in Nat /\ n \in Nat /\ n <= m /\ \A i \in 1..n : Taken(k)[i] = Written[i]
  BY TakenFirst
<1>2. received \in Nat /\ nonce \in Nat /\ received <= nonce
  BY DEF NoiseTyped
<1>3. Sealed(every, bytes, received, nonce, m, Written) /\ n > 0
  BY DEF Recording
<1> HIDE DEF m, n
<1>4. m > 0
  BY <1>1, <1>3
<1>5. /\ received < nonce /\ bytes[received] \in Nat /\ bytes[received + 1] \in Nat
      /\ bytes[received] <= bytes[received + 1]
      /\ \A j \in 1..(bytes[received + 1] - bytes[received] + 2) :
           j <= m => Written[j] = Unit(every, received, bytes[received] + 1, bytes[received + 1], j)
  BY <1>1, <1>2, <1>3, <1>4, SealedFirst
<1>6. ASSUME NEW j \in 1..n, j <= bytes[received + 1] - bytes[received] + 2
      PROVE  Taken(k)[j] = Unit(every, received, bytes[received] + 1, bytes[received + 1], j)
  <2>1. j \in 1..(bytes[received + 1] - bytes[received] + 2) /\ j <= m
    BY <1>1, <1>5, <1>6
  <2> QED
    BY <1>1, <1>5, <2>1, Zenon
<1> QED
  BY <1>5, <1>6 DEF n

(* While a record is not whole, it is collected.                           *)
LEMMA PartKeeps ==
  ASSUME NoiseIInv, NEW k \in 0..Len(line), k <= Noised!Needs, k > 0,
         Len(Taken(k)) # Taken(k)[1].size + 1, collected' = Taken(k), line' = Left(k),
         UNCHANGED <<ends, turn, pairing, from, every, accepted, nonce, buffered, over, received, plain, given,
                     opener>>
  PROVE  NoiseIInv'
<1>1. NoiseTyped
  BY DEF NoiseIInv
<1>2. PICK bytes : Recording(bytes)
  BY DEF NoiseIInv, Recorded
<1>3. /\ Taken(k) \in Seq(Units(every)) /\ Len(Taken(k)) = Len(collected) + k
      /\ collected # <<>> => Taken(k)[1] = collected[1]
      /\ Left(k) \in Seq(Units(every)) /\ Written = (Taken(k) \o Left(k)) \o buffered
  BY <1>1, TakenIs
<1>4. NoiseTyped'
  BY <1>1, <1>3 DEF NoiseTyped
<1>5. Recorded'
  <2>1. Written' = Written
    BY <1>3, Zenon DEF Written
  <2>2. Recording(bytes)'
    BY <1>2, <2>1, RecordingStays
  <2> QED
    BY <2>2 DEF Recorded
<1>6. Len(Taken(k)) <= Taken(k)[1].size
  <2>1. Len(collected) \in Nat /\ (collected = <<>> => Len(collected) = 0)
    BY <1>1 DEF NoiseTyped
  <2>2. CASE collected = <<>>
    <3> DEFINE u == Taken(k)
    <3>1. Len(u) = 1
      BY <1>3, <2>1, <2>2 DEF Noised!Needs
    <3>2. u \in Seq(Units(every))
      BY <1>3
    <3> HIDE DEF u
    <3>4. u[1].size \in Nat
      BY <3>1, <3>2, UnitsAre
    <3>5. Len(u) # u[1].size + 1
      BY DEF u
    <3>6. Taken(k)[1] = Unit(every, received, bytes[received] + 1, bytes[received + 1], 1)
          /\ bytes[received] \in Nat /\ bytes[received + 1] \in Nat
          /\ bytes[received] <= bytes[received + 1]
      <4>1. Len(Taken(k)) > 0 /\ 1 \in 1..Len(Taken(k))
        BY <3>1 DEF u
      <4>2. bytes[received] \in Nat /\ bytes[received + 1] \in Nat
            /\ bytes[received] <= bytes[received + 1]
            /\ \A j \in 1..Len(Taken(k)) :
                 j <= bytes[received + 1] - bytes[received] + 2 =>
                   Taken(k)[j] = Unit(every, received, bytes[received] + 1, bytes[received + 1], j)
        BY <1>1, <1>2, <4>1, FirstIs
      <4>3. 1 <= bytes[received + 1] - bytes[received] + 2
        BY <4>2
      <4> QED
        BY <4>1, <4>2, <4>3, Zenon
    <3>7. u[1].size = bytes[received + 1] - (bytes[received] + 1) + 2
      <4>1. Unit(every, received, bytes[received] + 1, bytes[received + 1], 1).size
              = bytes[received + 1] - (bytes[received] + 1) + 2
        BY <3>6, SizeIs
      <4>2. u[1] = Unit(every, received, bytes[received] + 1, bytes[received + 1], 1)
        BY <3>6 DEF u
      <4> QED
        BY <4>1, <4>2, Zenon
    <3>8. u[1].size # 0
      BY <3>6, <3>7
    <3>9. Len(u) <= u[1].size
      BY <3>1, <3>4, <3>8
    <3> QED
      BY <3>9 DEF u
  <2>3. CASE collected # <<>>
    <3> DEFINE a == collected[1].size
    <3>1. k <= a + 1 - Len(collected)
      BY <2>3 DEF Noised!Needs
    <3>2. collected[1] \in Units(every)
      BY <1>1, <2>3 DEF NoiseTyped
    <3>3. a \in Nat
      BY <3>2 DEF Units
    <3>4. Taken(k)[1].size = a /\ Len(Taken(k)) = Len(collected) + k /\ Len(Taken(k)) # Taken(k)[1].size + 1
      BY <1>3, <2>3
    <3> HIDE DEF a
    <3> QED
      BY <2>1, <3>1, <3>3, <3>4
  <2> QED
    BY <2>2, <2>3
<1>7. Collecting'
  BY <1>6 DEF Collecting
<1>8. Numbered' /\ Agreed' /\ Finished'
  BY AgreedKeeps DEF NoiseIInv, Numbered, Finished
<1> QED
  BY <1>4, <1>5, <1>7, <1>8 DEF NoiseIInv

(* A record that is whole is the next, and its bytes are too.              *)
LEMMA WholeIs ==
  ASSUME NoiseIInv, NEW k \in 0..Len(line), k > 0, Len(Taken(k)) = Taken(k)[1].size + 1,
         NEW bytes, Recording(bytes)
  PROVE  /\ Noised!Authentic(Taken(k)) /\ received < nonce
         /\ bytes[received] \in Nat /\ bytes[received + 1] \in Nat
         /\ bytes[received] <= bytes[received + 1]
         /\ Len(Taken(k)) = bytes[received + 1] - bytes[received] + 2
         /\ \A i \in 1..(Len(Taken(k)) - 2) : Taken(k)[i + 1].byte = bytes[received] + i
<1> DEFINE u == Taken(k)
           n == Len(Taken(k))
<1>1. NoiseTyped /\ received \in Nat
  BY DEF NoiseIInv, NoiseTyped
<1>2. n \in Nat /\ n > 0
  <2>1. Len(Taken(k)) = Len(collected) + k
    BY <1>1, TakenIs
  <2>2. Len(collected) \in Nat
    BY <1>1 DEF NoiseTyped
  <2> QED
    BY <2>1, <2>2
<1> DEFINE b == bytes[received]
           c == bytes[received + 1]
<1>3. /\ received < nonce /\ b \in Nat /\ c \in Nat /\ b <= c
      /\ \A j \in 1..n : j <= c - b + 2 => u[j] = Unit(every, received, b + 1, c, j)
  BY <1>1, <1>2, FirstIs
<1>4. n = u[1].size + 1
  OBVIOUS
<1> HIDE DEF u, n, b, c
<1>5. u[1] = Unit(every, received, b + 1, c, 1)
  <2>1. 1 \in 1..n /\ 1 <= c - b + 2
    BY <1>2, <1>3
  <2> QED
    BY <1>3, <2>1, Zenon
<1>6. u[1].size = c - (b + 1) + 2
  <2>1. Unit(every, received, b + 1, c, 1).size = c - (b + 1) + 2
    BY <1>3, SizeIs
  <2> QED
    BY <1>5, <2>1, Zenon
<1>7. n = c - b + 2 /\ u[1].size = c - b + 1
  BY <1>3, <1>4, <1>6
<1>8. \A j \in 1..n : u[j] = Unit(every, received, b + 1, c, j)
  <2>1. \A j \in 1..n : j <= c - b + 2
    BY <1>2, <1>3, <1>7
  <2> QED
    BY <1>3, <2>1, Zenon
<1>9. \A j \in 1..n : u[j].nonce = received /\ u[j].key = KeyOf(every, received)
                         /\ u[j].size = u[1].size
  <2>1. \A j : Unit(every, received, b + 1, c, j).nonce = received
                /\ Unit(every, received, b + 1, c, j).key = KeyOf(every, received)
                /\ Unit(every, received, b + 1, c, j).size = c - (b + 1) + 2
    BY Zenon DEF Unit
  <2> QED
    BY <1>6, <1>8, <2>1, Zenon
<1>10. Noised!Authentic(u)
  <2>1. Noised!Key(received) = KeyOf(every, received)
    BY DEF Noised!Key, KeyOf
  <2> QED
    BY <1>9, <2>1, Zenon DEF Noised!Authentic, n, u
<1>11. ASSUME NEW i \in 1..(n - 2) PROVE u[i + 1].byte = b + i
  <2> DEFINE j == i + 1
             inside == j # 1 /\ j # c - (b + 1) + 3
  <2>1. j \in 1..n /\ inside /\ (b + 1) + j - 2 = b + i
    BY <1>2, <1>3, <1>7
  <2>2. u[j] = Unit(every, received, b + 1, c, j)
    BY <1>8, <2>1, Zenon
  <2> HIDE DEF j
  <2>3. Unit(every, received, b + 1, c, j).byte = IF inside THEN (b + 1) + j - 2 ELSE 0
    BY Zenon DEF Unit
  <2> QED
    BY <2>1, <2>2, <2>3, Zenon DEF j
<1> QED
  BY <1>3, <1>7, <1>10, <1>11 DEF u, n, b, c

(* And then it is decrypted.                                               *)
LEMMA WholeKeeps ==
  ASSUME NoiseIInv, NEW k \in 0..Len(line), k > 0, Len(Taken(k)) = Taken(k)[1].size + 1,
         plain = <<>>, opener = "open", Noised!CanRead,
         line' = Left(k), plain' = Noised!Payload(Taken(k)), received' = received + 1,
         collected' = <<>>,
         UNCHANGED <<ends, turn, pairing, from, every, accepted, nonce, buffered, over, given, opener>>
  PROVE  NoiseIInv'
<1> DEFINE u == Taken(k)
           n == Len(Taken(k))
<1>1. NoiseTyped
  BY DEF NoiseIInv
<1>2. PICK bytes : Recording(bytes)
  BY DEF NoiseIInv, Recorded
<1> DEFINE b == bytes[received]
           c == bytes[received + 1]
<1>3. /\ received < nonce /\ b \in Nat /\ c \in Nat /\ b <= c /\ n = c - b + 2
      /\ \A i \in 1..(n - 2) : u[i + 1].byte = b + i
  BY <1>2, WholeIs
<1>4. /\ received \in Nat /\ nonce \in Nat /\ Len(plain) = 0 /\ Len(given) \in Nat
      /\ Left(k) \in Seq(Units(every)) /\ buffered \in Seq(Units(every))
  BY <1>1, TakenIs DEF NoiseTyped
<1>5. b = Len(given)
  <2>1. b = Len(given) + Len(plain)
    BY <1>2 DEF Recording
  <2> QED
    BY <1>4, <2>1
<1>6. plain' = [i \in 1..(n - 2) |-> b + i]
  <2>1. plain' = [i \in 1..(n - 2) |-> u[i + 1].byte]
    BY DEF Noised!Payload
  <2> HIDE DEF n, u, b
  <2> QED
    BY <1>3, <2>1
<1>7. /\ plain' \in Seq(Nat) /\ Len(plain') = c - b
      /\ \A i \in 1..(c - b) : plain'[i] = b + i
  <2> HIDE DEF n, b, c
  <2>1. n - 2 = c - b /\ c - b \in Nat
    BY <1>3
  <2>2. plain' = [i \in 1..(c - b) |-> b + i]
    BY <1>6, <2>1
  <2> DEFINE l == c - b
  <2>3. l \in Nat /\ plain' = [i \in 1..l |-> b + i] /\ b \in Nat
    BY <1>3, <2>1, <2>2
  <2> HIDE DEF l
  <2>4. \A i \in 1..l : b + i \in Nat
    BY <2>3
  <2>5. plain' \in Seq(Nat) /\ Len(plain') = l /\ \A i \in 1..l : plain'[i] = b + i
    BY <2>3, <2>4
  <2> QED
    BY <2>5 DEF l
<1>8. NoiseTyped'
  <2>1. received + 1 \in Nat /\ received + 1 <= nonce
    BY <1>3, <1>4, SMTT(30)
  <2>2. \A S : <<>> \in Seq(S)
    OBVIOUS
  <2> QED
    BY <1>1, <1>4, <1>7, <2>1, <2>2 DEF NoiseTyped
<1>9. Recorded'
  <2> DEFINE m == Len(Written)
             w == Written
             v == Written'
  <2>1. v = Left(k) \o buffered
    BY <1>4 DEF Written
  <2>2. /\ m \in Nat /\ n <= m /\ Len(v) = m - n /\ \A i \in 1..(m - n) : v[i] = w[n + i]
    BY <1>1, <2>1, TakenFirst
  <2>3. Sealed(every, bytes, received, nonce, m, w)
    BY <1>2 DEF Recording
  <2>4. n \in Nat /\ n = bytes[received + 1] - bytes[received] + 2
    BY <1>3
  <2> HIDE DEF m, w, v, n
  <2>5. /\ Sealed(every, bytes, received + 1, nonce, m - n, v)
        /\ Past(bytes, received + 1) = Past(bytes, received) + n
    <3>1. Shrunk(bytes, m, w, n, v)
      BY <1>3, <1>4, <2>2, <2>3, <2>4, Zenon DEF Shrunk
    <3> QED
      BY <3>1, SealedLess
  <2>6. Sealed(every', bytes, received', nonce', Len(Written'), Written')
    BY <2>2, <2>5 DEF v
  <2>7. bytes[received'] = Len(given') + Len(plain')
    <3>1. c = b + (c - b)
      BY <1>3
    <3> QED
      BY <1>5, <1>7, <3>1
  <2>8. bytes[nonce'] = accepted'
    BY <1>2 DEF Recording
  <2>9. over' # "cut" => Len(Written') = Past(bytes, nonce') - Past(bytes, received')
    <3>1. over # "cut" => m = Past(bytes, nonce) - Past(bytes, received)
      BY <1>2 DEF Recording, m
    <3>2. bytes \in [Nat -> Nat]
      BY <2>3 DEF Sealed
    <3>3. Past(bytes, nonce) \in Int /\ Past(bytes, received) \in Int /\ n \in Int /\ m \in Int
      <4>1. received \in Nat /\ nonce \in Nat
        BY <1>4
      <4>2. m \in Nat /\ n \in Nat
        BY <2>2, <2>4
      <4> QED
        <5>1. Past(bytes, nonce) \in Int /\ Past(bytes, received) \in Int
          BY <3>2, <4>1, PastIs, Zenon
        <5> QED
          BY <4>2, <5>1
    <3>4. Len(Written') = m - n
      BY <2>2 DEF v
    <3> QED
      BY <2>5, <3>1, <3>3, <3>4
  <2>10. Recording(bytes)'
    BY <2>6, <2>7, <2>8, <2>9, Zenon DEF Recording
  <2> QED
    BY <2>10 DEF Recorded
<1>10. Numbered'
  BY <1>5, <1>7 DEF NoiseIInv, Numbered
<1>11. Collecting' /\ Finished'
  BY DEF NoiseIInv, Collecting, Finished
<1>12. Agreed'
  <2>1. received' > 0 => pairing[Noised!Other(from)] = "open"
    BY DEF Noised!CanRead
  <2>2. nonce > 0
    BY <1>3, <1>4
  <2>3. nonce' > 0 => pairing[from] = "open"
    BY <2>2 DEF NoiseIInv, Agreed, Begun
  <2> QED
    BY <2>1, <2>3, AgreedStays DEF NoiseIInv
<1> QED
  BY <1>8, <1>9, <1>10, <1>11, <1>12 DEF NoiseIInv

(* Taking units from the line keeps them those that were written.          *)
LEMMA CollectsKeeps == ASSUME NoiseIInv, Noised!Collects PROVE NoiseIInv'
<1>1. UNCHANGED <<ends, turn, pairing, from, every, accepted, nonce, buffered, over, given>>
      /\ opener = "open" /\ plain = <<>> /\ Noised!CanRead
  BY DEF Noised!Collects
<1>2. PICK k \in 1..Noised!Needs :
        /\ k <= Len(line) /\ line' = Left(k)
        /\ IF ~(Len(Taken(k)) = Taken(k)[1].size + 1)
           THEN collected' = Taken(k) /\ UNCHANGED <<received, plain, opener>>
           ELSE IF ~Noised!Authentic(Taken(k))
                THEN opener' = "error" /\ UNCHANGED <<collected, received, plain>>
                ELSE /\ plain' = Noised!Payload(Taken(k)) /\ received' = received + 1
                     /\ collected' = <<>> /\ UNCHANGED opener
  BY DEF Noised!Collects, Taken, Left
<1>3. k \in 0..Len(line) /\ k <= Noised!Needs /\ k > 0
  <2>1. Len(line) \in Nat
    BY DEF NoiseIInv, NoiseTyped
  <2> QED
    BY <1>2, <2>1
<1>4. CASE ~(Len(Taken(k)) = Taken(k)[1].size + 1)
  BY <1>1, <1>2, <1>3, <1>4, PartKeeps
<1>5. CASE Len(Taken(k)) = Taken(k)[1].size + 1
  <2>1. PICK bytes : Recording(bytes)
    BY DEF NoiseIInv, Recorded
  <2>2. Noised!Authentic(Taken(k))
    BY <1>3, <1>5, <2>1, WholeIs
  <2> QED
    BY <1>1, <1>2, <1>3, <1>5, <2>2, WholeKeeps
<1> QED
  BY <1>4, <1>5

(* An end of the line is an end of the stream only between two records.    *)
LEMMA ReadsEndKeeps == ASSUME NoiseIInv, Noised!ReadsEnd PROVE NoiseIInv'
<1>1. UNCHANGED <<ends, turn, pairing, from, every, accepted, nonce, buffered, line, over, collected, received,
                  plain, given>>
      /\ opener = "open" /\ plain = <<>> /\ line = <<>> /\ over # "no"
      /\ opener' = IF collected = <<>> THEN "eof" ELSE "error"
  BY DEF Noised!ReadsEnd
<1>2. PICK bytes : Recording(bytes)
  BY DEF NoiseIInv, Recorded
<1>3. Recorded'
  <2>1. Written' = Written
    BY <1>1 DEF Written
  <2>2. Recording(bytes)'
    BY <1>1, <1>2, <2>1, RecordingStays
  <2> QED
    BY <2>2 DEF Recorded
<1>4. NoiseTyped'
  BY <1>1 DEF NoiseIInv, NoiseTyped
<1>5. Numbered' /\ Collecting' /\ Agreed'
  BY <1>1, AgreedKeeps DEF NoiseIInv, Numbered, Collecting
<1>6. NoiseTyped /\ collected \in Seq(Units(every)) /\ received \in Nat /\ nonce \in Nat /\ received <= nonce
      /\ over \in {"no", "shut", "cut"} /\ Len(given) \in Nat
  BY DEF NoiseIInv, NoiseTyped
<1>7. Written = collected
  <2>1. buffered = <<>>
    BY <1>1 DEF NoiseIInv, Finished
  <2>2. (collected \o <<>>) \o <<>> = collected
    BY <1>6
  <2> QED
    BY <1>1, <2>1, <2>2, Zenon DEF Written
<1> DEFINE b == bytes[received]
           z == bytes[nonce]
<1>8. bytes \in [Nat -> Nat] /\ b \in Nat /\ z \in Nat /\ b <= z
  <2>1. /\ bytes \in [Nat -> Nat]
        /\ \A i, j \in received..nonce : i <= j => bytes[i] <= bytes[j]
    BY <1>2 DEF Recording, Sealed
  <2>2. received \in received..nonce /\ nonce \in received..nonce
    BY <1>6
  <2> QED
    BY <1>6, <2>1, <2>2, Zenon
<1>9. over = "shut" => Len(collected) = (z + 2 * nonce) - (b + 2 * received)
  BY <1>2, <1>7 DEF Recording, Past
<1>10. b = Len(given) /\ z = accepted
  <2>1. b = Len(given) + Len(plain) /\ z = accepted
    BY <1>2 DEF Recording
  <2>2. Len(plain) = 0
    BY <1>1
  <2> QED
    BY <1>6, <2>1, <2>2
<1>11. ASSUME over = "shut" PROVE collected = <<>> /\ Len(given) = accepted
  <2>1. CASE collected = <<>>
    <3>1. Len(collected) = 0
      BY <2>1
    <3> HIDE DEF b, z
    <3>2. 0 = (z + 2 * nonce) - (b + 2 * received)
      BY <1>9, <1>11, <3>1, Zenon
    <3>3. b = z
      BY <1>6, <1>8, <3>2
    <3> QED
      BY <1>10, <2>1, <3>3, Zenon
  <2>2. CASE collected # <<>>
    <3> DEFINE c == bytes[received + 1]
               l == Len(collected)
    <3>1. l \in Nat /\ l > 0 /\ 0 \in 0..Len(line)
      BY <1>1, <1>6, <2>2
    <3>2. Len(Taken(0)) = l + 0 /\ Taken(0)[1] = collected[1]
      BY <1>6, <2>2, <3>1, TakenIs
    <3> HIDE DEF l
    <3>3. Len(Taken(0)) = l /\ Len(Taken(0)) > 0 /\ 1 \in 1..Len(Taken(0))
      BY <3>1, <3>2
    <3>4. /\ received < nonce /\ c \in Nat /\ b <= c
          /\ \A j \in 1..Len(Taken(0)) :
               j <= c - b + 2 => Taken(0)[j] = Unit(every, received, b + 1, c, j)
      BY <1>2, <1>6, <3>1, <3>3, FirstIs
    <3>5. c <= z
      <4>1. \A i, j \in received..nonce : i <= j => bytes[i] <= bytes[j]
        BY <1>2 DEF Recording, Sealed
      <4>2. received + 1 \in received..nonce /\ nonce \in received..nonce /\ received + 1 <= nonce
        BY <1>6, <3>4
      <4> QED
        BY <4>1, <4>2, Zenon
    <3> HIDE DEF b, z, c
    <3>6. collected[1] = Unit(every, received, b + 1, c, 1)
      <4>1. 1 <= c - b + 2
        BY <1>8, <3>4
      <4> QED
        BY <3>2, <3>3, <3>4, <4>1, Zenon
    <3>7. collected[1].size = c - (b + 1) + 2
      <4>1. Unit(every, received, b + 1, c, 1).size = c - (b + 1) + 2
        BY <1>8, <3>4, SizeIs
      <4> QED
        BY <3>6, <4>1, Zenon
    <3>8. l <= collected[1].size
      BY <2>2 DEF NoiseIInv, Collecting, l
    <3>9. l = (z + 2 * nonce) - (b + 2 * received)
      BY <1>9, <1>11 DEF l
    <3>10. l <= c - (b + 1) + 2
      BY <3>7, <3>8, Zenon
    <3>11. FALSE
      BY <1>6, <1>8, <3>1, <3>4, <3>5, <3>9, <3>10
    <3> QED
      BY <3>11
  <2> QED
    BY <2>1, <2>2
<1>12. Finished'
  BY <1>1, <1>6, <1>11 DEF NoiseIInv, Finished
<1> QED
  BY <1>3, <1>4, <1>5, <1>12 DEF NoiseIInv

(* Every step of a Noise session keeps what is known of it.                *)
LEMMA NoiseStep == NoiseIInv /\ (Noised!Next \/ UNCHANGED noiseVars) => NoiseIInv'
<1> SUFFICES ASSUME NoiseIInv, Noised!Next \/ UNCHANGED noiseVars PROVE NoiseIInv'
  OBVIOUS
<1>1. CASE Noised!Checks
  BY <1>1, ChecksPair
<1>10. CASE UNCHANGED noiseVars
  BY <1>10, StuttersKeep
<1>11. ASSUME NEW e \in Noised!End,
              \/ Noised!WritesMessage(e) \/ Noised!ReadsMessage(e)
              \/ Noised!LosesPeer(e) \/ Noised!Pins(e)
       PROVE  NoiseIInv'
  BY <1>11, ShakingKeeps
<1>2. CASE Noised!EmptyRecord
  <2>1. PICK k \in 0..Pieces : Noised!Sends(k, Noised!Record(nonce, accepted + 1, accepted))
    BY <1>2 DEF Noised!EmptyRecord
  <2>2. accepted + 0 = accepted
    BY DEF NoiseIInv, NoiseTyped
  <2>3. Making(0, k)
    BY <1>2, <2>1, <2>2 DEF Noised!EmptyRecord, Making, Noised!CanWrite
  <2> QED
    BY <2>3, RecordKeeps
<1>3. ASSUME NEW n \in 1..MaxWritten, Noised!poll_write(n) PROVE NoiseIInv'
  <2> DEFINE take == IF n < MaxPlain THEN n ELSE MaxPlain
  <2>1. take \in Nat
    BY LayeringAssumption
  <2>2. PICK k \in 0..Pieces :
             Noised!Sends(k, Noised!Record(nonce, accepted + 1, accepted + take))
    BY <1>3 DEF Noised!poll_write
  <2>3. accepted' = accepted + take
    BY <1>3 DEF Noised!poll_write
  <2> HIDE DEF take
  <2>4. Making(take, k)
    BY <1>3, <2>2, <2>3 DEF Noised!poll_write, Making, Noised!CanWrite
  <2> QED
    BY <2>1, <2>4, RecordKeeps
<1>4. CASE Noised!poll_send
  BY <1>4, SendKeeps
<1>5. CASE Noised!poll_shutdown
  BY <1>5, ShutdownKeeps
<1>6. CASE Noised!Cut
  BY <1>6, CutKeeps
<1>7. CASE Noised!Collects
  BY <1>7, CollectsKeeps
<1>8. CASE Noised!HandsOn
  BY <1>8, HandsOnKeeps
<1>9. CASE Noised!ReadsEnd
  BY <1>9, ReadsEndKeeps
<1> QED
  BY <1>1, <1>2, <1>3, <1>4, <1>5, <1>6, <1>7, <1>8, <1>9, <1>10, <1>11 DEF Noised!Next

(* What noise's records carry is read as it was written, in the order it   *)
(* was, whatever pieces of a record the connection takes and gives and     *)
(* wherever it is cut; ends that passed check have what the handshake asks *)
(* them for; and though each end opens by itself, a record is decrypted,   *)
(* and both are open, only where neither names a key that is not its       *)
(* peer's (noise.rs, check, run, poll_write, poll_send and poll_read).     *)
THEOREM RecordsAreRead == LayeringSpec => []ReadAsWritten
<1>1. LayeringInit => NoiseIInv
  BY NoiseInit DEF LayeringInit
<1>2. NoiseIInv /\ [LayeringNext]_everything => NoiseIInv'
  <2>1. [LayeringNext]_everything => Noised!Next \/ UNCHANGED noiseVars
    BY DEF LayeringNext, everything
  <2> QED
    BY <2>1, NoiseStep
<1>3. NoiseIInv => ReadAsWritten
  <2> SUFFICES ASSUME NoiseIInv PROVE ReadAsWritten
    OBVIOUS
  <2>1. Noised!KeysSuffice
    <3>1. Paired /\ Begun /\ NoiseTyped
      BY DEF NoiseIInv, Agreed
    <3>2. ASSUME NEW end, NEW hears, Noised!check(ends.pattern, end, hears)
          PROVE  Noised!builds(ends.pattern, end, hears) /\ end.key <= 1
      BY <3>2 DEF Noised!check, Noised!builds
    <3>3. ASSUME NEW e \in Noised!End, pairing[e] \notin {"check", "refused"}
          PROVE  Noised!builds(ends.pattern, ends[e], e = "responder") /\ ends[e].key <= 1
      BY <3>1, <3>2, <3>3 DEF Paired
    <3>4. \A e \in Noised!End : pairing[e] = "open" => Noised!PinHolds(e)
      BY <3>1 DEF Paired
    <3>5. ASSUME \A e \in Noised!End : pairing[e] = "open" PROVE ~Noised!Mismatch
      <4>1. turn["initiator"] = Noised!messages(ends.pattern)
        BY <3>1, <3>5 DEF Paired, Noised!End
      <4>2. turn["initiator"] >= 2
        BY <4>1 DEF Noised!messages
      <4> QED
        BY <3>1, <4>2 DEF Paired
    <3>6. ASSUME \A e \in Noised!End : pairing[e] = "open"
          PROVE  \A e \in Noised!End : ends[e].peer # "wrong"
      BY <3>4, <3>5, <3>6 DEF Noised!PinHolds, Noised!Mismatch
    <3>7. from \in Noised!End
      BY <3>1 DEF NoiseTyped
    <3>8. (Noised!CanWrite /\ Noised!CanRead) \/ received > 0
            => \A e \in Noised!End : pairing[e] = "open"
      <4>1. received > 0 => nonce > 0
        BY <3>1 DEF NoiseTyped
      <4>2. received > 0 => pairing[from] = "open" /\ pairing[Noised!Other(from)] = "open"
        BY <3>1, <4>1 DEF Begun
      <4> QED
        BY <3>7, <4>2, OtherIs DEF Noised!CanWrite, Noised!CanRead
    <3> QED
      BY <3>3, <3>4, <3>6, <3>8 DEF Noised!KeysSuffice
  <2>2. given \o plain = [i \in 1..(Len(given) + Len(plain)) |-> i]
    <3> DEFINE g == given \o plain
               m == Len(given) + Len(plain)
    <3>1. given \in Seq(Nat) /\ plain \in Seq(Nat)
      BY DEF NoiseIInv, NoiseTyped
    <3>2. g \in Seq(Nat) /\ Len(g) = m
          /\ \A i \in 1..m : g[i] = IF i <= Len(given) THEN given[i] ELSE plain[i - Len(given)]
      BY <3>1
    <3>3. ASSUME NEW i \in 1..m
          PROVE  (IF i <= Len(given) THEN given[i] ELSE plain[i - Len(given)]) = i
      <4>1. CASE i <= Len(given)
        BY <4>1 DEF NoiseIInv, Numbered
      <4>2. CASE ~(i <= Len(given))
        <5>1. i - Len(given) \in 1..Len(plain) /\ Len(given) + (i - Len(given)) = i
          BY <3>1, <4>2
        <5> QED
          BY <4>2, <5>1 DEF NoiseIInv, Numbered
      <4> QED
        BY <4>1, <4>2
    <3>4. \A i \in 1..m : g[i] = i
      BY <3>2, <3>3, Zenon
    <3> HIDE DEF g, m
    <3>5. g = [i \in 1..m |-> i]
      BY <3>2, <3>4
    <3> QED
      BY <3>5 DEF g, m
  <2>3. Len(given) <= accepted
    <3>1. PICK bytes : Recording(bytes)
      BY DEF NoiseIInv, Recorded
    <3>2. bytes[received] = Len(given) + Len(plain) /\ bytes[nonce] = accepted
      BY <3>1 DEF Recording
    <3>3. \A i, j \in received..nonce : i <= j => bytes[i] <= bytes[j]
      BY <3>1 DEF Recording, Sealed
    <3>4. received \in received..nonce /\ nonce \in received..nonce /\ received <= nonce
          /\ accepted \in Nat
      BY DEF NoiseIInv, NoiseTyped
    <3>5. Len(given) \in Nat /\ Len(plain) \in Nat
      BY DEF NoiseIInv, NoiseTyped
    <3>6. Len(given) + Len(plain) <= accepted
      BY <3>2, <3>3, <3>4, Zenon
    <3> QED
      BY <3>4, <3>5, <3>6
  <2>4. /\ opener = "error" => over = "cut"
        /\ opener = "eof" => over # "no" /\ (over = "shut" => Len(given) = accepted)
    BY DEF NoiseIInv, Finished
  <2> QED
    BY <2>1, <2>2, <2>3, <2>4, Zenon DEF ReadAsWritten, Noised!ReadAsWritten
<1> QED
  BY <1>1, <1>2, <1>3, PTL DEF LayeringSpec, everything

-----------------------------------------------------------------------------
(* The exchange with a proxy.  What the layer has of it is read ahead of:  *)
(* the bytes that it took since its last step and those on the stream.     *)
Ahead == taken \o answers

Said  == {"no auth", "user pass", "no acceptable", "other", "v4", "v6", "name", "text", "crlf",
          "2xx", "4xx", "garbage"} \cup Nat
Bytes == [part : {"method", "auth", "reply", "header", "target"}, is : Said]

(* Of the bytes w the first n are the proxy's, the others the target's,    *)
(* which sent t; all are there unless the proxy closed.                    *)
Behind(n, w, t, c) ==
  /\ n \in Nat /\ Len(w) <= n + t /\ (~c => Len(w) = n + t)
  /\ \A i \in 1..Len(w) : IF i <= n THEN w[i].part # "target"
                           ELSE w[i] = Tunneled!Byte("target", i - n)

(* The proxy was not heard yet in this step.                               *)
Unheard == taken = <<>> /\ answers = <<>> /\ target = 0 /\ ~granted

(* An answer of two bytes.                                                 *)
Short == needs = 2 - Len(taken) /\ ~granted /\ Behind(2, Ahead, target, closed)

(* The reply of connect, with code and of type; a name is of len bytes.    *)
IsReply(code, len, type, n, w) ==
  /\ code \in Nat /\ len \in Nat /\ type \in {"v4", "v6", "name", "other"}
  /\ Len(w) >= 2 => w[2].is = code
  /\ Len(w) >= 4 => w[4].is = type
  /\ code = 0 /\ type = "name" => n = 5 + len + PortBytes /\ (Len(w) >= 5 => w[5].is = len)
  /\ code = 0 /\ type = "v4" => n = 4 + V4 + PortBytes
  /\ code = 0 /\ type = "v6" => n = 4 + V6 + PortBytes
  /\ n >= 4
Replied == \E code, len, type, n : Behind(n, Ahead, target, closed) /\ IsReply(code, len, type, n, Ahead)

(* A header of so many fields.                                             *)
IsHeader(fields, w) ==
  /\ Len(w) >= 1 => w[1].is # "crlf"
  /\ Len(w) >= 2 => w[2].is = "crlf"
  /\ \A i \in 3..(2 * fields + 2) :
       i <= Len(w) => w[i].is = IF i % 2 = 1 THEN "text" ELSE "crlf"
  /\ Len(w) >= 2 * fields + 3 => w[2 * fields + 3].is = "crlf"
Headed ==
  \E fields \in Nat :
    /\ Behind(2 * fields + 3, Ahead, target, closed) /\ IsHeader(fields, Ahead)
    /\ needs + Len(taken) <= 2 * fields + 3

(* A name, of an address that starts with its length.                      *)
Named ==
  \E len \in Nat :
    Behind(1 + len + PortBytes, Ahead, target, closed) /\ (Len(Ahead) >= 1 => Ahead[1].is = len)

(* The rest of an address.                                                 *)
Addressed == \E n \in Nat : Behind(n, Ahead, target, closed) /\ needs = n - Len(taken)

TunnelTyped ==
  /\ step \in {"check", "refused", "ask", "method", "auth", "reply", "name", "address", "header",
              "open", "failed"}
  /\ secret \in {"none", "pair", "bad", "unreadable"}
  /\ taken \in Seq(Bytes) /\ answers \in Seq(Bytes) /\ target \in Nat /\ needs \in Int
  /\ granted \in BOOLEAN /\ closed \in BOOLEAN /\ (target > 0 => granted)

(* What is ahead in each step.                                             *)
Exchanging ==
  /\ step \in {"check", "refused", "ask"} => Unheard
  /\ step \in {"method", "auth"} => (Unheard /\ needs = 2) \/ Short
  /\ step = "reply" => needs = 4 - Len(taken) /\ (Unheard \/ Replied)
  /\ step = "name" => needs = 1 - Len(taken) /\ Named
  /\ step = "address" => Addressed
  /\ step = "header" => needs \in {0, 1} /\ ((Unheard /\ needs = 1) \/ Headed)
  /\ step = "open" => Behind(0, answers, target, closed)

(* What is taken is never the target's, and credentials are sent only by   *)
(* who has them.                                                           *)
Untouching == \A i \in 1..Len(taken) : taken[i].part # "target"
Credited   ==
  "credentials" \in requested =>
    secret \in {"pair", "bad"} /\ (tunnel.kind = "socks5" => secret = "pair")

TunnelIInv == TunnelTyped /\ Exchanging /\ Untouching /\ Credited

(* What is ahead, byte by byte.                                            *)
LEMMA AheadIs ==
  ASSUME TunnelTyped
  PROVE  /\ Ahead \in Seq(Bytes) /\ Len(Ahead) = Len(taken) + Len(answers)
         /\ Len(Ahead) \in Nat /\ Len(taken) \in Nat /\ Len(answers) \in Nat
         /\ \A i \in 1..Len(taken) : Ahead[i] = taken[i]
         /\ \A i \in 1..Len(answers) : Ahead[Len(taken) + i] = answers[i]
<1> DEFINE S == Bytes
<1>1. taken \in Seq(S) /\ answers \in Seq(S)
  BY DEF TunnelTyped
<1> HIDE DEF S
<1>2. /\ taken \o answers \in Seq(S) /\ Len(taken \o answers) = Len(taken) + Len(answers)
      /\ Len(taken) \in Nat /\ Len(answers) \in Nat
      /\ \A i \in 1..Len(taken) : (taken \o answers)[i] = taken[i]
      /\ \A i \in 1..Len(answers) : (taken \o answers)[Len(taken) + i] = answers[i]
  BY <1>1
<1>3. Len(taken) + Len(answers) \in Nat
  BY <1>2
<1> QED
  BY <1>2, <1>3, Zenon DEF Ahead, S

(* When nothing is taken, what is ahead is on the stream.                  *)
LEMMA AheadAlone == ASSUME answers \in Seq(Bytes), taken = <<>> PROVE Ahead = answers
<1> DEFINE S == Bytes
<1>1. answers \in Seq(S)
  OBVIOUS
<1> HIDE DEF S
<1>2. <<>> \o answers = answers
  BY <1>1
<1> QED
  BY <1>2, Zenon DEF Ahead

(* The first bytes of w.                                                   *)
LEMMA BehindCut ==
  ASSUME NEW n, NEW w, NEW v, NEW t \in Nat, NEW c, Behind(n, w, t, c),
         Len(v) \in Nat, Len(w) \in Nat, Len(v) <= Len(w), \A i \in 1..Len(v) : v[i] = w[i]
  PROVE  Behind(n, v, t, TRUE)
BY DEF Behind

(* The target speaks.                                                      *)
LEMMA BehindMore ==
  ASSUME NEW n, NEW w, NEW v, NEW t \in Nat, Behind(n, w, t, FALSE), Len(w) \in Nat,
         Len(v) = Len(w) + 1, \A i \in 1..Len(w) : v[i] = w[i],
         v[Len(w) + 1] = Tunneled!Byte("target", t + 1)
  PROVE  Behind(n, v, t + 1, FALSE)
<1>1. n \in Nat /\ Len(w) = n + t
  BY DEF Behind
<1>2. Len(v) = n + (t + 1)
  BY <1>1
<1>3. ASSUME NEW i \in 1..Len(v)
      PROVE  IF i <= n THEN v[i].part # "target" ELSE v[i] = Tunneled!Byte("target", i - n)
  <2>1. CASE i \in 1..Len(w)
    BY <2>1 DEF Behind
  <2>2. CASE i = Len(w) + 1
    <3>1. ~(i <= n) /\ i - n = t + 1
      BY <1>1, <2>2
    <3> QED
      BY <2>2, <3>1
  <2> QED
    BY <2>1, <2>2
<1> QED
  BY <1>1, <1>2, <1>3 DEF Behind

(* Some of the proxy's bytes are done with.                                *)
LEMMA BehindLess ==
  ASSUME NEW n, NEW w, NEW v, NEW t \in Nat, NEW c, Behind(n, w, t, c), NEW m \in Nat, m <= n,
         Len(w) \in Nat, Len(v) = Len(w) - m, \A i \in 1..Len(v) : v[i] = w[m + i]
  PROVE  Behind(n - m, v, t, c)
<1>1. n \in Nat /\ Len(w) <= n + t /\ (~c => Len(w) = n + t)
  BY DEF Behind
<1>2. n - m \in Nat /\ Len(v) <= (n - m) + t /\ (~c => Len(v) = (n - m) + t)
  BY <1>1
<1>3. ASSUME NEW i \in 1..Len(v)
      PROVE  IF i <= n - m THEN v[i].part # "target" ELSE v[i] = Tunneled!Byte("target", i - (n - m))
  <2> DEFINE j == m + i
  <2>1. j \in 1..Len(w) /\ (i <= n - m <=> j <= n) /\ j - n = i - (n - m)
    BY <1>1
  <2>2. v[i] = w[j]
    OBVIOUS
  <2> HIDE DEF j
  <2>3. IF j <= n THEN w[j].part # "target" ELSE w[j] = Tunneled!Byte("target", j - n)
    BY <2>1 DEF Behind
  <2> QED
    BY <2>1, <2>2, <2>3
<1> QED
  BY <1>2, <1>3 DEF Behind

(* No exchange has begun.                                                  *)
LEMMA TunnelInit == Tunneled!Init => TunnelIInv
<1> SUFFICES ASSUME Tunneled!Init PROVE TunnelIInv
  OBVIOUS
<1> DEFINE S == Bytes
<1>1. <<>> \in Seq(S)
  <2> HIDE DEF S
  <2> QED
    OBVIOUS
<1>2. TunnelTyped
  <2>1. secret \in {"none", "pair", "bad", "unreadable"}
    BY DEF Tunneled!Init
  <2>2. /\ step = "check" /\ needs = 0 /\ taken = <<>> /\ answers = <<>> /\ granted = FALSE
        /\ target = 0 /\ closed = FALSE
    BY DEF Tunneled!Init
  <2>3. taken \in Seq(Bytes) /\ answers \in Seq(Bytes)
    BY <1>1, <2>2, Zenon
  <2>4. target \in Nat /\ needs \in Int /\ (target > 0 => granted)
    BY <2>2
  <2>5. granted \in BOOLEAN /\ closed \in BOOLEAN
    BY <2>2, Zenon
  <2> QED
    BY <2>1, <2>2, <2>3, <2>4, <2>5, Zenon DEF TunnelTyped
<1>3. Exchanging /\ Untouching /\ Credited
  BY DEF Tunneled!Init, Exchanging, Unheard, Untouching, Credited
<1> QED
  BY <1>2, <1>3 DEF TunnelIInv

(* A failure leaves what was taken.                                        *)
LEMMA FailKeeps ==
  ASSUME TunnelIInv, Tunneled!Fails, UNCHANGED <<tunnel, secret, requested, answers, target, granted, closed>>
  PROVE  TunnelIInv'
<1>1. step' = "failed" /\ needs' = 0 /\ taken' = taken
  BY DEF Tunneled!Fails
<1>2. TunnelTyped'
  BY <1>1 DEF TunnelIInv, TunnelTyped
<1> QED
  BY <1>1, <1>2 DEF TunnelIInv, Exchanging, Untouching, Credited

(* A read of an answer that was not heard yet.                             *)
LEMMA AskKeeps ==
  ASSUME TunnelIInv, NEW next, NEW count, Tunneled!Reads(next, count),
         \/ next \in {"method", "auth"} /\ count = 2
         \/ next = "reply" /\ count = 4
         \/ next = "header" /\ count = 1,
         answers = <<>>, target = 0, ~granted, Credited',
         UNCHANGED <<answers, target, granted, closed, secret>>
  PROVE  TunnelIInv'
<1>1. step' = next /\ needs' = count /\ taken' = <<>>
  BY DEF Tunneled!Reads
<1>2. Unheard'
  BY <1>1 DEF Unheard
<1>3. Len(taken') = 0 /\ taken' \in Seq(Bytes)
  BY <1>1
<1>4. TunnelTyped'
  BY <1>1, <1>3 DEF TunnelIInv, TunnelTyped
<1>5. Exchanging'
  BY <1>1, <1>2, <1>3 DEF Exchanging
<1>6. Untouching'
  BY <1>3 DEF Untouching
<1> QED
  BY <1>4, <1>5, <1>6 DEF TunnelIInv

(* Checking the options of a proxy layer says nothing to the proxy.        *)
LEMMA ChecksKeeps == ASSUME TunnelIInv, Tunneled!Checks PROVE TunnelIInv'
<1>1. step' \in {"ask", "refused"} /\ step = "check"
      /\ UNCHANGED <<tunnel, secret, needs, taken, answers, requested, target, granted, closed>>
  BY DEF Tunneled!Checks
<1>2. TunnelTyped'
  BY <1>1 DEF TunnelIInv, TunnelTyped
<1>3. Unheard'
  BY <1>1 DEF TunnelIInv, Exchanging, Unheard
<1> QED
  BY <1>1, <1>2, <1>3 DEF TunnelIInv, Exchanging, Untouching, Credited

(* The greeting is the first that is asked.                                *)
LEMMA AsksKeeps == ASSUME TunnelIInv, Tunneled!Asks PROVE TunnelIInv'
<1>1. step = "ask" /\ UNCHANGED <<tunnel, secret, answers, target, granted, closed>>
  BY DEF Tunneled!Asks
<1>2. Unheard
  BY <1>1 DEF TunnelIInv, Exchanging
<1>3. secret \in {"none", "pair", "bad", "unreadable"}
  BY DEF TunnelIInv, TunnelTyped
<1>4. CASE secret = "unreadable" \/ (Tunneled!Socks /\ secret = "bad") \/ closed
  BY <1>1, <1>4, FailKeeps DEF Tunneled!Asks
<1>5. CASE ~(secret = "unreadable" \/ (Tunneled!Socks /\ secret = "bad") \/ closed) /\ Tunneled!Socks
  <2>1. Tunneled!Reads("method", 2) /\ requested' = {"methods"}
    BY <1>5 DEF Tunneled!Asks
  <2>2. Credited'
    BY <2>1 DEF Credited
  <2> QED
    BY <1>1, <1>2, <2>1, <2>2, AskKeeps DEF Unheard
<1>6. CASE ~(secret = "unreadable" \/ (Tunneled!Socks /\ secret = "bad") \/ closed) /\ ~Tunneled!Socks
  <2>1. /\ Tunneled!Reads("header", 1)
        /\ requested' = {"connect"} \cup (IF secret = "none" THEN {} ELSE {"credentials"})
    BY <1>6 DEF Tunneled!Asks
  <2>2. Credited'
    BY <1>1, <1>3, <1>6, <2>1 DEF Credited, Tunneled!Socks
  <2> QED
    BY <1>1, <1>2, <2>1, <2>2, AskKeeps DEF Unheard
<1> QED
  BY <1>4, <1>5, <1>6

(* The proxy answers a read that has nothing yet.                          *)
LEMMA AnswerKeeps ==
  ASSUME TunnelIInv, NEW bytes \in Seq(Bytes), NEW grants \in BOOLEAN,
         Tunneled!Answering, Tunneled!ProxyAnswers(bytes, grants),
         step \in {"method", "auth"} => Len(bytes) = 2 /\ ~grants,
         step = "reply" => \E code, len, type : IsReply(code, len, type, Len(bytes), bytes),
         step = "header" => \E fields \in Nat : IsHeader(fields, bytes) /\ Len(bytes) = 2 * fields + 3,
         step \in {"method", "auth", "reply", "header"},
         \A i \in 1..Len(bytes) : bytes[i].part # "target"
  PROVE  TunnelIInv'
<1>1. taken = <<>> /\ target = 0 /\ ~closed
  BY DEF Tunneled!Answering
<1>2. answers' = bytes /\ granted' = grants
      /\ UNCHANGED <<tunnel, secret, step, needs, taken, requested, target, closed>>
  BY DEF Tunneled!ProxyAnswers
<1>3. TunnelTyped'
  BY <1>1, <1>2 DEF TunnelIInv, TunnelTyped
<1>4. Ahead' = bytes
  <2>1. answers' = bytes /\ taken' = <<>>
    BY <1>1, <1>2
  <2>2. <<>> \o bytes = bytes
    OBVIOUS
  <2> QED
    BY <2>1, <2>2, Zenon DEF Ahead
<1>5. Behind(Len(bytes), bytes, 0, FALSE)
  <2>1. Len(bytes) \in Nat
    OBVIOUS
  <2> DEFINE n == Len(bytes)
  <2>2. n \in Nat /\ \A i \in 1..n : bytes[i].part # "target"
    BY <2>1
  <2> QED
    BY <2>2 DEF Behind
<1>6. Behind(Len(bytes), Ahead', target', closed')
  <2>1. target' = 0 /\ closed' = FALSE
    BY <1>1, <1>2 DEF TunnelIInv, TunnelTyped
  <2> QED
    BY <1>4, <1>5, <2>1, Zenon
<1>7. Len(taken) = 0 /\ Len(taken') = 0
  BY <1>1, <1>2
<1>8. CASE step \in {"method", "auth"}
  <2>1. needs = 2
    BY <1>7, <1>8 DEF TunnelIInv, Exchanging, Short
  <2>2. Short'
    <3>1. Len(bytes) = 2 /\ ~granted'
      BY <1>2, <1>8
    <3>2. Behind(2, Ahead', target', closed')
      BY <1>6, <3>1, Zenon
    <3>3. needs' = 2 - Len(taken')
      <4>1. needs' = needs
        BY <1>2
      <4> QED
        BY <1>7, <2>1, <4>1
    <3> QED
      BY <3>1, <3>2, <3>3, Zenon DEF Short
  <2>3. Exchanging'
    BY <1>2, <1>8, <2>2 DEF Exchanging
  <2> QED
    BY <1>2, <1>3, <2>3 DEF TunnelIInv, Untouching, Credited
<1>9. CASE step = "reply"
  <2>1. Replied'
    <3>1. PICK code, len, type : IsReply(code, len, type, Len(bytes), bytes)
      BY <1>9
    <3>2. IsReply(code, len, type, Len(bytes), Ahead')
      BY <1>4, <3>1, Zenon
    <3> DEFINE n == Len(bytes)
    <3>4. Behind(n, Ahead', target', closed') /\ IsReply(code, len, type, n, Ahead')
      BY <1>6, <3>2
    <3> HIDE DEF n
    <3> QED
      BY <3>4 DEF Replied
  <2>2. Exchanging'
    BY <1>2, <1>9, <2>1 DEF TunnelIInv, Exchanging
  <2> QED
    BY <1>2, <1>3, <2>2 DEF TunnelIInv, Untouching, Credited
<1>10. CASE step = "header"
  <2>1. needs \in {0, 1}
    BY <1>10 DEF TunnelIInv, Exchanging
  <2>2. Headed'
    <3>1. PICK fields \in Nat : IsHeader(fields, bytes) /\ Len(bytes) = 2 * fields + 3
      BY <1>10
    <3>2. needs' + Len(taken') <= 2 * fields + 3
      <4>1. needs' = needs
        BY <1>2
      <4> QED
        BY <1>7, <2>1, <4>1
    <3>3. Behind(2 * fields + 3, Ahead', target', closed') /\ IsHeader(fields, Ahead')
      BY <1>4, <1>6, <3>1, Zenon
    <3> QED
      BY <3>2, <3>3 DEF Headed
  <2>3. Exchanging'
    BY <1>2, <1>10, <2>1, <2>2 DEF Exchanging
  <2> QED
    BY <1>2, <1>3, <2>3 DEF TunnelIInv, Untouching, Credited
<1> QED
  BY <1>8, <1>9, <1>10

(* A byte of an answer.                                                    *)
LEMMA ByteIs ==
  ASSUME NEW whose \in {"method", "auth", "reply", "header"}, NEW a \in Said
  PROVE  Tunneled!Byte(whose, a) \in Bytes /\ Tunneled!Byte(whose, a).part # "target"
BY DEF Tunneled!Byte, Bytes

(* An answer of two bytes.                                                 *)
LEMMA TwoKeeps ==
  ASSUME TunnelIInv, NEW whose \in {"method", "auth"}, NEW a, NEW b,
         Tunneled!Byte(whose, a) \in Bytes, Tunneled!Byte(whose, b) \in Bytes,
         Tunneled!Answering, step \in {"method", "auth"},
         Tunneled!ProxyAnswers(<<Tunneled!Byte(whose, a), Tunneled!Byte(whose, b)>>, FALSE)
  PROVE  TunnelIInv'
<1> DEFINE S == Bytes
           x == Tunneled!Byte(whose, a)
           y == Tunneled!Byte(whose, b)
           bytes == <<x, y>>
<1>1. x.part # "target" /\ y.part # "target"
  BY DEF Tunneled!Byte
<1>2. x \in S /\ y \in S
  OBVIOUS
<1>3. Tunneled!ProxyAnswers(bytes, FALSE)
  OBVIOUS
<1> HIDE DEF S, x, y
<1>4. bytes \in Seq(S) /\ Len(bytes) = 2
  BY <1>2
<1>5. \A i \in 1..2 : bytes[i].part # "target"
  BY <1>1
<1>6. \A i \in 1..Len(bytes) : bytes[i].part # "target"
  BY <1>4, <1>5
<1>7. bytes \in Seq(Bytes)
  BY <1>4 DEF S
<1> HIDE DEF bytes
<1> QED
  BY <1>3, <1>4, <1>6, <1>7, AnswerKeeps

(* A proxy that picks a method answers behind all it has said.             *)
LEMMA AnswersMethodKeeps == ASSUME TunnelIInv, Tunneled!AnswersMethod PROVE TunnelIInv'
<1>0. \A v \in {4, 5} : v \in Nat
  OBVIOUS
<1>1. PICK version \in {4, 5}, method \in {"no auth", "user pass", "no acceptable", "other"} :
        Tunneled!ProxyAnswers(<<Tunneled!Byte("method", version), Tunneled!Byte("method", method)>>, FALSE)
  BY DEF Tunneled!AnswersMethod
<1>2. Tunneled!Byte("method", version) \in Bytes /\ Tunneled!Byte("method", method) \in Bytes
  <2>1. version \in Nat
    BY <1>0, Zenon
  <2>2. version \in Said /\ method \in Said
    BY <2>1, Zenon DEF Said
  <2> QED
    BY <2>2, ByteIs
<1>3. Tunneled!Answering /\ step = "method"
  BY DEF Tunneled!AnswersMethod
<1> QED
  BY <1>1, <1>2, <1>3, TwoKeeps

(* A proxy that accepts credentials answers behind all it has said.        *)
LEMMA AnswersAuthKeeps == ASSUME TunnelIInv, Tunneled!AnswersAuth PROVE TunnelIInv'
<1>1. PICK status \in 0..1 :
        Tunneled!ProxyAnswers(<<Tunneled!Byte("auth", 1), Tunneled!Byte("auth", status)>>, FALSE)
  BY DEF Tunneled!AnswersAuth
<1>2. Tunneled!Byte("auth", 1) \in Bytes /\ Tunneled!Byte("auth", status) \in Bytes
  <2>1. 1 \in Nat /\ status \in Nat
    OBVIOUS
  <2>2. 1 \in Said /\ status \in Said
    BY <2>1, Zenon DEF Said
  <2> QED
    BY <2>2, ByteIs
<1>3. Tunneled!Answering /\ step = "auth"
  BY DEF Tunneled!AnswersAuth
<1> QED
  BY <1>1, <1>2, <1>3, TwoKeeps

(* So many bytes of padding.                                               *)
LEMMA FillerIs ==
  ASSUME NEW whose \in {"reply", "header"}, NEW n \in Nat
  PROVE  /\ Tunneled!Filler(whose, n) \in Seq(Bytes) /\ Len(Tunneled!Filler(whose, n)) = n
         /\ \A i \in 1..n : Tunneled!Filler(whose, n)[i].part # "target"
<1> DEFINE S == Bytes
           x == Tunneled!Byte(whose, 0)
           f == [i \in 1..n |-> x]
<1>1. x \in S /\ x.part # "target"
  <2>1. 0 \in Nat
    OBVIOUS
  <2>2. 0 \in Said
    BY <2>1, Zenon DEF Said
  <2> QED
    BY <2>2, ByteIs
<1>2. Tunneled!Filler(whose, n) = f
  BY DEF Tunneled!Filler
<1> HIDE DEF S, x
<1>3. f \in Seq(S)
  BY <1>1, SeqDef
<1>4. Len(f) = n /\ \A i \in 1..n : f[i] = x
  BY <1>1, LenProperties, <1>3
<1> HIDE DEF f
<1> QED
  BY <1>1, <1>2, <1>3, <1>4 DEF S

(* A proxy that connects answers with a reply, and the target may follow.  *)
LEMMA AnswersConnectKeeps == ASSUME TunnelIInv, Tunneled!AnswersConnect PROVE TunnelIInv'
<1>1. PICK code \in 0..1, type \in {"v4", "v6", "name", "other"}, len \in 0..MaxName :
        Tunneled!ProxyAnswers(
          <<Tunneled!Byte("reply", 5), Tunneled!Byte("reply", code), Tunneled!Byte("reply", 0),
            Tunneled!Byte("reply", type)>> \o
          (IF code = 1 \/ type = "other" THEN <<>>
           ELSE IF type = "name"
           THEN <<Tunneled!Byte("reply", len)>> \o Tunneled!Filler("reply", len + PortBytes)
           ELSE Tunneled!Filler("reply", (IF type = "v4" THEN V4 ELSE V6) + PortBytes)),
          code = 0 /\ type # "other")
  BY DEF Tunneled!AnswersConnect
<1> DEFINE S == Bytes
           a == Tunneled!Byte("reply", 5)
           b == Tunneled!Byte("reply", code)
           c == Tunneled!Byte("reply", 0)
           d == Tunneled!Byte("reply", type)
           e == Tunneled!Byte("reply", len)
           head == <<a, b, c, d>>
           named == Tunneled!Filler("reply", len + PortBytes)
           plainly == Tunneled!Filler("reply", (IF type = "v4" THEN V4 ELSE V6) + PortBytes)
           rest == IF code = 1 \/ type = "other" THEN <<>>
                   ELSE IF type = "name" THEN <<e>> \o named ELSE plainly
           bytes == head \o rest
<1>2. code \in Nat /\ len \in Nat /\ 5 \in Nat /\ 0 \in Nat
  OBVIOUS
<1>3. /\ a \in S /\ b \in S /\ c \in S /\ d \in S /\ e \in S
      /\ a.part # "target" /\ b.part # "target" /\ c.part # "target" /\ d.part # "target"
      /\ e.part # "target"
  <2>1. 5 \in Said /\ code \in Said /\ 0 \in Said /\ type \in Said /\ len \in Said
    BY <1>2, Zenon DEF Said
  <2> QED
    BY <2>1, ByteIs
<1>4. b.is = code /\ d.is = type /\ e.is = len
  BY DEF Tunneled!Byte
<1>5. MaxPlain \in Nat /\ V4 \in Nat /\ V6 \in Nat /\ PortBytes \in Nat
  BY LayeringAssumption
<1>6. /\ named \in Seq(S) /\ Len(named) = len + PortBytes
      /\ \A i \in 1..(len + PortBytes) : named[i].part # "target"
  <2>1. len + PortBytes \in Nat
    BY <1>2, <1>5
  <2> QED
    BY <2>1, FillerIs
<1>7. /\ plainly \in Seq(S) /\ Len(plainly) = (IF type = "v4" THEN V4 ELSE V6) + PortBytes
      /\ \A i \in 1..((IF type = "v4" THEN V4 ELSE V6) + PortBytes) : plainly[i].part # "target"
  <2>1. (IF type = "v4" THEN V4 ELSE V6) + PortBytes \in Nat
    BY <1>5
  <2> QED
    BY <2>1, FillerIs
<1>8. Tunneled!ProxyAnswers(bytes, code = 0 /\ type # "other")
  BY <1>1
<1>9. Tunneled!Answering /\ step = "reply"
  BY DEF Tunneled!AnswersConnect
<1> HIDE DEF S, a, b, c, d, e, named, plainly
<1>10. head \in Seq(S) /\ Len(head) = 4 /\ \A i \in 1..4 : head[i].part # "target"
  BY <1>3
<1>11. head[2].is = code /\ head[4].is = type
  BY <1>4
<1> HIDE DEF head
<1>12. /\ rest \in Seq(S) /\ \A i \in 1..Len(rest) : rest[i].part # "target"
       /\ code = 0 /\ type = "name" => Len(rest) = 1 + len + PortBytes /\ rest[1].is = len
       /\ code = 0 /\ type = "v4" => Len(rest) = V4 + PortBytes
       /\ code = 0 /\ type = "v6" => Len(rest) = V6 + PortBytes
  <2>1. CASE code = 1 \/ type = "other"
    <3>1. rest = <<>> /\ ~(code = 0 /\ type \in {"name", "v4", "v6"})
      BY <2>1
    <3>2. <<>> \in Seq(S) /\ Len(<<>>) = 0
      OBVIOUS
    <3> HIDE DEF rest
    <3> QED
      BY <3>1, <3>2
  <2>2. CASE ~(code = 1 \/ type = "other") /\ type = "name"
    <3>1. rest = <<e>> \o named
      BY <2>2
    <3>2. <<e>> \in Seq(S) /\ Len(<<e>>) = 1 /\ <<e>>[1] = e
      BY <1>3
    <3> DEFINE one == <<e>>
    <3>3. one \in Seq(S) /\ Len(one) = 1 /\ one[1] = e /\ rest = one \o named
      BY <3>1, <3>2
    <3> HIDE DEF rest, one
    <3>4. /\ rest \in Seq(S) /\ Len(rest) = 1 + Len(named) /\ rest[1] = e
          /\ \A i \in 1..Len(named) : rest[1 + i] = named[i]
      <4>1. one \in Seq(S) /\ named \in Seq(S)
        BY <1>6, <3>3
      <4>2. /\ one \o named \in Seq(S) /\ Len(one \o named) = Len(one) + Len(named)
            /\ \A i \in 1..Len(one) : (one \o named)[i] = one[i]
            /\ \A i \in 1..Len(named) : (one \o named)[Len(one) + i] = named[i]
        BY <4>1
      <4> QED
        BY <3>3, <4>2
    <3>5. Len(rest) = 1 + len + PortBytes
      BY <1>2, <1>5, <1>6, <3>4
    <3>6. \A i \in 1..Len(rest) : rest[i].part # "target"
      <4> TAKE i \in 1..Len(rest)
      <4>1. CASE i = 1
        BY <1>3, <3>4, <4>1
      <4>2. CASE i # 1
        <5>1. i - 1 \in 1..(len + PortBytes) /\ 1 + (i - 1) = i /\ i - 1 \in 1..Len(named)
          BY <1>2, <1>5, <1>6, <3>5, <4>2
        <5> DEFINE j == i - 1
        <5>2. j \in 1..(len + PortBytes) /\ 1 + j = i /\ j \in 1..Len(named)
          BY <5>1
        <5> HIDE DEF j
        <5>3. rest[1 + j] = named[j] /\ named[j].part # "target"
          BY <1>6, <3>4, <5>2
        <5> QED
          BY <5>2, <5>3
      <4> QED
        BY <4>1, <4>2
    <3> QED
      BY <1>4, <2>2, <3>4, <3>5, <3>6
  <2>3. CASE ~(code = 1 \/ type = "other") /\ type # "name"
    <3>1. rest = plainly
      BY <2>3
    <3> HIDE DEF rest
    <3>2. rest \in Seq(S) /\ \A i \in 1..Len(rest) : rest[i].part # "target"
      BY <1>7, <3>1
    <3>3. /\ type = "v4" => Len(rest) = V4 + PortBytes
          /\ type = "v6" => Len(rest) = V6 + PortBytes
      BY <1>7, <3>1
    <3> QED
      BY <2>3, <3>2, <3>3
  <2> QED
    BY <2>1, <2>2, <2>3
<1> HIDE DEF rest
<1>13. /\ bytes \in Seq(S) /\ Len(bytes) = 4 + Len(rest) /\ Len(rest) \in Nat
       /\ \A i \in 1..4 : bytes[i] = head[i]
       /\ \A i \in 1..Len(rest) : bytes[4 + i] = rest[i]
  <2>1. head \in Seq(S) /\ rest \in Seq(S)
    BY <1>10, <1>12
  <2>2. /\ bytes \in Seq(S) /\ Len(bytes) = Len(head) + Len(rest) /\ Len(rest) \in Nat
        /\ \A i \in 1..Len(head) : bytes[i] = head[i]
        /\ \A i \in 1..Len(rest) : bytes[Len(head) + i] = rest[i]
    BY <2>1
  <2>3. Len(head) = 4
    BY <1>10
  <2> QED
    BY <2>2, <2>3
<1> HIDE DEF bytes
<1>14. \A i \in 1..Len(bytes) : bytes[i].part # "target"
  <2> TAKE i \in 1..Len(bytes)
  <2>1. CASE i \in 1..4
    BY <1>10, <1>13, <2>1
  <2>2. CASE ~(i \in 1..4)
    <3> DEFINE j == i - 4
    <3>1. j \in 1..Len(rest) /\ 4 + j = i
      BY <1>13, <2>2
    <3> HIDE DEF j
    <3> QED
      BY <1>12, <1>13, <3>1
  <2> QED
    BY <2>1, <2>2
<1>15. bytes[2].is = code /\ bytes[4].is = type /\ (Len(rest) >= 1 => bytes[5] = rest[1])
  BY <1>11, <1>13
<1>16. IsReply(code, len, type, Len(bytes), bytes)
  <2> DEFINE n == Len(bytes)
             m == Len(rest)
  <2>1. n = 4 + m /\ m \in Nat
    BY <1>13
  <2>2. /\ code = 0 /\ type = "name" => m = 1 + len + PortBytes /\ rest[1].is = len
        /\ code = 0 /\ type = "v4" => m = V4 + PortBytes
        /\ code = 0 /\ type = "v6" => m = V6 + PortBytes
    BY <1>12
  <2>3. m >= 1 => bytes[5] = rest[1]
    BY <1>15
  <2> HIDE DEF n, m
  <2>4. code = 0 /\ type = "name" => n = 5 + len + PortBytes /\ bytes[5].is = len
    BY <1>2, <1>5, <2>1, <2>2, <2>3
  <2>5. /\ code = 0 /\ type = "v4" => n = 4 + V4 + PortBytes
        /\ code = 0 /\ type = "v6" => n = 4 + V6 + PortBytes
    BY <1>5, <2>1, <2>2
  <2>6. n >= 4
    BY <2>1
  <2> QED
    BY <1>2, <1>15, <2>4, <2>5, <2>6, Zenon DEF IsReply, n
<1> QED
  <2>1. (code = 0 /\ type # "other") \in BOOLEAN
    OBVIOUS
  <2>2. bytes \in Seq(Bytes)
    BY <1>13 DEF S
  <2>3. \E x, y, z : IsReply(x, y, z, Len(bytes), bytes)
    BY <1>16
  <2> DEFINE grants == code = 0 /\ type # "other"
  <2>4. grants \in BOOLEAN /\ Tunneled!ProxyAnswers(bytes, grants)
    BY <1>8, <2>1
  <2> HIDE DEF grants
  <2> QED
    BY <1>9, <1>14, <2>2, <2>3, <2>4, AnswerKeeps

(* The fields of a header, of two bytes each.                              *)
LEMMA FieldsAre ==
  ASSUME NEW fields \in Nat
  PROVE  LET f == [i \in 1..(2 * fields) |->
                     Tunneled!Byte("header", IF i % 2 = 1 THEN "text" ELSE "crlf")]
         IN  /\ f \in Seq(Bytes) /\ Len(f) = 2 * fields
             /\ \A i \in 1..(2 * fields) :
                  f[i].part # "target" /\ f[i].is = IF i % 2 = 1 THEN "text" ELSE "crlf"
<1> DEFINE S == Bytes
           x == Tunneled!Byte("header", "text")
           y == Tunneled!Byte("header", "crlf")
           n == 2 * fields
           f == [i \in 1..n |-> IF i % 2 = 1 THEN x ELSE y]
<1>1. "text" \in Said /\ "crlf" \in Said
  BY Zenon DEF Said
<1>2. x \in S /\ y \in S /\ x.part # "target" /\ y.part # "target"
  BY <1>1, ByteIs
<1>3. x.is = "text" /\ y.is = "crlf"
  BY DEF Tunneled!Byte
<1>4. f = [i \in 1..(2 * fields) |-> Tunneled!Byte("header", IF i % 2 = 1 THEN "text" ELSE "crlf")]
  OBVIOUS
<1>5. n \in Nat
  OBVIOUS
<1> HIDE DEF S, x, y, n
<1>6. f \in Seq(S)
  BY <1>2, <1>5, SeqDef
<1>7. Len(f) = n
  BY <1>5, <1>6, LenProperties
<1>8. \A i \in 1..n : f[i] = IF i % 2 = 1 THEN x ELSE y
  OBVIOUS
<1> HIDE DEF f
<1>9. \A i \in 1..n : f[i].part # "target" /\ f[i].is = IF i % 2 = 1 THEN "text" ELSE "crlf"
  BY <1>2, <1>3, <1>8
<1> QED
  BY <1>4, <1>6, <1>7, <1>9, Zenon DEF S, n

(* Two sequences of bytes, one behind the other.                           *)
LEMMA JoinedAre ==
  ASSUME NEW v \in Seq(Bytes), NEW w \in Seq(Bytes)
  PROVE  /\ v \o w \in Seq(Bytes) /\ Len(v \o w) = Len(v) + Len(w)
         /\ Len(v) \in Nat /\ Len(w) \in Nat
         /\ \A i \in 1..Len(v) : (v \o w)[i] = v[i]
         /\ \A i \in 1..Len(w) : (v \o w)[Len(v) + i] = w[i]
<1> DEFINE S == Bytes
<1>1. v \in Seq(S) /\ w \in Seq(S)
  OBVIOUS
<1> HIDE DEF S
<1>2. /\ v \o w \in Seq(S) /\ Len(v \o w) = Len(v) + Len(w)
      /\ Len(v) \in Nat /\ Len(w) \in Nat
      /\ \A i \in 1..Len(v) : (v \o w)[i] = v[i]
      /\ \A i \in 1..Len(w) : (v \o w)[Len(v) + i] = w[i]
  BY <1>1
<1> QED
  BY <1>2, Zenon DEF S

(* An HTTP proxy that connects answers with a header, and the target may   *)
(* follow.                                                                 *)
LEMMA AnswersHeaderKeeps == ASSUME TunnelIInv, Tunneled!AnswersHeader PROVE TunnelIInv'
<1>1. PICK status \in {"2xx", "4xx", "garbage"}, fields \in 0..MAX_HEADER :
        Tunneled!ProxyAnswers(
          <<Tunneled!Byte("header", status), Tunneled!Byte("header", "crlf")>> \o
          [i \in 1..(2 * fields) |->
             Tunneled!Byte("header", IF i % 2 = 1 THEN "text" ELSE "crlf")] \o
          <<Tunneled!Byte("header", "crlf")>>, status = "2xx")
  BY DEF Tunneled!AnswersHeader
<1>2. fields \in Nat
  OBVIOUS
<1> DEFINE S == Bytes
           x == Tunneled!Byte("header", status)
           y == Tunneled!Byte("header", "crlf")
           f == [i \in 1..(2 * fields) |->
                   Tunneled!Byte("header", IF i % 2 = 1 THEN "text" ELSE "crlf")]
           head == <<x, y>>
           last == <<y>>
           lines == head \o f
           bytes == lines \o last
           grants == status = "2xx"
<1>3. /\ x \in S /\ y \in S /\ x.part # "target" /\ y.part # "target"
      /\ x.is = status /\ y.is = "crlf"
  <2>1. status \in Said /\ "crlf" \in Said
    BY Zenon DEF Said
  <2>2. x \in S /\ y \in S /\ x.part # "target" /\ y.part # "target"
    BY <2>1, ByteIs
  <2> QED
    BY <2>2 DEF Tunneled!Byte
<1>4. /\ f \in Seq(S) /\ Len(f) = 2 * fields
      /\ \A i \in 1..(2 * fields) :
           f[i].part # "target" /\ f[i].is = IF i % 2 = 1 THEN "text" ELSE "crlf"
  BY <1>2, FieldsAre
<1>5. Tunneled!ProxyAnswers(bytes, grants)
  BY <1>1
<1>6. grants \in BOOLEAN
  OBVIOUS
<1>7. status # "crlf"
  OBVIOUS
<1>8. Tunneled!Answering /\ step = "header"
  BY DEF Tunneled!AnswersHeader
<1> HIDE DEF S, x, y, f, grants
<1>9. /\ head \in Seq(S) /\ Len(head) = 2 /\ head[1] = x /\ head[2] = y
      /\ last \in Seq(S) /\ Len(last) = 1 /\ last[1] = y
  BY <1>3
<1> HIDE DEF head, last
<1>10. head \in Seq(Bytes) /\ last \in Seq(Bytes) /\ f \in Seq(Bytes)
  BY <1>4, <1>9, Zenon DEF S
<1>11. /\ lines \in Seq(Bytes) /\ Len(lines) = Len(head) + Len(f)
       /\ \A i \in 1..Len(head) : lines[i] = head[i]
       /\ \A i \in 1..Len(f) : lines[Len(head) + i] = f[i]
  BY <1>10, JoinedAre, Zenon
<1> HIDE DEF lines
<1>12. /\ bytes \in Seq(Bytes) /\ Len(bytes) = Len(lines) + Len(last)
       /\ \A i \in 1..Len(lines) : bytes[i] = lines[i]
       /\ \A i \in 1..Len(last) : bytes[Len(lines) + i] = last[i]
  BY <1>10, <1>11, JoinedAre, Zenon
<1> HIDE DEF bytes
<1> DEFINE n == 2 * fields
<1>13. n \in Nat
  BY <1>2
<1>14. Len(head) = 2 /\ Len(last) = 1 /\ Len(f) = n
  BY <1>4, <1>9
<1>15. \A i \in 1..n : f[i].part # "target" /\ f[i].is = IF i % 2 = 1 THEN "text" ELSE "crlf"
  BY <1>4
<1> HIDE DEF n
<1>16. Len(lines) = n + 2 /\ Len(bytes) = n + 3
  BY <1>11, <1>12, <1>13, <1>14
<1>17. bytes[1] = x /\ bytes[2] = y /\ bytes[n + 3] = y
  <2>1. 1 \in 1..Len(lines) /\ 2 \in 1..Len(lines) /\ 1 \in 1..Len(head) /\ 2 \in 1..Len(head)
        /\ 1 \in 1..Len(last) /\ Len(lines) + 1 = n + 3
    BY <1>13, <1>14, <1>16
  <2> QED
    BY <1>9, <1>11, <1>12, <2>1
<1>18. \A i \in 3..(n + 2) :
         bytes[i].part # "target" /\ bytes[i].is = IF i % 2 = 1 THEN "text" ELSE "crlf"
  <2> TAKE i \in 3..(n + 2)
  <2> DEFINE j == i - 2
  <2>1. j \in 1..n /\ 2 + j = i /\ i \in 1..(n + 2) /\ (i % 2 = 1 <=> j % 2 = 1)
    BY <1>13
  <2> HIDE DEF j
  <2>2. i \in 1..Len(lines) /\ j \in 1..Len(f) /\ Len(head) + j = i
    BY <1>14, <1>16, <2>1
  <2>3. bytes[i] = f[j]
    BY <1>11, <1>12, <2>2
  <2> QED
    BY <1>15, <2>1, <2>3
<1>19. \A i \in 1..Len(bytes) : bytes[i].part # "target"
  <2> TAKE i \in 1..Len(bytes)
  <2>1. i = 1 \/ i = 2 \/ i = n + 3 \/ i \in 3..(n + 2)
    BY <1>13, <1>16
  <2> QED
    BY <1>3, <1>17, <1>18, <2>1
<1>20. IsHeader(fields, bytes)
  <2>1. /\ bytes[1].is # "crlf" /\ bytes[2].is = "crlf" /\ bytes[n + 3].is = "crlf"
        /\ \A i \in 3..(n + 2) : bytes[i].is = IF i % 2 = 1 THEN "text" ELSE "crlf"
    BY <1>3, <1>7, <1>17, <1>18
  <2> QED
    BY <2>1, Zenon DEF IsHeader, n
<1>21. \E k \in Nat : IsHeader(k, bytes) /\ Len(bytes) = 2 * k + 3
  BY <1>2, <1>16, <1>20 DEF n
<1> QED
  BY <1>5, <1>6, <1>8, <1>12, <1>19, <1>21, AnswerKeeps

(* What is ahead goes on as v, with u bytes of the target: whatever part   *)
(* of w is the proxy's, v says the same as far as it goes.                 *)
Follows(w, t, c, v, u, d) ==
  \A n : Behind(n, w, t, c) =>
          /\ Behind(n, v, u, d)
          /\ \A i \in 1..n : i <= Len(v) => i <= Len(w) /\ v[i] = w[i]

(* A reply that is on its way stays one as more follows it, or the line is *)
(* cut.                                                                    *)
LEMMA RepliedFollows ==
  ASSUME NEW w, NEW t, NEW c, NEW v, NEW u, NEW d, Follows(w, t, c, v, u, d), Len(v) \in Nat,
         NEW code, NEW len, NEW type, NEW n, Behind(n, w, t, c), IsReply(code, len, type, n, w),
         Len(w) \in Nat
  PROVE  Behind(n, v, u, d) /\ IsReply(code, len, type, n, v)
<1>1. /\ Behind(n, v, u, d) /\ n \in Nat
      /\ \A i \in 1..n : i <= Len(v) => i <= Len(w) /\ v[i] = w[i]
  BY DEF Follows, Behind
<1>2. PortBytes \in Nat
  BY LayeringAssumption
<1>3. n >= 4 /\ len \in Nat /\ (code = 0 /\ type = "name" => n >= 5)
  BY <1>2 DEF IsReply
<1>4. Len(v) >= 2 => v[2].is = code
  <2>1. Len(v) >= 2 => Len(w) >= 2 /\ v[2] = w[2]
    BY <1>1, <1>3
  <2> QED
    BY <2>1, Zenon DEF IsReply
<1>5. Len(v) >= 4 => v[4].is = type
  <2>1. Len(v) >= 4 => Len(w) >= 4 /\ v[4] = w[4]
    BY <1>1, <1>3
  <2> QED
    BY <2>1, Zenon DEF IsReply
<1>6. code = 0 /\ type = "name" => (Len(v) >= 5 => v[5].is = len)
  <2>1. code = 0 /\ type = "name" /\ Len(v) >= 5 => Len(w) >= 5 /\ v[5] = w[5]
    BY <1>1, <1>3
  <2> QED
    BY <2>1, Zenon DEF IsReply
<1> QED
  BY <1>1, <1>4, <1>5, <1>6, Zenon DEF IsReply

(* A header that is on its way stays one as more follows it, or the line   *)
(* is cut.                                                                 *)
LEMMA HeadedFollows ==
  ASSUME NEW w, NEW t, NEW c, NEW v, NEW u, NEW d, Follows(w, t, c, v, u, d), Len(v) \in Nat,
         NEW fields \in Nat, Behind(2 * fields + 3, w, t, c), IsHeader(fields, w),
         Len(w) \in Nat
  PROVE  Behind(2 * fields + 3, v, u, d) /\ IsHeader(fields, v)
<1> DEFINE n == 2 * fields
<1>1. n \in Nat
  OBVIOUS
<1>2. /\ Behind(n + 3, v, u, d)
      /\ \A i \in 1..(n + 3) : i <= Len(v) => i <= Len(w) /\ v[i] = w[i]
  BY DEF Follows
<1>3. /\ Len(w) >= 1 => w[1].is # "crlf"
      /\ Len(w) >= 2 => w[2].is = "crlf"
      /\ \A i \in 3..(n + 2) : i <= Len(w) => w[i].is = IF i % 2 = 1 THEN "text" ELSE "crlf"
      /\ Len(w) >= n + 3 => w[n + 3].is = "crlf"
  BY Zenon DEF IsHeader
<1> HIDE DEF n
<1>4. /\ Len(v) >= 1 => Len(w) >= 1 /\ v[1] = w[1]
      /\ Len(v) >= 2 => Len(w) >= 2 /\ v[2] = w[2]
      /\ Len(v) >= n + 3 => Len(w) >= n + 3 /\ v[n + 3] = w[n + 3]
      /\ \A i \in 3..(n + 2) : i <= Len(v) => i <= Len(w) /\ v[i] = w[i]
  BY <1>1, <1>2
<1>5. \A i \in 3..(n + 2) : i <= Len(v) => v[i].is = IF i % 2 = 1 THEN "text" ELSE "crlf"
  BY <1>3, <1>4, Zenon
<1>6. IsHeader(fields, v)
  BY <1>3, <1>4, <1>5, Zenon DEF IsHeader, n
<1> QED
  BY <1>2, <1>6, Zenon DEF n

(* A step in which the layer stays where it is.                            *)
LEMMA GoesOn ==
  ASSUME TunnelIInv, TunnelTyped', UNCHANGED <<step, granted>>, step # "open",
         Follows(Ahead, target, closed, Ahead', target', closed'),
         Len(Ahead) \in Nat, Len(Ahead') \in Nat, Len(taken) \in Nat, Len(taken') \in Nat,
         needs' + Len(taken') = needs + Len(taken), step = "header" => needs' \in {0, 1},
         Unheard => Unheard' /\ needs' = needs
  PROVE  Exchanging'
<1>1. needs \in Int /\ needs' \in Int
  BY DEF TunnelIInv, TunnelTyped
<1>2. step \in {"check", "refused", "ask"} => Unheard'
  BY DEF TunnelIInv, Exchanging
<1>3. ASSUME step \in {"method", "auth"} PROVE (Unheard /\ needs = 2)' \/ Short'
  <2>1. CASE Unheard /\ needs = 2
    BY <2>1
  <2>2. CASE Short
    <3>1. Behind(2, Ahead', target', closed')
      BY <2>2 DEF Short, Follows
    <3>2. needs' = 2 - Len(taken') /\ ~granted'
      BY <1>1, <2>2 DEF Short
    <3> QED
      BY <3>1, <3>2, Zenon DEF Short
  <2> QED
    BY <1>3, <2>1, <2>2 DEF TunnelIInv, Exchanging
<1>4. ASSUME step = "reply" PROVE needs' = 4 - Len(taken') /\ (Unheard' \/ Replied')
  <2>1. needs' = 4 - Len(taken')
    BY <1>1, <1>4 DEF TunnelIInv, Exchanging
  <2>2. CASE Replied
    <3>1. PICK code, len, type, n :
            Behind(n, Ahead, target, closed) /\ IsReply(code, len, type, n, Ahead)
      BY <2>2 DEF Replied
    <3>2. Behind(n, Ahead', target', closed') /\ IsReply(code, len, type, n, Ahead')
      BY <3>1, RepliedFollows
    <3> QED
      BY <2>1, <3>2, Zenon DEF Replied
  <2> QED
    BY <1>4, <2>1, <2>2 DEF TunnelIInv, Exchanging
<1>5. ASSUME step = "name" PROVE needs' = 1 - Len(taken') /\ Named'
  <2>1. needs' = 1 - Len(taken')
    BY <1>1, <1>5 DEF TunnelIInv, Exchanging
  <2>2. PICK len \in Nat :
          Behind(1 + len + PortBytes, Ahead, target, closed) /\ (Len(Ahead) >= 1 => Ahead[1].is = len)
    BY <1>5 DEF TunnelIInv, Exchanging, Named
  <2> DEFINE n == 1 + len + PortBytes
  <2>3. n \in Nat /\ n >= 1
    BY LayeringAssumption
  <2>4. Behind(n, Ahead, target, closed)
    BY <2>2
  <2> HIDE DEF n
  <2>5. /\ Behind(n, Ahead', target', closed')
        /\ \A i \in 1..n : i <= Len(Ahead') => i <= Len(Ahead) /\ Ahead'[i] = Ahead[i]
    BY <2>4, Zenon DEF Follows
  <2>6. Len(Ahead') >= 1 => Len(Ahead) >= 1 /\ Ahead'[1] = Ahead[1]
    BY <2>3, <2>5
  <2>7. Len(Ahead') >= 1 => Ahead'[1].is = len
    BY <2>2, <2>6, Zenon
  <2>8. Behind(1 + len + PortBytes, Ahead', target', closed')
    BY <2>5 DEF n
  <2> QED
    BY <2>1, <2>7, <2>8, Zenon DEF Named
<1>6. ASSUME step = "address" PROVE Addressed'
  <2>1. PICK n \in Nat : Behind(n, Ahead, target, closed) /\ needs = n - Len(taken)
    BY <1>6 DEF TunnelIInv, Exchanging, Addressed
  <2>2. Behind(n, Ahead', target', closed')
    BY <2>1, Zenon DEF Follows
  <2>3. needs' = n - Len(taken')
    BY <1>1, <2>1
  <2> QED
    BY <2>2, <2>3, Zenon DEF Addressed
<1>7. ASSUME step = "header" PROVE needs' \in {0, 1} /\ ((Unheard /\ needs = 1)' \/ Headed')
  <2>1. CASE Headed
    <3>1. PICK fields \in Nat :
            /\ Behind(2 * fields + 3, Ahead, target, closed) /\ IsHeader(fields, Ahead)
            /\ needs + Len(taken) <= 2 * fields + 3
      BY <2>1 DEF Headed
    <3>2. Behind(2 * fields + 3, Ahead', target', closed') /\ IsHeader(fields, Ahead')
      BY <3>1, HeadedFollows
    <3>3. needs' + Len(taken') <= 2 * fields + 3
      BY <3>1
    <3> QED
      BY <1>7, <3>2, <3>3, Zenon DEF Headed
  <2> QED
    BY <1>7, <2>1 DEF TunnelIInv, Exchanging
<1> QED
  BY <1>2, <1>3, <1>4, <1>5, <1>6, <1>7, Zenon DEF Exchanging

(* One more byte on the stream.                                            *)
LEMMA GrownIs ==
  ASSUME NEW w \in Seq(Bytes), NEW x \in Bytes
  PROVE  /\ Append(w, x) \in Seq(Bytes) /\ Len(w) \in Nat /\ Len(Append(w, x)) = Len(w) + 1
         /\ \A i \in 1..Len(w) : Append(w, x)[i] = w[i]
         /\ Append(w, x)[Len(w) + 1] = x
<1> DEFINE S == Bytes
<1>1. w \in Seq(S) /\ x \in S
  OBVIOUS
<1> HIDE DEF S
<1>2. /\ Append(w, x) \in Seq(S) /\ Len(w) \in Nat /\ Len(Append(w, x)) = Len(w) + 1
      /\ \A i \in 1..Len(w) : Append(w, x)[i] = w[i]
      /\ Append(w, x)[Len(w) + 1] = x
  BY <1>1
<1> QED
  BY <1>2, Zenon DEF S

(* A byte of the target follows what is on its way.                        *)
LEMMA FollowsMore ==
  ASSUME NEW w, NEW v, NEW t \in Nat, Len(w) \in Nat,
         Len(v) = Len(w) + 1, \A i \in 1..Len(w) : v[i] = w[i],
         v[Len(w) + 1] = Tunneled!Byte("target", t + 1)
  PROVE  Follows(w, t, FALSE, v, t + 1, FALSE)
<1> SUFFICES ASSUME NEW n, Behind(n, w, t, FALSE)
             PROVE  /\ Behind(n, v, t + 1, FALSE)
                    /\ \A i \in 1..n : i <= Len(v) => i <= Len(w) /\ v[i] = w[i]
  BY Zenon DEF Follows
<1>1. Behind(n, v, t + 1, FALSE)
  BY BehindMore
<1>2. n \in Nat /\ Len(w) = n + t
  BY DEF Behind
<1>3. \A i \in 1..n : i <= Len(w) /\ i \in 1..Len(w)
  BY <1>2
<1> QED
  BY <1>1, <1>3

(* The target's bytes come behind the proxy's answer.                      *)
LEMMA TargetSendsKeeps == ASSUME TunnelIInv, Tunneled!TargetSends PROVE TunnelIInv'
<1> DEFINE x == Tunneled!Byte("target", target + 1)
<1>1. /\ granted /\ ~closed /\ target' = target + 1 /\ answers' = Append(answers, x)
      /\ UNCHANGED <<tunnel, secret, step, needs, taken, requested, granted, closed>>
  BY DEF Tunneled!TargetSends
<1>2. /\ taken \in Seq(Bytes) /\ answers \in Seq(Bytes) /\ target \in Nat /\ needs \in Int
      /\ closed = FALSE /\ closed' = FALSE
  BY <1>1 DEF TunnelIInv, TunnelTyped
<1>3. x \in Bytes
  <2>1. target + 1 \in Nat
    BY <1>2
  <2>2. target + 1 \in Said
    BY <2>1, Zenon DEF Said
  <2> QED
    BY <2>2 DEF Tunneled!Byte, Bytes
<1> HIDE DEF x
<1>4. /\ answers' \in Seq(Bytes) /\ Len(answers) \in Nat /\ Len(answers') = Len(answers) + 1
      /\ \A i \in 1..Len(answers) : answers'[i] = answers[i]
      /\ answers'[Len(answers) + 1] = x
  BY <1>1, <1>2, <1>3, GrownIs, Zenon
<1>5. TunnelTyped'
  <2>1. target' \in Nat /\ (target' > 0 => granted')
    BY <1>1, <1>2
  <2> QED
    BY <1>1, <1>4, <2>1, Zenon DEF TunnelIInv, TunnelTyped
<1>6. /\ Len(Ahead) = Len(taken) + Len(answers) /\ Len(Ahead) \in Nat /\ Len(taken) \in Nat
      /\ \A i \in 1..Len(taken) : Ahead[i] = taken[i]
      /\ \A i \in 1..Len(answers) : Ahead[Len(taken) + i] = answers[i]
  BY AheadIs DEF TunnelIInv
<1>7. /\ Ahead' = taken \o answers'
      /\ Len(Ahead') = Len(taken) + Len(answers')
      /\ \A i \in 1..Len(taken) : Ahead'[i] = taken[i]
      /\ \A i \in 1..Len(answers') : Ahead'[Len(taken) + i] = answers'[i]
  <2>1. Ahead' = taken \o answers'
    BY <1>1 DEF Ahead
  <2> DEFINE v == answers'
  <2>2. v \in Seq(Bytes) /\ Ahead' = taken \o v
    BY <1>4, <2>1
  <2> HIDE DEF v
  <2>3. /\ Len(Ahead') = Len(taken) + Len(v)
        /\ \A i \in 1..Len(taken) : Ahead'[i] = taken[i]
        /\ \A i \in 1..Len(v) : Ahead'[Len(taken) + i] = v[i]
    BY <1>2, <2>2, JoinedAre, Zenon
  <2> QED
    BY <2>1, <2>3, Zenon DEF v
<1>8. /\ Len(Ahead') = Len(Ahead) + 1 /\ \A i \in 1..Len(Ahead) : Ahead'[i] = Ahead[i]
      /\ Ahead'[Len(Ahead) + 1] = x
  <2> DEFINE m == Len(taken)
             l == Len(answers)
             a == Ahead
             b == Ahead'
             w == answers
             v == answers'
  <2>1. m \in Nat /\ l \in Nat /\ Len(a) = m + l /\ Len(b) = m + (l + 1)
    BY <1>4, <1>6, <1>7
  <2>2. /\ \A i \in 1..m : a[i] = b[i]
        /\ \A i \in 1..l : a[m + i] = b[m + i]
        /\ b[m + (l + 1)] = x
    <3>1. \A i \in 1..m : a[i] = b[i]
      BY <1>6, <1>7
    <3>2. \A i \in 1..l : i \in 1..(l + 1)
      BY <2>1
    <3>3. Len(v) = l + 1 /\ l + 1 \in 1..(l + 1)
      BY <1>4, <2>1
    <3>4. \A i \in 1..l : a[m + i] = w[i] /\ b[m + i] = v[i] /\ v[i] = w[i]
      BY <1>4, <1>6, <1>7, <3>2, <3>3, Zenon
    <3>5. b[m + (l + 1)] = v[l + 1] /\ v[l + 1] = x
      BY <1>4, <1>7, <3>3, Zenon
    <3> QED
      BY <3>1, <3>4, <3>5, Zenon
  <2> HIDE DEF m, l, a, b
  <2>3. Len(b) = Len(a) + 1 /\ b[Len(a) + 1] = x
    BY <2>1, <2>2
  <2>4. \A i \in 1..Len(a) : b[i] = a[i]
    <3> TAKE i \in 1..Len(a)
    <3>1. CASE i <= m
      BY <2>1, <2>2, <3>1
    <3>2. CASE i > m
      <4> DEFINE j == i - m
      <4>1. j \in 1..l /\ m + j = i
        BY <2>1, <3>2
      <4> HIDE DEF j
      <4> QED
        BY <2>2, <4>1
    <3> QED
      BY <2>1, <3>1, <3>2
  <2> QED
    BY <2>3, <2>4 DEF a, b
<1>9. Follows(Ahead, target, FALSE, Ahead', target + 1, FALSE)
  BY <1>2, <1>6, <1>8, FollowsMore DEF x
<1>10. Exchanging'
  <2>1. CASE step = "open"
    <3>1. Behind(0, answers, target, FALSE)
      BY <1>2, <2>1 DEF TunnelIInv, Exchanging
    <3>2. Behind(0, answers', target + 1, FALSE)
      BY <1>2, <1>4, <3>1, BehindMore DEF x
    <3>3. Behind(0, answers', target', closed') /\ step' = "open"
      BY <1>1, <1>2, <2>1, <3>2, Zenon
    <3> QED
      BY <3>3 DEF Exchanging
  <2>2. CASE step # "open"
    <3>1. Follows(Ahead, target, closed, Ahead', target', closed')
      BY <1>1, <1>2, <1>9, Zenon
    <3>2. Len(Ahead') \in Nat /\ Len(taken') \in Nat /\ needs' + Len(taken') = needs + Len(taken)
      BY <1>1, <1>6, <1>8
    <3>3. ~Unheard
      BY <1>1 DEF Unheard
    <3>4. step = "header" => needs' \in {0, 1}
      BY <1>1 DEF TunnelIInv, Exchanging
    <3> QED
      BY <1>1, <1>5, <1>6, <2>2, <3>1, <3>2, <3>3, <3>4, GoesOn
  <2> QED
    BY <2>1, <2>2
<1> QED
  BY <1>1, <1>5, <1>10 DEF TunnelIInv, Untouching, Credited

(* The first bytes on the stream, and those behind them.                   *)
LEMMA CutIs ==
  ASSUME NEW w \in Seq(Bytes), NEW k \in 0..Len(w)
  PROVE  /\ SubSeq(w, 1, k) \in Seq(Bytes) /\ Len(SubSeq(w, 1, k)) = k
         /\ \A i \in 1..k : SubSeq(w, 1, k)[i] = w[i]
         /\ SubSeq(w, k + 1, Len(w)) \in Seq(Bytes)
         /\ SubSeq(w, 1, k) \o SubSeq(w, k + 1, Len(w)) = w
<1> DEFINE S == Bytes
<1>1. w \in Seq(S)
  OBVIOUS
<1> HIDE DEF S
<1>2. k \in Nat /\ Len(w) \in Nat /\ k <= Len(w)
  BY <1>1
<1>3. /\ SubSeq(w, 1, k) \in Seq(S) /\ Len(SubSeq(w, 1, k)) = k
      /\ \A i \in 1..k : SubSeq(w, 1, k)[i] = w[i]
  BY <1>1, <1>2
<1>4. /\ SubSeq(w, k + 1, Len(w)) \in Seq(S) /\ Len(SubSeq(w, k + 1, Len(w))) = Len(w) - k
      /\ \A i \in 1..(Len(w) - k) : SubSeq(w, k + 1, Len(w))[i] = w[k + i]
  BY <1>1, <1>2
<1> DEFINE u == SubSeq(w, 1, k)
           v == SubSeq(w, k + 1, Len(w))
           l == Len(w)
<1>5. /\ u \in Seq(S) /\ Len(u) = k /\ \A i \in 1..k : u[i] = w[i]
      /\ v \in Seq(S) /\ Len(v) = l - k /\ \A i \in 1..(l - k) : v[i] = w[k + i]
  BY <1>3, <1>4
<1> HIDE DEF u, v
<1>6. u \o v = w
  <2>1. u \in Seq(S) /\ v \in Seq(S)
    BY <1>5
  <2>2. /\ u \o v \in Seq(S) /\ Len(u \o v) = Len(u) + Len(v)
        /\ \A i \in 1..Len(u) : (u \o v)[i] = u[i]
        /\ \A i \in 1..Len(v) : (u \o v)[Len(u) + i] = v[i]
    BY <2>1
  <2> DEFINE z == u \o v
  <2>3. /\ z \in Seq(S) /\ Len(z) = Len(u) + Len(v)
        /\ \A i \in 1..Len(u) : z[i] = u[i]
        /\ \A i \in 1..Len(v) : z[Len(u) + i] = v[i]
    BY <2>2
  <2> HIDE DEF z
  <2>4. l \in Nat /\ k \in Nat /\ k <= l /\ Len(u) = k /\ Len(v) = l - k
    BY <1>2, <1>5
  <2> HIDE DEF l
  <2>5. Len(z) = l
    BY <2>3, <2>4
  <2>6. \A i \in 1..k : z[i] = w[i]
    BY <1>5, <2>3, <2>4
  <2>7. \A i \in 1..(l - k) : z[k + i] = w[k + i]
    BY <1>5, <2>3, <2>4
  <2>8. \A i \in 1..l : z[i] = w[i]
    <3> TAKE i \in 1..l
    <3>1. CASE i <= k
      BY <2>4, <2>6, <3>1
    <3>2. CASE i > k
      <4> DEFINE j == i - k
      <4>1. j \in 1..(l - k) /\ k + j = i
        BY <2>4, <3>2
      <4> HIDE DEF j
      <4> QED
        BY <2>7, <4>1
    <3> QED
      BY <2>4, <3>1, <3>2
  <2>9. z = w
    BY <1>1, <2>3, <2>5, <2>8, SeqEqual, Zenon DEF l
  <2> QED
    BY <2>9 DEF z
<1> QED
  BY <1>3, <1>4, <1>6, Zenon DEF S, u, v

(* A line that is cut carries the beginning of what was on its way.        *)
LEMMA FollowsLess ==
  ASSUME NEW w, NEW v, NEW t \in Nat, NEW c, Len(w) \in Nat, Len(v) \in Nat,
         Len(v) <= Len(w), \A i \in 1..Len(v) : v[i] = w[i]
  PROVE  Follows(w, t, c, v, t, TRUE)
<1> SUFFICES ASSUME NEW n, Behind(n, w, t, c)
             PROVE  /\ Behind(n, v, t, TRUE)
                    /\ \A i \in 1..n : i <= Len(v) => i <= Len(w) /\ v[i] = w[i]
  BY Zenon DEF Follows
<1>1. Behind(n, v, t, TRUE)
  BY BehindCut
<1>2. ASSUME NEW i \in 1..n, i <= Len(v) PROVE i <= Len(w) /\ v[i] = w[i]
  <2>1. i \in Nat /\ i >= 1
    OBVIOUS
  <2>2. i \in 1..Len(v) /\ i <= Len(w)
    BY <1>2, <2>1
  <2> QED
    BY <2>2
<1> QED
  BY <1>1, <1>2

(* A proxy that closes may cut its answer short, and no more.              *)
LEMMA ProxyClosesKeeps == ASSUME TunnelIInv, Tunneled!ProxyCloses PROVE TunnelIInv'
<1>1. /\ closed' = TRUE /\ Tunneled!Running
      /\ UNCHANGED <<tunnel, secret, step, needs, taken, requested, target, granted>>
  BY DEF Tunneled!ProxyCloses
<1>2. PICK k \in 0..Len(answers) : answers' = SubSeq(answers, 1, k)
  BY DEF Tunneled!ProxyCloses
<1>3. taken \in Seq(Bytes) /\ answers \in Seq(Bytes) /\ target \in Nat /\ needs \in Int
  BY DEF TunnelIInv, TunnelTyped
<1>4. /\ answers' \in Seq(Bytes) /\ Len(answers') = k
      /\ \A i \in 1..k : answers'[i] = answers[i]
  BY <1>2, <1>3, CutIs, Zenon
<1>5. TunnelTyped'
  BY <1>1, <1>4 DEF TunnelIInv, TunnelTyped
<1>6. /\ Len(Ahead) = Len(taken) + Len(answers) /\ Len(Ahead) \in Nat /\ Len(taken) \in Nat
      /\ \A i \in 1..Len(taken) : Ahead[i] = taken[i]
      /\ \A i \in 1..Len(answers) : Ahead[Len(taken) + i] = answers[i]
      /\ Len(answers) \in Nat
  BY AheadIs DEF TunnelIInv
<1>7. /\ Len(Ahead') = Len(taken) + Len(answers')
      /\ \A i \in 1..Len(taken) : Ahead'[i] = taken[i]
      /\ \A i \in 1..Len(answers') : Ahead'[Len(taken) + i] = answers'[i]
  <2>1. Ahead' = taken \o answers'
    BY <1>1 DEF Ahead
  <2> DEFINE v == answers'
  <2>2. v \in Seq(Bytes) /\ Ahead' = taken \o v
    BY <1>4, <2>1
  <2> HIDE DEF v
  <2>3. /\ Len(Ahead') = Len(taken) + Len(v)
        /\ \A i \in 1..Len(taken) : Ahead'[i] = taken[i]
        /\ \A i \in 1..Len(v) : Ahead'[Len(taken) + i] = v[i]
    BY <1>3, <2>2, JoinedAre, Zenon
  <2> QED
    BY <2>3, Zenon DEF v
<1>8. /\ Len(Ahead') \in Nat /\ Len(Ahead') <= Len(Ahead)
      /\ \A i \in 1..Len(Ahead') : Ahead'[i] = Ahead[i]
  <2> DEFINE m == Len(taken)
             l == Len(answers)
             a == Ahead
             b == Ahead'
  <2>1. m \in Nat /\ l \in Nat /\ k \in 0..l /\ Len(a) = m + l /\ Len(b) = m + k
    BY <1>4, <1>6, <1>7
  <2>2. /\ \A i \in 1..m : a[i] = b[i]
        /\ \A i \in 1..k : a[m + i] = b[m + i]
    <3>1. \A i \in 1..k : i \in 1..l
      BY <2>1
    <3> QED
      BY <1>4, <1>6, <1>7, <3>1, Zenon
  <2> HIDE DEF m, l, a, b
  <2>3. Len(b) \in Nat /\ Len(b) <= Len(a)
    BY <2>1
  <2>4. \A i \in 1..Len(b) : b[i] = a[i]
    <3> TAKE i \in 1..Len(b)
    <3>1. CASE i <= m
      BY <2>1, <2>2, <3>1
    <3>2. CASE i > m
      <4> DEFINE j == i - m
      <4>1. j \in 1..k /\ m + j = i
        BY <2>1, <3>2
      <4> HIDE DEF j
      <4> QED
        BY <2>2, <4>1
    <3> QED
      BY <2>1, <3>1, <3>2
  <2> QED
    BY <2>3, <2>4 DEF a, b
<1>9. Follows(Ahead, target, closed, Ahead', target', closed')
  <2>1. Follows(Ahead, target, closed, Ahead', target, TRUE)
    BY <1>3, <1>6, <1>8, FollowsLess
  <2> QED
    BY <1>1, <2>1, Zenon
<1>10. Unheard => Unheard' /\ needs' = needs
  <2>1. answers = <<>> => answers' = <<>>
    <3>1. <<>> \in Seq(Bytes) /\ (answers = <<>> => Len(answers) = 0)
      OBVIOUS
    <3>2. answers = <<>> => Len(answers') = 0
      BY <1>4, <3>1
    <3> QED
      BY <1>4, <3>2, EmptySeq
  <2> QED
    BY <1>1, <2>1 DEF Unheard
<1>11. Exchanging'
  <2>1. step # "open"
    BY <1>1 DEF Tunneled!Running
  <2>2. Len(taken') \in Nat /\ needs' + Len(taken') = needs + Len(taken)
    BY <1>1, <1>6
  <2>3. step = "header" => needs' \in {0, 1}
    BY <1>1 DEF TunnelIInv, Exchanging
  <2> QED
    BY <1>1, <1>5, <1>6, <1>8, <1>9, <1>10, <2>1, <2>2, <2>3, GoesOn
<1> QED
  BY <1>1, <1>5, <1>11 DEF TunnelIInv, Untouching, Credited

(* What a read is after is the proxy's.                                    *)
LEMMA Reach ==
  ASSUME TunnelIInv, Tunneled!Running, needs > 0, answers # <<>>
  PROVE  \E n \in Nat : Behind(n, Ahead, target, closed) /\ Len(taken) + needs <= n
<1>1. needs \in Int /\ Len(taken) \in Nat
  BY AheadIs DEF TunnelIInv, TunnelTyped
<1>2. ~Unheard
  BY DEF Unheard
<1>3. step \in {"method", "auth", "reply", "name", "address", "header"}
  BY <1>2 DEF TunnelIInv, TunnelTyped, Exchanging, Tunneled!Running
<1>4. CASE step \in {"method", "auth"}
  <2>1. Behind(2, Ahead, target, closed) /\ needs = 2 - Len(taken)
    BY <1>2, <1>4 DEF TunnelIInv, Exchanging, Short
  <2>2. Len(taken) + needs <= 2
    BY <1>1, <2>1
  <2> QED
    BY <2>1, <2>2
<1>5. CASE step = "reply"
  <2>1. needs = 4 - Len(taken) /\ Replied
    BY <1>2, <1>5 DEF TunnelIInv, Exchanging
  <2>2. PICK code, len, type, n : Behind(n, Ahead, target, closed) /\ IsReply(code, len, type, n, Ahead)
    BY <2>1 DEF Replied
  <2>3. n \in Nat /\ n >= 4
    BY <2>2 DEF IsReply, Behind
  <2>4. Len(taken) + needs <= n
    BY <1>1, <2>1, <2>3
  <2> QED
    BY <2>2, <2>3, <2>4
<1>6. CASE step = "name"
  <2>1. PICK len \in Nat : Behind(1 + len + PortBytes, Ahead, target, closed)
    BY <1>6 DEF TunnelIInv, Exchanging, Named
  <2>2. needs = 1 - Len(taken)
    BY <1>6 DEF TunnelIInv, Exchanging
  <2> DEFINE n == 1 + len + PortBytes
  <2>3. n \in Nat /\ Len(taken) + needs <= n
    BY <1>1, <2>2, LayeringAssumption
  <2>4. Behind(n, Ahead, target, closed)
    BY <2>1
  <2> HIDE DEF n
  <2> QED
    BY <2>3, <2>4
<1>7. CASE step = "address"
  <2>1. PICK n \in Nat : Behind(n, Ahead, target, closed) /\ needs = n - Len(taken)
    BY <1>7 DEF TunnelIInv, Exchanging, Addressed
  <2>2. Len(taken) + needs <= n
    BY <1>1, <2>1
  <2> QED
    BY <2>1, <2>2
<1>8. CASE step = "header"
  <2>1. PICK fields \in Nat :
          Behind(2 * fields + 3, Ahead, target, closed) /\ needs + Len(taken) <= 2 * fields + 3
    BY <1>2, <1>8 DEF TunnelIInv, Exchanging, Headed
  <2> DEFINE n == 2 * fields + 3
  <2>2. n \in Nat /\ Len(taken) + needs <= n
    BY <1>1, <2>1
  <2>3. Behind(n, Ahead, target, closed)
    BY <2>1
  <2> HIDE DEF n
  <2> QED
    BY <2>2, <2>3
<1> QED
  BY <1>3, <1>4, <1>5, <1>6, <1>7, <1>8

(* The client takes no more than it needs of what is next.                 *)
LEMMA TakesKeeps == ASSUME TunnelIInv, Tunneled!Takes PROVE TunnelIInv'
<1>1. PICK k \in 1..Len(answers) :
        /\ k <= needs
        /\ taken' = taken \o SubSeq(answers, 1, k)
        /\ answers' = SubSeq(answers, k + 1, Len(answers))
        /\ needs' = needs - k
  BY DEF Tunneled!Takes
<1>2. /\ Tunneled!Running /\ needs > 0 /\ answers # <<>>
      /\ UNCHANGED <<tunnel, secret, step, requested, target, granted, closed>>
  BY DEF Tunneled!Takes
<1>3. taken \in Seq(Bytes) /\ answers \in Seq(Bytes) /\ target \in Nat /\ needs \in Int
  BY DEF TunnelIInv, TunnelTyped
<1>4. Len(Ahead) \in Nat /\ Len(taken) \in Nat /\ Len(answers) \in Nat
  BY AheadIs DEF TunnelIInv
<1> DEFINE u == SubSeq(answers, 1, k)
           v == SubSeq(answers, k + 1, Len(answers))
<1>5. u \in Seq(Bytes) /\ v \in Seq(Bytes) /\ Len(u) = k /\ u \o v = answers
  <2>1. k \in 0..Len(answers)
    BY <1>4
  <2> QED
    BY <1>3, <2>1, CutIs
<1>6. taken' = taken \o u /\ answers' = v
  BY <1>1
<1> HIDE DEF u, v
<1>7. taken \o u \in Seq(Bytes) /\ Len(taken \o u) = Len(taken) + Len(u)
  BY <1>3, <1>5, JoinedAre, Zenon
<1>8. Ahead' = Ahead
  <2>1. (taken \o u) \o v = taken \o (u \o v)
    <3> DEFINE S == Bytes
    <3>1. taken \in Seq(S) /\ u \in Seq(S) /\ v \in Seq(S)
      BY <1>3, <1>5
    <3> HIDE DEF S
    <3> QED
      BY <3>1, ConcatAssociative, SMTT(30)
  <2>2. Ahead' = (taken \o u) \o v
    BY <1>6, Zenon DEF Ahead
  <2> QED
    BY <1>5, <2>1, <2>2, Zenon DEF Ahead
<1>9. /\ taken' \in Seq(Bytes) /\ answers' \in Seq(Bytes)
      /\ Len(taken') = Len(taken) + k /\ Len(taken') \in Nat
  <2>1. Len(taken) + k \in Nat
    BY <1>4
  <2> QED
    BY <1>5, <1>6, <1>7, <2>1
<1>10. TunnelTyped'
  <2>1. needs' \in Int
    BY <1>1, <1>3
  <2> QED
    BY <1>2, <1>9, <2>1, Zenon DEF TunnelIInv, TunnelTyped
<1>11. Follows(Ahead, target, closed, Ahead', target', closed')
  <2>1. ASSUME NEW w, NEW t, NEW c PROVE Follows(w, t, c, w, t, c)
    BY DEF Follows
  <2>2. Follows(Ahead, target, closed, Ahead, target, closed)
    BY <2>1, Zenon
  <2> QED
    BY <1>2, <1>8, <2>2, Zenon
<1>12. Exchanging'
  <2>1. step # "open"
    BY <1>2 DEF Tunneled!Running
  <2>2. needs' + Len(taken') = needs + Len(taken)
    BY <1>1, <1>3, <1>4, <1>9
  <2>3. step = "header" => needs' \in {0, 1}
    <3>1. step = "header" => needs \in {0, 1}
      BY DEF TunnelIInv, Exchanging
    <3> QED
      BY <1>1, <1>3, <3>1
  <2>4. ~Unheard
    BY <1>2 DEF Unheard
  <2>5. Len(Ahead') \in Nat
    BY <1>4, <1>8
  <2> QED
    BY <1>2, <1>4, <1>9, <1>10, <1>11, <2>1, <2>2, <2>3, <2>4, <2>5, GoesOn
<1>13. Untouching'
  <2>1. PICK n \in Nat : Behind(n, Ahead, target, closed) /\ Len(taken) + needs <= n
    BY <1>2, Reach
  <2> DEFINE w == taken'
             a == Ahead
             z == answers'
  <2>2. w \in Seq(Bytes) /\ z \in Seq(Bytes) /\ a = w \o z
    <3>1. Ahead' = w \o z
      BY Zenon DEF Ahead
    <3> QED
      BY <1>8, <1>9, <3>1
  <2>3. Len(w) <= n /\ Len(w) \in Nat
    BY <1>1, <1>3, <1>4, <1>9, <2>1
  <2>4. \A i \in 1..Len(a) : i <= n => a[i].part # "target"
    BY <2>1 DEF Behind
  <2>5. Untouching' <=> \A i \in 1..Len(w) : w[i].part # "target"
    BY Zenon DEF Untouching
  <2> HIDE DEF w, a, z
  <2>6. /\ Len(a) = Len(w) + Len(z) /\ Len(z) \in Nat
        /\ \A i \in 1..Len(w) : a[i] = w[i]
    BY <2>2, JoinedAre, Zenon
  <2>7. \A i \in 1..Len(w) : i \in 1..Len(a) /\ i <= n
    BY <2>3, <2>6
  <2> QED
    BY <2>4, <2>5, <2>6, <2>7, Zenon
<1> QED
  BY <1>2, <1>10, <1>12, <1>13 DEF TunnelIInv, Credited

(* A tunnel whose answer ends early is refused.                            *)
LEMMA EndsShortKeeps == ASSUME TunnelIInv, Tunneled!EndsShort PROVE TunnelIInv'
BY FailKeeps DEF Tunneled!EndsShort

(* A tunnel to a name that is not found is refused.                        *)
LEMMA LookupFailsKeeps == ASSUME TunnelIInv, Tunneled!LookupFails PROVE TunnelIInv'
BY FailKeeps DEF Tunneled!LookupFails, Tunneled!Kept

(* A read of an answer of two bytes leaves nothing on the stream.          *)
LEMMA Silent ==
  ASSUME TunnelIInv, step \in {"method", "auth"}, needs = 0
  PROVE  answers = <<>> /\ target = 0 /\ ~granted
<1>1. Short
  BY DEF TunnelIInv, Exchanging
<1>2. ~granted /\ target \in Nat /\ (target > 0 => granted) /\ answers \in Seq(Bytes)
  BY <1>1 DEF Short, TunnelIInv, TunnelTyped
<1>3. target = 0
  BY <1>2
<1>4. Len(Ahead) = Len(taken) + Len(answers) /\ Len(taken) \in Nat /\ Len(answers) \in Nat
  BY AheadIs DEF TunnelIInv
<1>5. Len(Ahead) <= 2 + target /\ 0 = 2 - Len(taken)
  BY <1>1 DEF Short, Behind
<1>6. Len(answers) = 0
  BY <1>3, <1>4, <1>5
<1> QED
  BY <1>2, <1>3, <1>6, EmptySeq

(* A client that asks for its target has taken all that was answered so    *)
(* far.                                                                    *)
LEMMA RequestsKeeps ==
  ASSUME TunnelIInv, Tunneled!Requests, Tunneled!Kept, answers = <<>>, target = 0, ~granted
  PROVE  TunnelIInv'
<1>1. UNCHANGED <<tunnel, secret, answers, target, granted, closed>>
  BY DEF Tunneled!Kept
<1>2. CASE tunnel.target = "garbage" \/ closed
  BY <1>1, <1>2, FailKeeps DEF Tunneled!Requests
<1>3. CASE ~(tunnel.target = "garbage" \/ closed)
  <2>1. Tunneled!Reads("reply", 4) /\ requested' = requested \cup {"connect"}
    BY <1>3 DEF Tunneled!Requests
  <2>2. Credited'
    BY <1>1, <2>1 DEF TunnelIInv, Credited
  <2> QED
    BY <1>1, <2>1, <2>2, AskKeeps
<1> QED
  BY <1>2, <1>3

(* The client goes on by the method that the proxy picked.                 *)
LEMMA ReadsMethodKeeps == ASSUME TunnelIInv, Tunneled!ReadsMethod PROVE TunnelIInv'
<1>1. /\ step = "method" /\ needs = 0 /\ Tunneled!Kept
      /\ UNCHANGED <<tunnel, secret, answers, target, granted, closed>>
  BY DEF Tunneled!ReadsMethod, Tunneled!Has, Tunneled!Kept
<1>2. answers = <<>> /\ target = 0 /\ ~granted
  BY <1>1, Silent
<1>3. \/ Tunneled!Fails /\ UNCHANGED requested
      \/ Tunneled!Requests
      \/ secret = "pair" /\ Tunneled!Reads("auth", 2) /\ requested' = requested \cup {"credentials"}
  BY DEF Tunneled!ReadsMethod
<1>4. CASE Tunneled!Fails /\ UNCHANGED requested
  BY <1>1, <1>4, FailKeeps
<1>5. CASE Tunneled!Requests
  BY <1>1, <1>2, <1>5, RequestsKeeps
<1>6. CASE secret = "pair" /\ Tunneled!Reads("auth", 2) /\ requested' = requested \cup {"credentials"}
  <2>1. Credited'
    BY <1>1, <1>6 DEF Credited
  <2> QED
    BY <1>1, <1>2, <1>6, <2>1, AskKeeps
<1> QED
  BY <1>3, <1>4, <1>5, <1>6

(* The client goes on once its credentials are accepted.                   *)
LEMMA ReadsAuthKeeps == ASSUME TunnelIInv, Tunneled!ReadsAuth PROVE TunnelIInv'
<1>1. /\ step = "auth" /\ needs = 0 /\ Tunneled!Kept
      /\ UNCHANGED <<tunnel, secret, answers, target, granted, closed>>
  BY DEF Tunneled!ReadsAuth, Tunneled!Has, Tunneled!Kept
<1>2. answers = <<>> /\ target = 0 /\ ~granted
  BY <1>1, Silent
<1>3. (Tunneled!Fails /\ UNCHANGED requested) \/ Tunneled!Requests
  BY DEF Tunneled!ReadsAuth
<1> QED
  BY <1>1, <1>2, <1>3, FailKeeps, RequestsKeeps

(* What was taken is done with.                                            *)
LEMMA Done ==
  ASSUME TunnelTyped, NEW n, Behind(n, Ahead, target, closed), Len(taken) <= n
  PROVE  n - Len(taken) \in Nat /\ Behind(n - Len(taken), answers, target, closed)
<1>1. /\ Len(Ahead) = Len(taken) + Len(answers) /\ Len(Ahead) \in Nat
      /\ Len(taken) \in Nat /\ Len(answers) \in Nat
      /\ \A i \in 1..Len(answers) : Ahead[Len(taken) + i] = answers[i]
  BY AheadIs
<1>2. n \in Nat /\ target \in Nat
  BY DEF Behind, TunnelTyped
<1>3. Len(answers) = Len(Ahead) - Len(taken)
  BY <1>1
<1>4. \A i \in 1..Len(answers) : answers[i] = Ahead[Len(taken) + i]
  BY <1>1
<1>5. Behind(n - Len(taken), answers, target, closed)
  BY <1>1, <1>2, <1>3, <1>4, BehindLess
<1> QED
  BY <1>1, <1>2, <1>5

(* The next read, of what is on the stream.                                *)
LEMMA NextRead ==
  ASSUME TunnelTyped, NEW next, NEW count \in Int, Tunneled!Reads(next, count),
         UNCHANGED <<tunnel, secret, answers, requested, target, granted, closed>>
  PROVE  /\ Ahead' = answers /\ Len(taken') = 0 /\ needs' = count /\ step' = next
         /\ Untouching' /\ (next \in {"name", "address"} => TunnelTyped')
<1>1. step' = next /\ needs' = count /\ taken' = <<>>
  BY DEF Tunneled!Reads
<1> DEFINE S == Bytes
<1>2. answers \in Seq(S) /\ answers' = answers
  BY DEF TunnelTyped
<1> HIDE DEF S
<1>3. <<>> \o answers = answers /\ Len(<<>>) = 0 /\ <<>> \in Seq(S)
  BY <1>2
<1>4. Ahead' = answers /\ Len(taken') = 0 /\ taken' \in Seq(S)
  BY <1>1, <1>2, <1>3, Zenon DEF Ahead
<1>5. Untouching'
  BY <1>4 DEF Untouching
<1>6. next \in {"name", "address"} => TunnelTyped'
  <2>1. taken' \in Seq(Bytes)
    BY <1>4 DEF S
  <2> QED
    BY <1>1, <2>1, Zenon DEF TunnelTyped
<1> QED
  BY <1>1, <1>4, <1>5, <1>6, Zenon

(* The client learns from a reply how much of it is left.                  *)
LEMMA ReadsReplyKeeps == ASSUME TunnelIInv, Tunneled!ReadsReply PROVE TunnelIInv'
<1>1. /\ step = "reply" /\ needs = 0
      /\ UNCHANGED <<tunnel, secret, answers, requested, target, granted, closed>>
  BY DEF Tunneled!ReadsReply, Tunneled!Has, Tunneled!Kept
<1>2. CASE Tunneled!Fails
  BY <1>1, <1>2, FailKeeps
<1>3. CASE ~Tunneled!Fails
  <2> DEFINE type == taken[4].is
  <2>1. taken[2].is = 0 /\ type # "other"
    BY <1>3 DEF Tunneled!ReadsReply
  <2>2. IF type = "name" THEN Tunneled!Reads("name", 1)
        ELSE Tunneled!Reads("address", Tunneled!drain(type))
    BY <1>3, <2>1 DEF Tunneled!ReadsReply
  <2>3. TunnelTyped
    BY DEF TunnelIInv
  <2>4. /\ Len(Ahead) = Len(taken) + Len(answers) /\ Len(taken) \in Nat /\ Len(answers) \in Nat
        /\ \A i \in 1..Len(taken) : Ahead[i] = taken[i]
        /\ \A i \in 1..Len(answers) : Ahead[Len(taken) + i] = answers[i]
    BY <2>3, AheadIs
  <2>5. Len(taken) = 4
    BY <1>1, <2>4 DEF TunnelIInv, Exchanging
  <2>6. Replied
    BY <1>1, <2>5 DEF TunnelIInv, Exchanging, Unheard
  <2>7. PICK code, len, kind, n :
          Behind(n, Ahead, target, closed) /\ IsReply(code, len, kind, n, Ahead)
    BY <2>6 DEF Replied
  <2>8. Ahead[2] = taken[2] /\ Ahead[4] = taken[4] /\ Len(Ahead) >= 2 /\ Len(Ahead) >= 4
    BY <2>4, <2>5
  <2>9. code = 0 /\ kind = type
    BY <2>1, <2>7, <2>8, Zenon DEF IsReply
  <2>10. n \in Nat /\ n >= 4 /\ len \in Nat /\ kind \in {"v4", "v6", "name", "other"}
    BY <2>7 DEF IsReply, Behind
  <2>11. n - 4 \in Nat /\ Behind(n - 4, answers, target, closed)
    <3>1. Len(taken) <= n
      BY <2>5, <2>10
    <3> QED
      BY <2>3, <2>5, <2>7, <3>1, Done
  <2>12. CASE kind = "name"
    <3>1. Tunneled!Reads("name", 1)
      BY <2>2, <2>9, <2>12
    <3>2. /\ Ahead' = answers /\ Len(taken') = 0 /\ needs' = 1 /\ step' = "name"
          /\ Untouching' /\ TunnelTyped'
      BY <1>1, <2>3, <3>1, NextRead
    <3>3. n = 5 + len + PortBytes /\ (Len(Ahead) >= 5 => Ahead[5].is = len)
      BY <2>7, <2>9, <2>12, Zenon DEF IsReply
    <3>4. n - 4 = 1 + len + PortBytes
      BY <2>10, <3>3, LayeringAssumption
    <3>5. Len(answers) >= 1 => answers[1].is = len
      <4>1. Len(answers) >= 1 => Len(Ahead) >= 5 /\ answers[1] = Ahead[5]
        BY <2>4, <2>5
      <4> QED
        BY <3>3, <4>1, Zenon
    <3>6. Behind(1 + len + PortBytes, answers, target, closed)
      BY <2>11, <3>4
    <3>7. Named'
      BY <1>1, <2>10, <3>2, <3>5, <3>6, Zenon DEF Named
    <3>8. Exchanging'
      BY <3>2, <3>7 DEF Exchanging
    <3> QED
      BY <1>1, <3>2, <3>8 DEF TunnelIInv, Credited
  <2>13. CASE kind \in {"v4", "v6"}
    <3>1. Tunneled!drain(type) = n - 4 /\ Tunneled!Reads("address", Tunneled!drain(type))
      <4>1. kind = "v4" => n = 4 + V4 + PortBytes
        BY <2>7, <2>9, Zenon DEF IsReply
      <4>2. kind = "v6" => n = 4 + V6 + PortBytes
        BY <2>7, <2>9, Zenon DEF IsReply
      <4>3. type = kind /\ kind # "name"
        BY <2>9, <2>13
      <4> HIDE DEF type
      <4>4. Tunneled!drain(type) = n - 4
        BY <2>10, <2>13, <4>1, <4>2, <4>3, LayeringAssumption DEF Tunneled!drain
      <4> QED
        BY <2>2, <4>3, <4>4
    <3>2. Tunneled!Reads("address", n - 4)
      BY <3>1
    <3>3. /\ Ahead' = answers /\ Len(taken') = 0 /\ needs' = n - 4 /\ step' = "address"
          /\ Untouching' /\ TunnelTyped'
      BY <1>1, <2>3, <2>11, <3>2, NextRead
    <3> DEFINE m == n - 4
    <3>4. m \in Nat /\ Behind(m, Ahead', target', closed') /\ needs' = m
      BY <1>1, <2>11, <3>3
    <3> HIDE DEF m
    <3>5. needs' = m - Len(taken')
      BY <3>3, <3>4
    <3>6. Addressed'
      BY <3>4, <3>5, Zenon DEF Addressed
    <3>7. Exchanging'
      BY <3>3, <3>6 DEF Exchanging
    <3> QED
      BY <1>1, <3>3, <3>7 DEF TunnelIInv, Credited
  <2> QED
    BY <2>1, <2>9, <2>10, <2>12, <2>13
<1> QED
  BY <1>2, <1>3

(* The client learns from a length how long the bound name is.             *)
LEMMA ReadsNameKeeps == ASSUME TunnelIInv, Tunneled!ReadsName PROVE TunnelIInv'
<1>1. /\ step = "name" /\ needs = 0
      /\ UNCHANGED <<tunnel, secret, answers, requested, target, granted, closed>>
      /\ Tunneled!Reads("address", taken[1].is + PortBytes)
  BY DEF Tunneled!ReadsName, Tunneled!Has, Tunneled!Kept
<1>2. TunnelTyped
  BY DEF TunnelIInv
<1>3. /\ Len(Ahead) = Len(taken) + Len(answers) /\ Len(taken) \in Nat /\ Len(answers) \in Nat
      /\ \A i \in 1..Len(taken) : Ahead[i] = taken[i]
  BY <1>2, AheadIs
<1>4. Len(taken) = 1 /\ Named
  BY <1>1, <1>3 DEF TunnelIInv, Exchanging
<1>5. PICK len \in Nat :
        Behind(1 + len + PortBytes, Ahead, target, closed) /\ (Len(Ahead) >= 1 => Ahead[1].is = len)
  BY <1>4 DEF Named
<1>6. Ahead[1] = taken[1] /\ Len(Ahead) >= 1
  BY <1>3, <1>4
<1>7. taken[1].is = len
  BY <1>5, <1>6, Zenon
<1> DEFINE m == len + PortBytes
           n == 1 + len + PortBytes
<1>8. m \in Nat /\ n \in Nat /\ 1 <= n /\ n - 1 = m
  BY LayeringAssumption
<1>9. Behind(n, Ahead, target, closed) /\ Tunneled!Reads("address", m)
  BY <1>1, <1>5, <1>7
<1> HIDE DEF m, n
<1>10. Behind(m, answers, target, closed)
  <2>1. Behind(n - Len(taken), answers, target, closed)
    BY <1>2, <1>4, <1>8, <1>9, Done
  <2> QED
    BY <1>4, <1>8, <2>1
<1>11. /\ Ahead' = answers /\ Len(taken') = 0 /\ needs' = m /\ step' = "address"
       /\ Untouching' /\ TunnelTyped'
  BY <1>1, <1>2, <1>8, <1>9, NextRead
<1>12. needs' = m - Len(taken')
  BY <1>8, <1>11
<1>13. Addressed'
  BY <1>1, <1>8, <1>10, <1>11, <1>12, Zenon DEF Addressed
<1>14. Exchanging'
  BY <1>11, <1>13 DEF Exchanging
<1> QED
  BY <1>1, <1>11, <1>14 DEF TunnelIInv, Credited

(* The route is open once all of the answers is taken.                     *)
LEMMA OpensKeeps ==
  ASSUME TunnelIInv, step' = "open", Behind(Len(taken), Ahead, target, closed),
         UNCHANGED <<tunnel, secret, answers, requested, target, granted, closed, needs, taken>>
  PROVE  TunnelIInv'
<1>1. TunnelTyped'
  BY DEF TunnelIInv, TunnelTyped
<1>2. Len(taken) \in Nat
  BY AheadIs DEF TunnelIInv
<1>3. Behind(0, answers, target, closed)
  <2>1. Behind(Len(taken) - Len(taken), answers, target, closed)
    BY <1>2, Done DEF TunnelIInv
  <2>2. Len(taken) - Len(taken) = 0
    BY <1>2
  <2> QED
    BY <2>1, <2>2
<1>4. Exchanging'
  BY <1>3 DEF Exchanging
<1> QED
  BY <1>1, <1>4 DEF TunnelIInv, Untouching, Credited

(* A reply that is read to its end leaves the target's first byte to be    *)
(* read next.                                                              *)
LEMMA ReadsAddressKeeps == ASSUME TunnelIInv, Tunneled!ReadsAddress PROVE TunnelIInv'
<1>1. /\ step = "address" /\ needs = 0 /\ step' = "open"
      /\ UNCHANGED <<tunnel, secret, answers, requested, target, granted, closed, needs, taken>>
  BY DEF Tunneled!ReadsAddress, Tunneled!Has, Tunneled!Kept
<1>2. PICK n \in Nat : Behind(n, Ahead, target, closed) /\ needs = n - Len(taken)
  BY <1>1 DEF TunnelIInv, Exchanging, Addressed
<1>3. Len(taken) \in Nat
  BY AheadIs DEF TunnelIInv
<1>4. n = Len(taken)
  BY <1>1, <1>2, <1>3
<1> QED
  BY <1>1, <1>2, <1>4, OpensKeeps

(* Where the empty line of a header is.                                    *)
LEMMA EmptyLineIs ==
  ASSUME TunnelTyped, NEW fields \in Nat, IsHeader(fields, Ahead), Len(taken) <= 2 * fields + 3
  PROVE  Tunneled!EndsWithEmptyLine <=> Len(taken) = 2 * fields + 3
<1> DEFINE n == 2 * fields
           m == Len(taken)
           is(i) == taken[i].is
<1>1. n \in Nat /\ n % 2 = 0 /\ m \in Nat /\ m <= n + 3
  <2>1. Len(taken) \in Nat
    BY AheadIs
  <2> QED
    BY <2>1
<1>2. /\ m >= 1 => is(1) # "crlf"
      /\ m >= 2 => is(2) = "crlf"
      /\ \A i \in 3..(n + 2) : i <= m => is(i) = IF i % 2 = 1 THEN "text" ELSE "crlf"
      /\ m >= n + 3 => is(n + 3) = "crlf"
  <2>1. /\ Len(Ahead) >= m /\ \A i \in 1..m : Ahead[i] = taken[i]
    <3>1. Len(Ahead) = Len(taken) + Len(answers) /\ Len(taken) \in Nat /\ Len(answers) \in Nat
      BY AheadIs
    <3> QED
      BY <3>1, AheadIs
  <2>2. /\ Len(Ahead) >= 1 => Ahead[1].is # "crlf"
        /\ Len(Ahead) >= 2 => Ahead[2].is = "crlf"
        /\ \A i \in 3..(n + 2) :
             i <= Len(Ahead) => Ahead[i].is = IF i % 2 = 1 THEN "text" ELSE "crlf"
        /\ Len(Ahead) >= n + 3 => Ahead[n + 3].is = "crlf"
    BY Zenon DEF IsHeader
  <2>3. Len(Ahead) \in Nat
    BY AheadIs
  <2> DEFINE l == Len(Ahead)
             a == Ahead
  <2> HIDE DEF l, a, m, n
  <2>4. /\ m >= 1 => l >= 1 /\ a[1] = taken[1]
        /\ m >= 2 => l >= 2 /\ a[2] = taken[2]
        /\ m >= n + 3 => l >= n + 3 /\ a[n + 3] = taken[n + 3]
        /\ \A i \in 3..(n + 2) : i <= m => i <= l /\ a[i] = taken[i]
    <3>1. l \in Nat /\ l >= m /\ \A i \in 1..m : a[i] = taken[i]
      BY <2>1, <2>3 DEF l, a
    <3>2. \A i \in Nat : i >= 1 /\ i <= m => i <= l /\ a[i] = taken[i]
      BY <1>1, <3>1
    <3>3. n + 3 \in Nat /\ n + 3 >= 1 /\ \A i \in 3..(n + 2) : i \in Nat /\ i >= 1
      BY <1>1
    <3> QED
      BY <3>2, <3>3
  <2>5. \A i \in 3..(n + 2) : i <= m => is(i) = IF i % 2 = 1 THEN "text" ELSE "crlf"
    <3> TAKE i \in 3..(n + 2)
    <3>1. i <= m => i <= l /\ a[i] = taken[i]
      BY <2>4, Zenon
    <3>2. i <= l => a[i].is = IF i % 2 = 1 THEN "text" ELSE "crlf"
      BY <2>2, Zenon DEF a, l
    <3> QED
      BY <3>1, <3>2, Zenon
  <2> QED
    BY <2>2, <2>4, <2>5, Zenon DEF a, l
<1>3. Tunneled!EndsWithEmptyLine <=> m >= 2 /\ is(m) = "crlf" /\ is(m - 1) = "crlf"
  BY DEF Tunneled!EndsWithEmptyLine
<1>4. m - 1 \in Int
  BY <1>1
<1> HIDE DEF n, m, is
<1>5. ASSUME m >= 2, is(m) = "crlf", is(m - 1) = "crlf", m # n + 3 PROVE FALSE
  <2>1. m = 2 \/ m \in 3..(n + 2)
    BY <1>1, <1>5
  <2>2. CASE m = 2
    BY <1>2, <1>5, <2>2
  <2>3. CASE m \in 3..(n + 2)
    <3>1. m % 2 # 1
      <4>1. is(m) = IF m % 2 = 1 THEN "text" ELSE "crlf"
        BY <1>1, <1>2, <2>3
      <4> QED
        BY <1>5, <4>1
    <3>2. m - 1 \in 3..(n + 2) /\ (m - 1) % 2 = 1 /\ m - 1 <= m
      BY <1>1, <2>3, <3>1
    <3>3. is(m - 1) = IF (m - 1) % 2 = 1 THEN "text" ELSE "crlf"
      BY <1>2, <3>2
    <3> QED
      BY <1>5, <3>2, <3>3
  <2> QED
    BY <2>1, <2>2, <2>3
<1>6. ASSUME m = n + 3 PROVE m >= 2 /\ is(m) = "crlf" /\ is(m - 1) = "crlf"
  <2>1. m >= 2 /\ m >= n + 3
    BY <1>1, <1>6
  <2>2. is(m) = "crlf"
    BY <1>2, <1>6, <2>1
  <2>3. CASE n = 0
    <3>1. m - 1 = 2
      BY <1>6, <2>3
    <3> QED
      BY <1>2, <2>1, <2>2, <3>1
  <2>4. CASE n # 0
    <3>1. m - 1 \in 3..(n + 2) /\ (m - 1) % 2 # 1 /\ m - 1 <= m
      BY <1>1, <1>6, <2>4
    <3>2. is(m - 1) = IF (m - 1) % 2 = 1 THEN "text" ELSE "crlf"
      BY <1>2, <3>1
    <3> QED
      BY <2>1, <2>2, <3>1, <3>2
  <2> QED
    BY <2>3, <2>4
<1>7. Tunneled!EndsWithEmptyLine <=> m = n + 3
  BY <1>3, <1>5, <1>6
<1> QED
  BY <1>7 DEF m, n

(* A header that is read to its end leaves the target's first byte to be   *)
(* read next.                                                              *)
LEMMA ReadsHeaderKeeps == ASSUME TunnelIInv, Tunneled!ReadsHeader PROVE TunnelIInv'
<1>1. /\ step = "header" /\ needs = 0
      /\ UNCHANGED <<tunnel, secret, answers, requested, target, granted, closed>>
  BY DEF Tunneled!ReadsHeader, Tunneled!Has, Tunneled!Kept
<1>2. TunnelTyped
  BY DEF TunnelIInv
<1>3. Headed
  BY <1>1 DEF TunnelIInv, Exchanging
<1>4. PICK fields \in Nat :
        /\ Behind(2 * fields + 3, Ahead, target, closed) /\ IsHeader(fields, Ahead)
        /\ needs + Len(taken) <= 2 * fields + 3
  BY <1>3 DEF Headed
<1>5. Len(taken) \in Nat /\ Len(taken) <= 2 * fields + 3
  <2>1. Len(taken) \in Nat
    BY <1>2, AheadIs
  <2> QED
    BY <1>1, <1>4, <2>1
<1>6. Tunneled!EndsWithEmptyLine <=> Len(taken) = 2 * fields + 3
  BY <1>2, <1>4, <1>5, EmptyLineIs
<1>7. CASE Tunneled!Fails
  BY <1>1, <1>7, FailKeeps
<1>8. CASE Tunneled!EndsWithEmptyLine /\ ~Tunneled!Fails
  <2>1. step' = "open" /\ UNCHANGED <<needs, taken>>
    BY <1>8 DEF Tunneled!ReadsHeader
  <2>2. Behind(Len(taken), Ahead, target, closed)
    BY <1>4, <1>6, <1>8
  <2> QED
    BY <1>1, <2>1, <2>2, OpensKeeps
<1>9. CASE ~Tunneled!EndsWithEmptyLine /\ ~Tunneled!Fails
  <2>1. needs' = 1 /\ UNCHANGED <<step, taken>>
    BY <1>9 DEF Tunneled!ReadsHeader
  <2>2. TunnelTyped'
    BY <1>1, <1>2, <2>1 DEF TunnelTyped
  <2>3. Ahead' = Ahead
    BY <1>1, <2>1 DEF Ahead
  <2>4. needs' + Len(taken') <= 2 * fields + 3
    BY <1>5, <1>6, <1>9, <2>1
  <2>5. Behind(2 * fields + 3, Ahead', target', closed') /\ IsHeader(fields, Ahead')
    BY <1>1, <1>4, <2>3, Zenon
  <2>6. Headed'
    BY <2>4, <2>5, Zenon DEF Headed
  <2>7. Exchanging'
    BY <1>1, <2>1, <2>6 DEF Exchanging
  <2> QED
    BY <1>1, <2>1, <2>2, <2>7 DEF TunnelIInv, Untouching, Credited
<1> QED
  BY <1>7, <1>8, <1>9

(* Every step of the client, of the proxy and of the target keeps what is  *)
(* known of a tunnel.                                                      *)
LEMMA TunnelStep == TunnelIInv /\ (Tunneled!Next \/ UNCHANGED tunnelVars) => TunnelIInv'
<1> SUFFICES ASSUME TunnelIInv, Tunneled!Next \/ UNCHANGED tunnelVars PROVE TunnelIInv'
  OBVIOUS
<1>1. CASE UNCHANGED tunnelVars
  <2>1. UNCHANGED <<tunnel, secret, step, needs, taken, answers, requested, granted, target, closed>>
    BY <1>1 DEF tunnelVars
  <2>2. Ahead' = Ahead
    BY <2>1 DEF Ahead
  <2>3. TunnelTyped' /\ Untouching' /\ Credited'
    BY <2>1 DEF TunnelIInv, TunnelTyped, Untouching, Credited
  <2>4. Unheard' = Unheard /\ Short' = Short
    BY <2>1, <2>2, Zenon DEF Unheard, Short
  <2>5. Replied' = Replied /\ Headed' = Headed /\ Named' = Named /\ Addressed' = Addressed
    BY <2>1, <2>2, Zenon DEF Replied, Headed, Named, Addressed
  <2>6. Exchanging'
    BY <2>1, <2>4, <2>5 DEF TunnelIInv, Exchanging
  <2> QED
    BY <2>3, <2>6 DEF TunnelIInv
<1>2. CASE Tunneled!Checks \/ Tunneled!Asks
  BY <1>2, ChecksKeeps, AsksKeeps
<1>3. CASE \/ Tunneled!AnswersMethod \/ Tunneled!AnswersAuth
           \/ Tunneled!AnswersConnect \/ Tunneled!AnswersHeader
  BY <1>3, AnswersMethodKeeps, AnswersAuthKeeps, AnswersConnectKeeps, AnswersHeaderKeeps
<1>4. CASE Tunneled!TargetSends \/ Tunneled!ProxyCloses
  BY <1>4, TargetSendsKeeps, ProxyClosesKeeps
<1>5. CASE Tunneled!Takes \/ Tunneled!EndsShort \/ Tunneled!LookupFails
  BY <1>5, TakesKeeps, EndsShortKeeps, LookupFailsKeeps
<1>6. CASE Tunneled!ReadsMethod \/ Tunneled!ReadsAuth \/ Tunneled!ReadsReply
  BY <1>6, ReadsMethodKeeps, ReadsAuthKeeps, ReadsReplyKeeps
<1>7. CASE Tunneled!ReadsName \/ Tunneled!ReadsAddress \/ Tunneled!ReadsHeader
  BY <1>7, ReadsNameKeeps, ReadsAddressKeeps, ReadsHeaderKeeps
<1> QED
  BY <1>1, <1>2, <1>3, <1>4, <1>5, <1>6, <1>7 DEF Tunneled!Next

(* socks5 and proxy take the proxy's answers and no more, in whatever      *)
(* pieces these arrive and whatever the target sends behind them; and they *)
(* send credentials only where they have some (layer/socks.rs and          *)
(* layer/proxy.rs, wrap_client).                                           *)
THEOREM StartsWithTheTarget == LayeringSpec => []StartsAtTarget
<1>1. LayeringInit => TunnelIInv
  BY TunnelInit DEF LayeringInit
<1>2. TunnelIInv /\ [LayeringNext]_everything => TunnelIInv'
  <2>1. [LayeringNext]_everything => Tunneled!Next \/ UNCHANGED tunnelVars
    BY DEF LayeringNext, everything
  <2> QED
    BY <2>1, TunnelStep
<1>3. TunnelIInv => StartsAtTarget
  <2> SUFFICES ASSUME TunnelIInv PROVE StartsAtTarget
    OBVIOUS
  <2>1. step = "open" =>
          /\ \A i \in 1..Len(answers) : answers[i] = Tunneled!Byte("target", i)
          /\ ~closed => Len(answers) = target
    <3> SUFFICES ASSUME step = "open"
                 PROVE  /\ \A i \in 1..Len(answers) : answers[i] = Tunneled!Byte("target", i)
                        /\ ~closed => Len(answers) = target
      OBVIOUS
    <3>1. Behind(0, answers, target, closed) /\ target \in Nat
      BY DEF TunnelIInv, Exchanging, TunnelTyped
    <3>2. ~closed => Len(answers) = target
      BY <3>1 DEF Behind
    <3>3. ASSUME NEW i \in 1..Len(answers) PROVE answers[i] = Tunneled!Byte("target", i)
      <4>1. ~(i <= 0) /\ i - 0 = i
        OBVIOUS
      <4>2. answers[i] = Tunneled!Byte("target", i - 0)
        BY <3>1, <4>1 DEF Behind
      <4> QED
        BY <4>1, <4>2
    <3> QED
      BY <3>2, <3>3
  <2>2. \A i \in 1..Len(taken) : taken[i].part # "target"
    BY DEF TunnelIInv, Untouching
  <2>3. "credentials" \in requested =>
          secret \in {"pair", "bad"} /\ (Tunneled!Socks => secret = "pair")
    BY DEF TunnelIInv, Credited, Tunneled!Socks
  <2>4. taken # <<>> => taken[1].part # "target"
    <3>1. taken \in Seq(Bytes)
      BY DEF TunnelIInv, TunnelTyped
    <3>2. taken # <<>> => Len(taken) \in Nat \ {0}
      BY <3>1, EmptySeq, Zenon
    <3>3. taken # <<>> => 1 \in 1..Len(taken)
      BY <3>2
    <3> QED
      BY <2>2, <3>3, Zenon
  <2> QED
    BY <2>1, <2>2, <2>3, <2>4, Zenon DEF StartsAtTarget, Tunneled!StartsAtTarget
<1> QED
  BY <1>1, <1>2, <1>3, PTL DEF LayeringSpec, everything


-----------------------------------------------------------------------------
(* ws.                                                                     *)

(* f[n] is those of the first n frames of s that are of some kinds.        *)
Filters(f, m, kinds, s) ==
  f = [n \in 0..m |-> IF n = 0 THEN <<>>
                      ELSE IF s[n].kind \in kinds THEN Append(f[n - 1], s[n]) ELSE f[n - 1]]

(* There are such frames, of any number.                                   *)
LEMMA FiltersExist ==
  ASSUME NEW kinds, NEW s
  PROVE  \A m \in Nat : \E f : Filters(f, m, kinds, s)
<1> DEFINE S == {m \in Nat : \E f : Filters(f, m, kinds, s)}
           next(i, so_far) == IF s[i].kind \in kinds THEN Append(so_far, s[i]) ELSE so_far
<1>1. 0 \in S
  <2> DEFINE f == [i \in 0..0 |-> <<>>]
  <2>1. \A i \in 0..0 : i = 0
    OBVIOUS
  <2>2. Filters(f, 0, kinds, s)
    BY <2>1 DEF Filters
  <2> QED
    BY <2>2
<1>2. ASSUME NEW m \in Nat, m \in S PROVE m + 1 \in S
  <2>1. PICK f : Filters(f, m, kinds, s)
    BY <1>2
  <2>2. f = [i \in 0..m |-> IF i = 0 THEN <<>> ELSE next(i, f[i - 1])]
    BY <2>1 DEF Filters
  <2> HIDE DEF next
  <2> DEFINE g == [i \in 0..(m + 1) |-> IF i <= m THEN f[i] ELSE next(m + 1, f[m])]
  <2>3. ASSUME NEW i \in 0..(m + 1)
        PROVE  g[i] = IF i = 0 THEN <<>> ELSE next(i, g[i - 1])
    <3>1. CASE i = 0
      <4>1. f[0] = <<>>
        BY <2>2
      <4> QED
        BY <3>1, <4>1
    <3>2. CASE i \in 1..m
      <4>1. f[i] = next(i, f[i - 1])
        BY <2>2, <3>2
      <4>2. i - 1 \in 0..(m + 1) /\ i - 1 <= m
        BY <3>2
      <4> QED
        BY <3>2, <4>1, <4>2
    <3>3. CASE i = m + 1
      <4>1. i - 1 = m /\ m \in 0..(m + 1) /\ ~(i <= m) /\ i # 0
        BY <3>3
      <4> QED
        BY <3>3, <4>1
    <3>4. i = 0 \/ i \in 1..m \/ i = m + 1
      OBVIOUS
    <3> QED
      BY <3>1, <3>2, <3>3, <3>4
  <2>4. g = [i \in 0..(m + 1) |-> g[i]]
    OBVIOUS
  <2> HIDE DEF g
  <2>5. g = [i \in 0..(m + 1) |-> IF i = 0 THEN <<>> ELSE next(i, g[i - 1])]
    BY <2>3, <2>4
  <2>6. Filters(g, m + 1, kinds, s)
    BY <2>5 DEF Filters, next
  <2> QED
    BY <2>6
<1> HIDE DEF S
<1>3. \A m \in Nat : m \in S
  BY <1>1, <1>2, Induct
<1> QED
  BY <1>3 DEF S

(* Of a sequence that begins another they are the same.                    *)
LEMMA FiltersAgree ==
  ASSUME NEW kinds, NEW s, NEW t, NEW f, NEW g, NEW m \in Nat, NEW n \in Nat,
         Filters(f, m, kinds, s), Filters(g, n, kinds, t), m <= n, \A i \in 1..m : s[i] = t[i]
  PROVE  \A i \in 0..m : f[i] = g[i]
<1> DEFINE S == {i \in Nat : i <= m => f[i] = g[i]}
<1>1. 0 \in S
  BY DEF Filters
<1>2. ASSUME NEW i \in Nat, i \in S PROVE i + 1 \in S
  <2> SUFFICES ASSUME i + 1 <= m PROVE f[i + 1] = g[i + 1]
    OBVIOUS
  <2>1. f[i] = g[i]
    BY <1>2
  <2> DEFINE k == i + 1
  <2>2. k \in 0..m /\ k \in 0..n /\ k # 0 /\ k - 1 = i /\ s[k] = t[k]
    OBVIOUS
  <2> HIDE DEF k
  <2>3. f[k] = IF s[k].kind \in kinds THEN Append(f[k - 1], s[k]) ELSE f[k - 1]
    BY <2>2 DEF Filters
  <2>4. g[k] = IF t[k].kind \in kinds THEN Append(g[k - 1], t[k]) ELSE g[k - 1]
    BY <2>2 DEF Filters
  <2>5. f[k] = g[k]
    BY <2>1, <2>2, <2>3, <2>4, Zenon
  <2> QED
    BY <2>5 DEF k
<1> HIDE DEF S
<1>3. \A i \in Nat : i \in S
  BY <1>1, <1>2, Induct
<1>4. TAKE i \in 0..m
<1>5. i \in Nat /\ i <= m
  OBVIOUS
<1> QED
  BY <1>3, <1>5 DEF S

(* Only is what is filtered.                                               *)
LEMMA OnlyIs ==
  ASSUME NEW kinds, NEW s, Len(s) \in Nat
  PROVE  \E f : Filters(f, Len(s), kinds, s) /\ Framed!Only(kinds, s) = f[Len(s)]
<1> DEFINE m    == Len(s)
           P(f) == f = [n \in 0..m |-> IF n = 0 THEN <<>>
                                       ELSE IF s[n].kind \in kinds THEN Append(f[n - 1], s[n])
                                       ELSE f[n - 1]]
           C    == CHOOSE f : P(f)
<1>1. \A f : P(f) <=> Filters(f, m, kinds, s)
  BY DEF Filters
<1>2. \E f : P(f)
  BY <1>1, FiltersExist
<1>3. P(C)
  <2> HIDE DEF P
  <2> QED
    BY <1>2
<1>4. Framed!Only(kinds, s) = C[m]
  BY DEF Framed!Only
<1> QED
  BY <1>1, <1>3, <1>4

(* Nothing filtered is nothing.                                            *)
LEMMA OnlyOfNone == ASSUME NEW kinds PROVE Framed!Only(kinds, <<>>) = <<>>
<1>1. PICK f : Filters(f, Len(<<>>), kinds, <<>>) /\ Framed!Only(kinds, <<>>) = f[Len(<<>>)]
  BY OnlyIs
<1> QED
  BY <1>1 DEF Filters

(* A frame more is itself, or nothing.                                     *)
LEMMA OnlyOneMore ==
  ASSUME NEW kinds, NEW S, NEW s \in Seq(S), NEW x \in S
  PROVE  Framed!Only(kinds, Append(s, x)) =
           IF x.kind \in kinds THEN Append(Framed!Only(kinds, s), x) ELSE Framed!Only(kinds, s)
<1> DEFINE t == Append(s, x)
           m == Len(s)
<1>1. m \in Nat /\ Len(t) = m + 1 /\ t[m + 1] = x /\ \A i \in 1..m : s[i] = t[i]
  OBVIOUS
<1> HIDE DEF t
<1>2. PICK f : Filters(f, m, kinds, s) /\ Framed!Only(kinds, s) = f[m]
  BY <1>1, OnlyIs
<1>3. PICK g : Filters(g, m + 1, kinds, t) /\ Framed!Only(kinds, t) = g[m + 1]
  BY <1>1, OnlyIs
<1>4. m <= m + 1 /\ m \in 0..m /\ m + 1 \in Nat
  BY <1>1
<1>5. f[m] = g[m]
  BY <1>1, <1>2, <1>3, <1>4, FiltersAgree
<1>6. g[m + 1] = IF t[m + 1].kind \in kinds THEN Append(g[m], t[m + 1]) ELSE g[m]
  <2> DEFINE k == m + 1
  <2>1. k \in 0..k /\ k # 0 /\ k - 1 = m
    BY <1>1
  <2>2. Filters(g, k, kinds, t)
    BY <1>3
  <2> HIDE DEF k
  <2>3. g[k] = IF t[k].kind \in kinds THEN Append(g[k - 1], t[k]) ELSE g[k - 1]
    BY <2>1, <2>2 DEF Filters
  <2>4. g[k] = IF t[k].kind \in kinds THEN Append(g[m], t[k]) ELSE g[m]
    BY <2>1, <2>3, Zenon
  <2> QED
    BY <2>4 DEF k
<1> QED
  BY <1>1, <1>2, <1>3, <1>5, <1>6, Zenon DEF t

(* s begins t.                                                             *)
Begins(s, t) == Len(s) <= Len(t) /\ \A i \in 1..Len(s) : s[i] = t[i]

(* To begin a sequence is to be a prefix of it.                            *)
LEMMA PrefixIs ==
  ASSUME NEW S, NEW s \in Seq(S), NEW t \in Seq(S), Begins(s, t)
  PROVE  Framed!IsPrefix(s, t)
<1> DEFINE p == SubSeq(s, 1, Len(s))
           q == SubSeq(t, 1, Len(s))
<1>1. Len(s) \in Nat /\ Len(t) \in Nat /\ Len(s) <= Len(t) /\ \A i \in 1..Len(s) : s[i] = t[i]
  BY LenProperties DEF Begins
<1>2. p = s
  BY SubSeqFull
<1>3. \A i \in 1..Len(s) : t[i] \in S
  BY <1>1, ElementOfSeq
<1>4. Len(s) \in Int /\ 1 \in Int
  BY <1>1
<1>5. q \in Seq(S) /\ Len(q) = (IF 1 <= Len(s) THEN Len(s) - 1 + 1 ELSE 0)
      /\ \A i \in 1..(Len(s) - 1 + 1) : q[i] = t[1 + i - 1]
  BY <1>3, <1>4, SubSeqProperties
<1>6. Len(q) = Len(s) /\ \A i \in 1..Len(s) : q[i] = t[i]
  BY <1>1, <1>5
<1> HIDE DEF p, q
<1>7. p = q
  BY <1>1, <1>2, <1>5, <1>6, SeqEqual
<1> QED
  BY <1>1, <1>7 DEF Framed!IsPrefix, p, q

(* What begins a sequence begins it with one more, too.                    *)
LEMMA BeginsMore ==
  ASSUME NEW S, NEW u \in Seq(S), NEW v \in Seq(S), NEW x \in S, Begins(u, v)
  PROVE  Append(v, x) \in Seq(S) /\ Begins(u, Append(v, x))
<1>1. /\ Append(v, x) \in Seq(S) /\ Len(Append(v, x)) = Len(v) + 1 /\ Len(v) \in Nat /\ Len(u) \in Nat
      /\ \A i \in 1..Len(v) : Append(v, x)[i] = v[i]
  BY AppendProperties, LenProperties
<1>2. Len(u) <= Len(v) /\ \A i \in 1..Len(u) : u[i] = v[i]
  BY DEF Begins
<1>3. \A i \in 1..Len(u) : i \in 1..Len(v)
  BY <1>1, <1>2
<1>4. Len(u) <= Len(Append(v, x))
  BY <1>1, <1>2
<1> QED
  BY <1>1, <1>2, <1>3, <1>4, Zenon DEF Begins

(* A sequence and what follows it begin what they do, and so does less of  *)
(* what follows.                                                           *)
LEMMA BeginsCut ==
  ASSUME NEW S, NEW s \in Seq(S), NEW t \in Seq(S), NEW u \in Seq(S),
         Begins(s \o t, u), NEW k \in 0..Len(t)
  PROVE  /\ SubSeq(t, 1, k) \in Seq(S) /\ Begins(s \o SubSeq(t, 1, k), u)
         /\ Begins(s, u)
<1> DEFINE c == SubSeq(t, 1, k)
<1>1. Len(s) \in Nat /\ Len(t) \in Nat /\ Len(u) \in Nat /\ k \in Nat /\ k <= Len(t)
  BY LenProperties
<1>2. \A i \in 1..k : t[i] \in S
  BY <1>1, ElementOfSeq
<1>3. k \in Int /\ 1 \in Int
  BY <1>1
<1>4. c \in Seq(S) /\ Len(c) = (IF 1 <= k THEN k - 1 + 1 ELSE 0)
      /\ \A i \in 1..(k - 1 + 1) : c[i] = t[1 + i - 1]
  BY <1>2, <1>3, SubSeqProperties
<1>5. Len(c) = k /\ \A i \in 1..k : c[i] = t[i]
  BY <1>1, <1>4
<1> HIDE DEF c
<1>6. /\ Len(s \o t) = Len(s) + Len(t)
      /\ \A i \in 1..(Len(s) + Len(t)) : (s \o t)[i] = IF i <= Len(s) THEN s[i] ELSE t[i - Len(s)]
  BY ConcatProperties
<1>7. /\ Len(s \o c) = Len(s) + k
      /\ \A i \in 1..(Len(s) + k) : (s \o c)[i] = IF i <= Len(s) THEN s[i] ELSE c[i - Len(s)]
  BY <1>4, <1>5, ConcatProperties
<1>8. Len(s) + Len(t) <= Len(u) /\ \A i \in 1..(Len(s) + Len(t)) : (s \o t)[i] = u[i]
  BY <1>6 DEF Begins
<1>9. Len(s) <= Len(u) /\ Len(s) + k <= Len(u)
  BY <1>1, <1>8
<1>10. ASSUME NEW i \in 1..Len(s) PROVE s[i] = u[i]
  <2>1. i \in 1..(Len(s) + Len(t)) /\ i <= Len(s)
    BY <1>1
  <2> QED
    BY <1>6, <1>8, <2>1, Zenon
<1>11. ASSUME NEW i \in 1..(Len(s) + k) PROVE (s \o c)[i] = u[i]
  <2>1. CASE i <= Len(s)
    <3>1. i \in 1..Len(s)
      BY <1>1, <2>1
    <3> QED
      BY <1>7, <1>10, <2>1, <3>1, Zenon
  <2>2. CASE ~(i <= Len(s))
    <3>1. i - Len(s) \in 1..k /\ i \in 1..(Len(s) + Len(t))
      BY <1>1, <2>2
    <3> QED
      BY <1>5, <1>6, <1>7, <1>8, <2>2, <3>1, Zenon
  <2> QED
    BY <2>1, <2>2
<1> QED
  BY <1>4, <1>7, <1>9, <1>10, <1>11, Zenon DEF Begins, c

(* Taking one off what follows and on to what is before.                   *)
LEMMA HandOver ==
  ASSUME NEW S, NEW s \in Seq(S), NEW t \in Seq(S), t # <<>>
  PROVE  /\ Head(t) \in S /\ Tail(t) \in Seq(S) /\ Append(s, Head(t)) \in Seq(S)
         /\ Append(s, Head(t)) \o Tail(t) = s \o t
<1> DEFINE h == Head(t)
           w == Tail(t)
           a == Append(s, h)
<1>1. h \in S /\ w \in Seq(S) /\ Len(w) = Len(t) - 1 /\ \A i \in 1..Len(w) : w[i] = t[i + 1]
  BY HeadTailProperties
<1>2. h = t[1]
  OBVIOUS
<1> HIDE DEF h, w
<1>3. a \in Seq(S) /\ Len(a) = Len(s) + 1 /\ a[Len(s) + 1] = h /\ \A i \in 1..Len(s) : a[i] = s[i]
  BY <1>1, AppendProperties
<1> HIDE DEF a
<1>4. Len(s) \in Nat /\ Len(t) \in Nat
  BY LenProperties
<1>5. /\ s \o t \in Seq(S) /\ Len(s \o t) = Len(s) + Len(t)
      /\ \A i \in 1..(Len(s) + Len(t)) : (s \o t)[i] = IF i <= Len(s) THEN s[i] ELSE t[i - Len(s)]
  BY ConcatProperties
<1>6. /\ a \o w \in Seq(S) /\ Len(a \o w) = Len(a) + Len(w)
      /\ \A i \in 1..(Len(a) + Len(w)) : (a \o w)[i] = IF i <= Len(a) THEN a[i] ELSE w[i - Len(a)]
  BY <1>1, <1>3, ConcatProperties
<1>7. Len(a) + Len(w) = Len(s) + Len(t)
  BY <1>1, <1>3, <1>4
<1>8. ASSUME NEW i \in 1..(Len(s) + Len(t)) PROVE (a \o w)[i] = (s \o t)[i]
  <2>1. CASE i <= Len(s)
    <3>1. i \in 1..Len(s) /\ i <= Len(a)
      BY <1>3, <1>4, <2>1
    <3>2. (s \o t)[i] = s[i] /\ (a \o w)[i] = a[i]
      BY <1>5, <1>6, <1>7, <2>1, <3>1, Zenon
    <3> QED
      BY <1>3, <3>1, <3>2, Zenon
  <2>2. CASE i = Len(s) + 1
    <3>1. ~(i <= Len(s)) /\ i <= Len(a) /\ i - Len(s) = 1
      BY <1>3, <1>4, <2>2
    <3>2. (s \o t)[i] = t[1] /\ (a \o w)[i] = a[i]
      BY <1>5, <1>6, <1>7, <3>1, Zenon
    <3> QED
      BY <1>2, <1>3, <2>2, <3>2, Zenon
  <2>3. CASE i > Len(s) + 1
    <3> DEFINE j == i - Len(a)
    <3>1. ~(i <= Len(s)) /\ ~(i <= Len(a)) /\ j \in 1..Len(w) /\ i - Len(s) = j + 1
      BY <1>1, <1>3, <1>4, <2>3
    <3>2. (s \o t)[i] = t[i - Len(s)] /\ (a \o w)[i] = w[j]
      BY <1>5, <1>6, <1>7, <3>1, Zenon
    <3> HIDE DEF j
    <3>3. w[j] = t[j + 1]
      BY <1>1, <3>1, Zenon
    <3> QED
      BY <3>1, <3>2, <3>3, Zenon
  <2>4. i <= Len(s) \/ i = Len(s) + 1 \/ i > Len(s) + 1
    BY <1>4
  <2> QED
    BY <2>1, <2>2, <2>3, <2>4, Zenon
<1>9. a \o w = s \o t
  BY <1>5, <1>6, <1>7, <1>8, SeqEqual
<1> QED
  BY <1>1, <1>3, <1>9 DEF a, h, w

(* One more at the end of what follows.                                    *)
LEMMA OneBehind ==
  ASSUME NEW S, NEW s \in Seq(S), NEW t \in Seq(S), NEW x \in S
  PROVE  s \o Append(t, x) = Append(s \o t, x) /\ s \o t \in Seq(S)
<1>1. Append(t, x) = t \o <<x>> /\ <<x>> \in Seq(S)
  BY AppendIsConcat
<1>2. s \o t \in Seq(S)
  BY ConcatProperties
<1>3. Append(s \o t, x) = (s \o t) \o <<x>>
  BY <1>2, AppendIsConcat
<1>4. (s \o t) \o <<x>> = s \o (t \o <<x>>)
  BY <1>1, ConcatAssociative
<1> QED
  BY <1>1, <1>2, <1>3, <1>4

(* What is filtered is a sequence of frames, and grows with what it is of. *)
LEMMA FiltersGrow ==
  ASSUME NEW kinds, NEW S, NEW s \in Seq(S), NEW f, Filters(f, Len(s), kinds, s)
  PROVE  \A i, j \in 0..Len(s) : i <= j => f[i] \in Seq(S) /\ f[j] \in Seq(S) /\ Begins(f[i], f[j])
<1> DEFINE m == Len(s)
           R(i, j) == f[i] \in Seq(S) /\ f[j] \in Seq(S) /\ Begins(f[i], f[j])
           T == {j \in Nat : j <= m => \A i \in 0..j : R(i, j)}
<1>1. m \in Nat /\ \A i \in 1..m : s[i] \in S
  BY ElementOfSeq, LenProperties
<1>2. \A u \in Seq(S) : Begins(u, u)
  BY DEF Begins
<1>3. \A u \in Seq(S), v \in Seq(S), x \in S :
        Begins(u, v) => Append(v, x) \in Seq(S) /\ Begins(u, Append(v, x))
  BY BeginsMore
<1>4. 0 \in T
  <2>1. f[0] = <<>>
    BY <1>1 DEF Filters
  <2>2. <<>> \in Seq(S)
    OBVIOUS
  <2>3. \A i \in 0..0 : i = 0
    OBVIOUS
  <2> QED
    BY <1>2, <2>1, <2>2, <2>3
<1>5. ASSUME NEW j \in Nat, j \in T PROVE j + 1 \in T
  <2> SUFFICES ASSUME j + 1 <= m, NEW i \in 0..(j + 1) PROVE R(i, j + 1)
    OBVIOUS
  <2> DEFINE k == j + 1
  <2>1. k \in 0..m /\ k \in 1..m /\ k # 0 /\ k - 1 = j /\ j \in 0..j /\ j <= m
    BY <1>1
  <2>2. \A h \in 0..j : R(h, j)
    BY <1>5, <2>1
  <2> HIDE DEF k
  <2>3. f[k] = IF s[k].kind \in kinds THEN Append(f[j], s[k]) ELSE f[j]
    BY <2>1 DEF Filters
  <2>4. s[k] \in S
    BY <1>1, <2>1
  <2>5. f[j] \in Seq(S)
    BY <2>1, <2>2
  <2>6. ASSUME NEW h \in 0..j PROVE R(h, k)
    BY <1>3, <2>2, <2>3, <2>4, Zenon
  <2>7. f[k] \in Seq(S)
    BY <2>1, <2>6
  <2>8. CASE i \in 0..j
    BY <2>6, <2>8 DEF k
  <2>9. CASE i = k
    BY <1>2, <2>7, <2>9 DEF k
  <2> QED
    BY <2>8, <2>9 DEF k
<1> HIDE DEF T
<1>6. \A j \in Nat : j \in T
  BY <1>4, <1>5, Induct
<1>7. ASSUME NEW i \in 0..m, NEW j \in 0..m, i <= j PROVE R(i, j)
  <2>1. j \in Nat /\ j <= m /\ i \in 0..j
    BY <1>1, <1>7
  <2>2. j \in T
    BY <1>6, <2>1
  <2> QED
    BY <2>1, <2>2 DEF T
<1> QED
  BY <1>7

(* What is filtered of the beginning begins what is filtered.              *)
LEMMA OnlyBegins ==
  ASSUME NEW kinds, NEW S, NEW s \in Seq(S), NEW t \in Seq(S), Begins(s, t)
  PROVE  /\ Framed!Only(kinds, s) \in Seq(S) /\ Framed!Only(kinds, t) \in Seq(S)
         /\ Begins(Framed!Only(kinds, s), Framed!Only(kinds, t))
<1>1. Len(s) \in Nat /\ Len(t) \in Nat /\ Len(s) <= Len(t) /\ \A i \in 1..Len(s) : s[i] = t[i]
  BY LenProperties DEF Begins
<1>2. PICK f : Filters(f, Len(s), kinds, s) /\ Framed!Only(kinds, s) = f[Len(s)]
  BY <1>1, OnlyIs
<1>3. PICK g : Filters(g, Len(t), kinds, t) /\ Framed!Only(kinds, t) = g[Len(t)]
  BY <1>1, OnlyIs
<1>4. Len(s) \in 0..Len(s) /\ Len(s) \in 0..Len(t) /\ Len(t) \in 0..Len(t)
  BY <1>1
<1>5. f[Len(s)] = g[Len(s)]
  BY <1>1, <1>2, <1>3, <1>4, FiltersAgree
<1>6. /\ g[Len(s)] \in Seq(S) /\ g[Len(t)] \in Seq(S) /\ Begins(g[Len(s)], g[Len(t)])
  BY <1>1, <1>3, <1>4, FiltersGrow
<1> QED
  BY <1>2, <1>3, <1>5, <1>6
(* The variables' types.                                                   *)
AFrame == [kind : Framed!Kinds, n : Nat, size : Nat]
Unanswered == Framed!Kinds \ {"pong"}

FrameTyped ==
  /\ text \in BOOLEAN /\ dropped \in BOOLEAN /\ sent \in Seq(AFrame) /\ inbox \in Seq(AFrame)
  /\ outbox \in Seq(AFrame) /\ heard \in Seq(AFrame) /\ got \in Seq(AFrame)
  /\ owed \in Nat /\ handed \in Nat

(* What was taken in so far begins what the peer sent, and what is on its  *)
(* way follows; recv has returned the messages of it, none larger than its *)
(* buffer.                                                                 *)
Incoming ==
  /\ Begins(got, Framed!Only(Framed!Messages, sent))
  /\ \A i \in 1..Len(got) : got[i].size <= Buffer
  /\ reader \in {"reading", "waits", "flushing"} =>
       \E past \in Seq(AFrame) :
         /\ got = Framed!Only(Framed!Messages, past)
         /\ Begins(past \o inbox, sent) /\ (~gone => past \o inbox = sent)

(* What the peer heard or will, but for pongs, is what send was handed,    *)
(* and a close after it.                                                   *)
Outgoing ==
  LET out == Framed!Only(Unanswered, heard \o outbox)
  IN  /\ \A i \in 1..Len(out) : IF out[i].kind = "close" THEN i = Len(out) ELSE out[i].n = i
      /\ writer # "closed" => \A i \in 1..Len(out) : out[i].kind # "close"
      /\ writer = "idle" => Len(out) = handed
      /\ writer \in {"waits", "sending"} =>
           /\ message \in AFrame /\ message.kind # "pong"
           /\ IF message.kind = "close" THEN Len(out) = handed
              ELSE Len(out) + 1 = handed /\ message.n = handed

(* While the connection lasts, a reader that owes a pong is about it, or   *)
(* was before a tick.                                                      *)
Owing == ~gone /\ owed > 0 => reader \in {"waits", "flushing"} \/ (ticks /\ dropped)

FrameIInv == FrameTyped /\ Incoming /\ Outgoing /\ Owing

(* Nothing is on its way yet.                                              *)
LEMMA FrameInit == Framed!Init => FrameIInv
<1> SUFFICES ASSUME Framed!Init PROVE FrameIInv
  OBVIOUS
<1>1. /\ text \in BOOLEAN /\ dropped \in BOOLEAN /\ inbox = <<>> /\ outbox = <<>> /\ sent = <<>> /\ got = <<>>
      /\ owed = 0 /\ handed = 0 /\ heard = <<>> /\ writer \in {"idle", "refused"}
  BY DEF Framed!Init
<1>2. <<>> \in Seq(AFrame) /\ <<>> \o <<>> = <<>>
  BY EmptySeq, ConcatEmptySeq, Zenon
<1>3. FrameTyped
  BY <1>1, <1>2 DEF FrameTyped
<1>4. Begins(<<>>, <<>>)
  BY DEF Begins
<1>5. Framed!Only(Framed!Messages, <<>>) = <<>> /\ Framed!Only(Unanswered, <<>>) = <<>>
  BY OnlyOfNone
<1>6. \A i \in 1..Len(got) : FALSE
  BY <1>1
<1>7. Incoming
  BY <1>1, <1>2, <1>4, <1>5, <1>6, Zenon DEF Incoming
<1>8. \A i \in 1..Len(Framed!Only(Unanswered, heard \o outbox)) : FALSE
  BY <1>1, <1>2, <1>5
<1>9. Len(Framed!Only(Unanswered, heard \o outbox)) = handed
  BY <1>1, <1>2, <1>5
<1>10. writer \notin {"waits", "sending"}
  BY <1>1
<1>11. Outgoing
  BY <1>8, <1>9, <1>10, Zenon DEF Outgoing
<1>12. Owing
  BY <1>1 DEF Owing
<1> QED
  BY <1>3, <1>7, <1>11, <1>12 DEF FrameIInv

(* A reader that is still at it, and reads what it did.                    *)
Live == {"reading", "waits", "flushing"}

(* What recv takes in is as it was when neither it nor the peer moves.     *)
LEMMA IncomingStays ==
  ASSUME Incoming, UNCHANGED <<got, sent, inbox, gone>>, reader' \in Live => reader \in Live
  PROVE  Incoming'
<1>1. got' = got /\ sent' = sent /\ inbox' = inbox /\ gone' = gone
  OBVIOUS
<1>2. Begins(got', Framed!Only(Framed!Messages, sent')) /\ \A i \in 1..Len(got') : got'[i].size <= Buffer
  BY <1>1, Zenon DEF Incoming
<1>3. ASSUME reader' \in Live
      PROVE  \E past \in Seq(AFrame) :
               /\ got' = Framed!Only(Framed!Messages, past)
               /\ Begins(past \o inbox', sent') /\ (~gone' => past \o inbox' = sent')
  <2>1. PICK past \in Seq(AFrame) :
          /\ got = Framed!Only(Framed!Messages, past)
          /\ Begins(past \o inbox, sent) /\ (~gone => past \o inbox = sent)
    BY <1>3, Zenon DEF Incoming, Live
  <2> QED
    BY <1>1, <2>1
<1> QED
  BY <1>2, <1>3, Zenon DEF Incoming, Live

(* What the peer hears is as it was when what is on its way is.            *)
LEMMA OutgoingStays ==
  ASSUME Outgoing, UNCHANGED <<writer, message, handed>>,
         Framed!Only(Unanswered, heard' \o outbox') = Framed!Only(Unanswered, heard \o outbox)
  PROVE  Outgoing'
<1>1. writer' = writer /\ message' = message /\ handed' = handed
  OBVIOUS
<1> QED
  BY <1>1, Zenon DEF Outgoing

(* The peer sends, which is behind all that is on its way.                 *)
LEMMA PeerSendsKeeps == ASSUME FrameIInv, Framed!PeerSends PROVE FrameIInv'
<1>1. PICK kind \in Framed!Kinds, size \in 0..(Buffer + 1) :
        /\ inbox' = Append(inbox, Framed!Frame(kind, Len(sent) + 1, size))
        /\ sent' = Append(sent, Framed!Frame(kind, Len(sent) + 1, size))
  BY DEF Framed!PeerSends
<1> DEFINE x == Framed!Frame(kind, Len(sent) + 1, size)
<1>2. ~gone /\ UNCHANGED <<text, ticks, dropped, outbox, reader, got, owed, writer, message, handed, heard>>
  BY DEF Framed!PeerSends
<1>3. FrameTyped /\ Incoming /\ Outgoing /\ Owing
  BY DEF FrameIInv
<1>4. sent \in Seq(AFrame) /\ inbox \in Seq(AFrame) /\ got \in Seq(AFrame)
  BY <1>3 DEF FrameTyped
<1>5. x \in AFrame
  <2>1. Len(sent) + 1 \in Nat
    BY <1>4, LenProperties
  <2>2. size \in Nat
    BY LayeringAssumption DEF LayeringAssumption
  <2> QED
    BY <2>1, <2>2 DEF AFrame, Framed!Frame
<1> HIDE DEF x
<1>6. inbox' = Append(inbox, x) /\ sent' = Append(sent, x)
  BY <1>1 DEF x
<1>7. inbox' \in Seq(AFrame) /\ sent' \in Seq(AFrame)
  BY <1>4, <1>5, <1>6, AppendProperties
<1>8. FrameTyped'
  BY <1>2, <1>3, <1>7 DEF FrameTyped
<1>9. Begins(got, Framed!Only(Framed!Messages, sent'))
  <2>1. Framed!Only(Framed!Messages, sent) \in Seq(AFrame)
        /\ Begins(got, Framed!Only(Framed!Messages, sent))
    <3>1. Begins(sent, sent)
      BY DEF Begins
    <3> QED
      BY <1>3, <1>4, <3>1, OnlyBegins DEF Incoming
  <2>2. \/ Framed!Only(Framed!Messages, sent') = Framed!Only(Framed!Messages, sent)
        \/ Framed!Only(Framed!Messages, sent') = Append(Framed!Only(Framed!Messages, sent), x)
    BY <1>4, <1>5, <1>6, OnlyOneMore
  <2>3. Begins(got, Append(Framed!Only(Framed!Messages, sent), x))
    BY <1>4, <1>5, <2>1, BeginsMore
  <2> QED
    BY <2>1, <2>2, <2>3, Zenon
<1>10. ASSUME reader \in Live
       PROVE  \E past \in Seq(AFrame) :
                /\ got = Framed!Only(Framed!Messages, past)
                /\ Begins(past \o inbox', sent') /\ (~gone' => past \o inbox' = sent')
  <2>1. PICK past \in Seq(AFrame) :
          got = Framed!Only(Framed!Messages, past) /\ past \o inbox = sent
    BY <1>2, <1>3, <1>10, Zenon DEF Incoming, Live
  <2>2. past \o inbox' = sent'
    BY <1>4, <1>5, <1>6, <2>1, OneBehind
  <2>3. Begins(sent', sent')
    BY <1>7, LenProperties DEF Begins
  <2> QED
    BY <2>1, <2>2, <2>3, Zenon
<1>11. Incoming'
  BY <1>2, <1>3, <1>9, <1>10, Zenon DEF Incoming, Live
<1>12. Outgoing'
  BY <1>2, <1>3, OutgoingStays
<1>13. Owing'
  BY <1>2, <1>3 DEF Owing
<1> QED
  BY <1>8, <1>11, <1>12, <1>13 DEF FrameIInv

(* The peer reads the first of what is on its way to it.                   *)
LEMMA PeerReadsKeeps == ASSUME FrameIInv, Framed!PeerReads PROVE FrameIInv'
<1>1. /\ outbox # <<>> /\ heard' = Append(heard, Head(outbox)) /\ outbox' = Tail(outbox)
      /\ UNCHANGED <<text, ticks, dropped, inbox, sent, gone, reader, got, owed, writer, message, handed>>
  BY DEF Framed!PeerReads
<1>2. FrameTyped /\ Incoming /\ Outgoing /\ Owing
  BY DEF FrameIInv
<1>3. outbox \in Seq(AFrame) /\ heard \in Seq(AFrame)
  BY <1>2 DEF FrameTyped
<1>4. outbox' \in Seq(AFrame) /\ heard' \in Seq(AFrame) /\ heard' \o outbox' = heard \o outbox
  BY <1>1, <1>3, HandOver
<1>5. FrameTyped'
  BY <1>1, <1>2, <1>4 DEF FrameTyped
<1>6. Incoming'
  BY <1>1, <1>2, IncomingStays
<1>7. Outgoing'
  BY <1>1, <1>2, <1>4, OutgoingStays
<1>8. Owing'
  BY <1>1, <1>2 DEF Owing
<1> QED
  BY <1>5, <1>6, <1>7, <1>8 DEF FrameIInv

(* The connection breaks, and what is read yet is the first of what was    *)
(* sent.                                                                   *)
LEMMA BreaksKeeps == ASSUME FrameIInv, Framed!Breaks PROVE FrameIInv'
<1>1. PICK k \in 0..Len(inbox) : inbox' = SubSeq(inbox, 1, k)
  BY DEF Framed!Breaks
<1>2. gone' /\ UNCHANGED <<text, ticks, dropped, outbox, sent, reader, got, owed, writer, message, handed, heard>>
  BY DEF Framed!Breaks
<1>3. FrameTyped /\ Incoming /\ Outgoing /\ Owing
  BY DEF FrameIInv
<1>4. inbox \in Seq(AFrame) /\ sent \in Seq(AFrame)
  BY <1>3 DEF FrameTyped
<1>5. inbox' \in Seq(AFrame)
  <2>1. \A i \in 1..k : inbox[i] \in AFrame
    <3>1. \A i \in 1..k : i \in 1..Len(inbox)
      BY <1>4, LenProperties
    <3> QED
      BY <1>4, <3>1, ElementOfSeq
  <2>2. k \in Int /\ 1 \in Int
    OBVIOUS
  <2> QED
    BY <1>1, <2>1, <2>2, SubSeqProperties
<1>6. FrameTyped'
  BY <1>2, <1>3, <1>5 DEF FrameTyped
<1>7. ASSUME reader \in Live
      PROVE  \E past \in Seq(AFrame) :
               got = Framed!Only(Framed!Messages, past) /\ Begins(past \o inbox', sent)
  <2>1. PICK past \in Seq(AFrame) :
          got = Framed!Only(Framed!Messages, past) /\ Begins(past \o inbox, sent)
    BY <1>3, <1>7, Zenon DEF Incoming, Live
  <2>2. Begins(past \o inbox', sent)
    BY <1>1, <1>4, <2>1, BeginsCut
  <2> QED
    BY <2>1, <2>2
<1>8. Incoming'
  BY <1>2, <1>3, <1>7, Zenon DEF Incoming, Live
<1>9. Outgoing'
  BY <1>2, <1>3, OutgoingStays
<1>10. Owing'
  BY <1>2 DEF Owing
<1> QED
  BY <1>6, <1>8, <1>9, <1>10 DEF FrameIInv

(* recv takes a frame in: a message is handed on, unless it is too large,  *)
(* and a ping has to be answered.                                          *)
LEMMA RecvKeeps == ASSUME FrameIInv, Framed!recv PROVE FrameIInv'
<1> DEFINE frame == Head(inbox)
<1>1. /\ reader = "reading" /\ inbox # <<>> /\ inbox' = Tail(inbox)
      /\ UNCHANGED <<text, ticks, dropped, outbox, sent, gone, writer, message, handed, heard>>
  BY DEF Framed!recv
<1>2. owed' = owed + IF frame.kind = "ping" THEN 1 ELSE 0
  BY DEF Framed!recv
<1>3. \/ /\ frame.kind \notin Framed!Messages /\ reader' = Framed!after(frame.kind) /\ got' = got
      \/ frame.kind \in Framed!Messages /\ frame.size > Buffer /\ reader' = "error" /\ got' = got
      \/ /\ frame.kind \in Framed!Messages /\ ~(frame.size > Buffer)
         /\ got' = Append(got, frame) /\ reader' = reader
  BY DEF Framed!recv
<1> HIDE DEF frame
<1>4. FrameTyped /\ Incoming /\ Outgoing /\ Owing
  BY DEF FrameIInv
<1>5. /\ inbox \in Seq(AFrame) /\ sent \in Seq(AFrame) /\ got \in Seq(AFrame) /\ owed \in Nat
  BY <1>4 DEF FrameTyped
<1>6. frame \in AFrame /\ inbox' \in Seq(AFrame)
  BY <1>1, <1>5, HeadTailProperties DEF frame
<1>7. frame.kind \in Framed!Kinds /\ frame.size \in Nat
  BY <1>6 DEF AFrame
<1>8. PICK past \in Seq(AFrame) :
        /\ got = Framed!Only(Framed!Messages, past)
        /\ Begins(past \o inbox, sent) /\ (~gone => past \o inbox = sent)
  BY <1>1, <1>4, Zenon DEF Incoming
<1> DEFINE more == Append(past, frame)
<1>9. more \in Seq(AFrame) /\ more \o inbox' = past \o inbox
  BY <1>1, <1>5, HandOver DEF frame
<1>10. Framed!Only(Framed!Messages, more) =
         IF frame.kind \in Framed!Messages THEN Append(got, frame) ELSE got
  BY <1>6, <1>8, OnlyOneMore
<1> HIDE DEF more
<1>11. /\ Framed!Only(Framed!Messages, more) \in Seq(AFrame)
       /\ Begins(Framed!Only(Framed!Messages, more), Framed!Only(Framed!Messages, sent))
  <2>1. Begins(more \o inbox', sent)
    BY <1>8, <1>9
  <2>2. 0 \in 0..Len(inbox')
    BY <1>6, LenProperties
  <2>3. Begins(more, sent)
    BY <1>5, <1>6, <1>9, <2>1, <2>2, BeginsCut
  <2> QED
    BY <1>5, <1>9, <2>3, OnlyBegins
<1>12. /\ got' \in Seq(AFrame) /\ Begins(got', Framed!Only(Framed!Messages, sent))
       /\ \A i \in 1..Len(got') : got'[i].size <= Buffer
  <2>1. CASE got' = got
    BY <1>4, <1>5, <2>1 DEF Incoming
  <2>2. CASE /\ frame.kind \in Framed!Messages /\ ~(frame.size > Buffer)
             /\ got' = Append(got, frame)
    <3>1. got' = Framed!Only(Framed!Messages, more)
      BY <1>10, <2>2
    <3>2. /\ Len(got') = Len(got) + 1 /\ got'[Len(got) + 1] = frame
          /\ \A i \in 1..Len(got) : got'[i] = got[i]
      BY <1>5, <1>6, <2>2, AppendProperties
    <3>3. frame.size <= Buffer
      BY <1>7, <2>2, LayeringAssumption DEF LayeringAssumption
    <3>4. \A i \in 1..(Len(got) + 1) : i \in 1..Len(got) \/ i = Len(got) + 1
      BY <1>5, LenProperties
    <3>5. \A i \in 1..Len(got) : got[i].size <= Buffer
      BY <1>4 DEF Incoming
    <3>6. \A i \in 1..Len(got') : got'[i].size <= Buffer
      BY <3>2, <3>3, <3>4, <3>5, Zenon
    <3> QED
      BY <1>11, <3>1, <3>6
  <2> QED
    BY <1>3, <2>1, <2>2
<1>13. owed' \in Nat
  BY <1>2, <1>5
<1>14. FrameTyped'
  BY <1>1, <1>4, <1>6, <1>12, <1>13 DEF FrameTyped
<1>15. reader' \in Live => got' = Framed!Only(Framed!Messages, more)
  BY <1>3, <1>10 DEF Live
<1>16. Begins(more \o inbox', sent) /\ (~gone => more \o inbox' = sent)
  BY <1>8, <1>9
<1>17. Incoming'
  BY <1>1, <1>9, <1>12, <1>15, <1>16, Zenon DEF Incoming, Live
<1>18. Outgoing'
  BY <1>1, <1>4, OutgoingStays
<1>19. Owing'
  <2> SUFFICES ASSUME ~gone', owed' > 0, ~(ticks /\ dropped)
               PROVE  reader' \in Live /\ reader' # "reading"
    BY <1>1 DEF Owing, Live
  <2>1. ~(owed > 0)
    BY <1>1, <1>4 DEF Owing
  <2>2. frame.kind = "ping"
    BY <1>2, <1>5, <2>1
  <2>3. reader' = "waits"
    BY <1>3, <2>2 DEF Framed!after, Framed!Messages
  <2> QED
    BY <2>3 DEF Live
<1> QED
  BY <1>14, <1>17, <1>18, <1>19 DEF FrameIInv

(* recv finds the connection over, or has writer, or has flushed.          *)
LEMMA ReaderKeeps ==
  ASSUME FrameIInv, Framed!RecvEnds \/ Framed!ReaderLocks \/ Framed!ReaderUnlocks
  PROVE  FrameIInv'
<1>1. UNCHANGED <<text, ticks, dropped, inbox, outbox, sent, gone, got, owed, writer, message, handed, heard>>
  BY DEF Framed!RecvEnds, Framed!ReaderLocks, Framed!ReaderUnlocks
<1>2. \/ reader = "reading" /\ gone /\ reader' \in {"eof", "error"}
      \/ reader = "waits" /\ reader' = "flushing"
      \/ reader = "flushing" /\ (owed = 0 \/ gone) /\ reader' = "reading"
  BY DEF Framed!RecvEnds, Framed!ReaderLocks, Framed!ReaderUnlocks
<1>3. FrameTyped /\ Incoming /\ Outgoing /\ Owing
  BY DEF FrameIInv
<1>4. FrameTyped'
  BY <1>1, <1>3 DEF FrameTyped
<1>5. reader' \in Live => reader \in Live
  BY <1>2 DEF Live
<1>6. Incoming'
  BY <1>1, <1>3, <1>5, IncomingStays
<1>7. Outgoing'
  BY <1>1, <1>3, OutgoingStays
<1>8. Owing'
  <2>1. CASE gone
    BY <1>1, <2>1 DEF Owing
  <2>2. CASE owed = 0
    BY <1>1, <2>2 DEF Owing
  <2>3. CASE ~gone /\ owed # 0
    <3>1. owed \in Nat
      BY <1>3 DEF FrameTyped
    <3>2. reader \in {"waits", "flushing"} \/ (ticks /\ dropped)
      BY <1>3, <2>3, <3>1 DEF Owing
    <3>3. reader' \in {"waits", "flushing"} \/ (ticks' /\ dropped')
      BY <1>1, <1>2, <2>3, <3>2
    <3> QED
      BY <3>3 DEF Owing
  <2> QED
    BY <2>1, <2>2, <2>3
<1> QED
  BY <1>4, <1>6, <1>7, <1>8 DEF FrameIInv

(* A tick drops recv where it waits, and a pong that is owed with it.      *)
LEMMA DroppedKeeps == ASSUME FrameIInv, Framed!ReadDropped PROVE FrameIInv'
<1>1. /\ ticks /\ reader \in {"waits", "flushing"} /\ reader' = "reading"
      /\ dropped' = (owed > 0)
      /\ UNCHANGED <<text, ticks, inbox, outbox, sent, gone, got, owed, writer, message, handed,
                    heard>>
  BY DEF Framed!ReadDropped
<1>2. FrameTyped /\ Incoming /\ Outgoing /\ Owing
  BY DEF FrameIInv
<1>3. FrameTyped'
  BY <1>1, <1>2 DEF FrameTyped
<1>4. reader' \in Live => reader \in Live
  BY <1>1 DEF Live
<1>5. Incoming'
  BY <1>1, <1>2, <1>4, IncomingStays
<1>6. Outgoing'
  BY <1>1, <1>2, OutgoingStays
<1>7. Owing'
  BY <1>1 DEF Owing
<1> QED
  BY <1>3, <1>5, <1>6, <1>7 DEF FrameIInv

(* A pong is on its way, which is no answer of the pipeline's.             *)
LEMMA FlushesKeeps == ASSUME FrameIInv, Framed!Flushes PROVE FrameIInv'
<1> DEFINE answer == Framed!Frame("pong", 0, 0)
<1>1. /\ owed > 0 /\ outbox' = Append(outbox, answer) /\ owed' = owed - 1
      /\ dropped' = (dropped /\ owed' > 0)
      /\ UNCHANGED <<text, ticks, inbox, sent, gone, reader, got, writer, message, handed, heard>>
  BY DEF Framed!Flushes
<1>2. FrameTyped /\ Incoming /\ Outgoing /\ Owing
  BY DEF FrameIInv
<1>3. outbox \in Seq(AFrame) /\ heard \in Seq(AFrame) /\ owed \in Nat
  BY <1>2 DEF FrameTyped
<1>4. answer \in AFrame /\ answer.kind \notin Unanswered
  BY DEF AFrame, Unanswered, Framed!Frame, Framed!Kinds
<1> HIDE DEF answer
<1>5. outbox' \in Seq(AFrame)
  BY <1>1, <1>3, <1>4, AppendProperties
<1>6. owed' \in Nat
  BY <1>1, <1>3
<1>7. FrameTyped'
  BY <1>1, <1>2, <1>5, <1>6 DEF FrameTyped
<1>8. Incoming'
  BY <1>1, <1>2, IncomingStays
<1>9. heard \o outbox' = Append(heard \o outbox, answer) /\ heard \o outbox \in Seq(AFrame)
  BY <1>1, <1>3, <1>4, OneBehind
<1>10. Framed!Only(Unanswered, heard \o outbox') = Framed!Only(Unanswered, heard \o outbox)
  <2> DEFINE out == heard \o outbox
  <2>1. out \in Seq(AFrame)
    BY <1>9
  <2> HIDE DEF out
  <2>2. Framed!Only(Unanswered, Append(out, answer)) =
          IF answer.kind \in Unanswered THEN Append(Framed!Only(Unanswered, out), answer)
          ELSE Framed!Only(Unanswered, out)
    BY <1>4, <2>1, OnlyOneMore
  <2> QED
    BY <1>4, <1>9, <2>2, Zenon DEF out
<1>11. Outgoing'
  BY <1>1, <1>2, <1>10, OutgoingStays
<1>12. Owing'
  BY <1>1, <1>2, <1>3 DEF Owing
<1> QED
  BY <1>7, <1>8, <1>11, <1>12 DEF FrameIInv

(* The pipeline hands send a message, or is through.                       *)
LEMMA SendKeepsFrames == ASSUME FrameIInv, Framed!send \/ Framed!finish PROVE FrameIInv'
<1> DEFINE out == Framed!Only(Unanswered, heard \o outbox)
<1>1. /\ writer = "idle"
      /\ UNCHANGED <<text, ticks, dropped, inbox, outbox, sent, gone, reader, got, owed, heard>>
  BY DEF Framed!send, Framed!finish
<1>2. FrameTyped /\ Incoming /\ Outgoing /\ Owing
  BY DEF FrameIInv
<1>3. handed \in Nat
  BY <1>2 DEF FrameTyped
<1>4. \/ handed' = handed + 1 /\ writer' = "error"
      \/ /\ handed' = handed + 1 /\ writer' = "waits"
         /\ message' \in AFrame /\ message'.kind \in Framed!Messages /\ message'.n = handed'
      \/ /\ handed' = handed /\ writer' = "waits"
         /\ message' \in AFrame /\ message'.kind = "close"
  <2>1. CASE Framed!send
    <3>1. handed' = handed + 1
      BY <2>1 DEF Framed!send
    <3>2. \/ writer' = "error"
          \/ /\ writer' = "waits"
             /\ message' = Framed!Frame(IF text THEN "text" ELSE "binary", handed + 1, 0)
      BY <2>1 DEF Framed!send
    <3>3. CASE writer' = "error"
      BY <3>1, <3>3
    <3>4. CASE /\ writer' = "waits"
               /\ message' = Framed!Frame(IF text THEN "text" ELSE "binary", handed + 1, 0)
      <4>1. (IF text THEN "text" ELSE "binary") \in Framed!Messages
        BY DEF Framed!Messages
      <4>2. \A k \in Framed!Messages : k \in Framed!Kinds
        BY DEF Framed!Kinds
      <4>3. \A k \in Framed!Kinds, n \in Nat :
              /\ Framed!Frame(k, n, 0) \in AFrame /\ Framed!Frame(k, n, 0).kind = k
              /\ Framed!Frame(k, n, 0).n = n
        BY DEF AFrame, Framed!Frame
      <4>4. handed + 1 \in Nat
        BY <1>3
      <4> QED
        BY <3>1, <3>4, <4>1, <4>2, <4>3, <4>4, ZenonT(40)
    <3> QED
      BY <3>2, <3>3, <3>4
  <2>2. CASE Framed!finish
    BY <2>2 DEF Framed!finish, Framed!Frame, AFrame, Framed!Kinds
  <2> QED
    BY <2>1, <2>2
<1>5. handed' \in Nat
  BY <1>3, <1>4
<1>6. FrameTyped'
  BY <1>1, <1>2, <1>5 DEF FrameTyped
<1>7. Incoming'
  BY <1>1, <1>2, IncomingStays
<1>8. Owing'
  BY <1>1, <1>2 DEF Owing
<1>9. /\ \A i \in 1..Len(out) : IF out[i].kind = "close" THEN i = Len(out) ELSE out[i].n = i
      /\ \A i \in 1..Len(out) : out[i].kind # "close"
      /\ Len(out) = handed
  <2>1. writer # "closed"
    BY <1>1
  <2> QED
    BY <1>1, <1>2, <2>1, Zenon DEF Outgoing
<1>10. out' = out
  BY <1>1
<1>11. "close" \notin Framed!Messages /\ "pong" \notin Framed!Messages
  BY DEF Framed!Messages
<1> HIDE DEF out
<1>12. \/ writer' \notin {"idle", "waits", "sending"}
       \/ /\ writer' = "waits" /\ message' \in AFrame /\ message'.kind # "pong"
          /\ IF message'.kind = "close" THEN Len(out') = handed'
             ELSE Len(out') + 1 = handed' /\ message'.n = handed'
  <2>1. CASE handed' = handed + 1 /\ writer' = "error"
    BY <2>1
  <2>2. CASE /\ handed' = handed + 1 /\ writer' = "waits"
             /\ message' \in AFrame /\ message'.kind \in Framed!Messages /\ message'.n = handed'
    <3>1. message'.kind # "close" /\ message'.kind # "pong"
      BY <1>11, <2>2
    <3> QED
      BY <1>9, <1>10, <2>2, <3>1, Zenon
  <2>3. CASE /\ handed' = handed /\ writer' = "waits"
             /\ message' \in AFrame /\ message'.kind = "close"
    <3>1. message'.kind # "pong"
      BY <2>3
    <3> QED
      BY <1>9, <1>10, <2>3, <3>1, Zenon
  <2> QED
    BY <1>4, <2>1, <2>2, <2>3
<1>13. writer' \in {"waits", "sending"} =>
         /\ message' \in AFrame /\ message'.kind # "pong"
         /\ IF message'.kind = "close" THEN Len(out') = handed'
            ELSE Len(out') + 1 = handed' /\ message'.n = handed'
  BY <1>12, Zenon
<1>14. writer' # "idle"
  BY <1>4
<1>15. /\ \A i \in 1..Len(out') : IF out'[i].kind = "close" THEN i = Len(out') ELSE out'[i].n = i
       /\ \A i \in 1..Len(out') : out'[i].kind # "close"
  BY <1>9, <1>10, Zenon
<1>16. Outgoing'
  BY <1>13, <1>14, <1>15, Zenon DEF Outgoing, out
<1> QED
  BY <1>6, <1>7, <1>8, <1>16 DEF FrameIInv

(* send has writer, or fails for good.                                     *)
LEMMA WriterKeepsFrames ==
  ASSUME FrameIInv, Framed!WriterLocks \/ Framed!WriterFails PROVE FrameIInv'
<1>1. UNCHANGED <<text, ticks, dropped, inbox, outbox, sent, gone, reader, got, owed, message, handed, heard>>
  BY DEF Framed!WriterLocks, Framed!WriterFails
<1>2. \/ writer = "waits" /\ writer' = "sending"
      \/ writer = "sending" /\ writer' \in {"closed", "error"}
  BY DEF Framed!WriterLocks, Framed!WriterFails
<1>3. FrameTyped /\ Incoming /\ Outgoing /\ Owing
  BY DEF FrameIInv
<1>4. FrameTyped'
  BY <1>1, <1>3 DEF FrameTyped
<1>5. Incoming'
  BY <1>1, <1>3, IncomingStays
<1>6. Owing'
  BY <1>1, <1>3 DEF Owing
<1>7. message' = message /\ handed' = handed /\ heard' \o outbox' = heard \o outbox
  BY <1>1
<1>8. writer \in {"waits", "sending"} /\ writer # "closed" /\ writer' # "idle"
  BY <1>2
<1>9. Outgoing'
  BY <1>3, <1>7, <1>8, Zenon DEF Outgoing
<1> QED
  BY <1>4, <1>5, <1>6, <1>9 DEF FrameIInv

(* A message is on its way, after all the ones handed to send before it.   *)
LEMMA WriterSendsKeeps == ASSUME FrameIInv, Framed!WriterSends PROVE FrameIInv'
<1> DEFINE out == Framed!Only(Unanswered, heard \o outbox)
<1>1. /\ writer = "sending" /\ outbox' = Append(outbox, message)
      /\ writer' = (IF message.kind = "close" THEN "closed" ELSE "idle")
      /\ UNCHANGED <<text, ticks, dropped, inbox, sent, gone, reader, got, owed, message, handed, heard>>
  BY DEF Framed!WriterSends
<1>2. FrameTyped /\ Incoming /\ Outgoing /\ Owing
  BY DEF FrameIInv
<1>3. outbox \in Seq(AFrame) /\ heard \in Seq(AFrame) /\ handed \in Nat
  BY <1>2 DEF FrameTyped
<1>4. writer # "closed" /\ writer \in {"waits", "sending"}
  BY <1>1
<1>5. /\ message \in AFrame /\ message.kind # "pong"
      /\ IF message.kind = "close" THEN Len(out) = handed
         ELSE Len(out) + 1 = handed /\ message.n = handed
  BY <1>2, <1>4, Zenon DEF Outgoing
<1>6. /\ \A i \in 1..Len(out) : IF out[i].kind = "close" THEN i = Len(out) ELSE out[i].n = i
      /\ \A i \in 1..Len(out) : out[i].kind # "close"
  BY <1>2, <1>4, Zenon DEF Outgoing
<1>7. outbox' \in Seq(AFrame)
  BY <1>1, <1>3, <1>5, AppendProperties
<1>8. FrameTyped'
  BY <1>1, <1>2, <1>7 DEF FrameTyped
<1>9. Incoming'
  BY <1>1, <1>2, IncomingStays
<1>10. Owing'
  BY <1>1, <1>2 DEF Owing
<1>11. heard \o outbox' = Append(heard \o outbox, message) /\ heard \o outbox \in Seq(AFrame)
  BY <1>1, <1>3, <1>5, OneBehind
<1>12. message.kind \in Unanswered
  BY <1>5 DEF AFrame, Unanswered
<1>13. heard' = heard /\ out' = Append(out, message)
  <2> DEFINE all == heard \o outbox
  <2>1. all \in Seq(AFrame) /\ message \in AFrame
    BY <1>5, <1>11
  <2> HIDE DEF all
  <2>2. Framed!Only(Unanswered, Append(all, message)) =
          IF message.kind \in Unanswered THEN Append(Framed!Only(Unanswered, all), message)
          ELSE Framed!Only(Unanswered, all)
    BY <2>1, OnlyOneMore
  <2>3. heard' = heard /\ heard' \o outbox' = Append(heard \o outbox, message)
    BY <1>1, <1>11
  <2> QED
    BY <1>12, <2>2, <2>3, Zenon DEF all
<1>14. out \in Seq(AFrame)
  <2>1. Begins(heard \o outbox, heard \o outbox)
    BY <1>11, LenProperties DEF Begins
  <2> QED
    BY <1>11, <2>1, OnlyBegins
<1> HIDE DEF out
<1>15. /\ Len(out') = Len(out) + 1 /\ out'[Len(out) + 1] = message /\ Len(out) \in Nat
       /\ \A i \in 1..Len(out) : out'[i] = out[i]
  BY <1>5, <1>13, <1>14, AppendProperties, LenProperties
<1>16. \A i \in 1..(Len(out) + 1) : i \in 1..Len(out) \/ i = Len(out) + 1
  BY <1>15
<1>17. \A i \in 1..Len(out') :
         IF out'[i].kind = "close" THEN i = Len(out') ELSE out'[i].n = i
  <2> TAKE i \in 1..Len(out')
  <2>1. CASE i \in 1..Len(out)
    BY <1>6, <1>15, <2>1, Zenon
  <2>2. CASE i = Len(out) + 1
    BY <1>5, <1>15, <2>2, Zenon
  <2> QED
    BY <1>15, <1>16, <2>1, <2>2, Zenon
<1>18. message.kind # "close" =>
         /\ Len(out') = handed /\ \A i \in 1..Len(out') : out'[i].kind # "close"
  BY <1>5, <1>6, <1>15, <1>16, Zenon
<1>19. \/ message.kind = "close" /\ writer' = "closed"
       \/ message.kind # "close" /\ writer' = "idle"
  BY <1>1
<1>20. writer' \notin {"waits", "sending"} /\ handed' = handed
  BY <1>1
<1>21. writer' # "closed" => \A i \in 1..Len(out') : out'[i].kind # "close"
  BY <1>18, <1>19, Zenon
<1>22. writer' = "idle" => Len(out') = handed'
  <2>1. writer' = "idle" => message.kind # "close"
    BY <1>19
  <2> QED
    BY <1>18, <1>20, <2>1, Zenon
<1>23. Outgoing'
  BY <1>17, <1>20, <1>21, <1>22, Zenon DEF Outgoing, out
<1> QED
  BY <1>8, <1>9, <1>10, <1>23 DEF FrameIInv

(* Every step of recv, of send and finish and of the peer keeps what is    *)
(* known of a WebSocket.                                                   *)
LEMMA FrameStep == FrameIInv /\ (Framed!Next \/ UNCHANGED frameVars) => FrameIInv'
<1> SUFFICES ASSUME FrameIInv, Framed!Next \/ UNCHANGED frameVars PROVE FrameIInv'
  OBVIOUS
<1>1. CASE UNCHANGED frameVars
  <2>1. UNCHANGED <<text, ticks, dropped, inbox, outbox, sent, gone, reader, got, owed, writer, message, handed, heard>>
    BY <1>1 DEF frameVars
  <2>2. FrameTyped /\ Incoming /\ Outgoing /\ Owing
    BY DEF FrameIInv
  <2>3. FrameTyped' /\ Owing'
    BY <2>1, <2>2 DEF FrameTyped, Owing
  <2>4. Incoming'
    BY <2>1, <2>2, IncomingStays
  <2>5. Outgoing'
    BY <2>1, <2>2, OutgoingStays
  <2> QED
    BY <2>3, <2>4, <2>5 DEF FrameIInv
<1>2. CASE Framed!PeerSends \/ Framed!PeerReads \/ Framed!Breaks
  BY <1>2, PeerSendsKeeps, PeerReadsKeeps, BreaksKeeps
<1>3. CASE \/ Framed!recv \/ Framed!RecvEnds \/ Framed!ReaderLocks \/ Framed!ReaderUnlocks
           \/ Framed!ReadDropped
  BY <1>3, RecvKeeps, ReaderKeeps, DroppedKeeps
<1>4. CASE \/ Framed!Flushes \/ Framed!send \/ Framed!finish
           \/ Framed!WriterLocks \/ Framed!WriterSends \/ Framed!WriterFails
  BY <1>4, FlushesKeeps, SendKeepsFrames, WriterKeepsFrames, WriterSendsKeeps
<1> QED
  BY <1>1, <1>2, <1>3, <1>4 DEF Framed!Next

(* One message in is one message out of ws, whatever the two tasks and the *)
(* peer do, wherever the connection breaks and ticks drop recv; and no pong*)
(* is owed as recv reads on, unless a tick dropped the recv that owed it   *)
(* (layer/ws.rs, recv, send and finish).                                   *)
THEOREM MessagesStayWhole == LayeringSpec => []MessagesAreWhole
<1>1. LayeringInit => FrameIInv
  BY FrameInit DEF LayeringInit
<1>2. FrameIInv /\ [LayeringNext]_everything => FrameIInv'
  <2>1. [LayeringNext]_everything => Framed!Next \/ UNCHANGED frameVars
    BY DEF LayeringNext, everything
  <2> QED
    BY <2>1, FrameStep
<1>3. FrameIInv => MessagesAreWhole
  <2> SUFFICES ASSUME FrameIInv PROVE MessagesAreWhole
    OBVIOUS
  <2> DEFINE all == Framed!Only(Framed!Messages, sent)
  <2>1. got \in Seq(AFrame) /\ sent \in Seq(AFrame) /\ owed \in Nat
    BY DEF FrameIInv, FrameTyped
  <2>2. Begins(got, all) /\ \A i \in 1..Len(got) : got[i].size <= Buffer
    BY DEF FrameIInv, Incoming
  <2>3. all \in Seq(AFrame)
    <3>1. Begins(sent, sent)
      BY <2>1, LenProperties DEF Begins
    <3> QED
      BY <2>1, <3>1, OnlyBegins
  <2> HIDE DEF all
  <2>4. Framed!IsPrefix(got, all)
    BY <2>1, <2>2, <2>3, PrefixIs
  <2>5. \A i \in 1..Len(Framed!Only(Framed!Kinds \ {"pong"}, heard \o outbox)) :
          IF Framed!Only(Framed!Kinds \ {"pong"}, heard \o outbox)[i].kind = "close"
          THEN i = Len(Framed!Only(Framed!Kinds \ {"pong"}, heard \o outbox))
          ELSE Framed!Only(Framed!Kinds \ {"pong"}, heard \o outbox)[i].n = i
    BY Zenon DEF FrameIInv, Outgoing, Unanswered
  <2>6. reader = "reading" /\ lock = "none" /\ ~gone /\ owed > 0 => ticks /\ dropped
    BY <2>1 DEF FrameIInv, Owing
  <2> QED
    BY <2>2, <2>4, <2>5, <2>6, Zenon DEF MessagesAreWhole, Framed!MessagesAreWhole, all
<1> QED
  BY <1>1, <1>2, <1>3, PTL DEF LayeringSpec, everything
=============================================================================

--------------------------- MODULE EndpointsProofs ---------------------------
(***************************************************************************)
(* Proofs about the endpoints of Endpoints: first datagrams and messages,  *)
(* for every set of peers, ceiling, depth of a queue and number of         *)
(* messages; then the paths, devices, files and sockets of this machine,   *)
(* for every set of processes and of connections.                          *)
(***************************************************************************)
EXTENDS Endpoints, FiniteSetTheorems, TLAPS

-----------------------------------------------------------------------------
(* Rising sequences.                                                       *)

Rising(s)    == \A m, n \in 1..Len(s) : m < n => s[m] < s[n]
Before(s, t) == \A m \in 1..Len(s), n \in 1..Len(t) : s[m] < t[n]
UpTo(s, k)   == \A m \in 1..Len(s) : s[m] <= k

(* The empty sequence is the one of no length.                             *)
LEMMA EmptyIsShort ==
  ASSUME NEW s \in Seq(Nat)
  PROVE  /\ Len(s) \in Nat /\ (s = <<>> <=> Len(s) = 0)
         /\ s # <<>> => 1 \in 1..Len(s)
OBVIOUS

(* What is in a history and its queue, together, stays below what came in. *)
LEMMA SumBelow ==
  ASSUME NEW a \in Nat, NEW b \in Nat, NEW k \in Nat, a + b <= k
  PROVE  /\ \A l \in Nat : k <= l => a + b <= l
         /\ a + (b + 1) <= k + 1
         /\ b > 0 => (a + 1) + (b - 1) <= k
         /\ a <= k
OBVIOUS

(* What is bounded is bounded by more.                                     *)
LEMMA UpToMore ==
  ASSUME NEW s \in Seq(Nat), NEW k \in Nat, NEW l \in Nat, k <= l, UpTo(s, k)
  PROVE  UpTo(s, l)
<1> SUFFICES ASSUME NEW m \in 1..Len(s) PROVE s[m] <= l
  BY DEF UpTo
<1>1. s[m] \in Nat /\ s[m] <= k
  BY DEF UpTo
<1> QED
  BY <1>1

(* A number above all of a rising sequence goes at its end.                *)
LEMMA RisingAppend ==
  ASSUME NEW s \in Seq(Nat), Rising(s), NEW k \in Nat, UpTo(s, k), NEW x \in Nat, x > k
  PROVE  /\ Append(s, x) \in Seq(Nat) /\ Append(s, x) # <<>>
         /\ Len(Append(s, x)) = Len(s) + 1
         /\ Rising(Append(s, x)) /\ UpTo(Append(s, x), x)
         /\ s # <<>> => Append(s, x)[1] = s[1]
         /\ s = <<>> => Append(s, x)[1] = x
<1>1. /\ Append(s, x) \in Seq(Nat) /\ Len(Append(s, x)) = Len(s) + 1 /\ Len(s) \in Nat
      /\ \A m \in 1..Len(s) : Append(s, x)[m] = s[m] /\ s[m] \in Nat
      /\ Append(s, x)[Len(s) + 1] = x
  OBVIOUS
<1>2. Append(s, x) # <<>> /\ (s # <<>> => 1 \in 1..Len(s)) /\ (s = <<>> => Len(s) = 0)
  BY <1>1, EmptyIsShort
<1>3. Rising(Append(s, x))
  BY <1>1 DEF Rising, UpTo
<1>4. UpTo(Append(s, x), x)
  BY <1>1 DEF UpTo
<1> QED
  BY <1>1, <1>2, <1>3, <1>4

(* The tail of a rising sequence rises, above its head.                    *)
LEMMA RisingTail ==
  ASSUME NEW s \in Seq(Nat), Rising(s), s # <<>>
  PROVE  /\ Head(s) = s[1] /\ Head(s) \in Nat /\ Tail(s) \in Seq(Nat)
         /\ Len(Tail(s)) = Len(s) - 1 /\ Len(s) > 0
         /\ \A m \in 1..Len(Tail(s)) : Tail(s)[m] = s[m + 1] /\ Head(s) < Tail(s)[m]
         /\ Rising(Tail(s))
BY DEF Rising

(* The head of the later of two moves to the end of the earlier.           *)
LEMMA RisingHandOver ==
  ASSUME NEW s \in Seq(Nat), NEW t \in Seq(Nat), t # <<>>,
         Rising(s), Rising(t), Before(s, t)
  PROVE  /\ Rising(Append(s, Head(t))) /\ Rising(Tail(t))
         /\ Before(Append(s, Head(t)), Tail(t))
         /\ Append(s, Head(t)) \in Seq(Nat) /\ Tail(t) \in Seq(Nat)
         /\ Append(s, Head(t)) # <<>>
         /\ Len(Append(s, Head(t))) = Len(s) + 1 /\ Len(Tail(t)) = Len(t) - 1
         /\ s # <<>> => Append(s, Head(t))[1] = s[1]
         /\ s = <<>> => Append(s, Head(t))[1] = t[1]
         /\ \A k \in Nat : UpTo(s, k) /\ UpTo(t, k) =>
              UpTo(Append(s, Head(t)), k) /\ UpTo(Tail(t), k)
<1>1. /\ Tail(t) \in Seq(Nat) /\ Len(Tail(t)) = Len(t) - 1 /\ Head(t) = t[1] /\ Head(t) \in Nat
      /\ \A m \in 1..Len(Tail(t)) : Tail(t)[m] = t[m + 1] /\ m + 1 \in 1..Len(t)
      /\ Len(t) \in Nat \ {0} /\ 1 \in 1..Len(t)
  OBVIOUS
<1>2. /\ Append(s, Head(t)) \in Seq(Nat) /\ Len(Append(s, Head(t))) = Len(s) + 1
      /\ \A m \in 1..Len(s) : Append(s, Head(t))[m] = s[m]
      /\ Append(s, Head(t))[Len(s) + 1] = t[1] /\ Len(s) \in Nat
  BY <1>1
<1>3. Rising(Append(s, Head(t)))
  <2> SUFFICES ASSUME NEW m \in 1..Len(Append(s, Head(t))), NEW n \in 1..Len(Append(s, Head(t))),
                      m < n
               PROVE  Append(s, Head(t))[m] < Append(s, Head(t))[n]
    BY DEF Rising
  <2>1. m \in 1..Len(s) /\ Append(s, Head(t))[m] = s[m]
    BY <1>2
  <2>2. CASE n \in 1..Len(s)
    BY <1>2, <2>1, <2>2 DEF Rising
  <2>3. CASE n = Len(s) + 1
    BY <1>1, <1>2, <2>1, <2>3 DEF Before
  <2> QED
    BY <1>2, <2>2, <2>3
<1>4. Rising(Tail(t))
  BY <1>1 DEF Rising
<1>5. Before(Append(s, Head(t)), Tail(t))
  <2> SUFFICES ASSUME NEW m \in 1..Len(Append(s, Head(t))), NEW n \in 1..Len(Tail(t))
               PROVE  Append(s, Head(t))[m] < Tail(t)[n]
    BY DEF Before
  <2>1. Tail(t)[n] = t[n + 1] /\ n + 1 \in 1..Len(t) /\ 1 < n + 1
    BY <1>1
  <2>2. CASE m \in 1..Len(s)
    <3>1. Append(s, Head(t))[m] = s[m]
      BY <1>2, <2>2
    <3> QED
      BY <2>1, <2>2, <3>1 DEF Before
  <2>3. CASE m = Len(s) + 1
    <3>1. Append(s, Head(t))[m] = t[1]
      BY <1>2, <2>3
    <3> QED
      BY <1>1, <2>1, <3>1 DEF Rising
  <2> QED
    BY <1>2, <2>2, <2>3
<1>6. \A k \in Nat : UpTo(s, k) /\ UpTo(t, k) =>
        UpTo(Append(s, Head(t)), k) /\ UpTo(Tail(t), k)
  BY <1>1, <1>2 DEF UpTo
<1>7. /\ Append(s, Head(t)) # <<>>
      /\ s # <<>> => 1 \in 1..Len(s)
      /\ s = <<>> => Len(s) = 0
  BY <1>2, SMTT(30)
<1> QED
  BY <1>1, <1>2, <1>3, <1>4, <1>5, <1>6, <1>7

(* Two rising sequences, one before the other, make one.                   *)
LEMMA RisingConcat ==
  ASSUME NEW s \in Seq(Nat), NEW t \in Seq(Nat), Rising(s), Rising(t), Before(s, t)
  PROVE  /\ Rising(s \o t)
         /\ s \o t = <<>> <=> s = <<>> /\ t = <<>>
         /\ s # <<>> => Head(s \o t) = s[1]
         /\ s = <<>> /\ t # <<>> => Head(s \o t) = t[1]
<1> DEFINE c == s \o t
<1>1. /\ c \in Seq(Nat) /\ Len(c) = Len(s) + Len(t) /\ Len(s) \in Nat /\ Len(t) \in Nat
      /\ \A m \in 1..Len(s) : c[m] = s[m]
      /\ \A m \in 1..Len(c) : m > Len(s) => c[m] = t[m - Len(s)] /\ m - Len(s) \in 1..Len(t)
  OBVIOUS
<1>2. /\ c = <<>> <=> Len(c) = 0
      /\ s = <<>> <=> Len(s) = 0
      /\ t = <<>> <=> Len(t) = 0
      /\ c # <<>> => Head(c) = c[1]
  BY <1>1
<1> HIDE DEF c
<1>3. Rising(c)
  <2> SUFFICES ASSUME NEW m \in 1..Len(c), NEW n \in 1..Len(c), m < n PROVE c[m] < c[n]
    BY DEF Rising
  <2>1. CASE n \in 1..Len(s)
    <3>1. m \in 1..Len(s) /\ c[m] = s[m] /\ c[n] = s[n]
      BY <1>1, <2>1, SMTT(30)
    <3> QED
      BY <2>1, <3>1 DEF Rising
  <2>2. CASE m \in 1..Len(s) /\ n > Len(s)
    BY <1>1, <2>2 DEF Before
  <2>3. CASE m > Len(s) /\ n > Len(s)
    <3>1. /\ c[m] = t[m - Len(s)] /\ c[n] = t[n - Len(s)] /\ m - Len(s) < n - Len(s)
          /\ m - Len(s) \in 1..Len(t) /\ n - Len(s) \in 1..Len(t)
      BY <1>1, <2>3
    <3> QED
      BY <3>1 DEF Rising
  <2> QED
    BY <1>1, <2>1, <2>2, <2>3
<1>4. /\ s # <<>> => Head(c) = s[1]
      /\ s = <<>> /\ t # <<>> => Head(c) = t[1]
      /\ c = <<>> <=> s = <<>> /\ t = <<>>
  <2>1. CASE s # <<>>
    <3>1. 1 \in 1..Len(s) /\ Len(c) # 0
      BY <1>1, <1>2, <2>1
    <3> QED
      BY <1>1, <1>2, <2>1, <3>1
  <2>2. CASE s = <<>> /\ t # <<>>
    <3>1. Len(c) # 0 /\ 1 \in 1..Len(c) /\ 1 > Len(s) /\ 1 - Len(s) = 1
      BY <1>1, <1>2, <2>2
    <3> QED
      BY <1>1, <1>2, <2>2, <3>1
  <2>3. CASE s = <<>> /\ t = <<>>
    BY <1>1, <1>2, <2>3
  <2> QED
    BY <2>1, <2>2, <2>3
<1> QED
  BY <1>3, <1>4 DEF c

-----------------------------------------------------------------------------
(* The forked datagram listener.                                           *)

LiveIds == {i \in Ids : Live(i)}
Served  == {i \in Ids : life[i] \in {"served", "deaf"}}

(* The variables' types, with what a queue and a history hold.             *)
Typed ==
  /\ received \in 0..MaxMessages /\ running \in BOOLEAN /\ accepting \in BOOLEAN
  /\ opened \in 0..received /\ sessions \in [Peers -> 0..opened]
  /\ owner \in [Ids -> Peers \cup {None}] /\ opener \in [Ids -> 0..MaxMessages]
  /\ life \in [Ids -> {"none", "pending", "served", "deaf", "closed"}]
  /\ queue \in [Ids -> Seq(Nat)] /\ read \in [Ids -> Seq(Nat)]
  /\ pending \in Seq(Nat) /\ Len(pending) <= PENDING_SESSIONS
  /\ permits \in 0..max_connections

(* Sessions are numbered as they open; those that wait for the accept loop *)
(* are in its channel once.                                                *)
Numbered == \A i \in Ids :
  /\ i > opened <=> life[i] = "none"
  /\ i > opened => queue[i] = <<>> /\ read[i] = <<>>

Waiting ==
  /\ \A m \in 1..Len(pending) : pending[m] \in 1..opened /\ life[pending[m]] = "pending"
  /\ Rising(pending)

(* The map of the loop names, of each peer, its own session, and every one *)
(* that lives while the loop runs.                                         *)
Mapped ==
  /\ \A p \in Peers : sessions[p] # None => owner[sessions[p]] = p
  /\ running => \A i \in Ids : Live(i) => owner[i] \in Peers /\ sessions[owner[i]] = i

(* What session i heard rises, from its opener to the last message.        *)
Ordered(i) ==
  /\ Rising(read[i]) /\ Rising(queue[i]) /\ Before(read[i], queue[i])
  /\ UpTo(read[i], received) /\ UpTo(queue[i], received)
  /\ read[i] # <<>> => read[i][1] = opener[i]
  /\ read[i] = <<>> /\ queue[i] # <<>> => queue[i][1] = opener[i]
  /\ Live(i) => read[i] # <<>> \/ queue[i] # <<>>
  /\ Len(queue[i]) <= SESSION_DEPTH /\ Len(read[i]) + Len(queue[i]) <= received

Hears == \A i \in Ids : Ordered(i)

DemuxIInv ==
  Typed /\ Numbered /\ Waiting /\ Mapped /\ CeilingHolds /\ OneSessionPerPeer /\ Hears

(* The sets of sessions are finite.                                        *)
LEMMA IdsFinite ==
  /\ IsFiniteSet(Ids) /\ IsFiniteSet(LiveIds) /\ IsFiniteSet(Served)
  /\ Cardinality(LiveIds) \in Nat /\ Cardinality(Served) \in Nat
  /\ \A m : IsFiniteSet(Entries(m)) /\ Cardinality(Entries(m)) \in Nat
<1>1. IsFiniteSet(Ids)
  BY DemuxAssumption, FS_Interval DEF Ids
<1>2. LiveIds \subseteq Ids /\ Served \subseteq Ids /\ \A m : Entries(m) \subseteq Peers
  BY DEF LiveIds, Served, Entries
<1>3. IsFiniteSet(LiveIds) /\ IsFiniteSet(Served) /\ \A m : IsFiniteSet(Entries(m))
  BY <1>1, <1>2, DemuxAssumption, FS_Subset
<1> QED
  BY <1>1, <1>3, FS_CardinalityType

(* The listener that has just been bound.                                  *)
LEMMA DemuxInit == Init => DemuxIInv
<1> SUFFICES ASSUME Init PROVE DemuxIInv
  OBVIOUS
<1> USE DemuxAssumption
<1>1. Typed
  <2>1. sessions \in [Peers -> 0..opened] /\ opened \in 0..received /\ received \in 0..MaxMessages
    BY DEF Init, None
  <2>2. /\ owner \in [Ids -> Peers \cup {None}] /\ opener \in [Ids -> 0..MaxMessages]
        /\ life \in [Ids -> {"none", "pending", "served", "deaf", "closed"}]
    BY DEF Init
  <2>3. queue \in [Ids -> Seq(Nat)] /\ read \in [Ids -> Seq(Nat)]
        /\ pending \in Seq(Nat) /\ Len(pending) <= PENDING_SESSIONS
    BY DEF Init
  <2>4. permits \in 0..max_connections
    BY DEF Init
  <2> QED
    BY <2>1, <2>2, <2>3, <2>4, Zenon DEF Init, Typed
<1>2. \A i \in Ids : life[i] = "none" /\ ~Live(i) /\ queue[i] = <<>> /\ read[i] = <<>> /\ i > opened
  BY DEF Init, Live, Ids
<1>3. Numbered /\ OneSessionPerPeer
  BY <1>2 DEF Numbered, OneSessionPerPeer
<1>4. Waiting /\ Mapped
  BY <1>2 DEF Init, Waiting, Mapped, Rising
<1>5. Hears
  BY <1>2 DEF Init, Hears, Ordered, Rising, Before, UpTo
<1>6. CeilingHolds
  <2>1. LiveIds = {} /\ Served = {}
    BY <1>2 DEF LiveIds, Served
  <2>2. Cardinality(LiveIds) = 0 /\ Cardinality(Served) = 0
    BY <2>1, FS_EmptySet
  <2> QED
    BY <2>2 DEF Init, CeilingHolds, LiveIds, Served
<1> QED
  BY <1>1, <1>3, <1>4, <1>5, <1>6 DEF DemuxIInv

(* A sweep forgets the peer and sessions that are closed, and no other.    *)
LEMMA SweepForgets ==
  ASSUME Typed, NEW p \in Peers
  PROVE  /\ Swept(p) \in [Peers -> 0..opened] /\ Swept(p)[p] = None
         /\ \A q \in Peers : Swept(p)[q] = sessions[q] \/ Swept(p)[q] = None
         /\ \A q \in Peers : q # p /\ ~Closed(sessions[q]) => Swept(p)[q] = sessions[q]
         /\ Cardinality(Entries(Swept(p))) >= max_connections =>
              \A q \in Entries(Swept(p)) : ~Closed(Swept(p)[q])
<1>1. /\ Forgets(p) \in [Peers -> 0..opened] /\ Forgets(p)[p] = None
      /\ \A q \in Peers : q # p => Forgets(p)[q] = sessions[q]
  BY DEF Typed, Forgets, None
<1> HIDE DEF Forgets
<1>2. CASE Cardinality(Entries(Forgets(p))) < max_connections
  <2>1. Swept(p) = Forgets(p)
    BY <1>2 DEF Swept
  <2>2. ~(Cardinality(Entries(Swept(p))) >= max_connections)
    BY <1>2, <2>1, IdsFinite, DemuxAssumption
  <2> QED
    BY <1>1, <2>1, <2>2
<1>3. CASE ~(Cardinality(Entries(Forgets(p))) < max_connections)
  <2>1. Swept(p) = [q \in Peers |-> IF Forgets(p)[q] # None /\ Closed(Forgets(p)[q]) THEN None
                                                                      ELSE Forgets(p)[q]]
    BY <1>3 DEF Swept
  <2>2. /\ Swept(p) \in [Peers -> 0..opened] /\ Swept(p)[p] = None
        /\ \A q \in Peers : Swept(p)[q] = Forgets(p)[q] \/ Swept(p)[q] = None
        /\ \A q \in Peers : ~Closed(Forgets(p)[q]) => Swept(p)[q] = Forgets(p)[q]
        /\ \A q \in Peers : Swept(p)[q] # None => ~Closed(Swept(p)[q])
    BY <1>1, <2>1 DEF Typed, None
  <2> QED
    BY <1>1, <2>2 DEF Entries
<1> QED
  BY <1>2, <1>3

(* Every live session keeps its place in the map after a sweep, so they are*)
(* no more than its entries.                                               *)
LEMMA LiveAreEntries ==
  ASSUME Typed, Mapped, running, NEW p \in Peers, IsNew(p)
  PROVE  /\ \A i \in LiveIds : owner[i] \in Peers /\ owner[i] # p /\ Swept(p)[owner[i]] = i
         /\ Cardinality(LiveIds) <= Cardinality(Entries(Swept(p)))
<1>1. ASSUME NEW i \in LiveIds
      PROVE  owner[i] \in Peers /\ owner[i] # p /\ Swept(p)[owner[i]] = i /\ i # None
  <2>1. i \in Ids /\ Live(i) /\ owner[i] \in Peers /\ sessions[owner[i]] = i /\ ~Closed(i)
    BY DEF LiveIds, Mapped, Live, Closed
  <2>2. i # None
    BY <2>1, DemuxAssumption DEF Ids, None
  <2> QED
    BY <2>1, <2>2, SweepForgets DEF IsNew
<1> DEFINE f == [i \in LiveIds |-> owner[i]]
<1>2. f \in Injection(LiveIds, Entries(Swept(p)))
  BY <1>1 DEF Injection, IsInjective, Entries
<1> QED
  BY <1>1, <1>2, IdsFinite, FS_Injection

(* And every entry that is not closed is a live session of its own.        *)
LEMMA EntriesAreLive ==
  ASSUME Typed, Numbered, Mapped, NEW p \in Peers,
         Cardinality(Entries(Swept(p))) >= max_connections
  PROVE  FullOfLive
<1> DEFINE m == Swept(p)
           g == [q \in Entries(m) |-> m[q]]
<1>1. ASSUME NEW q \in Entries(m)
      PROVE  m[q] \in LiveIds /\ owner[m[q]] = q
  <2>1. q \in Peers /\ m[q] # None /\ m[q] = sessions[q] /\ ~Closed(m[q]) /\ m[q] \in 0..opened
    BY SweepForgets DEF Entries
  <2>2. m[q] \in Ids /\ ~(m[q] > opened)
    BY <2>1, DemuxAssumption, SMTT(30) DEF Typed, Ids, None
  <2>3. Live(m[q])
    BY <2>1, <2>2 DEF Numbered, Live, Closed, Typed
  <2> QED
    BY <2>1, <2>2, <2>3 DEF Mapped, LiveIds
<1> HIDE DEF m
<1>2. g \in Injection(Entries(m), LiveIds)
  BY <1>1 DEF Injection, IsInjective
<1>3. Cardinality(Entries(m)) <= Cardinality(LiveIds)
  BY <1>2, IdsFinite, FS_Injection
<1> QED
  BY <1>3, IdsFinite, DemuxAssumption DEF FullOfLive, LiveIds, m

(* Where only the map changes, forgetting what is not alive, or the loop   *)
(* goes on with one message more or stops, all is kept.                    *)
LEMMA MapKeeps ==
  ASSUME DemuxIInv, received' \in received..MaxMessages, running' \in BOOLEAN,
         running' => running,
         sessions' \in [Peers -> 0..opened],
         \A q \in Peers : sessions'[q] = sessions[q] \/ sessions'[q] = None,
         running' => \A q \in Peers : Live(sessions[q]) => sessions'[q] = sessions[q],
         UNCHANGED <<opened, owner, opener, life, queue, read, accept>>
  PROVE  DemuxIInv'
<1>1. Typed'
  BY DemuxAssumption DEF DemuxIInv, Typed, accept
<1>2. Numbered' /\ Waiting' /\ OneSessionPerPeer' /\ CeilingHolds'
  BY DEF DemuxIInv, Numbered, Waiting, OneSessionPerPeer, CeilingHolds, Live, accept
<1>3. Mapped'
  BY DEF DemuxIInv, Mapped, Live
<1>4. Hears'
  <2>1. received' >= received /\ received \in Nat /\ received' \in Nat
    BY DemuxAssumption DEF DemuxIInv, Typed
  <2> SUFFICES ASSUME NEW i \in Ids PROVE Ordered(i)'
    BY DEF Hears
  <2>2. Ordered(i)
    BY DEF DemuxIInv, Hears
  <2>3. queue[i] \in Seq(Nat) /\ read[i] \in Seq(Nat) /\ Len(queue[i]) \in Nat /\ Len(read[i]) \in Nat
    BY EmptyIsShort DEF DemuxIInv, Typed
  <2>4. UpTo(read[i], received') /\ UpTo(queue[i], received')
    BY <2>1, <2>2, <2>3, UpToMore DEF Ordered
  <2>5. Len(read[i]) + Len(queue[i]) <= received'
    <3>1. Len(read[i]) + Len(queue[i]) <= received
      BY <2>2 DEF Ordered
    <3> QED
      BY <2>1, <2>3, <3>1, SumBelow
  <2> QED
    BY <2>2, <2>4, <2>5 DEF Ordered, Live
<1> QED
  BY <1>1, <1>2, <1>3, <1>4 DEF DemuxIInv

(* A message for which there is no session and no room for one, or none at *)
(* the full queue of the one there is, and the end of the loop.            *)
LEMMA DropKeeps ==
  ASSUME DemuxIInv,
         Stops \/ \E p \in Peers : Overflows(p) \/ AtCeiling(p) \/ NotAccepted(p) \/ FindsNobody(p)
  PROVE  DemuxIInv'
<1> USE DemuxAssumption
<1>1. CASE Stops
  <2>1. sessions' \in [Peers -> 0..opened] /\ \A q \in Peers : sessions'[q] = None
    BY <1>1 DEF Stops, None, DemuxIInv, Typed
  <2>2. received' \in received..MaxMessages
    BY <1>1 DEF Stops, DemuxIInv, Typed
  <2>3. running' \in BOOLEAN /\ ~running'
    BY <1>1 DEF Stops
  <2> QED
    BY <1>1, <2>1, <2>2, <2>3, MapKeeps DEF Stops
<1>2. ASSUME NEW p \in Peers, Overflows(p) \/ AtCeiling(p) \/ NotAccepted(p) \/ FindsNobody(p)
      PROVE  DemuxIInv'
  <2>1. received' \in received..MaxMessages /\ running
    BY <1>2 DEF Overflows, AtCeiling, NotAccepted, FindsNobody, Receives, DemuxIInv, Typed
  <2>2. CASE Overflows(p)
    BY <2>1, <2>2, MapKeeps DEF Overflows, table, DemuxIInv, Typed
  <2>3. CASE AtCeiling(p) \/ NotAccepted(p)
    <3>1. sessions' = Swept(p) /\ IsNew(p)
          /\ UNCHANGED <<running, opened, owner, opener, life, queue, read, accept>>
      BY <2>3 DEF AtCeiling, NotAccepted
    <3>2. \A q \in Peers : Live(sessions[q]) => sessions'[q] = sessions[q]
      <4> SUFFICES ASSUME NEW q \in Peers, Live(sessions[q]) PROVE sessions'[q] = sessions[q]
        OBVIOUS
      <4>1. ~Closed(sessions[q])
        BY DEF Live, Closed
      <4>2. CASE q # p
        BY <3>1, <4>1, <4>2, SweepForgets DEF DemuxIInv
      <4>3. CASE q = p
        BY <3>1, <4>1, <4>3, SweepForgets DEF DemuxIInv, IsNew
      <4> QED
        BY <4>2, <4>3
    <3>3. /\ sessions' \in [Peers -> 0..opened]
          /\ \A q \in Peers : sessions'[q] = sessions[q] \/ sessions'[q] = None
      BY <3>1, SweepForgets DEF DemuxIInv
    <3> QED
      BY <2>1, <3>1, <3>2, <3>3, MapKeeps DEF DemuxIInv, Typed
  <2>4. CASE FindsNobody(p)
    <3>1. sessions' \in [Peers -> 0..opened] /\ \A q \in Peers : sessions'[q] = None
      BY <2>4 DEF FindsNobody, None, DemuxIInv, Typed
    <3>2. running' \in BOOLEAN /\ ~running'
      BY <2>4 DEF FindsNobody
    <3> QED
      BY <2>1, <2>4, <3>1, <3>2, MapKeeps DEF FindsNobody
  <2> QED
    BY <1>2, <2>2, <2>3, <2>4
<1> QED
  BY <1>1, <1>2

(* A message that is put into its session's queue.                         *)
LEMMA DeliverKeeps ==
  ASSUME DemuxIInv, NEW p \in Peers, Delivers(p)
  PROVE  DemuxIInv'
<1> DEFINE i == sessions[p]
<1> USE DemuxAssumption
<1>0. /\ i # None /\ ~Closed(i) /\ Len(queue[i]) < SESSION_DEPTH /\ running
      /\ received < MaxMessages /\ received' = received + 1
      /\ queue' = [queue EXCEPT ![i] = Append(@, received + 1)]
      /\ UNCHANGED <<running, table, life, read, accept>>
  BY DEF Delivers, Receives
<1>1. i \in Ids
  <2>1. i \in 0..opened /\ opened \in Nat /\ opened <= MaxMessages
    BY DEF DemuxIInv, Typed
  <2> QED
    BY <1>0, <2>1 DEF Ids, None
<1>2. Live(i)
  BY <1>0, <1>1 DEF DemuxIInv, Numbered, Typed, Live, Closed
<1> HIDE DEF i
<1>3. /\ queue[i] \in Seq(Nat) /\ Rising(queue[i]) /\ UpTo(queue[i], received)
      /\ received \in Nat /\ received + 1 \in Nat
  BY <1>0, <1>1 DEF DemuxIInv, Typed, Hears, Ordered
<1> DEFINE q == Append(queue[i], received + 1)
<1>4. /\ q \in Seq(Nat) /\ q # <<>> /\ Len(q) = Len(queue[i]) + 1 /\ Rising(q)
      /\ UpTo(q, received + 1)
      /\ queue[i] # <<>> => q[1] = queue[i][1]
      /\ queue[i] = <<>> => q[1] = received + 1
  BY <1>3, RisingAppend
<1>5. Before(read[i], q)
  <2>1. UpTo(read[i], received) /\ Before(read[i], queue[i]) /\ read[i] \in Seq(Nat)
    BY <1>0, <1>1 DEF DemuxIInv, Hears, Ordered, Typed
  <2> SUFFICES ASSUME NEW m \in 1..Len(read[i]), NEW n \in 1..Len(q) PROVE read[i][m] < q[n]
    BY DEF Before
  <2>2. CASE n \in 1..Len(queue[i])
    <3>1. q[n] = queue[i][n]
      BY <1>3, <2>2
    <3> QED
      BY <2>1, <2>2, <3>1 DEF Before
  <2>3. CASE n = Len(queue[i]) + 1
    <3>1. q[n] = received + 1
      BY <1>3, <2>3
    <3>2. read[i][m] \in Nat /\ read[i][m] <= received
      BY <2>1 DEF UpTo
    <3> QED
      BY <1>3, <3>1, <3>2
  <2> QED
    BY <1>3, <1>4, <2>2, <2>3
<1> HIDE DEF q
<1>6. /\ queue' \in [Ids -> Seq(Nat)] /\ queue'[i] = q
      /\ \A j \in Ids : j # i => queue'[j] = queue[j]
  BY <1>0, <1>1, <1>4 DEF DemuxIInv, Typed, q
<1>7. Typed'
  BY <1>0, <1>1, <1>6 DEF DemuxIInv, Typed, table, accept
<1>8. Numbered'
  BY <1>0, <1>1, <1>2, <1>6 DEF DemuxIInv, Numbered, table, Live
<1>9. Waiting' /\ Mapped' /\ CeilingHolds' /\ OneSessionPerPeer'
  BY <1>0, <1>1 DEF DemuxIInv, Waiting, Mapped, CeilingHolds, OneSessionPerPeer, Live, table, accept
<1>10. Hears'
  <2> SUFFICES ASSUME NEW j \in Ids PROVE Ordered(j)'
    BY DEF Hears
  <2>1. Ordered(j) /\ read[j] \in Seq(Nat) /\ queue[j] \in Seq(Nat)
        /\ Len(read[j]) \in Nat /\ Len(queue[j]) \in Nat
    BY EmptyIsShort DEF DemuxIInv, Hears, Typed
  <2>2. UpTo(read[j], received')
    BY <1>0, <1>3, <2>1, UpToMore DEF Ordered
  <2>3. CASE j # i
    <3>1. UpTo(queue[j], received')
      BY <1>0, <1>3, <2>1, UpToMore DEF Ordered
    <3>2. Len(read[j]) + Len(queue[j]) <= received'
      <4>1. Len(read[j]) + Len(queue[j]) <= received
        BY <2>1 DEF Ordered
      <4>2. received <= received' /\ received' \in Nat
        BY <1>0, <1>3
      <4> QED
        BY <1>3, <2>1, <4>1, <4>2, SumBelow
    <3> QED
      BY <1>0, <1>6, <2>1, <2>2, <2>3, <3>1, <3>2 DEF Ordered, Live, table
  <2>4. CASE j = i
    <3>1. queue'[j] = q /\ read'[j] = read[j] /\ opener'[j] = opener[j]
      BY <1>0, <1>1, <1>6, <2>4 DEF table
    <3>2. read[j] # <<>> \/ queue[j] # <<>>
      BY <1>2, <2>1, <2>4 DEF Ordered
    <3>3. Len(q) <= SESSION_DEPTH /\ Len(read[j]) + Len(q) <= received'
      <4>1. Len(read[j]) + Len(queue[j]) <= received
        BY <2>1 DEF Ordered
      <4>2. Len(q) = Len(queue[j]) + 1 /\ Len(queue[j]) < SESSION_DEPTH /\ received' = received + 1
        BY <1>0, <1>4, <2>4
      <4>3. Len(q) <= SESSION_DEPTH
        BY <2>1, <4>2
      <4>4. Len(read[j]) + (Len(queue[j]) + 1) <= received + 1
        BY <1>3, <2>1, <4>1, SumBelow
      <4> QED
        BY <4>2, <4>3, <4>4
    <3>4. read[j] = <<>> => q[1] = opener[j]
      BY <1>4, <2>1, <2>4, <3>2 DEF Ordered
    <3>5. Rising(q) /\ Before(read[j], q) /\ UpTo(q, received') /\ q # <<>>
      BY <1>0, <1>4, <1>5, <2>4
    <3> QED
      BY <2>1, <2>2, <3>1, <3>3, <3>4, <3>5 DEF Ordered
  <2> QED
    BY <2>3, <2>4
<1> QED
  BY <1>7, <1>8, <1>9, <1>10 DEF DemuxIInv

(* A session that is left as it was, when a message came in or none did.   *)
LEMMA OrderedStays ==
  ASSUME DemuxIInv, NEW i \in Ids, received' \in Nat, received <= received',
         queue'[i] = queue[i], read'[i] = read[i], opener'[i] = opener[i], Live(i)' => Live(i)
  PROVE  Ordered(i)'
<1>1. Ordered(i) /\ read[i] \in Seq(Nat) /\ queue[i] \in Seq(Nat) /\ received \in Nat
      /\ Len(read[i]) \in Nat /\ Len(queue[i]) \in Nat
  BY EmptyIsShort, DemuxAssumption DEF DemuxIInv, Hears, Typed
<1>2. UpTo(read[i], received') /\ UpTo(queue[i], received')
  BY <1>1, UpToMore DEF Ordered
<1>3. Len(read[i]) + Len(queue[i]) <= received'
  <2>1. Len(read[i]) + Len(queue[i]) <= received
    BY <1>1 DEF Ordered
  <2> QED
    BY <1>1, <2>1, SumBelow
<1> QED
  BY <1>1, <1>2, <1>3 DEF Ordered

(* A message that opens a session: there is room below the ceiling, for the*)
(* entries of the map are at least the sessions that live.                 *)
LEMMA OpenKeeps ==
  ASSUME DemuxIInv, NEW p \in Peers, Opens(p)
  PROVE  DemuxIInv'
<1> DEFINE i == opened + 1
<1> USE DemuxAssumption
<1>0. /\ running /\ received < MaxMessages /\ received' = received + 1 /\ IsNew(p)
      /\ Cardinality(Entries(Swept(p))) < max_connections
      /\ Len(pending) < PENDING_SESSIONS
      /\ opened' = i /\ owner' = [owner EXCEPT ![i] = p]
      /\ opener' = [opener EXCEPT ![i] = received + 1]
      /\ life' = [life EXCEPT ![i] = "pending"] /\ pending' = Append(pending, i)
      /\ queue' = [queue EXCEPT ![i] = <<received + 1>>]
      /\ sessions' = [Swept(p) EXCEPT ![p] = i]
      /\ UNCHANGED <<running, read, permits, accepting>>
  BY DEF Opens, Open, Receives
<1>1. /\ i \in Ids /\ i > opened /\ i \in Nat /\ opened \in Nat /\ received \in Nat
      /\ opened <= received /\ received + 1 \in 0..MaxMessages
  BY <1>0 DEF DemuxIInv, Typed, Ids
<1>2. life[i] = "none" /\ queue[i] = <<>> /\ read[i] = <<>> /\ ~Live(i)
  BY <1>1 DEF DemuxIInv, Numbered, Live
<1>3. /\ \A j \in LiveIds : owner[j] \in Peers /\ owner[j] # p /\ Swept(p)[owner[j]] = j
      /\ Cardinality(LiveIds) <= Cardinality(Entries(Swept(p)))
  BY <1>0, LiveAreEntries DEF DemuxIInv
<1>4. /\ Swept(p) \in [Peers -> 0..opened]
      /\ \A q \in Peers : Swept(p)[q] = sessions[q] \/ Swept(p)[q] = None
  BY SweepForgets DEF DemuxIInv
<1> HIDE DEF i
<1>5. /\ life' \in [Ids -> {"none", "pending", "served", "deaf", "closed"}] /\ life'[i] = "pending"
      /\ \A j \in Ids : j # i => life'[j] = life[j]
  BY <1>0, <1>1 DEF DemuxIInv, Typed
<1>6. /\ owner' \in [Ids -> Peers \cup {None}] /\ owner'[i] = p
      /\ \A j \in Ids : j # i => owner'[j] = owner[j]
  BY <1>0, <1>1 DEF DemuxIInv, Typed
<1>7. /\ opener' \in [Ids -> 0..MaxMessages] /\ opener'[i] = received + 1
      /\ \A j \in Ids : j # i => opener'[j] = opener[j]
  BY <1>0, <1>1 DEF DemuxIInv, Typed
<1>8. /\ queue' \in [Ids -> Seq(Nat)] /\ queue'[i] = <<received + 1>>
      /\ \A j \in Ids : j # i => queue'[j] = queue[j]
  BY <1>0, <1>1 DEF DemuxIInv, Typed
<1>9. /\ sessions' \in [Peers -> 0..opened'] /\ sessions'[p] = i
      /\ \A q \in Peers : q # p => sessions'[q] = Swept(p)[q]
  BY <1>0, <1>1, <1>4 DEF i
<1>10. /\ pending \in Seq(Nat) /\ Rising(pending) /\ UpTo(pending, opened)
       /\ \A m \in 1..Len(pending) : pending[m] \in 1..opened /\ life[pending[m]] = "pending"
  BY <1>1 DEF DemuxIInv, Typed, Waiting, UpTo
<1>11. /\ pending' \in Seq(Nat) /\ Len(pending') = Len(pending) + 1 /\ Rising(pending')
       /\ \A m \in 1..Len(pending) : pending'[m] = pending[m]
       /\ pending'[Len(pending) + 1] = i
  BY <1>0, <1>1, <1>10, RisingAppend
<1>12. \A j \in Ids : j # i => (Live(j)' <=> Live(j))
  BY <1>5 DEF Live
<1>13. Typed'
  <2>1. opened' \in 0..received' /\ received' \in 0..MaxMessages
    BY <1>0, <1>1 DEF i
  <2>2. Len(pending') <= PENDING_SESSIONS
    BY <1>0, <1>10, <1>11, EmptyIsShort
  <2> QED
    BY <1>0, <1>5, <1>6, <1>7, <1>8, <1>9, <1>11, <2>1, <2>2 DEF DemuxIInv, Typed
<1>14. Numbered'
  <2> SUFFICES ASSUME NEW j \in Ids
               PROVE  /\ j > opened' <=> life'[j] = "none"
                      /\ j > opened' => queue'[j] = <<>> /\ read'[j] = <<>>
    BY DEF Numbered
  <2>1. CASE j = i
    BY <1>0, <1>1, <1>5, <2>1
  <2>2. CASE j # i
    <3>1. j > opened' <=> j > opened
      BY <1>0, <1>1, <2>2 DEF i, Ids
    <3> QED
      BY <1>0, <1>5, <1>8, <2>2, <3>1 DEF DemuxIInv, Numbered
  <2> QED
    BY <2>1, <2>2
<1>15. Waiting'
  <2> SUFFICES ASSUME NEW m \in 1..Len(pending')
               PROVE  pending'[m] \in 1..opened' /\ life'[pending'[m]] = "pending"
    BY <1>11 DEF Waiting
  <2>1. CASE m \in 1..Len(pending)
    <3>1. pending'[m] = pending[m] /\ pending[m] \in 1..opened /\ life[pending[m]] = "pending"
      BY <1>10, <1>11, <2>1
    <3>2. pending[m] \in Ids /\ pending[m] # i
      BY <1>1, <3>1 DEF Ids
    <3> QED
      BY <1>0, <1>1, <1>5, <3>1, <3>2
  <2>2. CASE m = Len(pending) + 1
    BY <1>0, <1>1, <1>5, <1>11, <2>2 DEF Ids
  <2> QED
    BY <1>10, <1>11, <2>1, <2>2
<1>16. Mapped'
  <2>1. ASSUME NEW q \in Peers, sessions'[q] # None PROVE owner'[sessions'[q]] = q
    <3>1. CASE q = p
      BY <1>6, <1>9, <3>1
    <3>2. CASE q # p
      <4>1. sessions'[q] = sessions[q] /\ sessions[q] # None /\ sessions[q] \in 0..opened
        BY <1>4, <1>9, <2>1, <3>2 DEF DemuxIInv, Typed
      <4>2. sessions[q] \in Ids /\ sessions[q] # i /\ owner[sessions[q]] = q
        BY <1>1, <4>1 DEF Ids, None, DemuxIInv, Mapped
      <4> QED
        BY <1>6, <4>1, <4>2
    <3> QED
      BY <3>1, <3>2
  <2>2. ASSUME NEW j \in Ids, Live(j)' PROVE owner'[j] \in Peers /\ sessions'[owner'[j]] = j
    <3>1. CASE j = i
      BY <1>6, <1>9, <3>1
    <3>2. CASE j # i
      BY <1>3, <1>6, <1>9, <1>12, <2>2, <3>2 DEF LiveIds
    <3> QED
      BY <3>1, <3>2
  <2> QED
    BY <2>1, <2>2 DEF Mapped
<1>17. OneSessionPerPeer'
  <2> SUFFICES ASSUME NEW j \in Ids, NEW k \in Ids, Live(j)', Live(k)', owner'[j] = owner'[k]
               PROVE  j = k
    BY DEF OneSessionPerPeer
  <2>1. \A h \in Ids : h # i /\ Live(h)' => owner'[h] # p /\ owner'[h] = owner[h] /\ Live(h)
    BY <1>3, <1>6, <1>12 DEF LiveIds
  <2> QED
    BY <1>6, <2>1 DEF DemuxIInv, OneSessionPerPeer
<1>18. CeilingHolds'
  <2>1. LiveIds' = LiveIds \cup {i} /\ i \notin LiveIds
    BY <1>1, <1>2, <1>5, <1>12 DEF LiveIds, Live
  <2>2. Served' = Served
    BY <1>2, <1>5 DEF Served
  <2>3. Cardinality(LiveIds') = Cardinality(LiveIds) + 1
    BY <2>1, IdsFinite, FS_AddElement
  <2>4. Cardinality(LiveIds') <= max_connections
    BY <1>0, <1>3, <2>3, IdsFinite
  <2> QED
    BY <1>0, <2>2, <2>4 DEF DemuxIInv, CeilingHolds, LiveIds, Served
<1>19. Hears'
  <2> SUFFICES ASSUME NEW j \in Ids PROVE Ordered(j)'
    BY DEF Hears
  <2>1. CASE j # i
    BY <1>0, <1>1, <1>7, <1>8, <1>12, <2>1, OrderedStays
  <2>2. CASE j = i
    <3>1. read'[j] = <<>> /\ queue'[j] = <<received + 1>> /\ opener'[j] = received + 1
      BY <1>0, <1>2, <1>7, <1>8, <2>2
    <3>2. Len(read'[j]) = 0 /\ Len(queue'[j]) = 1 /\ queue'[j][1] = received + 1
          /\ queue'[j] # <<>> /\ read'[j] = <<>>
      BY <3>1
    <3>3. Rising(read'[j]) /\ Rising(queue'[j]) /\ Before(read'[j], queue'[j])
      BY <3>2 DEF Rising, Before
    <3>4. UpTo(read'[j], received') /\ UpTo(queue'[j], received')
      BY <1>0, <1>1, <3>2 DEF UpTo
    <3>5. Len(queue'[j]) <= SESSION_DEPTH /\ Len(read'[j]) + Len(queue'[j]) <= received'
      <4>1. 1 <= SESSION_DEPTH /\ received' = received + 1 /\ received \in Nat
        BY <1>0, <1>1
      <4>2. 0 + 1 <= received'
        BY <4>1
      <4> QED
        BY <3>2, <4>1, <4>2
    <3> QED
      BY <3>1, <3>2, <3>3, <3>4, <3>5 DEF Ordered
  <2> QED
    BY <2>1, <2>2
<1> QED
  BY <1>13, <1>14, <1>15, <1>16, <1>17, <1>18, <1>19 DEF DemuxIInv

(* A step of the accept loop or of a session's task that leaves the map    *)
(* alone and opens nothing: the sessions that live are among those that    *)
(* did, and what each heard is in order.                                   *)
LEMMA TaskKeeps ==
  ASSUME DemuxIInv,
         UNCHANGED <<received, running, table>>,
         life' \in [Ids -> {"none", "pending", "served", "deaf", "closed"}],
         \A i \in Ids : life'[i] = "none" <=> life[i] = "none",
         \A i \in Ids : Live(i)' => Live(i),
         accepting' \in BOOLEAN, permits' \in Nat, Len(pending') <= PENDING_SESSIONS,
         pending' \in Seq(Nat), Waiting', Cardinality(Served') + permits' = max_connections,
         queue' \in [Ids -> Seq(Nat)], read' \in [Ids -> Seq(Nat)], Hears',
         \A i \in Ids : queue[i] = <<>> /\ read[i] = <<>> => queue'[i] = <<>> /\ read'[i] = <<>>
  PROVE  DemuxIInv'
<1> USE DemuxAssumption
<1>1. /\ LiveIds' \subseteq LiveIds /\ Served' \subseteq LiveIds
      /\ IsFiniteSet(LiveIds') /\ Cardinality(LiveIds') <= Cardinality(LiveIds)
      /\ IsFiniteSet(Served') /\ Cardinality(Served') \in Nat
  <2>1. LiveIds' \subseteq LiveIds /\ Served' \subseteq LiveIds
    BY DEF LiveIds, Served, Live
  <2> QED
    BY <2>1, IdsFinite, FS_Subset, FS_CardinalityType
<1>2. permits' \in 0..max_connections
  BY <1>1
<1>3. Typed'
  BY <1>2 DEF DemuxIInv, Typed, table
<1>4. Numbered'
  BY DEF DemuxIInv, Numbered, table
<1>5. Mapped' /\ OneSessionPerPeer'
  BY DEF DemuxIInv, Mapped, OneSessionPerPeer, table
<1>6. Cardinality(LiveIds') <= max_connections
  <2>1. Cardinality(LiveIds) <= max_connections
    BY DEF DemuxIInv, CeilingHolds, LiveIds
  <2> QED
    BY <1>1, <2>1, IdsFinite, FS_CardinalityType
<1>7. CeilingHolds'
  BY <1>6 DEF CeilingHolds, LiveIds, Served
<1> QED
  BY <1>3, <1>4, <1>5, <1>7 DEF DemuxIInv

(* The accept loop takes the session that waits first, and only that one.  *)
LEMMA AcceptKeeps ==
  ASSUME DemuxIInv, Accepts
  PROVE  DemuxIInv'
<1> DEFINE h == Head(pending)
<1> USE DemuxAssumption
<1>1. /\ permits > 0 /\ pending # <<>> /\ pending' = Tail(pending) /\ permits' = permits - 1
      /\ life' = [life EXCEPT ![h] = "served"]
      /\ UNCHANGED <<received, running, table, queue, read, accepting>>
  BY DEF Accepts
<1>2. /\ pending \in Seq(Nat) /\ Rising(pending) /\ Len(pending) \in Nat
      /\ \A m \in 1..Len(pending) : pending[m] \in 1..opened /\ life[pending[m]] = "pending"
      /\ opened \in Nat /\ opened <= MaxMessages
  BY EmptyIsShort DEF DemuxIInv, Typed, Waiting
<1>3. /\ h = pending[1] /\ Tail(pending) \in Seq(Nat) /\ Rising(Tail(pending))
      /\ Len(Tail(pending)) = Len(pending) - 1 /\ Len(pending) > 0
      /\ \A m \in 1..Len(Tail(pending)) : Tail(pending)[m] = pending[m + 1] /\ h < Tail(pending)[m]
  BY <1>1, <1>2, RisingTail
<1>4. h \in Ids /\ h \in Nat /\ life[h] = "pending"
  BY <1>2, <1>3 DEF Ids
<1> HIDE DEF h
<1>5. /\ life' \in [Ids -> {"none", "pending", "served", "deaf", "closed"}] /\ life'[h] = "served"
      /\ \A i \in Ids : i # h => life'[i] = life[i]
  BY <1>1, <1>4 DEF DemuxIInv, Typed
<1>6. \A i \in Ids : (life'[i] = "none" <=> life[i] = "none") /\ (Live(i)' => Live(i))
  BY <1>4, <1>5 DEF Live
<1>7. Waiting'
  <2> SUFFICES ASSUME NEW m \in 1..Len(Tail(pending))
               PROVE  /\ Tail(pending)[m] \in 1..opened
                      /\ life'[Tail(pending)[m]] = "pending"
    BY <1>1, <1>3 DEF Waiting, table
  <2>1. m + 1 \in 1..Len(pending) /\ Tail(pending)[m] = pending[m + 1] /\ h < Tail(pending)[m]
    BY <1>2, <1>3
  <2>2. pending[m + 1] \in 1..opened /\ life[pending[m + 1]] = "pending"
    BY <1>2, <2>1
  <2>3. pending[m + 1] \in Ids /\ pending[m + 1] # h
    BY <1>2, <1>4, <2>1, <2>2 DEF Ids
  <2> QED
    BY <1>5, <2>1, <2>2, <2>3
<1>8. Cardinality(Served') + permits' = max_connections /\ permits' \in Nat
  <2>1. Served' = Served \cup {h} /\ h \notin Served
    BY <1>4, <1>5 DEF Served
  <2>2. Cardinality(Served') = Cardinality(Served) + 1
    BY <2>1, IdsFinite, FS_AddElement
  <2>3. Cardinality(Served) + permits = max_connections
    BY DEF DemuxIInv, CeilingHolds, Served
  <2> QED
    BY <1>1, <2>2, <2>3, IdsFinite DEF DemuxIInv, Typed
<1>9. Hears'
  <2> SUFFICES ASSUME NEW i \in Ids PROVE Ordered(i)'
    BY DEF Hears
  <2>1. received' \in Nat /\ received <= received'
    BY <1>1 DEF DemuxIInv, Typed
  <2> QED
    BY <1>1, <1>6, <2>1, OrderedStays DEF table
<1>10. Len(pending') <= PENDING_SESSIONS
  BY <1>1, <1>2, <1>3 DEF DemuxIInv, Typed
<1> QED
  BY <1>1, <1>3, <1>5, <1>6, <1>7, <1>8, <1>9, <1>10, TaskKeeps DEF DemuxIInv, Typed

(* The history of a session whose queue is dropped is in order still.      *)
LEMMA OrderedDropped ==
  ASSUME DemuxIInv, NEW i \in Ids, received' = received,
         queue'[i] = <<>>, read'[i] = read[i], opener'[i] = opener[i], ~Live(i)'
  PROVE  Ordered(i)'
<1> USE DemuxAssumption
<1>1. Ordered(i) /\ read[i] \in Seq(Nat) /\ queue[i] \in Seq(Nat) /\ received \in Nat
      /\ Len(read[i]) \in Nat /\ Len(queue[i]) \in Nat
  BY EmptyIsShort DEF DemuxIInv, Hears, Typed
<1>2. Len(queue'[i]) = 0 /\ Rising(queue'[i]) /\ UpTo(queue'[i], received')
      /\ Before(read'[i], queue'[i])
  BY DEF Rising, UpTo, Before
<1>3. Len(read[i]) + Len(queue'[i]) <= received
  <2>1. Len(read[i]) + Len(queue[i]) <= received
    BY <1>1 DEF Ordered
  <2>2. Len(read[i]) <= received
    BY <1>1, <2>1, SumBelow
  <2> QED
    BY <1>1, <1>2, <2>2
<1>4. Len(queue'[i]) <= SESSION_DEPTH
  BY <1>2
<1> QED
  BY <1>1, <1>2, <1>3, <1>4 DEF Ordered

(* The accept side goes: the sessions it had not taken go with it.         *)
LEMMA StopAcceptingKeeps ==
  ASSUME DemuxIInv, StopsAccepting
  PROVE  DemuxIInv'
<1> USE DemuxAssumption
<1>1. /\ accepting' = FALSE /\ pending' = <<>>
      /\ life' = [i \in Ids |-> IF life[i] = "pending" THEN "closed" ELSE life[i]]
      /\ queue' = [i \in Ids |-> IF life[i] = "pending" THEN <<>> ELSE queue[i]]
      /\ UNCHANGED <<received, running, table, read, permits>>
  BY DEF StopsAccepting
<1>2. /\ life' \in [Ids -> {"none", "pending", "served", "deaf", "closed"}]
      /\ \A i \in Ids : (life'[i] = "none" <=> life[i] = "none") /\ (Live(i)' => Live(i))
  BY <1>1 DEF DemuxIInv, Typed, Live
<1>3. Served' = Served
  BY <1>1 DEF Served
<1>4. Cardinality(Served') + permits' = max_connections /\ permits' \in Nat
  <2>1. Cardinality(Served) + permits = max_connections
    BY DEF DemuxIInv, CeilingHolds, Served
  <2>2. permits' = permits /\ permits \in Nat
    BY <1>1 DEF DemuxIInv, Typed
  <2> QED
    BY <1>3, <2>1, <2>2
<1>5. pending' \in Seq(Nat) /\ Len(pending') = 0 /\ Waiting' /\ accepting' \in BOOLEAN
  <2>1. pending' \in Seq(Nat) /\ Len(pending') = 0
    BY <1>1
  <2>2. Waiting'
    BY <2>1 DEF Waiting, Rising
  <2>3. accepting' \in BOOLEAN
    BY <1>1, Zenon
  <2> QED
    BY <2>1, <2>2, <2>3
<1>6. queue' \in [Ids -> Seq(Nat)] /\ read' \in [Ids -> Seq(Nat)]
      /\ \A i \in Ids : queue[i] = <<>> /\ read[i] = <<>> => queue'[i] = <<>> /\ read'[i] = <<>>
  BY <1>1 DEF DemuxIInv, Typed
<1>7. Hears'
  <2> SUFFICES ASSUME NEW i \in Ids PROVE Ordered(i)'
    BY DEF Hears
  <2>1. CASE life[i] = "pending"
    <3>1. queue'[i] = <<>> /\ ~Live(i)'
      BY <1>1, <2>1 DEF Live
    <3> QED
      BY <1>1, <3>1, OrderedDropped DEF table
  <2>2. CASE life[i] # "pending"
    <3>1. queue'[i] = queue[i] /\ received' \in Nat /\ received <= received'
      BY <1>1, <2>2 DEF DemuxIInv, Typed
    <3> QED
      BY <1>1, <1>2, <3>1, OrderedStays DEF table
  <2> QED
    BY <2>1, <2>2
<1> QED
  BY <1>1, <1>2, <1>4, <1>5, <1>6, <1>7, TaskKeeps

(* A session's task reads its next message, stops reading, or ends.        *)
LEMMA SessionKeeps ==
  ASSUME DemuxIInv, NEW i \in Ids, Reads(i) \/ ReadingEnds(i) \/ TaskEnds(i)
  PROVE  DemuxIInv'
<1> USE DemuxAssumption
<1>1. /\ life[i] \in {"served", "deaf"} /\ Live(i)
      /\ UNCHANGED <<received, running, table, pending, accepting>>
  BY DEF Reads, ReadingEnds, TaskEnds, Live, accept
<1>2. /\ life' \in [Ids -> {"none", "pending", "served", "deaf", "closed"}]
      /\ \A j \in Ids : j # i => life'[j] = life[j]
      /\ life'[i] \in {"served", "deaf", "closed"}
  BY <1>1 DEF Reads, ReadingEnds, TaskEnds, DemuxIInv, Typed
<1>3. \A j \in Ids : (life'[j] = "none" <=> life[j] = "none") /\ (Live(j)' => Live(j))
  BY <1>1, <1>2 DEF Live
<1>4. Waiting'
  <2>1. ASSUME NEW m \in 1..Len(pending) PROVE pending[m] \in Ids /\ pending[m] # i
    <3>1. pending[m] \in 1..opened /\ life[pending[m]] = "pending"
      BY DEF DemuxIInv, Waiting
    <3>2. opened \in Nat /\ received \in 0..MaxMessages /\ opened <= received
      BY DEF DemuxIInv, Typed
    <3>3. pending[m] \in Ids
      BY <3>1, <3>2 DEF Ids
    <3> QED
      BY <1>1, <3>1, <3>3
  <2> QED
    BY <1>1, <1>2, <2>1 DEF DemuxIInv, Waiting, table
<1>5. Cardinality(Served') + permits' = max_connections /\ permits' \in Nat
  <2>1. i \in Served /\ Cardinality(Served) + permits = max_connections /\ permits \in Nat
    BY <1>1 DEF Served, DemuxIInv, CeilingHolds, Typed
  <2>2. CASE Reads(i) \/ ReadingEnds(i)
    <3>1. Served' = Served /\ permits' = permits
      BY <1>1, <2>2 DEF Reads, ReadingEnds, Served, accept, DemuxIInv, Typed
    <3> QED
      BY <2>1, <3>1
  <2>3. CASE TaskEnds(i)
    <3>1. Served' = Served \ {i} /\ permits' = permits + 1
      BY <1>1, <2>3 DEF TaskEnds, Served, DemuxIInv, Typed
    <3>2. Cardinality(Served') = Cardinality(Served) - 1
      BY <2>1, <3>1, IdsFinite, FS_RemoveElement
    <3> QED
      BY <2>1, <3>1, <3>2, IdsFinite
  <2> QED
    BY <2>2, <2>3
<1>6. /\ queue' \in [Ids -> Seq(Nat)] /\ read' \in [Ids -> Seq(Nat)]
      /\ \A j \in Ids : j # i => queue'[j] = queue[j] /\ read'[j] = read[j]
  <2>1. queue[i] \in Seq(Nat) /\ read[i] \in Seq(Nat)
    BY DEF DemuxIInv, Typed
  <2>2. CASE Reads(i)
    <3>1. Tail(queue[i]) \in Seq(Nat) /\ Append(read[i], Head(queue[i])) \in Seq(Nat)
      BY <2>1, <2>2 DEF Reads
    <3> QED
      BY <2>2, <3>1 DEF Reads, DemuxIInv, Typed
  <2>3. CASE ReadingEnds(i) \/ TaskEnds(i)
    <3>1. read' = read /\ (queue' = queue \/ queue' = [queue EXCEPT ![i] = <<>>])
      BY <2>3 DEF ReadingEnds, TaskEnds
    <3>2. queue \in [Ids -> Seq(Nat)] /\ read \in [Ids -> Seq(Nat)] /\ <<>> \in Seq(Nat)
      BY DEF DemuxIInv, Typed
    <3> QED
      BY <3>1, <3>2
  <2> QED
    BY <2>2, <2>3
<1>7. Ordered(i)' /\ (queue[i] = <<>> /\ read[i] = <<>> => queue'[i] = <<>> /\ read'[i] = <<>>)
  <2>1. CASE Reads(i)
    <3>1. Ordered(i) /\ read[i] \in Seq(Nat) /\ queue[i] \in Seq(Nat) /\ received \in Nat
          /\ Len(read[i]) \in Nat /\ Len(queue[i]) \in Nat /\ queue[i] # <<>>
      BY <2>1, EmptyIsShort DEF DemuxIInv, Hears, Typed, Reads
    <3>2. read'[i] = Append(read[i], Head(queue[i])) /\ queue'[i] = Tail(queue[i])
      BY <2>1 DEF Reads, DemuxIInv, Typed
    <3>3. /\ Rising(read'[i]) /\ Rising(queue'[i]) /\ Before(read'[i], queue'[i])
          /\ read'[i] # <<>>
          /\ Len(read'[i]) = Len(read[i]) + 1 /\ Len(queue'[i]) = Len(queue[i]) - 1
          /\ read[i] # <<>> => read'[i][1] = read[i][1]
          /\ read[i] = <<>> => read'[i][1] = queue[i][1]
          /\ UpTo(read'[i], received) /\ UpTo(queue'[i], received)
      <4>1. /\ Rising(read[i]) /\ Rising(queue[i]) /\ Before(read[i], queue[i])
            /\ UpTo(read[i], received) /\ UpTo(queue[i], received)
        BY <3>1 DEF Ordered
      <4>2. read[i] \in Seq(Nat) /\ queue[i] \in Seq(Nat) /\ queue[i] # <<>> /\ received \in Nat
        BY <3>1
      <4> DEFINE r == read[i]
                 q == queue[i]
      <4>3. /\ Rising(Append(r, Head(q))) /\ Rising(Tail(q)) /\ Before(Append(r, Head(q)), Tail(q))
            /\ Append(r, Head(q)) # <<>>
            /\ Len(Append(r, Head(q))) = Len(r) + 1 /\ Len(Tail(q)) = Len(q) - 1
            /\ r # <<>> => Append(r, Head(q))[1] = r[1]
            /\ r = <<>> => Append(r, Head(q))[1] = q[1]
            /\ UpTo(Append(r, Head(q)), received) /\ UpTo(Tail(q), received)
        <5> HIDE DEF r, q
        <5>1. /\ r \in Seq(Nat) /\ q \in Seq(Nat) /\ q # <<>> /\ received \in Nat
              /\ Rising(r) /\ Rising(q) /\ Before(r, q) /\ UpTo(r, received) /\ UpTo(q, received)
          BY <4>1, <4>2 DEF r, q
        <5> QED
          BY <5>1, RisingHandOver
      <4> QED
        BY <3>2, <4>3
    <3>4. Len(queue[i]) > 0 /\ Len(read[i]) + Len(queue[i]) <= received
          /\ Len(queue[i]) <= SESSION_DEPTH
      <4>1. Len(read[i]) + Len(queue[i]) <= received /\ Len(queue[i]) <= SESSION_DEPTH
        BY <3>1 DEF Ordered
      <4>2. Len(queue[i]) # 0 /\ Len(queue[i]) \in Nat
        BY <3>1, EmptyIsShort
      <4>3. Len(queue[i]) > 0
        BY <4>2
      <4> QED
        BY <4>1, <4>3
    <3>5. (Len(read[i]) + 1) + (Len(queue[i]) - 1) <= received
      BY <3>1, <3>4, SumBelow
    <3>6. Len(queue[i]) - 1 <= SESSION_DEPTH
      BY <3>1, <3>4
    <3>7. read'[i][1] = opener[i]
      BY <3>1, <3>3 DEF Ordered
    <3> QED
      BY <1>1, <3>1, <3>3, <3>5, <3>6, <3>7 DEF Ordered, table
  <2>2. CASE ReadingEnds(i)
    <3>1. queue' = queue /\ read' = read /\ received' \in Nat /\ received <= received'
      BY <1>1, <2>2 DEF ReadingEnds, DemuxIInv, Typed
    <3> QED
      BY <1>1, <1>3, <3>1, OrderedStays DEF table
  <2>3. CASE TaskEnds(i)
    <3>1. queue'[i] = <<>> /\ read' = read /\ ~Live(i)'
      BY <2>3 DEF TaskEnds, DemuxIInv, Typed, Live
    <3> QED
      BY <1>1, <3>1, OrderedDropped DEF table
  <2> QED
    BY <2>1, <2>2, <2>3
<1>8. Hears'
  <2>1. received' \in Nat /\ received <= received'
    BY <1>1 DEF DemuxIInv, Typed
  <2> QED
    BY <1>1, <1>3, <1>6, <1>7, <2>1, OrderedStays DEF Hears, table
<1> QED
  BY <1>1, <1>2, <1>3, <1>4, <1>5, <1>6, <1>7, <1>8, TaskKeeps DEF DemuxIInv, Typed

(* A step of the listener, or none, keeps the table of sessions in order.  *)
LEMMA DemuxStep == DemuxIInv /\ [Next]_vars => DemuxIInv'
<1> SUFFICES ASSUME DemuxIInv, [Next]_vars PROVE DemuxIInv'
  OBVIOUS
<1>1. CASE Next
  BY <1>1, DropKeeps, DeliverKeeps, OpenKeeps, AcceptKeeps, StopAcceptingKeeps, SessionKeeps
  DEF Next
<1>2. CASE UNCHANGED vars
  BY <1>2 DEF vars, table, accept, DemuxIInv, Typed, Numbered, Waiting, Mapped, CeilingHolds,
    OneSessionPerPeer, Hears, Ordered, Live
<1> QED
  BY <1>1, <1>2

(* What the invariant says of the listener's own properties.               *)
LEMMA DemuxSays == DemuxIInv => SessionsInv /\ HeardInOrder
<1> SUFFICES ASSUME DemuxIInv PROVE SessionsInv /\ HeardInOrder
  OBVIOUS
<1> USE DemuxAssumption
<1>1. \A i \in Ids : Ordered(i) /\ read[i] \in Seq(Nat) /\ queue[i] \in Seq(Nat)
        /\ Len(read[i]) \in Nat /\ Len(queue[i]) \in Nat
  BY EmptyIsShort DEF DemuxIInv, Hears, Typed
<1>2. TypeOK
  <2>1. \A i \in Ids : Len(queue[i]) <= SESSION_DEPTH
    BY <1>1 DEF Ordered
  <2>2. ASSUME NEW i \in Ids PROVE Len(read[i]) <= MaxMessages
    <3>1. Len(read[i]) + Len(queue[i]) <= received /\ received \in Nat /\ received <= MaxMessages
      BY <1>1 DEF Ordered, DemuxIInv, Typed
    <3>2. Len(read[i]) <= received
      BY <1>1, <3>1, SumBelow
    <3> QED
      BY <1>1, <3>1, <3>2
  <2>3. opened \in 0..MaxMessages
    BY DEF DemuxIInv, Typed
  <2> QED
    BY <2>1, <2>2, <2>3 DEF TypeOK, DemuxIInv, Typed
<1>3. ASSUME NEW i \in Ids
      PROVE  LET heard == read[i] \o queue[i] IN
             /\ heard # <<>> /\ life[i] # "none" => Head(heard) = opener[i]
             /\ life[i] \in {"pending", "served"} => heard # <<>>
             /\ \A m, n \in 1..Len(heard) : m < n => heard[m] < heard[n]
  <2> DEFINE heard == read[i] \o queue[i]
  <2>1. /\ Rising(heard)
        /\ heard = <<>> <=> read[i] = <<>> /\ queue[i] = <<>>
        /\ read[i] # <<>> => Head(heard) = read[i][1]
        /\ read[i] = <<>> /\ queue[i] # <<>> => Head(heard) = queue[i][1]
    BY <1>1, RisingConcat DEF Ordered
  <2> HIDE DEF heard
  <2>2. heard # <<>> => Head(heard) = opener[i]
    BY <1>1, <2>1 DEF Ordered
  <2>3. life[i] \in {"pending", "served"} => heard # <<>>
    BY <1>1, <2>1 DEF Ordered, Live
  <2>4. \A m, n \in 1..Len(heard) : m < n => heard[m] < heard[n]
    BY <2>1 DEF Rising
  <2> QED
    BY <2>2, <2>3, <2>4 DEF heard
<1> QED
  BY <1>2, <1>3 DEF SessionsInv, DemuxIInv, HeardInOrder

(* A step of the endpoints is one of the listener, or leaves it alone.     *)
everything == <<part, vars, messageVars, pathVars, terminalVars, fileVars, socketVars,
                interfaceVars>>

(* A step of the endpoints is one of the listener, or leaves it alone.     *)
LEMMA OneOfTheListener == [EndpointsNext]_everything => [Next]_vars
BY DEF EndpointsNext, everything

(* A peer turned away finds as many live sessions as may be.               *)
LEMMA CeilingIsOfLive == ASSUME DemuxIInv, NEW p \in Peers, AtCeiling(p) PROVE FullOfLive
<1>1. Typed /\ Numbered /\ Mapped /\ Cardinality(Entries(Swept(p))) >= max_connections
  BY DEF DemuxIInv, AtCeiling
<1> QED
  BY <1>1, EntriesAreLive

(* At every step of a forked datagram listener, whatever the ceiling, the  *)
(* queues and the peers: the live sessions are at most max_connections and *)
(* each holds a permit or waits for one, no two are of one peer, and a peer*)
(* is turned away at the ceiling only when that many are alive, those that *)
(* ended having been swept from the map.                                   *)
THEOREM SessionsStayBelow == EndpointsSpec => SessionsHold
<1>1. EndpointsInit => DemuxIInv
  BY DemuxInit DEF EndpointsInit
<1>2. DemuxIInv /\ [EndpointsNext]_everything => DemuxIInv'
  BY OneOfTheListener, DemuxStep
<1>3. DemuxIInv => SessionsInv /\ \A p \in Peers : AtCeiling(p) => FullOfLive
  BY DemuxSays, CeilingIsOfLive
<1>4. DemuxIInv => [SessionsInv /\ \A p \in Peers : AtCeiling(p) => FullOfLive]_vars
  BY <1>3
<1> QED
  BY <1>1, <1>2, <1>4, PTL DEF EndpointsSpec, everything, SessionsHold

-----------------------------------------------------------------------------
(* A message endpoint of one peer.                                         *)

Mail == [from : {"peer", "other", "unnamed"}, n : Nat, size : Int \cup {Buffer}]

(* Cutting a message to the buffer twice is cutting it once.               *)
LEMMA CutTwice ==
  ASSUME NEW m \in Mail
  PROVE  /\ Chat!cut(m) \in Mail /\ Chat!cut(Chat!cut(m)) = Chat!cut(m)
         /\ Chat!cut(m).from = m.from
<1>1. Chat!cut(m) = [from |-> m.from, n |-> m.n,
                     size |-> IF m.size < Buffer THEN m.size ELSE Buffer]
  BY DEF Mail, Chat!cut
<1>2. Chat!cut(m) \in Mail
  BY <1>1 DEF Mail
<1>3. /\ m.size < Buffer => Chat!cut(m).size = m.size /\ Chat!cut(m) = m
      /\ ~(m.size < Buffer) => Chat!cut(m).size = Buffer
  BY <1>1 DEF Mail
<1>4. Chat!cut(Chat!cut(m)) =
        [from |-> m.from, n |-> m.n,
         size |-> IF Chat!cut(m).size < Buffer THEN Chat!cut(m).size ELSE Buffer]
  BY <1>1, <1>2 DEF Mail, Chat!cut
<1> QED
  BY <1>1, <1>2, <1>3, <1>4

(* The variables' types.                                                   *)
MailTyped ==
  /\ messages \in Chat!Schemes /\ phase \in {"new", "bound", "learned", "open", "failed"}
  /\ inbox \in Seq(Mail) /\ sent \in Seq(Mail) /\ carried \in Seq(Mail) /\ got \in Seq(Mail)
  /\ hungup \in BOOLEAN /\ reader \in {"open", "eof"}
  /\ outbox \in Seq([to : {"anyone", "peer", "other", "unnamed"}, n : Nat])
  /\ peer \in {"anyone", "peer", "other", "unnamed"}
  /\ first \in {"anyone", "peer", "other", "unnamed"}

(* Nothing goes in or out before the endpoint is open, and a channel's     *)
(* alone may have had messages then.                                       *)
NotYetOpen ==
  /\ phase \in {"new", "bound", "learned"} =>
       got = <<>> /\ outbox = <<>> /\ reader = "open" /\ peer = "anyone"
  /\ phase \in {"new", "bound"} => carried = <<>>
  /\ phase = "new" /\ messages # "chan" => sent = <<>> /\ inbox = <<>> /\ ~hungup
  /\ hungup => messages \in Chat!HasEnd
  /\ reader = "eof" => messages \in Chat!HasEnd
  /\ carried # <<>> => Len(carried) = 1 /\ got = <<>>

(* One empty seqpacket message is taken for the end and lost.              *)
Taken == Len(got) + Len(carried)
Lost  == Len(sent) # Taken + Len(inbox)

LostIsTheEnd ==
  Lost => /\ reader = "eof" /\ messages = "unix-seqpacket" /\ carried = <<>>
          /\ Len(sent) = Taken + 1 + Len(inbox) /\ sent[Len(got) + 1].size = 0

(* Every place of what is heard holds what was sent at it.                 *)
Kept ==
  /\ \A i \in 1..Len(got) : Chat!cut(got[i]) = Chat!cut(sent[i])
  /\ \A i \in 1..Len(carried) : Chat!cut(carried[i]) = Chat!cut(sent[Len(got) + i])
  /\ ~Lost => \A i \in 1..Len(inbox) : inbox[i] = sent[Taken + i]
  /\ reader = "eof" /\ ~hungup => Lost

(* Whom an endpoint that learned its peer answers.                         *)
Learned == messages \in Chat!Learns =>
  /\ phase \in {"learned", "open"} => sent # <<>> /\ first = sent[1].from
  /\ phase = "learned" => first # "unnamed"
  /\ peer # "anyone" => sent # <<>> /\ peer = sent[1].from /\ peer # "unnamed"
  /\ \A i \in 1..Len(outbox) :
       sent # <<>> /\ outbox[i].to = sent[1].from /\ outbox[i].to # "unnamed"

(* The registrations of a channel's name that were claimed.                *)
Claims ==
  /\ made \in Nat /\ registered \in 0..made /\ (registered # 0 => messages = "chan")
  /\ claims \in Seq(1..made)
  /\ \A i \in 1..Len(claims) : claims[i] # registered
  /\ \A i, j \in 1..Len(claims) : claims[i] = claims[j] => i = j

ChatIInv == MailTyped /\ NotYetOpen /\ LostIsTheEnd /\ Kept /\ Learned /\ Claims

(* As a channel is made, nothing has been said on it.                      *)
LEMMA ChatInit == Chat!Init => ChatIInv
<1> SUFFICES ASSUME Chat!Init PROVE ChatIInv
  OBVIOUS
<1>1. /\ messages \in Chat!Schemes /\ phase = "new" /\ peer = "anyone" /\ first = "anyone"
      /\ inbox = <<>> /\ sent = <<>> /\ carried = <<>> /\ hungup = FALSE /\ got = <<>>
      /\ reader = "open" /\ outbox = <<>> /\ registered = 0 /\ made = 0 /\ claims = <<>>
  BY DEF Chat!Init, Chat!Anyone
<1>2. MailTyped
  <2>1. hungup \in BOOLEAN
    BY <1>1, Zenon
  <2> QED
    BY <1>1, <2>1 DEF MailTyped
<1>3. NotYetOpen /\ Learned
  BY <1>1 DEF NotYetOpen, Learned
<1>4. ~Lost
  BY <1>1 DEF Lost, Taken
<1>5. Kept /\ LostIsTheEnd
  BY <1>1, <1>4 DEF Kept, LostIsTheEnd
<1>6. Claims
  BY <1>1 DEF Claims
<1> QED
  BY <1>2, <1>3, <1>5, <1>6 DEF ChatIInv

(* Every step keeps the registrations.                                     *)
LEMMA ClaimsKeep == ASSUME ChatIInv, Chat!Next PROVE Claims'
<1>1. Claims
  BY DEF ChatIInv
<1>2. messages' = messages
  BY DEF Chat!Next, Chat!register, Chat!unregister, Chat!ClaimedElsewhere, Chat!connect,
    Chat!learn, Chat!connect_addr, Chat!Arrives, Chat!PeerEnds, Chat!recv, Chat!send, Chat!finish
<1>3. CASE UNCHANGED <<registered, made, claims>>
  BY <1>1, <1>2, <1>3 DEF Claims
<1>4. CASE Chat!register
  <2>1. messages = "chan" /\ made' = made + 1 /\ registered' = made + 1 /\ claims' = claims
    BY <1>4 DEF Chat!register
  <2>2. claims \in Seq(1..(made + 1))
    BY <1>1 DEF Claims
  <2>3. \A i \in 1..Len(claims) : claims[i] # made + 1
    <3>1. \A i \in 1..Len(claims) : claims[i] \in 1..made
      BY <1>1 DEF Claims
    <3> QED
      BY <1>1, <3>1 DEF Claims
  <2> QED
    BY <1>1, <1>2, <2>1, <2>2, <2>3 DEF Claims
<1>5. CASE Chat!unregister
  <2>1. registered' = 0 /\ made' = made /\ claims' = claims
    BY <1>5 DEF Chat!unregister
  <2> QED
    BY <1>1, <1>2, <2>1 DEF Claims
<1>6. CASE claims' = Append(claims, registered) /\ registered # 0 /\ registered' = 0 /\ made' = made
  <2>1. /\ registered \in 1..made /\ claims \in Seq(1..made) /\ Len(claims) \in Nat
        /\ claims' \in Seq(1..made) /\ Len(claims') = Len(claims) + 1
        /\ \A i \in 1..Len(claims) : claims'[i] = claims[i] /\ claims[i] \in 1..made
        /\ claims'[Len(claims) + 1] = registered
    BY <1>1, <1>6 DEF Claims
  <2>2. ASSUME NEW i \in 1..Len(claims'), NEW j \in 1..Len(claims'), claims'[i] = claims'[j]
        PROVE  i = j
    <3>1. claims[i] = claims[j] /\ i \in 1..Len(claims) /\ j \in 1..Len(claims) => i = j
      BY <1>1 DEF Claims
    <3>2. \A k \in 1..Len(claims) : claims'[k] # registered
      BY <1>1, <2>1 DEF Claims
    <3> QED
      BY <2>1, <2>2, <3>1, <3>2
  <2>3. \A i \in 1..Len(claims') : claims'[i] # 0
    BY <2>1
  <2> QED
    BY <1>1, <1>6, <2>1, <2>2, <2>3 DEF Claims
<1>7. Chat!Next => \/ UNCHANGED <<registered, made, claims>>
                   \/ Chat!register \/ Chat!unregister
                   \/ (claims' = Append(claims, registered) /\ registered # 0
                         /\ registered' = 0 /\ made' = made)
  BY DEF Chat!Next, Chat!ClaimedElsewhere, Chat!connect, Chat!registry, Chat!learn,
    Chat!connect_addr, Chat!Arrives, Chat!PeerEnds, Chat!recv, Chat!send, Chat!finish
<1> QED
  BY <1>3, <1>4, <1>5, <1>6, <1>7

(* A step that moves no message keeps what is heard.                       *)
LEMMA NoneMoves ==
  ASSUME LostIsTheEnd, Kept, UNCHANGED <<messages, inbox, sent, carried, got, reader>>,
         hungup => hungup'
  PROVE  LostIsTheEnd' /\ Kept'
<1>1. Lost' <=> Lost
  BY DEF Lost, Taken
<1> QED
  BY <1>1 DEF LostIsTheEnd, Kept, Taken

(* The embedder, and another relay.                                        *)
LEMMA EmbedderKeeps ==
  ASSUME ChatIInv, Chat!register \/ Chat!unregister \/ Chat!ClaimedElsewhere
  PROVE  MailTyped' /\ NotYetOpen' /\ LostIsTheEnd' /\ Kept' /\ Learned'
<1>1. /\ messages = "chan"
      /\ UNCHANGED <<messages, phase, peer, first, carried, got, reader, outbox>>
      /\ \/ phase = "new" /\ inbox' = <<>> /\ sent' = <<>> /\ (hungup' = FALSE \/ hungup' = hungup)
         \/ UNCHANGED <<inbox, sent, hungup>>
  BY DEF Chat!register, Chat!unregister, Chat!ClaimedElsewhere, ChatIInv, Claims
<1>2. CASE UNCHANGED <<inbox, sent, hungup>>
  <2>1. LostIsTheEnd' /\ Kept'
    BY <1>1, <1>2, NoneMoves DEF ChatIInv
  <2> QED
    BY <1>1, <1>2, <2>1 DEF ChatIInv, MailTyped, NotYetOpen, Learned
<1>3. CASE phase = "new" /\ inbox' = <<>> /\ sent' = <<>> /\ (hungup' = FALSE \/ hungup' = hungup)
  <2>1. got = <<>> /\ carried = <<>> /\ reader = "open"
    BY <1>3 DEF ChatIInv, NotYetOpen
  <2>2. ~Lost'
    BY <1>1, <1>3, <2>1 DEF Lost, Taken
  <2>3. LostIsTheEnd' /\ Kept'
    BY <1>1, <1>3, <2>1, <2>2 DEF LostIsTheEnd, Kept
  <2>4. hungup' \in BOOLEAN /\ (hungup' => hungup)
    <3>1. hungup \in BOOLEAN
      BY DEF ChatIInv, MailTyped
    <3>2. CASE hungup' = FALSE
      BY <3>2, Zenon
    <3>3. CASE hungup' = hungup
      BY <3>1, <3>3, Zenon
    <3> QED
      BY <1>3, <3>2, <3>3
  <2>5. MailTyped'
    BY <1>1, <1>3, <2>4 DEF ChatIInv, MailTyped
  <2>6. NotYetOpen' /\ Learned'
    BY <1>1, <1>3, <2>1, <2>4 DEF ChatIInv, NotYetOpen, Learned, Chat!Learns
  <2> QED
    BY <2>3, <2>5, <2>6
<1> QED
  BY <1>1, <1>2, <1>3

(* Opening: nothing has been heard, and what was learned is whose the first*)
(* message is.                                                             *)
LEMMA OpeningKeeps ==
  ASSUME ChatIInv, Chat!connect \/ Chat!connect_addr
  PROVE  MailTyped' /\ NotYetOpen' /\ LostIsTheEnd' /\ Kept' /\ Learned'
<1>1. UNCHANGED <<messages, first, inbox, sent, carried, hungup, got, reader, outbox>>
  BY DEF Chat!connect, Chat!connect_addr
<1>2. LostIsTheEnd' /\ Kept'
  BY <1>1, NoneMoves DEF ChatIInv
<1>3. CASE Chat!connect
  <2>1. /\ phase = "new" /\ (messages \in Chat!Learns => phase' \in {"bound", "failed"} /\ peer' = peer)
        /\ phase' \in {"bound", "open", "failed"} /\ peer' \in {"peer", peer}
        /\ (phase' = "bound" => peer' = peer /\ messages # "chan")
    BY <1>3 DEF Chat!connect, Chat!Learns
  <2> QED
    BY <1>1, <1>2, <2>1 DEF ChatIInv, MailTyped, NotYetOpen, Learned
<1>4. CASE Chat!connect_addr
  <2>1. /\ phase = "learned" \/ (phase = "bound" /\ messages \in Chat!Dials)
        /\ phase' \in {"open", "failed"}
        /\ peer' = IF messages \in Chat!Dials THEN "peer" ELSE first
    BY <1>4 DEF Chat!connect_addr
  <2>2. messages \in Chat!Learns => phase = "learned" /\ peer' = first
    BY <2>1 DEF Chat!Learns, Chat!Dials
  <2> QED
    BY <1>1, <1>2, <2>1, <2>2 DEF ChatIInv, MailTyped, NotYetOpen, Learned
<1> QED
  BY <1>3, <1>4

(* What arrives goes behind all there is.                                  *)
LEMMA ArrivesKeeps ==
  ASSUME ChatIInv, Chat!Arrives
  PROVE  MailTyped' /\ NotYetOpen' /\ LostIsTheEnd' /\ Kept' /\ Learned'
<1>1. /\ UNCHANGED <<messages, phase, peer, first, carried, hungup, got, reader, outbox>>
      /\ Chat!Bound /\ ~hungup
  BY DEF Chat!Arrives
<1>2. /\ inbox \in Seq(Mail) /\ sent \in Seq(Mail) /\ carried \in Seq(Mail) /\ got \in Seq(Mail)
      /\ Len(inbox) \in Nat /\ Len(sent) \in Nat /\ Len(carried) \in Nat /\ Len(got) \in Nat
  BY DEF ChatIInv, MailTyped
<1>3. PICK m \in Mail : inbox' = Append(inbox, m) /\ sent' = Append(sent, m)
  <2>1. PICK from \in {"peer", "other", "unnamed"}, size \in 0..(Buffer + 1) :
          /\ inbox' = Append(inbox, Chat!Message(from, Len(sent) + 1, size))
          /\ sent' = Append(sent, Chat!Message(from, Len(sent) + 1, size))
    BY DEF Chat!Arrives, Chat!Senders
  <2>2. size \in Int /\ Len(sent) + 1 \in Nat
    BY <1>2
  <2>3. Chat!Message(from, Len(sent) + 1, size) \in Mail
    BY <2>2 DEF Chat!Message, Mail
  <2> QED
    BY <2>1, <2>3
<1>4. /\ inbox' \in Seq(Mail) /\ Len(inbox') = Len(inbox) + 1
      /\ sent' \in Seq(Mail) /\ Len(sent') = Len(sent) + 1 /\ sent' # <<>>
      /\ \A i \in 1..Len(inbox) : inbox'[i] = inbox[i]
      /\ inbox'[Len(inbox) + 1] = m
      /\ \A i \in 1..Len(sent) : sent'[i] = sent[i]
      /\ sent'[Len(sent) + 1] = m
      /\ sent # <<>> => 1 \in 1..Len(sent)
  BY <1>2, <1>3
<1>5. Taken \in Nat /\ Taken' = Taken /\ (Lost' <=> Lost)
  BY <1>1, <1>2, <1>4 DEF Taken, Lost
<1>6. Taken + Len(inbox) <= Len(sent) /\ Len(got) <= Taken /\ Taken = Len(got) + Len(carried)
      /\ (Lost => Len(sent) = Taken + 1 + Len(inbox) /\ carried = <<>> /\ Len(got) + 1 <= Len(sent))
      /\ (~Lost => Len(sent) = Taken + Len(inbox))
  BY <1>2, <1>5 DEF ChatIInv, LostIsTheEnd, Lost, Taken
<1>7. MailTyped'
  BY <1>1, <1>4 DEF ChatIInv, MailTyped
<1>8. NotYetOpen'
  BY <1>1 DEF ChatIInv, NotYetOpen, Chat!Bound, Chat!HasEnd
<1>9. LostIsTheEnd'
  BY <1>1, <1>2, <1>4, <1>5, <1>6 DEF ChatIInv, LostIsTheEnd
<1>10. Kept'
  <2>1. ASSUME NEW i \in 1..Len(got) PROVE Chat!cut(got[i]) = Chat!cut(sent'[i])
    <3>1. i \in 1..Len(sent)
      BY <1>2, <1>5, <1>6
    <3>2. Chat!cut(got[i]) = Chat!cut(sent[i])
      BY DEF ChatIInv, Kept
    <3> QED
      BY <1>4, <3>1, <3>2
  <2>2. ASSUME NEW i \in 1..Len(carried)
        PROVE  Chat!cut(carried[i]) = Chat!cut(sent'[Len(got) + i])
    <3>1. Len(got) + i \in 1..Len(sent)
      BY <1>2, <1>6
    <3> QED
      BY <1>4, <3>1 DEF ChatIInv, Kept
  <2>3. ASSUME ~Lost, NEW i \in 1..Len(inbox') PROVE inbox'[i] = sent'[Taken + i]
    <3>1. CASE i \in 1..Len(inbox)
      <4>1. Taken + i \in 1..Len(sent)
        BY <1>2, <1>5, <1>6, <3>1
      <4> QED
        BY <1>4, <2>3, <3>1, <4>1 DEF ChatIInv, Kept
    <3>2. CASE i = Len(inbox) + 1
      <4>1. Taken + i = Len(sent) + 1
        BY <1>2, <1>5, <1>6, <2>3, <3>2
      <4> QED
        BY <1>4, <3>2, <4>1
    <3> QED
      BY <1>2, <1>4, <3>1, <3>2
  <2> QED
    BY <1>1, <1>5, <2>1, <2>2, <2>3 DEF ChatIInv, Kept
<1>11. Learned'
  BY <1>1, <1>4 DEF ChatIInv, Learned
<1> QED
  BY <1>7, <1>8, <1>9, <1>10, <1>11

(* The first message names the peer; udp-listen leaves it where it is.     *)
LEMMA LearnKeeps ==
  ASSUME ChatIInv, Chat!learn
  PROVE  MailTyped' /\ NotYetOpen' /\ LostIsTheEnd' /\ Kept' /\ Learned'
<1>1. /\ phase = "bound" /\ messages \in Chat!Learns /\ inbox # <<>>
      /\ first' = Head(inbox).from
      /\ phase' = IF first' = "unnamed" THEN "open" ELSE "learned"
      /\ \/ inbox' = inbox /\ carried' = carried
         \/ inbox' = Tail(inbox) /\ carried' = <<Chat!cut(Head(inbox))>>
      /\ UNCHANGED <<messages, peer, sent, hungup, got, reader, outbox>>
  BY DEF Chat!learn
<1>2. /\ got = <<>> /\ carried = <<>> /\ outbox = <<>> /\ reader = "open" /\ peer = "anyone"
      /\ Len(got) = 0 /\ Len(carried) = 0
  BY <1>1 DEF ChatIInv, NotYetOpen
<1>3. /\ inbox \in Seq(Mail) /\ sent \in Seq(Mail) /\ Len(inbox) \in Nat \ {0} /\ Len(sent) \in Nat
      /\ Head(inbox) \in Mail /\ Head(inbox) = inbox[1] /\ 1 \in 1..Len(inbox)
      /\ Tail(inbox) \in Seq(Mail) /\ Len(Tail(inbox)) = Len(inbox) - 1
      /\ \A i \in 1..Len(Tail(inbox)) : Tail(inbox)[i] = inbox[1 + i] /\ 1 + i \in 1..Len(inbox)
  BY <1>1 DEF ChatIInv, MailTyped
<1>4. ~Lost /\ Taken = 0 /\ Len(sent) = Len(inbox)
  BY <1>2, <1>3 DEF ChatIInv, LostIsTheEnd, Lost, Taken
<1>5. \A i \in 1..Len(inbox) : inbox[i] = sent[i]
  BY <1>3, <1>4 DEF ChatIInv, Kept
<1>6. sent # <<>> /\ first' = sent[1].from /\ first' \in {"peer", "other", "unnamed"}
  <2>1. Head(inbox).from \in {"peer", "other", "unnamed"}
    BY <1>3 DEF Mail
  <2> QED
    BY <1>1, <1>3, <1>4, <1>5, <2>1
<1>7. Learned'
  BY <1>1, <1>2, <1>6 DEF Learned
<1>8. CASE inbox' = inbox /\ carried' = carried
  <2>1. LostIsTheEnd' /\ Kept'
    BY <1>1, <1>8, NoneMoves DEF ChatIInv
  <2>2. MailTyped'
    BY <1>1, <1>6, <1>8 DEF ChatIInv, MailTyped
  <2>3. NotYetOpen'
    BY <1>1, <1>2, <1>8 DEF ChatIInv, NotYetOpen
  <2> QED
    BY <1>7, <2>1, <2>2, <2>3
<1>9. CASE inbox' = Tail(inbox) /\ carried' = <<Chat!cut(Head(inbox))>>
  <2>1. /\ carried' \in Seq(Mail) /\ Len(carried') = 1 /\ carried'[1] = Chat!cut(inbox[1])
        /\ Chat!cut(carried'[1]) = Chat!cut(inbox[1])
    BY <1>3, <1>9, CutTwice
  <2>2. MailTyped'
    BY <1>1, <1>3, <1>6, <1>9, <2>1 DEF ChatIInv, MailTyped
  <2>3. NotYetOpen'
    BY <1>1, <1>2, <2>1 DEF ChatIInv, NotYetOpen
  <2>4. Taken' = 1 /\ ~Lost'
    BY <1>1, <1>2, <1>3, <1>4, <1>9, <2>1 DEF Taken, Lost
  <2>5. LostIsTheEnd'
    BY <2>4 DEF LostIsTheEnd
  <2>6. Kept'
    <3>1. \A i \in 1..Len(carried') : Chat!cut(carried'[i]) = Chat!cut(sent'[Len(got') + i])
      BY <1>1, <1>2, <1>3, <1>5, <2>1
    <3>2. \A i \in 1..Len(inbox') : inbox'[i] = sent'[1 + i]
      BY <1>1, <1>3, <1>5, <1>9
    <3>3. \A i \in 1..Len(got') : Chat!cut(got'[i]) = Chat!cut(sent'[i])
      BY <1>1, <1>2
    <3> QED
      BY <1>1, <1>2, <2>4, <3>1, <3>2, <3>3 DEF Kept
  <2> QED
    BY <1>7, <2>2, <2>3, <2>5, <2>6
<1> QED
  BY <1>1, <1>8, <1>9

(* recv takes the message it carried, then those in the queue.             *)
LEMMA RecvKeeps ==
  ASSUME ChatIInv, Chat!recv
  PROVE  MailTyped' /\ NotYetOpen' /\ LostIsTheEnd' /\ Kept' /\ Learned'
<1>1. /\ phase = "open" /\ reader = "open"
      /\ UNCHANGED <<messages, phase, peer, first, sent, hungup, outbox>>
  BY DEF Chat!recv
<1>2. /\ inbox \in Seq(Mail) /\ sent \in Seq(Mail) /\ carried \in Seq(Mail) /\ got \in Seq(Mail)
      /\ Len(inbox) \in Nat /\ Len(sent) \in Nat /\ Len(carried) \in Nat /\ Len(got) \in Nat
  BY DEF ChatIInv, MailTyped
<1>3. ~Lost /\ Len(sent) = Len(got) + Len(carried) + Len(inbox)
  BY <1>1 DEF ChatIInv, LostIsTheEnd, Lost, Taken
<1>4. Learned'
  BY <1>1 DEF ChatIInv, Learned
<1>5. CASE carried # <<>>
  <2>1. /\ got' = Append(got, Chat!cut(carried[1])) /\ carried' = <<>>
        /\ inbox' = inbox /\ reader' = reader
    BY <1>5 DEF Chat!recv
  <2>2. Len(carried) = 1 /\ got = <<>> /\ Len(got) = 0
    BY <1>5 DEF ChatIInv, NotYetOpen
  <2>3. /\ carried[1] \in Mail /\ Chat!cut(carried[1]) = Chat!cut(sent[1])
        /\ Chat!cut(carried[1]) \in Mail
        /\ Chat!cut(Chat!cut(carried[1])) = Chat!cut(carried[1])
    <3>1. carried[1] \in Mail /\ Chat!cut(carried[1]) = Chat!cut(sent[Len(got) + 1])
      <4>1. 1 \in 1..Len(carried)
        BY <2>2
      <4> QED
        BY <1>2, <4>1 DEF ChatIInv, Kept
    <3>2. Len(got) + 1 = 1
      BY <2>2
    <3> QED
      BY <3>1, <3>2, CutTwice
  <2>4. /\ got' \in Seq(Mail) /\ Len(got') = 1 /\ got'[1] = Chat!cut(carried[1])
        /\ carried' \in Seq(Mail) /\ Len(carried') = 0
    BY <1>2, <2>1, <2>2, <2>3
  <2>5. Taken' = 1 /\ Taken = 1 /\ ~Lost'
    BY <1>1, <1>2, <1>3, <2>1, <2>2, <2>4 DEF Taken, Lost
  <2>6. MailTyped' /\ NotYetOpen' /\ LostIsTheEnd'
    BY <1>1, <2>1, <2>4, <2>5 DEF ChatIInv, MailTyped, NotYetOpen, LostIsTheEnd
  <2>7. Kept'
    <3>1. \A i \in 1..Len(got') : Chat!cut(got'[i]) = Chat!cut(sent'[i])
      BY <1>1, <2>3, <2>4
    <3>2. \A i \in 1..Len(inbox') : inbox'[i] = sent'[1 + i]
      BY <1>1, <1>3, <2>1, <2>5 DEF ChatIInv, Kept
    <3> QED
      BY <1>1, <2>1, <2>4, <2>5, <3>1, <3>2 DEF Kept
  <2> QED
    BY <1>4, <2>6, <2>7
<1>6. CASE carried = <<>> /\ inbox # <<>>
  <2>1. /\ inbox' = Tail(inbox) /\ carried' = carried /\ Len(carried) = 0 /\ carried' = <<>>
        /\ \/ messages = "unix-seqpacket" /\ Head(inbox).size = 0 /\ reader' = "eof" /\ got' = got
           \/ got' = Append(got, Chat!cut(Head(inbox))) /\ reader' = reader
    BY <1>6 DEF Chat!recv
  <2>2. /\ Len(inbox) \in Nat \ {0} /\ Head(inbox) \in Mail /\ Head(inbox) = inbox[1]
        /\ 1 \in 1..Len(inbox) /\ inbox' \in Seq(Mail) /\ Len(inbox') = Len(inbox) - 1
        /\ \A i \in 1..Len(inbox') : inbox'[i] = inbox[i + 1] /\ i + 1 \in 1..Len(inbox)
    BY <1>2, <1>6, <2>1
  <2>3. /\ Taken = Len(got) /\ Len(sent) = Len(got) + Len(inbox)
        /\ \A i \in 1..Len(inbox) : inbox[i] = sent[Len(got) + i]
    <3>1. Taken = Len(got) /\ Len(sent) = Len(got) + Len(inbox)
      BY <1>2, <1>3, <2>1 DEF Taken
    <3> QED
      BY <1>3, <3>1 DEF ChatIInv, Kept
  <2>4. CASE messages = "unix-seqpacket" /\ Head(inbox).size = 0 /\ reader' = "eof" /\ got' = got
    <3>1. /\ Lost' /\ Taken' = Len(got) /\ Len(sent) = Len(got) + 1 + Len(inbox')
          /\ sent[Len(got) + 1].size = 0
      BY <1>1, <1>2, <2>1, <2>2, <2>3, <2>4 DEF Lost, Taken
    <3>2. MailTyped' /\ NotYetOpen'
      BY <1>1, <2>1, <2>2, <2>4 DEF ChatIInv, MailTyped, NotYetOpen, Chat!HasEnd
    <3>3. LostIsTheEnd'
      BY <1>1, <2>1, <2>4, <3>1 DEF LostIsTheEnd
    <3>4. Kept'
      BY <1>1, <2>1, <2>4, <3>1 DEF ChatIInv, Kept
    <3> QED
      BY <1>4, <3>2, <3>3, <3>4
  <2>5. CASE got' = Append(got, Chat!cut(Head(inbox))) /\ reader' = reader
    <3>1. /\ Chat!cut(Head(inbox)) \in Mail
          /\ Chat!cut(Chat!cut(Head(inbox))) = Chat!cut(Head(inbox))
      BY <2>2, CutTwice
    <3>2. /\ got' \in Seq(Mail) /\ Len(got') = Len(got) + 1
          /\ \A i \in 1..Len(got) : got'[i] = got[i]
          /\ got'[Len(got) + 1] = Chat!cut(Head(inbox))
      BY <1>2, <2>5, <3>1
    <3>3. Taken' = Len(got) + 1 /\ ~Lost'
      BY <1>1, <1>2, <2>1, <2>2, <2>3, <3>2 DEF Taken, Lost
    <3>4. MailTyped' /\ NotYetOpen' /\ LostIsTheEnd'
      BY <1>1, <2>1, <2>2, <2>5, <3>2, <3>3 DEF ChatIInv, MailTyped, NotYetOpen, LostIsTheEnd
    <3>5. Kept'
      <4>1. ASSUME NEW i \in 1..Len(got') PROVE Chat!cut(got'[i]) = Chat!cut(sent'[i])
        <5>1. CASE i \in 1..Len(got)
          BY <1>1, <3>2, <5>1 DEF ChatIInv, Kept
        <5>2. CASE i = Len(got) + 1
          BY <1>1, <2>2, <2>3, <3>1, <3>2, <5>2
        <5> QED
          BY <1>2, <3>2, <5>1, <5>2
      <4>2. ASSUME NEW i \in 1..Len(inbox') PROVE inbox'[i] = sent'[(Len(got) + 1) + i]
        <5>1. inbox'[i] = sent[Len(got) + (i + 1)]
          BY <2>2, <2>3
        <5>2. Len(got) + (i + 1) = (Len(got) + 1) + i
          BY <1>2, <2>2
        <5> QED
          BY <1>1, <5>1, <5>2
      <4> QED
        BY <1>1, <2>1, <2>5, <3>3, <4>1, <4>2 DEF Kept
    <3> QED
      BY <1>4, <3>4, <3>5
  <2> QED
    BY <2>1, <2>4, <2>5
<1>7. CASE carried = <<>> /\ inbox = <<>>
  <2>1. hungup /\ reader' = "eof" /\ UNCHANGED <<inbox, carried, got>>
    BY <1>7 DEF Chat!recv
  <2>2. Taken' = Taken /\ ~Lost'
    BY <1>1, <1>3, <2>1 DEF Taken, Lost
  <2>3. MailTyped' /\ NotYetOpen' /\ LostIsTheEnd'
    BY <1>1, <2>1, <2>2 DEF ChatIInv, MailTyped, NotYetOpen, LostIsTheEnd
  <2>4. Kept'
    BY <1>1, <1>3, <2>1, <2>2 DEF ChatIInv, Kept
  <2> QED
    BY <1>4, <2>3, <2>4
<1> QED
  BY <1>5, <1>6, <1>7

(* The peer ends, and the methods that write.                              *)
LEMMA WritesKeep ==
  ASSUME ChatIInv, Chat!PeerEnds \/ Chat!send \/ Chat!finish
  PROVE  MailTyped' /\ NotYetOpen' /\ LostIsTheEnd' /\ Kept' /\ Learned'
<1>1. /\ UNCHANGED <<messages, phase, peer, first, inbox, sent, carried, got, reader>>
      /\ hungup => hungup'
  BY DEF Chat!PeerEnds, Chat!send, Chat!finish
<1>2. LostIsTheEnd' /\ Kept'
  BY <1>1, NoneMoves DEF ChatIInv
<1>3. CASE Chat!PeerEnds
  <2>1. messages \in Chat!HasEnd /\ hungup' = TRUE /\ outbox' = outbox /\ Chat!Bound
    BY <1>3 DEF Chat!PeerEnds
  <2>2. hungup' \in BOOLEAN
    BY <2>1, Zenon
  <2>3. MailTyped'
    BY <1>1, <2>1, <2>2 DEF ChatIInv, MailTyped
  <2>4. NotYetOpen' /\ Learned'
    BY <1>1, <2>1 DEF ChatIInv, NotYetOpen, Learned, Chat!Bound, Chat!HasEnd
  <2> QED
    BY <1>2, <2>3, <2>4
<1>4. CASE hungup' = hungup /\ outbox' = outbox
  BY <1>1, <1>2, <1>4 DEF ChatIInv, MailTyped, NotYetOpen, Learned
<1>5. CASE /\ phase = "open" /\ peer # "anyone" /\ hungup' = hungup
           /\ outbox' = Append(outbox, [to |-> peer, n |-> Len(outbox) + 1])
  <2>1. [to |-> peer, n |-> Len(outbox) + 1]
          \in [to : {"anyone", "peer", "other", "unnamed"}, n : Nat]
    BY DEF ChatIInv, MailTyped
  <2>2. /\ outbox' \in Seq([to : {"anyone", "peer", "other", "unnamed"}, n : Nat])
        /\ Len(outbox) \in Nat /\ Len(outbox') = Len(outbox) + 1
        /\ \A i \in 1..Len(outbox) : outbox'[i] = outbox[i]
        /\ outbox'[Len(outbox) + 1].to = peer
    BY <1>5, <2>1 DEF ChatIInv, MailTyped
  <2>3. MailTyped' /\ NotYetOpen'
    BY <1>1, <1>5, <2>2 DEF ChatIInv, MailTyped, NotYetOpen
  <2>4. Learned'
    BY <1>1, <1>5, <2>2 DEF ChatIInv, Learned
  <2> QED
    BY <1>2, <2>3, <2>4
<1> QED
  BY <1>3, <1>4, <1>5 DEF Chat!send, Chat!finish, Chat!Anyone

(* Every step of the two ends of a channel, and of whoever claims it,      *)
(* keeps what is known of it.                                              *)
LEMMA ChatStep ==
  ChatIInv /\ (Chat!Next \/ UNCHANGED messageVars) => ChatIInv'
<1> SUFFICES ASSUME ChatIInv, Chat!Next \/ UNCHANGED messageVars PROVE ChatIInv'
  OBVIOUS
<1>1. CASE Chat!Next
  <2>1. MailTyped' /\ NotYetOpen' /\ LostIsTheEnd' /\ Kept' /\ Learned'
    BY <1>1, EmbedderKeeps, OpeningKeeps, ArrivesKeeps, LearnKeeps, RecvKeeps, WritesKeep
    DEF Chat!Next
  <2> QED
    BY <1>1, <2>1, ClaimsKeep DEF ChatIInv
<1>2. CASE UNCHANGED messageVars
  BY <1>2 DEF messageVars, ChatIInv, MailTyped, NotYetOpen, LostIsTheEnd, Kept, Lost, Taken,
    Learned, Claims
<1> QED
  BY <1>1, <1>2

(* Where a concatenation's elements come from.                             *)
LEMMA ConcatAt ==
  ASSUME NEW S, NEW s \in Seq(S), NEW t \in Seq(S)
  PROVE  /\ s \o t \in Seq(S) /\ Len(s \o t) = Len(s) + Len(t)
         /\ \A i \in 1..Len(s) : (s \o t)[i] = s[i]
         /\ \A i \in 1..Len(s \o t) : i > Len(s) =>
              i - Len(s) \in 1..Len(t) /\ (s \o t)[i] = t[i - Len(s)]
OBVIOUS

(* What the invariant says of all that was heard, in one sequence.         *)
LEMMA ChatSays == ChatIInv => Chat!HeardFromTheFirst
<1> SUFFICES ASSUME ChatIInv PROVE Chat!HeardFromTheFirst
  OBVIOUS
<1> DEFINE heard == got \o carried \o inbox
           stops == reader = "eof" /\ messages = "unix-seqpacket"
<1>1. /\ inbox \in Seq(Mail) /\ sent \in Seq(Mail) /\ carried \in Seq(Mail) /\ got \in Seq(Mail)
      /\ Len(inbox) \in Nat /\ Len(sent) \in Nat /\ Len(carried) \in Nat /\ Len(got) \in Nat
  BY DEF ChatIInv, MailTyped
<1>2. /\ Len(heard) = Len(got) + Len(carried) + Len(inbox)
      /\ \A i \in 1..Len(got) : heard[i] = got[i]
      /\ \A i \in 1..Len(heard) : i > Len(got) /\ i <= Len(got) + Len(carried) =>
           i - Len(got) \in 1..Len(carried) /\ heard[i] = carried[i - Len(got)]
      /\ \A i \in 1..Len(heard) : i > Len(got) + Len(carried) =>
           /\ i - (Len(got) + Len(carried)) \in 1..Len(inbox)
           /\ heard[i] = inbox[i - (Len(got) + Len(carried))]
  <2> DEFINE head == got \o carried
  <2>1. /\ head \in Seq(Mail) /\ Len(head) = Len(got) + Len(carried)
        /\ \A i \in 1..Len(got) : head[i] = got[i]
        /\ \A i \in 1..Len(head) : i > Len(got) =>
             i - Len(got) \in 1..Len(carried) /\ head[i] = carried[i - Len(got)]
    BY <1>1, ConcatAt
  <2> HIDE DEF head
  <2>2. /\ Len(head \o inbox) = Len(head) + Len(inbox)
        /\ \A i \in 1..Len(head) : (head \o inbox)[i] = head[i]
        /\ \A i \in 1..Len(head \o inbox) : i > Len(head) =>
             i - Len(head) \in 1..Len(inbox) /\ (head \o inbox)[i] = inbox[i - Len(head)]
    <3>1. head \in Seq(Mail) /\ inbox \in Seq(Mail)
      BY <1>1, <2>1
    <3> QED
      BY <3>1, ConcatAt
  <2>3. heard = head \o inbox
    BY DEF head
  <2> HIDE DEF heard
  <2> QED
    BY <1>1, <2>1, <2>2, <2>3
<1> HIDE DEF heard
<1>3. /\ Lost => Len(sent) = Len(heard) + 1 /\ stops /\ sent[Len(got) + 1].size = 0 /\ carried = <<>>
      /\ ~Lost => Len(sent) = Len(heard)
  BY <1>1, <1>2 DEF ChatIInv, LostIsTheEnd, Lost, Taken
<1>4. ASSUME NEW i \in 1..Len(heard)
      PROVE  Chat!cut(heard[i]) = Chat!cut(sent[i]) \/ (stops /\ i > Len(got))
  <2>1. CASE i <= Len(got)
    <3>1. i \in 1..Len(got)
      BY <1>1, <2>1
    <3> QED
      BY <1>2, <3>1 DEF ChatIInv, Kept
  <2>2. CASE i > Len(got) /\ i <= Len(got) + Len(carried)
    <3>1. i - Len(got) \in 1..Len(carried) /\ heard[i] = carried[i - Len(got)]
          /\ Len(got) + (i - Len(got)) = i
      BY <1>1, <1>2, <2>2
    <3> QED
      BY <3>1 DEF ChatIInv, Kept
  <2>3. CASE i > Len(got) + Len(carried) /\ ~Lost
    <3>1. /\ i - (Len(got) + Len(carried)) \in 1..Len(inbox)
          /\ heard[i] = inbox[i - (Len(got) + Len(carried))]
          /\ (Len(got) + Len(carried)) + (i - (Len(got) + Len(carried))) = i
      BY <1>1, <1>2, <2>3
    <3> QED
      BY <2>3, <3>1 DEF ChatIInv, Kept, Taken
  <2>4. CASE i > Len(got) + Len(carried) /\ Lost
    BY <1>1, <1>3, <2>4
  <2> QED
    BY <1>1, <1>2, <2>1, <2>2, <2>3, <2>4
<1>5. Len(heard) = Len(sent) \/ (stops /\ sent[Len(got) + 1].size = 0)
  BY <1>3
<1>6. reader = "eof" =>
        messages \in Chat!HasEnd /\ (~hungup => stops /\ Len(heard) < Len(sent))
  BY <1>1, <1>2, <1>3 DEF ChatIInv, NotYetOpen, Kept
<1>7. messages \in Chat!Learns =>
        \A i \in 1..Len(outbox) : outbox[i].to = sent[1].from /\ outbox[i].to # "unnamed"
  BY DEF ChatIInv, Learned
<1>8. Chat!IsInjective(claims)
  BY DEF ChatIInv, Claims, Chat!IsInjective
<1> QED
  BY <1>4, <1>5, <1>6, <1>7, <1>8 DEF Chat!HeardFromTheFirst, heard

(* Every endpoint of messages, forked or of one peer: a session and an     *)
(* endpoint hear from the message that opened them on, in order of receipt *)
(* and none twice; a queue that is full drops but never reorders; a channel*)
(* is claimed once; and what an endpoint sends goes to the sender of its   *)
(* first message.                                                          *)
THEOREM HeardAsItWasSent == EndpointsSpec => []HeardAsSent
<1>1. EndpointsInit => DemuxIInv /\ ChatIInv
  BY DemuxInit, ChatInit DEF EndpointsInit
<1>2. DemuxIInv /\ [EndpointsNext]_everything => DemuxIInv'
  BY OneOfTheListener, DemuxStep
<1>3. [EndpointsNext]_everything => Chat!Next \/ UNCHANGED messageVars
  BY DEF EndpointsNext, everything
<1>4. ChatIInv /\ [EndpointsNext]_everything => ChatIInv'
  BY <1>3, ChatStep
<1>5. DemuxIInv /\ ChatIInv => HeardAsSent
  BY DemuxSays, ChatSays DEF HeardAsSent
<1> QED
  BY <1>1, <1>2, <1>4, <1>5, PTL DEF EndpointsSpec, everything

-----------------------------------------------------------------------------
(* The path that processes share.                                          *)

Steps == {"start", "probe", "clear", "make", "mode", "opens", "open", "serving", "done",
          "crashed", "failed"}

(* What may be asked of a path.                                            *)
Asked ==
  {s \in Shared!Specs :
     /\ s.scheme # "pipe" => s.create
     /\ s.scheme = "pty" => s.unlink /\ ~s.mode
     /\ abstract => s.scheme \notin {"pipe", "pty"}}

(* The variables' types; the number of a pty's device is whatever the      *)
(* kernel gave it.                                                         *)
PathTyped ==
  /\ abstract \in BOOLEAN
  /\ path = [kind |-> path.kind, by |-> path.by, mode |-> path.mode] /\ path.mode \in BOOLEAN
  /\ spec \in [Processes -> Asked]
  /\ step \in [Processes -> Steps]
  /\ why \in [Processes -> {"none", "in use", "gone", "exists", "missing", "not a FIFO", "mode", "peer"}]
  /\ guard \subseteq Processes /\ DOMAIN socket = Processes
  /\ socket = [p \in Processes |-> socket[p]]
  /\ runs \in Nat /\ run \in [Processes -> 0..runs]
  /\ alone \subseteq Processes

(* A process has a socket, and a run, only while it goes on.               *)
HeldWhile == \A p \in Processes :
  /\ step[p] \in Shared!Ended => socket[p] = 0
  /\ step[p] \notin Shared!Ended => run[p] # 0
  /\ spec[p].scheme # "pty" /\ socket[p] # 0 =>
       step[p] \in {"mode", "opens", "open"} /\ socket[p] = run[p]
  /\ spec[p].scheme = "pipe" => socket[p] = 0
  /\ step[p] = "serving" => spec[p].scheme = "listen"
  /\ step[p] \in {"mode", "opens"} => spec[p].scheme # "pty"

(* An abstract name is there for as long as a process holds it.            *)
NameIsHeld ==
  abstract /\ path # Shared!Nothing =>
    \E q \in Processes : socket[q] = run[q] /\ run[q] # 0 /\ path.by = run[q]

(* Of a process beside which no other has acted since it started.          *)
Undisturbed(p) ==
  /\ \A q \in Processes : q # p => step[q] \in Shared!Ended
  /\ step[p] = "clear" /\ spec[p].scheme # "pty" => path # Shared!Nothing
  /\ step[p] = "make" /\ spec[p].unlink /\ spec[p].scheme \in {"listen", "dgram"} =>
       path = Shared!Nothing \/ path.kind = "link"
  /\ step[p] = "mode" => spec[p].scheme # "pty" /\ path.by = run[p]
  /\ step[p] = "failed" /\ spec[p].unlink /\ spec[p].scheme \in {"listen", "dgram"} =>
       why[p] = "peer" \/ (why[p] = "mode" /\ abstract) \/ path.kind = "link"
  /\ step[p] = "open" /\ spec[p].scheme = "pty" => path = Shared!At("link", socket[p])
  /\ socket[p] # 0 /\ spec[p].scheme # "pty" => path.by = run[p]
  /\ step[p] \in {"opens", "open", "serving"} /\ spec[p].scheme # "pipe" /\ spec[p].mode =>
       ~abstract /\ path.mode
  /\ step[p] \in {"open", "serving"} =>
       p \in guard \/ abstract \/ (spec[p].scheme = "pipe" /\ ~spec[p].unlink)
  /\ step[p] = "done" /\ (spec[p].scheme = "pipe" => spec[p].unlink) => path = Shared!Nothing

SharedIInv == PathTyped /\ HeldWhile /\ NameIsHeld /\ \A p \in alone : Undisturbed(p)

(* As processes come to share a path, none has begun.                      *)
LEMMA SharedInit == Shared!Init => SharedIInv
<1> SUFFICES ASSUME Shared!Init PROVE SharedIInv
  OBVIOUS
<1>1. /\ \A p \in Processes : step[p] = "start" /\ socket[p] = 0 /\ why[p] = "none" /\ run[p] = 0
      /\ step = [p \in Processes |-> "start"] /\ why = [p \in Processes |-> "none"]
      /\ socket = [p \in Processes |-> 0] /\ run = [p \in Processes |-> 0]
      /\ guard = {} /\ runs = 0 /\ alone = {}
  BY DEF Shared!Init
<1>2. abstract \in BOOLEAN
  BY Zenon DEF Shared!Init
<1>3. /\ path = [kind |-> path.kind, by |-> path.by, mode |-> path.mode]
      /\ path.mode = FALSE /\ (abstract => path = Shared!Nothing)
  BY DEF Shared!Init, Shared!Found, Shared!Nothing, Shared!At
<1>4. path.mode \in BOOLEAN
  BY <1>3, Zenon
<1>5. spec \in [Processes -> Asked]
  BY DEF Shared!Init, Asked
<1>6. PathTyped
  BY <1>1, <1>2, <1>3, <1>4, <1>5 DEF PathTyped, Steps
<1>7. HeldWhile
  BY <1>1 DEF HeldWhile, Shared!Ended
<1> QED
  BY <1>1, <1>3, <1>6, <1>7 DEF SharedIInv, NameIsHeld

(* Only the process that acts moves, and no other stays alone.             *)
LEMMA OneMoves ==
  ASSUME SharedIInv, NEW p \in Processes, NEW x \in Steps, step' = [step EXCEPT ![p] = x]
  PROVE  /\ step' \in [Processes -> Steps] /\ step'[p] = x
         /\ \A q \in Processes : q # p => step'[q] = step[q]
BY DEF SharedIInv, PathTyped

(* A process that fails says why.                                          *)
LEMMA OneFails ==
  ASSUME SharedIInv, NEW p \in Processes,
         NEW x \in {"none", "in use", "gone", "exists", "missing", "not a FIFO", "mode", "peer"},
         why' = [why EXCEPT ![p] = x]
  PROVE  /\ why' \in [Processes -> {"none", "in use", "gone", "exists", "missing", "not a FIFO",
                                    "mode", "peer"}]
         /\ why'[p] = x
BY DEF SharedIInv, PathTyped

(* What an invariant's conjuncts say of the process that acts.             *)
LEMMA OfTheOne ==
  ASSUME SharedIInv, NEW p \in Processes
  PROVE  /\ spec[p] \in Shared!Specs /\ (spec[p].scheme = "pty" => spec[p].unlink /\ ~spec[p].mode)
         /\ (abstract => spec[p].scheme \notin {"pipe", "pty"})
         /\ step[p] \in Steps /\ run[p] \in Nat
         /\ step[p] \in Shared!Ended => socket[p] = 0
         /\ step[p] \notin Shared!Ended => run[p] # 0
         /\ spec[p].scheme # "pty" /\ socket[p] # 0 =>
              step[p] \in {"mode", "opens", "open"} /\ socket[p] = run[p]
         /\ spec[p].scheme = "pipe" => socket[p] = 0
         /\ step[p] = "serving" => spec[p].scheme = "listen"
         /\ step[p] \in {"mode", "opens"} => spec[p].scheme # "pty"
         /\ p \in alone => Undisturbed(p)
<1>1. /\ spec[p] \in Shared!Specs /\ (spec[p].scheme = "pty" => spec[p].unlink /\ ~spec[p].mode)
      /\ (abstract => spec[p].scheme \notin {"pipe", "pty"})
      /\ step[p] \in Steps
  <2>1. spec[p] \in Asked /\ step[p] \in Steps
    BY DEF SharedIInv, PathTyped
  <2> QED
    BY <2>1 DEF Asked
<1>2. run[p] \in Nat
  <2>1. run \in [Processes -> 0..runs] /\ runs \in Nat
    BY DEF SharedIInv, PathTyped
  <2> QED
    BY <2>1
<1>3. p \in alone => Undisturbed(p)
  BY DEF SharedIInv
<1>4. /\ step[p] \in Shared!Ended => socket[p] = 0
      /\ step[p] \notin Shared!Ended => run[p] # 0
      /\ spec[p].scheme # "pty" /\ socket[p] # 0 =>
           step[p] \in {"mode", "opens", "open"} /\ socket[p] = run[p]
      /\ spec[p].scheme = "pipe" => socket[p] = 0
      /\ step[p] = "serving" => spec[p].scheme = "listen"
      /\ step[p] \in {"mode", "opens"} => spec[p].scheme # "pty"
  BY DEF SharedIInv, HeldWhile
<1> QED
  BY <1>1, <1>2, <1>3, <1>4

(* A step that leaves the sockets, the path and the runs as they are.      *)
LEMMA OnlyMoves ==
  ASSUME SharedIInv, NEW p \in Processes, NEW x \in Steps, step' = [step EXCEPT ![p] = x],
         UNCHANGED <<abstract, spec, runs, run, path, socket, guard>>,
         alone' = alone \cap {p}, step[p] \notin Shared!Ended,
         \/ why' = why
         \/ \E y \in {"in use", "gone", "exists", "missing", "not a FIFO", "mode", "peer"} :
              why' = [why EXCEPT ![p] = y],
         x \in Shared!Ended => socket[p] = 0,
         x = "serving" => spec[p].scheme = "listen",
         x \in {"mode", "opens"} => spec[p].scheme # "pty",
         spec[p].scheme # "pty" /\ socket[p] # 0 => x \in {"mode", "opens", "open"},
         p \in alone => Undisturbed(p)'
  PROVE  SharedIInv'
<1>1. /\ step' \in [Processes -> Steps] /\ step'[p] = x
      /\ \A q \in Processes : q # p => step'[q] = step[q]
  BY OneMoves
<1>2. why' \in [Processes -> {"none", "in use", "gone", "exists", "missing", "not a FIFO",
                              "mode", "peer"}]
  BY OneFails DEF SharedIInv, PathTyped
<1>3. PathTyped'
  <2>1. alone' \subseteq Processes /\ Asked' = Asked
    BY DEF SharedIInv, PathTyped, Asked
  <2>2. abstract' \in BOOLEAN /\ path'.mode \in BOOLEAN
    BY Zenon DEF SharedIInv, PathTyped
  <2>3. /\ path' = [kind |-> path'.kind, by |-> path'.by, mode |-> path'.mode]
        /\ spec' \in [Processes -> Asked'] /\ guard' \subseteq Processes
    BY <2>1 DEF SharedIInv, PathTyped
  <2>4. /\ DOMAIN socket' = Processes /\ socket' = [q \in Processes |-> socket'[q]]
        /\ runs' \in Nat /\ run' \in [Processes -> 0..runs']
    BY DEF SharedIInv, PathTyped
  <2> QED
    BY <1>1, <1>2, <2>1, <2>2, <2>3, <2>4 DEF PathTyped
<1>4. HeldWhile'
  BY <1>1 DEF SharedIInv, HeldWhile
<1>5. NameIsHeld'
  BY DEF SharedIInv, NameIsHeld, Shared!Nothing, Shared!At
<1> QED
  BY <1>3, <1>4, <1>5 DEF SharedIInv

(* A process that starts has touched nothing yet.                          *)
LEMMA StartsKeeps == ASSUME SharedIInv, NEW p \in Processes, Shared!Starts(p) PROVE SharedIInv'
<1>1. /\ step[p] \in Shared!Ended /\ runs' = runs + 1 /\ run' = [run EXCEPT ![p] = runs + 1]
      /\ why' = [why EXCEPT ![p] = "none"]
      /\ alone' = IF Shared!Running = {} THEN {p} ELSE {}
      /\ UNCHANGED <<abstract, path, spec, guard>>
  BY DEF Shared!Starts
<1>2. PICK x \in {"probe", "make"} :
        /\ step' = [step EXCEPT ![p] = x]
        /\ x = "make" => ~spec[p].unlink \/ spec[p].scheme = "pipe"
  BY DEF Shared!Starts, Shared!To
<1>3. /\ step' \in [Processes -> Steps] /\ step'[p] = x
      /\ \A q \in Processes : q # p => step'[q] = step[q]
  BY <1>2, OneMoves DEF Steps
<1>4. /\ runs \in Nat /\ runs + 1 \in Nat /\ runs + 1 # 0
      /\ run \in [Processes -> 0..runs] /\ run' \in [Processes -> 0..runs']
      /\ run'[p] = runs + 1 /\ \A q \in Processes : q # p => run'[q] = run[q]
  <2>1. run \in [Processes -> 0..runs] /\ runs \in Nat
    BY DEF SharedIInv, PathTyped
  <2>2. 0..runs \subseteq 0..(runs + 1) /\ runs + 1 \in 0..(runs + 1)
    BY <2>1
  <2> QED
    BY <1>1, <2>1, <2>2
<1>5. /\ DOMAIN socket' = Processes /\ socket' = [q \in Processes |-> socket'[q]]
      /\ \A q \in Processes : q # p => socket'[q] = socket[q]
      /\ spec[p].scheme # "pty" => socket' = socket
  BY DEF Shared!Starts, SharedIInv, PathTyped
<1>6. socket[p] = 0
  BY <1>1, OfTheOne
<1>7. PathTyped'
  <2>1. alone' \subseteq Processes /\ Asked' = Asked
    BY <1>1 DEF SharedIInv, PathTyped, Asked
  <2>2. abstract' \in BOOLEAN /\ path'.mode \in BOOLEAN
    BY <1>1, Zenon DEF SharedIInv, PathTyped
  <2> QED
    BY <1>1, <1>3, <1>4, <1>5, <2>1, <2>2, OneFails DEF SharedIInv, PathTyped
<1>8. HeldWhile'
  BY <1>1, <1>2, <1>3, <1>4, <1>5, <1>6 DEF SharedIInv, HeldWhile, Shared!Ended
<1>9. NameIsHeld'
  <2> SUFFICES ASSUME abstract, path # Shared!Nothing
               PROVE  \E q \in Processes : socket'[q] = run'[q] /\ run'[q] # 0 /\ path.by = run'[q]
    BY <1>1 DEF NameIsHeld, Shared!Nothing, Shared!At
  <2>1. PICK q \in Processes : socket[q] = run[q] /\ run[q] # 0 /\ path.by = run[q]
    BY DEF SharedIInv, NameIsHeld
  <2>2. q # p
    BY <1>6, <2>1
  <2> QED
    BY <1>4, <1>5, <2>1, <2>2
<1>10. ASSUME p \in alone' PROVE Undisturbed(p)'
  <2>1. \A q \in Processes : step[q] \in Shared!Ended
    BY <1>1, <1>10 DEF Shared!Running
  <2>2. UNCHANGED spec /\ (spec[p].scheme # "pty" => socket'[p] = 0)
    BY <1>1, <1>5, <1>6
  <2> QED
    BY <1>2, <1>3, <2>1, <2>2 DEF Undisturbed
<1> QED
  BY <1>1, <1>7, <1>8, <1>9, <1>10 DEF SharedIInv

(* What stands in the way is looked at.                                    *)
LEMMA ProbeKeeps ==
  ASSUME SharedIInv, NEW p \in Processes, Shared!unlink_stale(p) \/ Shared!dangling(p)
  PROVE  SharedIInv'
<1>1. /\ step[p] = "probe" /\ alone' = alone \cap {p}
      /\ UNCHANGED <<abstract, spec, runs, run, path, socket, guard>>
  BY DEF Shared!unlink_stale, Shared!dangling, Shared!Beside, Shared!Kept
<1>2. step[p] \notin Shared!Ended
  BY <1>1 DEF Shared!Ended
<1>3. spec[p].scheme # "pty" => socket[p] = 0
  BY <1>1, OfTheOne
<1>4. CASE Shared!dangling(p)
  <2>1. /\ spec[p].scheme = "pty" /\ why' = why
        /\ \E x \in {"clear", "make"} : step' = [step EXCEPT ![p] = x]
    BY <1>4 DEF Shared!dangling, Shared!To
  <2>2. PICK x \in {"clear", "make"} : step' = [step EXCEPT ![p] = x]
    BY <2>1
  <2>3. x \in Steps /\ step'[p] = x /\ \A q \in Processes : q # p => step'[q] = step[q]
    BY <2>2, OneMoves DEF Steps
  <2>4. p \in alone => Undisturbed(p)'
    BY <1>1, <2>1, <2>2, <2>3, OfTheOne DEF Undisturbed
  <2> QED
    BY <1>1, <1>2, <2>1, <2>2, <2>3, <2>4, OnlyMoves DEF Shared!Ended
<1>5. CASE Shared!unlink_stale(p)
  <2>1. /\ spec[p].scheme # "pty" /\ socket[p] = 0
        /\ \/ /\ step' = [step EXCEPT ![p] = "make"] /\ why' = why
              /\ abstract \/ path = Shared!Nothing \/ Shared!Gone
           \/ /\ step' = [step EXCEPT ![p] = "failed"] /\ why' = [why EXCEPT ![p] = "in use"]
              /\ Shared!Answers
           \/ /\ step' = [step EXCEPT ![p] = "clear"] /\ why' = why /\ path # Shared!Nothing
    BY <1>3, <1>5 DEF Shared!unlink_stale, Shared!To, Shared!Fails
  <2>2. p \in alone => ~Shared!Live
    BY <1>3, <2>1, OfTheOne DEF Undisturbed, Shared!Live, SharedIInv, HeldWhile
  <2>3. CASE /\ step' = [step EXCEPT ![p] = "make"] /\ why' = why
             /\ abstract \/ path = Shared!Nothing \/ Shared!Gone
    <3>1. "make" \in Steps /\ step'[p] = "make" /\ \A q \in Processes : q # p => step'[q] = step[q]
      BY <2>3, OneMoves DEF Steps
    <3>2. p \in alone /\ abstract => path = Shared!Nothing
      <4> SUFFICES ASSUME p \in alone, abstract, path # Shared!Nothing PROVE FALSE
        OBVIOUS
      <4>1. PICK q \in Processes : socket[q] = run[q] /\ run[q] # 0
        BY DEF SharedIInv, NameIsHeld
      <4>2. q # p
        BY <2>1, <4>1
      <4>3. step[q] \in Shared!Ended
        BY <4>2, OfTheOne DEF Undisturbed
      <4> QED
        BY <4>1, <4>3, OfTheOne
    <3>3. p \in alone => Undisturbed(p)'
      BY <1>1, <2>1, <2>3, <3>1, <3>2, OfTheOne
      DEF Undisturbed, Shared!Gone, Shared!Nothing, Shared!At
    <3> QED
      BY <1>1, <1>2, <2>1, <2>3, <3>1, <3>3, OnlyMoves DEF Shared!Ended
  <2>4. CASE /\ step' = [step EXCEPT ![p] = "failed"] /\ why' = [why EXCEPT ![p] = "in use"]
             /\ Shared!Answers
    <3>1. "failed" \in Steps /\ p \notin alone
      BY <2>2, <2>4 DEF Steps, Shared!Answers
    <3> QED
      BY <1>1, <1>2, <2>1, <2>4, <3>1, OnlyMoves
  <2>5. CASE step' = [step EXCEPT ![p] = "clear"] /\ why' = why /\ path # Shared!Nothing
    <3>1. "clear" \in Steps /\ step'[p] = "clear" /\ \A q \in Processes : q # p => step'[q] = step[q]
      BY <2>5, OneMoves DEF Steps
    <3>2. p \in alone => Undisturbed(p)'
      BY <1>1, <2>1, <2>5, <3>1, OfTheOne DEF Undisturbed, Shared!Nothing, Shared!At
    <3> QED
      BY <1>1, <1>2, <2>1, <2>5, <3>1, <3>2, OnlyMoves DEF Shared!Ended
  <2> QED
    BY <2>1, <2>3, <2>4, <2>5
<1> QED
  BY <1>4, <1>5

(* A step of one process, of what it may do to the path and to its socket. *)
LEMMA OneActs ==
  ASSUME SharedIInv, NEW p \in Processes, NEW x \in Steps, step' = [step EXCEPT ![p] = x],
         UNCHANGED <<abstract, spec, runs, run>>,
         alone' = alone \cap {p}, step[p] \notin Shared!Ended,
         \/ why' = why
         \/ \E y \in {"in use", "gone", "exists", "missing", "not a FIFO", "mode", "peer"} :
              why' = [why EXCEPT ![p] = y],
         guard' \subseteq Processes,
         socket' = socket \/ socket' = [socket EXCEPT ![p] = socket'[p]],
         path' = [kind |-> path'.kind, by |-> path'.by, mode |-> path'.mode],
         path'.mode \in BOOLEAN,
         x \in Shared!Ended => socket'[p] = 0,
         x = "serving" => spec[p].scheme = "listen",
         x \in {"mode", "opens"} => spec[p].scheme # "pty",
         spec[p].scheme = "pipe" => socket'[p] = 0,
         spec[p].scheme # "pty" /\ socket'[p] # 0 =>
           x \in {"mode", "opens", "open"} /\ socket'[p] = run[p],
         NameIsHeld',
         p \in alone => Undisturbed(p)'
  PROVE  SharedIInv'
<1>1. /\ step' \in [Processes -> Steps] /\ step'[p] = x
      /\ \A q \in Processes : q # p => step'[q] = step[q]
  BY OneMoves
<1>2. why' \in [Processes -> {"none", "in use", "gone", "exists", "missing", "not a FIFO",
                              "mode", "peer"}]
  BY OneFails DEF SharedIInv, PathTyped
<1>3. /\ DOMAIN socket' = Processes /\ socket' = [q \in Processes |-> socket'[q]]
      /\ \A q \in Processes : q # p => socket'[q] = socket[q]
  <2>1. DOMAIN socket = Processes /\ socket = [q \in Processes |-> socket[q]]
    BY DEF SharedIInv, PathTyped
  <2> QED
    BY <2>1
<1>4. PathTyped'
  <2>1. alone' \subseteq Processes /\ Asked' = Asked
    BY DEF SharedIInv, PathTyped, Asked
  <2>2. abstract' \in BOOLEAN
    BY Zenon DEF SharedIInv, PathTyped
  <2>3. spec' \in [Processes -> Asked'] /\ runs' \in Nat /\ run' \in [Processes -> 0..runs']
    BY <2>1 DEF SharedIInv, PathTyped
  <2> QED
    BY <1>1, <1>2, <1>3, <2>1, <2>2, <2>3 DEF PathTyped
<1>5. HeldWhile'
  <2> SUFFICES ASSUME NEW q \in Processes
               PROVE  /\ step'[q] \in Shared!Ended => socket'[q] = 0
                      /\ step'[q] \notin Shared!Ended => run[q] # 0
                      /\ spec[q].scheme # "pty" /\ socket'[q] # 0 =>
                           step'[q] \in {"mode", "opens", "open"} /\ socket'[q] = run[q]
                      /\ spec[q].scheme = "pipe" => socket'[q] = 0
                      /\ step'[q] = "serving" => spec[q].scheme = "listen"
                      /\ step'[q] \in {"mode", "opens"} => spec[q].scheme # "pty"
    BY DEF HeldWhile, Shared!Ended
  <2>1. CASE q = p
    <3>1. step'[q] = x /\ socket'[q] = socket'[p] /\ spec[q] = spec[p]
      BY <1>1, <2>1
    <3>2. run[q] # 0
      BY <2>1, OfTheOne, Zenon
    <3>3. step'[q] \in Shared!Ended => socket'[q] = 0
      BY <3>1
    <3>4. /\ spec[q].scheme = "pipe" => socket'[q] = 0
          /\ step'[q] = "serving" => spec[q].scheme = "listen"
          /\ step'[q] \in {"mode", "opens"} => spec[q].scheme # "pty"
      BY <3>1
    <3>5. spec[q].scheme # "pty" /\ socket'[q] # 0 =>
            step'[q] \in {"mode", "opens", "open"} /\ socket'[q] = run[q]
      BY <2>1, <3>1
    <3> QED
      BY <3>2, <3>3, <3>4, <3>5
  <2>2. CASE q # p
    <3>1. step'[q] = step[q] /\ socket'[q] = socket[q]
      BY <1>1, <1>3, <2>2
    <3> QED
      BY <3>1, OfTheOne, Zenon
  <2> QED
    BY <2>1, <2>2
<1> QED
  BY <1>4, <1>5 DEF SharedIInv

(* What stays at a path keeps its name held.                               *)
LEMMA NameStays ==
  ASSUME SharedIInv, UNCHANGED <<abstract, run, socket>>, path'.by = path.by,
         path = Shared!Nothing => path' = Shared!Nothing
  PROVE  NameIsHeld'
BY DEF SharedIInv, NameIsHeld, Shared!Nothing, Shared!At

(* A socket that is closed gives its abstract name back.                   *)
LEMMA NameGoes ==
  ASSUME SharedIInv, NEW p \in Processes, UNCHANGED <<abstract, run>>,
         socket' = [socket EXCEPT ![p] = 0],
         path' = Shared!Nothing \/ (path' = path /\ (abstract => path.by # run[p]))
  PROVE  NameIsHeld'
<1> SUFFICES ASSUME abstract, path' # Shared!Nothing
             PROVE  \E q \in Processes : socket'[q] = run[q] /\ run[q] # 0 /\ path'.by = run[q]
  BY DEF NameIsHeld, Shared!Nothing, Shared!At
<1>1. path' = path /\ path.by # run[p]
  OBVIOUS
<1>2. PICK q \in Processes : socket[q] = run[q] /\ run[q] # 0 /\ path.by = run[q]
  BY <1>1 DEF SharedIInv, NameIsHeld
<1>3. socket'[q] = socket[q]
  BY <1>1, <1>2 DEF SharedIInv, PathTyped
<1> QED
  BY <1>1, <1>2, <1>3

(* Nothing is a path's record, and so is what there was.                   *)
LEMMA PathsAre ==
  ASSUME SharedIInv
  PROVE  /\ path = [kind |-> path.kind, by |-> path.by, mode |-> path.mode]
         /\ path.mode \in BOOLEAN
         /\ \A k, b : /\ Shared!At(k, b) = [kind |-> k, by |-> b, mode |-> FALSE]
                      /\ Shared!At(k, b).kind = k /\ Shared!At(k, b).by = b
                      /\ Shared!At(k, b).mode \in BOOLEAN
         /\ Shared!Nothing.kind = "nothing" /\ Shared!Nothing.by = 0
         /\ Shared!Nothing.mode \in BOOLEAN
         /\ Shared!Nothing = [kind |-> Shared!Nothing.kind, by |-> Shared!Nothing.by,
                              mode |-> Shared!Nothing.mode]
<1>1. FALSE \in BOOLEAN
  BY Zenon
<1> QED
  BY <1>1 DEF SharedIInv, PathTyped, Shared!At, Shared!Nothing

(* A file removed from the path is no longer anyone's there.               *)
LEMMA RemoveKeeps == ASSUME SharedIInv, NEW p \in Processes, Shared!remove_file(p) PROVE SharedIInv'
<1>1. /\ step[p] = "clear" /\ alone' = alone \cap {p} /\ step[p] \notin Shared!Ended
      /\ UNCHANGED <<abstract, spec, runs, run, socket, guard>>
  BY DEF Shared!remove_file, Shared!Beside, Shared!Kept, Shared!Ended
<1>2. spec[p].scheme # "pty" => socket[p] = 0
  BY <1>1, OfTheOne
<1>3. /\ spec[p].scheme = "pipe" => socket[p] = 0
      /\ guard \subseteq Processes
  BY OfTheOne DEF SharedIInv, PathTyped
<1>4. CASE /\ path = Shared!Nothing /\ spec[p].scheme # "pty" /\ path' = path
           /\ step' = [step EXCEPT ![p] = "failed"] /\ why' = [why EXCEPT ![p] = "gone"]
  <2>1. "failed" \in Steps /\ p \notin alone
    BY <1>1, <1>4, OfTheOne DEF Steps, Undisturbed
  <2> QED
    BY <1>1, <1>2, <1>4, <2>1, OnlyMoves
<1>5. CASE /\ path' = Shared!Nothing /\ why' = why /\ step' = [step EXCEPT ![p] = "make"]
  <2>1. "make" \in Steps /\ step'[p] = "make" /\ \A q \in Processes : q # p => step'[q] = step[q]
    BY <1>5, OneMoves DEF Steps
  <2>2. /\ path' = [kind |-> path'.kind, by |-> path'.by, mode |-> path'.mode]
        /\ path'.mode \in BOOLEAN
    BY <1>5, PathsAre
  <2>3. NameIsHeld'
    BY <1>5 DEF NameIsHeld, Shared!Nothing, Shared!At
  <2>4. p \in alone => Undisturbed(p)'
    BY <1>1, <1>2, <1>5, <2>1, OfTheOne DEF Undisturbed, Shared!Nothing, Shared!At
  <2> QED
    BY <1>1, <1>2, <1>3, <1>5, <2>1, <2>2, <2>3, <2>4, OneActs DEF Shared!Ended
<1> QED
  BY <1>4, <1>5 DEF Shared!remove_file, Shared!Fails, Shared!To

(* A socket is bound where there was nothing.                              *)
LEMMA BindKeeps == ASSUME SharedIInv, NEW p \in Processes, Shared!bind(p) PROVE SharedIInv'
<1>1. /\ step[p] = "make" /\ spec[p].scheme \in {"listen", "dgram"}
      /\ alone' = alone \cap {p} /\ step[p] \notin Shared!Ended
      /\ UNCHANGED <<abstract, spec, runs, run, guard>>
  BY DEF Shared!bind, Shared!Beside, Shared!Kept, Shared!Ended
<1>2. socket[p] = 0 /\ run[p] # 0 /\ guard \subseteq Processes
  BY <1>1, OfTheOne DEF SharedIInv, PathTyped
<1>3. CASE /\ path # Shared!Nothing /\ UNCHANGED <<path, socket>>
           /\ step' = [step EXCEPT ![p] = "failed"] /\ why' = [why EXCEPT ![p] = "exists"]
  <2>1. "failed" \in Steps /\ step'[p] = "failed" /\ \A q \in Processes : q # p => step'[q] = step[q]
    BY <1>3, OneMoves DEF Steps
  <2>2. p \in alone => Undisturbed(p)'
    BY <1>1, <1>2, <1>3, <2>1, OfTheOne DEF Undisturbed, Shared!Nothing, Shared!At
  <2> QED
    BY <1>1, <1>2, <1>3, <2>1, <2>2, OnlyMoves
<1>4. CASE /\ path' = Shared!At("socket", run[p]) /\ socket' = [socket EXCEPT ![p] = run[p]]
           /\ step' = [step EXCEPT ![p] = "mode"] /\ why' = why
  <2>1. "mode" \in Steps /\ step'[p] = "mode" /\ \A q \in Processes : q # p => step'[q] = step[q]
    BY <1>4, OneMoves DEF Steps
  <2>2. /\ path' = [kind |-> path'.kind, by |-> path'.by, mode |-> path'.mode]
        /\ path'.mode \in BOOLEAN /\ path'.by = run[p]
    BY <1>4, PathsAre
  <2>3. socket'[p] = run[p]
    BY <1>4 DEF SharedIInv, PathTyped
  <2>4. NameIsHeld'
    BY <1>1, <1>2, <2>2, <2>3 DEF NameIsHeld
  <2>5. p \in alone => Undisturbed(p)'
    BY <1>1, <1>2, <2>1, <2>2, <2>3, OfTheOne DEF Undisturbed
  <2> QED
    BY <1>1, <1>2, <1>4, <2>1, <2>2, <2>3, <2>4, <2>5, OneActs DEF Shared!Ended
<1> QED
  BY <1>3, <1>4 DEF Shared!bind, Shared!Fails, Shared!To

(* A FIFO is made where there was nothing, or found.                       *)
LEMMA EnsureKeeps == ASSUME SharedIInv, NEW p \in Processes, Shared!ensure(p) PROVE SharedIInv'
<1>1. /\ step[p] = "make" /\ spec[p].scheme = "pipe"
      /\ alone' = alone \cap {p} /\ step[p] \notin Shared!Ended
      /\ UNCHANGED <<abstract, spec, runs, run, guard, socket>>
  BY DEF Shared!ensure, Shared!Beside, Shared!Kept, Shared!Ended
<1>2. socket[p] = 0 /\ guard \subseteq Processes /\ ~abstract
  BY <1>1, OfTheOne DEF SharedIInv, PathTyped
<1>3. CASE /\ path' = Shared!At("fifo", run[p]) /\ why' = why
           /\ step' = [step EXCEPT ![p] = "mode"]
  <2>1. "mode" \in Steps /\ step'[p] = "mode" /\ \A q \in Processes : q # p => step'[q] = step[q]
    BY <1>3, OneMoves DEF Steps
  <2>2. /\ path' = [kind |-> path'.kind, by |-> path'.by, mode |-> path'.mode]
        /\ path'.mode \in BOOLEAN /\ path'.by = run[p]
    BY <1>3, PathsAre
  <2>3. NameIsHeld'
    BY <1>1, <1>2 DEF NameIsHeld
  <2>4. p \in alone => Undisturbed(p)'
    BY <1>1, <1>2, <2>1, <2>2, OfTheOne DEF Undisturbed
  <2> QED
    BY <1>1, <1>2, <1>3, <2>1, <2>2, <2>3, <2>4, OneActs DEF Shared!Ended
<1>4. CASE path' = path /\ why' = why /\ step' = [step EXCEPT ![p] = "opens"]
  <2>1. "opens" \in Steps /\ step'[p] = "opens" /\ \A q \in Processes : q # p => step'[q] = step[q]
    BY <1>4, OneMoves DEF Steps
  <2>2. p \in alone => Undisturbed(p)'
    BY <1>1, <1>2, <2>1, OfTheOne DEF Undisturbed
  <2> QED
    BY <1>1, <1>2, <1>4, <2>1, <2>2, OnlyMoves DEF Shared!Ended
<1>5. CASE /\ path' = path /\ step' = [step EXCEPT ![p] = "failed"]
           /\ \E y \in {"missing", "not a FIFO"} : why' = [why EXCEPT ![p] = y]
  <2>1. "failed" \in Steps /\ step'[p] = "failed" /\ \A q \in Processes : q # p => step'[q] = step[q]
    BY <1>5, OneMoves DEF Steps
  <2>2. p \in alone => Undisturbed(p)'
    BY <1>1, <1>2, <2>1, OfTheOne DEF Undisturbed
  <2> QED
    BY <1>1, <1>2, <1>5, <2>1, <2>2, OnlyMoves
<1> QED
  BY <1>3, <1>4, <1>5 DEF Shared!ensure, Shared!Fails, Shared!To

(* A link is made where there was nothing.                                 *)
LEMMA SymlinkKeeps == ASSUME SharedIInv, NEW p \in Processes, Shared!symlink(p) PROVE SharedIInv'
<1>1. /\ step[p] = "make" /\ spec[p].scheme = "pty"
      /\ alone' = alone \cap {p} /\ step[p] \notin Shared!Ended
      /\ UNCHANGED <<abstract, spec, runs, run>>
  BY DEF Shared!symlink, Shared!Beside, Shared!Kept, Shared!Ended
<1>2. ~abstract /\ guard \subseteq Processes /\ ~spec[p].mode
  BY <1>1, OfTheOne DEF SharedIInv, PathTyped
<1>3. NameIsHeld'
  BY <1>1, <1>2 DEF NameIsHeld
<1>4. CASE /\ socket' = [socket EXCEPT ![p] = 0] /\ UNCHANGED <<path, guard>>
           /\ step' = [step EXCEPT ![p] = "failed"] /\ why' = [why EXCEPT ![p] = "exists"]
  <2>1. "failed" \in Steps /\ step'[p] = "failed" /\ \A q \in Processes : q # p => step'[q] = step[q]
    BY <1>4, OneMoves DEF Steps
  <2>2. socket'[p] = 0
    BY <1>4 DEF SharedIInv, PathTyped
  <2>3. p \in alone => Undisturbed(p)'
    BY <1>1, <2>1, <2>2, OfTheOne DEF Undisturbed
  <2> QED
    BY <1>1, <1>2, <1>3, <1>4, <2>1, <2>2, <2>3, PathsAre, OneActs
<1>5. CASE /\ path' = Shared!At("link", socket[p]) /\ guard' = guard \cup {p}
           /\ step' = [step EXCEPT ![p] = "open"] /\ UNCHANGED <<why, socket>>
  <2>1. "open" \in Steps /\ step'[p] = "open" /\ \A q \in Processes : q # p => step'[q] = step[q]
    BY <1>5, OneMoves DEF Steps
  <2>2. /\ path' = [kind |-> path'.kind, by |-> path'.by, mode |-> path'.mode]
        /\ path'.mode \in BOOLEAN
    BY <1>5, PathsAre
  <2>3. p \in alone => Undisturbed(p)'
    BY <1>1, <1>2, <1>5, <2>1, OfTheOne DEF Undisturbed, Shared!At
  <2> QED
    BY <1>1, <1>2, <1>3, <1>5, <2>1, <2>2, <2>3, OneActs DEF Shared!Ended
<1> QED
  BY <1>4, <1>5 DEF Shared!symlink, Shared!Fails, Shared!To

(* What closing a socket does to the path and to the name.                 *)
LEMMA ClosesKeeps ==
  ASSUME SharedIInv, NEW p \in Processes, Shared!Closes(p), UNCHANGED <<abstract, run>>
  PROVE  /\ socket' = [socket EXCEPT ![p] = 0] /\ socket'[p] = 0
         /\ path' = [kind |-> path'.kind, by |-> path'.by, mode |-> path'.mode]
         /\ path'.mode \in BOOLEAN /\ NameIsHeld'
         /\ ~abstract => path' = path
<1>1. /\ socket' = [socket EXCEPT ![p] = 0]
      /\ \/ abstract /\ path.by = run[p] /\ path' = Shared!Nothing
         \/ ~(abstract /\ path.by = run[p]) /\ path' = path
  BY DEF Shared!Closes
<1>2. NameIsHeld'
  BY <1>1, NameGoes
<1>3. socket'[p] = 0
  BY <1>1 DEF SharedIInv, PathTyped
<1>4. /\ path' = [kind |-> path'.kind, by |-> path'.by, mode |-> path'.mode]
      /\ path'.mode \in BOOLEAN
  <2>1. CASE path' = path
    BY <2>1, PathsAre
  <2>2. CASE path' = Shared!Nothing
    BY <2>2, PathsAre
  <2> QED
    BY <1>1, <2>1, <2>2
<1> QED
  BY <1>1, <1>2, <1>3, <1>4

(* A mode is set on what is at the path.                                   *)
LEMMA ModeKeeps == ASSUME SharedIInv, NEW p \in Processes, Shared!apply_mode(p) PROVE SharedIInv'
<1>1. /\ step[p] = "mode" /\ alone' = alone \cap {p} /\ step[p] \notin Shared!Ended
      /\ UNCHANGED <<abstract, spec, runs, run, guard>>
  BY DEF Shared!apply_mode, Shared!Beside, Shared!Kept, Shared!Ended
<1>2. guard \subseteq Processes /\ run[p] # 0
  BY <1>1, OfTheOne DEF SharedIInv, PathTyped
<1>3. CASE /\ abstract \/ path = Shared!Nothing
           /\ step' = [step EXCEPT ![p] = "failed"] /\ why' = [why EXCEPT ![p] = "mode"]
           /\ Shared!Closes(p)
  <2>1. "failed" \in Steps /\ step'[p] = "failed" /\ \A q \in Processes : q # p => step'[q] = step[q]
    BY <1>3, OneMoves DEF Steps
  <2>2. why'[p] = "mode"
    BY <1>3, OneFails
  <2>3. /\ socket' = [socket EXCEPT ![p] = 0] /\ socket'[p] = 0
        /\ path' = [kind |-> path'.kind, by |-> path'.by, mode |-> path'.mode]
        /\ path'.mode \in BOOLEAN /\ NameIsHeld'
    BY <1>1, <1>3, ClosesKeeps
  <2>4. p \in alone => Undisturbed(p)'
    <3>1. p \in alone => path # Shared!Nothing
      BY <1>1, <1>2, PathsAre, OfTheOne DEF Undisturbed
    <3> QED
      BY <1>1, <1>3, <2>1, <2>2, <2>3, <3>1, OfTheOne DEF Undisturbed
  <2> QED
    BY <1>1, <1>2, <1>3, <2>1, <2>3, <2>4, OneActs
<1>4. CASE /\ step' = [step EXCEPT ![p] = "opens"] /\ why' = why /\ socket' = socket
           /\ \/ spec[p].mode /\ ~abstract /\ path' = [path EXCEPT !.mode = TRUE]
              \/ ~spec[p].mode /\ path' = path
  <2>1. "opens" \in Steps /\ step'[p] = "opens" /\ \A q \in Processes : q # p => step'[q] = step[q]
    BY <1>4, OneMoves DEF Steps
  <2>2. /\ path' = [kind |-> path'.kind, by |-> path'.by, mode |-> path'.mode]
        /\ path'.by = path.by /\ (spec[p].mode => path'.mode = TRUE)
        /\ ~spec[p].mode => path' = path
    BY <1>4, PathsAre
  <2>3. path'.mode \in BOOLEAN
    <3>1. CASE spec[p].mode
      BY <2>2, <3>1, Zenon
    <3>2. CASE ~spec[p].mode
      BY <2>2, <3>2, PathsAre
    <3> QED
      BY <3>1, <3>2
  <2>4. NameIsHeld'
    <3>1. CASE abstract
      BY <1>1, <1>4, <3>1, NameStays
    <3>2. CASE ~abstract
      BY <1>1, <3>2 DEF NameIsHeld
    <3> QED
      BY <3>1, <3>2
  <2>5. p \in alone => Undisturbed(p)'
    BY <1>1, <1>4, <2>1, <2>2, OfTheOne DEF Undisturbed
  <2> QED
    BY <1>1, <1>2, <1>4, <2>1, <2>2, <2>3, <2>4, <2>5, OfTheOne, OneActs DEF Shared!Ended
<1> QED
  BY <1>3, <1>4 DEF Shared!apply_mode, Shared!Fails, Shared!To

(* An endpoint that is open is to remove its path, if it made it.          *)
LEMMA OpensKeeps == ASSUME SharedIInv, NEW p \in Processes, Shared!opens(p) PROVE SharedIInv'
<1>1. /\ step[p] = "opens" /\ alone' = alone \cap {p} /\ step[p] \notin Shared!Ended
      /\ UNCHANGED <<abstract, spec, runs, run>>
  BY DEF Shared!opens, Shared!Beside, Shared!Kept, Shared!Ended
<1>2. guard \subseteq Processes
  BY DEF SharedIInv, PathTyped
<1>3. CASE /\ step' = [step EXCEPT ![p] = "open"] /\ UNCHANGED <<why, socket, path>>
           /\ guard' = IF (IF spec[p].scheme = "pipe" THEN spec[p].unlink ELSE ~abstract)
                       THEN guard \cup {p} ELSE guard
  <2>1. "open" \in Steps /\ step'[p] = "open" /\ \A q \in Processes : q # p => step'[q] = step[q]
    BY <1>3, OneMoves DEF Steps
  <2>2. NameIsHeld'
    BY <1>1, <1>3, NameStays
  <2>3. spec[p].scheme # "pty"
    BY <1>1, OfTheOne
  <2>4. p \in alone => Undisturbed(p)'
    BY <1>1, <1>3, <2>1, <2>3, OfTheOne DEF Undisturbed
  <2> QED
    <3>1. guard' \subseteq Processes
      BY <1>2, <1>3
    <3>2. spec[p].scheme # "pty" /\ socket'[p] # 0 => socket'[p] = run[p]
      BY <1>3, OfTheOne
    <3>3. spec[p].scheme = "pipe" => socket'[p] = 0
      BY <1>3, OfTheOne
    <3> QED
      BY <1>1, <1>3, <2>1, <2>2, <2>4, <3>1, <3>2, <3>3, PathsAre, OneActs DEF Shared!Ended
<1>4. CASE /\ step' = [step EXCEPT ![p] = "failed"] /\ why' = [why EXCEPT ![p] = "peer"]
           /\ Shared!Closes(p) /\ guard' = guard
  <2>1. "failed" \in Steps /\ step'[p] = "failed" /\ \A q \in Processes : q # p => step'[q] = step[q]
    BY <1>4, OneMoves DEF Steps
  <2>2. why'[p] = "peer"
    BY <1>4, OneFails
  <2>3. /\ socket' = [socket EXCEPT ![p] = 0] /\ socket'[p] = 0
        /\ path' = [kind |-> path'.kind, by |-> path'.by, mode |-> path'.mode]
        /\ path'.mode \in BOOLEAN /\ NameIsHeld'
    BY <1>1, <1>4, ClosesKeeps
  <2>4. p \in alone => Undisturbed(p)'
    BY <1>1, <1>4, <2>1, <2>2, <2>3, OfTheOne DEF Undisturbed
  <2> QED
    BY <1>1, <1>2, <1>4, <2>1, <2>3, <2>4, OneActs
<1> QED
  BY <1>3, <1>4 DEF Shared!opens, Shared!Fails, Shared!To

(* The listener's socket goes when its peer has come.                      *)
LEMMA AcceptsKeeps == ASSUME SharedIInv, NEW p \in Processes, Shared!accepts(p) PROVE SharedIInv'
<1>1. /\ step[p] = "open" /\ spec[p].scheme = "listen"
      /\ alone' = alone \cap {p} /\ step[p] \notin Shared!Ended
      /\ UNCHANGED <<abstract, spec, runs, run, why, guard>> /\ Shared!Closes(p)
      /\ step' = [step EXCEPT ![p] = "serving"]
  BY DEF Shared!accepts, Shared!Beside, Shared!Kept, Shared!Ended, Shared!To
<1>2. guard \subseteq Processes
  BY DEF SharedIInv, PathTyped
<1>3. "serving" \in Steps /\ step'[p] = "serving" /\ \A q \in Processes : q # p => step'[q] = step[q]
  BY <1>1, OneMoves DEF Steps
<1>4. /\ socket' = [socket EXCEPT ![p] = 0] /\ socket'[p] = 0
      /\ path' = [kind |-> path'.kind, by |-> path'.by, mode |-> path'.mode]
      /\ path'.mode \in BOOLEAN /\ NameIsHeld'
      /\ ~abstract => path' = path
  BY <1>1, ClosesKeeps
<1>5. p \in alone => Undisturbed(p)'
  BY <1>1, <1>3, <1>4, OfTheOne DEF Undisturbed
<1> QED
  BY <1>1, <1>2, <1>3, <1>4, <1>5, OneActs DEF Shared!Ended

(* A connection that ends leaves nothing, if its process held the guard or *)
(* the name; one that crashes leaves what was there.                       *)
LEMMA EndsKeeps ==
  ASSUME SharedIInv, NEW p \in Processes, Shared!Ends(p) \/ Shared!Crashes(p)
  PROVE  SharedIInv'
<1>1. /\ alone' = alone \cap {p} /\ step[p] \notin Shared!Ended /\ guard' = guard \ {p}
      /\ UNCHANGED <<abstract, spec, runs, run, why>>
      /\ socket' = [socket EXCEPT ![p] = 0]
  BY DEF Shared!Ends, Shared!Crashes, Shared!Beside, Shared!Kept, Shared!Ended, Shared!Closes
<1>2. guard' \subseteq Processes /\ socket'[p] = 0
  BY <1>1 DEF SharedIInv, PathTyped
<1>3. CASE Shared!Crashes(p)
  <2>1. step' = [step EXCEPT ![p] = "crashed"] /\ Shared!Closes(p)
    BY <1>3 DEF Shared!Crashes, Shared!To
  <2>2. "crashed" \in Steps /\ step'[p] = "crashed" /\ \A q \in Processes : q # p => step'[q] = step[q]
    BY <2>1, OneMoves DEF Steps
  <2>3. /\ path' = [kind |-> path'.kind, by |-> path'.by, mode |-> path'.mode]
        /\ path'.mode \in BOOLEAN /\ NameIsHeld'
    BY <1>1, <2>1, ClosesKeeps
  <2>4. p \in alone => Undisturbed(p)'
    BY <1>1, <1>2, <2>2, OfTheOne DEF Undisturbed
  <2> QED
    BY <1>1, <1>2, <2>1, <2>2, <2>3, <2>4, OneActs
<1>4. CASE Shared!Ends(p)
  <2>1. /\ step[p] \in {"open", "serving"} /\ step' = [step EXCEPT ![p] = "done"]
        /\ \/ (p \in guard \/ (abstract /\ path.by = run[p])) /\ path' = Shared!Nothing
           \/ p \notin guard /\ ~(abstract /\ path.by = run[p]) /\ path' = path
    BY <1>4 DEF Shared!Ends, Shared!To
  <2>2. "done" \in Steps /\ step'[p] = "done" /\ \A q \in Processes : q # p => step'[q] = step[q]
    BY <2>1, OneMoves DEF Steps
  <2>3. NameIsHeld'
    BY <1>1, <2>1, NameGoes
  <2>4. /\ path' = [kind |-> path'.kind, by |-> path'.by, mode |-> path'.mode]
        /\ path'.mode \in BOOLEAN
    <3>1. CASE path' = path
      BY <3>1, PathsAre
    <3>2. CASE path' = Shared!Nothing
      BY <3>2, PathsAre
    <3> QED
      BY <2>1, <3>1, <3>2
  <2>5. ASSUME p \in alone, spec[p].scheme = "pipe" => spec[p].unlink
        PROVE  path' = Shared!Nothing
    <3> SUFFICES ASSUME p \notin guard, ~(abstract /\ path.by = run[p]) PROVE path = Shared!Nothing
      BY <2>1
    <3>1. abstract
      BY <2>1, <2>5, OfTheOne DEF Undisturbed
    <3> SUFFICES ASSUME path # Shared!Nothing PROVE FALSE
      OBVIOUS
    <3>2. PICK q \in Processes : socket[q] = run[q] /\ run[q] # 0 /\ path.by = run[q]
      BY <3>1 DEF SharedIInv, NameIsHeld
    <3>3. q # p
      BY <3>1, <3>2
    <3>4. step[q] \in Shared!Ended
      BY <2>5, <3>3, OfTheOne DEF Undisturbed
    <3> QED
      BY <3>2, <3>4, OfTheOne
  <2>6. p \in alone => Undisturbed(p)'
    BY <1>1, <1>2, <2>2, <2>5, OfTheOne DEF Undisturbed, Shared!Nothing, Shared!At
  <2> QED
    BY <1>1, <1>2, <2>1, <2>2, <2>3, <2>4, <2>6, OneActs
<1> QED
  BY <1>3, <1>4

(* Every step of the processes keeps what is known of their path.          *)
LEMMA SharedStep == SharedIInv /\ (Shared!Next \/ UNCHANGED pathVars) => SharedIInv'
<1> SUFFICES ASSUME SharedIInv, Shared!Next \/ UNCHANGED pathVars PROVE SharedIInv'
  OBVIOUS
<1>1. CASE Shared!Next
  BY <1>1, StartsKeeps, ProbeKeeps, RemoveKeeps, BindKeeps, EnsureKeeps, SymlinkKeeps, ModeKeeps,
    OpensKeeps, AcceptsKeeps, EndsKeeps DEF Shared!Next, Shared!Acts
<1>2. CASE UNCHANGED pathVars
  <2>1. UNCHANGED <<abstract, path, spec, step, why, guard, socket, run, runs, alone>>
    BY <1>2 DEF pathVars
  <2>2. PathTyped'
    <3>1. PathTyped /\ Asked' = Asked
      BY <2>1 DEF SharedIInv, Asked
    <3>2. abstract' \in BOOLEAN /\ path'.mode \in BOOLEAN
      BY <2>1, Zenon DEF SharedIInv, PathTyped
    <3> QED
      BY <2>1, <3>1, <3>2 DEF PathTyped
  <2> QED
    BY <2>1, <2>2 DEF SharedIInv, HeldWhile, NameIsHeld, Undisturbed, Shared!Nothing, Shared!At
<1> QED
  BY <1>1, <1>2

(* At every moment, among any number of processes that start, end and crash*)
(* at one path: an endpoint that has started while no other acts opens,    *)
(* whatever is left there by those before it, is at its path with the mode *)
(* it was asked for, and leaves nothing when it ends well.                 *)
THEOREM StartsOverAlone == EndpointsSpec => []RecoversAlone
<1>1. EndpointsInit => SharedIInv
  BY SharedInit DEF EndpointsInit
<1>2. [EndpointsNext]_everything => Shared!Next \/ UNCHANGED pathVars
  BY DEF EndpointsNext, everything
<1>3. SharedIInv /\ [EndpointsNext]_everything => SharedIInv'
  BY <1>2, SharedStep
<1>4. SharedIInv => RecoversAlone
  <2> SUFFICES ASSUME SharedIInv PROVE Shared!RecoversAlone
    BY DEF RecoversAlone
  <2>1. \A p \in alone : p \in Processes /\ Undisturbed(p)
    BY DEF SharedIInv, PathTyped
  <2> QED
    BY <2>1 DEF Shared!RecoversAlone, Undisturbed
<1> QED
  BY <1>1, <1>3, <1>4, PTL DEF EndpointsSpec, everything

-----------------------------------------------------------------------------
(* Terminals.                                                              *)

Doings == {"new", "claim", "read", "write", "guard", "register", "open", "done", "failed",
           "crashed"}

(* The variables' types.                                                   *)
LinesTyped ==
  /\ terminal \in {"tty", "pty", "pty-exec"} /\ asks \in Lines!Asks
  /\ found \in Lines!Settings /\ device \in Lines!Settings
  /\ doing \in [Connections -> Doings]
  /\ original \in [Connections -> Lines!Settings]
  /\ termios \in [Connections -> Lines!Settings]
  /\ slave \in [Connections -> SUBSET {"relay", "child", "peer"}]
  /\ terminal = "tty" => over = {}

(* The settings of a device that was found and is done to as asked.        *)
Wanted == Lines!apply(Lines!fill(found))

(* What a connection that has the device to itself has done to it.         *)
InHand(c) ==
  /\ doing[c] \in {"claim", "read", "write"} => device = found
  /\ doing[c] \in {"write", "guard", "register", "open"} => original[c] = found

(* A device is as it was found or all as asked, and so is what connections *)
(* have found; one that has it to itself has it as asked once the settings *)
(* are applied; and where none left it unsettled it is put back.           *)
Unmixed ==
  /\ device \in {found, Wanted}
  /\ \A c \in Connections :
       /\ original[c] \in {found, Wanted}
       /\ doing[c] = "write" => termios[c] = Wanted
       /\ doing[c] \in {"write", "guard", "register", "open"} => asks.bits \in {7, 8}
Alone == ~shared =>
  /\ \A c, d \in Lines!Holders : c = d
  /\ \A c \in Lines!Holders : doing[c] \in {"guard", "register", "open"} => device = Wanted
Settled == ~shared /\ ~left =>
  /\ Lines!Holders = {} => device = found
  /\ \A c \in Lines!Holders : InHand(c)
Borrowed == terminal = "tty" => Unmixed /\ Alone /\ Settled

(* A pair is the endpoint's own.                                           *)
Allocated == terminal # "tty" =>
  /\ device = found
  /\ \A c \in Lines!Holders : doing[c] = "open" /\ termios[c] = Lines!fill(found)
  /\ terminal = "pty" => \A c \in Lines!Holders : "relay" \in slave[c]
  /\ \A c \in over : terminal = "pty-exec"

LinesIInv == LinesTyped /\ Borrowed /\ Allocated

(* What is filled in and applied is settings, and is what was asked for.   *)
LEMMA FilledIn ==
  ASSUME asks \in Lines!Asks, found \in Lines!Settings, NEW t \in Lines!Settings
  PROVE  /\ Lines!fill(t) \in Lines!Settings
         /\ asks.bits \in {7, 8} => Lines!apply(Lines!fill(t)) \in Lines!Settings
         /\ terminal # "tty" => Lines!AsAsked(Lines!fill(found))
         /\ Lines!AsAsked(Lines!apply(Lines!fill(found)))
         /\ asks.bits \in {7, 8} /\ t \in {found, Wanted} => Lines!apply(Lines!fill(t)) = Wanted
<1>1. /\ asks.raw \in BOOLEAN /\ asks.echo \in BOOLEAN /\ asks.xon \in BOOLEAN
      /\ \A u \in Lines!Settings : u.canonical \in BOOLEAN /\ u.echo \in BOOLEAN
                                   /\ u.bits \in {7, 8} /\ u.xon \in BOOLEAN
      /\ FALSE \in BOOLEAN
  BY Zenon DEF Lines!Asks, Lines!Settings
<1>2. ASSUME NEW u \in Lines!Settings
      PROVE  /\ Lines!make_raw(u) \in Lines!Settings
             /\ Lines!make_raw(u).canonical = FALSE
  BY <1>1 DEF Lines!make_raw, Lines!Settings
<1>3. ASSUME NEW u \in Lines!Settings
      PROVE  /\ Lines!fill(u) \in Lines!Settings /\ Lines!fill(u).echo = asks.echo
             /\ asks.raw => Lines!fill(u).canonical = FALSE
             /\ ~asks.raw => Lines!fill(u).canonical = u.canonical
  BY <1>1, <1>2 DEF Lines!fill, Lines!Settings
<1>4. ASSUME NEW u \in Lines!Settings
      PROVE  /\ asks.bits \in {7, 8} => Lines!apply(u) \in Lines!Settings
             /\ Lines!apply(u).echo = u.echo /\ Lines!apply(u).canonical = u.canonical
             /\ Lines!apply(u).bits = asks.bits /\ Lines!apply(u).xon = asks.xon
  BY <1>1 DEF Lines!apply, Lines!Settings
<1>5. Lines!fill(found).canonical = (found.canonical /\ ~asks.raw)
  <2>1. CASE asks.raw
    BY <1>3, <2>1
  <2>2. CASE ~asks.raw
    BY <1>1, <1>3, <2>2
  <2> QED
    BY <2>1, <2>2
<1>6. terminal # "tty" => Lines!AsAsked(Lines!fill(found))
  BY <1>3, <1>5 DEF Lines!AsAsked
<1>7. Lines!AsAsked(Lines!apply(Lines!fill(found)))
  BY <1>3, <1>4, <1>5, ZenonT(40) DEF Lines!AsAsked
<1>8. ASSUME asks.bits \in {7, 8} PROVE Lines!apply(Lines!fill(Wanted)) = Wanted
  <2> DEFINE v == Lines!apply(Lines!fill(Wanted))
  <2>1. Wanted \in Lines!Settings
    BY <1>3, <1>4, <1>8 DEF Wanted
  <2>2. v \in Lines!Settings
    BY <1>3, <1>4, <1>8, <2>1
  <2>3. /\ v.echo = asks.echo /\ v.bits = asks.bits /\ v.xon = asks.xon
        /\ asks.raw => v.canonical = FALSE
        /\ ~asks.raw => v.canonical = Wanted.canonical
    <3>1. Lines!fill(Wanted) \in Lines!Settings
      BY <1>3, <2>1
    <3> QED
      BY <1>3, <1>4, <2>1, <3>1, Zenon
  <2>4. /\ Wanted.echo = asks.echo /\ Wanted.bits = asks.bits /\ Wanted.xon = asks.xon
        /\ asks.raw => Wanted.canonical = FALSE
    BY <1>3, <1>4 DEF Wanted
  <2> HIDE DEF v
  <2>5. v.canonical = Wanted.canonical
    BY <2>3, <2>4
  <2>6. ASSUME NEW p \in Lines!Settings, NEW q \in Lines!Settings, p.canonical = q.canonical,
               p.echo = q.echo, p.bits = q.bits, p.xon = q.xon
        PROVE  p = q
    BY <2>6 DEF Lines!Settings
  <2>7. v = Wanted
    BY <2>1, <2>2, <2>3, <2>4, <2>5, <2>6
  <2> QED
    BY <2>7 DEF v
<1>9. asks.bits \in {7, 8} /\ t \in {found, Wanted} => Lines!apply(Lines!fill(t)) = Wanted
  BY <1>8 DEF Wanted
<1> QED
  BY <1>3, <1>4, <1>6, <1>7, <1>9

(* As a terminal is about to be borrowed, it is as its owner left it.      *)
LEMMA LinesInit == Lines!Init => LinesIInv
<1> SUFFICES ASSUME Lines!Init PROVE LinesIInv
  OBVIOUS
<1>1. /\ terminal \in {"tty", "pty", "pty-exec"} /\ asks \in Lines!Asks
      /\ found \in Lines!Settings /\ device = found
      /\ doing = [c \in Connections |-> "new"]
      /\ original = [c \in Connections |-> found] /\ termios = [c \in Connections |-> found]
      /\ slave = [c \in Connections |-> {}] /\ over = {}
  BY DEF Lines!Init
<1>2. LinesTyped
  BY <1>1 DEF LinesTyped, Doings
<1>3. Lines!Holders = {}
  BY <1>1 DEF Lines!Holders, Lines!Idle
<1> QED
  BY <1>1, <1>2, <1>3 DEF LinesIInv, Borrowed, Unmixed, Alone, Settled, Allocated

(* Only the connection that acts moves.                                    *)
LEMMA LineMoves ==
  ASSUME LinesTyped, NEW c \in Connections, NEW x \in Doings, Lines!To(c, x)
  PROVE  /\ doing' \in [Connections -> Doings] /\ doing'[c] = x
         /\ \A d \in Connections : d # c => doing'[d] = doing[d]
         /\ x \in Lines!Idle => Lines!Holders' = Lines!Holders \ {c}
         /\ x \notin Lines!Idle => Lines!Holders' = Lines!Holders \cup {c}
<1>1. /\ doing' \in [Connections -> Doings] /\ doing'[c] = x
      /\ \A d \in Connections : d # c => doing'[d] = doing[d]
  BY DEF LinesTyped, Lines!To
<1> QED
  BY <1>1 DEF Lines!Holders, Lines!Idle

(* A connection to a device, one system call at a time.                    *)
LEMMA BorrowKeeps ==
  ASSUME LinesIInv, NEW c \in Connections, terminal = "tty", Lines!Acts(c)
  PROVE  LinesIInv'
<1>1. LinesTyped /\ asks \in Lines!Asks /\ found \in Lines!Settings /\ device \in Lines!Settings
  BY DEF LinesIInv, LinesTyped
<1>0. Unmixed /\ Alone /\ Settled
  BY DEF LinesIInv, Borrowed
<1>14. UNCHANGED <<asks, found>> => Wanted' = Wanted
  BY DEF Wanted, Lines!apply, Lines!fill, Lines!make_raw
<1>2. CASE Lines!open(c)
  <2>1. /\ doing[c] = "new" /\ UNCHANGED <<terminal, asks, found, device, original, termios, slave, over, left>>
        /\ \/ Lines!To(c, "failed") /\ shared' = shared
           \/ /\ shared' = (shared \/ Lines!Holders # {})
              /\ \E x \in {"claim", "read"} : Lines!To(c, x)
    BY <1>2 DEF Lines!open, Lines!Given
  <2>2. CASE Lines!To(c, "failed") /\ shared' = shared
    <3>1. /\ doing' \in [Connections -> Doings] /\ Lines!Holders' = Lines!Holders
          /\ \A d \in Lines!Holders : doing'[d] = doing[d]
      BY <1>1, <2>1, <2>2, LineMoves DEF Doings, Lines!Idle, Lines!Holders
    <3> QED
      <4>1. LinesTyped' /\ Allocated'
        BY <2>1, <2>2, <3>1 DEF LinesIInv, LinesTyped, Allocated
      <4>2. \A d \in Connections : doing'[d] # doing[d] => doing'[d] = "failed"
        BY <1>1, <2>2, LineMoves DEF Doings
      <4>3. Unmixed'
        BY <1>0, <1>14, <2>1, <4>2 DEF Unmixed
      <4>4. Alone'
        BY <1>0, <1>14, <2>1, <2>2, <3>1 DEF Alone
      <4>5. Settled'
        BY <1>0, <2>1, <2>2, <3>1 DEF Settled, InHand
      <4> QED
        BY <4>1, <4>3, <4>4, <4>5 DEF LinesIInv, Borrowed
  <2>3. CASE /\ shared' = (shared \/ Lines!Holders # {})
             /\ \E x \in {"claim", "read"} : Lines!To(c, x)
    <3>1. PICK x \in {"claim", "read"} : Lines!To(c, x)
      BY <2>3
    <3>2. /\ doing' \in [Connections -> Doings] /\ Lines!Holders' = Lines!Holders \cup {c}
          /\ doing'[c] = x
      BY <1>1, <3>1, LineMoves DEF Doings, Lines!Idle
    <3>3. LinesTyped' /\ Allocated'
      BY <1>1, <2>1, <3>2 DEF LinesTyped, Allocated
    <3>5. \A d \in Connections : d # c => doing'[d] = doing[d]
      BY <1>1, <3>1, LineMoves DEF Doings
    <3>6. Unmixed'
      BY <1>0, <1>14, <2>1, <3>2, <3>5 DEF Unmixed
    <3>7. Alone'
      BY <1>0, <1>14, <2>1, <2>3, <3>2, <3>5 DEF Alone
    <3>8. Settled'
      BY <1>0, <2>1, <2>3, <3>2, <3>5 DEF Settled, InHand
    <3>4. Borrowed'
      BY <3>6, <3>7, <3>8 DEF Borrowed
    <3> QED
      BY <3>3, <3>4 DEF LinesIInv
  <2> QED
    BY <2>1, <2>2, <2>3
<1>3. CASE /\ c \in Lines!Holders /\ Lines!Holders' = Lines!Holders /\ shared' = shared
           /\ left' = left /\ UNCHANGED <<terminal, asks, found, slave, over>>
           /\ LinesTyped' /\ Unmixed' /\ (~shared /\ ~left => InHand(c)')
           /\ ~shared /\ doing'[c] \in {"guard", "register", "open"} => device' = Wanted
  <2>1. Alone'
    BY <1>0, <1>3, <1>14 DEF Alone
  <2>2. Settled'
    BY <1>0, <1>3 DEF Alone, Settled
  <2> QED
    BY <1>3, <2>1, <2>2 DEF LinesIInv, Borrowed, Allocated
<1>4. CASE /\ c \in Lines!Holders /\ Lines!Holders' = Lines!Holders \ {c} /\ shared' = shared
           /\ left => left'
           /\ UNCHANGED <<terminal, asks, found, slave, over>>
           /\ LinesTyped' /\ Unmixed' /\ (~shared /\ ~left' => device' = found)
  <2>1. ~shared => Lines!Holders' = {}
    BY <1>0, <1>4 DEF Alone
  <2>2. Alone' /\ Settled'
    BY <1>4, <2>1 DEF Alone, Settled
  <2> QED
    BY <1>4, <2>2 DEF LinesIInv, Borrowed, Allocated
<1>5. \A x \in Doings : x # "new" /\ doing[c] = x /\ x \notin Lines!Idle => c \in Lines!Holders
  BY DEF Lines!Holders
<1>6. /\ ~shared /\ ~left /\ c \in Lines!Holders => InHand(c)
      /\ ~shared /\ c \in Lines!Holders /\ doing[c] \in {"guard", "register", "open"}
           => device = Wanted
  BY <1>0 DEF Alone, Settled
<1>15. ASSUME NEW x \in Doings, Lines!To(c, x), device' \in {found, Wanted},
              UNCHANGED <<asks, found, original, termios>>,
              \/ x \notin {"write", "guard", "register", "open"}
              \/ x # "write" /\ doing[c] \in {"write", "guard", "register"}
       PROVE  Unmixed'
  <2>1. doing'[c] = x /\ \A d \in Connections : d # c => doing'[d] = doing[d]
    BY <1>1, <1>15, LineMoves
  <2>2. \A d \in Connections : doing'[d] = "write" => doing[d] = "write"
    BY <1>15, <2>1
  <2>3. \A d \in Connections : doing'[d] \in {"write", "guard", "register", "open"} =>
          doing[d] \in {"write", "guard", "register", "open"}
    BY <1>15, <2>1
  <2> QED
    BY <1>0, <1>14, <1>15, <2>2, <2>3 DEF Unmixed
<1>7. CASE Lines!ioctl_tiocexcl(c)
  <2>1. /\ doing[c] = "claim" /\ Lines!To(c, "read")
        /\ UNCHANGED <<terminal, asks, found, device, original, termios, slave, over, shared, left>>
    BY <1>7 DEF Lines!ioctl_tiocexcl, Lines!Given
  <2>2. c \in Lines!Holders
    BY <2>1 DEF Lines!Holders, Lines!Idle
  <2>3. /\ doing' \in [Connections -> Doings] /\ doing'[c] = "read"
        /\ Lines!Holders' = Lines!Holders
    BY <1>1, <2>1, <2>2, LineMoves DEF Doings, Lines!Idle
  <2>4. LinesTyped'
    BY <1>1, <2>1, <2>3 DEF LinesTyped
  <2>5. ~shared /\ ~left => InHand(c)'
    BY <1>6, <2>1, <2>2, <2>3 DEF InHand
  <2>6. Unmixed'
    <3>1. device' \in {found, Wanted}
      BY <1>0, <2>1 DEF Unmixed
    <3> QED
      BY <1>15, <2>1, <3>1 DEF Doings
  <2> QED
    BY <1>3, <2>1, <2>2, <2>3, <2>4, <2>5, <2>6
<1>8. CASE Lines!tcgetattr(c)
  <2>1. /\ doing[c] = "read" /\ original' = [original EXCEPT ![c] = device]
        /\ UNCHANGED <<terminal, asks, found, device, slave, over, shared, left>>
        /\ \/ /\ asks.bits \in {7, 8} /\ Lines!To(c, "write")
              /\ termios' = [termios EXCEPT ![c] = Lines!apply(Lines!fill(device))]
           \/ Lines!To(c, "failed") /\ termios' = termios
    BY <1>8 DEF Lines!tcgetattr, Lines!Given
  <2>2. c \in Lines!Holders
    BY <2>1 DEF Lines!Holders, Lines!Idle
  <2>3. /\ original' \in [Connections -> Lines!Settings] /\ original'[c] = device
    BY <1>1, <2>1 DEF LinesTyped
  <2>6. \A d \in Connections : original'[d] \in {original[d], device}
    BY <1>1, <2>1 DEF LinesTyped
  <2>4. CASE Lines!To(c, "failed") /\ termios' = termios
    <3>1. doing' \in [Connections -> Doings] /\ Lines!Holders' = Lines!Holders \ {c}
      BY <1>1, <2>4, LineMoves DEF Doings, Lines!Idle
    <3>2. LinesTyped'
      BY <1>1, <2>1, <2>3, <2>4, <3>1 DEF LinesTyped
    <3>3. ~shared /\ ~left => device' = found
      BY <1>6, <2>1, <2>2 DEF InHand
    <3>4. \A d \in Connections : doing'[d] # doing[d] => doing'[d] = "failed"
      BY <1>1, <2>4, LineMoves DEF Doings
    <3>5. Unmixed'
      BY <1>0, <1>14, <2>1, <2>3, <2>4, <2>6, <3>4 DEF Unmixed
    <3> QED
      BY <1>4, <2>1, <2>2, <3>1, <3>2, <3>3, <3>5
  <2>5. CASE /\ asks.bits \in {7, 8} /\ Lines!To(c, "write")
             /\ termios' = [termios EXCEPT ![c] = Lines!apply(Lines!fill(device))]
    <3>1. /\ doing' \in [Connections -> Doings] /\ doing'[c] = "write"
          /\ Lines!Holders' = Lines!Holders
      BY <1>1, <2>2, <2>5, LineMoves DEF Doings, Lines!Idle
    <3>2. /\ termios' \in [Connections -> Lines!Settings]
          /\ termios'[c] = Lines!apply(Lines!fill(device))
      BY <1>1, <2>5, FilledIn DEF LinesTyped
    <3>3. LinesTyped'
      BY <1>1, <2>1, <2>3, <3>1, <3>2 DEF LinesTyped
    <3>4. termios'[c] = Wanted
      BY <1>0, <1>1, <2>5, <3>2, FilledIn DEF Unmixed
    <3>5. ~shared /\ ~left => InHand(c)'
      BY <1>6, <2>1, <2>2, <2>3, <2>5, <3>1 DEF InHand
    <3>6. \A d \in Connections :
            d # c => doing'[d] = doing[d] /\ termios'[d] = termios[d]
      BY <1>1, <2>5, LineMoves DEF Doings, LinesTyped
    <3>7. Unmixed'
      BY <1>0, <1>14, <2>1, <2>5, <2>6, <3>4, <3>6 DEF Unmixed
    <3> QED
      BY <1>3, <2>1, <2>2, <3>1, <3>3, <3>5, <3>7
  <2> QED
    BY <2>1, <2>4, <2>5
<1>9. CASE Lines!tcsetattr(c) \/ Lines!Guards(c) \/ Lines!register(c)
  <2>1. /\ UNCHANGED <<terminal, asks, found, original, termios, slave, over, shared, left>>
        /\ \/ doing[c] = "write" /\ device' = termios[c] /\ Lines!To(c, "guard")
           \/ doing[c] = "guard" /\ device' = device /\ Lines!To(c, "register")
           \/ doing[c] = "register" /\ device' = device /\ Lines!To(c, "open")
    BY <1>9 DEF Lines!tcsetattr, Lines!Guards, Lines!register, Lines!Given
  <2>2. PICK x \in {"guard", "register", "open"} :
          /\ Lines!To(c, x)
          /\ \/ x = "guard" /\ doing[c] = "write" /\ device' = termios[c]
             \/ x # "guard" /\ doing[c] \in {"guard", "register"} /\ device' = device
    BY <2>1
  <2>3. c \in Lines!Holders
    BY <2>2 DEF Lines!Holders, Lines!Idle
  <2>4. /\ doing' \in [Connections -> Doings] /\ doing'[c] = x /\ Lines!Holders' = Lines!Holders
    BY <1>1, <2>2, <2>3, LineMoves DEF Doings, Lines!Idle
  <2>5. LinesTyped'
    BY <1>1, <2>1, <2>2, <2>4 DEF LinesTyped
  <2>6. x = "guard" => device' = Wanted
    BY <1>0, <2>2 DEF Unmixed
  <2>7. ~shared /\ ~left => InHand(c)'
    BY <1>6, <2>1, <2>2, <2>3, <2>4 DEF InHand
  <2>8. Unmixed'
    <3>1. device' \in {found, Wanted}
      BY <1>0, <2>2, <2>6 DEF Unmixed
    <3> QED
      BY <1>15, <2>1, <2>2, <3>1 DEF Doings
  <2>9. ~shared => device' = Wanted
    BY <1>6, <2>2, <2>3, <2>6
  <2> QED
    BY <1>3, <2>1, <2>3, <2>4, <2>5, <2>7, <2>8, <2>9
<1>10. CASE Lines!Refused(c)
  <2>1. /\ doing[c] \in {"claim", "read", "write", "guard"} /\ Lines!To(c, "failed")
        /\ UNCHANGED <<terminal, asks, found, device, original, termios, slave, over, shared>>
        /\ left' = (left \/ doing[c] = "guard")
    BY <1>10 DEF Lines!Refused, Lines!Fails, Lines!Given
  <2>2. c \in Lines!Holders
    BY <2>1 DEF Lines!Holders, Lines!Idle
  <2>3. doing' \in [Connections -> Doings] /\ Lines!Holders' = Lines!Holders \ {c}
    BY <1>1, <2>1, LineMoves DEF Doings, Lines!Idle
  <2>4. LinesTyped'
    BY <1>1, <2>1, <2>3 DEF LinesTyped
  <2>5. (left => left') /\ (~left' => ~left /\ doing[c] # "guard")
    BY <2>1
  <2>6. ~shared /\ ~left' => device' = found
    BY <1>6, <2>1, <2>2, <2>5 DEF InHand
  <2>7. Unmixed'
    <3>1. device' \in {found, Wanted}
      BY <1>0, <2>1 DEF Unmixed
    <3> QED
      BY <1>15, <2>1, <3>1 DEF Doings
  <2> QED
    BY <1>4, <2>1, <2>2, <2>3, <2>4, <2>5, <2>6, <2>7
<1>11. CASE Lines!Restore(c)
  <2>1. /\ doing[c] \in {"register", "open"} /\ device' = original[c]
        /\ UNCHANGED <<terminal, asks, found, original, termios, slave, over, shared, left>>
        /\ \E x \in {"done", "failed"} : Lines!To(c, x)
    BY <1>11 DEF Lines!Restore, Lines!Given
  <2>2. c \in Lines!Holders
    BY <2>1 DEF Lines!Holders, Lines!Idle
  <2>3. doing' \in [Connections -> Doings] /\ Lines!Holders' = Lines!Holders \ {c}
    BY <1>1, <2>1, LineMoves DEF Doings, Lines!Idle
  <2>4. LinesTyped'
    BY <1>1, <2>1, <2>3 DEF LinesTyped
  <2>5. ~shared /\ ~left => device' = found
    BY <1>6, <2>1, <2>2 DEF InHand
  <2>6. Unmixed'
    <3>1. device' \in {found, Wanted}
      BY <1>0, <2>1 DEF Unmixed
    <3> QED
      BY <1>15, <2>1, <3>1 DEF Doings
  <2> QED
    BY <1>4, <2>1, <2>2, <2>3, <2>4, <2>5, <2>6
<1>12. CASE Lines!Crashes(c)
  <2>1. /\ c \in Lines!Holders /\ Lines!To(c, "crashed")
        /\ left' = (left \/ doing[c] \in {"guard", "register", "open"})
        /\ UNCHANGED <<terminal, asks, found, device, original, termios, slave, over, shared>>
    BY <1>12 DEF Lines!Crashes, Lines!Given
  <2>2. doing' \in [Connections -> Doings] /\ Lines!Holders' = Lines!Holders \ {c}
    BY <1>1, <2>1, LineMoves DEF Doings, Lines!Idle
  <2>3. LinesTyped'
    BY <1>1, <2>1, <2>2 DEF LinesTyped
  <2>4. Unmixed'
    <3>1. device' \in {found, Wanted}
      BY <1>0, <2>1 DEF Unmixed
    <3> QED
      BY <1>15, <2>1, <3>1 DEF Doings
  <2>5. doing[c] \in Doings \ Lines!Idle
    BY <1>1, <2>1 DEF LinesTyped, Lines!Holders
  <2>6. ~shared /\ ~left' => device' = found
    <3>1. ~left' => doing[c] \in {"claim", "read", "write"}
      BY <2>1, <2>5 DEF Doings, Lines!Idle
    <3> QED
      BY <1>6, <2>1, <3>1 DEF InHand
  <2> QED
    BY <1>4, <2>1, <2>2, <2>3, <2>4, <2>6
<1>13. CASE Lines!PeerCloses(c)
  <2>1. /\ UNCHANGED <<terminal, asks, found, device, doing, original, termios, over, shared, left>>
        /\ \E who \in {"peer", "child"} : slave' = [slave EXCEPT ![c] = @ \ {who}]
    BY <1>13 DEF Lines!PeerCloses, Lines!Given
  <2>2. slave' \in [Connections -> SUBSET {"relay", "child", "peer"}]
    BY <1>1, <2>1 DEF LinesTyped
  <2> QED
    <3>1. LinesTyped' /\ Allocated'
      BY <1>1, <2>1, <2>2 DEF LinesIInv, LinesTyped, Allocated
    <3>2. Lines!Holders' = Lines!Holders
      BY <2>1 DEF Lines!Holders
    <3>3. Unmixed'
      BY <1>0, <1>14, <2>1 DEF Unmixed
    <3>4. Alone' /\ Settled'
      BY <1>0, <1>14, <2>1, <3>2 DEF Alone, Settled, InHand
    <3> QED
      BY <3>1, <3>3, <3>4 DEF LinesIInv, Borrowed
<1> QED
  BY <1>2, <1>7, <1>8, <1>9, <1>10, <1>11, <1>12, <1>13
  DEF Lines!Acts, Lines!allocate, Lines!PeerOpens, Lines!ReadsEnd, Lines!Drops

(* A pair of the endpoint's own.                                           *)
LEMMA PairKeeps ==
  ASSUME LinesIInv, NEW c \in Connections, terminal # "tty", Lines!Acts(c)
  PROVE  LinesIInv'
<1>1. LinesTyped /\ asks \in Lines!Asks /\ found \in Lines!Settings /\ terminal \in {"tty", "pty", "pty-exec"}
  BY DEF LinesIInv, LinesTyped
<1>2. /\ device = found
      /\ \A d \in Lines!Holders : doing[d] = "open" /\ termios[d] = Lines!fill(found)
      /\ terminal = "pty" => \A d \in Lines!Holders : "relay" \in slave[d]
      /\ \A d \in over : terminal = "pty-exec"
  BY DEF LinesIInv, Allocated
<1>3. c \in Lines!Holders => doing[c] = "open"
  BY <1>2
<1>4. doing[c] \in {"new", "open", "done", "failed", "crashed"}
  BY <1>1, <1>3 DEF LinesTyped, Doings, Lines!Holders, Lines!Idle
<1>5. \/ Lines!allocate(c) \/ Lines!PeerOpens(c) \/ Lines!PeerCloses(c) \/ Lines!ReadsEnd(c)
      \/ Lines!Drops(c)
  BY <1>4 DEF Lines!Acts, Lines!open, Lines!ioctl_tiocexcl, Lines!tcgetattr, Lines!tcsetattr,
    Lines!Guards, Lines!Refused, Lines!register, Lines!Restore, Lines!Crashes
<1>6. UNCHANGED <<terminal, asks, found, device, original>>
  BY <1>5 DEF Lines!allocate, Lines!PeerOpens, Lines!PeerCloses, Lines!ReadsEnd, Lines!Drops,
    Lines!Given
<1>7. Lines!fill(found)' = Lines!fill(found)
  BY <1>6 DEF Lines!fill, Lines!make_raw
<1>8. CASE Lines!allocate(c)
  <2>1. /\ doing[c] = "new" /\ termios' = [termios EXCEPT ![c] = Lines!fill(found)] /\ over' = over
        /\ \/ Lines!To(c, "failed") /\ slave' = slave
           \/ /\ Lines!To(c, "open")
              /\ slave' = [slave EXCEPT ![c] = {IF terminal = "pty" THEN "relay" ELSE "child"}]
    BY <1>8 DEF Lines!allocate
  <2>2. /\ termios' \in [Connections -> Lines!Settings] /\ termios'[c] = Lines!fill(found)
        /\ \A d \in Connections : d # c => termios'[d] = termios[d]
    BY <1>1, <2>1, FilledIn DEF LinesTyped
  <2>3. CASE Lines!To(c, "failed") /\ slave' = slave
    <3>1. doing' \in [Connections -> Doings] /\ Lines!Holders' = Lines!Holders \ {c}
          /\ \A d \in Connections : d # c => doing'[d] = doing[d]
      BY <1>1, <2>3, LineMoves DEF Doings, Lines!Idle
    <3>2. LinesTyped'
      BY <1>1, <1>6, <2>2, <2>3, <3>1 DEF LinesTyped
    <3>3. Allocated'
      BY <1>2, <1>6, <1>7, <2>1, <2>2, <2>3, <3>1 DEF Allocated, Lines!Holders
    <3> QED
      BY <1>6, <3>2, <3>3 DEF LinesIInv, Borrowed
  <2>4. CASE /\ Lines!To(c, "open")
             /\ slave' = [slave EXCEPT ![c] = {IF terminal = "pty" THEN "relay" ELSE "child"}]
    <3>1. /\ doing' \in [Connections -> Doings] /\ Lines!Holders' = Lines!Holders \cup {c}
          /\ doing'[c] = "open" /\ \A d \in Connections : d # c => doing'[d] = doing[d]
      BY <1>1, <2>4, LineMoves DEF Doings, Lines!Idle
    <3>2. /\ slave' \in [Connections -> SUBSET {"relay", "child", "peer"}]
          /\ terminal = "pty" => "relay" \in slave'[c]
          /\ \A d \in Connections : d # c => slave'[d] = slave[d]
      BY <1>1, <2>4 DEF LinesTyped
    <3>3. LinesTyped'
      BY <1>1, <1>6, <2>2, <3>1, <3>2 DEF LinesTyped
    <3>4. Allocated'
      BY <1>2, <1>6, <1>7, <2>1, <2>2, <3>1, <3>2 DEF Allocated, Lines!Holders
    <3> QED
      BY <1>6, <3>3, <3>4 DEF LinesIInv, Borrowed
  <2> QED
    BY <2>1, <2>3, <2>4
<1>9. CASE Lines!PeerOpens(c) \/ Lines!PeerCloses(c)
  <2>1. /\ UNCHANGED <<doing, termios, over>>
        /\ \/ slave' = [slave EXCEPT ![c] = @ \cup {"peer"}]
           \/ \E who \in {"peer", "child"} : slave' = [slave EXCEPT ![c] = @ \ {who}]
    BY <1>9 DEF Lines!PeerOpens, Lines!PeerCloses
  <2>2. /\ slave' \in [Connections -> SUBSET {"relay", "child", "peer"}]
        /\ \A d \in Connections : "relay" \in slave[d] => "relay" \in slave'[d]
    BY <1>1, <2>1 DEF LinesTyped
  <2>3. LinesTyped'
    BY <1>1, <1>6, <2>1, <2>2 DEF LinesTyped
  <2>4. Allocated'
    BY <1>2, <1>6, <1>7, <2>1, <2>2 DEF Allocated, Lines!Holders
  <2> QED
    BY <1>6, <2>3, <2>4 DEF LinesIInv, Borrowed
<1>10. CASE Lines!ReadsEnd(c)
  <2>1. /\ UNCHANGED <<doing, termios, slave>> /\ doing[c] = "open" /\ slave[c] = {}
        /\ over' = over \cup {c}
    BY <1>10 DEF Lines!ReadsEnd
  <2>2. c \in Lines!Holders
    BY <2>1 DEF Lines!Holders, Lines!Idle
  <2>3. terminal = "pty-exec"
    BY <1>1, <1>2, <2>1, <2>2
  <2>4. LinesTyped' /\ Allocated'
    BY <1>1, <1>2, <1>6, <1>7, <2>1, <2>3 DEF LinesTyped, Allocated, Lines!Holders
  <2> QED
    BY <1>6, <2>4 DEF LinesIInv, Borrowed
<1>11. CASE Lines!Drops(c)
  <2>1. /\ UNCHANGED <<termios, over>> /\ Lines!To(c, "done")
        /\ slave' = [slave EXCEPT ![c] = @ \ {"relay"}]
    BY <1>11 DEF Lines!Drops
  <2>2. /\ slave' \in [Connections -> SUBSET {"relay", "child", "peer"}]
        /\ \A d \in Connections : d # c => slave'[d] = slave[d]
    BY <1>1, <2>1 DEF LinesTyped
  <2>3. /\ doing' \in [Connections -> Doings] /\ Lines!Holders' = Lines!Holders \ {c}
        /\ \A d \in Connections : d # c => doing'[d] = doing[d]
    BY <1>1, <2>1, LineMoves DEF Doings, Lines!Idle
  <2>4. LinesTyped'
    BY <1>1, <1>6, <2>1, <2>2, <2>3 DEF LinesTyped
  <2>5. Allocated'
    BY <1>2, <1>6, <1>7, <2>1, <2>2, <2>3 DEF Allocated, Lines!Holders
  <2> QED
    BY <1>6, <2>4, <2>5 DEF LinesIInv, Borrowed
<1> QED
  BY <1>5, <1>8, <1>9, <1>10, <1>11

(* Every step of those who borrow a terminal keeps what is known of it.    *)
LEMMA LinesStep == LinesIInv /\ (Lines!Next \/ UNCHANGED terminalVars) => LinesIInv'
<1> SUFFICES ASSUME LinesIInv, Lines!Next \/ UNCHANGED terminalVars PROVE LinesIInv'
  OBVIOUS
<1>1. CASE Lines!Next
  BY <1>1, BorrowKeeps, PairKeeps DEF Lines!Next
<1>2. CASE UNCHANGED terminalVars
  <2>1. Lines!Holders' = Lines!Holders
    BY <1>2 DEF terminalVars, Lines!Holders
  <2>2. LinesTyped' /\ Allocated'
    BY <1>2, <2>1 DEF terminalVars, LinesIInv, LinesTyped, Allocated, Lines!fill, Lines!make_raw
  <2>3. Wanted' = Wanted
    BY <1>2 DEF terminalVars, Wanted, Lines!apply, Lines!fill, Lines!make_raw
  <2>4. Borrowed'
    BY <1>2, <2>1, <2>3 DEF terminalVars, LinesIInv, Borrowed, Unmixed, Alone, Settled, InHand
  <2> QED
    BY <2>2, <2>4 DEF LinesIInv
<1> QED
  BY <1>1, <1>2

(* At every moment, for any number of connections: a device is as the first*)
(* found it or all as was asked, whoever overlaps, fails or is killed; one *)
(* that has it to itself has it as asked; and once it is free, it having   *)
(* been lent to one at a time and none having been killed, or had no       *)
(* duplicate for Restore, with its settings applied, it is as the first    *)
(* found it.  A pty relays as asked and ends only for the child's sake     *)
(* (endpoint/tty.rs, connect; endpoint/pty.rs).                            *)
THEOREM TerminalsAreLent == EndpointsSpec => []TerminalsHold
<1>1. EndpointsInit => LinesIInv
  BY LinesInit DEF EndpointsInit
<1>2. [EndpointsNext]_everything => Lines!Next \/ UNCHANGED terminalVars
  BY DEF EndpointsNext, everything
<1>3. LinesIInv /\ [EndpointsNext]_everything => LinesIInv'
  BY <1>2, LinesStep
<1>4. LinesIInv => TerminalsHold
  <2> SUFFICES ASSUME LinesIInv PROVE Lines!TerminalsHold
    BY DEF TerminalsHold
  <2>1. asks \in Lines!Asks /\ found \in Lines!Settings
    BY DEF LinesIInv, LinesTyped
  <2>2. /\ Lines!AsAsked(Lines!apply(Lines!fill(found)))
        /\ terminal # "tty" => Lines!AsAsked(Lines!fill(found))
    BY <2>1, FilledIn
  <2>3. CASE terminal = "tty"
    <3>1. Unmixed /\ Alone /\ Settled
      BY <2>3 DEF LinesIInv, Borrowed
    <3>2. device = found \/ Lines!AsAsked(device)
      BY <2>2, <3>1 DEF Unmixed, Wanted
    <3>3. ASSUME ~shared, NEW c \in Connections, doing[c] = "open" PROVE Lines!AsAsked(device)
      <4>1. c \in Lines!Holders
        BY <3>3 DEF Lines!Holders, Lines!Idle
      <4>2. device = Wanted
        BY <3>1, <3>3, <4>1 DEF Alone
      <4> QED
        BY <2>2, <4>2 DEF Wanted
    <3>4. ~shared /\ ~left /\ Lines!Holders = {} => device = found
      BY <3>1 DEF Settled
    <3>5. \A c \in over : terminal = "pty-exec"
      BY <2>3 DEF LinesIInv, LinesTyped
    <3> QED
      BY <2>3, <3>2, <3>3, <3>4, <3>5 DEF Lines!TerminalsHold
  <2>6. CASE terminal # "tty"
    <3>1. /\ device = found /\ \A c \in over : terminal = "pty-exec"
          /\ \A c \in Lines!Holders : Lines!AsAsked(termios[c])
      BY <2>2, <2>6 DEF LinesIInv, Allocated
    <3> QED
      BY <2>6, <3>1 DEF Lines!TerminalsHold
  <2> QED
    BY <2>3, <2>6
<1> QED
  BY <1>1, <1>3, <1>4, PTL DEF EndpointsSpec, everything

-----------------------------------------------------------------------------
(* The making of a socket.                                                 *)

(* The variables' types, and what there is from the start.                 *)
SocketTyped ==
  /\ dial \in Dialed!Inet \cup Dialed!Unix /\ asked \subseteq Dialed!Options
  /\ compact => \A o \in asked : Dialed!option(o)
  /\ DOMAIN resolved \in {{}, {1}, {1, 2}} /\ (dial \notin Dialed!Inet => DOMAIN resolved = {})
  /\ making \in {"start", "socket", "bind", "connect", "listen", "apply", "open", "failed"}
  /\ set \in [Dialed!Options -> {"no", "before", "after"}]
  /\ streams \in Seq(SUBSET Dialed!Options)

(* The options are set, early and late.                                    *)
Carried ==
  /\ making \in {"bind", "connect", "listen", "apply", "open"} /\ dial \in Dialed!Inet =>
       \A o \in Dialed!Early : set[o] = "before"
  /\ making = "open" \/ (making = "connect" /\ dial = "udp") =>
       dial \in Dialed!Listens \/ \A o \in Dialed!Late : set[o] # "no"
  /\ compact /\ dial \in {"tcp-listen", "unix-listen"} =>
       \A i \in 1..Len(streams) : asked \subseteq streams[i]
  /\ dial = "tcp" => streams = <<>>
  /\ compact => failure # "option"

(* The way a dial goes.                                                    *)
Reached ==
  /\ making = "start" => reached = 0
  /\ reached # 0 => family = Dialed!V(resolved[reached].v4)
  /\ making \in {"socket", "bind", "connect"} =>
       dial # "unix" /\ (dial = "tcp" => local # <<>> \/ Dialed!needs_socket)
  /\ making = "connect" => dial \in {"tcp", "udp"}
  /\ making = "listen" => dial \in Dialed!Listens
  /\ failure = "unreachable" /\ asked = {} /\ local = <<>> =>
       \A i \in DOMAIN resolved : ~resolved[i].up

SocketIInv == SocketTyped /\ Carried /\ Reached

(* A socket that is about to be made has no option set.                    *)
LEMMA SocketInit == Dialed!Init => SocketIInv
<1> SUFFICES ASSUME Dialed!Init PROVE SocketIInv
  OBVIOUS
<1>1. /\ dial \in Dialed!Inet \cup Dialed!Unix /\ asked \in SUBSET Dialed!Options
      /\ compact => \A o \in asked : Dialed!option(o)
      /\ resolved \in (IF dial \in Dialed!Inet THEN Dialed!Addresses ELSE {<<>>})
      /\ making = "start" /\ failure = "none" /\ set = [o \in Dialed!Options |-> "no"]
      /\ reached = 0 /\ streams = <<>>
  BY DEF Dialed!Init
<1>2. DOMAIN resolved \in {{}, {1}, {1, 2}} /\ (dial \notin Dialed!Inet => DOMAIN resolved = {})
  <2>1. CASE dial \notin Dialed!Inet
    <3>1. resolved = <<>>
      BY <1>1, <2>1
    <3> QED
      BY <3>1, <2>1
  <2>2. CASE dial \in Dialed!Inet
    <3>1. PICK n \in 0..2 : resolved \in [1..n -> [v4 : BOOLEAN, up : BOOLEAN]]
      BY <1>1, <2>2 DEF Dialed!Addresses
    <3>2. DOMAIN resolved = 1..n /\ n \in {0, 1, 2}
      BY <3>1
    <3>3. 1..0 = {} /\ 1..1 = {1} /\ 1..2 = {1, 2}
      OBVIOUS
    <3> QED
      BY <2>2, <3>2, <3>3
  <2> QED
    BY <2>1, <2>2
<1>3. SocketTyped
  BY <1>1, <1>2 DEF SocketTyped
<1>4. Carried /\ Reached
  BY <1>1 DEF Carried, Reached
<1> QED
  BY <1>3, <1>4 DEF SocketIInv

(* The least address that answers.                                         *)
LEMMA TheFirst ==
  ASSUME SocketTyped, NEW up \in SUBSET (DOMAIN resolved), up # {}
  PROVE  (CHOOSE i \in up : \A j \in up : i <= j) \in up
<1>1. up \in {{1}, {2}, {1, 2}}
  BY DEF SocketTyped
<1>2. \E i \in up : \A j \in up : i <= j
  BY <1>1
<1> QED
  BY <1>2

(* Every step of making a socket keeps what is known of it.                *)
LEMMA SocketStep == SocketIInv /\ (Dialed!Next \/ UNCHANGED socketVars) => SocketIInv'
<1> SUFFICES ASSUME SocketIInv, Dialed!Next \/ UNCHANGED socketVars PROVE SocketIInv'
  OBVIOUS
<1>0. SocketTyped /\ Carried /\ Reached
  BY DEF SocketIInv
<1> USE DEF Dialed!Given, Dialed!Fails
<1>1. ASSUME UNCHANGED <<dial, asked, compact, resolved, local, group>>
      PROVE  /\ Dialed!Early' = Dialed!Early /\ Dialed!Late' = Dialed!Late
             /\ Dialed!needs_socket' <=> Dialed!needs_socket
             /\ \A o : Dialed!option(o)' <=> Dialed!option(o)
  BY <1>1 DEF Dialed!Early, Dialed!Late, Dialed!needs_socket, Dialed!option
<1>2. CASE UNCHANGED socketVars
  <2>1. UNCHANGED <<dial, asked, compact, resolved, local, group, making, failure, family, set, reached, streams>>
    BY <1>2 DEF socketVars
  <2>2. SocketTyped'
    BY <1>0, <1>1, <2>1 DEF SocketTyped
  <2>3. Carried'
    BY <1>0, <1>1, <2>1 DEF Carried
  <2>4. Reached'
    BY <1>0, <1>1, <2>1 DEF Reached
  <2> QED
    BY <2>2, <2>3, <2>4 DEF SocketIInv
<1>3. CASE Dialed!connect
  <2>1. /\ making = "start" /\ UNCHANGED <<dial, asked, compact, resolved, local, group, set, streams>>
        /\ reached = 0 /\ dial \in {"tcp", "unix"}
    BY <1>0, <1>3 DEF Dialed!connect, Reached
  <2>2. CASE dial = "tcp"
    <3> DEFINE up == {i \in DOMAIN resolved : resolved[i].up}
               i0 == CHOOSE i \in up : \A j \in up : i <= j
    <3>1. /\ ~Dialed!needs_socket
          /\ \/ up = {} /\ making' = "failed" /\ failure' = "unreachable" /\ UNCHANGED <<family, reached>>
             \/ up # {} /\ making' = "apply" /\ reached' = i0
                /\ family' = Dialed!V(resolved[i0].v4) /\ failure' = failure
      BY <1>3, <2>2 DEF Dialed!connect
    <3>2. Dialed!Early = {}
      BY <3>1 DEF Dialed!Early, Dialed!needs_socket
    <3>3. SocketTyped' /\ Carried'
      BY <1>0, <1>1, <2>1, <2>2, <3>1, <3>2 DEF SocketTyped, Carried
    <3>4. Reached'
      BY <1>0, <1>1, <2>1, <2>2, <3>1 DEF Reached
    <3> QED
      BY <3>3, <3>4 DEF SocketIInv
  <2>3. CASE dial = "unix"
    <3>1. /\ reached' = reached
          /\ \/ making' = "apply" /\ failure' = failure
             \/ making' = "failed" /\ failure' = "unreachable"
      BY <1>3, <2>3 DEF Dialed!connect
    <3>2. DOMAIN resolved = {} /\ dial \notin Dialed!Inet
      BY <1>0, <2>3 DEF SocketTyped, Dialed!Inet, Dialed!Tcp, Dialed!Datagram
    <3>3. SocketTyped' /\ Carried' /\ Reached'
      BY <1>0, <1>1, <2>1, <2>3, <3>1, <3>2 DEF SocketTyped, Carried, Reached
    <3> QED
      BY <3>3 DEF SocketIInv
  <2> QED
    BY <2>1, <2>2, <2>3
<1>4. CASE Dialed!socket
  <2>1. /\ making = "start" /\ UNCHANGED <<dial, asked, compact, resolved, local, group, set, streams>>
        /\ reached = 0 /\ reached' = reached /\ dial # "unix"
        /\ dial = "tcp" => local # <<>> \/ Dialed!needs_socket
        /\ \/ making' = "failed" /\ failure' = "unresolved"
           \/ making' = "socket" /\ failure' = failure
    BY <1>0, <1>4 DEF Dialed!socket, Reached
  <2> QED
    BY <1>0, <1>1, <2>1 DEF SocketIInv, SocketTyped, Carried, Reached
<1>5. CASE Dialed!apply_before
  <2>1. /\ making = "socket" /\ UNCHANGED <<dial, asked, compact, resolved, local, group, streams>>
        /\ UNCHANGED <<failure, family, reached>> /\ making' = "bind"
        /\ set' = IF dial = "unix-seqpacket-listen" THEN set
                  ELSE [o \in Dialed!Options |-> IF o \in Dialed!Early THEN "before" ELSE set[o]]
    BY <1>5 DEF Dialed!apply_before
  <2>2. /\ set' \in [Dialed!Options -> {"no", "before", "after"}]
        /\ dial \in Dialed!Inet => \A o \in Dialed!Early : set'[o] = "before"
    BY <1>0, <2>1 DEF SocketTyped, Dialed!Early, Dialed!Inet, Dialed!Tcp, Dialed!Datagram
  <2> QED
    BY <1>0, <1>1, <2>1, <2>2 DEF SocketIInv, SocketTyped, Carried, Reached
<1>6. CASE Dialed!bind
  <2>1. /\ making = "bind" /\ UNCHANGED <<dial, asked, compact, resolved, local, group, streams>>
        /\ UNCHANGED <<family, reached, set>>
        /\ \/ making' = "failed" /\ failure' \in {"family", "taken"}
           \/ /\ failure' = failure
              /\ making' = CASE dial \in Dialed!Listens -> "listen" [] dial = "tcp" -> "connect"
                             [] dial \in Dialed!Datagram -> "apply"
    BY <1>6 DEF Dialed!bind
  <2>2. /\ dial # "unix"
        /\ dial \in Dialed!Listens \/ dial = "tcp" \/ dial \in Dialed!Datagram
    BY <1>0, <2>1 DEF SocketTyped, Reached, Dialed!Listens, Dialed!Inet, Dialed!Unix, Dialed!Tcp, Dialed!Datagram
  <2>3. /\ making' \in {"failed", "listen", "connect", "apply"} /\ (making' = "connect" => dial = "tcp")
        /\ making' = "listen" => dial \in Dialed!Listens
    BY <2>1, <2>2 DEF Dialed!Listens, Dialed!Datagram
  <2>4. failure' = failure \/ failure' \in {"family", "taken"}
    BY <2>1
  <2> QED
    BY <1>0, <1>1, <2>1, <2>2, <2>3, <2>4 DEF SocketIInv, SocketTyped, Carried, Reached
<1>7. CASE Dialed!ConnectFirst
  <2>1. /\ making = "connect" /\ UNCHANGED <<dial, asked, compact, resolved, local, group, streams>>
        /\ UNCHANGED <<family, set>>
        /\ \/ making' = "failed" /\ failure' = "family" /\ reached' = reached
           \/ dial = "tcp" /\ making' = "failed" /\ failure' = "unreachable" /\ reached' = reached
           \/ /\ reached' = 1 /\ family = Dialed!V(resolved[1].v4) /\ failure' = failure
              /\ making' = (IF dial = "tcp" THEN "apply" ELSE "open")
    BY <1>7 DEF Dialed!ConnectFirst
  <2>2. asked = {} => ~Dialed!needs_socket
    BY DEF Dialed!needs_socket
  <2>3. SocketTyped'
    BY <1>0, <1>1, <2>1 DEF SocketTyped
  <2>4. Carried'
    BY <1>0, <1>1, <2>1 DEF Carried, Reached
  <2>5. Reached'
    BY <1>0, <1>1, <2>1, <2>2 DEF Reached
  <2> QED
    BY <2>3, <2>4, <2>5 DEF SocketIInv
<1>8. CASE Dialed!apply
  <2> DEFINE sets == IF making = "listen" /\ dial # "unix-seqpacket-listen" THEN {} ELSE Dialed!Late
  <2>1. /\ making \in {"apply", "listen"}
        /\ UNCHANGED <<dial, asked, compact, resolved, local, group, streams, family, reached>>
        /\ \/ (\E o \in sets : Dialed!Refused(o)) /\ making' = "failed" /\ failure' = "option" /\ set' = set
           \/ making' = "failed" /\ failure' = "group" /\ set' = set
           \/ /\ set' = [o \in Dialed!Options |-> IF o \in sets /\ set[o] = "no" THEN "after" ELSE set[o]]
              /\ making' = (IF dial = "udp" THEN "connect" ELSE "open") /\ failure' = failure
    BY <1>8 DEF Dialed!apply
  <2>2. compact => ~\E o \in sets : Dialed!Refused(o)
    BY <1>0 DEF SocketTyped, Dialed!Refused, Dialed!option, Dialed!Late
  <2>3. making = "listen" => dial \in Dialed!Listens
    BY <1>0 DEF Reached
  <2> HIDE DEF sets
  <2>4. CASE making' = "failed" /\ failure' \in {"option", "group"} /\ set' = set
    BY <1>0, <1>1, <2>1, <2>2, <2>4 DEF SocketIInv, SocketTyped, Carried, Reached
  <2>5. CASE /\ set' = [o \in Dialed!Options |-> IF o \in sets /\ set[o] = "no" THEN "after" ELSE set[o]]
             /\ making' = (IF dial = "udp" THEN "connect" ELSE "open") /\ failure' = failure
    <3>1. /\ set' \in [Dialed!Options -> {"no", "before", "after"}]
          /\ dial \in Dialed!Inet => \A o \in Dialed!Early : set'[o] = "before"
      BY <1>0, <2>1, <2>5 DEF SocketTyped, Carried, Dialed!Early
    <3>2. dial \in Dialed!Listens \/ \A o \in Dialed!Late : set'[o] # "no"
      <4>1. dial \notin Dialed!Listens => sets = Dialed!Late
        BY <2>1, <2>3 DEF sets
      <4>2. Dialed!Late \subseteq Dialed!Options
        BY <1>0 DEF SocketTyped, Dialed!Late
      <4> QED
        BY <2>5, <4>1, <4>2
    <3> QED
      BY <1>0, <1>1, <2>1, <2>5, <3>1, <3>2, ZenonT(40) DEF SocketIInv, SocketTyped, Carried, Reached
  <2> QED
    BY <2>1, <2>4, <2>5
<1>9. CASE Dialed!accepted
  <2>1. /\ making = "open" /\ dial \in Dialed!Listens
        /\ UNCHANGED <<dial, asked, compact, resolved, local, group, family, set, reached>>
        /\ \/ (\E o \in Dialed!Late : Dialed!Refused(o)) /\ making' = "failed" /\ failure' = "option"
              /\ streams' = streams
           \/ /\ streams' = Append(streams, Dialed!Late \cup {o \in Dialed!Options : set[o] # "no"})
              /\ UNCHANGED <<making, failure>>
    BY <1>9 DEF Dialed!accepted
  <2>2. compact => ~\E o \in Dialed!Late : Dialed!Refused(o)
    BY <1>0 DEF SocketTyped, Dialed!Refused, Dialed!option, Dialed!Late
  <2>3. CASE making' = "failed" /\ failure' = "option" /\ streams' = streams /\ ~compact
    BY <1>0, <1>1, <2>1, <2>3 DEF SocketIInv, SocketTyped, Carried, Reached
  <2>4. CASE /\ streams' = Append(streams, Dialed!Late \cup {o \in Dialed!Options : set[o] # "no"})
             /\ UNCHANGED <<making, failure>>
    <3> DEFINE new == Dialed!Late \cup {o \in Dialed!Options : set[o] # "no"}
    <3>1. new \in SUBSET Dialed!Options
      BY <1>0 DEF SocketTyped, Dialed!Late
    <3>2. compact /\ dial \in {"tcp-listen", "unix-listen"} => asked \subseteq new
      <4> SUFFICES ASSUME compact, dial \in {"tcp-listen", "unix-listen"}, NEW o \in asked,
                          o \notin Dialed!Late
                   PROVE  o \in Dialed!Options /\ set[o] # "no"
        OBVIOUS
      <4>1. o = "reuseaddr" /\ o \in Dialed!Options
        BY <1>0 DEF SocketTyped, Dialed!Late
      <4>2. dial = "tcp-listen"
        BY <1>0, <4>1 DEF SocketTyped, Dialed!option, Dialed!Unix
      <4> QED
        BY <1>0, <2>1, <4>1, <4>2 DEF Carried, Dialed!Early, Dialed!Inet, Dialed!Tcp
    <3> HIDE DEF new
    <3>3. /\ streams' \in Seq(SUBSET Dialed!Options) /\ Len(streams') = Len(streams) + 1
          /\ Len(streams) \in Nat
          /\ \A i \in 1..Len(streams) : streams'[i] = streams[i]
          /\ streams'[Len(streams) + 1] = new
      BY <1>0, <2>4, <3>1 DEF SocketTyped, new
    <3>4. dial # "tcp"
      BY <2>1 DEF Dialed!Listens
    <3>5. SocketTyped'
      BY <1>0, <1>1, <2>1, <2>4, <3>3 DEF SocketTyped
    <3>6. Carried'
      BY <1>0, <1>1, <2>1, <2>4, <3>2, <3>3, <3>4 DEF Carried
    <3>7. Reached'
      BY <1>0, <1>1, <2>1, <2>4 DEF Reached
    <3> QED
      BY <3>5, <3>6, <3>7 DEF SocketIInv
  <2> QED
    BY <2>1, <2>2, <2>3, <2>4
<1> QED
  BY <1>2, <1>3, <1>4, <1>5, <1>6, <1>7, <1>8, <1>9 DEF Dialed!Next

(* What the invariant of the making says of a socket that was made.        *)
LEMMA SocketSays == SocketIInv => Dialed!SocketsCarry
<1> SUFFICES ASSUME SocketIInv PROVE Dialed!SocketsCarry
  OBVIOUS
<1>0. SocketTyped /\ Carried /\ Reached
  BY DEF SocketIInv
<1>1. ASSUME making = "open", compact, dial \notin Dialed!Listens, NEW o \in asked
      PROVE  set[o] # "no" /\ (o \in {"reuseaddr", "buffer"} /\ dial \in Dialed!Inet => set[o] = "before")
  <2>1. o = "reuseaddr" => dial \in Dialed!Inet
    BY <1>0, <1>1 DEF SocketTyped, Dialed!option
  <2>2. o \in {"reuseaddr", "buffer"} => o \in Dialed!Early
    BY DEF Dialed!Early
  <2>3. o # "reuseaddr" => o \in Dialed!Late
    BY DEF Dialed!Late
  <2> QED
    BY <1>0, <1>1, <2>1, <2>2, <2>3 DEF Carried
<1>2. ASSUME compact, dial \in Dialed!Tcp \cup {"unix-listen"}
      PROVE  \A i \in DOMAIN streams : asked \subseteq streams[i]
  <2>1. CASE dial = "tcp"
    BY <1>0, <2>1 DEF Carried
  <2>2. CASE dial \in {"tcp-listen", "unix-listen"}
    <3>1. DOMAIN streams = 1..Len(streams)
      BY <1>0 DEF SocketTyped
    <3> QED
      BY <1>0, <1>2, <2>2, <3>1 DEF Carried
  <2> QED
    BY <1>2, <2>1, <2>2 DEF Dialed!Tcp
<1>3. /\ compact => failure # "option"
      /\ reached # 0 => family = Dialed!V(resolved[reached].v4)
      /\ failure = "unreachable" /\ asked = {} /\ local = <<>> =>
           \A i \in DOMAIN resolved : ~resolved[i].up
  BY <1>0 DEF Carried, Reached
<1> QED
  BY <1>1, <1>2, <1>3 DEF Dialed!SocketsCarry

-----------------------------------------------------------------------------
(* The kernel's interfaces.                                                *)

(* The variables' types.                                                   *)
LinkTyped ==
  /\ tun \in {"tun", "tap"} /\ wants \in Linked!Asks
  /\ before \in [exists : BOOLEAN, layer : {"none", "tun", "tap"}, up : BOOLEAN, mtu : {0} \cup Mtus]
  /\ interface \in [exists : BOOLEAN, layer : {"none", "tun", "tap"}, up : BOOLEAN, mtu : {0} \cup Mtus]
  /\ stage \in {"start", "layered", "configured", "open", "done", "failed"}
  /\ checked \in BOOLEAN /\ raised \in BOOLEAN
  /\ packets \in Seq([size : Int, lost : Int])

(* Nothing that takes privilege was asked of an interface that was there.  *)
Plain == before.exists /\ wants.up # "yes" /\ ~wants.address /\ ~wants.mac /\ wants.mtu = 0

(* How far the interface is from what there was before.                    *)
Attached ==
  /\ stage = "start" => interface = before
  /\ before.exists \/ stage \in {"layered", "configured", "open"} => interface.exists
  /\ Plain => refusal # "privilege" /\ (~raised => interface = before)
  /\ stage \in {"configured", "open"} /\ wants.address /\ wants.up # "no" => interface.up
  /\ stage \in {"done", "failed"} => (interface.exists <=> before.exists)

(* While the MTU is the one that was checked it fits, and no packet was    *)
(* cut by more than the headers it came with.                              *)
Fitting ==
  /\ stage \notin {"open", "done"} => packets = <<>>
  /\ stage = "open" /\ checked /\ ~raised => interface.mtu <= MtuBuffer
  /\ checked /\ ~raised => \A i \in 1..Len(packets) : packets[i].lost <= Linked!Beyond

LinkIInv == LinkTyped /\ Attached /\ Fitting

(* An MTU, where there is one, is a number.                                *)
LEMMA MtuIsNat == \A m \in {0} \cup Mtus : m \in Nat
<1>1. Mtus \subseteq Nat
  BY EndpointsAssumption
<1> QED
  BY <1>1

(* An interface that is about to be made is as it was before.              *)
LEMMA LinkInit == Linked!Init => LinkIInv
<1> SUFFICES ASSUME Linked!Init PROVE LinkIInv
  OBVIOUS
<1>1. /\ tun \in {"tun", "tap"} /\ wants \in Linked!Asks
      /\ before \in {Linked!None} \cup [exists : {TRUE}, layer : {"tun", "tap"}, up : BOOLEAN, mtu : Mtus]
      /\ interface = before /\ stage = "start" /\ refusal = "none" /\ checked = FALSE /\ raised = FALSE
      /\ packets = <<>>
  BY DEF Linked!Init
<1>2. before \in [exists : BOOLEAN, layer : {"none", "tun", "tap"}, up : BOOLEAN, mtu : {0} \cup Mtus]
  <2>1. CASE before = Linked!None
    BY <2>1 DEF Linked!None
  <2>2. CASE before \in [exists : {TRUE}, layer : {"tun", "tap"}, up : BOOLEAN, mtu : Mtus]
    <3>1. /\ before = [exists |-> before.exists, layer |-> before.layer, up |-> before.up, mtu |-> before.mtu]
          /\ before.exists \in BOOLEAN /\ before.layer \in {"none", "tun", "tap"}
          /\ before.up \in BOOLEAN /\ before.mtu \in {0} \cup Mtus
      BY <2>2
    <3> QED
      BY <3>1
  <2> QED
    BY <1>1, <2>1, <2>2
<1>3. <<>> \in Seq([size : Int, lost : Int])
  OBVIOUS
<1>4. LinkTyped
  BY <1>1, <1>2, <1>3 DEF LinkTyped
<1>5. Attached /\ Fitting
  BY <1>1 DEF Attached, Fitting
<1> QED
  BY <1>4, <1>5 DEF LinkIInv

(* Every step of making an interface keeps what is known of it.            *)
LEMMA LinkStep == LinkIInv /\ (Linked!Next \/ UNCHANGED interfaceVars) => LinkIInv'
<1> SUFFICES ASSUME LinkIInv, Linked!Next \/ UNCHANGED interfaceVars PROVE LinkIInv'
  OBVIOUS
<1>0. LinkTyped /\ Attached /\ Fitting
  BY DEF LinkIInv
<1> DEFINE Interfaces == [exists : BOOLEAN, layer : {"none", "tun", "tap"}, up : BOOLEAN, mtu : {0} \cup Mtus]
<1>1. CASE UNCHANGED interfaceVars
  BY <1>0, <1>1 DEF interfaceVars, LinkIInv, LinkTyped, Attached, Plain, Fitting, Linked!Asks,
     Linked!Beyond
<1>2. ASSUME Linked!Given PROVE UNCHANGED <<tun, wants, privileged, before, Linked!Beyond>>
  BY <1>2 DEF Linked!Given, Linked!Beyond
(* A failure undoes what was created.                                      *)
<1>3. ASSUME Linked!Given, UNCHANGED <<raised, packets>>, checked' \in BOOLEAN,
             NEW cause, Linked!Fails(cause), Plain => cause # "privilege",
             stage \in {"start", "layered", "configured"}
      PROVE  LinkIInv'
  <2>1. /\ stage' = "failed" /\ refusal' = cause
        /\ interface' = IF before.exists THEN interface ELSE Linked!None
    BY <1>3 DEF Linked!Fails, Linked!Gone
  <2>2. interface' \in Interfaces /\ (interface'.exists <=> before.exists)
    BY <1>0, <2>1 DEF LinkTyped, Attached, Linked!None
  <2>3. LinkTyped'
    BY <1>0, <1>2, <1>3, <2>1, <2>2 DEF LinkTyped, Linked!Asks
  <2>4. Attached'
    BY <1>0, <1>2, <1>3, <2>1, <2>2 DEF Attached, Plain
  <2>5. Fitting'
    BY <1>0, <1>2, <1>3, <2>1 DEF Fitting
  <2> QED
    BY <2>3, <2>4, <2>5 DEF LinkIInv
<1>4. CASE Linked!Opens
  <2>1. stage = "start" /\ Linked!Given /\ UNCHANGED <<checked, raised, packets>>
    BY <1>4 DEF Linked!Opens
  <2>2. CASE Linked!Fails("layer")
    BY <1>0, <1>3, <2>1, <2>2 DEF LinkTyped
  <2>3. CASE ~before.exists /\ Linked!Fails("privilege")
    BY <1>0, <1>3, <2>1, <2>3 DEF LinkTyped, Plain
  <2>4. ASSUME stage' = "layered", refusal' = refusal, NEW m \in Mtus,
               interface' = IF before.exists THEN before
                            ELSE [exists |-> TRUE, layer |-> tun, up |-> FALSE, mtu |-> m]
        PROVE  LinkIInv'
    <3>1. interface' \in Interfaces /\ interface'.exists /\ (before.exists => interface' = before)
      BY <1>0, <2>4 DEF LinkTyped
    <3>2. LinkTyped'
      BY <1>0, <1>2, <2>1, <2>4, <3>1 DEF LinkTyped, Linked!Asks
    <3>3. Attached'
      BY <1>0, <1>2, <2>1, <2>4, <3>1 DEF Attached, Plain
    <3>4. Fitting'
      BY <1>0, <1>2, <2>1, <2>4 DEF Fitting
    <3> QED
      BY <3>2, <3>3, <3>4 DEF LinkIInv
  <2> QED
    BY <1>4, <2>2, <2>3, <2>4 DEF Linked!Opens
<1>5. CASE Linked!build_async
  <2>1. stage = "layered" /\ Linked!Given /\ UNCHANGED <<checked, raised, packets>>
    BY <1>5 DEF Linked!build_async
  <2>2. CASE Linked!Touches /\ Linked!Fails("privilege")
    <3>1. ~Plain
      BY <2>2 DEF Plain, Linked!Touches, Linked!enable
    <3> QED
      BY <1>0, <1>3, <2>1, <2>2, <3>1 DEF LinkTyped
  <2>3. CASE /\ interface' = [interface EXCEPT
                    !.up = IF Linked!enable = "up" THEN TRUE ELSE @,
                    !.mtu = IF wants.mtu # 0 THEN wants.mtu ELSE @]
             /\ stage' = "configured" /\ refusal' = refusal
    <3>1. wants.mtu \in {0} \cup Mtus
      BY <1>0 DEF LinkTyped, Linked!Asks
    <3>2. interface' \in Interfaces /\ interface'.exists = interface.exists
      BY <1>0, <2>3, <3>1 DEF LinkTyped
    <3>3. wants.address /\ wants.up # "no" => interface'.up
      <4>1. wants.address /\ wants.up # "no" => Linked!enable = "up"
        BY <1>0 DEF LinkTyped, Linked!Asks, Linked!enable
      <4> QED
        BY <1>0, <2>3, <4>1 DEF LinkTyped
    <3>4. Plain => interface' = interface
      <4>1. Plain => Linked!enable = "leave" /\ wants.mtu = 0
        BY DEF Plain, Linked!enable
      <4>2. Plain => interface' = [interface EXCEPT !.up = @, !.mtu = @]
        BY <2>3, <4>1
      <4> QED
        BY <1>0, <4>2 DEF LinkTyped
    <3>5. LinkTyped'
      BY <1>0, <1>2, <2>1, <2>3, <3>2 DEF LinkTyped, Linked!Asks
    <3>6. Attached'
      BY <1>0, <1>2, <2>1, <2>3, <3>2, <3>3, <3>4 DEF Attached, Plain
    <3>7. Fitting'
      BY <1>0, <1>2, <2>1, <2>3 DEF Fitting
    <3> QED
      BY <3>5, <3>6, <3>7 DEF LinkIInv
  <2> QED
    BY <1>5, <2>2, <2>3 DEF Linked!build_async
<1>6. CASE Linked!mtu
  <2>1. stage = "configured" /\ Linked!Given /\ UNCHANGED <<raised, packets>> /\ checked' \in BOOLEAN
    BY <1>6 DEF Linked!mtu
  <2>2. CASE Linked!Fails("mtu")
    BY <1>3, <2>1, <2>2
  <2>3. CASE /\ stage' = "open" /\ refusal' = refusal /\ interface' = interface
             /\ checked' => Linked!Fits
    <3>1. LinkTyped'
      BY <1>0, <1>2, <2>1, <2>3 DEF LinkTyped, Linked!Asks
    <3>2. Attached'
      BY <1>0, <1>2, <2>1, <2>3 DEF Attached, Plain
    <3>3. Fitting'
      BY <1>0, <1>2, <2>1, <2>3 DEF Fitting, Linked!Fits
    <3> QED
      BY <3>1, <3>2, <3>3 DEF LinkIInv
  <2> QED
    BY <1>6, <2>2, <2>3 DEF Linked!mtu
<1>7. CASE Linked!recv
  <2>1. PICK n \in 1..interface.mtu : packets' = Append(packets, Linked!Cut(n + Linked!Beyond))
    BY <1>7 DEF Linked!recv
  <2>2. stage = "open" /\ Linked!Given /\ UNCHANGED <<interface, stage, refusal, checked, raised>>
    BY <1>7 DEF Linked!recv
  <2> DEFINE m == interface.mtu
             beyond == Linked!Beyond
             new == Linked!Cut(n + beyond)
  <2>3. m \in Int /\ n \in Int /\ n <= m /\ MtuBuffer \in Int /\ beyond \in Nat
    <3>1. m \in {0} \cup Mtus
      BY <1>0 DEF LinkTyped
    <3>2. MtuBuffer \in Nat /\ Ethernet \in Nat /\ PacketInfo \in Nat
      BY EndpointsAssumption
    <3>3. m \in Nat
      BY <3>1, MtuIsNat
    <3>4. beyond \in Nat
      BY <3>2 DEF Linked!Beyond
    <3>5. n \in 1..m
      OBVIOUS
    <3> HIDE DEF m, beyond
    <3> QED
      BY <3>2, <3>3, <3>4, <3>5
  <2>10. checked /\ ~raised => m <= MtuBuffer
    BY <1>0, <2>2 DEF Fitting
  <2> HIDE DEF m, beyond
  <2>4. new \in [size : Int, lost : Int] /\ (n + beyond <= MtuBuffer => new.lost = 0)
        /\ (~(n + beyond <= MtuBuffer) => new.lost = n + beyond - MtuBuffer)
    BY <2>3 DEF Linked!Cut
  <2>5. checked /\ ~raised => new.lost <= beyond
    <3> HIDE DEF new
    <3> QED
      BY <2>3, <2>4, <2>10
  <2> HIDE DEF new
  <2>6. /\ packets' \in Seq([size : Int, lost : Int]) /\ Len(packets') = Len(packets) + 1
        /\ Len(packets) \in Nat
        /\ \A i \in 1..Len(packets) : packets'[i] = packets[i]
        /\ packets'[Len(packets) + 1] = new
    BY <1>0, <2>1, <2>4 DEF LinkTyped, new, beyond
  <2>7. LinkTyped'
    BY <1>0, <1>2, <2>2, <2>6 DEF LinkTyped, Linked!Asks
  <2>8. Attached'
    BY <1>0, <1>2, <2>2 DEF Attached, Plain
  <2>11. checked /\ ~raised => new.lost <= Linked!Beyond
    BY <2>5 DEF beyond
  <2>12. Linked!Beyond' = Linked!Beyond
    BY <1>2, <2>2
  <2>9. Fitting'
    <3>1. checked' /\ ~raised' => \A i \in 1..Len(packets') : packets'[i].lost <= Linked!Beyond'
      <4>1. checked /\ ~raised => \A i \in 1..Len(packets) : packets[i].lost <= Linked!Beyond
        BY <1>0 DEF Fitting
      <4> DEFINE l == Len(packets)
                 all == packets'
                 b == Linked!Beyond
      <4>2. /\ Len(all) = l + 1 /\ l \in Nat /\ Linked!Beyond' = b
            /\ \A i \in 1..l : all[i] = packets[i]
            /\ all[l + 1] = new
        BY <2>6, <2>12
      <4>3. checked /\ ~raised => new.lost <= b /\ \A i \in 1..l : packets[i].lost <= b
        BY <2>11, <4>1
      <4> HIDE DEF l, b, all
      <4>4. checked /\ ~raised => \A i \in 1..Len(all) : all[i].lost <= b
        BY <4>2, <4>3
      <4> QED
        BY <2>2, <4>2, <4>4 DEF all
    <3> QED
      BY <1>0, <2>2, <3>1 DEF Fitting
  <2> QED
    BY <2>7, <2>8, <2>9 DEF LinkIInv
<1>8. CASE Linked!SetsMtu
  <2>1. PICK m \in Mtus : interface' = [interface EXCEPT !.mtu = m]
    BY <1>8 DEF Linked!SetsMtu
  <2>2. stage = "open" /\ raised' = TRUE /\ Linked!Given /\ UNCHANGED <<stage, refusal, checked, packets>>
    BY <1>8 DEF Linked!SetsMtu
  <2>3. interface' \in Interfaces /\ interface'.exists = interface.exists /\ interface'.up = interface.up
    BY <1>0, <2>1 DEF LinkTyped
  <2>4. LinkTyped'
    BY <1>0, <1>2, <2>2, <2>3 DEF LinkTyped, Linked!Asks
  <2>5. Attached'
    BY <1>0, <1>2, <2>2, <2>3 DEF Attached, Plain
  <2>6. Fitting'
    BY <1>0, <1>2, <2>2 DEF Fitting
  <2> QED
    BY <2>4, <2>5, <2>6 DEF LinkIInv
<1>9. CASE Linked!Ends
  <2>1. /\ stage = "open" /\ stage' = "done" /\ Linked!Given /\ UNCHANGED <<refusal, checked, raised, packets>>
        /\ interface' = IF before.exists THEN interface ELSE Linked!None
    BY <1>9 DEF Linked!Ends, Linked!Gone
  <2>2. interface' \in Interfaces /\ (interface'.exists <=> before.exists)
    BY <1>0, <2>1 DEF LinkTyped, Attached, Linked!None
  <2>3. LinkTyped'
    BY <1>0, <1>2, <2>1, <2>2 DEF LinkTyped, Linked!Asks
  <2>4. Attached'
    BY <1>0, <1>2, <2>1, <2>2 DEF Attached, Plain
  <2>5. Fitting'
    BY <1>0, <1>2, <2>1 DEF Fitting
  <2> QED
    BY <2>3, <2>4, <2>5 DEF LinkIInv
<1> QED
  BY <1>1, <1>4, <1>5, <1>6, <1>7, <1>8, <1>9 DEF Linked!Next

(* A socket and an interface are made as they were asked for: on the       *)
(* command line no option is refused or forgotten, whichever of the        *)
(* moments it has to be set at; an interface that was there is left as it  *)
(* was found, unless it was asked to change; and while its MTU is the one  *)
(* that was checked a packet loses no more than the headers that check did *)
(* not count (endpoint/sockopt.rs, tcp.rs, udp.rs, unix.rs, tun.rs).       *)
THEOREM MadeAsItWasAsked == EndpointsSpec => []MadeAsAsked
<1>1. EndpointsInit => SocketIInv /\ LinkIInv
  BY SocketInit, LinkInit DEF EndpointsInit
<1>2. SocketIInv /\ LinkIInv /\ [EndpointsNext]_everything => SocketIInv' /\ LinkIInv'
  <2>1. [EndpointsNext]_everything => (Dialed!Next \/ UNCHANGED socketVars) /\ (Linked!Next \/ UNCHANGED interfaceVars)
    BY DEF EndpointsNext, everything
  <2> QED
    BY <2>1, SocketStep, LinkStep
<1>3. SocketIInv /\ LinkIInv => MadeAsAsked
  <2> SUFFICES ASSUME SocketIInv, LinkIInv PROVE MadeAsAsked
    OBVIOUS
  <2>1. LinkTyped /\ Attached /\ Fitting
    BY DEF LinkIInv
  <2>2. Plain => refusal # "privilege" /\ (~raised => interface = before)
    BY <2>1 DEF Attached
  <2>3. stage = "open" /\ wants.address /\ wants.up # "no" => interface.up
    BY <2>1 DEF Attached
  <2>4. DOMAIN packets = 1..Len(packets)
    BY <2>1 DEF LinkTyped
  <2>5. checked /\ ~raised => \A i \in DOMAIN packets : packets[i].lost <= Linked!Beyond
    BY <2>1, <2>4 DEF Fitting
  <2>6. stage \in {"done", "failed"} => interface.exists = before.exists
    BY <2>1 DEF LinkTyped, Attached
  <2>7. Linked!InterfaceIsKept
    BY <2>2, <2>3, <2>5, <2>6 DEF Linked!InterfaceIsKept, Plain
  <2> QED
    BY <2>7, SocketSays DEF MadeAsAsked
<1> QED
  BY <1>1, <1>2, <1>3, PTL DEF EndpointsSpec, everything

-----------------------------------------------------------------------------
(* What is behind a path.                                                  *)

(* What a cell of the contents can be, and the cells that are someone's.   *)
Cell       == Connections \cup {"old", "hole", "peer"}
Of(who, s) == {i \in 1..Len(s) : s[i] = who}

(* The variables' types, and what the path's kind goes with.               *)
FileTyped ==
  /\ kind \in {"nothing", "regular", "block", "fifo"} /\ dir \in {"source", "sink"}
  /\ file \in Stored!Specs /\ Stored!validate(file)
  /\ file.hold => kind = "fifo" /\ file.scheme = "pipe"
  /\ content0 \in Seq(Cell) /\ contents \in Seq(Cell)
  /\ access \in [Connections -> {"new", "checked", "seeks", "open", "done", "failed"}]
  /\ offset \in [Connections -> Nat] /\ took \in [Connections -> Nat]
  /\ other \in BOOLEAN /\ (other => kind = "fifo")

(* How far each connection is in the file.                                 *)
Along ==
  \A c \in Connections :
    /\ access[c] \in {"new", "checked", "seeks", "failed"} => took[c] = 0
    /\ access[c] = "open" /\ dir = "sink" /\ kind # "fifo" /\ ~file.append =>
         offset[c] = file.seek + took[c]

(* What nobody has touched is as it was found.                             *)
Untouched ==
  /\ kind = "nothing" => content0 = <<>> /\ Stored!Started = {}
  /\ kind # "fifo" /\ (dir = "source" \/ Stored!Started = {}) => contents = content0
  /\ file.device => kind # "regular" \/ content0 # <<>>
  /\ file.hold => ended = {} /\ broken = {}

(* What a sink has made of a file: alone, and under append.                *)
Placing ==
  /\ kind # "fifo" /\ dir = "sink" =>
       \A c \in Connections : Stored!Started = {c} => contents = Stored!Alone(c)
  /\ kind # "fifo" /\ dir = "sink" /\ file.append =>
       /\ Len(content0) <= Len(contents)
       /\ \A i \in 1..Len(content0) : contents[i] = content0[i]
       /\ \A c \in Connections : Cardinality(Of(c, contents)) = took[c]

FilesIInv == FileTyped /\ Along /\ Untouched /\ Placing

(* A file that is about to be opened holds what it held.                   *)
LEMMA FilesInit == Stored!Init => FilesIInv
<1> SUFFICES ASSUME Stored!Init PROVE FilesIInv
  OBVIOUS
<1>1. /\ kind \in {"nothing", "regular", "block", "fifo"} /\ dir \in {"source", "sink"}
      /\ file \in Stored!Specs /\ Stored!validate(file)
      /\ file.scheme = "file" => ~file.hold
      /\ file.scheme = "pipe" => kind = "fifo"
      /\ content0 = IF kind \in {"regular", "block"} THEN <<"old", "old">> ELSE <<>>
      /\ contents = content0
      /\ access = [c \in Connections |-> "new"] /\ offset = [c \in Connections |-> 0]
      /\ took = [c \in Connections |-> 0] /\ ended = {} /\ broken = {}
      /\ other = FALSE
  BY DEF Stored!Init
<1>2. file.scheme \in {"file", "pipe"}
  BY <1>1 DEF Stored!Specs
<1>3. content0 \in Seq(Cell)
  <2>1. "old" \in Cell
    BY DEF Cell
  <2> QED
    BY <1>1, <2>1
<1>4. FileTyped
  BY <1>1, <1>2, <1>3 DEF FileTyped
<1>5. Stored!Started = {}
  BY <1>1 DEF Stored!Started
<1>6. Along
  BY <1>1 DEF Along
<1>7. Untouched
  BY <1>1, <1>5 DEF Untouched
<1>8. \A c \in Connections : Of(c, contents) = {}
  <2>1. \A i \in 1..Len(contents) : contents[i] = "old"
    BY <1>1
  <2> QED
    BY <2>1, EndpointsAssumption DEF Of
<1>9. Placing
  <2>1. \A c \in Connections : Cardinality(Of(c, contents)) = 0
    BY <1>8, FS_EmptySet
  <2>2. \A c \in Connections : took[c] = 0 /\ Stored!Started # {c}
    BY <1>1, <1>5
  <2>3. Len(content0) <= Len(contents) /\ \A i \in 1..Len(content0) : contents[i] = content0[i]
    BY <1>1, <1>3
  <2> QED
    BY <2>1, <2>2, <2>3 DEF Placing
<1> QED
  BY <1>4, <1>6, <1>7, <1>9 DEF FilesIInv

(* What a sink makes of a file depends on what it was told and has         *)
(* written.                                                                *)
LEMMA AloneStays ==
  ASSUME UNCHANGED <<file, kind, content0, took>>, NEW c \in Connections
  PROVE  Stored!Alone(c)' = Stored!Alone(c)
BY DEF Stored!Alone

(* A step that leaves the contents alone, and starts nobody, leaves what   *)
(* is said of them: so does any step at a FIFO.                            *)
LEMMA ContentsStay ==
  ASSUME FilesIInv, UNCHANGED <<file, dir, kind, content0>>, file.hold => ended' = {} /\ broken' = {},
         \/ kind = "fifo"
         \/ /\ contents' = contents /\ Stored!Started' = Stored!Started
            /\ took' = took \/ dir = "source"
  PROVE  Untouched' /\ Placing'
<1>0. FileTyped /\ Untouched /\ Placing
  BY DEF FilesIInv
<1>1. Untouched'
  BY <1>0 DEF Untouched
<1>2. CASE kind = "fifo" \/ dir = "source"
  <2>1. ~(kind' # "fifo" /\ dir' = "sink")
    BY <1>2
  <2>2. Placing'
    BY <2>1 DEF Placing
  <2> QED
    BY <1>1, <2>2
<1>3. CASE kind # "fifo" /\ dir = "sink"
  <2>1. /\ contents' = contents /\ Stored!Started' = Stored!Started /\ took' = took
    BY <1>3
  <2>2. \A c \in Connections : Stored!Alone(c)' = Stored!Alone(c)
    BY <2>1, AloneStays
  <2>3. \A c : Of(c, contents)' = Of(c, contents)
    BY <2>1 DEF Of
  <2> QED
    <3>1. \A c \in Connections : Stored!Started' = {c} => contents' = Stored!Alone(c)'
      BY <1>0, <1>3, <2>1, <2>2 DEF Placing
    <3>2. ASSUME file.append
          PROVE  /\ Len(content0') <= Len(contents')
                 /\ \A i \in 1..Len(content0') : contents'[i] = content0'[i]
                 /\ \A c \in Connections : Cardinality(Of(c, contents)') = took'[c]
      BY <1>0, <1>3, <2>1, <2>3, <3>2 DEF Placing
    <3>3. Placing'
      BY <3>1, <3>2 DEF Placing
    <3> QED
      BY <1>1, <3>3
<1> QED
  BY <1>0, <1>2, <1>3 DEF FileTyped

(* Where a connection goes on to, and so who has started.                  *)
LEMMA GoesOn ==
  ASSUME FilesIInv, NEW c \in Connections, NEW next \in {"checked", "seeks", "open", "done", "failed"},
         Stored!To(c, next)
  PROVE  /\ access' \in [Connections -> {"new", "checked", "seeks", "open", "done", "failed"}]
         /\ access'[c] = next /\ \A d \in Connections \ {c} : access'[d] = access[d]
         /\ Stored!Started' = IF next \in {"seeks", "open", "done"} THEN Stored!Started \cup {c}
                              ELSE Stored!Started \ {c}
<1>1. access' = [access EXCEPT ![c] = next]
      /\ access \in [Connections -> {"new", "checked", "seeks", "open", "done", "failed"}]
  BY DEF Stored!To, FilesIInv, FileTyped
<1>2. /\ access' \in [Connections -> {"new", "checked", "seeks", "open", "done", "failed"}]
      /\ access'[c] = next /\ \A d \in Connections \ {c} : access'[d] = access[d]
  BY <1>1
<1> QED
  BY <1>2 DEF Stored!Started

(* What the contents are after a cell more, a cell less, and none.         *)
LEMMA CellsStay ==
  ASSUME NEW s \in Seq(Cell), NEW x \in Cell
  PROVE  /\ <<>> \in Seq(Cell) /\ Append(s, x) \in Seq(Cell)
         /\ s # <<>> => Tail(s) \in Seq(Cell)
OBVIOUS

(* Looking whether a path is a device writes nothing.                      *)
LEMMA CheckKeeps == ASSUME FilesIInv, NEW c \in Connections, Stored!check_device(c) PROVE FilesIInv'
<1>0. FileTyped /\ Along /\ Untouched
  BY DEF FilesIInv
<1>1. /\ access[c] = "new"
      /\ Stored!To(c, "failed") \/ Stored!To(c, "checked")
      /\ UNCHANGED <<file, dir, kind, content0, contents, offset, took, ended, broken, other, given>>
  BY DEF Stored!check_device
<1>2. PICK next \in {"checked", "failed"} : Stored!To(c, next)
  BY <1>1
<1>3. /\ access' \in [Connections -> {"new", "checked", "seeks", "open", "done", "failed"}]
      /\ access'[c] = next /\ \A d \in Connections \ {c} : access'[d] = access[d]
      /\ Stored!Started' = Stored!Started
  <2>1. c \notin Stored!Started
    BY <1>1 DEF Stored!Started
  <2> QED
    BY <1>2, <2>1, GoesOn
<1>4. Untouched' /\ Placing'
  BY <1>0, <1>1, <1>3, ContentsStay DEF Untouched
<1>5. FileTyped'
  BY <1>0, <1>1, <1>3 DEF FileTyped, Cell, Stored!Specs, Stored!validate
<1>6. Along'
  BY <1>0, <1>1, <1>3 DEF Along
<1> QED
  BY <1>4, <1>5, <1>6 DEF FilesIInv

(* Seeking writes nothing.                                                 *)
LEMMA SeekKeeps == ASSUME FilesIInv, NEW c \in Connections, Stored!seek_to(c) PROVE FilesIInv'
<1>0. FileTyped /\ Along /\ Untouched
  BY DEF FilesIInv
<1>1. /\ access[c] = "seeks"
      /\ UNCHANGED <<file, dir, kind, content0, contents, took, ended, broken, other, given>>
      /\ \/ kind = "fifo" /\ Stored!To(c, "failed") /\ offset' = offset
         \/ Stored!To(c, "open") /\ offset' = [offset EXCEPT ![c] = file.seek]
  BY DEF Stored!seek_to
<1>2. PICK next \in {"open", "failed"} :
        /\ Stored!To(c, next)
        /\ next = "failed" => kind = "fifo" /\ offset' = offset
        /\ next = "open" => offset' = [offset EXCEPT ![c] = file.seek]
  BY <1>1
<1>3. /\ access' \in [Connections -> {"new", "checked", "seeks", "open", "done", "failed"}]
      /\ access'[c] = next /\ \A d \in Connections \ {c} : access'[d] = access[d]
      /\ next = "open" => Stored!Started' = Stored!Started
  <2>1. c \in Stored!Started
    BY <1>1 DEF Stored!Started
  <2> QED
    BY <1>2, <2>1, GoesOn
<1>4. Untouched' /\ Placing'
  BY <1>0, <1>1, <1>2, <1>3, ContentsStay DEF Untouched
<1>5. file.seek \in Nat
  BY <1>0 DEF FileTyped, Stored!Specs
<1>6. FileTyped'
  BY <1>0, <1>1, <1>2, <1>3, <1>5 DEF FileTyped, Cell, Stored!Specs, Stored!validate
<1>7. took[c] = 0 /\ offset \in [Connections -> Nat]
  BY <1>0, <1>1 DEF Along, FileTyped
<1>8. Along'
  BY <1>0, <1>1, <1>2, <1>3, <1>5, <1>7 DEF Along
<1> QED
  BY <1>4, <1>6, <1>8 DEF FilesIInv

(* Closing writes nothing.                                                 *)
LEMMA ClosesFile == ASSUME FilesIInv, NEW c \in Connections, Stored!Closes(c) PROVE FilesIInv'
<1>0. FileTyped /\ Along /\ Untouched
  BY DEF FilesIInv
<1>1. /\ access[c] = "open" /\ Stored!To(c, "done")
      /\ UNCHANGED <<file, dir, kind, content0, offset, took, ended, broken, other, given>>
      /\ contents' = contents \/ (kind = "fifo" /\ contents' = <<>>)
  BY DEF Stored!Closes
<1>2. /\ access' \in [Connections -> {"new", "checked", "seeks", "open", "done", "failed"}]
      /\ access'[c] = "done" /\ \A d \in Connections \ {c} : access'[d] = access[d]
      /\ Stored!Started' = Stored!Started
  <2>1. c \in Stored!Started
    BY <1>1 DEF Stored!Started
  <2> QED
    <3>1. /\ access' \in [Connections -> {"new", "checked", "seeks", "open", "done", "failed"}]
          /\ access'[c] = "done" /\ \A d \in Connections \ {c} : access'[d] = access[d]
          /\ Stored!Started' = Stored!Started \cup {c}
      BY <1>1, GoesOn
    <3> QED
      BY <2>1, <3>1
<1>3. Untouched' /\ Placing'
  BY <1>0, <1>1, <1>2, ContentsStay DEF Untouched
<1>4. contents' \in Seq(Cell)
  <2>1. contents \in Seq(Cell) /\ <<>> \in Seq(Cell)
    BY <1>0 DEF FileTyped
  <2> QED
    BY <1>1, <2>1
<1>5. FileTyped'
  BY <1>0, <1>1, <1>2, <1>4 DEF FileTyped, Cell, Stored!Specs, Stored!validate
<1>6. Along'
  BY <1>0, <1>1, <1>2 DEF Along
<1> QED
  BY <1>3, <1>5, <1>6 DEF FilesIInv

(* The open: only the first to start finds the file as it was.             *)
LEMMA OpenFileKeeps == ASSUME FilesIInv, NEW c \in Connections, Stored!open(c) PROVE FilesIInv'
<1>0. FileTyped /\ Along /\ Untouched /\ Placing
  BY DEF FilesIInv
<1>1. /\ access[c] = "checked"
      /\ UNCHANGED <<file, dir, content0, offset, took, ended, broken, other, given>>
  BY DEF Stored!open
<1>2. c \notin Stored!Started /\ took[c] = 0
  BY <1>0, <1>1 DEF Stored!Started, Along
<1>3. CASE kind = "fifo"
  <2>1. Stored!To(c, "seeks") /\ UNCHANGED <<kind, contents>>
    BY <1>3 DEF Stored!open
  <2>2. /\ access' \in [Connections -> {"new", "checked", "seeks", "open", "done", "failed"}]
        /\ access'[c] = "seeks" /\ \A d \in Connections \ {c} : access'[d] = access[d]
    BY <2>1, GoesOn
  <2>3. FileTyped'
    BY <1>0, <1>1, <2>1, <2>2 DEF FileTyped, Cell, Stored!Specs, Stored!validate
  <2>4. Along'
    BY <1>0, <1>1, <1>3, <2>1, <2>2 DEF Along
  <2>5. Untouched' /\ Placing'
    BY <1>0, <1>1, <1>3, <2>1, ContentsStay DEF Untouched
  <2> QED
    BY <2>3, <2>4, <2>5 DEF FilesIInv
<1>4. CASE kind # "fifo" /\ kind = "nothing" /\ ~Stored!options(file).create
  <2>1. Stored!To(c, "failed") /\ UNCHANGED <<kind, contents>>
    BY <1>4 DEF Stored!open
  <2>2. /\ access' \in [Connections -> {"new", "checked", "seeks", "open", "done", "failed"}]
        /\ access'[c] = "failed" /\ \A d \in Connections \ {c} : access'[d] = access[d]
        /\ Stored!Started' = Stored!Started
    BY <1>2, <2>1, GoesOn
  <2>3. FileTyped'
    BY <1>0, <1>1, <2>1, <2>2 DEF FileTyped, Cell, Stored!Specs, Stored!validate
  <2>4. Along'
    BY <1>0, <1>1, <2>1, <2>2 DEF Along
  <2>5. Untouched' /\ Placing'
    BY <1>0, <1>1, <2>1, <2>2, ContentsStay DEF Untouched
  <2> QED
    BY <2>3, <2>4, <2>5 DEF FilesIInv
<1>5. CASE kind # "fifo" /\ ~(kind = "nothing" /\ ~Stored!options(file).create)
  <2>1. /\ Stored!To(c, "seeks")
        /\ kind' = IF kind = "nothing" THEN "regular" ELSE kind
        /\ contents' = IF Stored!options(file).truncate /\ kind = "regular" THEN <<>> ELSE contents
    BY <1>5 DEF Stored!open
  <2>2. /\ access' \in [Connections -> {"new", "checked", "seeks", "open", "done", "failed"}]
        /\ access'[c] = "seeks" /\ \A d \in Connections \ {c} : access'[d] = access[d]
        /\ Stored!Started' = Stored!Started \cup {c}
    BY <2>1, GoesOn
  <2>3. contents' \in Seq(Cell) /\ kind' \in {"regular", "block"} /\ ~file.hold
    BY <1>0, <1>5, <2>1 DEF FileTyped
  <2>4. ~other
    BY <1>0, <1>5 DEF FileTyped
  <2>5. FileTyped'
    BY <1>0, <1>1, <2>2, <2>3, <2>4 DEF FileTyped, Cell, Stored!Specs, Stored!validate
  <2>6. Along'
    BY <1>0, <1>1, <1>5, <2>2, <1>2 DEF Along
  <2>7. /\ Stored!options(file).truncate <=> (dir = "sink" /\ file.truncate /\ ~file.append)
        /\ Stored!options(file).create <=> (dir = "sink" /\ Stored!creates(file))
    BY <1>0 DEF FileTyped, Stored!options, Stored!Specs
  <2>8. file.device => kind # "nothing"
    BY <1>0, <1>5, <2>7 DEF FileTyped, Stored!creates, Stored!validate, Stored!Specs
  <2>9. Untouched'
    <3>1. dir = "source" => contents' = contents
      BY <2>1, <2>7
    <3>2. c \in Stored!Started'
      BY <2>2
    <3>3. file.device => kind' = kind
      BY <2>1, <2>8
    <3> QED
      BY <1>0, <1>1, <1>5, <2>3, <3>1, <3>2, <3>3 DEF Untouched
  <2>10. ASSUME dir = "sink", NEW d \in Connections, Stored!Started' = {d} PROVE contents' = Stored!Alone(d)'
    <3>1. d = c /\ Stored!Started = {}
      BY <1>2, <2>2, <2>10
    <3>2. contents = content0 /\ took' = took
      BY <1>0, <1>1, <1>5, <3>1 DEF Untouched
    <3> DEFINE kept == IF file.truncate /\ ~file.append /\ kind' = "regular" THEN <<>> ELSE content0
    <3>3. contents' = kept
      <4>1. kind = "nothing" => content0 = <<>>
        BY <1>0 DEF Untouched
      <4> QED
        BY <1>5, <2>1, <2>7, <2>10, <3>2, <4>1
    <3>4. kept \in Seq(Cell)
      BY <2>3, <3>3
    <3>5. Stored!Alone(d)' = [i \in 1..Len(kept) |->
                                IF i > (IF file.append THEN Len(kept) ELSE file.seek)
                                   /\ i <= (IF file.append THEN Len(kept) ELSE file.seek) + 0 THEN c
                                ELSE IF i <= Len(kept) THEN kept[i] ELSE "hole"]
      BY <1>1, <1>2, <3>1, <3>2 DEF Stored!Alone
    <3> HIDE DEF kept
    <3>6. file.seek \in Nat /\ Len(kept) \in Nat
      BY <1>0, <3>4 DEF FileTyped, Stored!Specs
    <3>7. Stored!Alone(d)' = [i \in 1..Len(kept) |-> kept[i]]
      BY <3>5, <3>6
    <3> QED
      BY <3>3, <3>4, <3>7
  <2>11. ASSUME dir = "sink", file.append
         PROVE  /\ Len(content0') <= Len(contents')
                /\ \A i \in 1..Len(content0') : contents'[i] = content0'[i]
                /\ \A d \in Connections : Cardinality(Of(d, contents')) = took'[d]
    <3>1. contents' = contents
      BY <2>1, <2>7, <2>11
    <3> QED
      BY <1>0, <1>1, <1>5, <2>11, <3>1 DEF Placing
  <2>12. Placing'
    BY <1>1, <2>10, <2>11 DEF Placing
  <2> QED
    BY <2>5, <2>6, <2>9, <2>12 DEF FilesIInv
<1> QED
  BY <1>3, <1>4, <1>5

(* A cell that is added at the end is one more of its writer's.            *)
LEMMA OneCellMore ==
  ASSUME NEW s \in Seq(Cell), NEW c \in Connections, NEW d \in Connections
  PROVE  Cardinality(Of(d, Append(s, c))) = Cardinality(Of(d, s)) + (IF d = c THEN 1 ELSE 0)
<1> DEFINE t == Append(s, c)
<1>1. c \in Cell
  BY DEF Cell
<1>2. /\ Len(t) = Len(s) + 1 /\ Len(s) \in Nat /\ t[Len(s) + 1] = c
      /\ \A i \in 1..Len(s) : t[i] = s[i]
  BY <1>1
<1> HIDE DEF t
<1>3. Of(d, t) = IF d = c THEN Of(d, s) \cup {Len(s) + 1} ELSE Of(d, s)
  BY <1>2 DEF Of
<1>4. IsFiniteSet(Of(d, s)) /\ Len(s) + 1 \notin Of(d, s)
  <2>1. IsFiniteSet(1..Len(s))
    BY <1>2, FS_Interval
  <2>2. Of(d, s) \subseteq 1..Len(s)
    BY DEF Of
  <2>3. IsFiniteSet(Of(d, s))
    BY <2>1, <2>2, FS_Subset
  <2> QED
    BY <1>2, <2>2, <2>3
<1>5. Cardinality(Of(d, s)) \in Nat
  BY <1>4, FS_CardinalityType
<1>6. Cardinality(Of(d, s) \cup {Len(s) + 1}) = Cardinality(Of(d, s)) + 1
  BY <1>4, FS_AddElement
<1>7. Cardinality(Of(d, t)) = Cardinality(Of(d, s)) + (IF d = c THEN 1 ELSE 0)
  BY <1>3, <1>5, <1>6
<1> QED
  BY <1>7 DEF t

(* A write that is alone goes on from where the last one was.              *)
LEMMA PlacedNext ==
  ASSUME FilesIInv, NEW c \in Connections, kind # "fifo", dir = "sink", access[c] = "open",
         contents = Stored!Alone(c), UNCHANGED <<file, kind, content0>>,
         took' = [took EXCEPT ![c] = @ + 1],
         contents' = Stored!Placed(c, IF file.append THEN Len(contents) ELSE offset[c])
  PROVE  contents' = Stored!Alone(c)'
<1>0. FileTyped /\ Along
  BY DEF FilesIInv
<1> DEFINE kept == IF file.truncate /\ ~file.append /\ kind = "regular" THEN <<>> ELSE content0
           from == IF file.append THEN Len(kept) ELSE file.seek
           n    == took[c]
           size == IF n = 0 \/ from + n < Len(kept) THEN Len(kept) ELSE from + n
           more == IF from + (n + 1) < Len(kept) THEN Len(kept) ELSE from + (n + 1)
<1>1. contents = [i \in 1..size |-> IF i > from /\ i <= from + n THEN c
                                    ELSE IF i <= Len(kept) THEN kept[i] ELSE "hole"]
  BY DEF Stored!Alone
<1>2. took'[c] = n + 1 /\ n \in Nat /\ n + 1 # 0
  BY <1>0 DEF FileTyped
<1>3. Stored!Alone(c)' = [i \in 1..more |-> IF i > from /\ i <= from + (n + 1) THEN c
                                            ELSE IF i <= Len(kept) THEN kept[i] ELSE "hole"]
  BY <1>2 DEF Stored!Alone
<1>4. kept \in Seq(Cell)
  BY <1>0 DEF FileTyped
<1>5. Len(kept) \in Nat /\ from \in Nat
  BY <1>0, <1>4 DEF FileTyped, Stored!Specs
<1>6. file.append => kept = content0
  OBVIOUS
<1>7. ~file.append => offset[c] = from + n
  BY <1>0 DEF Along
<1> HIDE DEF kept, from, n
<1>8. size \in Nat
  BY <1>2, <1>5
<1>9. Len(contents) = size
  BY <1>1, <1>8
<1>10. file.append => size = from + n
  <2>1. file.append => from = Len(kept)
    BY DEF from
  <2> QED
    BY <1>2, <1>5, <2>1
<1>11. (IF file.append THEN Len(contents) ELSE offset[c]) = from + n
  BY <1>7, <1>9, <1>10
<1>12. contents' = [i \in 1..(IF from + n + 1 > size THEN from + n + 1 ELSE size) |->
                      IF i = from + n + 1 THEN c ELSE IF i <= size THEN contents[i] ELSE "hole"]
  BY <1>9, <1>11 DEF Stored!Placed
<1>13. (IF from + n + 1 > size THEN from + n + 1 ELSE size) = more
  BY <1>2, <1>5
<1>14. ASSUME NEW i \in 1..more
       PROVE  (IF i = from + n + 1 THEN c ELSE IF i <= size THEN contents[i] ELSE "hole")
              = (IF i > from /\ i <= from + (n + 1) THEN c
                 ELSE IF i <= Len(kept) THEN kept[i] ELSE "hole")
  <2>1. i \in Nat /\ i >= 1
    BY <1>2, <1>5
  <2>2. i <= size => contents[i] = (IF i > from /\ i <= from + n THEN c
                                     ELSE IF i <= Len(kept) THEN kept[i] ELSE "hole")
    BY <1>1, <1>8, <2>1
  <2>3. CASE i = from + n + 1
    BY <1>2, <1>5, <2>3
  <2>4. CASE i # from + n + 1 /\ i <= size
    BY <1>2, <1>5, <2>1, <2>2, <2>4
  <2>5. CASE i # from + n + 1 /\ i > size
    BY <1>2, <1>5, <2>1, <2>5
  <2> QED
    BY <1>8, <2>1, <2>3, <2>4, <2>5
<1>15. contents' = [i \in 1..more |-> IF i = from + n + 1 THEN c ELSE IF i <= size THEN contents[i] ELSE "hole"]
  BY <1>12, <1>13
<1> HIDE DEF size, more
<1>16. contents' = [i \in 1..more |-> IF i > from /\ i <= from + (n + 1) THEN c
                                       ELSE IF i <= Len(kept) THEN kept[i] ELSE "hole"]
  BY <1>14, <1>15
<1> QED
  BY <1>3, <1>16

(* A write lands where its connection is, or at the end.                   *)
LEMMA WritesKeepFile == ASSUME FilesIInv, NEW c \in Connections, Stored!Writes(c) PROVE FilesIInv'
<1>0. FileTyped /\ Along /\ Untouched /\ Placing
  BY DEF FilesIInv
<1> DEFINE at == IF Stored!options(file).append \/ kind = "fifo" THEN Len(contents) ELSE offset[c]
<1>1. /\ access[c] = "open" /\ dir = "sink"
      /\ UNCHANGED <<file, dir, kind, content0, access, ended, other, given>>
      /\ \/ /\ kind = "fifo" /\ ~Stored!HasReader /\ broken' = broken \cup {c}
            /\ UNCHANGED <<contents, offset, took>>
         \/ /\ contents' = Stored!Placed(c, at)
            /\ offset' = [offset EXCEPT ![c] = at + 1] /\ took' = [took EXCEPT ![c] = @ + 1]
            /\ broken' = broken
  BY DEF Stored!Writes
<1>2. at \in Nat
  BY <1>0 DEF FileTyped
<1>3. Stored!options(file).append <=> file.append
  BY <1>0, <1>1 DEF FileTyped, Stored!options, Stored!Specs
<1>4. c \in Stored!Opened /\ c \in Stored!Started /\ Stored!Started' = Stored!Started
  BY <1>1 DEF Stored!Opened, Stored!Started
<1>5. file.hold => ended' = {} /\ broken' = {}
  <2>1. file.hold => Stored!HasReader
    <3>1. ASSUME file.hold PROVE Stored!access(file).read
      BY <1>0, <3>1 DEF FileTyped, Stored!access
    <3> QED
      BY <1>4, <3>1 DEF Stored!HasReader
  <2> QED
    BY <1>0, <1>1, <2>1 DEF Untouched
<1> HIDE DEF at
<1>6. CASE kind = "fifo" /\ broken' = broken \cup {c} /\ UNCHANGED <<contents, offset, took>>
  <2>1. FileTyped'
    BY <1>0, <1>1, <1>6 DEF FileTyped, Cell, Stored!Specs, Stored!validate
  <2>2. Along'
    BY <1>0, <1>1, <1>6 DEF Along
  <2>3. Untouched' /\ Placing'
    BY <1>1, <1>5, <1>6, ContentsStay
  <2> QED
    BY <2>1, <2>2, <2>3 DEF FilesIInv
<1>7. CASE /\ contents' = Stored!Placed(c, at)
           /\ offset' = [offset EXCEPT ![c] = at + 1] /\ took' = [took EXCEPT ![c] = @ + 1]
  <2>1. contents' \in Seq(Cell)
    <3> DEFINE n == IF at + 1 > Len(contents) THEN at + 1 ELSE Len(contents)
    <3>1. n \in Nat /\ contents \in Seq(Cell)
      BY <1>0, <1>2 DEF FileTyped
    <3>2. ASSUME NEW i \in 1..n
          PROVE  (IF i = at + 1 THEN c ELSE IF i <= Len(contents) THEN contents[i] ELSE "hole") \in Cell
      BY <1>2, <3>1 DEF Cell
    <3>3. contents' = [i \in 1..n |-> IF i = at + 1 THEN c ELSE IF i <= Len(contents) THEN contents[i] ELSE "hole"]
      BY <1>7 DEF Stored!Placed
    <3> HIDE DEF n
    <3>4. contents' \in [1..n -> Cell]
      BY <3>2, <3>3
    <3> QED
      BY <3>1, <3>4
  <2>2. FileTyped'
    BY <1>0, <1>1, <1>2, <1>7, <2>1 DEF FileTyped, Cell, Stored!Specs, Stored!validate
  <2>3. Along'
    <3>1. kind # "fifo" /\ ~file.append => at = file.seek + took[c]
      BY <1>0, <1>1, <1>3 DEF Along, at
    <3>2. took \in [Connections -> Nat] /\ offset \in [Connections -> Nat] /\ file.seek \in Nat
      BY <1>0 DEF FileTyped, Stored!Specs
    <3>3. took'[c] = took[c] + 1 /\ offset'[c] = at + 1
      BY <1>7, <3>2
    <3>4. \A d \in Connections \ {c} : took'[d] = took[d] /\ offset'[d] = offset[d]
      BY <1>7, <3>2
    <3>5. kind # "fifo" /\ ~file.append => offset'[c] = file.seek + took'[c]
      BY <1>2, <3>1, <3>2, <3>3
    <3> HIDE DEF at
    <3> QED
      BY <1>0, <1>1, <3>4, <3>5 DEF Along
  <2>4. CASE kind = "fifo"
    <3>1. Untouched' /\ Placing'
      BY <1>1, <1>5, <2>4, ContentsStay
    <3> QED
      BY <2>2, <2>3, <3>1 DEF FilesIInv
  <2>5. CASE kind # "fifo"
    <3>1. Untouched'
      BY <1>0, <1>1, <1>4, <1>5, <2>5 DEF Untouched
    <3>2. at = IF file.append THEN Len(contents) ELSE offset[c]
      BY <1>3, <2>5 DEF at
    <3>3. ASSUME NEW d \in Connections, Stored!Started' = {d} PROVE contents' = Stored!Alone(d)'
      <4>1. d = c /\ Stored!Started = {c}
        BY <1>4, <3>3
      <4>2. contents = Stored!Alone(c)
        BY <1>0, <1>1, <2>5, <4>1 DEF Placing
      <4>3. contents' = Stored!Alone(c)'
        BY <1>1, <1>7, <2>5, <3>2, <4>2, PlacedNext
      <4> QED
        BY <4>1, <4>3
    <3>4. ASSUME file.append
          PROVE  /\ Len(content0') <= Len(contents')
                 /\ \A i \in 1..Len(content0') : contents'[i] = content0'[i]
                 /\ \A d \in Connections : Cardinality(Of(d, contents')) = took'[d]
      <4>1. contents \in Seq(Cell) /\ content0 \in Seq(Cell) /\ c \in Cell
        BY <1>0 DEF FileTyped, Cell
      <4>2. /\ Len(contents) \in Nat /\ Len(content0) \in Nat
            /\ DOMAIN contents = 1..Len(contents)
        BY <4>1
      <4>3. contents' = Append(contents, c)
        <5> DEFINE n == Len(contents)
        <5>1. contents' = [i \in 1..(n + 1) |-> IF i = n + 1 THEN c ELSE IF i <= n THEN contents[i] ELSE "hole"]
          BY <1>7, <3>2, <3>4, <4>2 DEF Stored!Placed
        <5>2. Append(contents, c) = [i \in 1..(n + 1) |-> IF i = n + 1 THEN c ELSE contents[i]]
          <6> DEFINE t == Append(contents, c)
          <6>1. t \in Seq(Cell) /\ Len(t) = n + 1 /\ t[n + 1] = c /\ \A i \in 1..n : t[i] = contents[i]
            BY <4>1
          <6> HIDE DEF t
          <6>2. t = [i \in 1..(n + 1) |-> t[i]]
            BY <6>1
          <6>3. \A i \in 1..(n + 1) : t[i] = IF i = n + 1 THEN c ELSE contents[i]
            BY <4>2, <6>1
          <6>4. t = [i \in 1..(n + 1) |-> IF i = n + 1 THEN c ELSE contents[i]]
            BY <6>2, <6>3
          <6> QED
            BY <6>4 DEF t
        <5>3. \A i \in 1..(n + 1) : (IF i = n + 1 THEN c ELSE IF i <= n THEN contents[i] ELSE "hole")
                                     = (IF i = n + 1 THEN c ELSE contents[i])
          BY <4>2
        <5> HIDE DEF n
        <5> QED
          BY <5>1, <5>2, <5>3
      <4>4. /\ Len(contents') = Len(contents) + 1
            /\ \A i \in 1..Len(contents) : contents'[i] = contents[i]
        BY <4>1, <4>3
      <4>5. /\ Len(content0) <= Len(contents)
            /\ \A i \in 1..Len(content0) : contents[i] = content0[i]
            /\ \A d \in Connections : Cardinality(Of(d, contents)) = took[d]
        BY <1>0, <1>1, <2>5, <3>4 DEF Placing
      <4>6. \A d \in Connections : took'[d] = took[d] + (IF d = c THEN 1 ELSE 0)
        BY <1>0, <1>7 DEF FileTyped
      <4>7. \A d \in Connections : Cardinality(Of(d, contents')) = took'[d]
        BY <4>1, <4>3, <4>5, <4>6, OneCellMore
      <4> QED
        BY <1>1, <4>2, <4>4, <4>5, <4>7
    <3>5. Placing'
      BY <1>1, <3>3, <3>4 DEF Placing
    <3> QED
      BY <2>2, <2>3, <3>1, <3>5 DEF FilesIInv
  <2> QED
    BY <2>4, <2>5
<1> QED
  BY <1>1, <1>6, <1>7

(* A read changes no more than where its connection is.                    *)
LEMMA ReadsKeep == ASSUME FilesIInv, NEW c \in Connections, Stored!Reads(c) PROVE FilesIInv'
<1>0. FileTyped /\ Along /\ Untouched
  BY DEF FilesIInv
<1>1. /\ access[c] = "open" /\ dir = "source"
      /\ UNCHANGED <<file, dir, kind, content0, access, broken, other, given>>
      /\ contents' = contents \/ (kind = "fifo" /\ contents # <<>> /\ contents' = Tail(contents))
      /\ took' = took \/ took' = [took EXCEPT ![c] = @ + 1]
      /\ offset' = offset \/ offset' = [offset EXCEPT ![c] = @ + 1]
      /\ kind = "fifo" => ended' = ended \/ ~Stored!HasWriter
  BY DEF Stored!Reads
<1>2. Stored!Started' = Stored!Started
  BY <1>1 DEF Stored!Started
<1>3. file.hold => ended' = {} /\ broken' = {}
  <2>1. ASSUME file.hold PROVE Stored!HasWriter
    <3>1. Stored!access(file).write
      BY <1>0, <2>1 DEF FileTyped, Stored!access
    <3>2. c \in Stored!Opened
      BY <1>1 DEF Stored!Opened
    <3> QED
      BY <3>1, <3>2 DEF Stored!HasWriter
  <2> QED
    BY <1>0, <1>1, <2>1 DEF Untouched, FileTyped
<1>4. contents' \in Seq(Cell)
  <2>1. contents \in Seq(Cell) /\ "peer" \in Cell
    BY <1>0 DEF FileTyped, Cell
  <2>2. contents # <<>> => Tail(contents) \in Seq(Cell)
    BY <2>1, CellsStay
  <2> QED
    BY <1>1, <2>1, <2>2
<1>5. took' \in [Connections -> Nat] /\ offset' \in [Connections -> Nat]
  <2>1. took \in [Connections -> Nat] /\ offset \in [Connections -> Nat]
    BY <1>0 DEF FileTyped
  <2>2. /\ [took EXCEPT ![c] = @ + 1] \in [Connections -> Nat]
        /\ [offset EXCEPT ![c] = @ + 1] \in [Connections -> Nat]
    BY <2>1
  <2> QED
    BY <1>1, <2>1, <2>2
<1>6. \A d \in Connections \ {c} : took'[d] = took[d]
  BY <1>0, <1>1 DEF FileTyped
<1>7. FileTyped'
  BY <1>0, <1>1, <1>4, <1>5 DEF FileTyped, Cell, Stored!Specs, Stored!validate
<1>8. Along'
  BY <1>0, <1>1, <1>6 DEF Along
<1>9. Untouched' /\ Placing'
  <2>1. kind # "fifo" => contents' = contents
    BY <1>1
  <2> QED
    BY <1>1, <1>2, <1>3, <2>1, ContentsStay
<1> QED
  BY <1>7, <1>8, <1>9 DEF FilesIInv

(* The other end comes, writes or reads, and goes: all at a FIFO.          *)
LEMMA PeerAtFifo ==
  ASSUME FilesIInv, Stored!PeerComes \/ Stored!PeerActs \/ Stored!PeerGoes PROVE FilesIInv'
<1>0. FileTyped /\ Along /\ Untouched
  BY DEF FilesIInv
<1>1. /\ kind = "fifo" /\ other' \in BOOLEAN
      /\ UNCHANGED <<file, dir, kind, content0, access, offset, took, ended, broken>>
      /\ \/ contents' = contents \/ contents' = Append(contents, "peer") \/ contents' = <<>>
         \/ contents # <<>> /\ contents' = Tail(contents)
  BY <1>0 DEF FileTyped, Stored!PeerComes, Stored!PeerActs, Stored!PeerGoes
<1>2. contents' \in Seq(Cell)
  <2>1. "peer" \in Cell /\ contents \in Seq(Cell)
    BY <1>0 DEF FileTyped, Cell
  <2>2. /\ <<>> \in Seq(Cell) /\ Append(contents, "peer") \in Seq(Cell)
        /\ contents # <<>> => Tail(contents) \in Seq(Cell)
    BY <2>1, CellsStay
  <2> QED
    BY <1>1, <2>1, <2>2
<1>3. FileTyped'
  BY <1>0, <1>1, <1>2 DEF FileTyped, Cell, Stored!Specs, Stored!validate
<1>4. Along'
  BY <1>0, <1>1 DEF Along
<1>5. Untouched' /\ Placing'
  BY <1>0, <1>1, ContentsStay DEF Untouched
<1> QED
  BY <1>3, <1>4, <1>5 DEF FilesIInv

(* A device goes while nobody has started on it.                           *)
LEMMA UnpluggedKeeps == ASSUME FilesIInv, Stored!Unplugged PROVE FilesIInv'
<1>0. FileTyped /\ Along /\ Untouched
  BY DEF FilesIInv
<1>1. /\ kind = "block" /\ Stored!Opened = {} /\ \A c \in Connections : access[c] # "done"
      /\ kind' = "nothing" /\ contents' = <<>> /\ content0' = <<>>
      /\ UNCHANGED <<file, dir, access, offset, took, ended, broken, other>>
  BY DEF Stored!Unplugged
<1>2. Stored!Started = {} /\ Stored!Started' = {}
  BY <1>1 DEF Stored!Opened, Stored!Started
<1>3. \A c \in Connections : access[c] \in {"new", "checked", "failed"}
  BY <1>0, <1>1 DEF FileTyped, Stored!Opened
<1>4. <<>> \in Seq(Cell)
  OBVIOUS
<1>5. ~other /\ ~file.hold
  BY <1>0, <1>1 DEF FileTyped
<1>6. FileTyped'
  BY <1>0, <1>1, <1>4, <1>5 DEF FileTyped, Cell, Stored!Specs, Stored!validate
<1>7. Along'
  BY <1>0, <1>1, <1>3 DEF Along
<1>8. Untouched'
  BY <1>1, <1>2, <1>5 DEF Untouched
<1>9. Placing'
  <2>1. \A c \in Connections : Of(c, contents') = {}
    BY <1>1 DEF Of
  <2>2. \A c \in Connections : Cardinality(Of(c, contents')) = took'[c]
    BY <1>0, <1>1, <1>3, <2>1, FS_EmptySet DEF Along
  <2>3. \A c \in Connections : Stored!Started' # {c}
    BY <1>2
  <2>4. Len(content0') <= Len(contents') /\ \A i \in 1..Len(content0') : contents'[i] = content0'[i]
    BY <1>1
  <2> QED
    BY <2>2, <2>3, <2>4 DEF Placing
<1> QED
  BY <1>6, <1>7, <1>8, <1>9 DEF FilesIInv

(* Every step of the connections keeps what is known of their files.       *)
LEMMA FilesStep == FilesIInv /\ (Stored!Next \/ UNCHANGED fileVars) => FilesIInv'
<1> SUFFICES ASSUME FilesIInv, Stored!Next \/ UNCHANGED fileVars PROVE FilesIInv'
  OBVIOUS
<1>1. CASE UNCHANGED fileVars
  <2>0. FileTyped /\ Along /\ Untouched
    BY DEF FilesIInv
  <2>1. UNCHANGED <<file, dir, kind, content0, contents, access, offset, took, ended, broken, other>>
    BY <1>1 DEF fileVars
  <2>2. FileTyped'
    BY <2>0, <2>1 DEF FileTyped, Cell, Stored!Specs, Stored!validate
  <2>3. Along'
    BY <2>0, <2>1 DEF Along
  <2>4. Stored!Started' = Stored!Started
    BY <2>1 DEF Stored!Started
  <2>5. Untouched' /\ Placing'
    BY <2>0, <2>1, <2>4, ContentsStay DEF Untouched
  <2> QED
    BY <2>2, <2>3, <2>5 DEF FilesIInv
<1>2. ASSUME NEW c \in Connections,
             \/ Stored!check_device(c) \/ Stored!open(c) \/ Stored!seek_to(c)
             \/ Stored!Writes(c) \/ Stored!Reads(c) \/ Stored!Closes(c)
      PROVE  FilesIInv'
  BY <1>2, CheckKeeps, OpenFileKeeps, SeekKeeps, WritesKeepFile, ReadsKeep, ClosesFile
<1>3. CASE Stored!PeerComes \/ Stored!PeerActs \/ Stored!PeerGoes
  BY <1>3, PeerAtFifo
<1>4. CASE Stored!Unplugged
  BY <1>4, UnpluggedKeeps
<1> QED
  BY <1>1, <1>2, <1>3, <1>4 DEF Stored!Next

(* A file keeps what it was not asked to change: a source changes nothing, *)
(* a declared device is never made as a file, a sink that is alone has its *)
(* bytes where it was told to put them, appended bytes write over nobody's *)
(* however many connections write them, and a FIFO that is held neither    *)
(* ends nor breaks (endpoint/file.rs, endpoint/pipe.rs).                   *)
THEOREM KeepsTheFile == EndpointsSpec => []FilesKeep
<1>1. EndpointsInit => FilesIInv
  BY FilesInit DEF EndpointsInit
<1>2. FilesIInv /\ [EndpointsNext]_everything => FilesIInv'
  <2>1. [EndpointsNext]_everything => Stored!Next \/ UNCHANGED fileVars
    BY DEF EndpointsNext, everything
  <2> QED
    BY <2>1, FilesStep
<1>3. FilesIInv => FilesKeep
  <2> SUFFICES ASSUME FilesIInv PROVE Stored!FilesKeep
    BY DEF FilesKeep
  <2>0. FileTyped /\ Untouched /\ Placing
    BY DEF FilesIInv
  <2>1. file.device => kind # "regular" \/ content0 # <<>>
    BY <2>0 DEF Untouched
  <2>2. file.hold => ended = {} /\ broken = {}
    BY <2>0 DEF Untouched
  <2>3. ASSUME kind \in {"regular", "block"}, dir = "source" PROVE contents = content0
    BY <2>0, <2>3 DEF Untouched
  <2>4. ASSUME kind \in {"regular", "block"}, NEW c \in Stored!Started, Stored!Started = {c}, dir = "sink"
        PROVE  contents = Stored!Alone(c)
    BY <2>0, <2>4 DEF Placing, Stored!Started
  <2>5. ASSUME kind \in {"regular", "block"}, dir = "sink", file.append
        PROVE  Stored!IsPrefix(content0, contents) /\ \A c \in Connections : Stored!Cells(c) = took[c]
    <3>1. /\ Len(content0) <= Len(contents)
          /\ \A i \in 1..Len(content0) : contents[i] = content0[i]
          /\ \A c \in Connections : Cardinality(Of(c, contents)) = took[c]
      BY <2>0, <2>5 DEF Placing
    <3>2. /\ contents \in Seq(Cell) /\ content0 \in Seq(Cell) /\ Len(content0) \in Nat
          /\ DOMAIN contents = 1..Len(contents)
      BY <2>0 DEF FileTyped
    <3>3. SubSeq(content0, 1, Len(content0)) = SubSeq(contents, 1, Len(content0))
      BY <3>1, <3>2
    <3>4. Stored!IsPrefix(content0, contents)
      BY <3>1, <3>3 DEF Stored!IsPrefix
    <3>5. \A c \in Connections : Stored!Cells(c) = Cardinality(Of(c, contents))
      <4>1. \A c \in Connections : {i \in DOMAIN contents : contents[i] = c} = Of(c, contents)
        BY <3>2 DEF Of
      <4>2. \A S : Stored!Cardinality(S) = Cardinality(S)
        BY DEF Stored!Cardinality, Cardinality
      <4> QED
        BY <4>1, <4>2 DEF Stored!Cells
    <3> QED
      BY <3>1, <3>4, <3>5
  <2> QED
    BY <2>1, <2>2, <2>3, <2>4, <2>5 DEF Stored!FilesKeep
<1> QED
  BY <1>1, <1>2, <1>3, PTL DEF EndpointsSpec, everything
=============================================================================

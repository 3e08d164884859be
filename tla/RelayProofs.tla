----------------------------- MODULE RelayProofs -----------------------------
(***************************************************************************)
(* Proofs about Relay for every finite set of clients, every ceiling of    *)
(* connections, every policy of attempts and restarts, every number of     *)
(* runs and every length of a blocking copy.                               *)
(***************************************************************************)
EXTENDS Relay, FiniteSetTheorems, TLAPS

(* A step of the relay is, for each way of dispatch, one of its own, the   *)
(* signal, or none: the ways share the signal and nothing else, and a      *)
(* signal is never taken back.                                             *)
ForkStep == [Fork!Next]_Fork!vars
OnceStep == [Once!Next]_Once!vars
SyncStep == [Sync!Next]_Sync!vars

(* No way takes the signal back.                                           *)
LEMMA SignalStays ==
  /\ Fork!Next /\ signal' # signal => ~signal /\ signal' = TRUE
  /\ Once!Next /\ signal' # signal => ~signal /\ signal' = TRUE
  /\ Sync!Next /\ signal' # signal => ~signal /\ signal' = TRUE
<1>1. Fork!Next /\ signal' # signal => Fork!Drain
  BY DEF Fork!Next, Fork!AcceptIsFatal, Fork!Own, Fork!Acquires, Fork!Stops, Fork!Drained,
    Fork!Knocks, Fork!Accepts, Fork!AcceptFails, Fork!Dials, Fork!Ends, Fork!Loops
<1>2. Once!Next /\ signal' # signal => Once!Drain
  BY DEF Once!Next, Once!Own, Once!Starts, Once!TriesAgain, Once!OpenFails, Once!Relays,
    Once!Completes, Once!Interrupted, Once!BreaksOff, Once!Breaks, Once!Reopens, Once!Connects,
    Once!Refused, Once!Becomes, Once!Takes, Once!Gives, Once!Finishes, Once!Fails, Once!Moves
<1>3. Sync!Next /\ signal' # signal => Sync!Drain
  BY DEF Sync!Next, Sync!Own, Sync!Joins, Sync!Completes, Sync!Interrupted, Sync!Teardown,
    Sync!Copies, Sync!Looks, Sync!Writes, Sync!Flushes, Sync!Reads, Sync!ReadsEof, Sync!Fails,
    Sync!Goes, Sync!Awaits
<1> QED
  BY <1>1, <1>2, <1>3 DEF Fork!Drain, Once!Drain, Sync!Drain

(* A step of the relay is one of each of its three parts, or leaves that   *)
(* part alone.                                                             *)
LEMMA RelaySteps ==
  ASSUME [Next]_vars
  PROVE  ForkStep /\ OnceStep /\ SyncStep
<1>1. CASE signal' = signal
  <2>1. Fork!Next \/ UNCHANGED forkVars
    BY DEF Next, Forks, Onces, Syncs, Flushes, vars
  <2>2. Once!Next \/ UNCHANGED onceVars
    BY DEF Next, Forks, Onces, Syncs, Flushes, vars
  <2>3. Sync!Next \/ UNCHANGED syncVars
    BY DEF Next, Forks, Onces, Syncs, Flushes, vars
  <2> QED
    BY <1>1, <2>1, <2>2, <2>3 DEF ForkStep, OnceStep, SyncStep, forkVars, onceVars, syncVars,
      Fork!vars, Once!vars, Once!config, Once!ends, Once!copy, Sync!vars
<1>2. CASE signal' # signal
  <2>1. ~signal /\ signal' = TRUE
    BY <1>2, SignalStays DEF Next, Forks, Onces, Syncs, Flushes, vars
  <2>2. Fork!Next \/ Fork!Drain
    BY <1>2, <2>1 DEF Next, Forks, Onces, Syncs, Flushes, vars, forkVars, Fork!Drain
  <2>3. Once!Next \/ Once!Drain
    BY <1>2, <2>1 DEF Next, Forks, Onces, Syncs, Flushes, vars, onceVars, Once!Drain,
      Once!config, Once!ends, Once!copy
  <2>4. Sync!Next \/ Sync!Drain
    BY <1>2, <2>1 DEF Next, Forks, Onces, Syncs, Flushes, vars, syncVars, Sync!Drain
  <2> QED
    BY <2>2, <2>3, <2>4 DEF ForkStep, OnceStep, SyncStep, Fork!Next, Once!Next, Sync!Next
<1> QED
  BY <1>1, <1>2

-----------------------------------------------------------------------------
(* serve.                                                                  *)

(* The loop waits for its tasks only once it was signalled, and success is *)
(* the loop having left with none.                                         *)
ForkEnds ==
  /\ loop = "drain" => signal
  /\ result = "ok" => loop = "left" /\ signal /\ Fork!Active = {}

Accounted ==
  permits + Cardinality(Fork!Active) + (IF loop = "accept" THEN 1 ELSE 0) = max_connections

ForkIInv == Fork!TypeOK /\ Accounted /\ ForkEnds

(* The count of the instance is the count.                                 *)
LEMMA CardinalityIs == \A S : Fork!Cardinality(S) = Cardinality(S)
BY DEF Fork!Cardinality, Cardinality

(* The connections being served are finite in number.                      *)
LEMMA ActiveFinite == IsFiniteSet(Fork!Active) /\ Cardinality(Fork!Active) \in Nat
<1>1. Fork!Active \subseteq Clients
  BY DEF Fork!Active
<1> QED
  BY <1>1, RelayAssumption, FS_Subset, FS_CardinalityType

(* One more, and one less.                                                 *)
LEMMA ActiveGrows ==
  ASSUME NEW c \in Clients, c \notin Fork!Active, Fork!Active' = Fork!Active \cup {c}
  PROVE  Cardinality(Fork!Active') = Cardinality(Fork!Active) + 1
BY ActiveFinite, FS_AddElement

(* A client that goes is one fewer of those that are served.               *)
LEMMA ActiveShrinks ==
  ASSUME NEW c \in Fork!Active, Fork!Active' = Fork!Active \ {c}
  PROVE  Cardinality(Fork!Active') = Cardinality(Fork!Active) - 1 /\ Cardinality(Fork!Active) > 0
<1>1. Cardinality(Fork!Active \ {c}) = Cardinality(Fork!Active) - 1
  BY ActiveFinite, FS_RemoveElement
<1>2. Cardinality(Fork!Active) # 0
  BY ActiveFinite, FS_EmptySet
<1> QED
  BY <1>1, <1>2, ActiveFinite

(* What becomes of the set when one client moves on.                       *)
LEMMA ActiveJoins ==
  ASSUME Fork!TypeOK, NEW c \in Clients, NEW to \in {"dialing", "relaying"},
         client' = [client EXCEPT ![c] = to]
  PROVE  /\ Fork!Active' = Fork!Active \cup {c}
         /\ c \in Fork!Active <=> client[c] \in {"dialing", "relaying"}
BY DEF Fork!Active, Fork!TypeOK

(* A client that moves on from a relay is no longer served.                *)
LEMMA ActiveLeaves ==
  ASSUME Fork!TypeOK, NEW c \in Clients, NEW to \in {"away", "knocking", "over"},
         client' = [client EXCEPT ![c] = to]
  PROVE  /\ Fork!Active' = Fork!Active \ {c}
         /\ c \in Fork!Active <=> client[c] \in {"dialing", "relaying"}
BY DEF Fork!Active, Fork!TypeOK

(* As the accept loop starts, no client is served and every permit is      *)
(* free.                                                                   *)
LEMMA ForkInit == Fork!Init => ForkIInv
<1> SUFFICES ASSUME Fork!Init PROVE ForkIInv
  OBVIOUS
<1>1. Fork!Active = {}
  BY DEF Fork!Init, Fork!Active
<1>2. Cardinality(Fork!Active) = 0
  BY <1>1, FS_EmptySet
<1>3. permits = max_connections /\ permits \in 0..max_connections /\ loop = "acquire"
  BY RelayAssumption DEF Fork!Init
<1>4. Fork!TypeOK
  BY <1>3, Zenon DEF Fork!Init, Fork!TypeOK
<1>5. Accounted
  BY <1>2, <1>3, RelayAssumption DEF Accounted
<1> QED
  BY <1>4, <1>5 DEF ForkIInv, ForkEnds, Fork!Init

(* A step of the loop, with no client: the permit it holds is in hand or   *)
(* put back.                                                               *)
LEMMA LoopKeeps ==
  ASSUME ForkIInv,
         \/ Fork!Drain \/ Fork!Acquires \/ Fork!Stops \/ Fork!Drained \/ Fork!AcceptIsFatal
  PROVE  ForkIInv'
<1>1. client' = client /\ Fork!Active' = Fork!Active /\ Cardinality(Fork!Active') = Cardinality(Fork!Active)
  BY DEF Fork!Drain, Fork!Acquires, Fork!Stops, Fork!Drained, Fork!AcceptIsFatal, Fork!Active
<1>2. Accounted' /\ permits' \in 0..max_connections
  BY <1>1, ActiveFinite, RelayAssumption
  DEF Fork!Drain, Fork!Acquires, Fork!Stops, Fork!Drained, Fork!AcceptIsFatal, Fork!Loops,
    ForkIInv, Accounted, Fork!TypeOK
<1>3. signal' \in BOOLEAN
  BY DEF Fork!Drain, Fork!Acquires, Fork!Stops, Fork!Drained, Fork!AcceptIsFatal, Fork!Loops,
    ForkIInv, Fork!TypeOK
<1>4. loop' \in {"acquire", "accept", "drain", "left"} /\ result' \in {"running", "ok", "err"}
  BY DEF Fork!Drain, Fork!Acquires, Fork!Stops, Fork!Drained, Fork!AcceptIsFatal, Fork!Loops,
    ForkIInv, Fork!TypeOK
<1>5. ForkEnds'
  BY <1>1 DEF Fork!Drain, Fork!Acquires, Fork!Stops, Fork!Drained, Fork!AcceptIsFatal,
    Fork!Loops, ForkIInv, ForkEnds
<1> QED
  BY <1>1, <1>2, <1>3, <1>4, <1>5 DEF ForkIInv, Fork!TypeOK

(* A step of one client: its permit comes with it and goes with it.        *)
LEMMA ClientKeeps ==
  ASSUME ForkIInv, NEW c \in Clients,
         Fork!Knocks(c) \/ Fork!Accepts(c) \/ Fork!AcceptFails(c) \/ Fork!Dials(c) \/ Fork!Ends(c)
  PROVE  ForkIInv'
<1> USE RelayAssumption, ActiveFinite
<1>1. CASE Fork!Knocks(c)
  <2>1. c \notin Fork!Active /\ Fork!Active' = Fork!Active \ {c}
    BY <1>1, ActiveLeaves DEF Fork!Knocks, ForkIInv
  <2>2. Fork!Active' = Fork!Active
    BY <2>1
  <2> QED
    BY <1>1, <2>2 DEF Fork!Knocks, ForkIInv, ForkEnds, Fork!TypeOK, Accounted
<1>2. CASE Fork!Accepts(c)
  <2>1. c \notin Fork!Active /\ Fork!Active' = Fork!Active \cup {c}
    BY <1>2, ActiveJoins DEF Fork!Accepts, ForkIInv
  <2>2. Cardinality(Fork!Active') = Cardinality(Fork!Active) + 1
    BY <2>1, ActiveGrows
  <2> QED
    BY <1>2, <2>2 DEF Fork!Accepts, Fork!Loops, ForkIInv, ForkEnds, Fork!TypeOK,
      Accounted
<1>3. CASE Fork!AcceptFails(c)
  <2>1. c \notin Fork!Active /\ Fork!Active' = Fork!Active \ {c}
    BY <1>3, ActiveLeaves DEF Fork!AcceptFails, ForkIInv
  <2>2. Fork!Active' = Fork!Active
    BY <2>1
  <2> QED
    BY <1>3, <2>2 DEF Fork!AcceptFails, Fork!Loops, ForkIInv, ForkEnds, Fork!TypeOK,
      Accounted
<1>4. CASE Fork!Dials(c)
  <2>1. c \in Fork!Active /\ Fork!Active' = Fork!Active \cup {c}
    BY <1>4, ActiveJoins DEF Fork!Dials, ForkIInv
  <2>2. Fork!Active' = Fork!Active
    BY <2>1
  <2> QED
    BY <1>4, <2>2 DEF Fork!Dials, ForkIInv, ForkEnds, Fork!TypeOK, Accounted
<1>5. CASE Fork!Ends(c)
  <2>1. c \in Fork!Active /\ Fork!Active' = Fork!Active \ {c}
    BY <1>5, ActiveLeaves DEF Fork!Ends, ForkIInv
  <2>2. Cardinality(Fork!Active') = Cardinality(Fork!Active) - 1 /\ Cardinality(Fork!Active) > 0
    BY <2>1, ActiveShrinks
  <2> QED
    BY <1>5, <2>1, <2>2 DEF Fork!Ends, ForkIInv, ForkEnds, Fork!TypeOK,
      Accounted
<1> QED
  BY <1>1, <1>2, <1>3, <1>4, <1>5

(* Every step of the accept loop and of its clients keeps the permits      *)
(* accounted for.                                                          *)
LEMMA ForkKeeps == ForkIInv /\ ForkStep => ForkIInv'
<1> SUFFICES ASSUME ForkIInv, ForkStep PROVE ForkIInv'
  OBVIOUS
<1>1. CASE Fork!Next
  BY <1>1, LoopKeeps, ClientKeeps DEF Fork!Next, Fork!Own
<1>2. CASE UNCHANGED Fork!vars
  BY <1>2 DEF Fork!vars, ForkIInv, ForkEnds, Fork!TypeOK, Accounted, Fork!Active
<1> QED
  BY <1>1, <1>2 DEF ForkStep

-----------------------------------------------------------------------------
(* run_once.                                                               *)

(* An endpoint that was started holds its path from then on; a dial rests  *)
(* only while an attempt is left; a direction that is over holds nothing,  *)
(* and something is lost only with a failure; and without a stage there is *)
(* nothing to hold.                                                        *)
StartedHolds == phase = "opening" => \A e \in listens : at[e] # "idle" => e \in path
RestsWithin  == \A e \in Once!Ends : at[e] = "resting" => attempt[e] < Attempts
EofHoldsNone == phase = "relaying" => \A d \in Once!Dirs : dir[d] # "running" => ~held[d]
LostByFailure == phase = "relaying" /\ lost => \E d \in Once!Dirs : dir[d] = "failed"
StagesHold   == ~staged => ~lost /\ \A d \in Once!Dirs : ~held[d]

OnceExtra == StartedHolds /\ RestsWithin /\ EofHoldsNone /\ LostByFailure /\ StagesHold
OnceIInv  == Once!TypeOK /\ Once!PathFollowsUse /\ Once!OkMeansEnded /\ OnceExtra

(* As a run starts, no end is open and nothing is staged or lost.          *)
LEMMA OnceInit == Once!Init => OnceIInv
<1> SUFFICES ASSUME Once!Init PROVE OnceIInv
  OBVIOUS
<1>1. /\ at \in [Once!Ends -> {"idle", "trying", "resting", "open", "failed"}]
      /\ \A e \in Once!Ends : at[e] = "idle"
  BY DEF Once!Init, Once!Idle
<1>2. attempt \in [Once!Ends -> 1..Attempts] /\ runs \in 1..MaxRuns
  BY RelayAssumption DEF Once!Init, Once!First
<1>3. dir \in [Once!Dirs -> {"running", "eof", "failed"}]
  BY DEF Once!Init, Once!Going
<1>4. held \in [Once!Dirs -> BOOLEAN] /\ \A d \in Once!Dirs : ~held[d]
  BY DEF Once!Init, Once!Nothing
<1>5. listens \subseteq Once!Ends /\ path \subseteq listens /\ path = {}
  BY DEF Once!Init
<1>6. Once!TypeOK
  BY <1>1, <1>2, <1>3, <1>4, <1>5, Zenon DEF Once!Init, Once!TypeOK
<1>7. phase = "opening" /\ ~lost
  BY DEF Once!Init
<1> QED
  BY <1>1, <1>4, <1>5, <1>6, <1>7
  DEF OnceIInv, OnceExtra, Once!PathFollowsUse, Once!OkMeansEnded, Once!Over, StartedHolds,
    RestsWithin, EofHoldsNone, LostByFailure, StagesHold

(* The steps of an opening: a path is bound as its endpoint starts.        *)
LEMMA OpeningKeeps ==
  ASSUME OnceIInv, NEW e \in Once!Ends,
         Once!Starts(e) \/ Once!Connects(e) \/ Once!Refused(e) \/ Once!TriesAgain(e)
  PROVE  OnceIInv'
<1>1. /\ phase = "opening" /\ UNCHANGED <<listens, staged, signal, phase, dir, held, lost, runs>>
      /\ at' \in [Once!Ends -> {"idle", "trying", "resting", "open", "failed"}]
      /\ at'[e] # "idle" /\ \A f \in Once!Ends : f # e => at'[f] = at[f]
  BY DEF Once!Starts, Once!Connects, Once!Refused, Once!TriesAgain, Once!Becomes, Once!config,
    Once!copy, OnceIInv, Once!TypeOK
<1>2. CASE Once!Starts(e)
  <2>1. path' = path \cup ({e} \cap listens) /\ attempt' = attempt /\ at'[e] # "resting"
    BY <1>2 DEF Once!Starts, Once!Becomes, OnceIInv, Once!TypeOK
  <2> QED
    BY <1>1, <2>1 DEF OnceIInv, OnceExtra, Once!TypeOK, Once!PathFollowsUse, Once!OkMeansEnded,
      Once!Over, StartedHolds, RestsWithin, EofHoldsNone, LostByFailure, StagesHold
<1>3. CASE ~Once!Starts(e)
  <2>1. path' = path /\ at[e] # "idle"
    BY <1>3 DEF Once!Connects, Once!Refused, Once!TriesAgain
  <2>2. /\ attempt' \in [Once!Ends -> 1..Attempts]
        /\ \A f \in Once!Ends : f # e => attempt'[f] = attempt[f]
        /\ at'[e] = "resting" => attempt'[e] < Attempts
    <3>1. CASE Once!Connects(e) \/ Once!Refused(e)
      BY <3>1 DEF Once!Connects, Once!Refused, Once!Becomes, OnceIInv, Once!TypeOK
    <3>2. CASE Once!TriesAgain(e)
      <4>1. attempt[e] + 1 \in 1..Attempts
        BY <3>2, RelayAssumption DEF Once!TriesAgain, OnceIInv, Once!TypeOK, OnceExtra, RestsWithin
      <4> QED
        BY <3>2, <4>1 DEF Once!TriesAgain, Once!Becomes, OnceIInv, Once!TypeOK
    <3> QED
      BY <1>3, <3>1, <3>2
  <2>3. RestsWithin'
    BY <1>1, <2>2 DEF RestsWithin, OnceIInv, OnceExtra
  <2> QED
    BY <1>1, <2>1, <2>2, <2>3 DEF OnceIInv, OnceExtra, Once!TypeOK, Once!PathFollowsUse,
      Once!OkMeansEnded, Once!Over, StartedHolds, EofHoldsNone, LostByFailure, StagesHold
<1> QED
  BY <1>2, <1>3

(* A direction takes, gives, ends or fails.                                *)
LEMMA DirectionKeeps ==
  ASSUME OnceIInv, NEW d \in Once!Dirs,
         Once!Takes(d) \/ Once!Gives(d) \/ Once!Finishes(d) \/ Once!Fails(d)
  PROVE  OnceIInv'
<1>1. /\ phase = "relaying" /\ dir[d] = "running"
      /\ UNCHANGED <<listens, staged, signal, phase, at, attempt, path, runs>>
  BY DEF Once!Takes, Once!Gives, Once!Finishes, Once!Fails, Once!Moves, Once!config, Once!ends
<1>2. /\ dir' \in [Once!Dirs -> {"running", "eof", "failed"}]
      /\ \A c \in Once!Dirs : c # d => dir'[c] = dir[c]
      /\ held' \in [Once!Dirs -> BOOLEAN]
      /\ \A c \in Once!Dirs : c # d => held'[c] = held[c]
  BY DEF Once!Takes, Once!Gives, Once!Finishes, Once!Fails, OnceIInv, Once!TypeOK
<1>3. held'[d] => staged /\ dir'[d] = "running"
  BY DEF Once!Takes, Once!Gives, Once!Finishes, Once!Fails, Once!Moves, OnceIInv, Once!TypeOK
<1>4. lost' \in BOOLEAN /\ (lost' => lost \/ (held[d] /\ dir'[d] = "failed"))
  <2>1. CASE Once!Takes(d) \/ Once!Gives(d) \/ Once!Finishes(d)
    BY <2>1 DEF Once!Takes, Once!Gives, Once!Finishes, OnceIInv, Once!TypeOK
  <2>2. CASE Once!Fails(d)
    <3>1. dir'[d] = "failed"
      BY <2>2 DEF Once!Fails, OnceIInv, Once!TypeOK
    <3> QED
      BY <2>2, <3>1, Zenon DEF Once!Fails
  <2> QED
    BY <2>1, <2>2
<1>5. Once!TypeOK'
  BY <1>1, <1>2, <1>4 DEF OnceIInv, Once!TypeOK
<1>6. EofHoldsNone' /\ LostByFailure' /\ StagesHold'
  BY <1>1, <1>2, <1>3, <1>4
  DEF OnceIInv, OnceExtra, EofHoldsNone, LostByFailure, StagesHold, Once!TypeOK
<1> QED
  BY <1>1, <1>5, <1>6 DEF OnceIInv, OnceExtra, Once!PathFollowsUse, Once!OkMeansEnded,
    Once!Over, StartedHolds, RestsWithin

(* The task goes from one phase to the next, and with it come and go the   *)
(* guards of the paths.                                                    *)
LEMMA PhaseKeeps ==
  ASSUME OnceIInv,
         \/ Once!OpenFails \/ Once!Relays \/ Once!Completes \/ Once!Interrupted
         \/ Once!BreaksOff \/ Once!Reopens
  PROVE  OnceIInv'
<1>0. UNCHANGED <<listens, staged, signal>>
  BY DEF Once!OpenFails, Once!Relays, Once!Completes, Once!Interrupted, Once!BreaksOff,
    Once!Breaks, Once!Reopens, Once!config
<1>1. CASE Once!OpenFails
  BY <1>0, <1>1 DEF Once!OpenFails, Once!ends, Once!copy, OnceIInv, OnceExtra, Once!TypeOK,
    Once!PathFollowsUse, Once!OkMeansEnded, Once!Over, StartedHolds, RestsWithin, EofHoldsNone,
    LostByFailure, StagesHold
<1>2. CASE Once!Relays
  <2>1. /\ phase = "opening" /\ phase' = "relaying" /\ \A e \in Once!Ends : at[e] = "open"
        /\ UNCHANGED <<at, attempt, path, runs>>
    BY <1>2 DEF Once!Relays, Once!ends
  <2>2. /\ dir' \in [Once!Dirs -> {"running", "eof", "failed"}]
        /\ held' \in [Once!Dirs -> BOOLEAN] /\ \A d \in Once!Dirs : ~held'[d]
    BY <1>2 DEF Once!Relays, Once!Going, Once!Nothing
  <2>3. lost' \in BOOLEAN /\ ~lost'
    BY <1>2 DEF Once!Relays
  <2>4. path = listens
    BY <2>1 DEF OnceIInv, OnceExtra, StartedHolds, Once!TypeOK
  <2> QED
    BY <1>0, <2>1, <2>2, <2>3, <2>4 DEF OnceIInv, OnceExtra, Once!TypeOK, Once!PathFollowsUse,
      Once!OkMeansEnded, Once!Over, StartedHolds, RestsWithin, EofHoldsNone, LostByFailure,
      StagesHold
<1>3. CASE Once!Completes
  BY <1>0, <1>3 DEF Once!Completes, Once!ends, Once!copy, OnceIInv, OnceExtra, Once!TypeOK,
    Once!PathFollowsUse, Once!OkMeansEnded, Once!Over, StartedHolds, RestsWithin, EofHoldsNone,
    LostByFailure, StagesHold
<1>4. CASE Once!Interrupted
  BY <1>0, <1>4 DEF Once!Interrupted, Once!ends, Once!copy, OnceIInv, OnceExtra, Once!TypeOK,
    Once!PathFollowsUse, Once!OkMeansEnded, Once!Over, StartedHolds, RestsWithin, EofHoldsNone,
    LostByFailure, StagesHold
<1>5. CASE Once!BreaksOff
  <2>1. /\ phase = "relaying" /\ UNCHANGED <<at, attempt, dir, runs>>
        /\ \/ phase' = "err" /\ path' = {}
           \/ phase' = "waiting" /\ path' = path
    BY <1>5 DEF Once!BreaksOff, Once!Breaks, Once!ends
  <2>2. held' \in [Once!Dirs -> BOOLEAN] /\ \A d \in Once!Dirs : ~held'[d]
    BY <1>5 DEF Once!BreaksOff, Once!Breaks, Once!Nothing
  <2>3. lost' \in BOOLEAN /\ (lost' => lost \/ \E d \in Once!Dirs : held[d])
    BY <1>5, Zenon DEF Once!BreaksOff, Once!Breaks
  <2> QED
    BY <1>0, <2>1, <2>2, <2>3 DEF OnceIInv, OnceExtra, Once!TypeOK, Once!PathFollowsUse,
      Once!OkMeansEnded, Once!Over, StartedHolds, RestsWithin, EofHoldsNone, LostByFailure,
      StagesHold
<1>6. CASE Once!Reopens
  <2>1. /\ phase' = "opening" /\ path' = {} /\ UNCHANGED <<dir, held, lost>>
        /\ runs' \in 1..MaxRuns
    BY <1>6, RelayAssumption DEF Once!Reopens, Once!copy, OnceIInv, Once!TypeOK
  <2>2. /\ at' \in [Once!Ends -> {"idle", "trying", "resting", "open", "failed"}]
        /\ \A e \in Once!Ends : at'[e] = "idle"
        /\ attempt' \in [Once!Ends -> 1..Attempts]
    BY <1>6, RelayAssumption DEF Once!Reopens, Once!Idle, Once!First
  <2> QED
    BY <1>0, <2>1, <2>2 DEF OnceIInv, OnceExtra, Once!TypeOK, Once!PathFollowsUse,
      Once!OkMeansEnded, Once!Over, StartedHolds, RestsWithin, EofHoldsNone, LostByFailure,
      StagesHold
<1> QED
  BY <1>1, <1>2, <1>3, <1>4, <1>5, <1>6

(* Every step of a run, of an open and of a copy keeps what is known of    *)
(* them.                                                                   *)
LEMMA OnceKeeps == OnceIInv /\ OnceStep => OnceIInv'
<1> SUFFICES ASSUME OnceIInv, OnceStep PROVE OnceIInv'
  OBVIOUS
<1>1. CASE Once!Drain \/ UNCHANGED Once!vars
  <2>1. UNCHANGED <<listens, staged, phase, at, attempt, path, dir, held, lost, runs>>
        /\ signal' \in BOOLEAN /\ (signal => signal')
    BY <1>1 DEF Once!Drain, Once!vars, Once!config, Once!ends, Once!copy, OnceIInv, Once!TypeOK
  <2> QED
    BY <2>1 DEF OnceIInv, OnceExtra, Once!TypeOK, Once!PathFollowsUse, Once!OkMeansEnded,
      Once!Over, StartedHolds, RestsWithin, EofHoldsNone, LostByFailure, StagesHold
<1> QED
  BY <1>1, OpeningKeeps, DirectionKeeps, PhaseKeeps DEF OnceStep, Once!Next, Once!Own

-----------------------------------------------------------------------------
(* run_sync.                                                               *)

(* A thread that waits in a read has read nothing since the signal; it owes*)
(* the chunk in its hands and no other, unless it failed or was killed; and*)
(* whoever was joined ended well.                                          *)
LooksFirst  == \A d \in Sync!Dirs : ~signal \/ thread[d] = "reading" => late[d] = 0
OwesOne     == \A d \in Sync!Dirs :
                 /\ thread[d] \in {"looking", "reading", "flushing", "ok"} => given[d] = taken[d]
                 /\ thread[d] = "writing" => given[d] + 1 = taken[d]
JoinedEnded ==
  /\ joined \in 0..2
  /\ joined >= 1 => thread["forward"] = "ok"
  /\ joined = 2 => thread["reverse"] = "ok"
  /\ copyResult = "ok" => joined = 2

SyncTyped ==
  /\ exists \subseteq Sync!Dirs /\ signal \in BOOLEAN
  /\ thread \in [Sync!Dirs -> {"looking", "reading", "writing", "flushing", "ok", "err", "killed"}]
  /\ taken \in [Sync!Dirs -> 0..MaxChunks] /\ given \in [Sync!Dirs -> 0..MaxChunks]
  /\ late \in [Sync!Dirs -> 0..MaxChunks]
  /\ copyResult \in {"running", "ok", "err", "interrupted"}

SyncIInv == SyncTyped /\ Sync!OneReadAfterSignal /\ LooksFirst /\ OwesOne /\ JoinedEnded

(* The forward thread is joined first, the reverse one after it.           *)
LEMMA OrderIs ==
  /\ Sync!Len(Sync!Order) = 2
  /\ Sync!Order[1] = "forward" /\ Sync!Order[2] = "reverse"
BY DEF Sync!Order

(* As the blocking copy starts, its threads have read nothing.             *)
LEMMA SyncInit == Sync!Init => SyncIInv
<1> SUFFICES ASSUME Sync!Init PROVE SyncIInv
  OBVIOUS
<1>1. /\ thread \in [Sync!Dirs -> {"looking", "reading", "writing", "flushing", "ok", "err", "killed"}]
      /\ \A d \in Sync!Dirs : thread[d] \in {"looking", "ok"}
  BY DEF Sync!Init
<1>2. /\ taken \in [Sync!Dirs -> 0..MaxChunks] /\ given \in [Sync!Dirs -> 0..MaxChunks]
      /\ late \in [Sync!Dirs -> 0..MaxChunks]
      /\ \A d \in Sync!Dirs : taken[d] = 0 /\ given[d] = 0 /\ late[d] = 0
  BY RelayAssumption DEF Sync!Init
<1>3. joined = 0 /\ copyResult = "running" /\ exists \subseteq Sync!Dirs /\ signal \in BOOLEAN
  BY DEF Sync!Init
<1> QED
  BY <1>1, <1>2, <1>3 DEF SyncIInv, SyncTyped, Sync!OneReadAfterSignal, LooksFirst, OwesOne,
    JoinedEnded

(* A step of a thread: it looks, reads, writes, flushes or fails.          *)
LEMMA ThreadKeeps ==
  ASSUME SyncIInv, NEW d \in Sync!Dirs,
         Sync!Copies(d) \/ Sync!Reads(d) \/ Sync!ReadsEof(d) \/ Sync!Fails(d)
  PROVE  SyncIInv'
<1>1. UNCHANGED <<exists, signal, joined, copyResult>>
  BY DEF Sync!Copies, Sync!Looks, Sync!Writes, Sync!Flushes, Sync!Reads, Sync!ReadsEof,
    Sync!Fails, Sync!Goes
<1>2. PICK from \in {"looking", "reading", "writing", "flushing"},
           to \in {"reading", "writing", "looking", "flushing", "ok", "err"} :
        Sync!Goes(d, from, to)
  BY DEF Sync!Copies, Sync!Looks, Sync!Writes, Sync!Flushes, Sync!Reads, Sync!ReadsEof,
    Sync!Fails
<1>3. /\ thread' \in [Sync!Dirs -> {"looking", "reading", "writing", "flushing", "ok", "err", "killed"}]
      /\ thread'[d] = to /\ thread[d] = from
      /\ \A c \in Sync!Dirs : c # d => thread'[c] = thread[c]
  BY <1>2 DEF Sync!Goes, SyncIInv, SyncTyped
<1>4. JoinedEnded'
  BY <1>1, <1>3 DEF SyncIInv, JoinedEnded, Sync!Dirs
<1>5. CASE Sync!Reads(d)
  <2>1. /\ thread[d] = "reading" /\ thread'[d] = "writing" /\ given' = given
        /\ taken[d] < MaxChunks /\ taken' = [taken EXCEPT ![d] = @ + 1]
        /\ late' = [late EXCEPT ![d] = IF signal THEN @ + 1 ELSE 0]
    BY <1>3, <1>5 DEF Sync!Reads, Sync!Goes, SyncIInv, SyncTyped
  <2>2. late[d] = 0
    BY <2>1 DEF SyncIInv, LooksFirst
  <2>3. /\ taken' \in [Sync!Dirs -> 0..MaxChunks] /\ taken'[d] = taken[d] + 1
        /\ \A c \in Sync!Dirs : c # d => taken'[c] = taken[c]
    BY <2>1, RelayAssumption DEF SyncIInv, SyncTyped
  <2>4. /\ late' \in [Sync!Dirs -> 0..MaxChunks] /\ late'[d] = (IF signal THEN 1 ELSE 0)
        /\ \A c \in Sync!Dirs : c # d => late'[c] = late[c]
    <3>1. 1 \in 0..MaxChunks
      BY <2>1, RelayAssumption DEF SyncIInv, SyncTyped
    <3> QED
      BY <2>1, <2>2, <3>1, RelayAssumption DEF SyncIInv, SyncTyped
  <2>5. Sync!OneReadAfterSignal' /\ LooksFirst'
    BY <1>1, <1>3, <2>1, <2>4 DEF SyncIInv, Sync!OneReadAfterSignal, LooksFirst
  <2>6. OwesOne'
    BY <1>3, <2>1, <2>3 DEF SyncIInv, OwesOne
  <2> QED
    BY <1>1, <1>3, <1>4, <2>1, <2>3, <2>4, <2>5, <2>6 DEF SyncIInv, SyncTyped
<1>6. CASE Sync!Writes(d)
  <2>1. /\ thread[d] = "writing" /\ thread'[d] = "looking" /\ UNCHANGED <<taken, late>>
        /\ given' = [given EXCEPT ![d] = @ + 1]
    BY <1>3, <1>6 DEF Sync!Writes, Sync!Goes, SyncIInv, SyncTyped
  <2>2. given[d] + 1 = taken[d]
    BY <2>1 DEF SyncIInv, OwesOne
  <2>3. /\ given' \in [Sync!Dirs -> 0..MaxChunks] /\ given'[d] = taken[d]
        /\ \A c \in Sync!Dirs : c # d => given'[c] = given[c]
    BY <2>1, <2>2, RelayAssumption DEF SyncIInv, SyncTyped
  <2> QED
    BY <1>1, <1>3, <1>4, <2>1, <2>3
    DEF SyncIInv, SyncTyped, Sync!OneReadAfterSignal, LooksFirst, OwesOne
<1>7. CASE Sync!Looks(d) \/ Sync!Flushes(d) \/ Sync!ReadsEof(d) \/ Sync!Fails(d)
  <2>1. /\ UNCHANGED <<taken, given, late>>
        /\ thread'[d] = "reading" => ~signal
        /\ thread'[d] \in {"reading", "flushing", "ok"} => thread[d] \in {"looking", "reading", "flushing"}
        /\ thread'[d] \in {"reading", "flushing", "ok", "err"}
    BY <1>3, <1>7 DEF Sync!Looks, Sync!Flushes, Sync!ReadsEof, Sync!Fails, Sync!Goes,
      SyncIInv, SyncTyped
  <2> QED
    BY <1>1, <1>3, <1>4, <2>1
    DEF SyncIInv, SyncTyped, Sync!OneReadAfterSignal, LooksFirst, OwesOne
<1> QED
  BY <1>5, <1>6, <1>7 DEF Sync!Copies

(* A step of run_sync, of dispatch or of the teardown: none of them takes a*)
(* thread back that has ended.                                             *)
LEMMA CopyKeeps ==
  ASSUME SyncIInv, Sync!Drain \/ Sync!Own
  PROVE  SyncIInv'
<1>1. CASE Sync!Drain
  BY <1>1 DEF Sync!Drain, SyncIInv, SyncTyped, Sync!OneReadAfterSignal, LooksFirst, OwesOne,
    JoinedEnded
<1>2. CASE Sync!Teardown
  <2>1. UNCHANGED <<exists, signal, taken, given, late, joined, copyResult>>
    BY <1>2 DEF Sync!Teardown
  <2>2. /\ thread' \in [Sync!Dirs -> {"looking", "reading", "writing", "flushing", "ok", "err", "killed"}]
        /\ \A d \in Sync!Dirs : thread'[d] # thread[d] => thread'[d] = "killed" /\ thread[d] # "ok"
    BY <1>2 DEF Sync!Teardown, SyncIInv, SyncTyped
  <2> QED
    BY <2>1, <2>2 DEF SyncIInv, SyncTyped, Sync!OneReadAfterSignal, LooksFirst, OwesOne,
      JoinedEnded, Sync!Dirs
<1>3. CASE Sync!Joins \/ Sync!Completes \/ Sync!Interrupted
  <2>1. UNCHANGED <<exists, signal, thread, taken, given, late>>
    BY <1>3 DEF Sync!Joins, Sync!Completes, Sync!Interrupted, Sync!Awaits
  <2>2. JoinedEnded' /\ copyResult' \in {"running", "ok", "err", "interrupted"}
    <3>1. CASE Sync!Joins
      <4>1. joined \in {0, 1} /\ copyResult = "running"
        BY <3>1, OrderIs DEF Sync!Joins, SyncIInv, JoinedEnded
      <4>2. CASE joined = 0
        BY <3>1, <4>1, <4>2, OrderIs DEF Sync!Joins, Sync!Awaits, SyncIInv, JoinedEnded
      <4>3. CASE joined = 1
        BY <3>1, <4>1, <4>3, OrderIs DEF Sync!Joins, Sync!Awaits, SyncIInv, JoinedEnded
      <4> QED
        BY <4>1, <4>2, <4>3
    <3>2. CASE Sync!Completes \/ Sync!Interrupted
      BY <3>2, OrderIs DEF Sync!Completes, Sync!Interrupted, Sync!Awaits, SyncIInv, JoinedEnded
    <3> QED
      BY <1>3, <3>1, <3>2
  <2> QED
    BY <2>1, <2>2 DEF SyncIInv, SyncTyped, Sync!OneReadAfterSignal, LooksFirst, OwesOne
<1> QED
  BY <1>1, <1>2, <1>3 DEF Sync!Own

(* Every step of the threads and of the one that joins them keeps what is  *)
(* known of them.                                                          *)
LEMMA SyncKeeps == SyncIInv /\ SyncStep => SyncIInv'
<1> SUFFICES ASSUME SyncIInv, SyncStep PROVE SyncIInv'
  OBVIOUS
<1>1. CASE UNCHANGED Sync!vars
  BY <1>1 DEF Sync!vars, SyncIInv, SyncTyped, Sync!OneReadAfterSignal, LooksFirst, OwesOne,
    JoinedEnded
<1> QED
  BY <1>1, ThreadKeeps, CopyKeeps DEF SyncStep, Sync!Next

(* What is proved of the threads says what the model's own invariants say. *)
LEMMA SyncSays == SyncIInv => Sync!TypeOK /\ Sync!OneReadAfterSignal /\ Sync!OkMeansCopied
<1> SUFFICES ASSUME SyncIInv PROVE Sync!TypeOK /\ Sync!OneReadAfterSignal /\ Sync!OkMeansCopied
  OBVIOUS
<1>1. Sync!TypeOK
  BY OrderIs DEF SyncIInv, SyncTyped, JoinedEnded, Sync!TypeOK
<1>2. Sync!OkMeansCopied
  BY DEF SyncIInv, JoinedEnded, OwesOne, Sync!OkMeansCopied, Sync!Dirs
<1> QED
  BY <1>1, <1>2 DEF SyncIInv

-----------------------------------------------------------------------------
(* The relay.                                                              *)

ModeTyped == mode \in {"fork", "sync", "once"} /\ flushed \in BOOLEAN
IInv      == ModeTyped /\ ForkIInv /\ OnceIInv /\ SyncIInv

(* The invariants of the three ways, together, are inductive.              *)
THEOREM Inductive == Spec => []IInv
<1>1. Init => IInv
  BY ForkInit, OnceInit, SyncInit DEF Init, IInv, ModeTyped
<1>2. IInv /\ [Next]_vars => IInv'
  <2>1. ModeTyped /\ [Next]_vars => ModeTyped'
    BY DEF ModeTyped, Next, Forks, Onces, Syncs, Flushes, vars
  <2> QED
    BY <2>1, RelaySteps, ForkKeeps, OnceKeeps, SyncKeeps DEF IInv
<1> QED
  BY <1>1, <1>2, PTL DEF Spec

(* At every moment, whichever way dispatch took: every permit is in the    *)
(* semaphore, with the loop or with a connection; a listening path is there*)
(* while its connection is in use, gone when the run is over and before it *)
(* is bound again; and a blocking thread reads at most once after the      *)
(* signal.                                                                 *)
THEOREM ResourcesHeld == Spec => []ResourcesInv
<1>1. IInv => ResourcesInv
  BY SyncSays, CardinalityIs
  DEF IInv, ModeTyped, ForkIInv, OnceIInv, Accounted, ResourcesInv, TypeOK, PermitsConserved,
    Fork!PermitsConserved, PathFollowsUse
<1> QED
  BY <1>1, Inductive, PTL

(* A relay that reports success has nothing left to do: every forked       *)
(* connection was waited for, both directions ended through their stages   *)
(* with nothing dropped, every thread wrote all that it read.              *)
THEOREM SuccessIsDone == Spec => []OkMeansDone
<1>1. IInv => OkMeansDone
  BY SyncSays DEF IInv, ForkIInv, ForkEnds, OnceIInv, OkMeansDone, Fork!OkMeansDrained
<1> QED
  BY <1>1, Inductive, PTL
=============================================================================

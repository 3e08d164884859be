------------------------------- MODULE Relay -------------------------------
(***************************************************************************)
(* A relay from start to exit: Relay::run and dispatch of                  *)
(* crates/tocat-core/src/relay.rs.  dispatch takes one of three ways: a    *)
(* fork endpoint is served (Serve), two blocking endpoints with no stage   *)
(* are copied by threads (BlockingCopy), and everything else is opened     *)
(* once, or as often as reconnect=restart asks (RunOnce).  Whichever it    *)
(* was, run flushes the side channels once it has returned.                *)
(***************************************************************************)
EXTENDS Naturals, FiniteSets

CONSTANTS
  Clients, max_connections,    (* Serve                                    *)
  Restarts, Attempts, MaxRuns, (* RunOnce                                  *)
  MaxChunks                    (* BlockingCopy                             *)

ASSUME RelayAssumption ==
  /\ IsFiniteSet(Clients) /\ max_connections \in Nat \ {0}
  /\ Restarts \in BOOLEAN /\ Attempts \in Nat \ {0} /\ MaxRuns \in Nat \ {0}
  /\ MaxChunks \in Nat

VARIABLES
  mode,    (* the way dispatch took: "fork", "sync" or "once"              *)
  signal,  (* the shutdown watch has been triggered                        *)
  flushed, (* the channels have been flushed: run returns                  *)
  loop, permits, client, result,                                  (* Serve *)
  listens, staged, phase, at, attempt, path, dir, held, lost, runs,
                                                                (* RunOnce *)
  exists, thread, taken, given, late, joined, copyResult   (* BlockingCopy *)

forkVars == <<loop, permits, client, result>>
onceVars == <<listens, staged, phase, at, attempt, path, dir, held, lost, runs>>
syncVars == <<exists, thread, taken, given, late, joined, copyResult>>
vars     == <<mode, signal, flushed, forkVars, onceVars, syncVars>>

Fork == INSTANCE Serve
Once == INSTANCE RunOnce
Sync == INSTANCE BlockingCopy

Init ==
  /\ mode \in {"fork", "sync", "once"} /\ flushed = FALSE
  /\ Fork!Init /\ Once!Init /\ Sync!Init
  /\ mode # "once" => listens = {} /\ staged
  /\ mode # "sync" => exists = {}

(* A step of the way that was taken leaves the others alone.               *)
Forks(A) == mode = "fork" /\ A /\ UNCHANGED <<mode, flushed, onceVars, syncVars>>
Onces(A) == mode = "once" /\ A /\ UNCHANGED <<mode, flushed, forkVars, syncVars>>
Syncs(A) == mode = "sync" /\ A /\ UNCHANGED <<mode, flushed, forkVars, onceVars>>

(* dispatch has returned.                                                  *)
Returned ==
  \/ mode = "fork" /\ result # "running"
  \/ mode = "once" /\ Once!Over
  \/ mode = "sync" /\ copyResult # "running"

(* Mutant: `?` on the result of dispatch.                                  *)
FlushesOnOk ==
  /\ Returned /\ ~flushed
  /\ result # "err" /\ phase # "err" /\ copyResult # "err"
  /\ flushed' = TRUE
  /\ UNCHANGED <<mode, signal, forkVars, onceVars, syncVars>>

(* run, after dispatch, whether it went well or not.                       *)
Flushes ==
  /\ Returned /\ ~flushed
  /\ flushed' = TRUE
  /\ UNCHANGED <<mode, signal, forkVars, onceVars, syncVars>>

Next == Forks(Fork!Next) \/ Onces(Once!Next) \/ Syncs(Sync!Next) \/ Flushes

Spec == Init /\ [][Next]_vars

(* The tasks of the way that was taken go on while they can, and directions*)
(* that were signalled end.  A thread stuck in a read need not come back,  *)
(* nobody need ever connect, and a dial need not conclude.                 *)
FairSpec ==
  /\ Spec
  /\ WF_vars(Forks(Fork!Own)) /\ WF_vars(Onces(Once!Own)) /\ WF_vars(Syncs(Sync!Own))
  /\ WF_vars(Flushes)
  /\ \A c \in Clients :
       WF_vars(Forks(Fork!Accepts(c))) /\ WF_vars(Forks(Fork!Drains(c)))
  /\ \A d \in Once!Dirs : WF_vars(Onces(Once!Drains(d)))

-----------------------------------------------------------------------------
TypeOK ==
  /\ mode \in {"fork", "sync", "once"} /\ flushed \in BOOLEAN
  /\ Fork!TypeOK /\ Once!TypeOK /\ Sync!TypeOK

(* serve: every permit is in the semaphore, with the loop, or with a       *)
(* connection being served; none leaks however a connection ends.          *)
PermitsConserved == Fork!PermitsConserved

(* serve: a client that knocks is taken while there is room.               *)
KnockersAreTaken ==
  \A c \in Clients :
    (mode = "fork" /\ client[c] = "knocking") ~>
      \/ client[c] # "knocking" \/ Cardinality(Fork!Active) = max_connections
      \/ signal \/ loop = "left"

(* run_once: a listening path is there as long as its connection is in     *)
(* use, and gone before it is bound again.                                 *)
PathFollowsUse == Once!PathFollowsUse

(* Whichever way it took, a relay that reports success has nothing left    *)
(* to do: forked connections were waited for, directions ended through     *)
(* their stages, and threads wrote all that they had read.                 *)
OkMeansDone == Fork!OkMeansDrained /\ Once!OkMeansEnded /\ Sync!OkMeansCopied

(* "Drain, then leave" (lifecycle.md): a signal ends the run and the       *)
(* channels are flushed on the way, however the run ends.  What is waiting *)
(* for a client or for a restart does not hear it, nor does a client that  *)
(* is being dialled for: a dial that never concludes holds up the drain of *)
(* a fork for ever.                                                        *)
SignalDrains ==
  \/ <>[](mode = "fork" /\ \E c \in Clients : client[c] = "dialing")
  \/ (signal /\ (mode = "once" => phase = "relaying")) ~> flushed

(* What the ways of dispatch hold, at every moment: of its types, with     *)
(* every permit accounted for, every path owned by who uses it, and no     *)
(* thread that reads more than once after the signal (run_sync).           *)
ResourcesInv == TypeOK /\ PermitsConserved /\ PathFollowsUse /\ Sync!OneReadAfterSignal
=============================================================================

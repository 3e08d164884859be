------------------------------- MODULE Streams -------------------------------
(***************************************************************************)
(* The two streams whose halves wait on one another: a subprocess that is  *)
(* fed and drained by one task (ProcessStage), and an endpoint that is     *)
(* opened again under both of its directions (Reconnecting).  The parts    *)
(* share no state; a behaviour is one of one part.                         *)
(***************************************************************************)
EXTENDS ProcessStage

CONSTANTS Attempts, MaxBreaks   (* Reconnecting                            *)

ASSUME StreamsAssumption == Attempts \in Nat \ {0} /\ MaxBreaks \in Nat

VARIABLES
  part,    (* "process" or "keep"                                          *)
  oneTask, state, conn, waiting, room, onConn, dial, attempt, onDial, fut, breaks

keepVars == <<oneTask, state, conn, waiting, room, onConn, dial, attempt, onDial, fut, breaks>>
allVars  == <<part, vars, keepVars>>

Keeps == INSTANCE Reconnecting

StreamsInit ==
  /\ part \in {"process", "keep"}
  /\ Init /\ Keeps!Init
  /\ part # "process" => upstream = "stream" /\ downstream = "stream"
  /\ part # "keep" => oneTask

Piped(A) == part = "process" /\ A /\ UNCHANGED <<part, keepVars>>
Kept(A)  == part = "keep" /\ A /\ UNCHANGED <<part, vars>>

StreamsNext == Piped(Next) \/ Kept(Keeps!Next)

(* The fairness of each part, ProcessStage and Reconnecting, while it is   *)
(* the one that runs.                                                      *)
StreamsSpec ==
  /\ StreamsInit /\ [][StreamsNext]_allVars
  /\ WF_allVars(Piped(Feed)) /\ WF_allVars(Piped(Drains)) /\ WF_allVars(Piped(JoinFails))
  /\ WF_allVars(Piped(Waits)) /\ WF_allVars(Piped(ChildFilters)) /\ WF_allVars(Piped(BelowTakes))
  /\ WF_allVars(Kept(Keeps!PollRead)) /\ WF_allVars(Kept(Keeps!PollWrite))
  /\ WF_allVars(Kept(Keeps!RestElapses))

-----------------------------------------------------------------------------
(* A process segment that reports success has carried everything: see      *)
(* ProcessStage.                                                           *)
ProcessInv == TypeOK /\ OkMeansComplete

(* The two futures of a stream that is opened again: none is forgotten, and*)
(* a shutdown is final.                                                    *)
FuturesInv == Keeps!FuturesInv

(* Only the peer's close reads as end of stream.                           *)
EofOnlyFromPeer == Keeps!EofOnlyFromPeer

(* A chunk that waits on a working connection is read, when one task polls *)
(* both directions.                                                        *)
ChunksAreReadByOneTask == Keeps!ChunksAreReadByOneTask

(* A dial is over sooner or later, and a peer that closes is heard.        *)
DialsConclude == Keeps!DialConcludes /\ Keeps!CloseIsHeard
=============================================================================

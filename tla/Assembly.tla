------------------------------- MODULE Assembly ------------------------------
(***************************************************************************)
(* How a relay's stages are put together (Chain) and how the stages of one *)
(* segment then hand units on to one another (Pipeline).  The parts share  *)
(* no state; a behaviour is one of one part.                               *)
(***************************************************************************)
EXTENDS Pipeline

CONSTANTS MaxStages, Directions   (* Chain                                 *)

ASSUME AssemblyAssumption ==
  MaxStages \in Nat /\ Directions \subseteq {"source-to-sink", "sink-to-source", "both"}

VARIABLES
  assembling,  (* "chain" or "pipeline"                                    *)
  specs, building, left, draft, chains, verdict, datagram, needs

chainVars == <<specs, building, left, draft, chains, verdict, datagram, needs>>

Chained == INSTANCE Chain

AssemblyInit ==
  /\ assembling \in {"chain", "pipeline"}
  /\ assembling # "chain" => specs = <<>>
  /\ Init /\ Chained!Init

AssemblyNext ==
  \/ assembling = "pipeline" /\ Next /\ UNCHANGED <<assembling, chainVars>>
  \/ assembling = "chain" /\ Chained!Next /\ UNCHANGED <<assembling, vars>>

AssemblySpec == AssemblyInit /\ [][AssemblyNext]_<<assembling, vars, chainVars>>

-----------------------------------------------------------------------------
(* Every stage of a path is in its chain once, in its place and in the task*)
(* it was asked to have.                                                   *)
BuiltAsDeclared == Chained!BuiltAsDeclared

(* Boundaries are refused where, and only where, the declarations let them *)
(* be lost, and warned of where they may be; a relay that starts carries   *)
(* the messages that it was asked to.                                      *)
ScanIsExact == Chained!ScanIsExact /\ Chained!WarningIsExact /\ Chained!OkMeansCarried

(* What is handed on is whole, and what every stage handed back untouched  *)
(* was never copied.                                                       *)
UnitsArePassedOn == WellFormed /\ ObserversAreFree
=============================================================================

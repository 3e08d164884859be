------------------------------ MODULE MCChains ------------------------------
(***************************************************************************)
(* What goes through a chain of stages (Codecs), and how the chain is put  *)
(* together (Assembly), in one run.  They share no state; a behaviour is   *)
(* one of either.                                                          *)
(***************************************************************************)
EXTENDS Codecs, Assembly

VARIABLES
  running  (* "codecs" or "assembly"                                       *)

codecsVars   == <<part, framingVars, cipherVars, codecVars>>
assemblyVars == <<assembling, vars, chainVars>>

(* What a stage that is not told gets is what one that is told may get:    *)
(* the default is looked at where there are fewer than MaxStages.          *)
ToldWhere(full) == full => \A i \in DOMAIN specs : specs[i].detach # "unset"

(* Terminators of one byte, of two equal ones and of two different ones.   *)
MCDelimiters == { <<1>>, <<1, 1>>, <<1, 2>> }

MCInit ==
  /\ running \in {"codecs", "assembly"}
  /\ running # "codecs" => part = "encryption" /\ cipher = CHOOSE c \in Encrypted!Accepted : TRUE
  /\ running # "assembly" => assembling = "pipeline"
  /\ CodecsInit /\ AssemblyInit /\ ToldWhere(Len(specs) = MaxStages)

MCNext ==
  \/ running = "codecs" /\ CodecsNext /\ UNCHANGED <<running, assemblyVars>>
  \/ running = "assembly" /\ AssemblyNext /\ UNCHANGED <<running, codecsVars>>

MCSpec == MCInit /\ [][MCNext]_<<running, codecsVars, assemblyVars>>
=============================================================================

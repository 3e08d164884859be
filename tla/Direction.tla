----------------------------- MODULE Direction -----------------------------
(***************************************************************************)
(* What one direction of a relay promises whoever awaits it, whatever its  *)
(* chain is made of: the contract of `pump` (crates/tocat-core/src/pump.rs)*)
(* as relay.rs relies on it.  Segments implements it.                      *)
(*                                                                         *)
(* Chunks are numbered in the order the endpoint gave them.                *)
(***************************************************************************)
EXTENDS Naturals, Sequences

VARIABLES
  taken,    (* chunks read from the endpoint                               *)
  given,    (* what the other endpoint has been handed, in order           *)
  cut,      (* a stage below the head chose to stop before the end         *)
  reads,    (* reads still allowed: "many", or "one", "none" once signalled*)
  outcome   (* "running", "ok", "err", or "dropped" by the caller          *)

vars == <<taken, given, cut, reads, outcome>>

Init ==
  /\ taken = 0 /\ given = <<>> /\ cut = FALSE
  /\ reads = "many" /\ outcome = "running"

Take ==
  /\ outcome = "running"
  /\ reads # "none"
  /\ taken' = taken + 1
  /\ reads' = IF reads = "one" THEN "none" ELSE "many"
  /\ UNCHANGED <<given, cut, outcome>>

(* The next chunks in order, never past what was read.  Segments that      *)
(* outlive a failed head go on giving; nothing does after success.         *)
Give ==
  /\ outcome # "ok"
  /\ \E n \in 1..(taken - Len(given)) :
       given' = given \o [k \in 1..n |-> Len(given) + k]
  /\ UNCHANGED <<taken, cut, reads, outcome>>

Cut ==
  /\ outcome # "ok"
  /\ cut' = TRUE
  /\ UNCHANGED <<taken, given, reads, outcome>>

Signal ==
  /\ reads = "many"
  /\ reads' = "one"
  /\ UNCHANGED <<taken, given, cut, outcome>>

(* Success means nothing was lost, unless a stage meant it to be.          *)
End ==
  /\ outcome = "running"
  /\ outcome' \in {"ok", "err", "dropped"}
  /\ outcome' = "ok" => cut \/ Len(given) = taken
  /\ UNCHANGED <<taken, given, cut, reads>>

Next == Take \/ Give \/ Cut \/ Signal \/ End

Spec == Init /\ [][Next]_vars
=============================================================================

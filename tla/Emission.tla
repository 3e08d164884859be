------------------------------ MODULE Emission ------------------------------
(***************************************************************************)
(* What one call to a stage produced, and the words with which it was      *)
(* said: Emission and Ctx (crates/tocat-api/src/plugin.rs), and the walk   *)
(* over units of crates/tocat-api/src/pipeline.rs.                         *)
(*                                                                         *)
(* `bounds` holds the end of every unit of `out`; empty, it means that the *)
(* whole is one.  An emission's rearm flag is Ticks's affair.              *)
(***************************************************************************)
EXTENDS Naturals, Sequences

(* Emission::default and reset.                                            *)
Fresh == [out |-> <<>>, bounds |-> <<>>, emit |-> "pending"]

next_unit(e) == [e EXCEPT !.emit = "pending"]

Framed(e)   == e.bounds # <<>>
LastEnd(e)  == IF Framed(e) THEN e.bounds[Len(e.bounds)] ELSE 0

close(e) ==
  IF LastEnd(e) < Len(e.out) THEN [e EXCEPT !.bounds = Append(@, Len(e.out))] ELSE e

(* pass_through's passthrough, turned into bytes.                          *)
Copied(e, input) == IF e.emit = "passthrough" THEN e.out \o input ELSE e.out

pass_through(e, input) ==
  [e EXCEPT !.emit = IF @ = "pending" THEN "passthrough" ELSE @,
            !.out  = IF e.emit = "buffered" THEN @ \o input ELSE @]

forward(e, input, bytes) ==
  [e EXCEPT !.out = Copied(e, input) \o bytes, !.emit = "buffered"]

drop_chunk(e) == [e EXCEPT !.emit = IF @ = "passthrough" THEN "pending" ELSE @]

boundary(e, input) ==
  close([e EXCEPT !.out  = Copied(e, input),
                  !.emit = IF @ = "passthrough" THEN "buffered" ELSE @])

(* units: the pieces `bounds` cuts; Emitted::units takes an unframed       *)
(* emission for one, and an empty one for none.                            *)
units(e) ==
  [i \in 1..Len(e.bounds) |->
     SubSeq(e.out, IF i = 1 THEN 1 ELSE e.bounds[i - 1] + 1, e.bounds[i])]

EmittedUnits(e) == IF Framed(e) \/ e.out = <<>> THEN units(e) ELSE <<e.out>>

(* Mutant: the offsets of what was written are not moved along.            *)
MaterialisesUnshifted(src, done, e) ==
  LET prefix == IF done = 0 THEN 0 ELSE src.bounds[done]
  IN  [e EXCEPT !.out    = SubSeq(src.out, 1, prefix) \o @,
                !.bounds = SubSeq(src.bounds, 1, done) \o @]

(* The first `done` units of src in front of what e holds.                 *)
materialise(src, done, e) ==
  LET prefix == IF done = 0 THEN 0 ELSE src.bounds[done]
  IN  [e EXCEPT !.out    = SubSeq(src.out, 1, prefix) \o @,
                !.bounds = SubSeq(src.bounds, 1, done)
                             \o [i \in 1..Len(@) |-> @[i] + prefix]]

(* The bounds ascend, and none lies outside of the bytes.                  *)
Ascending(e) ==
  /\ \A i \in 1..Len(e.bounds) : e.bounds[i] \in 1..Len(e.out)
  /\ \A i, j \in 1..Len(e.bounds) : i < j => e.bounds[i] < e.bounds[j]
=============================================================================

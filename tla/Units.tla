------------------------------- MODULE Units -------------------------------
(***************************************************************************)
(* What a segment promises the plugins in it, told in units alone: a stage *)
(* is called once for every unit the stage above it emitted, in order, and *)
(* what it says in a call is cut into units where it asked for a cut and   *)
(* at the end of the call.  No buffer, offset or copy is visible here;     *)
(* Pipeline implements this with two buffers and copies as little as it    *)
(* can.  The words of a plugin are those of Ctx                            *)
(* (crates/tocat-api/src/plugin.rs).                                       *)
(***************************************************************************)
EXTENDS Naturals, Sequences

CONSTANTS
  N,        (* stages of the segment                                       *)
  Bytes     (* what a stage may write of its own                           *)

VARIABLES
  stage,      (* the stage at work, or 0                                   *)
  call,       (* what it is called with: "none", "bytes", "eof", "tick";   *)
              (* "done" once it has heard everything                       *)
  todo,       (* units it has yet to hear, the one it is hearing included  *)
  out,        (* units it has emitted                                      *)
  open,       (* bytes it has emitted since                                *)
  said,       (* of the unit at hand: "pending", "passthrough", "buffered" *)
  eof,        (* the stream has ended                                      *)
  delivered,  (* units the segment handed on last                          *)
  failed      (* a stage has failed                                        *)

heard == <<todo, out, open, said>>
vars  == <<stage, call, todo, out, open, said, eof, delivered, failed>>

Init ==
  /\ stage = 0 /\ call = "none"
  /\ todo = <<>> /\ out = <<>> /\ open = <<>> /\ said = "pending"
  /\ eof = FALSE /\ delivered = <<>> /\ failed = FALSE

Idle    == stage = 0 /\ ~eof /\ ~failed
Calling == call \in {"bytes", "eof", "tick"}
Input   == IF todo = <<>> THEN <<>> ELSE Head(todo)
Kept    == IF said = "passthrough" THEN Input ELSE <<>>

Closed(unit) == IF unit = <<>> THEN out ELSE Append(out, unit)

(* What the host asks of a segment.                                        *)
Process ==
  /\ Idle
  /\ \E b \in Bytes : todo' = << <<b>> >>
  /\ stage' = 1 /\ delivered' = <<>>
  /\ UNCHANGED <<call, out, open, said, eof, failed>>

Finish ==
  /\ Idle
  /\ stage' = 1 /\ eof' = TRUE /\ delivered' = <<>>
  /\ UNCHANGED <<call, todo, out, open, said, failed>>

Tick ==
  /\ Idle
  /\ stage' \in 1..N
  /\ call' = "tick" /\ delivered' = <<>>
  /\ UNCHANGED <<todo, out, open, said, eof, failed>>

Begins ==
  /\ stage # 0 /\ call = "none"
  /\ call' = IF todo = <<>> THEN "eof" ELSE "bytes"
  /\ UNCHANGED <<stage, todo, out, open, said, eof, delivered, failed>>

(* What a plugin may say.                                                  *)
PassesThrough ==
  /\ Calling
  /\ said' = IF said = "pending" THEN "passthrough" ELSE said
  /\ open' = IF said = "buffered" THEN open \o Input ELSE open
  /\ UNCHANGED <<stage, call, todo, out, eof, delivered, failed>>

Forwards ==
  /\ Calling
  /\ \E b \in Bytes : open' = open \o Kept \o <<b>>
  /\ said' = "buffered"
  /\ UNCHANGED <<stage, call, todo, out, eof, delivered, failed>>

DropsChunk ==
  /\ Calling
  /\ said' = IF said = "passthrough" THEN "pending" ELSE said
  /\ UNCHANGED <<stage, call, todo, out, open, eof, delivered, failed>>

Cuts ==
  /\ Calling
  /\ out' = Closed(open \o Kept) /\ open' = <<>>
  /\ said' = IF said = "passthrough" THEN "buffered" ELSE said
  /\ UNCHANGED <<stage, call, todo, eof, delivered, failed>>

(* A call ends, and with it the unit it left open.                         *)
Returns ==
  /\ Calling
  /\ out' = Closed(open \o Kept)
  /\ todo' = IF todo = <<>> THEN <<>> ELSE Tail(todo)
  /\ call' = IF call = "bytes" /\ todo' # <<>> THEN "bytes"
             ELSE IF call = "bytes" /\ eof THEN "eof" ELSE "done"
  /\ open' = <<>> /\ said' = "pending"
  /\ UNCHANGED <<stage, eof, delivered, failed>>

(* The last call of a stage that was handed one unit runs into its end of  *)
(* stream: the unit stays open, and is what the second call hears too.     *)
RunsOn ==
  /\ call = "bytes" /\ eof /\ Len(todo) = 1
  /\ call' = "eof"
  /\ UNCHANGED <<stage, heard, eof, delivered, failed>>

Fails ==
  /\ Calling
  /\ failed' = TRUE
  /\ stage' = 0 /\ call' = "none"
  /\ todo' = <<>> /\ out' = <<>> /\ open' = <<>> /\ said' = "pending"
  /\ UNCHANGED <<eof, delivered>>

(* Every stage below hears what this one emitted; none is called for       *)
(* nothing, unless the stream has ended.                                   *)
MovesOn ==
  /\ call = "done"
  /\ call' = "none" /\ out' = <<>>
  /\ IF stage < N /\ (eof \/ out # <<>>)
     THEN stage' = stage + 1 /\ todo' = out /\ UNCHANGED delivered
     ELSE stage' = 0 /\ todo' = <<>> /\ delivered' = out
  /\ UNCHANGED <<open, said, eof, failed>>

Next ==
  \/ Process \/ Finish \/ Tick \/ Begins
  \/ PassesThrough \/ Forwards \/ DropsChunk \/ Cuts
  \/ Returns \/ RunsOn \/ Fails \/ MovesOn

Spec == Init /\ [][Next]_vars
=============================================================================

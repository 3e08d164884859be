------------------------------ MODULE Pipeline ------------------------------
(***************************************************************************)
(* How an inline segment threads bytes through its stages                  *)
(* (crates/tocat-api/src/pipeline.rs): drive, run, run_tick and            *)
(* materialise over the two halves a segment ping-pongs between.  Stages   *)
(* are any plugins: in a call one may pass its input through, forward      *)
(* bytes, drop the chunk and cut units in any order, return, or fail.      *)
(*                                                                         *)
(* Every call to the segment (process, finish, tick) begins at stage 1 or, *)
(* for a tick, at the one whose schedule came due, which Ticks picks.      *)
(***************************************************************************)
EXTENDS Emission

CONSTANTS
  N,        (* stages of the segment                                       *)
  Words     (* bound on what plugins say in a behaviour                    *)

ASSUME PipelineAssumption == N \in Nat \ {0} /\ Words \in Nat

VARIABLES
  stage,    (* index of the stage that runs, or 0                          *)
  call,     (* "none", "bytes", "eof", "tick"; "done" when its run is over *)
  eof,
  input,    (* the caller's read buffer                                    *)
  live,     (* where the live bytes are: "input", "a" or "b"               *)
  bufs,     (* the two halves                                              *)
  unit,     (* the unit of the live bytes being heard                      *)
  copied,   (* of run: the stage has rewritten something                   *)
  emitted,  (* what the segment last returned                              *)
  failed,   (* a plugin's error has ended the path                         *)
  words,    (* said so far                                                 *)
  verbatim  (* every unit this run heard was handed back untouched         *)

history == <<words, verbatim>>
driving == <<stage, eof, input, live>>
vars    == <<driving, call, bufs, unit, copied, emitted, failed, history>>

Init ==
  /\ stage = 0 /\ call = "none" /\ eof = FALSE
  /\ input = <<>> /\ live = "input" /\ bufs = [h \in {"a", "b"} |-> Fresh]
  /\ unit = 1 /\ copied = FALSE /\ emitted = Fresh /\ failed = FALSE
  /\ words = 0 /\ verbatim = TRUE

Idle    == stage = 0 /\ ~eof /\ ~failed
Calling == call \in {"bytes", "eof", "tick"}

(* Buffers::borrow: what a stage reads, and the half it writes.            *)
Whole(bytes) == [Fresh EXCEPT !.out = bytes]
LiveIn(b)    == IF live = "input" THEN Whole(input) ELSE b[live]
src          == LiveIn(bufs)
Far          == IF live = "a" THEN "b" ELSE "a"
dst          == bufs[Far]
Writes(e)    == bufs' = [bufs EXCEPT ![Far] = e]

(* Ctx::input.  An unframed chunk and the end of stream behind it share    *)
(* one context.                                                            *)
Heard ==
  IF call = "tick" \/ (call = "eof" /\ Framed(src)) THEN <<>>
  ELSE IF Framed(src) THEN units(src)[unit] ELSE src.out

(* Every byte is told from every other by the word that wrote it.          *)
NewByte == words + 1

(***************************************************************************)
(* The host's calls.                                                       *)
(***************************************************************************)
Drives(from, bytes, ended) ==
  /\ stage' = from /\ input' = bytes /\ live' = "input" /\ eof' = ended
  /\ emitted' = Fresh
  /\ UNCHANGED <<unit, copied, failed, verbatim>>

Process ==
  /\ Idle /\ words < Words
  /\ Drives(1, <<NewByte>>, FALSE)
  /\ words' = words + 1
  /\ UNCHANGED <<call, bufs>>

Finish ==
  /\ Idle
  /\ Drives(1, <<>>, TRUE)
  /\ UNCHANGED <<call, bufs, words>>

(* tick and run_tick, which writes into the first half.                    *)
Tick ==
  /\ Idle
  /\ \E s \in 1..N : Drives(s, <<>>, FALSE)
  /\ call' = "tick"
  /\ bufs' = [bufs EXCEPT !["a"] = Fresh]
  /\ UNCHANGED words

(***************************************************************************)
(* What a plugin says.                                                     *)
(***************************************************************************)
Says(e) ==
  /\ Calling /\ words < Words
  /\ words' = words + 1
  /\ Writes(e)
  /\ UNCHANGED <<driving, call, unit, copied, emitted, failed>>

PassesThrough == Says(pass_through(dst, Heard)) /\ UNCHANGED verbatim
Forwards      == Says(forward(dst, Heard, <<NewByte>>)) /\ verbatim' = FALSE
DropsChunk    == Says(drop_chunk(dst)) /\ UNCHANGED verbatim
Cuts          == Says(boundary(dst, Heard))
                   /\ verbatim' = (verbatim /\ dst.emit # "passthrough")

(***************************************************************************)
(* One stage's run.                                                        *)
(***************************************************************************)
Begins ==
  /\ stage # 0 /\ call = "none"
  /\ Writes(Fresh)
  /\ unit' = 1 /\ copied' = FALSE /\ verbatim' = TRUE
  /\ call' = IF src.out = <<>> THEN "eof" ELSE "bytes"
  /\ UNCHANGED <<driving, emitted, failed, words>>

(* Only a stage that declared framing has its last unit closed.            *)
ClosedIfFramed(e) == IF Framed(e) THEN close(e) ELSE e

(* on_bytes of an unframed chunk returns, and on_eof and on_tick do.       *)
ReturnsUnframed ==
  /\ Calling /\ (call # "tick" => ~Framed(src))
  /\ IF call = "bytes" /\ eof
     THEN call' = "eof" /\ UNCHANGED bufs
     ELSE call' = "done" /\ Writes(ClosedIfFramed(dst))
  /\ verbatim' = (verbatim /\ (src.out = <<>> \/ dst.emit = "passthrough"))
  /\ UNCHANGED <<driving, unit, copied, emitted, failed, words>>

(* Mutant: a framed call is always taken for a rewritten one.              *)
AnswersBuffered(e, rewrote) == [e EXCEPT !.emit = "buffered"]

(* What run leaves on the emission of a framed call.                       *)
Answer(e, rewrote) == [e EXCEPT !.emit = IF rewrote THEN "buffered" ELSE "passthrough"]

(* The unit passed through; made real, it follows those before it.         *)
UnitClosed(e) == close([e EXCEPT !.out = Copied(e, Heard)])
UnitWritten ==
  UnitClosed(IF copied THEN dst ELSE materialise(src, unit - 1, dst))

(* on_bytes of one unit returns.                                           *)
ReturnsUnit ==
  LET free == ~copied /\ dst.emit = "passthrough"
      e    == IF free THEN dst ELSE UnitWritten
      last == unit = Len(src.bounds)
  IN  /\ call = "bytes" /\ Framed(src)
      /\ copied' = ~free
      /\ unit' = IF last THEN unit ELSE unit + 1
      /\ call' = IF ~last THEN "bytes" ELSE IF eof THEN "eof" ELSE "done"
      /\ Writes(IF last /\ ~eof THEN Answer(e, ~free) ELSE next_unit(e))
      /\ verbatim' = (verbatim /\ dst.emit = "passthrough")
      /\ UNCHANGED <<driving, emitted, failed, words>>

(* on_eof behind framed units returns: an epilogue forces the copy that    *)
(* they avoided.                                                           *)
ReturnsEpilogue ==
  LET rewrote == copied \/ dst.out # <<>>
      e == IF copied \/ ~rewrote THEN dst ELSE materialise(src, Len(src.bounds), dst)
  IN  /\ call = "eof" /\ Framed(src)
      /\ call' = "done" /\ copied' = rewrote
      /\ Writes(Answer(IF rewrote THEN close(e) ELSE e, rewrote))
      /\ UNCHANGED <<driving, unit, emitted, failed, history>>

Fails ==
  /\ Calling
  /\ failed' = TRUE /\ stage' = 0 /\ call' = "none"
  /\ UNCHANGED <<eof, input, live, bufs, unit, copied, emitted, history>>

(***************************************************************************)
(* drive, once a stage has run.                                            *)
(***************************************************************************)
MovesOn ==
  LET to   == IF dst.emit = "passthrough" THEN live ELSE Far
      left == IF to = Far THEN dst ELSE src
  IN  /\ call = "done" /\ call' = "none"
      /\ IF stage < N /\ (eof \/ left.out # <<>>)
         THEN /\ stage' = stage + 1 /\ live' = to
              /\ UNCHANGED <<input, emitted>>
         ELSE /\ stage' = 0 /\ live' = "input" /\ input' = <<>>
              /\ emitted' = left
      /\ UNCHANGED <<eof, bufs, unit, copied, failed, history>>

Next ==
  \/ Process \/ Finish \/ Tick
  \/ PassesThrough \/ Forwards \/ DropsChunk \/ Cuts
  \/ Begins \/ ReturnsUnframed \/ ReturnsUnit \/ ReturnsEpilogue \/ Fails
  \/ MovesOn

Spec == Init /\ [][Next]_vars
-----------------------------------------------------------------------------
(***************************************************************************)
(* Properties.                                                             *)
(***************************************************************************)
Emissions == {src, dst, emitted}

(* Types, and bounds that ascend within the bytes they frame.              *)
TypeOK ==
  /\ stage \in 0..N /\ call \in {"none", "bytes", "eof", "tick", "done"}
  /\ {eof, copied, failed, verbatim} \subseteq BOOLEAN
  /\ live \in {"input", "a", "b"} /\ unit \in Nat \ {0} /\ words \in 0..Words
  /\ \A e \in Emissions :
       /\ e.emit \in {"pending", "passthrough", "buffered"}
       /\ \A i \in DOMAIN e.out : e.out[i] \in 1..Words
       /\ Ascending(e)

(* Wherever bytes are handed on, to a stage or out of the segment, the     *)
(* last bound is where the bytes end: with bounds that ascend, "every byte *)
(* belongs to exactly one unit and none can be dropped by a sink that      *)
(* iterates units" (pipeline.rs, Emitted).                                 *)
WellFramed ==
  \A e \in {src, emitted} :
    Framed(e) => LastEnd(e) = Len(e.out)

(* Emissions of their types, and whole.                                    *)
WellFormed == TypeOK /\ WellFramed

(* "Passing through is still free under a framing stage": a stage that     *)
(* handed back every unit of what it was given has copied nothing, however *)
(* the units came to it, and the stage below reads the same buffer.        *)
ObserversAreFree ==
  call = "done" /\ src.out # <<>> /\ verbatim =>
    dst.emit = "passthrough" /\ dst.out = <<>>

(* In units, what the offsets and copies amount to.                        *)
Said == IF Calling THEN dst.emit ELSE "pending"

ToHear ==
  CASE stage # 0 /\ call = "none"    -> EmittedUnits(src)
    [] call = "bytes"                -> SubSeq(EmittedUnits(src), unit, Len(EmittedUnits(src)))
    [] call = "eof" /\ ~Framed(src)  -> EmittedUnits(src)
    [] OTHER                         -> <<>>

HandedBack ==
  IF ~Framed(src) \/ copied THEN <<>>
  ELSE SubSeq(units(src), 1, IF call = "bytes" THEN unit - 1 ELSE Len(units(src)))

Out ==
  CASE Calling       -> HandedBack \o units(dst)
    [] call = "done" -> EmittedUnits(IF dst.emit = "passthrough" THEN src ELSE dst)
    [] OTHER         -> <<>>

Open == IF Calling THEN SubSeq(dst.out, LastEnd(dst) + 1, Len(dst.out)) ELSE <<>>

InUnits == INSTANCE Units WITH
  Bytes <- 1..Words, todo <- ToHear, out <- Out, open <- Open, said <- Said,
  delivered <- EmittedUnits(emitted)

(* The buffers, offsets and copies keep the promise of Units.              *)
Implements == InUnits!Spec
=============================================================================

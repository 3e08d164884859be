------------------------------ MODULE Segments ------------------------------
(***************************************************************************)
(* One direction of a relay whose chain is N inline segments:              *)
(* crates/tocat-core/src/pump.rs, functions run_segment, run_segmented,    *)
(* run_pipeline, and the types Source, Dest, Outlet and Inlet.             *)
(*                                                                         *)
(* The head segment (1) runs on the caller's task and reads the endpoint;  *)
(* segments 2..N are spawned tasks, each reading the bounded link of the   *)
(* one above.  The last one writes the endpoint on the other side.  Every  *)
(* await of the code is a point where the other tasks may run, so one      *)
(* action is what a task does between two awaits.                          *)
(*                                                                         *)
(* A chunk is its number in the order the endpoint delivered it.  Stages   *)
(* are arbitrary as far as order and loss go: a call hands on any prefix   *)
(* of what the segment holds, keeps at most Hold units, may ask to halt    *)
(* and may fail.                                                           *)
(***************************************************************************)
EXTENDS Naturals, Sequences

CONSTANTS
  N,           (* segments of the chain                                    *)
  LINK_DEPTH,  (* parcels in flight per link                               *)
  Hold,        (* units the stages of one segment may keep between calls   *)
  MaxChunks    (* bound: chunks the peer ever sends                        *)

ASSUME SegmentsAssumption ==
  /\ N \in Nat \ {0}
  /\ LINK_DEPTH \in Nat \ {0}
  /\ Hold \in Nat
  /\ MaxChunks \in Nat

VARIABLES
  avail,    (* chunks waiting in the reading endpoint                      *)
  peer,     (* "open", "closed" (end of stream) or "reset" (read error)    *)
  signal,   (* the shutdown watch has been triggered                       *)
  atSignal, (* history: got[1] when the signal came                        *)
  pc,       (* where each segment's task stands                            *)
  held,     (* what the stages of a segment keep                           *)
  out,      (* the emission a segment is sending                           *)
  got,      (* chunks a segment has been handed (run_pipeline's total)     *)
  sent,     (* history: units a segment has put on its output              *)
  halted,   (* a stage of the segment asked to stop reading                *)
  link,     (* link[i] joins segment i to segment i + 1                    *)
  sink,     (* what the writing endpoint has been given                    *)
  broken,   (* the writing endpoint fails every further operation          *)
  joined,   (* run_segmented has joined the segments above this index      *)
  result    (* of pump: "running", "ok", "err", or "dropped" by the caller *)

env  == <<avail, peer, signal, atSignal>>
task == <<pc, held, out, got, sent, halted>>
rest == <<link, sink, broken, joined, result>>
vars == <<env, task, rest>>

Seg   == 1..N
Links == 1..(N - 1)
PC    == {"read", "parked", "send", "finish", "drain", "done", "failed"}

Ended(i) == pc[i] \in {"done", "failed"}

(* The state run_pipeline returns to at the top of its loop.  Only the     *)
(* head looks at the signal before it reads.                               *)
LoopTop(i) == IF i = 1 THEN "read" ELSE "parked"

Init ==
  /\ avail = 0 /\ peer = "open" /\ signal = FALSE /\ atSignal = 0
  /\ pc = [i \in Seg |-> LoopTop(i)]
  /\ held = [i \in Seg |-> <<>>]
  /\ out = [i \in Seg |-> <<>>]
  /\ got = [i \in Seg |-> 0]
  /\ sent = [i \in Seg |-> 0]
  /\ halted = [i \in Seg |-> FALSE]
  /\ link = [i \in Links |-> <<>>]
  /\ sink = <<>>
  /\ broken = FALSE
  /\ joined = N
  /\ result = "running"

-----------------------------------------------------------------------------
(* The world around the pump.                                              *)

PeerSend ==
  /\ peer = "open"
  /\ got[1] + avail < MaxChunks
  /\ avail' = avail + 1
  /\ UNCHANGED <<peer, signal, atSignal, task, rest>>

PeerClose ==
  /\ peer = "open"
  /\ peer' = "closed"
  /\ UNCHANGED <<avail, signal, atSignal, task, rest>>

(* A reset discards what the endpoint had not handed over yet.             *)
PeerReset ==
  /\ peer = "open"
  /\ peer' = "reset"
  /\ avail' = 0
  /\ UNCHANGED <<signal, atSignal, task, rest>>

(* Trigger::drain.                                                         *)
Drain ==
  /\ ~signal
  /\ signal' = TRUE
  /\ atSignal' = got[1]
  /\ UNCHANGED <<avail, peer, task, rest>>

SinkBreaks ==
  /\ ~broken
  /\ broken' = TRUE
  /\ UNCHANGED <<env, task, link, sink, joined, result>>

(* The caller drops the future: try_join! does when the other direction    *)
(* fails.  The head goes with it, the spawned tasks do not.                *)
Dropped ==
  /\ result = "running"
  /\ result' = "dropped"
  /\ pc' = [pc EXCEPT ![1] = IF Ended(1) THEN @ ELSE "failed"]
  /\ UNCHANGED <<env, held, out, got, sent, halted, link, sink, broken, joined>>

-----------------------------------------------------------------------------
(* Reading: Source::next.                                                  *)

Goto(i, to) == pc' = [pc EXCEPT ![i] = to]

(* Mutant: no look at the signal before the select!.                       *)
HeadNeverLooks ==
  /\ pc[1] = "read"
  /\ Goto(1, "parked")
  /\ UNCHANGED <<env, held, out, got, sent, halted, rest>>

(* read_or_stop before its select!: a signal already up ends the read,     *)
(* whatever is waiting.                                                    *)
HeadLooks ==
  /\ pc[1] = "read"
  /\ Goto(1, IF signal THEN "finish" ELSE "parked")
  /\ UNCHANGED <<env, held, out, got, sent, halted, rest>>

(* The stages of segment i hand on the first k units of what it has, keep  *)
(* the rest, and a halt one of them asks for is remembered by Effects.     *)
HandsOn(i, have, k, halt) ==
  /\ out' = [out EXCEPT ![i] = SubSeq(have, 1, k)]
  /\ held' = [held EXCEPT ![i] = SubSeq(have, k + 1, Len(have))]
  /\ halted' = [halted EXCEPT ![i] = halt]
  /\ Goto(i, "send")
  /\ UNCHANGED sent

(* Pipeline::process on chunk c.                                           *)
Process(i, c) ==
  /\ got' = [got EXCEPT ![i] = @ + 1]
  /\ \E k \in 0..(Len(held[i]) + 1), halt \in BOOLEAN :
       /\ Len(held[i]) + 1 - k <= Hold
       /\ HandsOn(i, Append(held[i], c), k, halt)

(* A stage returns an error: `?` leaves run_pipeline, so nothing held is   *)
(* emitted and both ends of the segment are dropped.                       *)
StageFails(i) ==
  /\ got' = [got EXCEPT ![i] = @ + 1]
  /\ Goto(i, "failed")
  /\ UNCHANGED <<held, out, sent, halted>>

(* The select! is biased: a chunk that is ready beats the signal.          *)
HeadTakes ==
  /\ pc[1] = "parked"
  /\ avail > 0
  /\ avail' = avail - 1
  /\ Process(1, got[1] + 1) \/ StageFails(1)
  /\ UNCHANGED <<peer, signal, atSignal, rest>>

(* Mutant: a parked read does not race the signal.                         *)
HeadEndsOnlyAtEof ==
  /\ pc[1] = "parked" /\ avail = 0 /\ peer = "closed"
  /\ Goto(1, "finish")
  /\ UNCHANGED <<env, held, out, got, sent, halted, rest>>

(* The select! is left without a chunk: end of stream, or the signal.      *)
HeadEnds ==
  /\ pc[1] = "parked"
  /\ avail = 0
  /\ peer = "closed" \/ (peer = "open" /\ signal)
  /\ Goto(1, "finish")
  /\ UNCHANGED <<env, held, out, got, sent, halted, rest>>

HeadReadFails ==
  /\ pc[1] = "parked"
  /\ peer = "reset"
  /\ Goto(1, "failed")
  /\ UNCHANGED <<env, held, out, got, sent, halted, rest>>

(* Inlet::recv with a parcel in the channel.                               *)
InletTakes(i) ==
  /\ i > 1
  /\ pc[i] = "parked"
  /\ link[i - 1] # <<>>
  /\ link' = [link EXCEPT ![i - 1] = Tail(@)]
  /\ Process(i, Head(link[i - 1])) \/ StageFails(i)
  /\ UNCHANGED <<env, sink, broken, joined, result>>

(* Mutant: a closed link ends the segment with parcels still in it.        *)
InletEndsEarly(i) ==
  /\ i > 1 /\ pc[i] = "parked" /\ Ended(i - 1)
  /\ Goto(i, "finish")
  /\ UNCHANGED <<env, held, out, got, sent, halted, rest>>

(* Inlet::recv on a channel that is empty and whose sender is gone.        *)
InletEnds(i) ==
  /\ i > 1
  /\ pc[i] = "parked"
  /\ link[i - 1] = <<>>
  /\ Ended(i - 1)
  /\ Goto(i, "finish")
  /\ UNCHANGED <<env, held, out, got, sent, halted, rest>>

InputReady(i) ==
  IF i = 1 THEN avail > 0 \/ peer # "open" ELSE link[i - 1] # <<>> \/ Ended(i - 1)

(* drive_ticks: the input has nothing, a schedule came due, and the stages *)
(* release a prefix of what they hold, or ask to halt.                     *)
Tick(i) ==
  /\ pc[i] = "parked"
  /\ ~InputReady(i)
  /\ \E k \in 0..Len(held[i]), halt \in BOOLEAN :
       /\ k > 0 \/ halt
       /\ HandsOn(i, held[i], k, halt)
  /\ UNCHANGED <<env, got, rest>>

-----------------------------------------------------------------------------
(* Writing: Dest::send, from the loop ("send") or after finish ("drain").  *)

Sending(i) == pc[i] \in {"send", "drain"} /\ out[i] # <<>>

(* Mutant: a full channel makes room by losing its oldest parcel.          *)
OutletDropsOldest(i) ==
  /\ i < N /\ Sending(i) /\ ~Ended(i + 1)
  /\ link' = [link EXCEPT ![i] = Append(IF Len(@) < LINK_DEPTH THEN @ ELSE Tail(@), Head(out[i]))]
  /\ out' = [out EXCEPT ![i] = Tail(@)]
  /\ sent' = [sent EXCEPT ![i] = @ + 1]
  /\ UNCHANGED <<env, pc, held, got, halted, sink, broken, joined, result>>

(* Outlet::send of one unit, once the channel has room for it.             *)
OutletSends(i) ==
  /\ i < N
  /\ Sending(i)
  /\ ~Ended(i + 1)
  /\ Len(link[i]) < LINK_DEPTH
  /\ link' = [link EXCEPT ![i] = Append(@, Head(out[i]))]
  /\ out' = [out EXCEPT ![i] = Tail(@)]
  /\ sent' = [sent EXCEPT ![i] = @ + 1]
  /\ UNCHANGED <<env, pc, held, got, halted, sink, broken, joined, result>>

(* Outlet::send with the receiver gone: nobody left to send to, which the  *)
(* loop takes as end of stream.  The rest of the emission is dropped.      *)
OutletRefused(i) ==
  /\ i < N
  /\ Sending(i)
  /\ Ended(i + 1)
  /\ out' = [out EXCEPT ![i] = <<>>]
  /\ Goto(i, IF pc[i] = "send" THEN "finish" ELSE "drain")
  /\ UNCHANGED <<env, held, got, sent, halted, rest>>

(* write_all of the whole emission.                                        *)
TailWrites(i) ==
  /\ i = N
  /\ Sending(i)
  /\ ~broken
  /\ sink' = sink \o out[i]
  /\ sent' = [sent EXCEPT ![i] = @ + Len(out[i])]
  /\ out' = [out EXCEPT ![i] = <<>>]
  /\ UNCHANGED <<env, pc, held, got, halted, link, broken, joined, result>>

(* write_all fails, after any proper prefix of the emission was written.   *)
TailWriteFails(i) ==
  /\ i = N
  /\ Sending(i)
  /\ broken
  /\ \E k \in 0..(Len(out[i]) - 1) :
       /\ sink' = sink \o SubSeq(out[i], 1, k)
       /\ sent' = [sent EXCEPT ![i] = @ + k]
  /\ Goto(i, "failed")
  /\ UNCHANGED <<env, held, out, got, halted, link, broken, joined, result>>

(* channels.apply fails: joined to the send in the loop, after it once the *)
(* input has ended.  `?` leaves run_pipeline either way.                   *)
ApplyFails(i) ==
  /\ pc[i] = "send" \/ (pc[i] = "drain" /\ out[i] = <<>>)
  /\ Goto(i, "failed")
  /\ UNCHANGED <<env, held, out, got, sent, halted, rest>>

(* flow: after the write, never before it.                                 *)
Flow(i) ==
  /\ pc[i] = "send"
  /\ out[i] = <<>>
  /\ Goto(i, IF halted[i] THEN "finish" ELSE LoopTop(i))
  /\ UNCHANGED <<env, held, out, got, sent, halted, rest>>

(* Mutant: the stages are dropped without their on_eof.                    *)
FinishDropsHeld(i) ==
  /\ pc[i] = "finish"
  /\ held' = [held EXCEPT ![i] = <<>>]
  /\ Goto(i, "drain")
  /\ UNCHANGED <<env, out, got, sent, halted, rest>>

(* Pipeline::finish: on_eof cascades and everything held comes out.        *)
Finish(i) ==
  /\ pc[i] = "finish"
  /\ out' = [out EXCEPT ![i] = held[i]]
  /\ held' = [held EXCEPT ![i] = <<>>]
  /\ Goto(i, "drain")
  /\ UNCHANGED <<env, got, sent, halted, rest>>

FinishFails(i) ==
  /\ pc[i] = "finish"
  /\ Goto(i, "failed")
  /\ UNCHANGED <<env, held, out, got, sent, halted, rest>>

(* Dest::finish: close the outlet, or flush and shut the writer down, and  *)
(* return.  A flush that fails is an error, a shutdown that fails is not.  *)
DestFinish(i) ==
  /\ pc[i] = "drain"
  /\ out[i] = <<>>
  /\ Goto(i, IF i = N /\ broken THEN "failed" ELSE "done")
  /\ UNCHANGED <<env, held, out, got, sent, halted, rest>>

-----------------------------------------------------------------------------
(* run_segmented after the head: an error of the head returns at once, and *)
(* otherwise the spawned tasks are joined, the tail first.                 *)

HeadError ==
  /\ result = "running"
  /\ pc[1] = "failed"
  /\ result' = "err"
  /\ UNCHANGED <<env, task, link, sink, broken, joined>>

(* Mutant: the outcome of a joined task is ignored.                        *)
JoinIgnoresErrors ==
  /\ result = "running" /\ pc[1] = "done" /\ joined > 1 /\ Ended(joined)
  /\ joined' = joined - 1
  /\ UNCHANGED <<env, task, link, sink, broken, result>>

(* handle.await of the next task, `??` on its outcome.                     *)
Join ==
  /\ result = "running"
  /\ pc[1] = "done"
  /\ joined > 1
  /\ Ended(joined)
  /\ IF pc[joined] = "failed"
       THEN result' = "err" /\ UNCHANGED joined
       ELSE joined' = joined - 1 /\ UNCHANGED result
  /\ UNCHANGED <<env, task, link, sink, broken>>

Return ==
  /\ result = "running"
  /\ pc[1] = "done"
  /\ joined = 1
  /\ result' = "ok"
  /\ UNCHANGED <<env, task, link, sink, broken, joined>>

-----------------------------------------------------------------------------
(* One task, between two awaits.                                           *)
SegStep(i) ==
  \/ i = 1 /\ (HeadLooks \/ HeadTakes \/ HeadEnds \/ HeadReadFails)
  \/ InletTakes(i) \/ InletEnds(i)
  \/ OutletSends(i) \/ OutletRefused(i)
  \/ TailWrites(i) \/ TailWriteFails(i)
  \/ Flow(i) \/ Finish(i) \/ DestFinish(i)

SegFault(i) == ApplyFails(i) \/ FinishFails(i)

Acts(i) == SegStep(i) \/ SegFault(i) \/ Tick(i)

Caller == HeadError \/ Join \/ Return

Next ==
  \/ PeerSend \/ PeerClose \/ PeerReset \/ Drain \/ SinkBreaks \/ Dropped
  \/ \E i \in Seg : Acts(i)
  \/ Caller

Spec == Init /\ [][Next]_vars

(* Tokio polls a woken task again, and the writing endpoint accepts bytes  *)
(* or fails: weak fairness of every task and of the caller.  Nothing is    *)
(* assumed of the peer, of the signal, of ticks or of faults.              *)
FairSpec == Spec /\ (\A i \in Seg : WF_vars(SegStep(i))) /\ WF_vars(Caller)

-----------------------------------------------------------------------------
EnvType ==
  /\ avail \in Nat /\ peer \in {"open", "closed", "reset"}
  /\ signal \in BOOLEAN /\ atSignal \in Nat

TaskType ==
  /\ pc \in [Seg -> PC]
  /\ held \in [Seg -> Seq(Nat)] /\ out \in [Seg -> Seq(Nat)]
  /\ got \in [Seg -> Nat] /\ sent \in [Seg -> Nat]
  /\ halted \in [Seg -> BOOLEAN]

RestType ==
  /\ link \in [Links -> Seq(Nat)]
  /\ sink \in Seq(Nat) /\ broken \in BOOLEAN
  /\ joined \in Seg /\ result \in {"running", "ok", "err", "dropped"}

TypeOK == EnvType /\ TaskType /\ RestType

(* The peer on the far side sees the chunks in the order they were read,   *)
(* with none missing and none twice, whatever the tasks, the signal, the   *)
(* halts and the failures do (pump.rs, "Shutdown": parcels in flight are   *)
(* drained, never thrown away).                                            *)
DeliveredInOrder == \A k \in 1..Len(sink) : sink[k] = k

(* A pump that returns success has delivered everything that the last      *)
(* segment to stop on purpose, or the head if none did, was ever handed:   *)
(* what stages held came out at end of stream, links were emptied, and no  *)
(* spawned task was left behind.                                           *)
NothingOwedIsLost ==
  result = "ok" =>
    \A i \in Seg : (\A j \in (i + 1)..N : ~halted[j]) => Len(sink) = got[i]

(* Once the signal is up the head reads at most the one chunk its parked   *)
(* read was already racing for (read_or_stop's check up front).            *)
AtMostOneAfterSignal == signal => got[1] <= atSignal + 1

(* The inductive invariant behind the two.  Where a segment still has a    *)
(* reader, what it sent, is sending and holds is what it was handed, in    *)
(* order; a link carries what lies between its two ends; and a segment     *)
(* that is ending was either cut short on purpose, or by a failure, or has *)
(* been handed all that the ones above it were.                            *)
Run(s, b) == \A k \in 1..Len(s) : s[k] = b + k

Ending(i) == pc[i] \in {"finish", "drain", "done"}
Intact(i) == pc[i] # "failed" /\ (i < N => ~Ended(i + 1))
Broke(i)  == \E k \in i..N : pc[k] = "failed" \/ (k > i /\ halted[k])

IdleAt(i) ==
  /\ pc[i] \in {"read", "parked", "finish", "done"} => out[i] = <<>>
  /\ pc[i] \in {"drain", "done"} => held[i] = <<>>
  /\ halted[i] => pc[i] \notin {"read", "parked"}

SegAt(i) == Intact(i) =>
  /\ Run(out[i], sent[i])
  /\ Run(held[i], sent[i] + Len(out[i]))
  /\ sent[i] + Len(out[i]) + Len(held[i]) = got[i]

LinkAt(i) == ~Ended(i + 1) =>
  /\ Run(link[i], got[i + 1])
  /\ got[i + 1] + Len(link[i]) = sent[i]

IdleInv == \A i \in Seg : IdleAt(i)
SegInv  == \A i \in Seg : SegAt(i)
LinkInv == \A i \in Links : LinkAt(i)

SinkInv == Run(sink, 0) /\ Len(sink) = sent[N]

EndInv == \A j \in Seg : \A i \in 1..j :
  Ending(j) => Broke(i) \/ (got[j] = got[i] /\ (i < j => pc[i] = "done"))

(* Nothing comes out of a segment that was not handed to the ones above.   *)
GotInv ==
  /\ \A i \in Seg : sent[i] <= got[i]
  /\ \A j \in Seg : \A i \in 1..j : got[j] <= got[i]

JoinInv ==
  /\ \A k \in Seg : k > joined => pc[k] = "done"
  /\ result = "ok" => joined = 1 /\ pc[1] = "done"
  /\ ~Ended(1) => result = "running"

SignalInv ==
  signal => \/ got[1] = atSignal
            \/ got[1] = atSignal + 1 /\ pc[1] # "parked"

IInv ==
  /\ TypeOK /\ IdleInv /\ SegInv /\ LinkInv /\ SinkInv
  /\ EndInv /\ GotInv /\ JoinInv /\ SignalInv

(* The direction keeps the promise of Direction: what pump tells its       *)
(* caller is true of the two endpoints.                                    *)
Promise == INSTANCE Direction WITH
  taken   <- got[1],
  given   <- sink,
  cut     <- (\E i \in 2..N : halted[i]),
  reads   <- IF ~signal THEN "many" ELSE IF got[1] = atSignal THEN "one" ELSE "none",
  outcome <- result

KeepsPromise == Promise!Spec

(* An end comes through to every task: the signal ends the whole direction *)
(* and the pump returns; a head that is gone, by an error or by being      *)
(* dropped, takes the spawned tasks with it; and a halt in one segment ends*)
(* those from there down.                                                  *)
EndsComeThrough ==
  /\ signal ~> (result # "running" /\ \A i \in Seg : Ended(i))
  /\ Ended(1) ~> (\A i \in Seg : Ended(i))
  /\ \A i \in Seg : halted[i] ~> (\A j \in i..N : Ended(j))
=============================================================================

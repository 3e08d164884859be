---------------------------- MODULE ProcessStage ----------------------------
(***************************************************************************)
(* A process segment: run_process of crates/tocat-core/src/pump.rs, which  *)
(* feeds a subprocess and drains it concurrently on one task, between an   *)
(* upstream (the endpoint, or the link of the segment above) and a         *)
(* downstream (the endpoint, or the link to the segment below).            *)
(*                                                                         *)
(* Bytes are counted, not carried: what matters is where they can be stuck.*)
(* The child is any filter: it may hold back what it read until its stdin  *)
(* closes, and may exit whenever it likes.                                 *)
(***************************************************************************)
EXTENDS Naturals

CONSTANTS
  Pipe,   (* units a kernel pipe to or from the child holds                *)
  Keep,   (* units the child holds back                                    *)
  Depth   (* parcels in the link below, LINK_DEPTH in pump.rs              *)

ASSUME ProcessAssumption == Pipe \in Nat \ {0} /\ Keep \in Nat \ {0} /\ Depth \in Nat \ {0}

VARIABLES
  upstream,   (* "stream" or "link"                                        *)
  downstream, (* "stream" or "link"                                        *)
  source,     (* "idle", "ready" (a chunk waits), "closed" or "reset"      *)
  signal,     (* the shutdown watch has been triggered                     *)
  feed,       (* the feeding half                                          *)
  stdin,      (* units in the pipe to the child                            *)
  child,      (* "running", or its exit: "good" or "bad"                   *)
  early,      (* it exited before its stdin closed, or holding units       *)
  kept,       (* units it read and has not written                         *)
  stdout,     (* units in the pipe from the child                          *)
  drain,      (* the draining half                                         *)
  below,      (* of a link: units in it, and whether its reader is there   *)
  reader,
  broken,     (* of a stream: the writer fails from now on                 *)
  refused,    (* outlet.send has returned false                            *)
  result      (* of run_process: "running", "ok" or "err"                  *)

ends   == <<upstream, downstream>>
world  == <<source, signal, reader, broken>>
proc   == <<child, early, kept>>
pipes  == <<stdin, stdout>>
vars   == <<ends, world, feed, drain, proc, pipes, below, refused, result>>

FeedStart == IF upstream = "stream" THEN "look" ELSE "parked"

Init ==
  /\ upstream \in {"stream", "link"} /\ downstream \in {"stream", "link"}
  /\ source = "idle" /\ signal = FALSE
  /\ feed = FeedStart /\ stdin = 0
  /\ child = "running" /\ early = FALSE /\ kept = 0
  /\ stdout = 0 /\ drain = "read"
  /\ below = 0 /\ reader = TRUE /\ broken = FALSE /\ refused = FALSE
  /\ result = "running"

Running == result = "running"

-----------------------------------------------------------------------------
(* The world: the source, the signal, the far end.                         *)

SourceSends ==
  /\ source = "idle" /\ source' = "ready"
  /\ UNCHANGED <<ends, signal, reader, broken, feed, drain, proc, pipes, below, refused, result>>

(* A link has no read error: it only closes.                               *)
SourceEnds ==
  /\ source = "idle"
  /\ source' \in {"closed"} \cup {"reset" : u \in {upstream} \cap {"stream"}}
  /\ UNCHANGED <<ends, signal, reader, broken, feed, drain, proc, pipes, below, refused, result>>

Drain ==
  /\ ~signal /\ signal' = TRUE
  /\ UNCHANGED <<ends, source, reader, broken, feed, drain, proc, pipes, below, refused, result>>

BelowTakes ==
  /\ reader /\ below > 0 /\ below' = below - 1
  /\ UNCHANGED <<ends, world, feed, drain, proc, pipes, refused, result>>

(* The segment below stops on purpose: a limit stage reached its cap.      *)
BelowLeaves ==
  /\ downstream = "link" /\ reader /\ reader' = FALSE
  /\ UNCHANGED <<ends, source, signal, broken, feed, drain, proc, pipes, below, refused, result>>

WriterBreaks ==
  /\ downstream = "stream" /\ ~broken /\ broken' = TRUE
  /\ UNCHANGED <<ends, source, signal, reader, feed, drain, proc, pipes, below, refused, result>>

-----------------------------------------------------------------------------
(* The child, external: child::spawn pipes both its ends.                  *)

Eof == feed = "done" /\ stdin = 0

ChildReads ==
  /\ child = "running" /\ stdin > 0 /\ kept < Keep
  /\ stdin' = stdin - 1 /\ kept' = kept + 1
  /\ UNCHANGED <<ends, world, feed, drain, child, early, stdout, below, refused, result>>

ChildWrites ==
  /\ child = "running" /\ kept > 0 /\ stdout < Pipe
  /\ kept' = kept - 1 /\ stdout' = stdout + 1
  /\ UNCHANGED <<ends, world, feed, drain, child, early, stdin, below, refused, result>>

(* It exits: with what it held written out at its end of stream, or early. *)
ChildExits ==
  /\ child = "running"
  /\ child' \in {"good", "bad"}
  /\ early' = ~(Eof /\ kept = 0)
  /\ UNCHANGED <<ends, world, feed, drain, kept, pipes, below, refused, result>>

(* A filter that reads its stdin to the end and then finishes.             *)
ChildFilters ==
  \/ ChildReads
  \/ (kept = Keep \/ Eof) /\ ChildWrites
  \/ Eof /\ kept = 0 /\ ChildExits

-----------------------------------------------------------------------------
(* feed: source to stdin.                                                  *)

FeedGoto(to) ==
  /\ Running
  /\ feed' = to
  /\ UNCHANGED <<ends, signal, reader, broken, drain, proc, stdout, below, refused, result>>

(* read_or_stop's check up front, only on the endpoint's own read.         *)
FeedLooks ==
  /\ feed = "look"
  /\ FeedGoto(IF signal THEN "flush" ELSE "parked")
  /\ UNCHANGED <<source, stdin>>

FeedTakes ==
  /\ feed = "parked" /\ source = "ready"
  /\ FeedGoto("write")
  /\ source' = "idle" /\ UNCHANGED stdin

(* End of stream, or the signal beating a parked read of the endpoint.     *)
FeedEnds ==
  /\ feed = "parked"
  /\ source = "closed" \/ (source = "idle" /\ signal /\ upstream = "stream")
  /\ FeedGoto("flush")
  /\ UNCHANGED <<source, stdin>>

FeedReadFails ==
  /\ feed = "parked" /\ source = "reset"
  /\ FeedGoto("failed")
  /\ UNCHANGED <<source, stdin>>

FeedWrites ==
  /\ feed = "write" /\ child = "running" /\ stdin < Pipe
  /\ FeedGoto(FeedStart)
  /\ stdin' = stdin + 1 /\ UNCHANGED source

(* A child that exited has closed its stdin: EPIPE fails the write.        *)
FeedWriteFails ==
  /\ feed = "write" /\ child # "running"
  /\ FeedGoto("failed")
  /\ UNCHANGED <<source, stdin>>

(* Flush and drop(stdin): the child's end of stream.                       *)
FeedCloses ==
  /\ feed = "flush"
  /\ FeedGoto("done")
  /\ UNCHANGED <<source, stdin>>

Feed ==
  \/ FeedLooks \/ FeedTakes \/ FeedEnds \/ FeedReadFails
  \/ FeedWrites \/ FeedWriteFails \/ FeedCloses

-----------------------------------------------------------------------------
(* drain: stdout to the destination.                                       *)

DrainGoto(to) ==
  /\ Running
  /\ drain' = to
  /\ UNCHANGED <<ends, world, feed, proc, stdin, result>>

(* Mutant: the drain starts when the feed is done.                         *)
DrainReadsAfterFeed ==
  /\ drain = "read" /\ stdout > 0 /\ feed = "done"
  /\ DrainGoto("send")
  /\ stdout' = stdout - 1 /\ UNCHANGED <<below, refused>>

DrainReads ==
  /\ drain = "read" /\ stdout > 0
  /\ DrainGoto("send")
  /\ stdout' = stdout - 1 /\ UNCHANGED <<below, refused>>

(* Mutant: the exit of the child ends the drain at once.                   *)
DrainEndsAtExit ==
  /\ drain = "read" /\ child # "running"
  /\ DrainGoto(IF broken THEN "failed" ELSE "done")
  /\ UNCHANGED <<stdout, below, refused>>

(* The stdout of a child that exited is read to its end first.             *)
DrainEnds ==
  /\ drain = "read" /\ stdout = 0 /\ child # "running"
  /\ DrainGoto(IF broken THEN "failed" ELSE "done")
  /\ UNCHANGED <<stdout, below, refused>>

DrainWrites ==
  /\ drain = "send" /\ downstream = "stream"
  /\ DrainGoto(IF broken THEN "failed" ELSE "read")
  /\ UNCHANGED <<stdout, below, refused>>

DrainSends ==
  /\ drain = "send" /\ downstream = "link" /\ reader /\ below < Depth
  /\ DrainGoto("read")
  /\ below' = below + 1 /\ UNCHANGED <<stdout, refused>>

(* outlet.send returns false: the `?` takes only an error, the loop goes on*)
(* reading the child.                                                      *)
DrainRefused ==
  /\ drain = "send" /\ downstream = "link" /\ ~reader
  /\ DrainGoto("read")
  /\ refused' = TRUE /\ UNCHANGED <<stdout, below>>

Drains == DrainReads \/ DrainEnds \/ DrainWrites \/ DrainSends \/ DrainRefused

-----------------------------------------------------------------------------
(* try_join! and the wait for the child.                                   *)

(* The first half to fail ends the segment; the other is dropped with its  *)
(* pipe, and the child is killed with its handle (kill_on_drop).           *)
JoinFails ==
  /\ Running
  /\ feed = "failed" \/ drain = "failed"
  /\ result' = "err"
  /\ child' = IF child = "running" THEN "bad" ELSE child
  /\ UNCHANGED <<ends, world, feed, drain, early, kept, pipes, below, refused>>

(* Both halves done: a bad exit fails the direction.                       *)
Waits ==
  /\ Running
  /\ feed = "done" /\ drain = "done" /\ child # "running"
  /\ result' = IF child = "good" THEN "ok" ELSE "err"
  /\ UNCHANGED <<ends, world, feed, drain, proc, pipes, below, refused>>

Segment == Feed \/ Drains \/ JoinFails \/ Waits

Next ==
  \/ SourceSends \/ SourceEnds \/ Drain \/ BelowTakes \/ BelowLeaves \/ WriterBreaks
  \/ ChildReads \/ ChildWrites \/ ChildExits
  \/ Segment

Spec == Init /\ [][Next]_vars

(* The task is polled while it can move, the child is a filter that goes on*)
(* with its input and finishes at its end, and the segment below goes on   *)
(* reading while it is there.                                              *)
FairSpec ==
  /\ Spec
  /\ WF_vars(Feed) /\ WF_vars(Drains) /\ WF_vars(JoinFails) /\ WF_vars(Waits)
  /\ WF_vars(ChildFilters) /\ WF_vars(BelowTakes)

(* And the source never falls silent for good.                             *)
BusySpec == FairSpec /\ WF_vars(SourceSends)

-----------------------------------------------------------------------------
TypeOK ==
  /\ upstream \in {"stream", "link"} /\ downstream \in {"stream", "link"}
  /\ source \in {"idle", "ready", "closed", "reset"} /\ signal \in BOOLEAN
  /\ feed \in {"look", "parked", "write", "flush", "done", "failed"}
  /\ drain \in {"read", "send", "done", "failed"}
  /\ stdin \in 0..Pipe /\ stdout \in 0..Pipe /\ kept \in 0..Keep
  /\ child \in {"running", "good", "bad"} /\ early \in BOOLEAN
  /\ below \in 0..Depth /\ reader \in BOOLEAN /\ broken \in BOOLEAN
  /\ refused \in BOOLEAN /\ result \in {"running", "ok", "err"}

(* Success means that everything read reached the child, and everything it *)
(* wrote went downstream: no unit is left in a pipe or in the child, and   *)
(* the child reported no failure, unless it chose to stop reading early.   *)
OkMeansComplete ==
  result = "ok" =>
    /\ child = "good"
    /\ stdout = 0
    /\ ~early => stdin = 0 /\ kept = 0

(* A segment whose input has ended, or whose endpoint was signalled, ends: *)
(* feeding and draining at once means that full pipes on both sides of a   *)
(* child that blocks never stop it (run_process, "A loop that wrote a chunk*)
(* and then read the reply would deadlock").                               *)
InputEndsIt ==
  (source = "closed" \/ (signal /\ upstream = "stream")) ~> (result # "running")

(* "A downstream that stopped on purpose is end of stream for this segment *)
(* too" (Outlet::send): once refused, even a busy segment ends.            *)
DownstreamEndIsEnd == refused ~> (result # "running")
=============================================================================

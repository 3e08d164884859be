------------------------------- MODULE Frames -------------------------------
(***************************************************************************)
(* The ws layer (crates/tocat-core/src/endpoint/layer/ws.rs): one end of a *)
(* WebSocket as the two directions of a relay use it, recv in one task and *)
(* send and finish in another, over a connection that holds so many frames *)
(* each way.  tungstenite, which keeps the pong it owes until something is *)
(* flushed, is external, and so is the peer.                               *)
(*                                                                         *)
(* A frame is [kind, n, size]; of messages n counts them.                  *)
(***************************************************************************)
EXTENDS Integers, SequencesExt

CONSTANTS
  Room,      (* frames the connection holds, each way                      *)
  Buffer,    (* size of the copy buffer                                    *)
  MaxFrames  (* bound on the frames each side sends                        *)

VARIABLES
  text,      (* text=true                                                  *)
  asked, serves,  (* paths, of the upgrade and of the layer                *)
  inbox, outbox,  (* frames on their way                                   *)
  sent,      (* the frames the peer sent                                   *)
  gone,      (* whether the peer's side of the connection is over          *)
  lock,      (* who holds writer: "none", "reader", "writer"               *)
  reader,    (* "reading", "waits" for writer, "flushing", "eof", "error"  *)
  ticks,     (* whether a stage that ticks reads from it                   *)
  dropped,   (* whether a tick dropped recv before a pong was flushed      *)
  got,       (* messages recv returned                                     *)
  owed,      (* pongs tungstenite has not flushed                          *)
  writer,    (* "idle", "waits", "sending", "closes", "closed", "error"    *)
  message,   (* what it is sending                                         *)
  taken,     (* messages the pipeline handed to send                       *)
  heard      (* frames the peer read                                       *)

vars == <<text, asked, serves, ticks, inbox, outbox, sent, gone, lock, reader, dropped, got,
          owed, writer, message, taken, heard>>

Frame(kind, n, size) == [kind |-> kind, n |-> n, size |-> size]
Messages == {"binary", "text"}
Kinds    == Messages \cup {"ping", "pong", "close"}

(* The path of the upgrade: the same value on both sides, absolute.        *)
path(p) == IF p = "" THEN "/" ELSE IF p = "x" THEN "/x" ELSE p
upgrades == path(asked) = path(serves)

Init ==
  /\ text \in BOOLEAN /\ asked \in {"", "x", "/x"} /\ serves \in {"", "/", "x", "/x"}
  /\ ticks \in BOOLEAN /\ dropped = FALSE
  /\ inbox = <<>> /\ outbox = <<>> /\ sent = <<>> /\ gone = FALSE /\ lock = "none"
  /\ reader = (IF upgrades THEN "reading" ELSE "refused")
  /\ got = <<>> /\ owed = 0 /\ writer = (IF upgrades THEN "idle" ELSE "refused")
  /\ message = Frame("none", 0, 0) /\ taken = 0 /\ heard = <<>>

(***************************************************************************)
(* The peer.                                                               *)
(***************************************************************************)
PeerSends ==
  /\ upgrades /\ ~gone /\ Len(inbox) < Room /\ Len(sent) < MaxFrames
  /\ \E kind \in Kinds, size \in 0..(Buffer + 1) :
       /\ kind \notin Messages => size = 0
       /\ LET frame == Frame(kind, Len(sent) + 1, size)
          IN  inbox' = Append(inbox, frame) /\ sent' = Append(sent, frame)
       /\ gone' = (kind = "close")
  /\ UNCHANGED <<text, asked, serves, ticks, outbox, lock, reader, dropped, got, owed, writer, message, taken, heard>>

PeerReads ==
  /\ outbox # <<>> /\ heard' = Append(heard, Head(outbox)) /\ outbox' = Tail(outbox)
  /\ UNCHANGED <<text, asked, serves, ticks, inbox, sent, gone, lock, reader, dropped, got, owed, writer, message, taken>>

Breaks ==
  /\ upgrades /\ ~gone /\ gone' = TRUE
  /\ \E k \in 0..Len(inbox) : inbox' = SubSeq(inbox, 1, k)
  /\ UNCHANGED <<text, asked, serves, ticks, outbox, sent, lock, reader, dropped, got, owed, writer, message, taken, heard>>

(***************************************************************************)
(* recv.                                                                   *)
(***************************************************************************)
(* Mutant: a ping is nobody's business.                                    *)
PingsPass(kind) == "reading"

(* Where the loop of recv goes with a frame that is no message.            *)
after(kind) ==
  IF kind = "close" THEN "eof" ELSE IF kind = "ping" THEN "waits" ELSE "reading"

recv ==
  /\ reader = "reading" /\ inbox # <<>>
  /\ inbox' = Tail(inbox)
  /\ LET frame == Head(inbox)
     IN  /\ owed' = owed + IF frame.kind = "ping" THEN 1 ELSE 0
         /\ IF frame.kind \notin Messages THEN reader' = after(frame.kind) /\ UNCHANGED got
            ELSE IF frame.size > Buffer THEN reader' = "error" /\ UNCHANGED got
            ELSE got' = Append(got, frame) /\ UNCHANGED reader
  /\ UNCHANGED <<text, asked, serves, ticks, outbox, sent, gone, lock, dropped, writer, message, taken, heard>>

(* The connection ended with no close: an error, or no frame any more.     *)
RecvEnds ==
  /\ reader = "reading" /\ inbox = <<>> /\ gone
  /\ reader' \in {"eof", "error"}
  /\ UNCHANGED <<text, asked, serves, ticks, inbox, outbox, sent, gone, lock, dropped, got, owed, writer, message, taken, heard>>

ReaderLocks ==
  /\ reader = "waits" /\ lock = "none"
  /\ lock' = "reader" /\ reader' = "flushing"
  /\ UNCHANGED <<text, asked, serves, ticks, inbox, outbox, sent, gone, dropped, got, owed, writer, message, taken, heard>>

(* flush, which a send ends with too: the pongs that are owed, as the      *)
(* connection has room for them.                                           *)
Flushes ==
  /\ owed > 0 /\ lock # "none" /\ Len(outbox) < Room
  /\ outbox' = Append(outbox, Frame("pong", 0, 0)) /\ owed' = owed - 1
  /\ dropped' = (dropped /\ owed' > 0)
  /\ UNCHANGED <<text, asked, serves, ticks, inbox, sent, gone, lock, reader, got, writer, message, taken, heard>>

ReaderUnlocks ==
  /\ reader = "flushing" /\ (owed = 0 \/ gone)
  /\ reader' = "reading" /\ lock' = "none"
  /\ UNCHANGED <<text, asked, serves, ticks, inbox, outbox, sent, gone, dropped, got, owed, writer, message, taken, heard>>

(* run_pipeline drops the read it waits in at every tick, and reads again: *)
(* from the next frame, whatever it was in the middle of.                  *)
ReadDropped ==
  /\ ticks /\ reader \in {"waits", "flushing"}
  /\ reader' = "reading" /\ dropped' = (owed > 0)
  /\ lock' = IF reader = "flushing" THEN "none" ELSE lock
  /\ UNCHANGED <<text, asked, serves, ticks, inbox, outbox, sent, gone, got, owed, writer, message, taken, heard>>

(***************************************************************************)
(* send and finish.                                                        *)
(***************************************************************************)
send ==
  /\ writer = "idle" /\ taken < MaxFrames
  /\ taken' = taken + 1
  /\ \E valid \in BOOLEAN :
       IF text /\ ~valid THEN writer' = "error" /\ UNCHANGED message
       ELSE writer' = "waits" /\ message' = Frame(IF text THEN "text" ELSE "binary", taken + 1, 0)
  /\ UNCHANGED <<text, asked, serves, ticks, inbox, outbox, sent, gone, lock, reader, dropped, got, owed, heard>>

(* finish sends a close, whatever becomes of it.                           *)
finish ==
  /\ writer = "idle"
  /\ writer' = "waits" /\ message' = Frame("close", 0, 0)
  /\ UNCHANGED <<text, asked, serves, ticks, inbox, outbox, sent, gone, lock, reader, dropped, got, owed, taken, heard>>

WriterLocks ==
  /\ writer = "waits" /\ lock = "none"
  /\ lock' = "writer" /\ writer' = "sending"
  /\ UNCHANGED <<text, asked, serves, ticks, inbox, outbox, sent, gone, reader, dropped, got, owed, message, taken, heard>>

(* The lock is held until all of the message is on its way.                *)
WriterSends ==
  /\ writer = "sending" /\ owed = 0 /\ Len(outbox) < Room
  /\ outbox' = Append(outbox, message) /\ lock' = "none"
  /\ writer' = IF message.kind = "close" THEN "closed" ELSE "idle"
  /\ UNCHANGED <<text, asked, serves, ticks, inbox, sent, gone, reader, dropped, got, owed, message, taken, heard>>

WriterFails ==
  /\ writer = "sending" /\ gone
  /\ lock' = "none" /\ writer' = IF message.kind = "close" THEN "closed" ELSE "error"
  /\ UNCHANGED <<text, asked, serves, ticks, inbox, outbox, sent, gone, reader, dropped, got, owed, message, taken, heard>>

Next ==
  \/ PeerSends \/ PeerReads \/ Breaks
  \/ recv \/ RecvEnds \/ ReaderLocks \/ Flushes \/ ReaderUnlocks \/ ReadDropped
  \/ send \/ finish \/ WriterLocks \/ WriterSends \/ WriterFails

Spec == Init /\ [][Next]_vars

-----------------------------------------------------------------------------
(* The frames of s of some kinds, in their order.                          *)
Only(kinds, s) ==
  LET upTo[n \in 0..Len(s)] ==
        IF n = 0 THEN <<>>
        ELSE IF s[n].kind \in kinds THEN Append(upTo[n - 1], s[n]) ELSE upTo[n - 1]
  IN  upTo[Len(s)]

(* "One WebSocket message in is one message out": what recv hands on is a  *)
(* run of the messages the peer sent, whole and in order, though ticks drop*)
(* it where it waits; what the peer hears is what send was handed, with no *)
(* close before it; and no pong is owed once recv reads on, though nothing *)
(* is ever sent (the comment at Frames::reader has it leave with the next  *)
(* write), unless a tick dropped the recv that was to flush it: then it is *)
(* owed until another ping or a write.                                     *)
MessagesAreWhole ==
  /\ IsPrefix(got, Only(Messages, sent))
  /\ \A i \in 1..Len(got) : got[i].size <= Buffer
  /\ LET out == Only(Kinds \ {"pong"}, heard \o outbox)
     IN  \A i \in 1..Len(out) :
           IF out[i].kind = "close" THEN i = Len(out) ELSE out[i].n = i
  /\ reader = "reading" /\ lock = "none" /\ ~gone /\ owed > 0 => ticks /\ dropped
=============================================================================

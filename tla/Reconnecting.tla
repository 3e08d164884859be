---------------------------- MODULE Reconnecting ----------------------------
(***************************************************************************)
(* The stream of reconnect=keep: crates/tocat-core/src/endpoint/           *)
(* reconnecting.rs, over the attempt loop of EndpointSpec::                *)
(* connect_transport (endpoint.rs) with the policy of retry.rs.            *)
(*                                                                         *)
(* Two futures share the stream behind one lock: the reader of one         *)
(* direction and the writer of the other.  Without a detached stage both   *)
(* are polled by the task that runs the relay; with one, the writer is in  *)
(* a task of its own.  A future that returns Pending is polled again only  *)
(* when a waker it left behind is woken: a connection keeps a waker per    *)
(* direction, a dial in progress keeps that of whoever polled it last.     *)
(* A read is one arm of a select (pump.rs): a tick drops it until the      *)
(* segment is done with that tick, the signal or a halt drops it for good, *)
(* and the waker it left stays where it is.                                *)
(***************************************************************************)
EXTENDS Naturals

CONSTANTS
  Attempts,   (* the endpoint's retry policy: connects per dial            *)
  MaxBreaks   (* bound: connections the network loses                      *)

Futures == {"reader", "writer"}

VARIABLES
  oneTask,  (* both futures are polled by the same task                    *)
  state,    (* of Reconnecting: "connected", "dialing" or "finished"       *)
  conn,     (* the connection: "good", "closed" by the peer, or "broken"   *)
  waiting,  (* a chunk waits to be read                                    *)
  room,     (* a write would be accepted                                   *)
  onConn,   (* the futures whose waker the connection holds                *)
  dial,     (* the dial: "trying", "answered", "refused", "resting" or     *)
            (* "rested" between two attempts                               *)
  attempt,  (* counting from one                                           *)
  onDial,   (* the future whose waker the dial holds, or "none"            *)
  fut,      (* "due" for a poll, "parked", "idle" (its direction is busy   *)
            (* elsewhere), "ended", "failed", or "left": reads no more     *)
  breaks    (* connections lost so far                                     *)

stream == <<conn, waiting, room, onConn>>
redial == <<dial, attempt, onDial>>
vars   == <<oneTask, state, stream, redial, fut, breaks>>

Init ==
  /\ oneTask \in BOOLEAN
  /\ state = "connected" /\ conn = "good" /\ waiting = FALSE /\ room = TRUE
  /\ onConn = {} /\ dial = "trying" /\ attempt = 1 /\ onDial = "none"
  /\ fut = [f \in Futures |-> IF f = "reader" THEN "due" ELSE "idle"]
  /\ breaks = 0

(* A waker makes its whole task due, and so every future parked in it.     *)
Wake(S) ==
  LET task == IF oneTask /\ S # {} THEN Futures ELSE S
  IN  fut' = [f \in Futures |-> IF f \in task /\ fut[f] = "parked" THEN "due" ELSE fut[f]]

-----------------------------------------------------------------------------
(* The peer and the network.                                               *)

Arrives ==
  /\ state = "connected" /\ conn = "good" /\ ~waiting
  /\ waiting' = TRUE
  /\ Wake(onConn \cap {"reader"}) /\ onConn' = onConn \ {"reader"}
  /\ UNCHANGED <<oneTask, state, conn, room, redial, breaks>>

PeerCloses ==
  /\ state = "connected" /\ conn = "good"
  /\ conn' = "closed"
  /\ Wake(onConn \cap {"reader"}) /\ onConn' = onConn \ {"reader"}
  /\ UNCHANGED <<oneTask, state, waiting, room, redial, breaks>>

PeerStalls ==
  /\ state = "connected" /\ room /\ room' = FALSE
  /\ UNCHANGED <<oneTask, state, conn, waiting, onConn, redial, fut, breaks>>

PeerReads ==
  /\ state = "connected" /\ ~room /\ room' = TRUE
  /\ Wake(onConn \cap {"writer"}) /\ onConn' = onConn \ {"writer"}
  /\ UNCHANGED <<oneTask, state, conn, waiting, redial, breaks>>

(* A reset: what had arrived is discarded, both directions are woken.      *)
Breaks ==
  /\ state = "connected" /\ conn # "broken" /\ breaks < MaxBreaks
  /\ conn' = "broken" /\ waiting' = FALSE /\ breaks' = breaks + 1
  /\ Wake(onConn) /\ onConn' = {}
  /\ UNCHANGED <<oneTask, state, room, redial>>

DialSettles ==
  /\ state = "dialing" /\ dial = "trying"
  /\ dial' \in {"answered", "refused"}
  /\ Wake({onDial} \cap Futures)
  /\ UNCHANGED <<oneTask, state, stream, attempt, onDial, breaks>>

RestElapses ==
  /\ state = "dialing" /\ dial = "resting"
  /\ dial' = "rested"
  /\ Wake({onDial} \cap Futures)
  /\ UNCHANGED <<oneTask, state, stream, attempt, onDial, breaks>>

(* The other endpoint has a chunk for this one.                            *)
WriterFed ==
  /\ fut["writer"] = "idle"
  /\ fut' = [f \in Futures |-> IF f = "writer" \/ (oneTask /\ fut[f] = "parked")
                                 THEN "due" ELSE fut[f]]
  /\ UNCHANGED <<oneTask, state, stream, redial, breaks>>

(* What the reader took went through its stages, and was written.          *)
ReaderReturns ==
  /\ fut["reader"] = "idle"
  /\ fut' = [f \in Futures |-> IF f = "reader" \/ (oneTask /\ fut[f] = "parked")
                                 THEN "due" ELSE fut[f]]
  /\ UNCHANGED <<oneTask, state, stream, redial, breaks>>

(* The other arm of the select around the read was ready: a tick, which    *)
(* the stages may take any time over, or the signal, after which nothing is*)
(* read.  A halt stops the reader, too.  Wakers of a dropped read stay.    *)
DropsRead ==
  /\ fut["reader"] \in {"due", "parked", "idle"} /\ (oneTask => fut["writer"] # "failed")
  /\ \E as \in {"idle", "left"} :
       fut' = [f \in Futures |-> IF f = "reader" THEN as
                                ELSE IF oneTask /\ fut[f] = "parked" THEN "due" ELSE fut[f]]
  /\ UNCHANGED <<oneTask, state, stream, redial, breaks>>

-----------------------------------------------------------------------------
(* poll_read and poll_write.                                               *)

(* A future is polled while its task lives: try_join! drops both with the  *)
(* first that fails.                                                       *)
Polled(f) ==
  /\ fut[f] = "due"
  /\ oneTask => \A g \in Futures : fut[g] # "failed"

Left(f, as) == fut' = [fut EXCEPT ![f] = as]

(* Mutant: an error read is the end of the stream, too.                    *)
ErrorReadsAsEof(f) ==
  /\ Polled(f) /\ state = "connected" /\ conn = "broken"
  /\ Left(f, IF f = "reader" THEN "ended" ELSE "failed")
  /\ UNCHANGED <<oneTask, state, stream, redial, breaks>>

(* An error redials: the connection goes, with the wakers it held, and the *)
(* new dial is polled at once.                                             *)
FindsBroken(f) ==
  /\ Polled(f) /\ state = "connected" /\ conn = "broken"
  /\ state' = "dialing" /\ dial' = "trying" /\ attempt' = 1 /\ onDial' = f
  /\ onConn' = {}
  /\ Left(f, "parked")
  /\ UNCHANGED <<oneTask, conn, waiting, room, breaks>>

(* The dial has nothing new: its waker is replaced by this one.            *)
DialPends(f) ==
  /\ Polled(f) /\ state = "dialing" /\ dial \in {"trying", "resting"}
  /\ onDial' = f
  /\ Left(f, "parked")
  /\ UNCHANGED <<oneTask, state, stream, dial, attempt, breaks>>

(* Retry::again: an attempt failed and there is another.                   *)
DialRests(f) ==
  /\ Polled(f) /\ state = "dialing" /\ dial = "refused" /\ attempt < Attempts
  /\ dial' = "resting" /\ onDial' = f
  /\ Left(f, "parked")
  /\ UNCHANGED <<oneTask, state, stream, attempt, breaks>>

(* Mutant: the attempts are not counted.                                   *)
DialAgainUncounted(f) ==
  /\ Polled(f) /\ state = "dialing" /\ dial = "rested"
  /\ dial' = "trying" /\ onDial' = f
  /\ Left(f, "parked")
  /\ UNCHANGED <<oneTask, state, stream, attempt, breaks>>

DialAgain(f) ==
  /\ Polled(f) /\ state = "dialing" /\ dial = "rested"
  /\ dial' = "trying" /\ attempt' = attempt + 1 /\ onDial' = f
  /\ Left(f, "parked")
  /\ UNCHANGED <<oneTask, state, stream, breaks>>

(* The last attempt failed: nothing redials from here.                     *)
DialGivesUp(f) ==
  /\ Polled(f) /\ state = "dialing" /\ dial = "refused" /\ attempt = Attempts
  /\ state' = "finished" /\ onDial' = "none"
  /\ Left(f, "failed")
  /\ UNCHANGED <<oneTask, stream, dial, attempt, breaks>>

(* install, and the loop goes on to use the fresh connection.  A read      *)
(* finds nothing there yet, a write is accepted.                           *)
Installs(f) ==
  /\ Polled(f) /\ state = "dialing" /\ dial = "answered"
  /\ state' = "connected" /\ conn' = "good" /\ waiting' = FALSE /\ room' = TRUE
  /\ onDial' = "none"
  /\ onConn' = {f} \cap {"reader"}
  /\ Left(f, IF f = "reader" THEN "parked" ELSE "idle")
  /\ UNCHANGED <<oneTask, dial, attempt, breaks>>

Reads ==
  /\ Polled("reader") /\ state = "connected" /\ conn # "broken" /\ waiting
  /\ waiting' = FALSE
  /\ Left("reader", "idle")
  /\ UNCHANGED <<oneTask, state, conn, room, onConn, redial, breaks>>

(* Ok(0): the peer is finished, and it passes straight through.            *)
ReadsEof ==
  /\ Polled("reader") /\ state = "connected" /\ conn = "closed" /\ ~waiting
  /\ Left("reader", "ended")
  /\ UNCHANGED <<oneTask, state, stream, redial, breaks>>

(* Mutant: Pending without registering.                                    *)
ReadForgets ==
  /\ Polled("reader") /\ state = "connected" /\ conn = "good" /\ ~waiting
  /\ Left("reader", "parked")
  /\ UNCHANGED <<oneTask, state, stream, redial, breaks>>

ReadParks ==
  /\ Polled("reader") /\ state = "connected" /\ conn = "good" /\ ~waiting
  /\ onConn' = onConn \cup {"reader"}
  /\ Left("reader", "parked")
  /\ UNCHANGED <<oneTask, state, conn, waiting, room, redial, breaks>>

(* A finished stream reads as ended and does not write.                    *)
FindsFinished(f) ==
  /\ Polled(f) /\ state = "finished"
  /\ Left(f, IF f = "reader" THEN "ended" ELSE "failed")
  /\ UNCHANGED <<oneTask, state, stream, redial, breaks>>

Writes ==
  /\ Polled("writer") /\ state = "connected" /\ conn # "broken" /\ room
  /\ Left("writer", "idle")
  /\ UNCHANGED <<oneTask, state, stream, redial, breaks>>

WriteParks ==
  /\ Polled("writer") /\ state = "connected" /\ conn # "broken" /\ ~room
  /\ onConn' = onConn \cup {"writer"}
  /\ Left("writer", "parked")
  /\ UNCHANGED <<oneTask, state, conn, waiting, room, redial, breaks>>

(* Of the reader on the writer's task: in one poll of the task it is polled*)
(* after the writer, or has been before.  Nothing wakes it.                *)
ReaderInPoll(f) == f = "reader" /\ oneTask /\ fut[f] = "parked"

Shuts ==
  /\ fut["writer"] = "idle"
  /\ oneTask => fut["reader"] # "failed"
  /\ \E late \in BOOLEAN :
       fut' = [f \in Futures |-> IF f = "writer" THEN "ended"
                                ELSE IF late /\ ReaderInPoll(f) THEN "due" ELSE fut[f]]

(* Mutant: a dial in progress outlives the shutdown.                       *)
ShutdownLeavesDial ==
  /\ Shuts
  /\ state' = IF state = "dialing" THEN state ELSE "finished"
  /\ onConn' = {}
  /\ UNCHANGED <<oneTask, conn, waiting, room, redial, breaks>>

(* poll_shutdown, from Dest::finish: whichever state it is in, finished.   *)
(* The connection and the dial are dropped with the wakers they held.      *)
Shutdown ==
  /\ Shuts
  /\ state' = "finished" /\ onConn' = {} /\ onDial' = "none"
  /\ UNCHANGED <<oneTask, conn, waiting, room, dial, attempt, breaks>>

PollShared(f) ==
  \/ FindsBroken(f) \/ DialPends(f) \/ DialRests(f) \/ DialAgain(f)
  \/ DialGivesUp(f) \/ Installs(f) \/ FindsFinished(f)

PollRead  == PollShared("reader") \/ Reads \/ ReadsEof \/ ReadParks
PollWrite == PollShared("writer") \/ Writes \/ WriteParks

Next ==
  \/ Arrives \/ PeerCloses \/ PeerStalls \/ PeerReads \/ Breaks
  \/ DialSettles \/ RestElapses \/ WriterFed \/ ReaderReturns \/ DropsRead
  \/ PollRead \/ PollWrite \/ Shutdown

Spec == Init /\ [][Next]_vars

(* A future that is due is polled, unless its read is dropped, and a timer *)
(* fires.  Nothing is assumed of the peer, which may never answer an       *)
(* attempt that has no connect-timeout, nor of the reader's direction,     *)
(* which may never be done with a chunk or a tick.                         *)
FairSpec == Spec /\ WF_vars(PollRead) /\ WF_vars(PollWrite) /\ WF_vars(RestElapses)

-----------------------------------------------------------------------------
TypeOK ==
  /\ oneTask \in BOOLEAN
  /\ state \in {"connected", "dialing", "finished"}
  /\ conn \in {"good", "closed", "broken"}
  /\ waiting \in BOOLEAN /\ room \in BOOLEAN /\ onConn \subseteq Futures
  /\ dial \in {"trying", "answered", "refused", "resting", "rested"}
  /\ attempt \in 1..Attempts /\ onDial \in Futures \cup {"none"}
  /\ fut \in [Futures -> {"due", "parked", "idle", "ended", "failed", "left"}]
  /\ breaks \in 0..MaxBreaks

(* While one task polls both, a future that is parked has left its waker,  *)
(* or one of its task, with what will end its wait, wherever the other one *)
(* has got to, dropped reads included; unless the stream was shut down     *)
(* under it: see EndIsHeard.                                               *)
NobodyForgotten ==
  oneTask => \A f \in Futures : fut[f] = "parked" =>
    \/ state = "connected" /\ f \in onConn
    \/ state = "dialing" /\ dial \in {"trying", "resting"} /\ onDial \in Futures
    \/ state = "finished" /\ f = "reader" /\ fut["writer"] = "ended"

(* "An ended stream stays ended: reporting end of stream is what lets the  *)
(* pipeline run its own end-of-stream path" (poll_read): a reader that is  *)
(* parked when the writing direction ends hears of it.  It may not, as     *)
(* poll_shutdown wakes nobody.                                             *)
EndIsHeard == (state = "finished" /\ fut["reader"] = "parked") ~> (fut["reader"] # "parked")

(* A dial of the writer's used up every attempt, on a task of its own: what*)
(* that direction reports as an error the reader hears as an end.          *)
GivenUp == ~oneTask /\ fut["writer"] = "failed" /\ dial = "refused" /\ attempt = Attempts

(* "Ok(0) from a read is the peer saying it is finished" (reconnecting.rs).*)
(* On one task a read ends only by the peer's close, or once the writing   *)
(* direction has shut the stream down; on two, also when the other one has *)
(* given the stream up.  A break never reads as an end.                    *)
EofOnlyFromPeer ==
  [][fut["reader"] # "ended" /\ fut'["reader"] = "ended"
       => \/ state = "connected" /\ conn = "closed"
          \/ fut["writer"] = "ended"
          \/ GivenUp]_vars

(* "Whichever of them meets the failure does the redial and the other      *)
(* simply finds a working stream when its turn comes" (reconnecting.rs):   *)
(* a reader does not sleep while a chunk waits on a working connection ... *)
ChunksAreRead ==
  (state = "connected" /\ waiting /\ fut["reader"] \in {"due", "parked"})
    ~> (state # "connected" \/ ~waiting \/ fut["reader"] \notin {"due", "parked"})

(* ... which holds of a relay whose futures are on one task.               *)
ChunksAreReadByOneTask ==
  (oneTask /\ state = "connected" /\ waiting /\ fut["reader"] \in {"due", "parked"})
    ~> (state # "connected" \/ ~waiting \/ fut["reader"] \notin {"due", "parked"}
          \/ fut["writer"] = "failed")

(* Somebody is there to poll the dial when it wakes: a future of the task, *)
(* or, of two, the one that polled it last.                                *)
Wanted ==
  \E f \in Futures : fut[f] \in {"due", "parked"} /\ (oneTask \/ f = onDial)

(* A dial does not go on for ever: unless an attempt is never answered, it *)
(* connects or the attempts run out, as long as somebody is left to poll.  *)
DialConcludes ==
  \/ <>[](state = "dialing" /\ dial = "trying")
  \/ (state = "dialing" /\ Wanted) ~> (state # "dialing" \/ ~Wanted)

(* "End of stream from the pipeline [...] this is where reconnecting       *)
(* stops" (poll_shutdown): whatever was in progress, nothing is opened     *)
(* once the pipeline has said that it is done writing.                     *)
ShutdownIsFinal == fut["writer"] = "ended" => state = "finished"

(* End of stream is not a failure: a peer that closes is heard, unless its *)
(* connection is lost or shut down first, or nobody reads.  "Getting that  *)
(* backwards makes the endpoint impossible to close" (reconnecting.rs).    *)
CloseIsHeard ==
  (oneTask /\ state = "connected" /\ conn = "closed" /\ fut["reader"] \in {"due", "parked"})
    ~> (fut["reader"] \in {"ended", "idle", "left"} \/ conn = "broken" \/ state = "finished"
          \/ \E f \in Futures : fut[f] = "failed")

(* The two futures of one endpoint, at every moment: of their types, none  *)
(* forgotten, and a shutdown final.                                        *)
FuturesInv == TypeOK /\ NobodyForgotten /\ ShutdownIsFinal
=============================================================================

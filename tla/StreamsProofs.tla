---------------------------- MODULE StreamsProofs ----------------------------
(***************************************************************************)
(* Proofs about the two streams of Streams, for every capacity of a pipe   *)
(* and of the child, every depth of a link, and every number of attempts   *)
(* and of lost connections.                                                *)
(***************************************************************************)
EXTENDS Streams, TLAPS

(* What was shown of a part's own steps holds of the module: the other     *)
(* part's steps leave its variables alone.                                 *)
PieceStep == [Next]_vars
KeepStep  == [Keeps!Next]_keepVars

(* A step of the whole is a step or a stutter of each part.                *)
LEMMA StreamsSteps ==
  /\ [StreamsNext]_allVars => PieceStep
  /\ [StreamsNext]_allVars => KeepStep
BY DEF StreamsNext, Piped, Kept, allVars, PieceStep, KeepStep

-----------------------------------------------------------------------------
(* The process segment.                                                    *)

(* A child that exited, short of having been killed, and not early, was fed*)
(* to its end of stream and took everything; the drain is done when it has *)
(* read the stdout of a child that exited to its end.                      *)
FullyFed   == child # "running" /\ ~early /\ result # "err"
                => feed = "done" /\ stdin = 0 /\ kept = 0
Drained    == drain = "done" => child # "running" /\ stdout = 0
OkWhenBoth == result = "ok" => child = "good" /\ drain = "done"

ProcessIInv == TypeOK /\ FullyFed /\ Drained /\ OkWhenBoth

(* A segment that has just been started keeps its promise.                 *)
LEMMA ProcessInit == Init => ProcessIInv
<1> SUFFICES ASSUME Init PROVE ProcessIInv
  OBVIOUS
<1>1. FullyFed /\ Drained /\ OkWhenBoth
  BY DEF Init, FullyFed, Drained, OkWhenBoth
<1>2. feed \in {"look", "parked", "write", "flush", "done", "failed"}
  BY DEF Init, FeedStart
<1>3. stdin \in 0..Pipe /\ stdout \in 0..Pipe /\ kept \in 0..Keep /\ below \in 0..Depth
  BY ProcessAssumption DEF Init
<1>4. TypeOK
  BY <1>2, <1>3, Zenon DEF Init, TypeOK
<1> QED
  BY <1>1, <1>4 DEF ProcessIInv

(* A step of the world keeps the segment's promise.                        *)
LEMMA WorldKeeps ==
  ASSUME ProcessIInv,
         SourceSends \/ SourceEnds \/ Drain \/ BelowTakes \/ BelowLeaves \/ WriterBreaks
  PROVE  ProcessIInv'
<1>1. UNCHANGED <<ends, feed, drain, proc, pipes, refused, result>>
  BY DEF SourceSends, SourceEnds, Drain, BelowTakes, BelowLeaves, WriterBreaks, world
<1>2. TypeOK'
  <2>1. below' \in 0..Depth
    BY ProcessAssumption DEF SourceSends, SourceEnds, Drain, BelowTakes, BelowLeaves,
      WriterBreaks, ProcessIInv, TypeOK
  <2>2. source' \in {"idle", "ready", "closed", "reset"} /\ signal' \in BOOLEAN
        /\ reader' \in BOOLEAN /\ broken' \in BOOLEAN
    BY DEF SourceSends, SourceEnds, Drain, BelowTakes, BelowLeaves, WriterBreaks,
      world, ProcessIInv, TypeOK
  <2> QED
    BY <1>1, <2>1, <2>2 DEF ProcessIInv, TypeOK, ends, proc, pipes
<1> QED
  BY <1>1, <1>2
  DEF ProcessIInv, FullyFed, Drained, OkWhenBoth, proc, pipes

(* So does one of the child: it writes only while it runs.                 *)
LEMMA ChildKeeps ==
  ASSUME ProcessIInv, ChildReads \/ ChildWrites \/ ChildExits
  PROVE  ProcessIInv'
<1>1. CASE ChildReads
  BY <1>1, ProcessAssumption
  DEF ChildReads, ProcessIInv, TypeOK, FullyFed, Drained, OkWhenBoth, ends, world
<1>2. CASE ChildWrites
  BY <1>2, ProcessAssumption
  DEF ChildWrites, ProcessIInv, TypeOK, FullyFed, Drained, OkWhenBoth, ends, world
<1>3. CASE ChildExits
  <2>1. /\ child = "running" /\ child' \in {"good", "bad"}
        /\ UNCHANGED <<ends, world, feed, drain, kept, pipes, below, refused, result>>
    BY <1>3 DEF ChildExits
  <2>2. early' \in BOOLEAN /\ (~early' => Eof /\ kept = 0)
    BY <1>3, Zenon DEF ChildExits
  <2>3. TypeOK'
    BY <2>1, <2>2 DEF ProcessIInv, TypeOK, ends, world, pipes
  <2> QED
    BY <2>1, <2>2, <2>3 DEF Eof, ProcessIInv, TypeOK, FullyFed, Drained, OkWhenBoth, pipes
<1> QED
  BY <1>1, <1>2, <1>3

(* So does one of the feed: it moves on from "done" never.                 *)
LEMMA FeedKeeps ==
  ASSUME ProcessIInv, Feed
  PROVE  ProcessIInv'
<1>1. feed # "done" /\ Running
  BY DEF Feed, FeedLooks, FeedTakes, FeedEnds, FeedReadFails, FeedWrites, FeedWriteFails,
    FeedCloses, FeedGoto
<1>2. UNCHANGED <<ends, signal, reader, broken, drain, proc, stdout, below, refused, result>>
  BY DEF Feed, FeedLooks, FeedTakes, FeedEnds, FeedReadFails, FeedWrites, FeedWriteFails,
    FeedCloses, FeedGoto
<1>3. /\ feed' \in {"look", "parked", "write", "flush", "done", "failed"}
      /\ source' \in {"idle", "ready", "closed", "reset"}
  BY DEF Feed, FeedLooks, FeedTakes, FeedEnds, FeedReadFails, FeedWrites, FeedWriteFails,
    FeedCloses, FeedGoto, FeedStart, ProcessIInv, TypeOK
<1>4. stdin' \in 0..Pipe
  BY ProcessAssumption
  DEF Feed, FeedLooks, FeedTakes, FeedEnds, FeedReadFails, FeedWrites, FeedWriteFails,
    FeedCloses, ProcessIInv, TypeOK
<1>5. TypeOK'
  BY <1>2, <1>3, <1>4 DEF ProcessIInv, TypeOK, ends, proc
<1> QED
  BY <1>1, <1>2, <1>5 DEF ProcessIInv, FullyFed, Drained, OkWhenBoth, Running, proc

(* So does one of the drain: it ends at an empty stdout nobody will fill.  *)
LEMMA DrainKeeps ==
  ASSUME ProcessIInv, Drains
  PROVE  ProcessIInv'
<1>1. /\ Running
      /\ UNCHANGED <<ends, world, feed, proc, stdin, result>>
  BY DEF Drains, DrainReads, DrainEnds, DrainWrites, DrainSends, DrainRefused, DrainGoto
<1>2. drain' = "done" => child # "running" /\ stdout = 0 /\ stdout' = 0
  BY DEF Drains, DrainReads, DrainEnds, DrainWrites, DrainSends, DrainRefused, DrainGoto
<1>3. refused' \in BOOLEAN
  BY DEF Drains, DrainReads, DrainEnds, DrainWrites, DrainSends, DrainRefused, ProcessIInv, TypeOK
<1>4. drain' \in {"read", "send", "done", "failed"}
  BY DEF Drains, DrainReads, DrainEnds, DrainWrites, DrainSends, DrainRefused, DrainGoto
<1>5. stdout' \in 0..Pipe /\ below' \in 0..Depth
  BY ProcessAssumption DEF Drains, DrainReads, DrainEnds, DrainWrites, DrainSends,
    DrainRefused, DrainGoto, ProcessIInv, TypeOK
<1> QED
  BY <1>1, <1>2, <1>3, <1>4, <1>5
  DEF ProcessIInv, TypeOK, FullyFed, Drained, OkWhenBoth, Running, ends, world, proc

(* So does the join.                                                       *)
LEMMA JoinKeeps ==
  ASSUME ProcessIInv, JoinFails \/ Waits
  PROVE  ProcessIInv'
BY DEF JoinFails, Waits, Running, ProcessIInv, TypeOK, FullyFed, Drained, OkWhenBoth,
  ends, world, proc, pipes

(* A step of the segment, or none, keeps its promise.                      *)
LEMMA ProcessStep == ProcessIInv /\ PieceStep => ProcessIInv'
<1> SUFFICES ASSUME ProcessIInv, PieceStep PROVE ProcessIInv'
  OBVIOUS
<1>1. CASE Next
  BY <1>1, WorldKeeps, ChildKeeps, FeedKeeps, DrainKeeps, JoinKeeps DEF Next, Segment
<1>2. CASE UNCHANGED vars
  BY <1>2 DEF vars, ends, world, proc, pipes, ProcessIInv, TypeOK, FullyFed, Drained, OkWhenBoth
<1> QED
  BY <1>1, <1>2 DEF PieceStep

(* A process segment that reports success has carried everything: its child*)
(* ended well, its stdout was read to the end, and unless the child chose  *)
(* to stop reading early nothing is left in its stdin or in it.            *)
THEOREM ProcessCarriesAll == StreamsSpec => []ProcessInv
<1>1. StreamsInit => ProcessIInv
  BY ProcessInit DEF StreamsInit
<1>2. ProcessIInv /\ [StreamsNext]_allVars => ProcessIInv'
  BY ProcessStep, StreamsSteps
<1>3. ProcessIInv => ProcessInv
  BY DEF ProcessIInv, TypeOK, FullyFed, Drained, OkWhenBoth, ProcessInv, OkMeansComplete
<1> QED
  BY <1>1, <1>2, <1>3, PTL DEF StreamsSpec

-----------------------------------------------------------------------------
(* The stream that is opened again.                                        *)

Futures == Keeps!Futures

(* The dial rests only when an attempt is left, so the count stays within  *)
(* the policy; and the stream is finished for good only once the writer    *)
(* ended, or a dial of one of the two has used up its attempts.            *)
RestsWithin  == dial \in {"resting", "rested"} => attempt < Attempts
FinishedSays ==
  state = "finished" =>
    \/ fut["writer"] = "ended"
    \/ /\ dial = "refused" /\ attempt = Attempts
       /\ fut["writer"] = "failed" \/ fut["reader"] = "failed"

KeepIInv == Keeps!TypeOK /\ Keeps!NobodyForgotten /\ Keeps!ShutdownIsFinal /\ RestsWithin /\ FinishedSays

(* The two directions of a stream, each a future.                          *)
LEMMA FuturesAre == Futures = {"reader", "writer"}
BY DEF Futures, Keeps!Futures

(* What a waker does: it makes parked futures due and touches no other; of *)
(* one task it leaves none parked.                                         *)
LEMMA WakeWakes ==
  ASSUME Keeps!TypeOK, NEW S \in SUBSET Futures, Keeps!Wake(S)
  PROVE  /\ fut' \in [Futures -> {"due", "parked", "idle", "ended", "failed", "left"}]
         /\ \A f \in Futures : fut'[f] # fut[f] => fut[f] = "parked" /\ fut'[f] = "due"
         /\ \A f \in S : fut'[f] # "parked"
         /\ oneTask /\ S # {} => \A f \in Futures : fut'[f] # "parked"
BY DEF Keeps!Wake, Keeps!TypeOK, Keeps!Futures, Futures

(* What a poll leaves of the futures.                                      *)
LEMMA PollLeaves ==
  ASSUME Keeps!TypeOK, NEW f \in Futures, NEW as, Keeps!Left(f, as),
         as \in {"due", "parked", "idle", "ended", "failed", "left"}
  PROVE  /\ fut' \in [Futures -> {"due", "parked", "idle", "ended", "failed", "left"}]
         /\ fut'[f] = as
         /\ \A g \in Futures : g # f => fut'[g] = fut[g]
BY DEF Keeps!Left, Keeps!TypeOK, Keeps!Futures, Futures

(* A stream that has just been handed over.                                *)
LEMMA KeepInit == Keeps!Init => KeepIInv
<1> SUFFICES ASSUME Keeps!Init PROVE KeepIInv
  OBVIOUS
<1>1. fut \in [Keeps!Futures -> {"due", "parked", "idle", "ended", "failed", "left"}]
  BY DEF Keeps!Init
<1>2. \A f \in Keeps!Futures : fut[f] # "parked" /\ fut[f] # "ended"
  BY DEF Keeps!Init
<1>3. "writer" \in Keeps!Futures
  BY DEF Keeps!Futures
<1>4. attempt \in 1..Attempts /\ breaks \in 0..MaxBreaks
  BY StreamsAssumption DEF Keeps!Init
<1>5. Keeps!TypeOK
  BY <1>1, <1>4, Zenon DEF Keeps!Init, Keeps!TypeOK
<1> QED
  BY <1>2, <1>3, <1>5 DEF KeepIInv, Keeps!Init, Keeps!NobodyForgotten,
    Keeps!ShutdownIsFinal, RestsWithin, FinishedSays

(* A step of the peer or of the network.                                   *)
PeerMoves ==
  \/ Keeps!Arrives \/ Keeps!PeerCloses \/ Keeps!PeerStalls \/ Keeps!PeerReads \/ Keeps!Breaks

(* What the peer and the network do keeps what is known of the stream.     *)
LEMMA PeerKeeps ==
  ASSUME KeepIInv, PeerMoves
  PROVE  KeepIInv'
<1> USE FuturesAre
<1>1. /\ state = "connected" /\ UNCHANGED <<oneTask, state, Keeps!redial>>
      /\ conn' \in {"good", "closed", "broken"} /\ waiting' \in BOOLEAN /\ room' \in BOOLEAN
  BY DEF PeerMoves, Keeps!Arrives, Keeps!PeerCloses, Keeps!PeerStalls, Keeps!PeerReads,
    Keeps!Breaks, KeepIInv, Keeps!TypeOK
<1>2. breaks' \in 0..MaxBreaks
  BY StreamsAssumption DEF PeerMoves, Keeps!Arrives, Keeps!PeerCloses, Keeps!PeerStalls,
    Keeps!PeerReads, Keeps!Breaks, KeepIInv, Keeps!TypeOK
<1>3. onConn' \subseteq onConn /\ (Keeps!Wake(onConn \ onConn') \/ UNCHANGED <<onConn, fut>>)
  <2>1. CASE Keeps!Arrives \/ Keeps!PeerCloses
    <3>1. onConn \cap {"reader"} = onConn \ onConn'
      BY <2>1 DEF Keeps!Arrives, Keeps!PeerCloses
    <3> QED
      BY <2>1, <3>1 DEF Keeps!Arrives, Keeps!PeerCloses
  <2>2. CASE Keeps!PeerReads
    <3>1. onConn \cap {"writer"} = onConn \ onConn'
      BY <2>2 DEF Keeps!PeerReads
    <3> QED
      BY <2>2, <3>1 DEF Keeps!PeerReads
  <2>3. CASE Keeps!Breaks
    <3>1. onConn = onConn \ onConn'
      BY <2>3 DEF Keeps!Breaks
    <3> QED
      BY <2>3, <3>1 DEF Keeps!Breaks
  <2> QED
    BY <2>1, <2>2, <2>3 DEF PeerMoves, Keeps!PeerStalls
<1>4. /\ fut' \in [Futures -> {"due", "parked", "idle", "ended", "failed", "left"}]
      /\ \A f \in Futures : fut'[f] # fut[f] => fut[f] = "parked" /\ fut'[f] = "due"
      /\ \A f \in onConn \ onConn' : fut'[f] # "parked"
  <2>1. onConn \ onConn' \in SUBSET Futures
    BY DEF KeepIInv, Keeps!TypeOK, Futures
  <2> QED
    BY <1>3, <2>1, WakeWakes DEF KeepIInv, Keeps!TypeOK, Futures
<1>5. Keeps!TypeOK'
  BY <1>1, <1>2, <1>3, <1>4 DEF KeepIInv, Keeps!TypeOK, Keeps!redial, Futures
<1>6. Keeps!NobodyForgotten'
  BY <1>1, <1>3, <1>4 DEF KeepIInv, Keeps!NobodyForgotten, Futures
<1> QED
  BY <1>1, <1>4, <1>5, <1>6
  DEF KeepIInv, Keeps!ShutdownIsFinal, RestsWithin, FinishedSays, Keeps!redial

(* A dial that answers, is refused or has rested wakes whoever polled it;  *)
(* a chunk for the writer wakes its task.                                  *)
LEMMA DialKeeps ==
  ASSUME KeepIInv, Keeps!DialSettles \/ Keeps!RestElapses
  PROVE  KeepIInv'
<1> USE FuturesAre
<1>1. /\ state = "dialing" /\ dial \in {"trying", "resting"}
      /\ dial' \in {"answered", "refused", "rested"} /\ (dial' = "rested" => dial = "resting")
      /\ Keeps!Wake({onDial} \cap Futures)
      /\ UNCHANGED <<oneTask, state, Keeps!stream, attempt, onDial, breaks>>
  BY DEF Keeps!DialSettles, Keeps!RestElapses, Futures
<1>2. /\ fut' \in [Futures -> {"due", "parked", "idle", "ended", "failed", "left"}]
      /\ \A f \in Futures : fut'[f] # fut[f] => fut[f] = "parked" /\ fut'[f] = "due"
      /\ oneTask /\ onDial \in Futures => \A f \in Futures : fut'[f] # "parked"
  <2> DEFINE S == {onDial} \cap Futures
  <2>1. S \in SUBSET Futures /\ (onDial \in Futures => S # {})
    OBVIOUS
  <2>2. Keeps!Wake(S)
    BY <1>1
  <2> HIDE DEF S
  <2> QED
    BY <2>1, <2>2, WakeWakes DEF KeepIInv
<1>3. Keeps!TypeOK'
  BY <1>1, <1>2 DEF KeepIInv, Keeps!TypeOK, Keeps!stream, Futures
<1>4. Keeps!NobodyForgotten'
  BY <1>1, <1>2 DEF KeepIInv, Keeps!NobodyForgotten, Futures
<1> QED
  BY <1>1, <1>2, <1>3, <1>4
  DEF KeepIInv, Keeps!ShutdownIsFinal, RestsWithin, FinishedSays

(* A writer that is given something to write is due, and a reader that is  *)
(* done with what it read; a read that is dropped leaves its waker behind. *)
LEMMA FedKeeps ==
  ASSUME KeepIInv, Keeps!WriterFed \/ Keeps!ReaderReturns \/ Keeps!DropsRead
  PROVE  KeepIInv'
<1> USE FuturesAre
<1>1. UNCHANGED <<oneTask, state, Keeps!stream, Keeps!redial, breaks>>
  BY DEF Keeps!WriterFed, Keeps!ReaderReturns, Keeps!DropsRead
<1>2. /\ fut' \in [Futures -> {"due", "parked", "idle", "ended", "failed", "left"}]
      /\ \A f \in Futures : fut'[f] # fut[f] =>
           fut[f] \in {"idle", "parked", "due"} /\ fut'[f] \in {"due", "idle", "left"}
      /\ oneTask => \A f \in Futures : fut'[f] # "parked"
  <2>1. CASE Keeps!WriterFed
    BY <2>1 DEF Keeps!WriterFed, KeepIInv, Keeps!TypeOK, Futures
  <2>2. CASE Keeps!ReaderReturns
    BY <2>2 DEF Keeps!ReaderReturns, KeepIInv, Keeps!TypeOK, Futures
  <2>3. CASE Keeps!DropsRead
    BY <2>3 DEF Keeps!DropsRead, KeepIInv, Keeps!TypeOK, Futures
  <2> QED
    BY <2>1, <2>2, <2>3
<1> QED
  BY <1>1, <1>2 DEF KeepIInv, Keeps!TypeOK, Keeps!NobodyForgotten, Keeps!ShutdownIsFinal,
    RestsWithin, FinishedSays, Keeps!stream, Keeps!redial, Futures

(* A poll of a future that finds the connection lost, the dial at work or  *)
(* over, or the stream finished.                                           *)
LEMMA PollKeeps ==
  ASSUME KeepIInv, NEW f \in Futures, Keeps!PollShared(f)
  PROVE  KeepIInv'
<1> USE FuturesAre
<1> DEFINE as == fut'[f]
<1>1. /\ fut[f] = "due"
      /\ as \in {"parked", "failed", "idle", "ended"}
      /\ fut' = [fut EXCEPT ![f] = as]
      /\ UNCHANGED <<oneTask, breaks>>
  BY DEF Keeps!PollShared, Keeps!FindsBroken, Keeps!DialPends, Keeps!DialRests, Keeps!DialAgain,
    Keeps!DialGivesUp, Keeps!Installs, Keeps!FindsFinished, Keeps!Polled, Keeps!Left,
    KeepIInv, Keeps!TypeOK, Futures
<1>2. /\ fut' \in [Futures -> {"due", "parked", "idle", "ended", "failed", "left"}]
      /\ \A g \in Futures : g # f => fut'[g] = fut[g]
  BY <1>1 DEF KeepIInv, Keeps!TypeOK, Futures
<1> HIDE DEF as
<1>3. CASE Keeps!FindsBroken(f)
  <2>1. as = "parked" /\ state = "connected" /\ attempt' \in 1..Attempts
    BY <1>3, StreamsAssumption DEF Keeps!FindsBroken, Keeps!Left, as, KeepIInv, Keeps!TypeOK, Futures
  <2>2. Keeps!TypeOK'
    BY <1>1, <1>2, <1>3, <2>1 DEF Keeps!FindsBroken, KeepIInv, Keeps!TypeOK, Futures
  <2> QED
    BY <1>1, <1>2, <1>3, <2>1, <2>2 DEF as, Keeps!FindsBroken, KeepIInv, Keeps!NobodyForgotten,
      Keeps!ShutdownIsFinal, RestsWithin, FinishedSays, Futures
<1>4. CASE Keeps!DialPends(f) \/ Keeps!DialRests(f) \/ Keeps!DialAgain(f)
  <2>1. /\ as = "parked" /\ state = "dialing" /\ onDial' = f
        /\ UNCHANGED <<state, Keeps!stream>>
        /\ dial' \in {"trying", "resting"} /\ attempt' \in {attempt, attempt + 1}
        /\ attempt' # attempt => dial = "rested" /\ dial' = "trying"
        /\ dial' = "resting" => attempt' = attempt /\ (dial = "resting" \/ attempt < Attempts)
    BY <1>4 DEF Keeps!DialPends, Keeps!DialRests, Keeps!DialAgain, Keeps!Left, as,
      KeepIInv, Keeps!TypeOK, Futures
  <2>2. attempt' \in 1..Attempts /\ (dial' = "resting" => attempt' < Attempts)
    BY <2>1, StreamsAssumption DEF KeepIInv, Keeps!TypeOK, RestsWithin
  <2>3. Keeps!TypeOK'
    BY <1>1, <1>2, <2>1, <2>2 DEF KeepIInv, Keeps!TypeOK, Keeps!stream, Futures
  <2> QED
    BY <1>1, <1>2, <2>1, <2>2, <2>3 DEF as, KeepIInv, Keeps!NobodyForgotten,
      Keeps!ShutdownIsFinal, RestsWithin, FinishedSays, Futures
<1>5. CASE Keeps!DialGivesUp(f)
  <2>1. as = "failed" /\ state = "dialing" /\ dial = "refused" /\ dial' = "refused"
    BY <1>5 DEF Keeps!DialGivesUp, Keeps!Left, as, KeepIInv, Keeps!TypeOK, Futures
  <2>2. Keeps!TypeOK'
    BY <1>1, <1>2, <1>5, ZenonT(40) DEF Keeps!DialGivesUp, Keeps!stream, KeepIInv, Keeps!TypeOK, Futures
  <2> QED
    BY <1>1, <1>2, <1>5, <2>1, <2>2 DEF as, Keeps!DialGivesUp, KeepIInv, Keeps!NobodyForgotten,
      Keeps!ShutdownIsFinal, RestsWithin, FinishedSays, Futures
<1>6. CASE Keeps!Installs(f)
  <2>1. /\ as = (IF f = "reader" THEN "parked" ELSE "idle")
        /\ state = "dialing" /\ dial = "answered"
    BY <1>6 DEF Keeps!Installs, Keeps!Left, as, KeepIInv, Keeps!TypeOK, Futures
  <2>2. Keeps!TypeOK'
    BY <1>1, <1>2, <1>6, ZenonT(40) DEF Keeps!Installs, KeepIInv, Keeps!TypeOK, Futures
  <2>3. onConn' = {f} \cap {"reader"} /\ state' = "connected" /\ dial' = "answered"
    BY <1>6 DEF Keeps!Installs
  <2> QED
    BY <1>1, <1>2, <2>1, <2>2, <2>3 DEF as, KeepIInv, Keeps!NobodyForgotten,
      Keeps!ShutdownIsFinal, RestsWithin, FinishedSays, Futures
<1>7. CASE Keeps!FindsFinished(f)
  <2>1. /\ as = (IF f = "reader" THEN "ended" ELSE "failed")
        /\ state = "finished" /\ UNCHANGED <<state, Keeps!stream, Keeps!redial>>
    BY <1>7 DEF Keeps!FindsFinished, Keeps!Left, as, KeepIInv, Keeps!TypeOK, Futures
  <2>2. Keeps!TypeOK'
    BY <1>1, <1>2, <2>1 DEF Keeps!stream, Keeps!redial, KeepIInv, Keeps!TypeOK, Futures
  <2> QED
    BY <1>1, <1>2, <2>1, <2>2 DEF as, KeepIInv, Keeps!NobodyForgotten,
      Keeps!ShutdownIsFinal, RestsWithin, FinishedSays, Futures, Keeps!stream, Keeps!redial
<1> QED
  BY <1>3, <1>4, <1>5, <1>6, <1>7 DEF Keeps!PollShared

(* A poll that uses a working connection, and the shutdown.                *)
LEMMA UseKeeps ==
  ASSUME KeepIInv,
         \/ Keeps!Reads \/ Keeps!ReadsEof \/ Keeps!ReadParks
         \/ Keeps!Writes \/ Keeps!WriteParks
  PROVE  KeepIInv'
<1> USE FuturesAre
<1>1. /\ state = "connected" /\ UNCHANGED <<oneTask, state, conn, room, Keeps!redial, breaks>>
      /\ waiting' \in BOOLEAN
  BY DEF Keeps!Reads, Keeps!ReadsEof, Keeps!ReadParks, Keeps!Writes, Keeps!WriteParks,
    Keeps!stream, KeepIInv, Keeps!TypeOK
<1>2. /\ onConn \subseteq onConn' /\ onConn' \subseteq Futures
      /\ fut' \in [Futures -> {"due", "parked", "idle", "ended", "failed", "left"}]
      /\ \A f \in Futures : fut'[f] # fut[f] =>
           /\ fut[f] = "due"
           /\ \/ fut'[f] = "parked" /\ f \in onConn'
              \/ fut'[f] = "idle"
              \/ fut'[f] = "ended" /\ f = "reader"
  <2>1. CASE Keeps!Reads
    BY <2>1 DEF Keeps!Reads, Keeps!stream, Keeps!Left, Keeps!Polled, KeepIInv, Keeps!TypeOK, Futures
  <2>2. CASE Keeps!ReadsEof
    BY <2>2 DEF Keeps!ReadsEof, Keeps!stream, Keeps!Left, Keeps!Polled, KeepIInv, Keeps!TypeOK, Futures
  <2>3. CASE Keeps!ReadParks
    BY <2>3 DEF Keeps!ReadParks, Keeps!stream, Keeps!Left, Keeps!Polled, KeepIInv, Keeps!TypeOK, Futures
  <2>4. CASE Keeps!Writes
    BY <2>4 DEF Keeps!Writes, Keeps!stream, Keeps!Left, Keeps!Polled, KeepIInv, Keeps!TypeOK, Futures
  <2>5. CASE Keeps!WriteParks
    BY <2>5 DEF Keeps!WriteParks, Keeps!stream, Keeps!Left, Keeps!Polled, KeepIInv, Keeps!TypeOK, Futures
  <2> QED
    BY <2>1, <2>2, <2>3, <2>4, <2>5
<1> QED
  BY <1>1, <1>2 DEF KeepIInv, Keeps!TypeOK, Keeps!NobodyForgotten, Keeps!ShutdownIsFinal,
    RestsWithin, FinishedSays, Keeps!redial, Futures

(* A shutdown is final.                                                    *)
LEMMA ShutdownKeeps ==
  ASSUME KeepIInv, Keeps!Shutdown
  PROVE  KeepIInv'
<1> USE FuturesAre
<1>1. /\ fut' \in [Futures -> {"due", "parked", "idle", "ended", "failed", "left"}]
      /\ fut'["writer"] = "ended"
  BY DEF Keeps!Shutdown, Keeps!Shuts, Keeps!ReaderInPoll, KeepIInv, Keeps!TypeOK, Futures
<1> QED
  BY <1>1 DEF Keeps!Shutdown, KeepIInv, Keeps!TypeOK, Keeps!NobodyForgotten,
    Keeps!ShutdownIsFinal, RestsWithin, FinishedSays, Futures

(* A step of the stream, or none, keeps its invariant.                     *)
LEMMA KeepStepKeeps == KeepIInv /\ KeepStep => KeepIInv'
<1> SUFFICES ASSUME KeepIInv, KeepStep PROVE KeepIInv'
  OBVIOUS
<1>1. CASE Keeps!Next
  BY <1>1, FuturesAre, PeerKeeps, DialKeeps, FedKeeps, PollKeeps, UseKeeps, ShutdownKeeps
  DEF Keeps!Next, PeerMoves, Keeps!PollRead, Keeps!PollWrite
<1>2. CASE UNCHANGED keepVars
  BY <1>2 DEF keepVars, KeepIInv, Keeps!TypeOK, Keeps!NobodyForgotten, Keeps!ShutdownIsFinal,
    RestsWithin, FinishedSays
<1> QED
  BY <1>1, <1>2 DEF KeepStep

(* What is known of a stream that reconnects holds of every state.         *)
LEMMA KeepInductive == StreamsSpec => []KeepIInv
<1>1. StreamsInit => KeepIInv
  BY KeepInit DEF StreamsInit
<1>2. KeepIInv /\ [StreamsNext]_allVars => KeepIInv'
  BY KeepStepKeeps, StreamsSteps
<1> QED
  BY <1>1, <1>2, PTL DEF StreamsSpec

(* Of one task that polls both directions, no future is forgotten: one that*)
(* is parked has left its waker, or its task's, with what ends its wait,   *)
(* but for a reader under which the writing direction shut the stream down *)
(* (poll_shutdown wakes nobody); and that stream opens nothing more.       *)
THEOREM NobodyIsForgotten == StreamsSpec => []FuturesInv
<1>1. KeepIInv => FuturesInv
  BY DEF KeepIInv, FuturesInv, Keeps!FuturesInv
<1> QED
  BY <1>1, KeepInductive, PTL

(* The reader comes to its end of stream only by the peer's close, or when *)
(* the writing direction has shut the stream down or given it up.          *)
LEMMA EofStep ==
  ASSUME KeepIInv, KeepStep, fut["reader"] # "ended", fut'["reader"] = "ended"
  PROVE  (state = "connected" /\ conn = "closed") \/ fut["writer"] = "ended" \/ Keeps!GivenUp
<1> USE FuturesAre
<1>1. CASE PeerMoves \/ Keeps!DialSettles \/ Keeps!RestElapses \/ Keeps!WriterFed
           \/ Keeps!ReaderReturns \/ Keeps!DropsRead
  BY <1>1 DEF Keeps!ReaderReturns, Keeps!DropsRead, PeerMoves, Keeps!Arrives, Keeps!PeerCloses, Keeps!PeerStalls, Keeps!PeerReads,
    Keeps!Breaks, Keeps!DialSettles, Keeps!RestElapses, Keeps!WriterFed, Keeps!Wake,
    Futures
<1>2. CASE \E f \in Futures : Keeps!PollShared(f)
  <2>1. Keeps!FindsFinished("reader")
    BY <1>2 DEF Keeps!PollShared, Keeps!FindsBroken, Keeps!DialPends, Keeps!DialRests,
      Keeps!DialAgain, Keeps!DialGivesUp, Keeps!Installs, Keeps!FindsFinished, Keeps!Left,
      KeepIInv, Keeps!TypeOK, Futures
  <2> QED
    BY <2>1 DEF Keeps!FindsFinished, Keeps!Polled, KeepIInv, FinishedSays, Keeps!GivenUp, Futures
<1>3. CASE Keeps!Reads \/ Keeps!ReadsEof \/ Keeps!ReadParks \/ Keeps!Writes \/ Keeps!WriteParks
           \/ Keeps!Shutdown \/ UNCHANGED keepVars
  BY <1>3 DEF Keeps!Reads, Keeps!ReadsEof, Keeps!ReadParks, Keeps!Writes, Keeps!WriteParks,
    Keeps!Shutdown, Keeps!Shuts, Keeps!ReaderInPoll, Keeps!Left, keepVars, KeepIInv, Keeps!TypeOK, Futures
<1> QED
  BY <1>1, <1>2, <1>3 DEF KeepStep, Keeps!Next, PeerMoves, Keeps!PollRead, Keeps!PollWrite

(* A stream kept over reconnections tells its reader of an end only if the *)
(* peer closed it, the writing direction shut it down or, of two tasks, the*)
(* writer's dial used up every attempt; never because a connection broke   *)
(* (poll_read of crates/tocat-core/src/endpoint/reconnecting.rs).          *)
THEOREM OnlyThePeerEnds == StreamsSpec => EofOnlyFromPeer
<1>1. KeepIInv /\ [StreamsNext]_allVars
        => [fut["reader"] # "ended" /\ fut'["reader"] = "ended"
              => \/ state = "connected" /\ conn = "closed"
                 \/ fut["writer"] = "ended"
                 \/ Keeps!GivenUp]_Keeps!vars
  BY StreamsSteps, EofStep
<1> QED
  BY <1>1, KeepInductive, PTL DEF StreamsSpec, EofOnlyFromPeer, Keeps!EofOnlyFromPeer
=============================================================================

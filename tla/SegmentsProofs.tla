--------------------------- MODULE SegmentsProofs ---------------------------
(***************************************************************************)
(* Proofs about Segments for every number of segments, every depth of the  *)
(* links, every amount held by the stages and every number of chunks.      *)
(***************************************************************************)
EXTENDS Segments, TLAPS

-----------------------------------------------------------------------------
(* Runs of consecutive chunks, and what the sequence operators make of     *)
(* them.                                                                   *)

(* Chunks queued behind a run extend it.                                   *)
LEMMA RunAppend ==
  ASSUME NEW s \in Seq(Nat), NEW b \in Nat, Run(s, b)
  PROVE  Run(Append(s, b + Len(s) + 1), b)
BY DEF Run

(* Taking the first chunk of a run leaves the run that follows it.         *)
LEMMA RunTail ==
  ASSUME NEW s \in Seq(Nat), s # <<>>, NEW b \in Nat, Run(s, b)
  PROVE  /\ Head(s) = b + 1
         /\ Len(s) \in Nat \ {0}
         /\ Len(Tail(s)) = Len(s) - 1
         /\ Run(Tail(s), b + 1)
BY DEF Run

(* Two runs that meet make one.                                            *)
LEMMA RunConcat ==
  ASSUME NEW s \in Seq(Nat), NEW t \in Seq(Nat), NEW b \in Nat,
         Run(s, b), Run(t, b + Len(s))
  PROVE  /\ Run(s \o t, b)
         /\ Len(s \o t) = Len(s) + Len(t)
         /\ s \o t \in Seq(Nat)
BY DEF Run

(* A run cut in two is two runs that meet.                                 *)
LEMMA RunSplit ==
  ASSUME NEW s \in Seq(Nat), NEW b \in Nat, Run(s, b), NEW k \in 0..Len(s)
  PROVE  /\ SubSeq(s, 1, k) \in Seq(Nat)
         /\ SubSeq(s, k + 1, Len(s)) \in Seq(Nat)
         /\ Len(SubSeq(s, 1, k)) = k
         /\ Len(SubSeq(s, k + 1, Len(s))) = Len(s) - k
         /\ Run(SubSeq(s, 1, k), b)
         /\ Run(SubSeq(s, k + 1, Len(s)), b + k)
BY SMTT(30) DEF Run

-----------------------------------------------------------------------------
(* Type correctness.                                                       *)

(* Both halves of a sequence of chunks are sequences of chunks.            *)
LEMMA SplitType ==
  ASSUME NEW s \in Seq(Nat), NEW k \in 0..Len(s)
  PROVE  SubSeq(s, 1, k) \in Seq(Nat) /\ SubSeq(s, k + 1, Len(s)) \in Seq(Nat)
OBVIOUS

(* The head is a segment, and so is the tail.                              *)
LEMMA HeadInSeg == 1 \in Seg
BY SegmentsAssumption DEF Seg

(* And so is the tail.                                                     *)
LEMMA TailInSeg == N \in Seg
BY SegmentsAssumption DEF Seg

(* A step of a segment leaves the types of the variables it does not touch.*)
LEMMA SameType ==
  /\ EnvType /\ UNCHANGED env => EnvType'
  /\ TaskType /\ UNCHANGED task => TaskType'
  /\ RestType /\ UNCHANGED rest => RestType'
BY DEF env, task, rest, EnvType, TaskType, RestType

(* What the stages hand on and keep has the types of both.                 *)
LEMMA HandsOnType ==
  ASSUME TaskType, NEW i \in Seg, NEW have \in Seq(Nat), NEW k \in 0..Len(have),
         NEW halt \in BOOLEAN, HandsOn(i, have, k, halt), got' \in [Seg -> Nat]
  PROVE  TaskType'
BY SplitType DEF HandsOn, TaskType, Goto, PC

(* So has what they make of the next chunk, or their failure.              *)
LEMMA ProcessType ==
  ASSUME TaskType, NEW i \in Seg, NEW c \in Nat, Process(i, c) \/ StageFails(i)
  PROVE  TaskType'
<1>1. CASE Process(i, c)
  <2> DEFINE have == Append(held[i], c)
  <2>1. have \in Seq(Nat) /\ Len(have) = Len(held[i]) + 1
    BY DEF TaskType
  <2>2. PICK k \in 0..Len(have), halt \in BOOLEAN : HandsOn(i, have, k, halt)
    BY <1>1, <2>1 DEF Process
  <2>3. got' \in [Seg -> Nat]
    BY <1>1 DEF Process, TaskType
  <2> QED
    BY <2>1, <2>2, <2>3, HandsOnType
<1>2. CASE StageFails(i)
  BY <1>2 DEF StageFails, TaskType, Goto, PC
<1> QED
  BY <1>1, <1>2

(* A step keeps every variable within its type.                            *)
LEMMA TypeStep == TypeOK /\ [Next]_vars => TypeOK'
<1> SUFFICES ASSUME EnvType, TaskType, RestType, [Next]_vars
             PROVE  EnvType' /\ TaskType' /\ RestType'
  BY DEF TypeOK
<1>0. CASE UNCHANGED vars
  BY <1>0, SameType DEF vars
<1>1. CASE PeerSend \/ PeerClose \/ PeerReset \/ Drain
  <2>0. got[1] \in Nat
    BY HeadInSeg DEF TaskType
  <2>1. EnvType'
    <3>1. CASE PeerSend \/ PeerClose \/ PeerReset
      BY <3>1 DEF PeerSend, PeerClose, PeerReset, EnvType
    <3>2. CASE Drain
      BY <2>0, <3>2 DEF Drain, EnvType
    <3> QED
      BY <1>1, <3>1, <3>2
  <2> QED
    BY <1>1, <2>1, SameType DEF PeerSend, PeerClose, PeerReset, Drain
<1>2. CASE SinkBreaks \/ Caller
  <2>1. UNCHANGED <<env, task>>
    BY <1>2 DEF SinkBreaks, Caller, HeadError, Join, Return
  <2>2. joined' \in Seg
    BY <1>2, SegmentsAssumption DEF SinkBreaks, Caller, HeadError, Join, Return, RestType, Seg
  <2>3. RestType'
    BY <1>2, <2>2 DEF SinkBreaks, Caller, HeadError, Join, Return, RestType
  <2> QED
    BY <2>1, <2>3, SameType
<1>3. CASE Dropped
  <2>1. TaskType'
    BY <1>3 DEF Dropped, TaskType, PC
  <2>2. RestType'
    BY <1>3 DEF Dropped, RestType
  <2> QED
    BY <1>3, <2>1, <2>2, SameType DEF Dropped
<1>4. ASSUME NEW i \in Seg, SegFault(i)
      PROVE  EnvType' /\ TaskType' /\ RestType'
  <2>1. TaskType'
    BY <1>4 DEF SegFault, ApplyFails, FinishFails, TaskType, Goto, PC
  <2> QED
    BY <1>4, <2>1, SameType DEF SegFault, ApplyFails, FinishFails
<1>5. ASSUME NEW i \in Seg, Tick(i)
      PROVE  EnvType' /\ TaskType' /\ RestType'
  <2>1. PICK k \in 0..Len(held[i]), halt \in BOOLEAN : HandsOn(i, held[i], k, halt)
    BY <1>5 DEF Tick
  <2>2. held[i] \in Seq(Nat) /\ got' \in [Seg -> Nat]
    BY <1>5 DEF Tick, TaskType
  <2> QED
    BY <1>5, <2>1, <2>2, HandsOnType, SameType DEF Tick
<1>6. ASSUME NEW i \in Seg, SegStep(i)
      PROVE  EnvType' /\ TaskType' /\ RestType'
  <2>1. CASE i = 1 /\ HeadTakes
    <3>1. EnvType'
      BY <2>1 DEF HeadTakes, EnvType
    <3>2. got[1] + 1 \in Nat
      BY HeadInSeg DEF TaskType
    <3> QED
      BY <2>1, <3>1, <3>2, ProcessType, SameType DEF HeadTakes
  <2>2. CASE i = 1 /\ (HeadLooks \/ HeadEnds \/ HeadReadFails)
    <3>1. TaskType'
      BY <2>2 DEF HeadLooks, HeadEnds, HeadReadFails, TaskType, Goto, PC
    <3> QED
      BY <2>2, <3>1, SameType DEF HeadLooks, HeadEnds, HeadReadFails
  <2>3. CASE InletTakes(i)
    <3>1. i - 1 \in Links
      BY <2>3, SegmentsAssumption DEF InletTakes, Seg, Links
    <3>2. Head(link[i - 1]) \in Nat /\ Tail(link[i - 1]) \in Seq(Nat)
      BY <2>3, <3>1 DEF InletTakes, RestType
    <3>3. RestType'
      BY <2>3, <3>1, <3>2 DEF InletTakes, RestType
    <3> QED
      BY <2>3, <3>2, <3>3, ProcessType, SameType DEF InletTakes
  <2>4. CASE InletEnds(i) \/ Flow(i) \/ DestFinish(i)
    <3>1. TaskType'
      BY <2>4 DEF InletEnds, Flow, LoopTop, DestFinish, TaskType, Goto, PC
    <3> QED
      BY <2>4, <3>1, SameType DEF InletEnds, Flow, DestFinish
  <2>5. CASE OutletRefused(i) \/ Finish(i)
    <3>1. TaskType'
      <4>1. CASE OutletRefused(i)
        BY <4>1 DEF OutletRefused, TaskType, Goto, PC
      <4>2. CASE Finish(i)
        BY <4>2 DEF Finish, TaskType, Goto, PC
      <4> QED
        BY <2>5, <4>1, <4>2
    <3> QED
      BY <2>5, <3>1, SameType DEF OutletRefused, Finish
  <2>6. CASE OutletSends(i)
    <3>1. i \in Links
      BY <2>6, SegmentsAssumption DEF OutletSends, Seg, Links
    <3>2. Head(out[i]) \in Nat /\ Tail(out[i]) \in Seq(Nat)
      BY <2>6 DEF OutletSends, Sending, TaskType
    <3>3. TaskType'
      BY <2>6, <3>2, SMTT(30) DEF OutletSends, TaskType
    <3>4. RestType'
      BY <2>6, <3>1, <3>2 DEF OutletSends, RestType
    <3> QED
      BY <2>6, <3>3, <3>4, SameType DEF OutletSends
  <2>7. CASE TailWrites(i)
    <3>1. out[i] \in Seq(Nat) /\ Len(out[i]) \in Nat /\ sink \in Seq(Nat)
      BY DEF TaskType, RestType
    <3>2. TaskType'
      BY <2>7, <3>1 DEF TailWrites, TaskType
    <3>3. RestType'
      BY <2>7, <3>1 DEF TailWrites, RestType
    <3> QED
      BY <2>7, <3>2, <3>3, SameType DEF TailWrites
  <2>8. CASE TailWriteFails(i)
    <3>1. out[i] \in Seq(Nat) /\ sink \in Seq(Nat)
      BY DEF TaskType, RestType
    <3>2. PICK k \in 0..(Len(out[i]) - 1) :
            /\ sink' = sink \o SubSeq(out[i], 1, k)
            /\ sent' = [sent EXCEPT ![i] = @ + k]
      BY <2>8 DEF TailWriteFails
    <3>3. k \in 0..Len(out[i]) /\ k \in Nat
      BY <3>1
    <3>4. TaskType'
      <4>1. sent' \in [Seg -> Nat]
        BY <3>2, <3>3 DEF TaskType
      <4>2. pc' \in [Seg -> PC]
        BY <2>8 DEF TailWriteFails, TaskType, Goto, PC
      <4> QED
        BY <2>8, <4>1, <4>2 DEF TailWriteFails, TaskType
    <3>5. RestType'
      BY <2>8, <3>1, <3>2, <3>3, SplitType, SMTT(30) DEF TailWriteFails, RestType
    <3> QED
      BY <2>8, <3>4, <3>5, SameType DEF TailWriteFails
  <2> QED
    BY <1>6, <2>1, <2>2, <2>3, <2>4, <2>5, <2>6, <2>7, <2>8 DEF SegStep
<1> QED
  BY <1>0, <1>1, <1>2, <1>3, <1>4, <1>5, <1>6 DEF Next, Acts

(* The types hold to begin with.                                           *)
LEMMA TypeInit == Init => TypeOK
<1> SUFFICES ASSUME Init PROVE EnvType /\ TaskType /\ RestType
  BY DEF TypeOK
<1>1. EnvType
  BY DEF Init, EnvType
<1>2. TaskType
  BY DEF Init, TaskType, PC, LoopTop
<1>3. joined \in Seg
  BY TailInSeg DEF Init
<1>4. RestType
  <2>1. link \in [Links -> Seq(Nat)] /\ sink \in Seq(Nat)
    BY DEF Init
  <2>2. broken \in BOOLEAN /\ result \in {"running", "ok", "err", "dropped"}
    BY DEF Init
  <2> QED
    BY <1>3, <2>1, <2>2 DEF RestType
<1> QED
  BY <1>1, <1>2, <1>4

(* Every variable keeps its type, in every behaviour of the segments.      *)
THEOREM TypeCorrect == Spec => []TypeOK
<1> QED
  BY TypeInit, TypeStep, PTL DEF Spec

-----------------------------------------------------------------------------
(* The inductive invariant.                                                *)

(* What a step of segment a leaves alone.                                  *)
SameSeg(j) ==
  /\ pc'[j] = pc[j] /\ held'[j] = held[j] /\ out'[j] = out[j]
  /\ got'[j] = got[j] /\ sent'[j] = sent[j] /\ halted'[j] = halted[j]

Frame(a) ==
  /\ \A j \in Seg \ {a} : SameSeg(j)
  /\ \A k \in Links \ {a - 1, a} : link'[k] = link[k]
  /\ a # N => sink' = sink
  /\ UNCHANGED <<signal, atSignal, joined, result>>

(* A step of segment a stays within that segment and its two links; only a *)
(* parked segment is handed a chunk or asked to halt; and an ended segment *)
(* takes no further step.                                                  *)
LEMMA Local ==
  ASSUME TypeOK, NEW a \in Seg, Acts(a)
  PROVE  /\ Frame(a)
         /\ ~Ended(a)
         /\ pc[a] # "parked" => got'[a] = got[a] /\ halted'[a] = halted[a]
<1> USE DEF Goto, TypeOK, TaskType, RestType, SameSeg
<1>0. UNCHANGED env => UNCHANGED <<signal, atSignal>>
  BY DEF env
<1>00. UNCHANGED rest => UNCHANGED <<joined, result, link, sink>>
  BY DEF rest
<1>1. ASSUME NEW have, NEW k, NEW halt \in BOOLEAN, HandsOn(a, have, k, halt),
             \A j \in Seg \ {a} : got'[j] = got[j]
      PROVE  \A j \in Seg \ {a} : SameSeg(j)
  BY <1>1 DEF HandsOn
<1>2. ASSUME NEW c, Process(a, c) \/ StageFails(a)
      PROVE  \A j \in Seg \ {a} : SameSeg(j)
  <2>1. CASE Process(a, c)
    BY <2>1, <1>1 DEF Process
  <2>2. CASE StageFails(a)
    BY <2>2 DEF StageFails
  <2> QED
    BY <1>2, <2>1, <2>2
<1>3. CASE Tick(a)
  <2>1. PICK k \in 0..Len(held[a]), halt \in BOOLEAN : HandsOn(a, held[a], k, halt)
    BY <1>3 DEF Tick
  <2>2. \A j \in Seg \ {a} : SameSeg(j)
    BY <1>3, <2>1, <1>1 DEF Tick
  <2> QED
    BY <1>3, <2>2, <1>0, <1>00 DEF Tick, Ended, Frame
<1>4. CASE SegFault(a)
  BY <1>4, <1>0, <1>00 DEF SegFault, ApplyFails, FinishFails, Ended, Frame
<1>5. CASE a = 1 /\ HeadTakes
  <2>1. \A j \in Seg \ {a} : SameSeg(j)
    BY <1>5, <1>2 DEF HeadTakes
  <2> QED
    BY <1>5, <2>1, <1>00 DEF HeadTakes, Ended, Frame
<1>6. CASE InletTakes(a)
  <2>1. \A j \in Seg \ {a} : SameSeg(j)
    BY <1>6, <1>2 DEF InletTakes
  <2>2. \A l \in Links \ {a - 1, a} : link'[l] = link[l]
    BY <1>6 DEF InletTakes
  <2> QED
    BY <1>6, <2>1, <2>2, <1>0 DEF InletTakes, Ended, Frame
<1>7. CASE a = 1 /\ (HeadLooks \/ HeadEnds \/ HeadReadFails)
  BY <1>7, <1>0, <1>00 DEF HeadLooks, HeadEnds, HeadReadFails, Ended, Frame
<1>8. CASE InletEnds(a) \/ Flow(a) \/ DestFinish(a)
  BY <1>8, <1>0, <1>00 DEF InletEnds, Flow, DestFinish, Ended, Frame
<1>9. CASE OutletRefused(a) \/ Finish(a)
  BY <1>9, <1>0, <1>00 DEF OutletRefused, Finish, Sending, Ended, Frame
<1>10. CASE OutletSends(a)
  BY <1>10, <1>0 DEF OutletSends, Sending, Ended, Frame
<1>11. CASE TailWrites(a) \/ TailWriteFails(a)
  BY <1>11, <1>0 DEF TailWrites, TailWriteFails, Sending, Ended, Frame
<1> QED
  BY <1>3, <1>4, <1>5, <1>6, <1>7, <1>8, <1>9, <1>10, <1>11 DEF Acts, SegStep

(* The stages of a segment that has a whole run hand on one and keep one.  *)
LEMMA HandsOnOwn ==
  ASSUME TypeOK, NEW a \in Seg, NEW have \in Seq(Nat), NEW k \in 0..Len(have),
         NEW halt \in BOOLEAN, HandsOn(a, have, k, halt),
         (pc[a] # "failed" /\ (a < N => ~Ended(a + 1)))'
           => Run(have, sent[a]) /\ sent[a] + Len(have) = got'[a]
  PROVE  IdleAt(a)' /\ SegAt(a)'
<1> USE DEF TypeOK, TaskType
<1>1. /\ pc'[a] = "send" /\ out'[a] = SubSeq(have, 1, k)
      /\ held'[a] = SubSeq(have, k + 1, Len(have)) /\ sent'[a] = sent[a]
  BY DEF HandsOn, Goto
<1>2. IdleAt(a)'
  BY <1>1 DEF IdleAt
<1>3. SegAt(a)'
  <2>1. SUFFICES ASSUME Run(have, sent[a]), sent[a] + Len(have) = got'[a]
                 PROVE  /\ Run(out'[a], sent'[a])
                        /\ Run(held'[a], sent'[a] + Len(out'[a]))
                        /\ sent'[a] + Len(out'[a]) + Len(held'[a]) = got'[a]
    BY DEF SegAt, Intact, Run
  <2>2. sent[a] \in Nat /\ Len(have) \in Nat /\ k \in Nat
    OBVIOUS
  <2>3. /\ Len(SubSeq(have, 1, k)) = k /\ Len(SubSeq(have, k + 1, Len(have))) = Len(have) - k
        /\ Run(SubSeq(have, 1, k), sent[a]) /\ Run(SubSeq(have, k + 1, Len(have)), sent[a] + k)
    BY <2>1, <2>2, RunSplit
  <2>4. Len(out'[a]) = k /\ Len(held'[a]) = Len(have) - k /\ sent'[a] = sent[a]
    BY <1>1, <2>3
  <2>5. sent'[a] + Len(out'[a]) = sent[a] + k
    BY <2>4
  <2>6. sent'[a] + Len(out'[a]) + Len(held'[a]) = got'[a]
    BY <2>1, <2>2, <2>4
  <2> QED
    BY <1>1, <2>3, <2>4, <2>5, <2>6
<1> QED
  BY <1>2, <1>3

(* The next chunk in order, handed to a segment that waits for it, keeps   *)
(* the segment's own account right.                                        *)
LEMMA ChunkOwn ==
  ASSUME TypeOK, NEW a \in Seg, IdleAt(a), SegAt(a), pc[a] = "parked",
         (a < N => ~Ended(a + 1))' => (a < N => ~Ended(a + 1)),
         Process(a, got[a] + 1) \/ StageFails(a)
  PROVE  IdleAt(a)' /\ SegAt(a)'
<1> USE DEF TypeOK, TaskType
<1> DEFINE c == got[a] + 1
           have == Append(held[a], c)
<1>1. CASE Process(a, c)
  <2>1. held[a] \in Seq(Nat) /\ sent[a] \in Nat /\ got[a] \in Nat /\ got'[a] = got[a] + 1
    BY <1>1 DEF Process
  <2>2. have \in Seq(Nat) /\ Len(have) = Len(held[a]) + 1 /\ Len(held[a]) \in Nat
    BY <2>1
  <2>3. PICK k \in 0..Len(have), halt \in BOOLEAN : HandsOn(a, have, k, halt)
    BY <1>1, <2>2 DEF Process
  <2>4. ASSUME (pc[a] # "failed" /\ (a < N => ~Ended(a + 1)))'
        PROVE  Run(have, sent[a]) /\ sent[a] + Len(have) = got'[a]
    <3>1. Intact(a) /\ Len(out[a]) = 0
      BY <2>4 DEF Intact, IdleAt
    <3>2. Run(held[a], sent[a]) /\ sent[a] + Len(held[a]) = got[a]
      BY <2>1, <2>2, <3>1 DEF SegAt
    <3> QED
      BY <2>1, <2>2, <3>2, RunAppend
  <2> QED
    BY <2>2, <2>3, <2>4, HandsOnOwn
<1>2. CASE StageFails(a)
  BY <1>2 DEF StageFails, Goto, IdleAt, SegAt, Intact
<1> QED
  BY <1>1, <1>2

(* The chunk at the front of a link is the next one its reader is due.     *)
LEMMA LinkHead ==
  ASSUME TypeOK, NEW a \in Seg, a > 1, LinkAt(a - 1), ~Ended(a), link[a - 1] # <<>>
  PROVE  /\ a - 1 \in Links
         /\ link[a - 1] \in Seq(Nat) /\ Tail(link[a - 1]) \in Seq(Nat)
         /\ Head(link[a - 1]) = got[a] + 1
         /\ Run(Tail(link[a - 1]), got[a] + 1)
         /\ Len(Tail(link[a - 1])) = Len(link[a - 1]) - 1
         /\ Len(link[a - 1]) \in Nat
<1>1. a - 1 \in Links /\ (a - 1) + 1 = a
  BY SegmentsAssumption DEF Seg, Links
<1>2. link[a - 1] \in Seq(Nat) /\ got[a] \in Nat
  BY <1>1 DEF TypeOK, TaskType, RestType
<1>3. Run(link[a - 1], got[a])
  BY <1>1 DEF LinkAt
<1> QED
  BY <1>1, <1>2, <1>3, RunTail

(* Every step of a segment keeps that segment's own account.               *)
LEMMA OwnStep ==
  ASSUME TypeOK, IdleInv, SegInv, LinkInv, NEW a \in Seg, Acts(a)
  PROVE  IdleAt(a)' /\ SegAt(a)'
<1>0. /\ IdleAt(a) /\ SegAt(a)
      /\ ~Ended(a)
      /\ (a < N => ~Ended(a + 1))' => (a < N => ~Ended(a + 1))
      /\ held[a] \in Seq(Nat) /\ out[a] \in Seq(Nat)
      /\ sent[a] \in Nat /\ got[a] \in Nat
  <2>1. a < N => a + 1 \in Seg \ {a}
    BY SegmentsAssumption DEF Seg
  <2>2. a < N => pc'[a + 1] = pc[a + 1]
    BY <2>1, Local DEF Frame, SameSeg
  <2> QED
    BY <2>2, Local DEF IdleInv, SegInv, Ended, TypeOK, TaskType
<1>1. CASE a = 1 /\ HeadTakes
  BY <1>0, <1>1, ChunkOwn DEF HeadTakes
<1>2. CASE InletTakes(a)
  <2>1. a > 1 /\ a - 1 \in Links
    BY <1>2, SegmentsAssumption DEF InletTakes, Seg, Links
  <2>2. Head(link[a - 1]) = got[a] + 1
    BY <1>0, <1>2, <2>1, LinkHead DEF InletTakes, LinkInv
  <2> QED
    BY <1>0, <1>2, <2>2, ChunkOwn DEF InletTakes
<1>3. CASE Tick(a)
  <2>1. PICK k \in 0..Len(held[a]), halt \in BOOLEAN : HandsOn(a, held[a], k, halt)
    BY <1>3 DEF Tick
  <2>2. ASSUME (pc[a] # "failed" /\ (a < N => ~Ended(a + 1)))'
        PROVE  Run(held[a], sent[a]) /\ sent[a] + Len(held[a]) = got'[a]
    <3>1. Intact(a) /\ Len(out[a]) = 0 /\ got' = got
      BY <1>0, <1>3, <2>2 DEF Tick, Intact, IdleAt
    <3> QED
      BY <1>0, <3>1 DEF SegAt
  <2> QED
    BY <1>0, <2>1, <2>2, HandsOnOwn
<1> USE DEF TypeOK, TaskType, Goto
<1>4. CASE ApplyFails(a) \/ FinishFails(a) \/ (a = 1 /\ HeadReadFails)
  BY <1>0, <1>4 DEF ApplyFails, FinishFails, HeadReadFails, IdleAt, SegAt, Intact
<1>5. CASE a = 1 /\ (HeadLooks \/ HeadEnds)
  <2>1. /\ pc'[a] \in {"parked", "finish"} /\ pc[a] \in {"read", "parked"}
        /\ UNCHANGED <<held, out, got, sent, halted>>
    BY <1>5 DEF HeadLooks, HeadEnds
  <2>2. IdleAt(a)'
    BY <1>0, <2>1 DEF IdleAt
  <2>3. Intact(a)' => Intact(a)
    BY <1>0, <2>1 DEF Intact
  <2> QED
    BY <1>0, <2>1, <2>2, <2>3 DEF SegAt, Run
<1>6. CASE InletEnds(a) \/ Flow(a)
  <2>1. /\ pc'[a] \in {"read", "parked", "finish"} /\ pc[a] \in {"parked", "send"}
        /\ out[a] = <<>>
        /\ halted[a] => pc'[a] = "finish"
        /\ UNCHANGED <<held, out, got, sent, halted>>
    BY <1>0, <1>6 DEF InletEnds, Flow, LoopTop, IdleAt
  <2>2. IdleAt(a)'
    BY <1>0, <2>1 DEF IdleAt
  <2>3. Intact(a)' => Intact(a)
    BY <1>0, <2>1 DEF Intact
  <2> QED
    BY <1>0, <2>1, <2>2, <2>3 DEF SegAt, Run
<1>7. CASE Finish(a)
  <2>1. /\ pc[a] = "finish" /\ pc'[a] = "drain" /\ out[a] = <<>>
        /\ out'[a] = held[a] /\ held'[a] = <<>>
        /\ UNCHANGED <<got, sent, halted>>
    BY <1>0, <1>7 DEF Finish, IdleAt
  <2>2. IdleAt(a)'
    BY <2>1 DEF IdleAt
  <2>3. Intact(a)' => Intact(a)
    BY <1>0, <2>1 DEF Intact
  <2> QED
    BY <1>0, <2>1, <2>2, <2>3 DEF SegAt, Run
<1>8. CASE DestFinish(a)
  <2>1. /\ pc[a] = "drain" /\ pc'[a] \in {"done", "failed"} /\ out[a] = <<>> /\ held[a] = <<>>
        /\ UNCHANGED <<out, held, got, sent, halted>>
    BY <1>0, <1>8 DEF DestFinish, IdleAt
  <2>2. IdleAt(a)'
    BY <2>1 DEF IdleAt
  <2>3. Intact(a)' => Intact(a)
    BY <1>0, <2>1 DEF Intact
  <2> QED
    BY <1>0, <2>1, <2>2, <2>3 DEF SegAt, Run
<1>9. CASE OutletSends(a)
  <2>1. /\ pc[a] \in {"send", "drain"} /\ out[a] # <<>>
        /\ out'[a] = Tail(out[a]) /\ sent'[a] = sent[a] + 1
        /\ UNCHANGED <<pc, held, got, halted>>
    BY <1>9 DEF OutletSends, Sending
  <2>2. IdleAt(a)'
    BY <1>0, <2>1 DEF IdleAt
  <2>3. Intact(a)' => Intact(a)
    BY <1>0, <2>1 DEF Intact
  <2>4. SUFFICES ASSUME Intact(a)
                 PROVE  /\ Run(out'[a], sent'[a])
                        /\ Run(held'[a], sent'[a] + Len(out'[a]))
                        /\ sent'[a] + Len(out'[a]) + Len(held'[a]) = got'[a]
    BY <2>2, <2>3 DEF SegAt, Run
  <2>5. /\ Run(Tail(out[a]), sent[a] + 1) /\ Len(out[a]) \in Nat
        /\ Len(Tail(out[a])) = Len(out[a]) - 1
    BY <1>0, <2>1, <2>4, RunTail DEF SegAt
  <2>6. (sent[a] + 1) + (Len(out[a]) - 1) = sent[a] + Len(out[a])
    BY <1>0, <2>5
  <2> QED
    BY <1>0, <2>1, <2>4, <2>5, <2>6 DEF SegAt
<1>10. CASE OutletRefused(a)
  BY <1>0, <1>10 DEF OutletRefused, Sending, IdleAt, SegAt, Intact
<1>11. CASE TailWrites(a)
  <2>1. /\ pc[a] \in {"send", "drain"} /\ out'[a] = <<>> /\ sent'[a] = sent[a] + Len(out[a])
        /\ UNCHANGED <<pc, held, got, halted>>
    BY <1>0, <1>11 DEF TailWrites, Sending
  <2>2. IdleAt(a)'
    BY <1>0, <2>1 DEF IdleAt
  <2>3. Intact(a)' => Intact(a)
    BY <1>0, <2>1 DEF Intact
  <2>4. Len(out[a]) \in Nat /\ Len(held[a]) \in Nat
    BY <1>0
  <2> QED
    BY <1>0, <2>1, <2>2, <2>3, <2>4 DEF SegAt, Run
<1>12. CASE TailWriteFails(a)
  BY <1>0, <1>12 DEF TailWriteFails, IdleAt, SegAt, Intact
<1> QED
  BY <1>1, <1>2, <1>3, <1>4, <1>5, <1>6, <1>7, <1>8, <1>9, <1>10, <1>11, <1>12
     DEF Acts, SegStep, SegFault

(* Which steps of a segment write its outgoing link, and which its         *)
(* incoming one.                                                           *)
LEMMA LinkFrame ==
  ASSUME TypeOK, NEW a \in Seg, Acts(a)
  PROVE  /\ a < N => OutletSends(a) \/ (sent'[a] = sent[a] /\ link'[a] = link[a])
         /\ a > 1 => InletTakes(a) \/ (got'[a] = got[a] /\ link'[a - 1] = link[a - 1])
<1>0. UNCHANGED rest => UNCHANGED link
  BY DEF rest
<1>1. CASE (a = 1 /\ HeadTakes) \/ InletTakes(a)
  <2>1. sent' = sent
    BY <1>1 DEF HeadTakes, InletTakes, Process, StageFails, HandsOn
  <2>2. CASE a = 1 /\ HeadTakes
    BY <1>0, <2>1, <2>2 DEF HeadTakes
  <2>3. CASE InletTakes(a)
    <3>1. a < N => link'[a] = link[a]
      BY <2>3, SegmentsAssumption DEF InletTakes, TypeOK, RestType, Seg, Links
    <3> QED
      BY <2>1, <2>3, <3>1
  <2> QED
    BY <1>1, <2>2, <2>3
<1>2. CASE a = 1 /\ (HeadLooks \/ HeadEnds \/ HeadReadFails)
  BY <1>0, <1>2 DEF HeadLooks, HeadEnds, HeadReadFails
<1>3. CASE OutletSends(a)
  <2>1. a > 1 => link'[a - 1] = link[a - 1]
    BY <1>3, SegmentsAssumption DEF OutletSends, TypeOK, RestType, Seg, Links
  <2> QED
    BY <1>3, <2>1 DEF OutletSends
<1>4. CASE TailWrites(a) \/ TailWriteFails(a)
  BY <1>4, SegmentsAssumption DEF TailWrites, TailWriteFails, Seg
<1>5. CASE InletEnds(a) \/ OutletRefused(a) \/ Flow(a) \/ Finish(a) \/ DestFinish(a)
  BY <1>0, <1>5 DEF InletEnds, OutletRefused, Flow, Finish, DestFinish
<1>6. CASE SegFault(a)
  BY <1>0, <1>6 DEF SegFault, ApplyFails, FinishFails
<1>7. CASE Tick(a)
  BY <1>0, <1>7 DEF Tick, HandsOn
<1> QED
  BY <1>1, <1>2, <1>3, <1>4, <1>5, <1>6, <1>7 DEF Acts, SegStep

(* Every step of a segment keeps every link between its two ends.          *)
LEMMA LinkStep ==
  ASSUME TypeOK, IdleInv, SegInv, LinkInv, NEW a \in Seg, Acts(a)
  PROVE  LinkInv'
<1> SUFFICES ASSUME NEW k \in Links PROVE LinkAt(k)'
  BY DEF LinkInv
<1>0. /\ k \in Seg /\ k + 1 \in Seg /\ k < N /\ k \in Nat /\ a \in Nat
      /\ LinkAt(k)
      /\ link[k] \in Seq(Nat) /\ sent[k] \in Nat /\ got[k + 1] \in Nat
      /\ Len(link[k]) \in Nat
  <2>1. k \in Seg /\ k + 1 \in Seg /\ k < N /\ k \in Nat /\ a \in Nat
    BY SegmentsAssumption DEF Seg, Links
  <2>2. link[k] \in Seq(Nat) /\ sent[k] \in Nat /\ got[k + 1] \in Nat
    BY <2>1 DEF TypeOK, TaskType, RestType
  <2> QED
    BY <2>1, <2>2 DEF LinkInv
<1>1. CASE a = k
  <2>1. pc'[k + 1] = pc[k + 1] /\ got'[k + 1] = got[k + 1]
    BY <1>0, <1>1, Local DEF Frame, SameSeg
  <2>2. CASE OutletSends(a)
    <3>1. /\ pc[a] \in {"send", "drain"} /\ out[a] # <<>> /\ ~Ended(a + 1)
          /\ link'[a] = Append(link[a], Head(out[a])) /\ sent'[a] = sent[a] + 1
      BY <1>0, <1>1, <2>2 DEF OutletSends, Sending, TypeOK, TaskType, RestType
    <3>2. Run(out[a], sent[a]) /\ out[a] \in Seq(Nat)
      BY <3>1 DEF SegInv, SegAt, Intact, TypeOK, TaskType
    <3>3. Head(out[a]) = sent[a] + 1
      BY <1>0, <1>1, <3>1, <3>2, RunTail
    <3>4. Run(link[k], got[k + 1]) /\ got[k + 1] + Len(link[k]) = sent[k]
      BY <1>0, <1>1, <3>1 DEF LinkAt
    <3>5. /\ Run(link'[k], got[k + 1]) /\ Len(link'[k]) = Len(link[k]) + 1
      BY <1>0, <1>1, <3>1, <3>3, <3>4, RunAppend, SMTT(30)
    <3> QED
      <4>1. Run(link[k], got[k + 1])'
        BY <2>1, <3>5 DEF Run
      <4>2. got'[k + 1] + Len(link'[k]) = sent'[k]
        BY <1>0, <1>1, <2>1, <3>1, <3>4, <3>5
      <4> QED
        BY <4>1, <4>2 DEF LinkAt
  <2>3. CASE sent'[a] = sent[a] /\ link'[a] = link[a]
    BY <1>0, <1>1, <2>1, <2>3 DEF LinkAt, Run, Ended
  <2> QED
    BY <1>0, <1>1, <2>2, <2>3, LinkFrame
<1>2. CASE a = k + 1
  <2>1. sent'[k] = sent[k] /\ ~Ended(a) /\ a > 1 /\ a - 1 = k
    <3>1. k \in Seg \ {a} /\ a > 1 /\ a - 1 = k
      BY <1>0, <1>2, SegmentsAssumption DEF Links
    <3> QED
      BY <3>1, Local DEF Frame, SameSeg
  <2>2. CASE InletTakes(a)
    <3>1. link[a - 1] # <<>> /\ link'[k] = Tail(link[k]) /\ got'[a] = got[a] + 1
      BY <1>0, <1>2, <2>1, <2>2
         DEF InletTakes, Process, StageFails, TypeOK, TaskType, RestType
    <3>2. /\ Run(link'[k], got[a] + 1) /\ Len(link'[k]) = Len(link[k]) - 1
      BY <1>0, <1>2, <2>1, <3>1, LinkHead
    <3> QED
      BY <1>0, <1>2, <2>1, <3>1, <3>2 DEF LinkAt, Run
  <2>3. CASE got'[a] = got[a] /\ link'[a - 1] = link[a - 1]
    BY <1>0, <1>2, <2>1, <2>3 DEF LinkAt, Run
  <2> QED
    BY <2>1, <2>2, <2>3, LinkFrame
<1>3. CASE a # k /\ a # k + 1
  <2>1. SameSeg(k) /\ SameSeg(k + 1) /\ link'[k] = link[k]
    BY <1>0, <1>3, Local DEF Frame
  <2> QED
    BY <1>0, <2>1 DEF LinkAt, Run, Ended, SameSeg
<1> QED
  BY <1>1, <1>2, <1>3

(* Every step of a segment keeps the far endpoint's account of what it was *)
(* given.                                                                  *)
LEMMA SinkStep ==
  ASSUME TypeOK, IdleInv, SegInv, SinkInv, NEW a \in Seg, Acts(a)
  PROVE  SinkInv'
<1>0. out[a] \in Seq(Nat) /\ sent[a] \in Nat /\ sink \in Seq(Nat) /\ Len(sink) \in Nat
  BY DEF TypeOK, TaskType, RestType
<1>1. CASE a # N
  <2>1. sink' = sink /\ sent'[N] = sent[N]
    BY <1>1, Local, TailInSeg DEF Frame, SameSeg
  <2> QED
    BY <2>1 DEF SinkInv, Run
<1>2. CASE TailWrites(a)
  <2>1. /\ a = N /\ pc[a] \in {"send", "drain"} /\ sink' = sink \o out[a]
        /\ sent'[a] = sent[a] + Len(out[a])
    BY <1>0, <1>2 DEF TailWrites, Sending, TypeOK, TaskType
  <2>2. Run(out[a], sent[a])
    BY <2>1, SegmentsAssumption DEF SegInv, SegAt, Intact
  <2>3. Run(sink, 0) /\ Len(sink) = sent[a] /\ 0 + Len(sink) = sent[a]
    BY <1>0, <2>1 DEF SinkInv
  <2>4. Run(sink \o out[a], 0) /\ Len(sink \o out[a]) = Len(sink) + Len(out[a])
    BY <1>0, <2>2, <2>3, RunConcat
  <2>5. Run(sink, 0)'
    BY <2>1, <2>4 DEF Run
  <2> QED
    BY <2>1, <2>3, <2>4, <2>5 DEF SinkInv
<1>3. CASE TailWriteFails(a)
  <2>1. PICK k \in 0..(Len(out[a]) - 1) :
          /\ sink' = sink \o SubSeq(out[a], 1, k)
          /\ sent' = [sent EXCEPT ![a] = @ + k]
    BY <1>3 DEF TailWriteFails
  <2>2. /\ a = N /\ pc[a] \in {"send", "drain"} /\ sent'[a] = sent[a] + k
        /\ k \in 0..Len(out[a])
    BY <1>0, <1>3, <2>1 DEF TailWriteFails, Sending, TypeOK, TaskType
  <2>3. Run(out[a], sent[a])
    BY <2>2, SegmentsAssumption DEF SegInv, SegAt, Intact
  <2>4. Run(sink, 0) /\ Len(sink) = sent[a] /\ 0 + Len(sink) = sent[a]
    BY <1>0, <2>2 DEF SinkInv
  <2>5. /\ SubSeq(out[a], 1, k) \in Seq(Nat) /\ Len(SubSeq(out[a], 1, k)) = k
        /\ Run(SubSeq(out[a], 1, k), sent[a])
    BY <1>0, <2>2, <2>3, RunSplit
  <2>6. Run(sink', 0) /\ Len(sink') = Len(sink) + k
    BY <1>0, <2>1, <2>4, <2>5, RunConcat
  <2>7. Run(sink, 0)'
    BY <2>6 DEF Run
  <2> QED
    BY <2>2, <2>4, <2>6, <2>7 DEF SinkInv
<1>4. CASE a = N /\ ~TailWrites(a) /\ ~TailWriteFails(a)
  <2>1. UNCHANGED rest => UNCHANGED sink
    BY DEF rest
  <2>2. sink' = sink
    BY <1>4, <2>1 DEF Acts, SegStep, SegFault, ApplyFails, FinishFails, Tick, HeadTakes,
       HeadLooks, HeadEnds, HeadReadFails, InletTakes, InletEnds, OutletSends,
       OutletRefused, Flow, Finish, DestFinish
  <2>3. sent' = sent
    <3>1. CASE HeadTakes \/ InletTakes(a) \/ Tick(a)
      BY <3>1 DEF HeadTakes, InletTakes, Tick, Process, StageFails, HandsOn
    <3>2. CASE OutletSends(a)
      BY <1>4, <3>2, SegmentsAssumption DEF OutletSends
    <3>3. CASE HeadLooks \/ HeadEnds \/ HeadReadFails \/ InletEnds(a) \/ OutletRefused(a)
      BY <3>3 DEF HeadLooks, HeadEnds, HeadReadFails, InletEnds, OutletRefused
    <3>4. CASE Flow(a) \/ Finish(a) \/ DestFinish(a) \/ SegFault(a)
      BY <3>4 DEF Flow, Finish, DestFinish, SegFault, ApplyFails, FinishFails
    <3> QED
      BY <1>4, <3>1, <3>2, <3>3, <3>4 DEF Acts, SegStep
  <2> QED
    BY <2>2, <2>3 DEF SinkInv, Run
<1> QED
  BY <1>1, <1>2, <1>3, <1>4

(* A failure is final and so is a request to halt.                         *)
LEMMA BrokeStable ==
  ASSUME TypeOK, IdleInv, NEW a \in Seg, Acts(a), NEW x \in Seg, Broke(x)
  PROVE  Broke(x)'
<1>1. PICK k \in x..N : pc[k] = "failed" \/ (k > x /\ halted[k])
  BY DEF Broke
<1>2. k \in Seg
  BY SegmentsAssumption DEF Seg
<1>3. pc'[k] = "failed" \/ (k > x /\ halted'[k])
  <2>1. CASE k = a
    BY <1>1, <2>1, Local DEF IdleInv, IdleAt, Ended
  <2>2. CASE k # a
    BY <1>1, <1>2, <2>2, Local DEF Frame, SameSeg
  <2> QED
    BY <2>1, <2>2
<1> QED
  BY <1>3 DEF Broke

(* A segment below the head begins to end in one of three ways.            *)
LEMMA BeginsToEnd ==
  ASSUME TypeOK, NEW a \in Seg, a # 1, Acts(a), ~Ending(a), Ending(a)'
  PROVE  InletEnds(a) \/ OutletRefused(a) \/ (Flow(a) /\ halted[a])
<1> USE DEF TypeOK, TaskType, Goto, Ending
<1>1. ~InletTakes(a) /\ ~Tick(a)
  BY DEF InletTakes, Tick, Process, StageFails, HandsOn
<1>2. ~OutletSends(a) /\ ~TailWrites(a) /\ ~TailWriteFails(a)
  BY DEF OutletSends, TailWrites, TailWriteFails
<1>3. ~Finish(a) /\ ~DestFinish(a) /\ ~SegFault(a)
  BY DEF Finish, DestFinish, SegFault, ApplyFails, FinishFails
<1>4. Flow(a) => halted[a]
  BY DEF Flow, LoopTop
<1> QED
  BY <1>1, <1>2, <1>3, <1>4 DEF Acts, SegStep

(* Every step of a segment keeps the reason why a segment is ending.       *)
LEMMA EndStep ==
  ASSUME TypeOK, IdleInv, SegInv, LinkInv, EndInv, NEW a \in Seg, Acts(a)
  PROVE  EndInv'
<1> SUFFICES ASSUME NEW j \in Seg, NEW x \in 1..j, Ending(j)', ~Broke(x)'
             PROVE  got'[j] = got'[x] /\ (x < j => pc'[x] = "done")
  BY DEF EndInv
<1>0. x \in Seg /\ x \in Nat /\ j \in Nat /\ x <= j /\ ~Broke(x)
  <2>1. x \in Seg /\ x \in Nat /\ j \in Nat /\ x <= j
    BY SegmentsAssumption DEF Seg
  <2> QED
    BY <2>1, BrokeStable
<1>1. CASE x = j
  BY <1>0, <1>1
<1>2. CASE x < j /\ j # a
  <2>1. SameSeg(j) /\ Ending(j)
    BY <1>2, Local DEF Frame, SameSeg, Ending
  <2>2. got[j] = got[x] /\ pc[x] = "done"
    BY <1>0, <1>2, <2>1 DEF EndInv
  <2>3. x # a
    BY <2>2, Local DEF Ended
  <2> QED
    BY <1>0, <2>1, <2>2, <2>3, Local DEF Frame, SameSeg
<1>3. CASE x < j /\ j = a
  <2>1. SameSeg(x)
    BY <1>0, <1>3, Local DEF Frame
  <2>2. SUFFICES got'[j] = got[j] /\ got[j] = got[x] /\ pc[x] = "done"
    BY <2>1 DEF SameSeg
  <2>3. CASE Ending(j)
    BY <1>0, <1>3, <2>3, Local DEF EndInv, Ending
  <2>4. CASE ~Ending(j)
    <3>1. InletEnds(j) \/ OutletRefused(j) \/ (Flow(j) /\ halted[j])
      BY <1>0, <1>3, <2>4, BeginsToEnd
    <3>2. ~halted[j]
      BY <1>0, <1>3 DEF Broke, Seg
    <3>3. got' = got
      BY <3>1 DEF InletEnds, OutletRefused, Flow
    <3>4. CASE InletEnds(j)
      <4>1. /\ j - 1 \in Links /\ j - 1 \in Seg /\ (j - 1) + 1 = j /\ j - 1 < N
            /\ x <= j - 1 /\ x \in 1..(j - 1)
        BY <1>0, <1>3, SegmentsAssumption DEF Seg, Links
      <4>2. Ended(j - 1) /\ link[j - 1] = <<>> /\ ~Ended(j)
        BY <1>3, <3>4, Local DEF InletEnds
      <4>3. pc[j - 1] = "done"
        BY <1>0, <4>1, <4>2 DEF Broke, Ended, Seg
      <4>4. got[j - 1] = got[x] /\ (x < j - 1 => pc[x] = "done")
        BY <1>0, <4>1, <4>3 DEF EndInv, Ending
      <4>5. Intact(j - 1) /\ out[j - 1] = <<>> /\ held[j - 1] = <<>>
        BY <4>1, <4>2, <4>3 DEF Intact, IdleInv, IdleAt
      <4>6. sent[j - 1] \in Nat /\ got[j] \in Nat
        BY <4>1 DEF TypeOK, TaskType
      <4>7. sent[j - 1] = got[j - 1]
        BY <4>1, <4>5, <4>6 DEF SegInv, SegAt
      <4>8. got[j] = sent[j - 1]
        BY <4>1, <4>2, <4>6 DEF LinkInv, LinkAt
      <4> QED
        BY <1>0, <3>3, <4>1, <4>3, <4>4, <4>7, <4>8
    <3>5. CASE OutletRefused(j)
      <4>1. /\ j + 1 \in Seg /\ Ended(j + 1) /\ x \in 1..(j + 1) /\ j \in 1..(j + 1)
            /\ x < j + 1 /\ j < j + 1 /\ j + 1 \in x..N
        BY <1>0, <1>3, <3>5, SegmentsAssumption DEF OutletRefused, Seg
      <4>2. pc[j + 1] = "done"
        BY <1>0, <4>1 DEF Broke, Ended
      <4>3. Broke(j) \/ pc[j] = "done"
        BY <4>1, <4>2 DEF EndInv, Ending
      <4>4. pc[j] # "done"
        BY <1>3, Local DEF Ended
      <4>5. Broke(x)
        BY <1>0, <1>3, <4>3, <4>4, SegmentsAssumption DEF Broke, Seg
      <4> QED
        BY <1>0, <4>5
    <3> QED
      BY <3>1, <3>2, <3>4, <3>5
  <2> QED
    BY <2>3, <2>4
<1> QED
  BY <1>0, <1>1, <1>2, <1>3

(* Every step of a segment sends and is handed only what came from above.  *)
LEMMA GotStep ==
  ASSUME TypeOK, IdleInv, SegInv, LinkInv, GotInv, NEW a \in Seg, Acts(a)
  PROVE  GotInv'
<1>0. /\ out[a] \in Seq(Nat) /\ held[a] \in Seq(Nat) /\ sent[a] \in Nat /\ got[a] \in Nat
      /\ Len(out[a]) \in Nat /\ Len(held[a]) \in Nat /\ ~Ended(a)
  BY Local DEF TypeOK, TaskType
<1>1. sent'[a] <= got'[a] /\ got'[a] >= got[a] /\ got'[a] \in Nat
  <2> USE DEF TypeOK, TaskType
  <2>1. CASE HeadTakes \/ InletTakes(a)
    <3>1. sent' = sent /\ (got'[a] = got[a] \/ got'[a] = got[a] + 1)
      BY <2>1 DEF HeadTakes, InletTakes, Process, StageFails, HandsOn
    <3> QED
      BY <1>0, <3>1 DEF GotInv
  <2>2. CASE OutletSends(a)
    <3>1. /\ Intact(a) /\ out[a] # <<>> /\ got' = got /\ sent'[a] = sent[a] + 1
      BY <1>0, <2>2 DEF OutletSends, Sending, Intact
    <3>2. Len(out[a]) >= 1
      BY <1>0, <3>1
    <3> QED
      BY <1>0, <3>1, <3>2 DEF SegInv, SegAt
  <2>3. CASE TailWrites(a) \/ TailWriteFails(a)
    <3>1. Intact(a) /\ got' = got
      BY <1>0, <2>3, SegmentsAssumption DEF TailWrites, TailWriteFails, Sending, Intact
    <3>2. PICK k \in 0..Len(out[a]) : sent'[a] = sent[a] + k
      BY <1>0, <2>3 DEF TailWrites, TailWriteFails
    <3> QED
      BY <1>0, <3>1, <3>2 DEF SegInv, SegAt
  <2>4. CASE HeadLooks \/ HeadEnds \/ HeadReadFails \/ InletEnds(a) \/ OutletRefused(a)
    BY <1>0, <2>4 DEF HeadLooks, HeadEnds, HeadReadFails, InletEnds, OutletRefused, GotInv
  <2>5. CASE Flow(a) \/ Finish(a) \/ DestFinish(a) \/ SegFault(a) \/ Tick(a)
    <3>1. got' = got /\ sent' = sent
      BY <2>5 DEF Flow, Finish, DestFinish, SegFault, ApplyFails, FinishFails, Tick, HandsOn
    <3> QED
      BY <1>0, <3>1 DEF GotInv
  <2> QED
    BY <2>1, <2>2, <2>3, <2>4, <2>5 DEF Acts, SegStep
<1>2. \A i \in Seg : sent'[i] <= got'[i]
  BY <1>1, Local DEF GotInv, Frame, SameSeg
<1>3. ASSUME NEW j \in Seg, NEW i \in 1..j PROVE got'[j] <= got'[i]
  <2>0. i \in Seg /\ got[i] \in Nat /\ got[j] \in Nat /\ got[j] <= got[i]
    <3>1. i \in Seg
      BY SegmentsAssumption DEF Seg
    <3> QED
      BY <3>1 DEF TypeOK, TaskType, GotInv
  <2>1. CASE j # a
    <3>1. got'[j] = got[j] /\ (i # a => got'[i] = got[i])
      BY <2>0, <2>1, Local DEF Frame, SameSeg
    <3> QED
      BY <1>0, <1>1, <2>0, <3>1
  <2>2. CASE j = a /\ i = a
    BY <1>1, <2>2
  <2>3. CASE j = a /\ i # a
    <3>1. got'[i] = got[i]
      BY <2>0, <2>3, Local DEF Frame, SameSeg
    <3>2. a > 1 /\ i <= a - 1 /\ a - 1 \in Links /\ a - 1 \in Seg /\ (a - 1) + 1 = a
          /\ i \in 1..(a - 1)
      BY <2>3, SegmentsAssumption DEF Seg, Links
    <3>3. CASE InletTakes(a)
      <4>1. got'[a] = got[a] + 1 /\ link[a - 1] # <<>>
        BY <3>3 DEF InletTakes, Process, StageFails, TypeOK, TaskType
      <4>2. link[a - 1] \in Seq(Nat) /\ sent[a - 1] \in Nat /\ got[a - 1] \in Nat
        BY <3>2 DEF TypeOK, TaskType, RestType
      <4>3. Len(link[a - 1]) \in Nat /\ Len(link[a - 1]) >= 1
        BY <4>1, <4>2
      <4>4. got[a] + Len(link[a - 1]) = sent[a - 1]
        BY <1>0, <3>2 DEF LinkInv, LinkAt
      <4>5. sent[a - 1] <= got[a - 1] /\ got[a - 1] <= got[i]
        BY <3>2 DEF GotInv
      <4> QED
        BY <1>0, <2>0, <2>3, <3>1, <4>1, <4>2, <4>3, <4>4, <4>5
    <3>4. CASE got'[a] = got[a]
      BY <2>0, <2>3, <3>1, <3>4
    <3> QED
      BY <3>2, <3>3, <3>4, LinkFrame
  <2> QED
    BY <2>1, <2>2, <2>3
<1> QED
  BY <1>2, <1>3 DEF GotInv

(* Every step of a segment keeps what the caller has seen joined.          *)
LEMMA JoinStep ==
  ASSUME TypeOK, JoinInv, NEW a \in Seg, Acts(a)
  PROVE  JoinInv'
<1>1. UNCHANGED <<joined, result>> /\ ~Ended(a)
  BY Local DEF Frame
<1>2. ASSUME NEW k \in Seg, pc[k] = "done" PROVE pc'[k] = "done"
  BY <1>1, <1>2, Local DEF Frame, SameSeg, Ended
<1>3. ~Ended(1)' => ~Ended(1)
  BY <1>1, HeadInSeg, Local DEF Frame, SameSeg, Ended
<1> QED
  BY <1>1, <1>2, <1>3, HeadInSeg DEF JoinInv

(* Every step of a segment keeps the number of reads after the signal.     *)
LEMMA SignalStep ==
  ASSUME TypeOK, SignalInv, NEW a \in Seg, Acts(a)
  PROVE  SignalInv'
<1>1. UNCHANGED <<signal, atSignal>>
  BY Local DEF Frame
<1>2. CASE a # 1
  <2>1. SameSeg(1)
    BY <1>2, HeadInSeg, Local DEF Frame
  <2> QED
    BY <1>1, <2>1 DEF SameSeg, SignalInv
<1>3. CASE a = 1
  <2>0. SUFFICES ASSUME signal PROVE SignalInv'
    BY <1>1 DEF SignalInv
  <2> USE DEF TypeOK, TaskType, Goto
  <2>1. CASE pc[1] = "parked"
    <3>1. got[1] = atSignal
      BY <2>0, <2>1 DEF SignalInv
    <3>2. CASE HeadTakes
      <4>1. pc'[1] # "parked" /\ got'[1] = got[1] + 1
        BY <3>2, HeadInSeg DEF HeadTakes, Process, StageFails, HandsOn
      <4> QED
        BY <1>1, <3>1, <4>1 DEF SignalInv
    <3>3. CASE ~HeadTakes
      <4>1. got' = got
        BY <1>3, <3>3, <2>1 DEF Acts, SegStep, SegFault, HeadLooks, HeadEnds, HeadReadFails,
           InletTakes, InletEnds, OutletSends, OutletRefused, TailWrites, TailWriteFails,
           Sending, Flow, Finish, DestFinish, ApplyFails, FinishFails, Tick
      <4> QED
        BY <1>1, <3>1, <4>1 DEF SignalInv
    <3> QED
      BY <3>2, <3>3
  <2>2. CASE pc[1] # "parked"
    <3>1. got'[1] = got[1]
      BY <1>3, <2>2, Local
    <3>2. pc'[1] # "parked"
      <4>1. ~HeadTakes /\ ~HeadEnds /\ ~HeadReadFails /\ ~InletTakes(1) /\ ~InletEnds(1) /\ ~Tick(1)
        BY <2>2 DEF HeadTakes, HeadEnds, HeadReadFails, InletTakes, InletEnds, Tick
      <4>2. HeadLooks => pc'[1] # "parked"
        BY <2>0, HeadInSeg DEF HeadLooks
      <4>3. OutletSends(1) \/ TailWrites(1) => pc'[1] # "parked"
        BY <2>2 DEF OutletSends, TailWrites
      <4>4. OutletRefused(1) \/ Flow(1) \/ TailWriteFails(1) => pc'[1] # "parked"
        BY HeadInSeg DEF OutletRefused, Flow, LoopTop, TailWriteFails
      <4>5. Finish(1) \/ DestFinish(1) \/ SegFault(1) => pc'[1] # "parked"
        BY HeadInSeg DEF Finish, DestFinish, SegFault, ApplyFails, FinishFails
      <4> QED
        BY <1>3, <4>1, <4>2, <4>3, <4>4, <4>5 DEF Acts, SegStep
    <3> QED
      BY <1>1, <3>1, <3>2 DEF SignalInv
  <2> QED
    BY <2>1, <2>2
<1> QED
  BY <1>2, <1>3

(* The steps of the world and of the caller keep the invariant.            *)
LEMMA OutsideStep ==
  ASSUME IInv, PeerSend \/ PeerClose \/ PeerReset \/ Drain \/ SinkBreaks \/ Caller
  PROVE  IInv'
<1> USE DEF IInv
<1>1. TypeOK'
  BY TypeStep DEF Next
<1>2. UNCHANGED <<task, link, sink>>
  BY DEF PeerSend, PeerClose, PeerReset, Drain, SinkBreaks, Caller, HeadError, Join, Return, rest
<1>3. UNCHANGED <<pc, held, out, got, sent, halted, link, sink>>
  BY <1>2 DEF task
<1>4. IdleInv' /\ SegInv' /\ LinkInv' /\ SinkInv'
  BY <1>3 DEF IdleInv, IdleAt, SegInv, SegAt, Intact, Ended, LinkInv, LinkAt, SinkInv, Run
<1>5. EndInv'
  BY <1>3 DEF EndInv, Ending, Broke
<1>55. GotInv'
  BY <1>3 DEF GotInv
<1>6. JoinInv'
  <2>1. CASE PeerSend \/ PeerClose \/ PeerReset \/ Drain \/ SinkBreaks
    BY <1>3, <2>1 DEF PeerSend, PeerClose, PeerReset, Drain, SinkBreaks, rest, JoinInv, Ended
  <2>2. CASE HeadError
    BY <1>3, <2>2 DEF HeadError, JoinInv, Ended
  <2>3. CASE Join
    BY <1>3, <2>3, SegmentsAssumption
       DEF Join, JoinInv, Ended, TypeOK, RestType, Seg
  <2>4. CASE Return
    BY <1>3, <2>4 DEF Return, JoinInv, Ended
  <2> QED
    BY <2>1, <2>2, <2>3, <2>4 DEF Caller
<1>7. SignalInv'
  <2>1. CASE Drain
    BY <1>3, <2>1 DEF Drain, SignalInv
  <2>2. CASE PeerSend \/ PeerClose \/ PeerReset \/ SinkBreaks \/ Caller
    BY <1>3, <2>2 DEF PeerSend, PeerClose, PeerReset, SinkBreaks, Caller, HeadError, Join,
       Return, env, SignalInv
  <2> QED
    BY <2>1, <2>2
<1> QED
  BY <1>1, <1>4, <1>5, <1>55, <1>6, <1>7

(* So does the caller dropping the direction, and the head with it.        *)
LEMMA DroppedStep ==
  ASSUME IInv, Dropped
  PROVE  IInv'
<1> USE DEF IInv
<1>1. TypeOK'
  BY TypeStep DEF Next
<1>2. /\ pc'[1] = IF Ended(1) THEN pc[1] ELSE "failed"
      /\ \A j \in Seg \ {1} : pc'[j] = pc[j]
      /\ UNCHANGED <<env, held, out, got, sent, halted, link, sink, joined>>
      /\ result = "running" /\ result' = "dropped"
  BY HeadInSeg DEF Dropped, TypeOK, TaskType
<1>3. \A j \in Seg : /\ pc[j] = "failed" => pc'[j] = "failed"
                     /\ pc[j] = "done" => pc'[j] = "done"
                     /\ pc'[j] # pc[j] => pc'[j] = "failed"
  BY <1>2, HeadInSeg DEF Ended
<1>4. IdleInv'
  BY <1>2, <1>3 DEF IdleInv, IdleAt
<1>5. SegInv' /\ LinkInv'
  <2>1. \A j \in Seg : j < N => j + 1 \in Seg
    BY SegmentsAssumption DEF Seg
  <2>2. \A k \in Links : k + 1 \in Seg
    BY SegmentsAssumption DEF Links, Seg
  <2>3. \A j \in Seg : Intact(j)' => Intact(j)
    BY <1>3, <2>1 DEF Intact, Ended
  <2>4. \A k \in Links : ~Ended(k + 1)' => ~Ended(k + 1)
    BY <1>3, <2>2 DEF Ended
  <2>5. SegInv'
    BY <1>2, <2>3 DEF SegInv, SegAt, Run
  <2>6. LinkInv'
    BY <1>2, <2>4 DEF LinkInv, LinkAt, Run
  <2> QED
    BY <2>5, <2>6
<1>6. SinkInv'
  BY <1>2 DEF SinkInv, Run
<1>7. EndInv'
  <2>1. \A j \in Seg : \A x \in 1..j : x \in Seg
    BY SegmentsAssumption DEF Seg
  <2>2. \A x \in Seg : Broke(x) => Broke(x)'
    BY <1>2, <1>3, SegmentsAssumption DEF Broke, Seg
  <2>3. \A j \in Seg : Ending(j)' => Ending(j)
    BY <1>3 DEF Ending
  <2> QED
    BY <1>2, <1>3, <2>1, <2>2, <2>3 DEF EndInv
<1>77. GotInv'
  BY <1>2 DEF GotInv
<1>8. JoinInv'
  BY <1>2, <1>3, HeadInSeg DEF JoinInv, Ended
<1>9. SignalInv'
  BY <1>2, <1>3, HeadInSeg DEF SignalInv, env
<1> QED
  BY <1>1, <1>4, <1>5, <1>6, <1>7, <1>77, <1>8, <1>9

(* The invariant holds in every behaviour of the segments.                 *)
THEOREM Inductive == Spec => []IInv
<1>1. Init => IInv
  <2> SUFFICES ASSUME Init PROVE IInv
    OBVIOUS
  <2> USE DEF Init, LoopTop
  <2>1. TypeOK
    BY TypeInit
  <2>2. IdleInv
    BY DEF IdleInv, IdleAt
  <2>3. SegInv
    BY DEF SegInv, SegAt, Run
  <2>4. LinkInv
    BY SegmentsAssumption DEF LinkInv, LinkAt, Run, Links, Seg
  <2>5. SinkInv
    BY TailInSeg DEF SinkInv, Run
  <2>6. EndInv
    BY DEF EndInv, Ending
  <2>7. GotInv
    BY SegmentsAssumption DEF GotInv, Seg
  <2>8. JoinInv
    BY HeadInSeg, SegmentsAssumption DEF JoinInv, Ended, Seg
  <2>9. SignalInv
    BY DEF SignalInv
  <2> QED
    BY <2>1, <2>2, <2>3, <2>4, <2>5, <2>6, <2>7, <2>8, <2>9 DEF IInv
<1>2. IInv /\ [Next]_vars => IInv'
  <2> SUFFICES ASSUME IInv, [Next]_vars PROVE IInv'
    OBVIOUS
  <2>1. CASE UNCHANGED vars
    <3>1. UNCHANGED <<pc, held, out, got, sent, halted, link, sink>>
      BY <2>1 DEF vars, task, rest
    <3>2. UNCHANGED <<signal, atSignal, joined, result>>
      BY <2>1 DEF vars, env, rest
    <3>3. TypeOK'
      BY TypeStep DEF IInv
    <3>4. IdleInv' /\ SegInv' /\ LinkInv' /\ SinkInv'
      BY <3>1 DEF IInv, IdleInv, IdleAt, SegInv, SegAt, Intact, Ended, LinkInv, LinkAt, SinkInv, Run
    <3>5. EndInv' /\ GotInv'
      BY <3>1 DEF IInv, EndInv, Ending, Broke, GotInv
    <3>6. JoinInv' /\ SignalInv'
      BY <3>1, <3>2 DEF IInv, JoinInv, Ended, SignalInv
    <3> QED
      BY <3>3, <3>4, <3>5, <3>6 DEF IInv
  <2>2. ASSUME NEW a \in Seg, Acts(a) PROVE IInv'
    <3> USE DEF IInv
    <3>1. TypeOK'
      BY <2>2, TypeStep DEF Next
    <3>2. ASSUME NEW i \in Seg PROVE IdleAt(i)' /\ SegAt(i)'
      <4>1. CASE i = a
        BY <2>2, <4>1, OwnStep
      <4>2. CASE i # a
        <5>1. i < N => i + 1 \in Seg
          BY SegmentsAssumption DEF Seg
        <5>2. SameSeg(i)
          BY <2>2, <4>2, Local DEF Frame
        <5>3. Intact(i)' => Intact(i)
          BY <2>2, <5>1, <5>2, Local DEF Frame, SameSeg, Intact, Ended
        <5>4. IdleAt(i) /\ SegAt(i)
          BY DEF IdleInv, SegInv
        <5> QED
          BY <5>2, <5>3, <5>4 DEF SameSeg, IdleAt, SegAt, Run
      <4> QED
        BY <4>1, <4>2
    <3>3. IdleInv' /\ SegInv'
      BY <3>2 DEF IdleInv, SegInv
    <3>4. LinkInv' /\ SinkInv'
      BY <2>2, LinkStep, SinkStep
    <3>5. EndInv' /\ GotInv'
      BY <2>2, EndStep, GotStep
    <3>6. JoinInv' /\ SignalInv'
      BY <2>2, JoinStep, SignalStep
    <3> QED
      BY <3>1, <3>3, <3>4, <3>5, <3>6
  <2> QED
    BY <2>1, <2>2, OutsideStep, DroppedStep DEF Next
<1> QED
  BY <1>1, <1>2, PTL DEF Spec

-----------------------------------------------------------------------------
(* What the invariant says of the two endpoints.                           *)

(* When every segment ended well and none below segment i chose to stop,   *)
(* what segment i was handed has reached the far endpoint.                 *)
LEMMA AllDelivered ==
  ASSUME IInv, \A k \in Seg : pc[k] = "done",
         NEW i \in Seg, \A j \in (i + 1)..N : ~halted[j]
  PROVE  Len(sink) = got[i]
<1> USE DEF IInv
<1>0. N \in Seg /\ i \in 1..N /\ N \in Nat
  BY SegmentsAssumption DEF Seg
<1>1. ~Broke(i)
  BY <1>0, SegmentsAssumption DEF Broke, Seg
<1>2. got[N] = got[i]
  BY <1>0, <1>1 DEF EndInv, Ending
<1>3. Intact(N) /\ out[N] = <<>> /\ held[N] = <<>>
  BY <1>0 DEF Intact, IdleInv, IdleAt
<1>4. sent[N] \in Nat /\ got[N] \in Nat
  BY <1>0 DEF TypeOK, TaskType
<1>5. sent[N] = got[N]
  BY <1>0, <1>3, <1>4 DEF SegInv, SegAt
<1> QED
  BY <1>2, <1>5 DEF SinkInv

(* Success means every segment ended well.                                 *)
LEMMA OkMeansDone ==
  ASSUME IInv, result = "ok" \/ (pc[1] = "done" /\ joined = 1)
  PROVE  \A k \in Seg : pc[k] = "done"
BY SegmentsAssumption DEF IInv, JoinInv, Seg

(* The far peer sees the chunks in the order they were read, none missing  *)
(* and none twice, for any number of segments (pump.rs, "Shutdown").       *)
THEOREM Order == Spec => []DeliveredInOrder
<1>1. IInv => DeliveredInOrder
  BY DEF IInv, SinkInv, Run, DeliveredInOrder, TypeOK, RestType
<1> QED
  BY <1>1, Inductive, PTL

(* A pump that reports success has lost nothing that it owed: the cascade  *)
(* of run_pipeline's ends and run_segmented's joins are enough for that.   *)
THEOREM NothingLost == Spec => []NothingOwedIsLost
<1>1. IInv => NothingOwedIsLost
  BY OkMeansDone, AllDelivered DEF NothingOwedIsLost
<1> QED
  BY <1>1, Inductive, PTL

(* One read at most is finished once the signal is up (read_or_stop).      *)
THEOREM OneAfterSignal == Spec => []AtMostOneAfterSignal
<1>1. IInv => AtMostOneAfterSignal
  <2> SUFFICES ASSUME IInv, signal PROVE got[1] <= atSignal + 1
    BY DEF AtMostOneAfterSignal
  <2>1. got[1] \in Nat /\ atSignal \in Nat
    BY HeadInSeg DEF IInv, TypeOK, TaskType, EnvType
  <2> QED
    BY <2>1 DEF IInv, SignalInv
<1> QED
  BY <1>1, Inductive, PTL

-----------------------------------------------------------------------------
(* The segments implement Direction.                                       *)

(* A run is the sequence of its chunks.                                    *)
LEMMA RunIs ==
  ASSUME NEW s \in Seq(Nat), NEW b \in Nat, Run(s, b)
  PROVE  s = [k \in 1..Len(s) |-> b + k]
BY DEF Run

(* A write gives the far endpoint the next chunks, never one unread.       *)
LEMMA WriteGives ==
  ASSUME IInv, NEW s \in Seq(Nat), Run(s, Len(sink)), Len(s) > 0,
         Len(sink) + Len(s) <= got[1],
         sink' = sink \o s, result # "ok", got'[1] = got[1],
         UNCHANGED <<halted, signal, atSignal, result>>
  PROVE  Promise!Give
<1>1. Len(sink) \in Nat /\ Len(s) \in Nat /\ got[1] \in Nat
  BY HeadInSeg DEF IInv, TypeOK, TaskType, RestType
<1>2. s = [k \in 1..Len(s) |-> Len(sink) + k]
  BY <1>1, RunIs
<1>3. Len(s) \in 1..(got[1] - Len(sink))
  BY <1>1
<1> QED
  BY <1>2, <1>3 DEF Promise!Give

(* A step that neither reads nor writes is a cut or nothing.               *)
LEMMA CutOrNothing ==
  ASSUME got'[1] = got[1], UNCHANGED <<sink, signal, atSignal, result>>, result # "ok",
         \A i \in 2..N : halted[i] => halted'[i]
  PROVE  Promise!Cut \/ UNCHANGED Promise!vars
<1>1. CASE \A i \in 2..N : halted'[i] => halted[i]
  <2>1. (\E i \in 2..N : halted'[i]) <=> (\E i \in 2..N : halted[i])
    BY <1>1
  <2> QED
    BY <2>1 DEF Promise!vars
<1>2. CASE \E i \in 2..N : halted'[i]
  <2>1. (\E i \in 2..N : halted'[i]) = TRUE
    BY <1>2
  <2> QED
    BY <2>1 DEF Promise!Cut
<1> QED
  BY <1>1, <1>2

(* A segment's step takes, gives, cuts, or is not seen from outside.       *)
LEMMA ActsPromise ==
  ASSUME IInv, NEW a \in Seg, Acts(a)
  PROVE  Promise!Next \/ UNCHANGED Promise!vars
<1>0. /\ result # "ok" /\ ~Ended(a)
      /\ UNCHANGED <<signal, atSignal, result>>
      /\ \A i \in Seg : halted[i] => halted'[i]
      /\ a # 1 => got'[1] = got[1]
      /\ a # N => sink' = sink
  <2>1. UNCHANGED <<signal, atSignal, result>> /\ ~Ended(a) /\ (a # N => sink' = sink)
    BY Local DEF IInv, Frame
  <2>2. \A i \in Seg : halted[i] => halted'[i]
    BY Local DEF IInv, IdleInv, IdleAt, Frame, SameSeg
  <2>3. a # 1 => got'[1] = got[1]
    BY HeadInSeg, Local DEF IInv, Frame, SameSeg
  <2>4. result # "ok"
    BY <2>1, OkMeansDone DEF Ended
  <2> QED
    BY <2>1, <2>2, <2>3, <2>4
<1>1. \A i \in 2..N : halted[i] => halted'[i]
  BY <1>0 DEF Seg
<1>2. CASE TailWrites(a) \/ TailWriteFails(a)
  <2>1. /\ a = N /\ Intact(a) /\ got' = got /\ halted' = halted
        /\ out[a] \in Seq(Nat) /\ Len(out[a]) \in Nat /\ out[a] # <<>>
        /\ sent[a] \in Nat /\ Len(sink) = sent[a]
    BY <1>0, <1>2, SegmentsAssumption DEF TailWrites, TailWriteFails, Sending, Intact, IInv,
       SinkInv, TypeOK, TaskType
  <2>2. PICK k \in 0..Len(out[a]) : sink' = sink \o SubSeq(out[a], 1, k)
    <3>1. out[a] = SubSeq(out[a], 1, Len(out[a]))
      BY <2>1
    <3>2. CASE TailWrites(a)
      <4>1. sink' = sink \o SubSeq(out[a], 1, Len(out[a]))
        BY <3>1, <3>2 DEF TailWrites
      <4>2. Len(out[a]) \in 0..Len(out[a])
        BY <2>1
      <4> QED
        BY <4>1, <4>2
    <3>3. CASE TailWriteFails(a)
      <4>1. PICK k \in 0..(Len(out[a]) - 1) : sink' = sink \o SubSeq(out[a], 1, k)
        BY <3>3 DEF TailWriteFails
      <4>2. k \in 0..Len(out[a])
        BY <2>1
      <4> QED
        BY <4>1, <4>2
    <3> QED
      BY <1>2, <3>2, <3>3
  <2> DEFINE s == SubSeq(out[a], 1, k)
  <2>3. s \in Seq(Nat) /\ Len(s) = k /\ Run(s, Len(sink))
    BY <2>1, RunSplit, SMTT(30) DEF IInv, SegInv, SegAt
  <2>4. Len(sink) + Len(s) <= got[1]
    <3>1. sent[a] + Len(out[a]) <= got[a]
      BY <2>1 DEF IInv, SegInv, SegAt, TypeOK, TaskType
    <3>2. got[a] <= got[1] /\ got[a] \in Nat /\ got[1] \in Nat
      BY HeadInSeg, SegmentsAssumption DEF IInv, GotInv, TypeOK, TaskType, Seg
    <3> QED
      BY <2>1, <2>3, <3>1, <3>2
  <2>5. CASE k = 0
    <3>1. sink' = sink
      BY <2>2, <2>3, <2>5 DEF IInv, TypeOK, RestType
    <3> QED
      BY <1>0, <1>1, <2>1, <3>1, CutOrNothing DEF Promise!Next
  <2>6. CASE k > 0
    BY <1>0, <2>1, <2>2, <2>3, <2>4, <2>6, WriteGives DEF Promise!Next
  <2> QED
    BY <2>5, <2>6
<1>3. CASE a = 1 /\ HeadTakes
  <2>1. /\ got'[1] = got[1] + 1 /\ UNCHANGED sink
        /\ \A i \in 2..N : halted'[i] = halted[i]
        /\ pc[1] = "parked"
    <3>1. UNCHANGED rest => UNCHANGED sink
      BY DEF rest
    <3>2. got'[1] = got[1] + 1
      BY <1>3, HeadInSeg DEF HeadTakes, Process, StageFails, IInv, TypeOK, TaskType
    <3>3. \A i \in 2..N : halted'[i] = halted[i]
      BY <1>3, Local DEF Frame, SameSeg, IInv, Seg
    <3> QED
      BY <1>3, <3>1, <3>2, <3>3 DEF HeadTakes
  <2>2. result = "running" /\ got[1] \in Nat /\ atSignal \in Nat
    BY <1>0, <1>3, HeadInSeg DEF IInv, JoinInv, TypeOK, TaskType, EnvType
  <2>3. signal => got[1] = atSignal
    BY <2>1 DEF IInv, SignalInv
  <2>4. (\E i \in 2..N : halted'[i]) <=> (\E i \in 2..N : halted[i])
    BY <2>1
  <2> QED
    BY <1>0, <2>1, <2>2, <2>3, <2>4 DEF Promise!Next, Promise!Take
<1>4. CASE ~(TailWrites(a) \/ TailWriteFails(a)) /\ ~(a = 1 /\ HeadTakes)
  <2>1. UNCHANGED rest => UNCHANGED sink
    BY DEF rest
  <2>2. sink' = sink
    BY <1>4, <2>1 DEF Acts, SegStep, SegFault, ApplyFails, FinishFails, Tick,
       HeadLooks, HeadEnds, HeadReadFails, InletTakes, InletEnds, OutletSends,
       OutletRefused, Flow, Finish, DestFinish
  <2>3. a = 1 => got' = got
    <3>1. SUFFICES ASSUME a = 1 PROVE got' = got
      OBVIOUS
    <3>2. CASE HeadLooks \/ HeadEnds \/ HeadReadFails \/ OutletSends(a) \/ OutletRefused(a)
      BY <3>2 DEF HeadLooks, HeadEnds, HeadReadFails, OutletSends, OutletRefused
    <3>3. CASE Flow(a) \/ Finish(a) \/ DestFinish(a) \/ SegFault(a) \/ Tick(a)
      BY <3>3 DEF Flow, Finish, DestFinish, SegFault, ApplyFails, FinishFails, Tick
    <3>4. ~InletTakes(a) /\ ~InletEnds(a)
      BY <3>1 DEF InletTakes, InletEnds
    <3> QED
      BY <1>4, <3>1, <3>2, <3>3, <3>4 DEF Acts, SegStep
  <2>4. got'[1] = got[1]
    BY <1>0, <2>3
  <2> QED
    BY <1>0, <1>1, <2>2, <2>4, CutOrNothing DEF Promise!Next
<1> QED
  BY <1>2, <1>3, <1>4

(* The segments keep the promise of Direction: what pump tells its caller  *)
(* is true of the two endpoints, however many tasks the chain was cut into.*)
THEOREM Implements == Spec => KeepsPromise
<1>1. Init => Promise!Init
  BY HeadInSeg DEF Init, Promise!Init, Seg
<1>2. IInv /\ [Next]_vars => [Promise!Next]_(Promise!vars)
  <2> SUFFICES ASSUME IInv, [Next]_vars
               PROVE  Promise!Next \/ UNCHANGED Promise!vars
    OBVIOUS
  <2>1. CASE UNCHANGED vars
    BY <2>1 DEF vars, env, task, rest, Promise!vars
  <2>2. CASE Drain
    <3>1. UNCHANGED <<got, halted, sink, result>> /\ atSignal' = got[1] /\ ~signal /\ signal'
      BY <2>2 DEF Drain, task, rest
    <3> QED
      BY <3>1 DEF Promise!Next, Promise!Signal
  <2>3. CASE PeerSend \/ PeerClose \/ PeerReset \/ SinkBreaks
    BY <2>3 DEF PeerSend, PeerClose, PeerReset, SinkBreaks, env, task, rest, Promise!vars
  <2>4. CASE HeadError \/ Join \/ Dropped
    <3>1. /\ UNCHANGED <<got, halted, sink, signal, atSignal>>
          /\ result = "running" /\ result' \in {"running", "err", "dropped"}
      BY <2>4 DEF HeadError, Join, Dropped, env, task
    <3> QED
      BY <3>1 DEF Promise!Next, Promise!End, Promise!vars
  <2>5. CASE Return
    <3>1. /\ UNCHANGED <<got, halted, sink, signal, atSignal>>
          /\ result = "running" /\ result' = "ok" /\ pc[1] = "done" /\ joined = 1
      BY <2>5 DEF Return, env, task
    <3>2. (\A i \in 2..N : ~halted[i]) => Len(sink) = got[1]
      BY <3>1, HeadInSeg, OkMeansDone, AllDelivered
    <3> QED
      BY <3>1, <3>2 DEF Promise!Next, Promise!End
  <2> QED
    BY <2>1, <2>2, <2>3, <2>4, <2>5, ActsPromise DEF Next, Caller
<1> QED
  BY <1>1, <1>2, Inductive, PTL DEF Spec, KeepsPromise, Promise!Spec
=============================================================================

---------------------------- MODULE StagesProofs ----------------------------
(***************************************************************************)
(* Proofs about what Stages relies on the pump for.  `timeout` and `block` *)
(* are served in time, never early and never in a burst, for every period, *)
(* size of a block and number of ticks in a window; what paths report over *)
(* shared sinks is whole and is not lost, for any number of paths, files   *)
(* and records; limits, speeds and samples are exact, for any of them; and *)
(* a guest that runs is what was loaded, and is heard as it said.          *)
(***************************************************************************)
EXTENDS Stages, FiniteSetTheorems, SequenceTheorems, WellFoundedInduction, TLAPS

(* What a stage's deadline says of the time that has gone by.  A block is  *)
(* as old as its deadline has drawn near, or older when a write, or reads  *)
(* that won, let the deadline pass; if none did, it has not passed by a    *)
(* wakeup.                                                                 *)
BlockServed == fill > 0 =>
  /\ heldFor >= Flush \/ heldFor >= Flush - nextIn["block"]
  /\ "held" \notin slow =>
       heldFor = Flush - nextIn["block"] /\ nextIn["block"] > wakeIn - tick_interval

(* The time timeout has counted: its ticks, and what of the next is gone.  *)
Counted == idle * Step + Step - nextIn["timeout"]

(* Until it halts the path timeout has counted no more time than went by,  *)
(* and exactly that if no write kept a tick from it.  A read that wins     *)
(* starts the count over, and so costs it no tick.                         *)
TimeoutServed ==
  IF ended THEN HaltedInTime /\ NeverHaltedEarly ELSE
  /\ idle < Limit
  /\ won => nextIn["timeout"] = Step
  /\ quietFor >= Counted
  /\ "quiet" \notin slow =>
       quietFor = Counted /\ nextIn["timeout"] > wakeIn - tick_interval

TicksIInv == TypeOK /\ BlockServed /\ TimeoutServed

-----------------------------------------------------------------------------
(* Arithmetic of a window of ticks.                                        *)

(* One tick more is one period more, and up to the last tick the counted   *)
(* periods leave room in the window for the next.                          *)
LEMMA OneMore ==
  ASSUME NEW n \in Nat, NEW s \in Nat, NEW l \in Nat, n < l
  PROVE  /\ n * s \in Nat /\ (n + 1) * s = n * s + s
         /\ n * s + s <= s * l
         /\ n + 1 >= l => n * s + s = s * l
<1>1. n * s \in Nat /\ (n + 1) * s = n * s + s
  OBVIOUS
<1>2. PICK d \in Nat : l = n + 1 + d
  <2>1. l - n - 1 \in Nat /\ l = n + 1 + (l - n - 1)
    OBVIOUS
  <2> QED
    BY <2>1
<1>3. s * l = n * s + s + s * d /\ s * d \in Nat
  BY <1>2
<1>4. n + 1 >= l => d = 0
  BY <1>2
<1>5. d = 0 => s * d = 0
  OBVIOUS
<1> QED
  BY <1>1, <1>3, <1>4, <1>5

(* The window is a number, and ages are counted past it and past a block's *)
(* interval.                                                               *)
LEMMA Spans ==
  /\ Window \in Nat /\ Longest \in Nat /\ tick_interval \in Nat \ {0}
  /\ tick_interval <= Flush /\ tick_interval <= Step
  /\ Longest = Window + Flush + Step
<1>1. Window \in Nat
  BY TicksAssumption DEF Window
<1> HIDE DEF Window
<1> QED
  BY <1>1, TicksAssumption DEF Longest, tick_interval

(* A segment starts with both stages owed their first tick a period away.  *)
LEMMA TicksInit == Init => TicksIInv
<1> SUFFICES ASSUME Init PROVE TicksIInv
  OBVIOUS
<1>1. nextIn["timeout"] = Step /\ nextIn["block"] = Flush
      /\ nextIn \in [Stages -> Int] /\ \A s \in Stages : nextIn[s] \in (-period[s])..period[s]
  BY TicksAssumption DEF Init, period, Stages
<1>2. fill = 0 /\ heldFor = 0 /\ idle = 0 /\ quietFor = 0 /\ wakeIn = 0
      /\ busy = FALSE /\ won = FALSE /\ slow = {} /\ ended = FALSE
  BY DEF Init
<1>3. wakeIn \in 0..tick_interval /\ fill \in 0..(Size - 1) /\ heldFor \in 0..Longest
      /\ idle \in 0..Limit /\ quietFor \in 0..Longest
  BY <1>2, Spans, TicksAssumption
<1>4. TypeOK
  BY <1>1, <1>2, <1>3 DEF TypeOK
<1>5. BlockServed
  BY <1>2 DEF BlockServed
<1>6. Counted = 0
  BY <1>1, <1>2, TicksAssumption DEF Counted
<1>7. TimeoutServed
  BY <1>1, <1>2, <1>6, Spans, TicksAssumption DEF TimeoutServed
<1> QED
  BY <1>4, <1>5, <1>7 DEF TicksIInv

(* The clocks are numbers of their ranges, and a period is a number.       *)
LEMMA ClockTypes ==
  ASSUME TypeOK
  PROVE  /\ wakeIn \in Nat /\ heldFor \in Nat /\ idle \in Nat /\ quietFor \in Nat /\ fill \in Nat
         /\ wakeIn <= tick_interval /\ heldFor <= Longest /\ idle <= Limit
         /\ quietFor <= Longest /\ fill < Size
         /\ nextIn["timeout"] \in Int /\ -Step <= nextIn["timeout"] /\ nextIn["timeout"] <= Step
         /\ nextIn["block"] \in Int /\ -Flush <= nextIn["block"] /\ nextIn["block"] <= Flush
<1>1. wakeIn \in 0..tick_interval /\ fill \in 0..(Size - 1) /\ heldFor \in 0..Longest
      /\ idle \in 0..Limit /\ quietFor \in 0..Longest
  BY DEF TypeOK
<1>2. nextIn["timeout"] \in (-Step)..Step /\ nextIn["block"] \in (-Flush)..Flush
  <2>1. "timeout" \in Stages /\ "block" \in Stages
        /\ period["timeout"] = Step /\ period["block"] = Flush
    BY DEF Stages, period
  <2> QED
    BY <2>1 DEF TypeOK
<1> QED
  BY <1>1, <1>2, Spans, TicksAssumption

(* New deadlines that are numbers of their ranges are what the clock asks  *)
(* for.                                                                    *)
LEMMA DeadlinesTyped ==
  ASSUME NEW f, f = [s \in Stages |-> f[s]],
         f["timeout"] \in (-Step)..Step, f["block"] \in (-Flush)..Flush
  PROVE  f \in [Stages -> Int] /\ \A s \in Stages : f[s] \in (-period[s])..period[s]
<1>1. ASSUME NEW s \in Stages PROVE f[s] \in Int /\ f[s] \in (-period[s])..period[s]
  <2>1. period["timeout"] = Step /\ period["block"] = Flush
    BY DEF Stages, period
  <2>2. CASE s = "timeout"
    BY <2>1, <2>2, TicksAssumption
  <2>3. CASE s = "block"
    BY <2>1, <2>3, TicksAssumption
  <2> QED
    BY <2>2, <2>3 DEF Stages
<1> QED
  BY <1>1

(* Time passing keeps the deadlines true to the time that has gone by.     *)
LEMMA PassKeeps ==
  ASSUME TicksIInv, Pass
  PROVE  TicksIInv'
<1>1. TypeOK /\ BlockServed /\ ~ended /\ idle < Limit /\ quietFor >= Counted
      /\ ("quiet" \notin slow =>
             quietFor = Counted /\ nextIn["timeout"] > wakeIn - tick_interval)
      /\ (won => nextIn["timeout"] = Step)
  BY DEF TicksIInv, TimeoutServed, Pass
<1> DEFINE nt == nextIn["timeout"]
           nb == nextIn["block"]
           nt2 == nextIn'["timeout"]
           nb2 == nextIn'["block"]
           counted == idle * Step
<1>2. /\ wakeIn \in Nat /\ heldFor \in Nat /\ idle \in Nat /\ quietFor \in Nat
      /\ wakeIn <= tick_interval /\ heldFor <= Longest /\ quietFor <= Longest
      /\ nt \in Int /\ -Step <= nt /\ nt <= Step
      /\ nb \in Int /\ -Flush <= nb /\ nb <= Flush
  BY <1>1, ClockTypes
<1>3. nt2 = (IF nt > -Step THEN nt - 1 ELSE nt) /\ nb2 = (IF nb > -Flush THEN nb - 1 ELSE nb)
      /\ nextIn' = [s \in Stages |-> nextIn'[s]]
  <2>1. "timeout" \in Stages /\ "block" \in Stages
        /\ period["timeout"] = Step /\ period["block"] = Flush
    BY DEF Stages, period
  <2> QED
    BY <2>1 DEF Pass
<1>4. /\ wakeIn' = (IF wakeIn > 0 THEN wakeIn - 1 ELSE 0)
      /\ (busy \/ won \/ wakeIn > 0)
      /\ heldFor' = (IF fill > 0 THEN Older(heldFor) ELSE 0)
      /\ quietFor' = Older(quietFor)
      /\ slow' = (IF busy THEN {"held", "quiet"} ELSE IF won THEN slow \cup {"held"} ELSE slow)
      /\ fill' = fill /\ idle' = idle /\ busy' = busy /\ won' = FALSE /\ ended' = ended
  BY DEF Pass
<1>5. counted \in Nat /\ counted + Step <= Window
  BY <1>1, <1>2, OneMore, TicksAssumption DEF Window
<1>6. Counted = counted + Step - nt /\ Counted' = counted + Step - nt2
  BY <1>4 DEF Counted
<1>7. (fill > 0 => heldFor >= Flush \/ heldFor >= Flush - nb)
      /\ (fill > 0 /\ "held" \notin slow => heldFor = Flush - nb /\ nb > wakeIn - tick_interval)
  BY <1>1 DEF BlockServed
<1> HIDE DEF nt, nb, nt2, nb2, counted
<1>8. TypeOK'
  <2>1. nt2 \in (-Step)..Step /\ nb2 \in (-Flush)..Flush
    BY <1>2, <1>3, TicksAssumption
  <2>2. nextIn' \in [Stages -> Int] /\ \A s \in Stages : nextIn'[s] \in (-period[s])..period[s]
    BY <1>3, <2>1, DeadlinesTyped DEF nt2, nb2
  <2>3. wakeIn' \in 0..tick_interval /\ heldFor' \in 0..Longest /\ quietFor' \in 0..Longest
    BY <1>2, <1>4, Spans DEF Older, Least
  <2>4. slow' \subseteq {"held", "quiet"}
    BY <1>1, <1>4 DEF TypeOK
  <2>5. fill' \in 0..(Size - 1) /\ idle' \in 0..Limit /\ busy' \in BOOLEAN /\ ended' \in BOOLEAN
        /\ won' \in BOOLEAN
    BY <1>1, <1>4 DEF TypeOK
  <2> QED
    BY <2>2, <2>3, <2>4, <2>5 DEF TypeOK
<1>9. BlockServed'
  <2> SUFFICES ASSUME fill > 0
               PROVE  /\ heldFor' >= Flush \/ heldFor' >= Flush - nb2
                      /\ "held" \notin slow' =>
                           heldFor' = Flush - nb2 /\ nb2 > wakeIn' - tick_interval
    BY <1>4 DEF BlockServed, nb2
  <2>1. heldFor' = Older(heldFor)
    BY <1>4
  <2>2. heldFor' >= Flush \/ heldFor' >= Flush - nb2
    BY <1>2, <1>3, <1>7, <2>1, Spans, TicksAssumption DEF Older, Least
  <2>3. "held" \notin slow' => ~busy /\ ~won /\ "held" \notin slow
    BY <1>4
  <2>4. ASSUME ~busy, ~won, "held" \notin slow
        PROVE  heldFor' = Flush - nb2 /\ nb2 > wakeIn' - tick_interval
    <3>1. heldFor = Flush - nb /\ nb > wakeIn - tick_interval /\ wakeIn > 0
      BY <1>4, <1>7, <2>4
    <3>2. wakeIn' = wakeIn - 1
      BY <1>4, <3>1
    <3> QED
      BY <1>2, <1>3, <2>1, <3>1, <3>2, Spans, TicksAssumption DEF Older, Least
  <2> QED
    BY <2>2, <2>3, <2>4
<1>10. TimeoutServed'
  <2>1. quietFor' >= counted + Step - nt2
    BY <1>1, <1>2, <1>3, <1>4, <1>5, <1>6, Spans, TicksAssumption DEF Older, Least
  <2>2. "quiet" \notin slow' => ~busy /\ "quiet" \notin slow
    BY <1>4
  <2>3. ASSUME ~busy, "quiet" \notin slow
        PROVE  quietFor' = counted + Step - nt2 /\ nt2 > wakeIn' - tick_interval
    <3>1. quietFor = counted + Step - nt /\ nt > wakeIn - tick_interval
          /\ (wakeIn > 0 \/ nt = Step)
      BY <1>1, <1>4, <1>6, <2>3 DEF nt
    <3>2. nt > -Step /\ nt2 = nt - 1
      BY <1>2, <1>3, <3>1, Spans, TicksAssumption
    <3>3. nt2 > wakeIn' - tick_interval
      <4>1. CASE wakeIn > 0
        BY <1>2, <1>4, <3>1, <3>2, <4>1, Spans
      <4>2. CASE ~(wakeIn > 0)
        BY <1>2, <1>4, <3>1, <3>2, <4>2, Spans, TicksAssumption
      <4> QED
        BY <4>1, <4>2
    <3> QED
      BY <1>2, <1>4, <1>5, <3>1, <3>2, <3>3, Spans, TicksAssumption DEF Older, Least
  <2>4. ~won'
    BY <1>4
  <2> QED
    BY <1>1, <1>4, <1>6, <2>1, <2>2, <2>3, <2>4 DEF TimeoutServed, nt2
<1> QED
  BY <1>8, <1>9, <1>10 DEF TicksIInv

(* A write that is done changes no clock.                                  *)
LEMMA WriteDoneKeeps ==
  ASSUME TicksIInv, WriteDone \/ UNCHANGED vars
  PROVE  TicksIInv'
<1>1. UNCHANGED <<clocks, fill, idle, won, ended>> /\ busy' \in BOOLEAN
  BY DEF WriteDone, vars, clocks, TicksIInv, TypeOK
<1>2. TypeOK'
  BY <1>1, Zenon DEF TicksIInv, TypeOK, clocks
<1>3. BlockServed' /\ TimeoutServed'
  BY <1>1 DEF TicksIInv, BlockServed, TimeoutServed, Counted, clocks, HaltedInTime,
    NeverHaltedEarly
<1> QED
  BY <1>2, <1>3 DEF TicksIInv

(* A chunk starts timeout's count over, and block's when it starts to fill.*)
LEMMA ChunkKeeps ==
  ASSUME TicksIInv, NEW n \in 1..(2 * Size), Chunk(n)
  PROVE  TicksIInv'
<1>1. TypeOK /\ BlockServed /\ ~ended
  BY DEF TicksIInv, Chunk, Arrives
<1> DEFINE nt == nextIn["timeout"]
           nb == nextIn["block"]
           nt2 == nextIn'["timeout"]
           nb2 == nextIn'["block"]
           starts == StartsFilling(n)
<1>2. /\ wakeIn \in Nat /\ heldFor \in Nat /\ fill \in Nat
      /\ wakeIn <= tick_interval /\ heldFor <= Longest
      /\ nb \in Int /\ -Flush <= nb /\ nb <= Flush
  BY <1>1, ClockTypes
<1>3. nt2 = Step /\ nb2 = (IF starts THEN Flush ELSE nb)
      /\ nextIn' = [s \in Stages |-> nextIn'[s]]
  <2>1. "timeout" \in Stages /\ "block" \in Stages
        /\ period["timeout"] = Step /\ period["block"] = Flush
    BY DEF Stages, period
  <2>2. nextIn' = Rearmed({"timeout"} \cup (IF starts THEN {"block"} ELSE {}))
    BY DEF Chunk, Arrives
  <2> HIDE DEF starts
  <2> QED
    BY <2>1, <2>2 DEF Rearmed
<1>4. /\ wakeIn' = wakeIn /\ idle' = 0 /\ quietFor' = 0 /\ ended' = ended
      /\ fill' = (fill + n) % Size
      /\ heldFor' = (IF starts THEN 0 ELSE heldFor)
      /\ slow' = slow \ (IF starts THEN {"held", "quiet"} ELSE {"quiet"})
      /\ busy' \in (IF fill + n >= Size THEN BOOLEAN ELSE {FALSE})
      /\ won' = (wakeIn = 0)
  BY DEF Chunk, Arrives
<1>5. ~starts => fill > 0
  BY <1>2 DEF StartsFilling
<1>6. Counted' = 0
  BY <1>3, <1>4, TicksAssumption DEF Counted
<1>7. fill' \in 0..(Size - 1)
  BY <1>2, <1>4, TicksAssumption
<1>8. (fill > 0 => heldFor >= Flush \/ heldFor >= Flush - nb)
      /\ (fill > 0 /\ "held" \notin slow => heldFor = Flush - nb /\ nb > wakeIn - tick_interval)
  BY <1>1 DEF BlockServed
<1> HIDE DEF nt, nb, nt2, nb2, starts
<1>9. TypeOK'
  <2>1. nt2 \in (-Step)..Step /\ nb2 \in (-Flush)..Flush
    BY <1>2, <1>3, TicksAssumption
  <2>2. nextIn' \in [Stages -> Int] /\ \A s \in Stages : nextIn'[s] \in (-period[s])..period[s]
    BY <1>3, <2>1, DeadlinesTyped DEF nt2, nb2
  <2>3. wakeIn' \in 0..tick_interval /\ heldFor' \in 0..Longest /\ quietFor' \in 0..Longest
        /\ idle' \in 0..Limit
    BY <1>2, <1>4, Spans, TicksAssumption
  <2>4. slow' \subseteq {"held", "quiet"} /\ busy' \in BOOLEAN /\ won' \in BOOLEAN
        /\ ended' \in BOOLEAN
    BY <1>1, <1>4 DEF TypeOK
  <2> QED
    BY <1>7, <2>2, <2>3, <2>4 DEF TypeOK
<1>10. BlockServed'
  <2> SUFFICES /\ heldFor' >= Flush \/ heldFor' >= Flush - nb2
               /\ "held" \notin slow' =>
                    heldFor' = Flush - nb2 /\ nb2 > wakeIn' - tick_interval
    BY DEF BlockServed, nb2
  <2>1. CASE starts
    BY <1>2, <1>3, <1>4, <2>1, Spans, TicksAssumption
  <2>2. CASE ~starts
    <3>1. heldFor' = heldFor /\ nb2 = nb /\ fill > 0 /\ wakeIn' = wakeIn
      BY <1>3, <1>4, <1>5, <2>2
    <3>2. "held" \notin slow' => "held" \notin slow
      BY <1>4, <2>2
    <3> QED
      BY <1>8, <3>1, <3>2
  <2> QED
    BY <2>1, <2>2
<1>11. TimeoutServed'
  <2>1. Step > wakeIn' - tick_interval /\ 0 < Limit
    BY <1>2, <1>4, Spans, TicksAssumption
  <2>2. nextIn'["timeout"] = Step
    BY <1>3 DEF nt2
  <2> QED
    BY <1>1, <1>4, <1>6, <2>1, <2>2 DEF TimeoutServed
<1> QED
  BY <1>9, <1>10, <1>11 DEF TicksIInv

(* A wakeup serves what is due, and by then the window has gone by if      *)
(* timeout halts the path, and the interval if a short block goes out.     *)
LEMMA WakeKeeps ==
  ASSUME TicksIInv, Wake
  PROVE  TicksIInv' /\ NoBurst /\ NeverFlushedEarly
<1>1. TypeOK /\ BlockServed /\ ~ended /\ idle < Limit /\ quietFor >= Counted
      /\ ("quiet" \notin slow =>
             quietFor = Counted /\ nextIn["timeout"] > wakeIn - tick_interval)
  BY DEF TicksIInv, TimeoutServed, Wake
<1> DEFINE nt == nextIn["timeout"]
           nb == nextIn["block"]
           nt2 == nextIn'["timeout"]
           nb2 == nextIn'["block"]
           counted == idle * Step
           counted2 == idle' * Step
<1>2. /\ wakeIn = 0 /\ heldFor \in Nat /\ idle \in Nat /\ quietFor \in Nat
      /\ heldFor <= Longest /\ quietFor <= Longest
      /\ nt \in Int /\ -Step <= nt /\ nt <= Step
      /\ nb \in Int /\ -Flush <= nb /\ nb <= Flush
  BY <1>1, ClockTypes DEF Wake
<1>3. ("timeout" \in Due <=> nt <= 0) /\ ("block" \in Due <=> nb <= 0)
  BY DEF Due, Stages
<1>4. /\ nt2 = (IF nt <= 0 THEN IF nt + Step > 0 THEN nt + Step ELSE Step ELSE nt)
      /\ nb2 = (IF nb <= 0 THEN IF nb + Flush > 0 THEN nb + Flush ELSE Flush ELSE nb)
      /\ nextIn' = [s \in Stages |-> nextIn'[s]]
  <2>1. "timeout" \in Stages /\ "block" \in Stages
        /\ period["timeout"] = Step /\ period["block"] = Flush
    BY DEF Stages, period
  <2>2. nextIn' = [s \in Stages |-> Advanced(s)]
    BY DEF Wake
  <2> HIDE DEF nt, nb
  <2>3. Advanced("timeout") = (IF nt <= 0 THEN IF nt + Step > 0 THEN nt + Step ELSE Step ELSE nt)
    BY <1>3, <2>1 DEF Advanced, nt
  <2>4. Advanced("block") = (IF nb <= 0 THEN IF nb + Flush > 0 THEN nb + Flush ELSE Flush ELSE nb)
    BY <1>3, <2>1 DEF Advanced, nb
  <2> QED
    BY <2>1, <2>2, <2>3, <2>4
<1>5. Halts <=> nt <= 0 /\ idle + 1 >= Limit
  BY <1>3 DEF Halts
<1>6. /\ wakeIn' = tick_interval
      /\ idle' = (IF nt <= 0 THEN idle + 1 ELSE idle)
      /\ ended' = Halts
      /\ fill' = (IF nb <= 0 \/ Halts THEN 0 ELSE fill)
      /\ busy' \in BOOLEAN /\ won' = FALSE
      /\ heldFor' = heldFor /\ quietFor' = quietFor /\ slow' = slow
  BY <1>3 DEF Wake
<1>7. counted \in Nat /\ counted + Step <= Window /\ (idle + 1 >= Limit => counted + Step = Window)
  BY <1>1, <1>2, OneMore, TicksAssumption DEF Window
<1>8. counted2 = (IF nt <= 0 THEN counted + Step ELSE counted)
  BY <1>1, <1>2, <1>6, OneMore, TicksAssumption
<1>9. Counted = counted + Step - nt /\ Counted' = counted2 + Step - nt2
  BY DEF Counted
<1>10. (fill > 0 => heldFor >= Flush \/ heldFor >= Flush - nb)
       /\ (fill > 0 /\ "held" \notin slow => heldFor = Flush - nb /\ nb > wakeIn - tick_interval)
  BY <1>1 DEF BlockServed
<1>11. quietFor >= counted + Step - nt
       /\ ("quiet" \notin slow => quietFor = counted + Step - nt /\ nt > -tick_interval)
  BY <1>1, <1>2, <1>9, Spans
<1> HIDE DEF nt, nb, nt2, nb2, counted, counted2
<1>12. nt2 > 0 /\ nb2 > 0 /\ nt2 <= Step /\ nb2 <= Flush /\ nt2 \in Int /\ nb2 \in Int
  BY <1>2, <1>4, TicksAssumption
<1>13. NoBurst
  BY <1>12 DEF NoBurst, Stages, nt2, nb2
<1>14. NeverFlushedEarly
  <2> SUFFICES ASSUME ~Halts, fill > 0, fill' = 0 PROVE heldFor >= Flush
    BY DEF NeverFlushedEarly
  <2>1. nb <= 0
    BY <1>6
  <2> QED
    BY <1>2, <1>10, <2>1, TicksAssumption
<1>15. TypeOK'
  <2>1. nt2 \in (-Step)..Step /\ nb2 \in (-Flush)..Flush
    BY <1>12, TicksAssumption
  <2>2. nextIn' \in [Stages -> Int] /\ \A s \in Stages : nextIn'[s] \in (-period[s])..period[s]
    BY <1>4, <2>1, DeadlinesTyped DEF nt2, nb2
  <2>3. wakeIn' \in 0..tick_interval /\ idle' \in 0..Limit
    BY <1>1, <1>2, <1>6, Spans, TicksAssumption
  <2>4. heldFor' \in 0..Longest /\ quietFor' \in 0..Longest /\ slow' \subseteq {"held", "quiet"}
        /\ busy' \in BOOLEAN
    BY <1>1, <1>6 DEF TypeOK
  <2>5. fill' \in 0..(Size - 1)
    <3>1. fill \in 0..(Size - 1)
      BY <1>1 DEF TypeOK
    <3> QED
      BY <1>6, <3>1, TicksAssumption
  <2>6. ended' \in BOOLEAN /\ won' \in BOOLEAN
    BY <1>6 DEF Halts
  <2> QED
    BY <2>2, <2>3, <2>4, <2>5, <2>6 DEF TypeOK
<1>16. BlockServed'
  <2> SUFFICES ASSUME fill' > 0
               PROVE  /\ heldFor' >= Flush \/ heldFor' >= Flush - nb2
                      /\ "held" \notin slow' =>
                           heldFor' = Flush - nb2 /\ nb2 > wakeIn' - tick_interval
    BY DEF BlockServed, nb2
  <2>1. ~(nb <= 0) /\ fill' = fill
    BY <1>6
  <2>2. nb2 = nb /\ fill > 0
    BY <1>4, <2>1
  <2>3. nb2 > wakeIn' - tick_interval
    BY <1>6, <1>12, Spans
  <2> QED
    BY <1>6, <1>10, <2>2, <2>3
<1>17. TimeoutServed'
  <2>1. CASE Halts
    <3>1. quietFor >= Window
      BY <1>2, <1>5, <1>7, <1>11, <2>1, Spans, TicksAssumption
    <3>2. "quiet" \notin slow => quietFor < Window + Step
      BY <1>2, <1>5, <1>7, <1>11, <2>1, Spans, TicksAssumption
    <3> QED
      BY <1>6, <2>1, <3>1, <3>2 DEF TimeoutServed, HaltedInTime, NeverHaltedEarly, Window
  <2>2. CASE ~Halts
    <3>1. idle' < Limit
      BY <1>1, <1>2, <1>5, <1>6, <2>2, TicksAssumption
    <3>2. quietFor' >= counted2 + Step - nt2
      BY <1>2, <1>4, <1>6, <1>7, <1>8, <1>11, TicksAssumption
    <3>3. "quiet" \notin slow' => quietFor' = counted2 + Step - nt2
      BY <1>2, <1>4, <1>6, <1>7, <1>8, <1>11, Spans, TicksAssumption
    <3>4. nt2 > wakeIn' - tick_interval
      BY <1>6, <1>12, Spans
    <3> QED
      BY <1>6, <1>9, <2>2, <3>1, <3>2, <3>3, <3>4 DEF TimeoutServed, nt2
  <2> QED
    BY <2>1, <2>2
<1> QED
  BY <1>13, <1>14, <1>15, <1>16, <1>17 DEF TicksIInv

(* Deadlines that are true to the time that has gone by are served in time.*)
LEMMA ServedInTime ==
  ASSUME TicksIInv
  PROVE  InTime
<1>1. TypeOK /\ BlockServed /\ TimeoutServed
  BY DEF TicksIInv
<1> DEFINE nt == nextIn["timeout"]
           nb == nextIn["block"]
           counted == idle * Step
<1>2. /\ wakeIn \in Nat /\ wakeIn <= tick_interval /\ heldFor \in Nat /\ idle \in Nat
      /\ quietFor \in Nat /\ nt \in Int /\ nb \in Int
  BY <1>1, ClockTypes
<1>3. FlushedInTime
  <2> SUFFICES ASSUME fill > 0, "held" \notin slow PROVE heldFor < Flush + tick_interval
    BY DEF FlushedInTime
  <2>1. heldFor = Flush - nb /\ nb > wakeIn - tick_interval
    BY <1>1 DEF BlockServed
  <2> HIDE DEF nb
  <2> QED
    BY <1>2, <2>1, Spans, TicksAssumption
<1>4. CASE ended
  BY <1>1, <1>3, <1>4 DEF TimeoutServed, InTime
<1>5. CASE ~ended
  <2>1. NeverHaltedEarly
    BY <1>5 DEF NeverHaltedEarly
  <2>2. HaltedInTime
    <3> SUFFICES ASSUME "quiet" \notin slow PROVE quietFor < Window + Step
      BY DEF HaltedInTime
    <3>1. idle < Limit /\ quietFor = counted + Step - nt /\ nt > wakeIn - tick_interval
      BY <1>1, <1>5 DEF TimeoutServed, Counted
    <3>2. counted \in Nat /\ counted + Step <= Window
      BY <1>2, <3>1, OneMore, TicksAssumption DEF Window
    <3> HIDE DEF counted, nt
    <3> QED
      BY <1>2, <3>1, <3>2, Spans, TicksAssumption
  <2> QED
    BY <1>1, <1>3, <2>1, <2>2 DEF InTime
<1> QED
  BY <1>4, <1>5

(* A step of the clock keeps its deadlines true.                           *)
LEMMA TicksStep == TicksIInv /\ [Next]_vars => TicksIInv'
BY PassKeeps, WriteDoneKeeps, ChunkKeeps, WakeKeeps DEF Next

(* A step of the whole is a step or a stutter of the clock.                *)
LEMMA OfTheClock == [StagesNext]_<<part, vars, meterVars, channelVars, guestVars>> => [Next]_vars
BY DEF StagesNext

(* The deadlines are true to the time that has gone by, whatever arrives,  *)
(* however long a write takes and however long reads win the race against  *)
(* the timer (the biased select of run_pipeline).                          *)
THEOREM DeadlinesAreTrue == StagesSpec => []TicksIInv
<1>1. StagesInit => TicksIInv
  BY TicksInit DEF StagesInit
<1> QED
  BY <1>1, TicksStep, OfTheClock, PTL DEF StagesSpec

(* timeout halts a path within a tick of its window unless a write held the*)
(* segment up, block flushes a short block within a wakeup of its interval *)
(* unless a write or reads that won the race did, neither is ever early,   *)
(* and a wakeup leaves nothing due, so that time slept through is not made *)
(* up (run_pipeline, drive_ticks, Pipeline::due).                          *)
THEOREM ServedOnSchedule == StagesSpec => OnSchedule
<1>1. TicksIInv => InTime
  BY ServedInTime
<1>2. TicksIInv => (Wake => NoBurst /\ NeverFlushedEarly)
  BY WakeKeeps
<1> QED
  BY <1>1, <1>2, DeadlinesAreTrue, OfTheClock, PTL DEF StagesSpec, OnSchedule

-----------------------------------------------------------------------------
(* The side channels.                                                      *)

Nobody == Channels!Nobody
Piece  == Paths \X Nat \X {1, 2}

(* A sink with these pieces, whose lock `h` holds, while each path has had *)
(* `told` of its records written and those of `bad` have failed: a record  *)
(* is in one piece, none is from the future, and they are in order.        *)
Begins(s, h, told, i) ==
  i = Len(s) /\ s[i][3] = 1 /\ h = s[i][1] /\ s[i][2] = told[s[i][1]] + 1

InOnePiece(s, h, told, bad, i) ==
  s[i][3] = 1 /\ s[i][1] \notin bad =>
    \/ i < Len(s) /\ s[i + 1] = <<s[i][1], s[i][2], 2>>
    \/ Begins(s, h, told, i)

Past(s, h, told, bad, i) ==
  s[i][1] \notin bad => s[i][2] <= told[s[i][1]] \/ Begins(s, h, told, i)

InOrder(s, i, j) ==
  i < j /\ s[i][1] = s[j][1] =>
    \/ s[i][2] < s[j][2]
    \/ s[i][2] = s[j][2] /\ j = i + 1 /\ s[i][3] = 1 /\ s[j][3] = 2

SinkSound(s, h, told, bad) ==
  \A i \in 1..Len(s) :
    /\ InOnePiece(s, h, told, bad, i) /\ Past(s, h, told, bad, i)
    /\ \A j \in 1..Len(s) : InOrder(s, i, j)

(* A sink stays sound as paths write elsewhere, fail, or take its lock.    *)
LEMMA StaysSound ==
  ASSUME NEW s, Len(s) \in Nat, \A i \in 1..Len(s) : s[i] \in Piece,
         NEW h, NEW h2, NEW told \in [Paths -> Nat], NEW told2 \in [Paths -> Nat],
         NEW bad, NEW bad2,
         SinkSound(s, h, told, bad), bad \subseteq bad2, Nobody \notin Paths,
         \A q \in Paths : told[q] <= told2[q],
         \/ h2 = h /\ (h \in Paths => told2[h] = told[h])
         \/ h = Nobody \/ h \in bad2
  PROVE  SinkSound(s, h2, told2, bad2)
<1> SUFFICES ASSUME NEW i \in 1..Len(s)
             PROVE  InOnePiece(s, h2, told2, bad2, i) /\ Past(s, h2, told2, bad2, i)
                    /\ \A j \in 1..Len(s) : InOrder(s, i, j)
  BY DEF SinkSound
<1> DEFINE q == s[i][1]
           n == s[i][2]
<1>1. InOnePiece(s, h, told, bad, i) /\ Past(s, h, told, bad, i)
      /\ \A j \in 1..Len(s) : InOrder(s, i, j)
  BY DEF SinkSound
<1>2. q \in Paths /\ n \in Nat /\ told[q] \in Nat /\ told2[q] \in Nat /\ told[q] <= told2[q]
  BY DEF Piece
<1>3. Begins(s, h, told, i) => Begins(s, h2, told2, i) \/ q \in bad2
  BY <1>2 DEF Begins
<1>4. InOnePiece(s, h2, told2, bad2, i)
  BY <1>1, <1>3 DEF InOnePiece
<1>5. Past(s, h2, told2, bad2, i)
  <2>1. q \notin bad2 => n <= told[q] \/ Begins(s, h, told, i)
    BY <1>1 DEF Past
  <2>2. n <= told[q] => n <= told2[q]
    BY <1>2
  <2> QED
    BY <1>3, <2>1, <2>2 DEF Past
<1> QED
  BY <1>1, <1>4, <1>5

(* It stays so when the path that holds its lock begins its record ...     *)
LEMMA BeginsSound ==
  ASSUME NEW s, NEW s2, Len(s) \in Nat, \A i \in 1..Len(s) : s[i] \in Piece,
         NEW told \in [Paths -> Nat], NEW bad, NEW p \in Paths, p \notin bad,
         SinkSound(s, p, told, bad),
         Len(s) # 0 => s[Len(s)] # <<p, told[p] + 1, 1>>,
         Len(s2) = Len(s) + 1, \A i \in 1..Len(s) : s2[i] = s[i],
         s2[Len(s) + 1] = <<p, told[p] + 1, 1>>
  PROVE  SinkSound(s2, p, told, bad)
<1> DEFINE l == Len(s)
           t == told[p]
<1>1. l \in Nat /\ Len(s2) = l + 1 /\ t \in Nat
  OBVIOUS
<1>2. s2[l + 1][1] = p /\ s2[l + 1][2] = t + 1 /\ s2[l + 1][3] = 1
  OBVIOUS
<1>3. ASSUME NEW i \in 1..l
      PROVE  /\ s2[i] = s[i] /\ s[i][1] \in Paths /\ s[i][2] \in Nat /\ s[i][3] \in {1, 2}
             /\ s[i] = <<s[i][1], s[i][2], s[i][3]>>
  BY DEF Piece
<1>4. ASSUME NEW i \in 1..l PROVE ~Begins(s, p, told, i)
  <2> SUFFICES ASSUME Begins(s, p, told, i) PROVE FALSE
    OBVIOUS
  <2>1. s[i] = <<p, told[p] + 1, 1>> /\ i = Len(s) /\ Len(s) # 0
    BY <1>3 DEF Begins
  <2> QED
    BY <2>1
<1>5. ASSUME NEW i \in 1..l
      PROVE  /\ s[i][3] = 1 /\ s[i][1] \notin bad
                  => i < l /\ s[i + 1] = <<s[i][1], s[i][2], 2>>
             /\ s[i][1] \notin bad => s[i][2] <= told[s[i][1]]
             /\ \A j \in 1..l : InOrder(s, i, j)
  BY <1>4 DEF SinkSound, InOnePiece, Past
<1> HIDE DEF l, t
<1>6. ASSUME NEW i \in 1..(l + 1)
      PROVE  InOnePiece(s2, p, told, bad, i) /\ Past(s2, p, told, bad, i)
             /\ \A j \in 1..(l + 1) : InOrder(s2, i, j)
  <2>1. CASE i = l + 1
    <3>1. Begins(s2, p, told, i)
      BY <1>1, <1>2, <2>1 DEF Begins, t
    <3>2. ASSUME NEW j \in 1..(l + 1) PROVE InOrder(s2, i, j)
      BY <1>1, <2>1 DEF InOrder
    <3> QED
      BY <3>1, <3>2 DEF InOnePiece, Past
  <2>2. CASE i \in 1..l
    <3>1. s2[i] = s[i] /\ s[i][1] \in Paths /\ s[i][2] \in Nat
      BY <1>3, <2>2
    <3>2. Past(s2, p, told, bad, i)
      BY <1>5, <2>2, <3>1 DEF Past
    <3>3. InOnePiece(s2, p, told, bad, i)
      <4> SUFFICES ASSUME s[i][3] = 1, s[i][1] \notin bad
                   PROVE  i < Len(s2) /\ s2[i + 1] = <<s[i][1], s[i][2], 2>>
        BY <3>1 DEF InOnePiece
      <4>1. i < l /\ s[i + 1] = <<s[i][1], s[i][2], 2>>
        BY <1>5, <2>2
      <4>2. i + 1 \in 1..l
        BY <1>1, <2>2, <4>1
      <4>3. s2[i + 1] = s[i + 1]
        BY <1>3, <4>2
      <4> QED
        BY <1>1, <2>2, <4>1, <4>3
    <3>4. ASSUME NEW j \in 1..(l + 1) PROVE InOrder(s2, i, j)
      <4>1. CASE j = l + 1
        <5>1. s[i][1] = p => s[i][2] <= t
          BY <1>5, <2>2 DEF t
        <5> QED
          BY <1>1, <1>2, <3>1, <4>1, <5>1 DEF InOrder
      <4>2. CASE j \in 1..l
        <5>1. InOrder(s, i, j) /\ s2[j] = s[j]
          BY <1>3, <1>5, <2>2, <4>2
        <5> QED
          BY <3>1, <5>1 DEF InOrder
      <4> QED
        BY <1>1, <4>1, <4>2
    <3> QED
      BY <3>2, <3>3, <3>4
  <2> QED
    BY <1>1, <2>1, <2>2
<1> QED
  BY <1>1, <1>6 DEF SinkSound

(* ... and when it writes the rest of it, and lets go of the lock.         *)
LEMMA EndsSound ==
  ASSUME NEW s, NEW s2, Len(s) \in Nat, \A i \in 1..Len(s) : s[i] \in Piece,
         NEW told \in [Paths -> Nat], NEW told2 \in [Paths -> Nat],
         NEW bad, NEW p \in Paths, p \notin bad,
         SinkSound(s, p, told, bad),
         Len(s) # 0, s[Len(s)] = <<p, told[p] + 1, 1>>,
         told2[p] = told[p] + 1, \A q \in Paths : q # p => told2[q] = told[q],
         Len(s2) = Len(s) + 1, \A i \in 1..Len(s) : s2[i] = s[i],
         s2[Len(s) + 1] = <<p, told[p] + 1, 2>>
  PROVE  SinkSound(s2, Nobody, told2, bad)
<1> DEFINE l == Len(s)
           t == told[p]
<1>1. l \in Nat /\ Len(s2) = l + 1 /\ t \in Nat /\ l \in 1..l
  OBVIOUS
<1>2. s2[l + 1][1] = p /\ s2[l + 1][2] = t + 1 /\ s2[l + 1][3] = 2
  OBVIOUS
<1>3. ASSUME NEW i \in 1..l
      PROVE  /\ s2[i] = s[i] /\ s[i][1] \in Paths /\ s[i][2] \in Nat /\ s[i][3] \in {1, 2}
  BY DEF Piece
<1>4. s[l][1] = p /\ s[l][2] = t + 1 /\ s[l][3] = 1
  OBVIOUS
<1>5. ASSUME NEW i \in 1..l
      PROVE  /\ s[i][3] = 1 /\ s[i][1] \notin bad
                  => i = l \/ (i < l /\ s[i + 1] = <<s[i][1], s[i][2], 2>>)
             /\ s[i][1] \notin bad => s[i][2] <= told[s[i][1]] \/ i = l
             /\ \A j \in 1..l : InOrder(s, i, j)
  BY DEF SinkSound, InOnePiece, Past, Begins
<1>6. \A q \in Paths : told2[q] \in Nat /\ told[q] \in Nat /\ told[q] <= told2[q]
  <2> TAKE q \in Paths
  <2>1. told2[q] \in Nat /\ told[q] \in Nat
    OBVIOUS
  <2> QED
    BY <2>1
<1>7. told2[p] = t + 1
  OBVIOUS
<1> HIDE DEF l, t
<1>8. ASSUME NEW i \in 1..(l + 1)
      PROVE  InOnePiece(s2, Nobody, told2, bad, i) /\ Past(s2, Nobody, told2, bad, i)
             /\ \A j \in 1..(l + 1) : InOrder(s2, i, j)
  <2>1. CASE i = l + 1
    <3>1. InOnePiece(s2, Nobody, told2, bad, i) /\ Past(s2, Nobody, told2, bad, i)
      BY <1>1, <1>2, <1>7, <2>1 DEF InOnePiece, Past
    <3>2. ASSUME NEW j \in 1..(l + 1) PROVE InOrder(s2, i, j)
      BY <1>1, <2>1 DEF InOrder
    <3> QED
      BY <3>1, <3>2
  <2>2. CASE i \in 1..l
    <3>1. s2[i] = s[i] /\ s[i][1] \in Paths /\ s[i][2] \in Nat
      BY <1>3, <2>2
    <3>2. Past(s2, Nobody, told2, bad, i)
      <4>1. CASE i = l
        BY <1>1, <1>4, <1>7, <3>1, <4>1 DEF Past
      <4>2. CASE i # l
        <5>1. s[i][1] \notin bad => s[i][2] <= told[s[i][1]]
          BY <1>5, <2>2, <4>2
        <5>2. told2[s[i][1]] \in Nat /\ told[s[i][1]] \in Nat /\ told[s[i][1]] <= told2[s[i][1]]
          BY <1>6, <3>1
        <5> QED
          BY <3>1, <5>1, <5>2 DEF Past
      <4> QED
        BY <4>1, <4>2
    <3>3. InOnePiece(s2, Nobody, told2, bad, i)
      <4> SUFFICES ASSUME s[i][3] = 1, s[i][1] \notin bad
                   PROVE  i < Len(s2) /\ s2[i + 1] = <<s[i][1], s[i][2], 2>>
        BY <3>1 DEF InOnePiece
      <4>1. CASE i = l
        <5>1. s2[l + 1] = <<p, t + 1, 2>>
          BY DEF l, t
        <5> QED
          BY <1>1, <1>4, <4>1, <5>1
      <4>2. CASE i # l
        <5>1. i < l /\ s[i + 1] = <<s[i][1], s[i][2], 2>>
          BY <1>5, <2>2, <4>2
        <5>2. i + 1 \in 1..l
          BY <1>1, <2>2, <5>1
        <5>3. s2[i + 1] = s[i + 1]
          BY <1>3, <5>2
        <5> QED
          BY <1>1, <2>2, <5>1, <5>3
      <4> QED
        BY <4>1, <4>2
    <3>4. ASSUME NEW j \in 1..(l + 1) PROVE InOrder(s2, i, j)
      <4>1. CASE j = l + 1
        <5>1. CASE i = l
          BY <1>1, <1>2, <1>4, <3>1, <4>1, <5>1 DEF InOrder
        <5>2. CASE i # l
          <6>1. s[i][1] = p => s[i][2] <= t
            <7>1. s[i][1] = p => s[i][1] \notin bad
              OBVIOUS
            <7> QED
              BY <1>5, <2>2, <5>2, <7>1 DEF t
          <6> QED
            BY <1>1, <1>2, <3>1, <4>1, <6>1 DEF InOrder
        <5> QED
          BY <5>1, <5>2
      <4>2. CASE j \in 1..l
        <5>1. InOrder(s, i, j) /\ s2[j] = s[j]
          BY <1>3, <1>5, <2>2, <4>2
        <5> QED
          BY <3>1, <5>1 DEF InOrder
      <4> QED
        BY <1>1, <4>1, <4>2
    <3> QED
      BY <3>2, <3>3, <3>4
  <2> QED
    BY <1>1, <2>1, <2>2
<1> QED
  BY <1>1, <1>8 DEF SinkSound

(* Path by path: how much of what it said is written, and which failed.    *)
Told == [p \in Paths |-> said[p] - Len(dirty[p])]
Bad  == {p \in Paths : step[p] = "err"}

Steps == {"reading", "writing", "joined", "last write", "last apply", "ok", "err"}

SidesTyped ==
  /\ wants \in [Paths -> SUBSET Channels!Targets] /\ plan \in Seq(Channels!Targets)
  /\ said \in [Paths -> Nat] /\ dirty \in [Paths -> Seq(DOMAIN sink)]
  /\ step \in [Paths -> Steps] /\ out \in [Paths -> BOOLEAN]
  /\ exit = "planning" =>
       sink = <<>> /\ \A p \in Paths : said[p] = 0 /\ dirty[p] = <<>> /\ step[p] = "reading"
  /\ exit # "planning" =>
       /\ DOMAIN sink = 1..Len(plan) /\ sink \in [DOMAIN sink -> Seq(Piece)]
       /\ holder \in [DOMAIN sink -> Paths \cup {Nobody}]
       /\ staging \in [Paths -> [DOMAIN sink -> Nat]]
       /\ \A p \in Paths : Channels!ids(p) \subseteq DOMAIN sink

(* What a path has staged are the records that follow those it has written,*)
(* each for a channel of its own; between two calls there are none.        *)
TidyWith(st, channels, records, told) ==
  /\ st \in {"reading", "writing", "ok"} => channels = <<>>
  /\ Len(channels) <= told
  /\ st # "err" =>
       /\ \A k \in 1..Len(channels) : records[channels[k]] = told - Len(channels) + k
       /\ \A k, l \in 1..Len(channels) : channels[k] = channels[l] => k = l

Tidy(p) == TidyWith(step[p], dirty[p], staging[p], said[p])

(* A lock is held by a path for the channel whose turn it is.              *)
Turn(p, c) == step[p] \in {"joined", "last apply"} /\ dirty[p] # <<>> /\ dirty[p][1] = c

LocksInTurn == \A c \in DOMAIN sink : holder[c] \in Paths => Turn(holder[c], c)

SinksSound == \A c \in DOMAIN sink : SinkSound(sink[c], holder[c], Told, Bad)

(* What a path has had written is in some sink.                            *)
Written(sinks, p, n) ==
  \E c \in DOMAIN sinks : \E i \in 1..Len(sinks[c]) : sinks[c][i] = <<p, n, 2>>

ToldIsWritten == \A p \in Paths \ Bad : \A n \in 1..Told[p] : Written(sink, p, n)

PathsIInv ==
  /\ SidesTyped /\ \A p \in Paths : Tidy(p)
  /\ LocksInTurn /\ SinksSound /\ ToldIsWritten

(* A flush leaves nothing behind that it did not fail to write.            *)
FlushIInv ==
  /\ exit \in {"planning", "running", "flushing", "ok", "warned"}
  /\ exit # "planning" => ondisk \in [DOMAIN sink -> Int]
  /\ exit = "running" => toflush = DOMAIN sink
  /\ exit \in {"flushing", "ok", "warned"} /\ ~Abandons =>
       /\ \A p \in Paths : step[p] \in {"ok", "err"}
       /\ \A c \in DOMAIN sink : c \in toflush \/ ondisk[c] \in {-1, Len(sink[c])}
  /\ exit \in {"ok", "warned"} => toflush = {}
  /\ exit = "ok" => \A c \in DOMAIN sink : ondisk[c] # -1

ReportsIInv == PathsIInv /\ FlushIInv

-----------------------------------------------------------------------------
(* A set of numbers that is not empty has a least one ...                  *)
LEMMA Smallest ==
  ASSUME NEW T, T \subseteq Nat, T # {}
  PROVE  \E x \in T : \A y \in T : x <= y
<1> DEFINE R == OpToRel(<, Nat)
<1>1. IsWellFoundedOn(R, Nat)
  BY NatLessThanWellFounded
<1>2. \A x, y \in Nat : x < y => <<x, y>> \in R
  <2> TAKE x \in Nat, y \in Nat
  <2> HAVE x < y
  <2>1. <<x, y>> \in Nat \X Nat /\ <<x, y>>[1] < <<x, y>>[2]
    OBVIOUS
  <2> QED
    BY <2>1 DEF OpToRel
<1> HIDE DEF R
<1>3. PICK x \in T : \A y \in T : ~(<<y, x>> \in R)
  BY <1>1, WFMin
<1>4. ASSUME NEW y \in T PROVE x <= y
  <2>1. ~(<<y, x>> \in R) /\ x \in Nat /\ y \in Nat
    BY <1>3
  <2>2. ~(y < x)
    BY <1>2, <2>1
  <2> QED
    BY <2>1, <2>2
<1> QED
  BY <1>3, <1>4

(* ... and Min chooses it.                                                 *)
LEMMA MinIs ==
  ASSUME NEW T, T \subseteq Nat, T # {}
  PROVE  Channels!Min(T) \in T
BY Smallest DEF Channels!Min

(* Position finds the place of an element, if it has one.                  *)
LEMMA PositionIs ==
  ASSUME NEW s, Len(s) \in Nat, NEW x
  PROVE  /\ Channels!Position(s, x) # 0 => Channels!Position(s, x) \in 1..Len(s)
         /\ \A k \in 1..Len(s) :
              s[k] = x /\ (\A l \in 1..Len(s) : s[l] = x => l = k) => Channels!Position(s, x) = k
<1> DEFINE T == {i \in 1..Len(s) : s[i] = x}
<1>1. Channels!Position(s, x) = IF T # {} THEN Channels!Min(T) ELSE 0
  BY DEF Channels!Position, Channels!SelectInSeq
<1>2. T \subseteq Nat /\ (T # {} => Channels!Min(T) \in T)
  BY MinIs
<1>3. ASSUME NEW k \in 1..Len(s), s[k] = x, \A l \in 1..Len(s) : s[l] = x => l = k
      PROVE  Channels!Position(s, x) = k
  <2>1. T = {k} /\ T # {}
    BY <1>3
  <2> HIDE DEF T
  <2> QED
    BY <1>1, <1>2, <2>1
<1>4. T \subseteq 1..Len(s)
  OBVIOUS
<1> HIDE DEF T
<1>5. Channels!Position(s, x) # 0 => Channels!Position(s, x) \in 1..Len(s)
  BY <1>1, <1>2, <1>4
<1> QED
  BY <1>3, <1>5

(* What a call stages for are channels of the path, each once.             *)
LEMMA StagedIs ==
  ASSUME PathsIInv, exit # "planning", NEW p \in Paths, NEW channels \in Channels!Staged(p)
  PROVE  /\ channels \in Seq(DOMAIN sink)
         /\ \A k, l \in 1..Len(channels) : channels[k] = channels[l] => k = l
<1>1. PICK S \in SUBSET Channels!ids(p) : channels \in Channels!SetToSeqs(S)
  BY DEF Channels!Staged
<1> DEFINE D == 1..Cardinality(S)
<1>2. channels \in [D -> S] /\ \A k, l \in D : k # l => channels[k] # channels[l]
  BY <1>1 DEF Channels!SetToSeqs, Channels!Cardinality, Cardinality
<1>3. S \subseteq DOMAIN sink /\ DOMAIN sink = 1..Len(plan) /\ Len(plan) \in Nat
  BY <1>1 DEF PathsIInv, SidesTyped
<1>4. IsFiniteSet(S)
  <2>1. IsFiniteSet(1..Len(plan))
    BY <1>3, FS_Interval
  <2> QED
    BY <1>3, <2>1, FS_Subset
<1>5. Cardinality(S) \in Nat
  BY <1>4, FS_CardinalityType
<1>6. channels \in [D -> DOMAIN sink]
  BY <1>2, <1>3
<1> DEFINE T == DOMAIN sink
<1> HIDE DEF T
<1>7. channels \in Seq(T) /\ Len(channels) = Cardinality(S)
  BY <1>5, <1>6, SeqDef, LenProperties DEF T
<1> QED
  BY <1>2, <1>7 DEF T

(* A step of one path that leaves the others alone and takes no lock out   *)
(* of turn keeps the paths tidy and the locks in turn.                     *)
LEMMA PathMoves ==
  ASSUME PathsIInv, exit # "planning", exit' # "planning", NEW p \in Paths,
         UNCHANGED <<wants, plan>>, DOMAIN sink' = DOMAIN sink,
         sink' \in [DOMAIN sink -> Seq(Piece)],
         holder' \in [DOMAIN sink -> Paths \cup {Nobody}],
         staging' \in [Paths -> [DOMAIN sink -> Nat]],
         said' \in [Paths -> Nat], dirty' \in [Paths -> Seq(DOMAIN sink)],
         step' \in [Paths -> Steps], out' \in [Paths -> BOOLEAN],
         \A q \in Paths : q # p => /\ said'[q] = said[q] /\ dirty'[q] = dirty[q]
                                   /\ staging'[q] = staging[q] /\ step'[q] = step[q],
         Tidy(p)', Nobody \notin Paths,
         \A c \in DOMAIN sink :
           \/ holder'[c] = Nobody
           \/ holder'[c] = holder[c] /\ holder[c] # p
           \/ holder'[c] = p /\ Turn(p, c)'
  PROVE  SidesTyped' /\ (\A q \in Paths : Tidy(q)') /\ LocksInTurn'
<1>1. SidesTyped /\ (\A q \in Paths : Tidy(q)) /\ LocksInTurn
  BY DEF PathsIInv
<1>2. SidesTyped'
  <2>1. \A q \in Paths : Channels!ids(q)' \subseteq DOMAIN sink'
    BY <1>1 DEF SidesTyped, Channels!ids
  <2> QED
    BY <1>1, <2>1 DEF SidesTyped
<1>3. ASSUME NEW q \in Paths PROVE Tidy(q)'
  <2>1. CASE q = p
    BY <2>1
  <2>2. CASE q # p
    <3>1. /\ said'[q] = said[q] /\ dirty'[q] = dirty[q]
          /\ staging'[q] = staging[q] /\ step'[q] = step[q]
      BY <2>2
    <3> QED
      BY <1>1, <3>1 DEF Tidy
  <2> QED
    BY <2>1, <2>2
<1>4. LocksInTurn'
  <2> SUFFICES ASSUME NEW c \in DOMAIN sink, NEW q \in Paths, holder'[c] = q
               PROVE  Turn(q, c)'
    BY DEF LocksInTurn, Turn
  <2>1. CASE holder'[c] = holder[c] /\ holder[c] # p
    <3>1. q # p /\ Turn(q, c)
      BY <1>1, <2>1 DEF LocksInTurn
    <3>2. dirty'[q] = dirty[q] /\ step'[q] = step[q]
      BY <3>1
    <3> QED
      BY <3>1, <3>2 DEF Turn
  <2>2. CASE holder'[c] = p /\ Turn(p, c)'
    <3>1. q = p
      BY <2>2
    <3> QED
      BY <2>2, <3>1
  <2> QED
    BY <2>1, <2>2
<1> QED
  BY <1>2, <1>3, <1>4

(* A path has not written more than it said.                               *)
LEMMA ToldTyped ==
  ASSUME PathsIInv
  PROVE  Told \in [Paths -> Nat]
<1>1. SidesTyped /\ \A q \in Paths : Tidy(q)
  BY DEF PathsIInv
<1>2. ASSUME NEW q \in Paths PROVE said[q] - Len(dirty[q]) \in Nat
  <2>1. Len(dirty[q]) <= said[q] /\ said[q] \in Nat
    BY <1>1 DEF Tidy, TidyWith, SidesTyped
  <2> DEFINE T == DOMAIN sink
  <2>2. dirty[q] \in Seq(T)
    BY <1>1 DEF SidesTyped
  <2> HIDE DEF T
  <2>3. Len(dirty[q]) \in Nat
    BY <2>2
  <2> QED
    BY <2>1, <2>3
<1> QED
  BY <1>2 DEF Told

(* And if it writes nothing, the sinks stay sound as well.                 *)
LEMMA PathHolds ==
  ASSUME PathsIInv, exit # "planning", Nobody \notin Paths,
         said' \in [Paths -> Nat], \A q \in Paths : Told'[q] = Told[q], sink' = sink,
         Bad \subseteq Bad',
         \A c \in DOMAIN sink : holder'[c] = holder[c] \/ holder[c] = Nobody \/ holder[c] \in Bad'
  PROVE  SinksSound' /\ ToldIsWritten'
<1>1. SidesTyped /\ SinksSound /\ ToldIsWritten /\ \A q \in Paths : Tidy(q)
  BY DEF PathsIInv
<1>2. Told \in [Paths -> Nat]
  BY ToldTyped
<1>3. Told' = Told
  BY DEF Told
<1>4. SinksSound'
  <2> SUFFICES ASSUME NEW c \in DOMAIN sink
               PROVE  SinkSound(sink[c], holder'[c], Told, Bad')
    BY <1>3 DEF SinksSound
  <2> DEFINE s == sink[c]
  <2>1. s \in Seq(Piece)
    BY <1>1 DEF SidesTyped
  <2>2. SinkSound(s, holder[c], Told, Bad)
    BY <1>1 DEF SinksSound
  <2> HIDE DEF s
  <2>3. Len(s) \in Nat /\ \A i \in 1..Len(s) : s[i] \in Piece
    <3> HIDE DEF Piece
    <3> QED
      BY <2>1
  <2>4. \A q \in Paths : Told[q] <= Told[q]
    BY <1>2
  <2>5. SinkSound(s, holder'[c], Told, Bad')
    BY <1>2, <2>2, <2>3, <2>4, StaysSound, SMTT(30)
  <2> QED
    BY <2>5 DEF s
<1>5. ToldIsWritten'
  BY <1>1, <1>3 DEF ToldIsWritten
<1> QED
  BY <1>4, <1>5

(* Nothing is flushed while a path runs, unless it was left behind.        *)
LEMMA PathFlushes ==
  ASSUME ReportsIInv, NEW p \in Paths, Channels!Running(p),
         UNCHANGED <<ondisk, toflush, exit>>, DOMAIN sink' = DOMAIN sink
  PROVE  FlushIInv'
<1>1. exit \in {"running", "flushing"} /\ step[p] \notin {"ok", "err"} /\ FlushIInv
  BY DEF Channels!Running, ReportsIInv
<1>2. exit = "flushing" => Abandons
  BY <1>1 DEF FlushIInv
<1> QED
  BY <1>1, <1>2 DEF FlushIInv

(* What is known of a path that runs.                                      *)
LEMMA PathIs ==
  ASSUME PathsIInv, NEW p \in Paths, Channels!Running(p)
  PROVE  /\ exit # "planning" /\ p \notin Bad
         /\ TidyWith(step[p], dirty[p], staging[p], said[p])
         /\ step[p] \in Steps /\ said[p] \in Nat /\ Len(dirty[p]) \in Nat
         /\ \A k \in 1..Len(dirty[p]) : dirty[p][k] \in DOMAIN sink
         /\ Told[p] = said[p] - Len(dirty[p]) /\ Told[p] \in Nat
         /\ \A c \in DOMAIN sink : holder[c] = p => Turn(p, c)
         /\ \A c \in DOMAIN sink : holder[c] \in Paths \cup {Nobody}
         /\ DOMAIN holder = DOMAIN sink
         /\ staging[p] \in [DOMAIN sink -> Nat]
<1>1. exit # "planning" /\ step[p] # "err" /\ SidesTyped /\ Tidy(p) /\ LocksInTurn
  BY DEF PathsIInv, Channels!Running
<1>2. step[p] \in Steps /\ said[p] \in Nat
  BY <1>1 DEF SidesTyped
<1>3. Len(dirty[p]) \in Nat /\ \A k \in 1..Len(dirty[p]) : dirty[p][k] \in DOMAIN sink
  <2> DEFINE T == DOMAIN sink
             d == dirty[p]
  <2>1. d \in Seq(T)
    BY <1>1 DEF SidesTyped
  <2> HIDE DEF T, d
  <2>2. Len(d) \in Nat /\ \A k \in 1..Len(d) : d[k] \in T
    BY <2>1
  <2> QED
    BY <2>2 DEF T, d
<1>4. Told[p] = said[p] - Len(dirty[p]) /\ Told[p] \in Nat
  <2>1. Len(dirty[p]) <= said[p]
    BY <1>1 DEF Tidy, TidyWith
  <2> QED
    BY <1>2, <1>3, <2>1 DEF Told
<1>5. holder \in [DOMAIN sink -> Paths \cup {Nobody}] /\ staging[p] \in [DOMAIN sink -> Nat]
  BY <1>1 DEF SidesTyped
<1> QED
  BY <1>1, <1>2, <1>3, <1>4, <1>5 DEF Bad, Tidy, LocksInTurn

(* A call stages what it says behind what is written.                      *)
LEMMA CallsKeeps ==
  ASSUME ReportsIInv, Nobody \notin Paths, NEW p \in Paths,
         NEW channels \in Channels!Staged(p), NEW final, Channels!Calls(p, channels, final)
  PROVE  ReportsIInv'
<1>1. PathsIInv /\ Channels!Running(p) /\ step[p] = "reading" /\ SidesTyped /\ exit # "planning"
  BY DEF ReportsIInv, PathsIInv, Channels!Calls, Channels!Running
<1> DEFINE n == Len(channels)
           S == DOMAIN sink
<1>2. channels \in Seq(S) /\ \A k, l \in 1..n : channels[k] = channels[l] => k = l
  BY <1>1, StagedIs
<1>3. dirty[p] = <<>> /\ said[p] \in Nat /\ staging[p] \in [S -> Nat]
      /\ \A c \in S : holder[c] # p
  BY <1>1, PathIs DEF TidyWith, Turn
<1>4. n \in Nat /\ \A k \in 1..n : channels[k] \in S
  <2> HIDE DEF S
  <2> QED
    BY <1>2
<1>5. /\ said' = [said EXCEPT ![p] = said[p] + n]
      /\ dirty' = [dirty EXCEPT ![p] = channels]
      /\ staging' = [staging EXCEPT ![p] =
           [c \in DOMAIN staging[p] |-> IF Channels!Contains(channels, c)
                               THEN said[p] + Channels!Position(channels, c) ELSE staging[p][c]]]
      /\ step' = [step EXCEPT ![p] = IF final THEN "last write"
                                     ELSE IF channels = <<>> THEN "writing" ELSE "joined"]
      /\ out' = [out EXCEPT ![p] = FALSE]
      /\ UNCHANGED <<wants, plan, sink, holder, ondisk, toflush, exit>>
  BY DEF Channels!Calls
<1>6. ASSUME NEW c \in S, Channels!Contains(channels, c)
      PROVE  /\ Channels!Position(channels, c) \in Nat
             /\ \A k \in 1..n : channels[k] = c => Channels!Position(channels, c) = k
  <2>1. PICK k \in 1..n : channels[k] = c
    BY <1>6 DEF Channels!Contains
  <2>2. \A l \in 1..n : channels[l] = c => l = k
    BY <1>2, <2>1
  <2>3. Channels!Position(channels, c) = k
    BY <1>4, <2>1, <2>2, PositionIs
  <2> QED
    BY <2>2, <2>3
<1>7. staging'[p] \in [S -> Nat]
      /\ \A k \in 1..n : staging'[p][channels[k]] = said[p] + k
  <2>1. staging'[p] = [c \in S |-> IF Channels!Contains(channels, c)
                               THEN said[p] + Channels!Position(channels, c) ELSE staging[p][c]]
    BY <1>1, <1>3, <1>5 DEF SidesTyped
  <2>2. ASSUME NEW c \in S PROVE staging'[p][c] \in Nat
    <3>1. CASE Channels!Contains(channels, c)
      <4>1. staging'[p][c] = said[p] + Channels!Position(channels, c)
        BY <2>1, <3>1
      <4> QED
        BY <1>3, <1>6, <3>1, <4>1
    <3>2. CASE ~Channels!Contains(channels, c)
      BY <1>3, <2>1, <3>2
    <3> QED
      BY <3>1, <3>2
  <2>3. ASSUME NEW k \in 1..n PROVE staging'[p][channels[k]] = said[p] + k
    <3>1. channels[k] \in S /\ Channels!Contains(channels, channels[k])
      BY <1>4 DEF Channels!Contains
    <3> QED
      BY <1>6, <2>1, <3>1
  <2> QED
    BY <2>1, <2>2, <2>3
<1>8. said'[p] = said[p] + n /\ dirty'[p] = channels
      /\ step'[p] \in {"last write", "writing", "joined"} /\ step[p] # "err"
      /\ (step'[p] = "writing" => channels = <<>>)
  BY <1>1, <1>5 DEF SidesTyped
<1>9. Tidy(p)'
  <2>1. n <= said[p] + n
    BY <1>3, <1>4
  <2>2. \A k \in 1..n : staging'[p][channels[k]] = (said[p] + n) - n + k
    <3> TAKE k \in 1..n
    <3>1. (said[p] + n) - n + k = said[p] + k
      BY <1>3, <1>4
    <3> QED
      BY <1>7, <3>1
  <2>3. TidyWith(step'[p], channels, staging'[p], said[p] + n)
    BY <1>2, <1>8, <2>1, <2>2 DEF TidyWith
  <2> QED
    BY <1>8, <2>3 DEF Tidy
<1>10. SidesTyped' /\ (\A q \in Paths : Tidy(q)') /\ LocksInTurn'
  <2>1. said' \in [Paths -> Nat] /\ dirty' \in [Paths -> Seq(S)]
        /\ staging' \in [Paths -> [S -> Nat]] /\ step' \in [Paths -> Steps]
        /\ out' \in [Paths -> BOOLEAN]
    <3>1. said[p] + n \in Nat
      BY <1>3, <1>4
    <3>2. staging' \in [Paths -> [S -> Nat]]
      BY <1>1, <1>5, <1>7 DEF SidesTyped
    <3>3. step' \in [Paths -> Steps] /\ out' \in [Paths -> BOOLEAN]
      BY <1>1, <1>5 DEF SidesTyped, Steps
    <3> HIDE DEF n
    <3>4. said' \in [Paths -> Nat]
      BY <1>1, <1>5, <3>1 DEF SidesTyped
    <3>5. dirty' \in [Paths -> Seq(S)]
      BY <1>1, <1>2, <1>5 DEF SidesTyped
    <3> QED
      BY <3>2, <3>3, <3>4, <3>5
  <2>2. \A q \in Paths : q # p => /\ said'[q] = said[q] /\ dirty'[q] = dirty[q]
                                  /\ staging'[q] = staging[q] /\ step'[q] = step[q]
    BY <1>1, <1>5 DEF SidesTyped
  <2>3. sink' \in [S -> Seq(Piece)] /\ holder' \in [S -> Paths \cup {Nobody}] /\ exit' # "planning"
        /\ UNCHANGED <<wants, plan>> /\ DOMAIN sink' = DOMAIN sink
    BY <1>1, <1>5 DEF SidesTyped
  <2>4. \A c \in S : holder'[c] = holder[c] /\ holder[c] # p
    BY <1>3, <1>5
  <2> QED
    BY <1>1, <1>9, <2>1, <2>2, <2>3, <2>4, PathMoves
<1>11. SinksSound' /\ ToldIsWritten'
  <2>1. \A q \in Paths : Told'[q] = Told[q]
    <3> TAKE q \in Paths
    <3>1. CASE q = p
      <4> DEFINE a == said[p]
                 a2 == said'[p]
                 b == Len(dirty[p])
                 b2 == Len(dirty'[p])
      <4>1. Told'[p] = a2 - b2 /\ Told[p] = a - b
        BY DEF Told
      <4>2. a2 = a + n /\ b2 = n /\ b = 0 /\ a \in Nat /\ n \in Nat
        BY <1>3, <1>4, <1>8
      <4> HIDE DEF a, a2, b, b2, n
      <4>3. a2 - b2 = a - b
        BY <4>2
      <4> QED
        BY <3>1, <4>1, <4>3
    <3>2. CASE q # p
      BY <1>1, <1>5, <3>2 DEF Told, SidesTyped
    <3> QED
      BY <3>1, <3>2
  <2>2. Bad \subseteq Bad'
    BY <1>1, <1>5 DEF Bad, SidesTyped
  <2>3. said' \in [Paths -> Nat] /\ sink' = sink /\ \A c \in S : holder'[c] = holder[c]
    BY <1>5, <1>10 DEF SidesTyped
  <2> QED
    BY <1>1, <2>1, <2>2, <2>3, PathHolds
<1>12. FlushIInv'
  BY <1>1, <1>5, PathFlushes
<1> QED
  BY <1>10, <1>11, <1>12 DEF ReportsIInv, PathsIInv

(* A path that lets go of its locks, and of nothing else, takes none.      *)
LEMMA LocksFreed ==
  ASSUME PathsIInv, exit # "planning", NEW p \in Paths, holder' = Channels!LocksWithout(p)
  PROVE  /\ holder' \in [DOMAIN sink -> Paths \cup {Nobody}]
         /\ \A c \in DOMAIN sink : holder'[c] = (IF holder[c] = p THEN Nobody ELSE holder[c])
<1>1. holder \in [DOMAIN sink -> Paths \cup {Nobody}]
  BY DEF PathsIInv, SidesTyped
<1> QED
  BY <1>1 DEF Channels!LocksWithout, Nobody

(* A path that fails leaves its locks, and what it has written, behind.    *)
LEMMA FailsKeeps ==
  ASSUME ReportsIInv, Nobody \notin Paths, NEW p \in Paths, Channels!Running(p),
         step' = [step EXCEPT ![p] = "err"], holder' = Channels!LocksWithout(p),
         UNCHANGED <<wants, plan, said, staging, dirty, out, sink, ondisk, toflush, exit>>
  PROVE  ReportsIInv'
<1>1. PathsIInv /\ SidesTyped /\ exit # "planning"
      /\ TidyWith(step[p], dirty[p], staging[p], said[p])
  BY PathIs DEF ReportsIInv, PathsIInv
<1>2. /\ holder' \in [DOMAIN sink -> Paths \cup {Nobody}]
      /\ \A c \in DOMAIN sink : holder'[c] = (IF holder[c] = p THEN Nobody ELSE holder[c])
  BY <1>1, LocksFreed
<1>3. step' \in [Paths -> Steps] /\ step'[p] = "err" /\ p \in Bad' /\ Bad \subseteq Bad'
      /\ \A q \in Paths : q # p => step'[q] = step[q]
  BY <1>1 DEF SidesTyped, Steps, Bad
<1>4. Tidy(p)'
  <2>1. TidyWith("err", dirty[p], staging[p], said[p])
    BY <1>1 DEF TidyWith
  <2> QED
    BY <1>3, <2>1 DEF Tidy
<1>5. SidesTyped' /\ (\A q \in Paths : Tidy(q)') /\ LocksInTurn'
  <2>1. said' \in [Paths -> Nat] /\ dirty' \in [Paths -> Seq(DOMAIN sink)]
        /\ staging' \in [Paths -> [DOMAIN sink -> Nat]] /\ out' \in [Paths -> BOOLEAN]
        /\ sink' \in [DOMAIN sink -> Seq(Piece)]
        /\ DOMAIN sink' = DOMAIN sink /\ UNCHANGED <<wants, plan>> /\ exit' # "planning"
    BY <1>1 DEF SidesTyped
  <2>2. \A q \in Paths : q # p => /\ said'[q] = said[q] /\ dirty'[q] = dirty[q]
                                  /\ staging'[q] = staging[q] /\ step'[q] = step[q]
    BY <1>3
  <2>3. \A c \in DOMAIN sink : holder'[c] = Nobody \/ (holder'[c] = holder[c] /\ holder[c] # p)
    BY <1>2
  <2> QED
    BY <1>1, <1>2, <1>3, <1>4, <2>1, <2>2, <2>3, PathMoves
<1>6. SinksSound' /\ ToldIsWritten'
  <2>1. \A q \in Paths : Told'[q] = Told[q]
    BY DEF Told
  <2>2. \A c \in DOMAIN sink : holder'[c] = holder[c] \/ holder[c] \in Bad'
    BY <1>2, <1>3
  <2>3. said' \in [Paths -> Nat] /\ sink' = sink
    BY <1>5 DEF SidesTyped
  <2> QED
    BY <1>1, <1>3, <2>1, <2>2, <2>3, PathHolds
<1>7. FlushIInv'
  BY PathFlushes
<1> QED
  BY <1>5, <1>6, <1>7 DEF ReportsIInv, PathsIInv

(* A path that only moves on, with its locks or with one whose turn it is, *)
(* holds on to what it has.                                                *)
LEMMA MovesKeeps ==
  ASSUME ReportsIInv, Nobody \notin Paths, NEW p \in Paths, Channels!Running(p),
         NEW st \in Steps \ {"err"}, step' = [step EXCEPT ![p] = st], out' \in [Paths -> BOOLEAN],
         st \in {"reading", "writing", "ok"} => dirty[p] = <<>>,
         holder' \in [DOMAIN sink -> Paths \cup {Nobody}],
         \A c \in DOMAIN sink :
           /\ holder'[c] = holder[c] \/ (holder[c] = Nobody /\ holder'[c] = p)
           /\ holder'[c] = p =>
                st \in {"joined", "last apply"} /\ dirty[p] # <<>> /\ dirty[p][1] = c,
         UNCHANGED <<wants, plan, said, staging, dirty, sink, ondisk, toflush, exit>>
  PROVE  ReportsIInv'
<1>1. PathsIInv /\ SidesTyped /\ exit # "planning" /\ step[p] # "err"
      /\ TidyWith(step[p], dirty[p], staging[p], said[p])
  BY PathIs DEF ReportsIInv, PathsIInv, Channels!Running
<1>2. step' \in [Paths -> Steps] /\ step'[p] = st /\ Bad \subseteq Bad'
      /\ \A q \in Paths : q # p => step'[q] = step[q]
  BY <1>1 DEF SidesTyped, Bad
<1>3. Tidy(p)'
  <2>1. TidyWith(st, dirty[p], staging[p], said[p])
    BY <1>1 DEF TidyWith
  <2> QED
    BY <1>2, <2>1 DEF Tidy
<1>4. SidesTyped' /\ (\A q \in Paths : Tidy(q)') /\ LocksInTurn'
  <2>1. said' \in [Paths -> Nat] /\ dirty' \in [Paths -> Seq(DOMAIN sink)]
        /\ staging' \in [Paths -> [DOMAIN sink -> Nat]] /\ out' \in [Paths -> BOOLEAN]
        /\ sink' \in [DOMAIN sink -> Seq(Piece)]
        /\ DOMAIN sink' = DOMAIN sink /\ UNCHANGED <<wants, plan>> /\ exit' # "planning"
    BY <1>1 DEF SidesTyped
  <2>2. \A q \in Paths : q # p => /\ said'[q] = said[q] /\ dirty'[q] = dirty[q]
                                  /\ staging'[q] = staging[q] /\ step'[q] = step[q]
    BY <1>2
  <2>3. ASSUME NEW c \in DOMAIN sink
        PROVE  (holder'[c] = holder[c] /\ holder[c] # p) \/ (holder'[c] = p /\ Turn(p, c)')
    <3>1. CASE holder'[c] = p
      BY <1>2, <3>1 DEF Turn
    <3>2. CASE holder'[c] # p
      BY <3>2
    <3> QED
      BY <3>1, <3>2
  <2> QED
    BY <1>1, <1>2, <1>3, <2>1, <2>2, <2>3, PathMoves
<1>5. SinksSound' /\ ToldIsWritten'
  <2>1. \A q \in Paths : Told'[q] = Told[q]
    BY DEF Told
  <2>2. said' \in [Paths -> Nat] /\ sink' = sink
    BY <1>4 DEF SidesTyped
  <2> QED
    BY <1>1, <1>2, <2>1, <2>2, PathHolds
<1>6. FlushIInv'
  BY PathFlushes
<1> QED
  BY <1>4, <1>5, <1>6 DEF ReportsIInv, PathsIInv

(* The payload is written, or the path fails with it.                      *)
LEMMA SendsKeeps ==
  ASSUME ReportsIInv, Nobody \notin Paths, NEW p \in Paths, Channels!Sends(p)
  PROVE  ReportsIInv'
<1>1. PathsIInv /\ Channels!Running(p) /\ SidesTyped
  BY DEF Channels!Sends, ReportsIInv, PathsIInv
<1>2. /\ TidyWith(step[p], dirty[p], staging[p], said[p]) /\ step[p] \in Steps
      /\ \A c \in DOMAIN sink : holder[c] = p => Turn(p, c)
      /\ exit # "planning" /\ step[p] # "err"
  BY <1>1, PathIs DEF Channels!Running
<1>3. CASE step' = [step EXCEPT ![p] = "err"] /\ holder' = Channels!LocksWithout(p) /\ UNCHANGED out
  BY <1>1, <1>3, FailsKeeps DEF Channels!Sends
<1>4. CASE ~(step' = [step EXCEPT ![p] = "err"] /\ holder' = Channels!LocksWithout(p) /\ UNCHANGED out)
  <2> DEFINE st == CASE step[p] = "writing" -> "reading"
                     [] step[p] = "joined" /\ dirty[p] = <<>> -> "reading"
                     [] step[p] = "last write" -> "last apply"
                     [] OTHER -> step[p]
  <2>1. step' = [step EXCEPT ![p] = st] /\ out' = [out EXCEPT ![p] = TRUE] /\ holder' = holder
        /\ UNCHANGED <<wants, plan, said, staging, dirty, sink, ondisk, toflush, exit>>
    BY <1>4 DEF Channels!Sends
  <2>2. \/ step[p] = "writing" /\ st = "reading"
        \/ step[p] = "joined" /\ dirty[p] = <<>> /\ st = "reading"
        \/ step[p] = "last write" /\ st = "last apply"
        \/ step[p] \notin {"writing", "last write"} /\ (step[p] = "joined" => dirty[p] # <<>>)
           /\ st = step[p]
    OBVIOUS
  <2> HIDE DEF st
  <2>3. st \in Steps \ {"err"} /\ (st \in {"reading", "writing", "ok"} => dirty[p] = <<>>)
    BY <1>2, <2>2 DEF Steps, TidyWith
  <2>4. out' \in [Paths -> BOOLEAN] /\ holder' \in [DOMAIN sink -> Paths \cup {Nobody}]
    BY <1>1, <1>2, <2>1 DEF SidesTyped
  <2>5. \A c \in DOMAIN sink : holder'[c] = p =>
          st \in {"joined", "last apply"} /\ dirty[p] # <<>> /\ dirty[p][1] = c
    BY <1>2, <2>1, <2>2 DEF Turn
  <2> QED
    BY <1>1, <2>1, <2>3, <2>4, <2>5, MovesKeeps
<1> QED
  BY <1>3, <1>4

(* A path takes the lock of the sink whose turn it is.                     *)
LEMMA LocksKeeps ==
  ASSUME ReportsIInv, Nobody \notin Paths, NEW p \in Paths, Channels!Locks(p)
  PROVE  ReportsIInv'
<1>1. /\ PathsIInv /\ Channels!Running(p) /\ SidesTyped
      /\ step[p] \in {"joined", "last apply"} /\ dirty[p] # <<>>
  BY DEF Channels!Locks, Channels!Applying, ReportsIInv, PathsIInv
<1>2. /\ \A c \in DOMAIN sink : holder[c] = p => Turn(p, c)
      /\ exit # "planning" /\ Len(dirty[p]) \in Nat
      /\ \A k \in 1..Len(dirty[p]) : dirty[p][k] \in DOMAIN sink
  BY <1>1, PathIs
<1> DEFINE at == dirty[p][1]
<1>3. Channels!Current(p) = at
  BY DEF Channels!Current
<1>4. /\ holder[at] = Nobody /\ holder' = [holder EXCEPT ![at] = p]
      /\ UNCHANGED <<wants, plan, said, staging, dirty, step, out, sink, ondisk, toflush, exit>>
  BY <1>3 DEF Channels!Locks, Channels!path, Nobody
<1>5. holder \in [DOMAIN sink -> Paths \cup {Nobody}]
  BY <1>1, <1>2 DEF SidesTyped
<1>6. step' = [step EXCEPT ![p] = step[p]] /\ step[p] \in Steps \ {"err"}
      /\ out' \in [Paths -> BOOLEAN]
      /\ (step[p] \in {"reading", "writing", "ok"} => dirty[p] = <<>>)
  BY <1>1, <1>4 DEF SidesTyped
<1>7. ASSUME NEW c \in DOMAIN sink
      PROVE  /\ holder'[c] = holder[c] \/ (holder[c] = Nobody /\ holder'[c] = p)
             /\ holder'[c] = p =>
                  step[p] \in {"joined", "last apply"} /\ dirty[p] # <<>> /\ dirty[p][1] = c
  <2>1. CASE c = at
    BY <1>1, <1>4, <1>5, <2>1
  <2>2. CASE c # at
    <3>1. holder'[c] = holder[c]
      BY <1>4, <1>5, <2>2
    <3> QED
      BY <1>2, <3>1 DEF Turn
  <2> QED
    BY <2>1, <2>2
<1>8. holder' \in [DOMAIN sink -> Paths \cup {Nobody}]
  BY <1>4, <1>5
<1> QED
  BY <1>1, <1>4, <1>6, <1>7, <1>8, MovesKeeps

(* A path that is through has nothing staged.                              *)
LEMMA FinishesKeeps ==
  ASSUME ReportsIInv, Nobody \notin Paths, NEW p \in Paths, Channels!Finishes(p)
  PROVE  ReportsIInv'
<1>1. PathsIInv /\ Channels!Running(p) /\ SidesTyped /\ dirty[p] = <<>>
      /\ step' = [step EXCEPT ![p] = "ok"]
      /\ UNCHANGED <<wants, plan, said, staging, dirty, out, sink, holder, ondisk, toflush, exit>>
  BY DEF Channels!Finishes, ReportsIInv, PathsIInv
<1>2. (\A c \in DOMAIN sink : holder[c] = p => Turn(p, c)) /\ exit # "planning"
  BY <1>1, PathIs
<1>3. \A c \in DOMAIN sink : holder'[c] # p
  BY <1>1, <1>2 DEF Turn
<1>4. out' \in [Paths -> BOOLEAN] /\ holder' \in [DOMAIN sink -> Paths \cup {Nobody}]
      /\ "ok" \in Steps \ {"err"}
  BY <1>1, <1>2 DEF SidesTyped, Steps
<1> QED
  BY <1>1, <1>3, <1>4, MovesKeeps

(* What is written stays written as sinks grow.                            *)
Grow(sinks, sinks2) ==
  /\ DOMAIN sinks2 = DOMAIN sinks
  /\ \A c \in DOMAIN sinks : \A i \in 1..Len(sinks[c]) :
       i \in 1..Len(sinks2[c]) /\ sinks2[c][i] = sinks[c][i]

(* What is in a sink is in one that has grown from it.                     *)
LEMMA StaysWritten ==
  ASSUME NEW sinks, NEW sinks2, Grow(sinks, sinks2), NEW p, NEW n, Written(sinks, p, n)
  PROVE  Written(sinks2, p, n)
<1>1. PICK c \in DOMAIN sinks : \E i \in 1..Len(sinks[c]) : sinks[c][i] = <<p, n, 2>>
  BY DEF Written
<1>2. PICK i \in 1..Len(sinks[c]) : sinks[c][i] = <<p, n, 2>>
  BY <1>1
<1>3. i \in 1..Len(sinks2[c]) /\ sinks2[c][i] = <<p, n, 2>> /\ c \in DOMAIN sinks2
  BY <1>2 DEF Grow
<1> QED
  BY <1>3 DEF Written

(* A piece is added to the sink whose turn it is, and to no other.         *)
Appended(sinks, sinks2, at, x) ==
  /\ \A c \in DOMAIN sinks : c # at => sinks2[c] = sinks[c]
  /\ Len(sinks2[at]) = Len(sinks[at]) + 1
  /\ \A i \in 1..Len(sinks[at]) : sinks2[at][i] = sinks[at][i]
  /\ sinks2[at][Len(sinks[at]) + 1] = x

(* A path appends to the sink whose turn it is, and all that was written   *)
(* stays.                                                                  *)
LEMMA Appends ==
  ASSUME PathsIInv, NEW p \in Paths, Channels!Applying(p), NEW x \in Piece,
         sink' = [sink EXCEPT ![Channels!Current(p)] = Append(sink[Channels!Current(p)], x)]
  PROVE  /\ Channels!Current(p) \in DOMAIN sink /\ DOMAIN sink' = DOMAIN sink
         /\ sink' \in [DOMAIN sink -> Seq(Piece)]
         /\ \A c \in DOMAIN sink : /\ Len(sink[c]) \in Nat
                                   /\ \A i \in 1..Len(sink[c]) : sink[c][i] \in Piece
         /\ Appended(sink, sink', Channels!Current(p), x)
         /\ \A q, n : Written(sink, q, n) => Written(sink', q, n)
<1> DEFINE at == Channels!Current(p)
<1>1. at = dirty[p][1] /\ Channels!Running(p) /\ dirty[p] # <<>>
  <2>1. at = dirty[p][1]
    BY DEF Channels!Current
  <2>2. Channels!Running(p) /\ dirty[p] # <<>>
    BY DEF Channels!Applying
  <2> QED
    BY <2>1, <2>2
<1>2. exit # "planning" /\ SidesTyped
  BY <1>1, PathIs DEF PathsIInv
<1>3. at \in DOMAIN sink
  <2> DEFINE T == DOMAIN sink
             d == dirty[p]
  <2>1. d \in Seq(T) /\ d # <<>>
    BY <1>1, <1>2 DEF SidesTyped
  <2> HIDE DEF T, d
  <2>2. d[1] \in T
    BY <2>1
  <2> QED
    BY <1>1, <2>2 DEF T, d
<1>4. sink \in [DOMAIN sink -> Seq(Piece)]
  BY <1>2 DEF SidesTyped
<1> HIDE DEF at, Piece
<1>5. \A c \in DOMAIN sink : /\ Len(sink[c]) \in Nat
                             /\ \A i \in 1..Len(sink[c]) : sink[c][i] \in Piece
  <2> TAKE c \in DOMAIN sink
  <2> DEFINE s == sink[c]
  <2>1. s \in Seq(Piece)
    BY <1>4
  <2> HIDE DEF s
  <2>2. Len(s) \in Nat /\ \A i \in 1..Len(s) : s[i] \in Piece
    BY <2>1
  <2> QED
    BY <2>2 DEF s
<1> DEFINE s == sink[at]
           s2 == sink'[at]
<1>6. s \in Seq(Piece)
  BY <1>3, <1>4
<1>7. DOMAIN sink' = DOMAIN sink /\ (\A c \in DOMAIN sink : c # at => sink'[c] = sink[c])
      /\ s2 = Append(s, x)
  BY <1>3, <1>4 DEF at
<1>8. sink' = [c \in DOMAIN sink |-> sink'[c]]
  BY DEF at
<1> HIDE DEF s, s2
<1>9. s2 \in Seq(Piece) /\ Len(s2) = Len(s) + 1 /\ (\A i \in 1..Len(s) : s2[i] = s[i])
      /\ s2[Len(s) + 1] = x /\ Len(s) \in Nat
  BY <1>6, <1>7, AppendProperties
<1>10. sink' \in [DOMAIN sink -> Seq(Piece)]
  <2>1. ASSUME NEW c \in DOMAIN sink PROVE sink'[c] \in Seq(Piece)
    BY <1>4, <1>7, <1>9 DEF s2
  <2> QED
    BY <1>8, <2>1
<1>11. ASSUME NEW c \in DOMAIN sink, NEW i \in 1..Len(sink[c])
       PROVE  i \in 1..Len(sink'[c]) /\ sink'[c][i] = sink[c][i]
  <2>1. CASE c = at
    <3>1. i \in 1..Len(s) /\ sink'[c] = s2 /\ sink[c] = s
      BY <1>11, <2>1 DEF s, s2
    <3> QED
      BY <1>9, <3>1
  <2>2. CASE c # at
    BY <1>7, <1>11, <2>2
  <2> QED
    BY <2>1, <2>2
<1>12. ASSUME NEW q, NEW n, Written(sink, q, n) PROVE Written(sink', q, n)
  <2>1. Grow(sink, sink')
    BY <1>7, <1>11 DEF Grow
  <2> QED
    BY <1>12, <2>1, StaysWritten, Zenon
<1> QED
  BY <1>3, <1>5, <1>7, <1>9, <1>10, <1>12 DEF at, s, s2, Appended

(* A path writes the first piece of its record, or fails to.               *)
LEMMA WritesKeeps ==
  ASSUME ReportsIInv, Nobody \notin Paths, NEW p \in Paths, Channels!Writes(p)
  PROVE  ReportsIInv'
<1> DEFINE at == Channels!Current(p)
           x  == <<p, staging[p][at], 1>>
<1>1. /\ PathsIInv /\ Channels!Running(p) /\ Channels!Applying(p) /\ SidesTyped /\ dirty[p] # <<>>
      /\ step[p] \in {"joined", "last apply"} /\ holder[at] = p
      /\ UNCHANGED <<wants, plan, said, staging, dirty, out, ondisk, toflush, exit>>
  BY DEF Channels!Writes, Channels!Applying, ReportsIInv, PathsIInv
<1>2. CASE sink' = sink /\ step' = [step EXCEPT ![p] = "err"] /\ holder' = Channels!LocksWithout(p)
  BY <1>1, <1>2, FailsKeeps
<1>3. CASE /\ ~Channels!Begun(p) /\ UNCHANGED <<step, holder>>
           /\ sink' = [sink EXCEPT ![at] = Append(sink[at], x)]
  <2>1. /\ exit # "planning" /\ p \notin Bad /\ said[p] \in Nat /\ Len(dirty[p]) \in Nat
        /\ TidyWith(step[p], dirty[p], staging[p], said[p])
        /\ Told[p] = said[p] - Len(dirty[p]) /\ Told[p] \in Nat /\ step[p] # "err"
        /\ \A c \in DOMAIN sink : holder[c] = p => Turn(p, c)
    BY <1>1, PathIs
  <2>2. at = dirty[p][1]
    BY DEF Channels!Current
  <2>3. staging[p][at] = Told[p] + 1
    <3>1. Len(dirty[p]) # 0
      <4> DEFINE T == DOMAIN sink
                 d == dirty[p]
      <4>1. d \in Seq(T) /\ d # <<>>
        BY <1>1 DEF SidesTyped
      <4> HIDE DEF T, d
      <4>2. Len(d) # 0
        BY <4>1, EmptySeq
      <4> QED
        BY <4>2 DEF d
    <3>2. 1 \in 1..Len(dirty[p])
      BY <2>1, <3>1
    <3>3. staging[p][dirty[p][1]] = said[p] - Len(dirty[p]) + 1
      BY <2>1, <3>2 DEF TidyWith
    <3> QED
      BY <2>1, <2>2, <3>3
  <2>4. x = <<p, Told[p] + 1, 1>> /\ x \in Piece
    BY <2>1, <2>3 DEF Piece
  <2> HIDE DEF x
  <2>5. /\ at \in DOMAIN sink /\ DOMAIN sink' = DOMAIN sink /\ sink' \in [DOMAIN sink -> Seq(Piece)]
        /\ \A c \in DOMAIN sink : /\ Len(sink[c]) \in Nat
                                  /\ \A i \in 1..Len(sink[c]) : sink[c][i] \in Piece
        /\ \A c \in DOMAIN sink : c # at => sink'[c] = sink[c]
        /\ Len(sink'[at]) = Len(sink[at]) + 1
        /\ \A i \in 1..Len(sink[at]) : sink'[at][i] = sink[at][i]
        /\ sink'[at][Len(sink[at]) + 1] = x
        /\ \A q, n : Written(sink, q, n) => Written(sink', q, n)
    <3>1. /\ at \in DOMAIN sink /\ DOMAIN sink' = DOMAIN sink
          /\ sink' \in [DOMAIN sink -> Seq(Piece)]
          /\ \A c \in DOMAIN sink : /\ Len(sink[c]) \in Nat
                                    /\ \A i \in 1..Len(sink[c]) : sink[c][i] \in Piece
          /\ Appended(sink, sink', at, x)
          /\ \A q, n : Written(sink, q, n) => Written(sink', q, n)
      BY <1>1, <1>3, <2>4, Appends, Zenon
    <3> QED
      BY <3>1 DEF Appended
  <2>6. Told' = Told /\ Bad' = Bad /\ Told \in [Paths -> Nat]
    BY <1>1, <1>3, ToldTyped DEF Told, Bad
  <2>7. SinksSound /\ ToldIsWritten
    BY <1>1 DEF PathsIInv
  <2>8. Len(sink[at]) # 0 => sink[at][Len(sink[at])] # x
    <3>1. sink[at] = <<>> \/ sink[at][Len(sink[at])] # x
      BY <1>3 DEF Channels!Begun, Channels!Last, x
    <3>2. sink[at] = <<>> => Len(sink[at]) = 0
      OBVIOUS
    <3> QED
      BY <3>1, <3>2
  <2>9. SinkSound(sink'[at], p, Told, Bad)
    <3> DEFINE s == sink[at]
               s2 == sink'[at]
    <3>1. SinkSound(s, p, Told, Bad)
      BY <1>1, <2>5, <2>7 DEF SinksSound
    <3>2. Len(s) \in Nat /\ (\A i \in 1..Len(s) : s[i] \in Piece) /\ Len(s2) = Len(s) + 1
          /\ (\A i \in 1..Len(s) : s2[i] = s[i]) /\ s2[Len(s) + 1] = x
          /\ (Len(s) # 0 => s[Len(s)] # x)
      BY <2>5, <2>8
    <3> HIDE DEF s, s2
    <3> QED
      BY <2>1, <2>4, <2>6, <3>1, <3>2, BeginsSound DEF s2
  <2>10. SinksSound'
    <3> SUFFICES ASSUME NEW c \in DOMAIN sink
                 PROVE  SinkSound(sink'[c], holder'[c], Told, Bad)
      BY <2>5, <2>6 DEF SinksSound
    <3>1. holder'[c] = holder[c]
      BY <1>3
    <3>2. CASE c = at
      BY <1>1, <2>9, <3>1, <3>2
    <3>3. CASE c # at
      BY <2>5, <2>7, <3>1, <3>3 DEF SinksSound
    <3> QED
      BY <3>2, <3>3
  <2>11. ToldIsWritten'
    BY <2>5, <2>6, <2>7 DEF ToldIsWritten
  <2>12. SidesTyped' /\ (\A q \in Paths : Tidy(q)') /\ LocksInTurn'
    <3>1. Tidy(p)'
      BY <1>1, <1>3, <2>1 DEF Tidy
    <3>2. ASSUME NEW c \in DOMAIN sink
          PROVE  (holder'[c] = holder[c] /\ holder[c] # p) \/ (holder'[c] = p /\ Turn(p, c)')
      <4>1. holder'[c] = holder[c]
        BY <1>3
      <4>2. holder[c] = p => Turn(p, c)'
        BY <1>1, <1>3, <2>1 DEF Turn
      <4> QED
        BY <4>1, <4>2
    <3>3. said' \in [Paths -> Nat] /\ dirty' \in [Paths -> Seq(DOMAIN sink)]
          /\ staging' \in [Paths -> [DOMAIN sink -> Nat]] /\ out' \in [Paths -> BOOLEAN]
          /\ step' \in [Paths -> Steps] /\ holder' \in [DOMAIN sink -> Paths \cup {Nobody}]
          /\ UNCHANGED <<wants, plan>> /\ exit' # "planning"
      BY <1>1, <1>3, <2>1 DEF SidesTyped
    <3>4. \A q \in Paths : q # p => /\ said'[q] = said[q] /\ dirty'[q] = dirty[q]
                                    /\ staging'[q] = staging[q] /\ step'[q] = step[q]
      BY <1>1, <1>3
    <3> QED
      BY <1>1, <2>1, <2>5, <3>1, <3>2, <3>3, <3>4, PathMoves
  <2>13. FlushIInv'
    BY <1>1, <2>5, PathFlushes
  <2> QED
    BY <2>10, <2>11, <2>12, <2>13 DEF ReportsIInv, PathsIInv
<1> QED
  BY <1>2, <1>3 DEF Channels!Writes

(* Nothing is behind the only element.                                     *)
LEMMA TailOfOne ==
  ASSUME NEW S, NEW d \in Seq(S), Len(d) = 1
  PROVE  Tail(d) = <<>>
<1>1. d # <<>>
  OBVIOUS
<1>2. Tail(d) \in Seq(S) /\ Len(Tail(d)) = 0
  BY <1>1, HeadTailProperties
<1> QED
  BY <1>2, EmptySeq

(* What is left to write of a call, once a record is written.              *)
Left(S, d, r, r2, told, st2) ==
  /\ Tail(d) \in Seq(S) /\ Len(Tail(d)) = Len(d) - 1 /\ Len(d) \in Nat \ {0}
  /\ d[1] \in S /\ r[d[1]] = told - Len(d) + 1
  /\ TidyWith(st2, Tail(d), r2, told)

Elsewhere(S, at, r, r2) == \A c \in S : c # at => r2[c] = r[c]

(* It is tidy, and the record was the first of those the call said.        *)
LEMMA TailTidy ==
  ASSUME NEW S, NEW d \in Seq(S), d # <<>>, NEW r \in [S -> Nat], NEW r2, NEW told \in Nat,
         NEW st, NEW st2, st # "err", TidyWith(st, d, r, told),
         Elsewhere(S, d[1], r, r2),
         st2 \in {"reading", "writing", "ok"} => Tail(d) = <<>>
  PROVE  Left(S, d, r, r2, told, st2)
<1> DEFINE n == Len(d)
           e == Tail(d)
<1>1. n \in Nat /\ n # 0 /\ \A i \in 1..n : d[i] \in S
  BY EmptySeq
<1>2. e \in Seq(S) /\ Len(e) = n - 1 /\ \A i \in 1..(n - 1) : e[i] = d[i + 1]
  BY <1>1, HeadTailProperties
<1>3. /\ n <= told
      /\ \A k \in 1..n : r[d[k]] = told - n + k
      /\ \A k, l \in 1..n : d[k] = d[l] => k = l
  BY DEF TidyWith
<1> HIDE DEF n, e
<1>4. 1 \in 1..n /\ d[1] \in S /\ r[d[1]] = told - n + 1
  BY <1>1, <1>3
<1>5. Len(e) <= told
  BY <1>1, <1>2, <1>3
<1>6. ASSUME NEW k \in 1..Len(e) PROVE r2[e[k]] = told - Len(e) + k
  <2> DEFINE m == k + 1
  <2>1. m \in 1..n /\ m # 1 /\ k \in 1..(n - 1)
    BY <1>1, <1>2
  <2>2. told - n + m = told - Len(e) + k
    BY <1>1, <1>2
  <2>3. e[k] = d[m]
    BY <1>2, <2>1
  <2> HIDE DEF m
  <2>4. d[m] # d[1] /\ d[m] \in S
    BY <1>1, <1>3, <1>4, <2>1
  <2>5. r2[d[m]] = r[d[m]] /\ r[d[m]] = told - n + m
    BY <1>3, <2>1, <2>4 DEF Elsewhere
  <2> QED
    BY <2>2, <2>3, <2>5
<1>7. ASSUME NEW k \in 1..Len(e), NEW l \in 1..Len(e), e[k] = e[l] PROVE k = l
  <2>1. k + 1 \in 1..n /\ l + 1 \in 1..n /\ k \in 1..(n - 1) /\ l \in 1..(n - 1)
    BY <1>1, <1>2
  <2>2. d[k + 1] = d[l + 1]
    BY <1>2, <1>7, <2>1
  <2>3. k + 1 = l + 1
    BY <1>3, <2>1, <2>2
  <2> QED
    BY <2>1, <2>3
<1>8. TidyWith(st2, e, r2, told)
  BY <1>5, <1>6, <1>7 DEF TidyWith, e
<1> QED
  BY <1>1, <1>2, <1>4, <1>8 DEF n, e, Left

(* A path writes the rest of its record, and lets go of the sink.          *)
LEMMA WritesRestKeeps ==
  ASSUME ReportsIInv, Nobody \notin Paths, NEW p \in Paths, Channels!WritesRest(p)
  PROVE  ReportsIInv'
<1> DEFINE at == Channels!Current(p)
           x  == <<p, staging[p][at], 2>>
           d  == dirty[p]
           st == IF step[p] = "joined" /\ out[p] /\ Len(d) = 1 THEN "reading" ELSE step[p]
<1>1. /\ PathsIInv /\ Channels!Running(p) /\ Channels!Applying(p) /\ SidesTyped /\ d # <<>>
      /\ step[p] \in {"joined", "last apply"} /\ holder[at] = p /\ Channels!Begun(p)
      /\ sink' = [sink EXCEPT ![at] = Append(sink[at], x)]
      /\ staging' = [staging EXCEPT ![p][at] = 0]
      /\ dirty' = [dirty EXCEPT ![p] = Tail(d)]
      /\ holder' = Channels!LocksWithout(p)
      /\ UNCHANGED <<wants, plan, said, out, ondisk, toflush, exit>>
  BY DEF Channels!WritesRest, Channels!Applying, Channels!Clears, ReportsIInv, PathsIInv
<1>2. step' = [step EXCEPT ![p] = st]
  BY DEF Channels!WritesRest
<1>3. /\ exit # "planning" /\ p \notin Bad /\ said[p] \in Nat /\ step[p] # "err"
      /\ TidyWith(step[p], d, staging[p], said[p]) /\ staging[p] \in [DOMAIN sink -> Nat]
      /\ Told[p] = said[p] - Len(d) /\ Told[p] \in Nat
  BY <1>1, PathIs DEF Channels!Running
<1>4. at = d[1]
  BY DEF Channels!Current
<1>5. d \in Seq(DOMAIN sink) /\ dirty \in [Paths -> Seq(DOMAIN sink)]
      /\ staging \in [Paths -> [DOMAIN sink -> Nat]] /\ step \in [Paths -> Steps]
  BY <1>1, <1>3 DEF SidesTyped
<1>6. /\ staging' \in [Paths -> [DOMAIN sink -> Nat]]
      /\ \A c \in DOMAIN sink : c # d[1] => staging'[p][c] = staging[p][c]
      /\ \A q \in Paths : q # p => staging'[q] = staging[q]
  BY <1>1, <1>4, <1>5
<1>7. st \in {"reading", "writing", "ok"} => Tail(d) = <<>>
  <2>1. Len(d) = 1 => Tail(d) = <<>>
    BY <1>5, TailOfOne
  <2> QED
    BY <1>1, <2>1
<1>8. st \in {"reading", "joined", "last apply"} /\ st \in Steps
  BY <1>1 DEF Steps
<1> HIDE DEF d, x, st
<1>9. /\ Tail(d) \in Seq(DOMAIN sink) /\ Len(Tail(d)) = Len(d) - 1 /\ Len(d) \in Nat \ {0}
      /\ d[1] \in DOMAIN sink /\ staging[p][d[1]] = said[p] - Len(d) + 1
      /\ TidyWith(st, Tail(d), staging'[p], said[p])
  <2> DEFINE S    == DOMAIN sink
             rs   == staging[p]
             rs2  == staging'[p]
             told == said[p]
             was  == step[p]
  <2>1. d \in Seq(S) /\ d # <<>> /\ rs \in [S -> Nat] /\ told \in Nat /\ was # "err"
        /\ TidyWith(was, d, rs, told) /\ Elsewhere(S, d[1], rs, rs2)
        /\ (st \in {"reading", "writing", "ok"} => Tail(d) = <<>>)
    BY <1>1, <1>3, <1>5, <1>6, <1>7 DEF Elsewhere
  <2> HIDE DEF S, rs, rs2, told, was
  <2>2. Left(S, d, rs, rs2, told, st)
    BY <2>1, TailTidy
  <2> QED
    BY <2>2 DEF S, rs, rs2, told, Left
<1>10. x = <<p, Told[p] + 1, 2>> /\ x \in Piece
  BY <1>3, <1>4, <1>9 DEF Piece, x
<1>11. /\ at \in DOMAIN sink /\ DOMAIN sink' = DOMAIN sink
       /\ sink' \in [DOMAIN sink -> Seq(Piece)]
       /\ \A c \in DOMAIN sink : /\ Len(sink[c]) \in Nat
                                 /\ \A i \in 1..Len(sink[c]) : sink[c][i] \in Piece
       /\ Appended(sink, sink', at, x)
       /\ \A q, n : Written(sink, q, n) => Written(sink', q, n)
  BY <1>1, <1>10, Appends, Zenon
<1>12. step' \in [Paths -> Steps] /\ step'[p] = st /\ Bad' = Bad
       /\ \A q \in Paths : q # p => step'[q] = step[q]
  BY <1>2, <1>3, <1>5, <1>8 DEF Bad
<1>13. /\ dirty' \in [Paths -> Seq(DOMAIN sink)] /\ dirty'[p] = Tail(d)
       /\ \A q \in Paths : q # p => dirty'[q] = dirty[q]
  <2> DEFINE T == Seq(DOMAIN sink)
             e == Tail(d)
  <2>1. e \in T /\ dirty \in [Paths -> T] /\ dirty' = [dirty EXCEPT ![p] = e]
    BY <1>1, <1>5, <1>9
  <2> HIDE DEF T, e
  <2>2. dirty' \in [Paths -> T] /\ dirty'[p] = e /\ \A q \in Paths : q # p => dirty'[q] = dirty[q]
    BY <2>1
  <2> QED
    BY <2>2 DEF T, e
<1>14. /\ Told'[p] = Told[p] + 1 /\ \A q \in Paths : q # p => Told'[q] = Told[q]
       /\ Told \in [Paths -> Nat] /\ Told' \in [Paths -> Nat]
  <2>1. Told \in [Paths -> Nat] /\ \A q \in Paths : Told[q] = said[q] - Len(dirty[q])
    BY <1>1, ToldTyped DEF Told
  <2>2. Told' = [q \in Paths |-> said[q] - Len(dirty'[q])]
    <3>1. Told' = [q \in Paths |-> said'[q] - Len(dirty'[q])]
      BY DEF Told
    <3>2. said' = said
      BY <1>1
    <3> QED
      BY <3>1, <3>2
  <2>3. Told'[p] = said[p] - Len(Tail(d))
    BY <1>13, <2>2
  <2> DEFINE a == said[p]
             b == Len(Tail(d))
             n == Len(d)
             t == Told[p]
             t2 == Told'[p]
  <2>4. a \in Nat /\ n \in Nat /\ b = n - 1 /\ t = a - n /\ t2 = a - b /\ t \in Nat
    BY <1>3, <1>9, <2>3
  <2> HIDE DEF a, b, n, t, t2
  <2>5. t2 = t + 1 /\ t2 \in Nat
    BY <2>4
  <2>6. ASSUME NEW q \in Paths, q # p PROVE Told'[q] = Told[q]
    BY <1>13, <2>1, <2>2, <2>6
  <2>7. \A q \in Paths : Told'[q] \in Nat
    BY <2>1, <2>5, <2>6 DEF t2
  <2> QED
    BY <2>1, <2>2, <2>5, <2>6, <2>7 DEF t, t2
<1>15. SidesTyped' /\ (\A q \in Paths : Tidy(q)') /\ LocksInTurn'
  <2>1. Tidy(p)'
    BY <1>1, <1>9, <1>12, <1>13 DEF Tidy
  <2>2. /\ holder' \in [DOMAIN sink -> Paths \cup {Nobody}]
        /\ \A c \in DOMAIN sink : holder'[c] = (IF holder[c] = p THEN Nobody ELSE holder[c])
    BY <1>1, <1>3, LocksFreed
  <2>3. \A c \in DOMAIN sink : holder'[c] = Nobody \/ (holder'[c] = holder[c] /\ holder[c] # p)
    BY <2>2
  <2>4. said' \in [Paths -> Nat] /\ out' \in [Paths -> BOOLEAN]
        /\ UNCHANGED <<wants, plan>> /\ exit' # "planning"
    BY <1>1, <1>3 DEF SidesTyped
  <2>5. \A q \in Paths : q # p => /\ said'[q] = said[q] /\ dirty'[q] = dirty[q]
                                  /\ staging'[q] = staging[q] /\ step'[q] = step[q]
    BY <1>1, <1>6, <1>12, <1>13
  <2> QED
    BY <1>1, <1>3, <1>6, <1>11, <1>12, <1>13, <2>1, <2>2, <2>3, <2>4, <2>5, PathMoves
<1>16. SinksSound'
  <2> SUFFICES ASSUME NEW c \in DOMAIN sink
               PROVE  SinkSound(sink'[c], holder'[c], Told', Bad)
    BY <1>11, <1>12 DEF SinksSound
  <2>1. /\ holder'[c] = (IF holder[c] = p THEN Nobody ELSE holder[c])
        /\ SinkSound(sink[c], holder[c], Told, Bad)
    BY <1>1, <1>3, LocksFreed DEF PathsIInv, SinksSound
  <2> DEFINE s == sink[c]
             s2 == sink'[c]
             told2 == Told'
  <2>2. Len(s) \in Nat /\ \A i \in 1..Len(s) : s[i] \in Piece
    BY <1>11
  <2>3. CASE c = at
    <3>1. Len(s2) = Len(s) + 1 /\ (\A i \in 1..Len(s) : s2[i] = s[i]) /\ s2[Len(s) + 1] = x
      BY <1>11, <2>3 DEF Appended
    <3>2. SinkSound(s, p, Told, Bad)
      BY <1>1, <2>1, <2>3
    <3>3. Len(s) # 0 /\ s[Len(s)] = <<p, Told[p] + 1, 1>>
      <4>1. sink[at] # <<>> /\ sink[at][Len(sink[at])] = <<p, staging[p][at], 1>>
        BY <1>1 DEF Channels!Begun, Channels!Last
      <4>2. staging[p][at] = Told[p] + 1
        BY <1>3, <1>4, <1>9
      <4>3. s \in Seq(Piece) /\ s # <<>>
        BY <1>1, <1>3, <2>3, <4>1 DEF SidesTyped
      <4>4. Len(s) # 0
        <5> HIDE DEF s, Piece
        <5> QED
          BY <4>3, EmptySeq
      <4> QED
        BY <2>3, <4>1, <4>2, <4>4
    <3>4. s2[Len(s) + 1] = <<p, Told[p] + 1, 2>> /\ told2[p] = Told[p] + 1
          /\ (\A q \in Paths : q # p => told2[q] = Told[q])
          /\ Told \in [Paths -> Nat] /\ told2 \in [Paths -> Nat]
      BY <1>10, <1>14, <3>1
    <3> HIDE DEF s, s2, told2
    <3>5. SinkSound(s2, Nobody, told2, Bad)
      BY <1>3, <2>2, <3>1, <3>2, <3>3, <3>4, EndsSound
    <3> QED
      BY <1>1, <2>1, <2>3, <3>5 DEF s2, told2
  <2>4. CASE c # at
    <3>1. s2 = s
      BY <1>11, <2>4 DEF Appended
    <3>2. holder[c] # p
      <4>1. holder[c] = p => Turn(p, c)
        BY <1>1, PathIs
      <4>2. Turn(p, c) => c = at
        BY <1>4 DEF Turn, d
      <4> QED
        BY <2>4, <4>1, <4>2
    <3>3. /\ Told \in [Paths -> Nat] /\ told2 \in [Paths -> Nat]
          /\ \A q \in Paths : Told[q] <= told2[q]
      <4>1. \A q \in Paths : Told[q] \in Nat /\ (told2[q] = Told[q] + 1 \/ told2[q] = Told[q])
        BY <1>14
      <4>2. Told \in [Paths -> Nat] /\ told2 \in [Paths -> Nat]
        BY <1>14
      <4> HIDE DEF told2
      <4> QED
        BY <4>1, <4>2
    <3> DEFINE h == holder[c]
    <3>4. h \in Paths => told2[h] = Told[h]
      BY <1>14, <3>2
    <3>5. SinkSound(s, h, Told, Bad)
      BY <2>1
    <3> HIDE DEF s, s2, told2, h
    <3>6. SinkSound(s, h, told2, Bad)
      BY <2>2, <3>3, <3>4, <3>5, StaysSound
    <3> QED
      BY <2>1, <3>1, <3>2, <3>6 DEF s2, told2, h
  <2> QED
    BY <2>3, <2>4
<1>17. ToldIsWritten'
  <2> SUFFICES ASSUME NEW q \in Paths \ Bad, NEW n \in 1..Told'[q] PROVE Written(sink', q, n)
    BY <1>12 DEF ToldIsWritten
  <2>1. \A m \in 1..Told[q] : Written(sink', q, m)
    BY <1>1, <1>11 DEF PathsIInv, ToldIsWritten
  <2>2. CASE n \in 1..Told[q]
    BY <2>1, <2>2
  <2>3. CASE n \notin 1..Told[q]
    <3>1. q = p /\ n = Told[p] + 1
      <4> DEFINE t == Told[q]
                 t2 == Told'[q]
      <4>1. t \in Nat /\ (t2 = t \/ (q = p /\ t2 = t + 1)) /\ n \in 1..t2 /\ n \notin 1..t
        BY <1>14, <2>3
      <4> HIDE DEF t, t2
      <4>2. q = p /\ n = t + 1
        BY <4>1
      <4> QED
        BY <4>2 DEF t
    <3>2. sink'[at][Len(sink[at]) + 1] = <<p, n, 2>> /\ Len(sink'[at]) = Len(sink[at]) + 1
          /\ Len(sink[at]) \in Nat
      BY <1>10, <1>11, <3>1 DEF Appended
    <3>3. Len(sink[at]) + 1 \in 1..Len(sink'[at])
      BY <3>2
    <3> QED
      BY <1>11, <3>1, <3>2, <3>3 DEF Written
  <2> QED
    BY <2>2, <2>3
<1>18. FlushIInv'
  BY <1>1, <1>11, PathFlushes
<1> QED
  BY <1>15, <1>16, <1>17, <1>18 DEF ReportsIInv, PathsIInv

(* What is known of the paths stays so while they stand still.             *)
LEMMA PathsStay ==
  ASSUME PathsIInv, exit # "planning", exit' # "planning",
         UNCHANGED <<wants, plan, said, staging, dirty, step, out, sink, holder>>
  PROVE  PathsIInv'
<1>1. SidesTyped /\ (\A p \in Paths : Tidy(p)) /\ LocksInTurn /\ SinksSound /\ ToldIsWritten
  BY DEF PathsIInv
<1>2. \A p \in Paths : Channels!ids(p)' = Channels!ids(p)
  BY DEF Channels!ids, Channels!open_channel
<1>3. SidesTyped'
  BY <1>1, <1>2 DEF SidesTyped
<1>4. \A p \in Paths : Tidy(p)'
  BY <1>1 DEF Tidy
<1>5. LocksInTurn'
  BY <1>1 DEF LocksInTurn, Turn
<1>6. Told' = Told /\ Bad' = Bad
  BY DEF Told, Bad
<1>7. SinksSound' /\ ToldIsWritten'
  BY <1>1, <1>6 DEF SinksSound, ToldIsWritten
<1> QED
  BY <1>3, <1>4, <1>5, <1>7 DEF PathsIInv

(* A sink has a length.                                                    *)
LEMMA SinkLength ==
  ASSUME PathsIInv, exit # "planning", NEW c \in DOMAIN sink
  PROVE  Len(sink[c]) \in Nat
<1>1. sink[c] \in Seq(Piece)
  BY DEF PathsIInv, SidesTyped
<1> HIDE DEF Piece
<1> QED
  BY <1>1

(* A buffer that is full passes on what it has.                            *)
LEMMA SpillsKeeps ==
  ASSUME ReportsIInv, NEW c \in DOMAIN sink, Channels!Spills(c)
  PROVE  ReportsIInv'
<1>1. /\ PathsIInv /\ FlushIInv /\ exit \in {"running", "flushing"}
      /\ ondisk' = [ondisk EXCEPT ![c] = Len(sink[c])] /\ ondisk[c] \in 0..(Len(sink[c]) - 1)
      /\ UNCHANGED <<wants, plan, said, staging, dirty, step, out, sink, holder, toflush, exit>>
  BY DEF ReportsIInv, Channels!Spills, Channels!path
<1>2. PathsIInv'
  BY <1>1, PathsStay
<1> DEFINE l == Len(sink[c])
<1>3. l \in Nat
  BY <1>1, SinkLength
<1>4. ondisk \in [DOMAIN sink -> Int] /\ ondisk' = [ondisk EXCEPT ![c] = l]
  BY <1>1 DEF FlushIInv
<1>5. ondisk' \in [DOMAIN sink -> Int] /\ ondisk'[c] = l
      /\ \A d \in DOMAIN sink : d # c => ondisk'[d] = ondisk[d]
  <2> HIDE DEF l
  <2> QED
    BY <1>3, <1>4
<1>6. \A d \in DOMAIN sink : ondisk[d] \in {-1, Len(sink[d])} => ondisk'[d] \in {-1, Len(sink[d])}
  BY <1>5
<1>7. FlushIInv'
  BY <1>1, <1>5, <1>6 DEF FlushIInv
<1> QED
  BY <1>2, <1>7 DEF ReportsIInv

(* The relay returns, with its paths over unless it abandons them.         *)
LEMMA ReturnsKeeps ==
  ASSUME ReportsIInv, Channels!Returns
  PROVE  ReportsIInv'
<1>1. /\ PathsIInv /\ FlushIInv /\ exit = "running" /\ exit' = "flushing"
      /\ Abandons \/ \A p \in Paths : step[p] \in {"ok", "err"}
      /\ UNCHANGED <<wants, plan, said, staging, dirty, step, out, sink, holder, ondisk, toflush>>
  BY DEF ReportsIInv, Channels!Returns, Channels!path
<1>2. PathsIInv'
  BY <1>1, PathsStay
<1>3. FlushIInv'
  BY <1>1 DEF FlushIInv
<1> QED
  BY <1>2, <1>3 DEF ReportsIInv

(* The flush is done with a sink, whether it could write or not.           *)
LEMMA FlushesKeeps ==
  ASSUME ReportsIInv, NEW c \in DOMAIN sink, Channels!Flushes(c)
  PROVE  ReportsIInv'
<1>1. /\ PathsIInv /\ FlushIInv /\ exit = "flushing" /\ toflush' = toflush \ {c}
      /\ UNCHANGED <<wants, plan, said, staging, dirty, step, out, sink, holder, exit>>
  BY DEF ReportsIInv, Channels!Flushes, Channels!path, Channels!OthersToFlush
<1>2. PathsIInv'
  BY <1>1, PathsStay
<1> DEFINE l == Len(sink[c])
<1>3. l \in Nat
  BY <1>1, SinkLength
<1>4. PICK n \in {-1, l} : ondisk' = [ondisk EXCEPT ![c] = n]
  BY DEF Channels!Flushes
<1>5. ondisk' \in [DOMAIN sink -> Int] /\ ondisk'[c] \in {-1, l}
      /\ \A d \in DOMAIN sink : d # c => ondisk'[d] = ondisk[d]
  <2>1. ondisk \in [DOMAIN sink -> Int]
    BY <1>1 DEF FlushIInv
  <2> HIDE DEF l
  <2> QED
    BY <1>3, <1>4, <2>1
<1>6. FlushIInv'
  BY <1>1, <1>5 DEF FlushIInv
<1> QED
  BY <1>2, <1>6 DEF ReportsIInv

(* The run is over once every sink has been seen to.                       *)
LEMMA ExitsKeeps ==
  ASSUME ReportsIInv, Channels!Exits
  PROVE  ReportsIInv'
<1>1. /\ PathsIInv /\ FlushIInv /\ exit = "flushing" /\ toflush = {}
      /\ exit' = (IF \E c \in DOMAIN sink : ondisk[c] = -1 THEN "warned" ELSE "ok")
      /\ UNCHANGED <<wants, plan, said, staging, dirty, step, out, sink, holder, ondisk, toflush>>
  BY DEF ReportsIInv, Channels!Exits, Channels!path
<1>2. exit' \in {"ok", "warned"} /\ (exit' = "ok" => \A c \in DOMAIN sink : ondisk[c] # -1)
  BY <1>1
<1>3. PathsIInv'
  BY <1>1, <1>2, PathsStay
<1>4. FlushIInv'
  BY <1>1, <1>2 DEF FlushIInv
<1> QED
  BY <1>3, <1>4 DEF ReportsIInv

(* No path has begun while the plan is made.                               *)
LEMMA PlanningIs ==
  ASSUME ReportsIInv, exit = "planning"
  PROVE  /\ sink = <<>> /\ DOMAIN sink = {} /\ plan \in Seq(Channels!Targets)
         /\ wants \in [Paths -> SUBSET Channels!Targets]
         /\ said = [p \in Paths |-> 0] /\ dirty = [p \in Paths |-> <<>>]
         /\ step = [p \in Paths |-> "reading"] /\ out \in [Paths -> BOOLEAN]
<1>1. SidesTyped
  BY DEF ReportsIInv, PathsIInv
<1>2. sink = <<>> /\ \A p \in Paths : said[p] = 0 /\ dirty[p] = <<>> /\ step[p] = "reading"
  BY <1>1 DEF SidesTyped
<1>3. DOMAIN sink = {}
  BY <1>2
<1>4. said \in [Paths -> Nat] /\ dirty \in [Paths -> Seq(DOMAIN sink)] /\ step \in [Paths -> Steps]
  BY <1>1 DEF SidesTyped
<1>5. said = [p \in Paths |-> 0]
  BY <1>2, <1>4
<1>6. dirty = [p \in Paths |-> <<>>]
  <2> DEFINE T == Seq(DOMAIN sink)
  <2>1. dirty \in [Paths -> T]
    BY <1>4
  <2> HIDE DEF T
  <2> QED
    BY <1>2, <2>1
<1>7. step = [p \in Paths |-> "reading"]
  BY <1>2, <1>4
<1> QED
  BY <1>1, <1>2, <1>3, <1>5, <1>6, <1>7 DEF SidesTyped

(* As it is before the channels are opened.                                *)
Fresh ==
  /\ sink = <<>> /\ plan \in Seq(Channels!Targets) /\ exit = "planning"
  /\ wants \in [Paths -> SUBSET Channels!Targets] /\ out \in [Paths -> BOOLEAN]
  /\ said = [p \in Paths |-> 0] /\ dirty = [p \in Paths |-> <<>>]
  /\ step = [p \in Paths |-> "reading"]

(* Before the channels are opened nothing has begun, and that is sound.    *)
LEMMA BeforeThePaths == Fresh => ReportsIInv
<1> SUFFICES ASSUME Fresh PROVE ReportsIInv
  OBVIOUS
<1> USE DEF Fresh
<1>1. DOMAIN sink = {}
  OBVIOUS
<1>2. dirty \in [Paths -> Seq(DOMAIN sink)]
  <2> DEFINE T == Seq(DOMAIN sink)
  <2>1. <<>> \in T
    OBVIOUS
  <2> HIDE DEF T
  <2>2. dirty \in [Paths -> T]
    BY <2>1
  <2> QED
    BY <2>2 DEF T
<1>3. step \in [Paths -> Steps] /\ said \in [Paths -> Nat]
  BY DEF Steps
<1>4. SidesTyped
  BY <1>2, <1>3 DEF SidesTyped
<1>5. ASSUME NEW p \in Paths PROVE Tidy(p) /\ Told[p] = 0
  <2>1. Len(dirty[p]) = 0 /\ said[p] = 0 /\ step[p] = "reading" /\ dirty[p] = <<>>
    OBVIOUS
  <2>2. Told[p] = 0
    BY <2>1 DEF Told
  <2>3. Tidy(p)
    BY <2>1 DEF Tidy, TidyWith
  <2> QED
    BY <2>2, <2>3
<1>6. LocksInTurn /\ SinksSound
  BY <1>1 DEF LocksInTurn, SinksSound
<1>7. ToldIsWritten
  BY <1>5 DEF ToldIsWritten
<1>8. FlushIInv
  BY DEF FlushIInv
<1> QED
  BY <1>4, <1>5, <1>6, <1>7, <1>8 DEF ReportsIInv, PathsIInv

(* A channel is found once it is asked for.                                *)
LEMMA DiscoversKeeps ==
  ASSUME ReportsIInv, NEW p \in Paths, NEW t \in wants[p], Channels!Discovers(t)
  PROVE  ReportsIInv'
<1>1. exit = "planning" /\ exit' = "planning" /\ plan' = Channels!Asked(plan, t)
      /\ UNCHANGED <<wants, said, staging, dirty, step, out, sink, holder, ondisk, toflush>>
  BY DEF Channels!Discovers, Channels!path
<1>2. /\ sink = <<>> /\ plan \in Seq(Channels!Targets)
      /\ wants \in [Paths -> SUBSET Channels!Targets]
      /\ said = [q \in Paths |-> 0] /\ dirty = [q \in Paths |-> <<>>]
      /\ step = [q \in Paths |-> "reading"] /\ out \in [Paths -> BOOLEAN]
  BY <1>1, PlanningIs
<1>3. t \in Channels!Targets
  BY <1>2
<1>4. plan' \in Seq(Channels!Targets)
  <2> DEFINE T == Channels!Targets
  <2>1. plan \in Seq(T) /\ t \in T
    BY <1>2, <1>3
  <2> HIDE DEF T
  <2>2. Append(plan, t) \in Seq(T)
    BY <2>1
  <2>3. plan' = plan \/ plan' = Append(plan, t)
    BY <1>1 DEF Channels!Asked
  <2> QED
    BY <2>1, <2>2, <2>3 DEF T
<1>5. Fresh'
  BY <1>1, <1>2, <1>4 DEF Fresh
<1>6. (Fresh => ReportsIInv)'
  BY BeforeThePaths, PTL
<1> QED
  BY <1>5, <1>6

(* The channels of the plan are opened, and the paths begin.               *)
LEMMA OpensKeeps ==
  ASSUME ReportsIInv, Nobody \notin Paths, Channels!Opens
  PROVE  ReportsIInv'
<1> DEFINE D == 1..Len(plan)
<1>1. /\ exit = "planning" /\ exit' = "running"
      /\ \A p \in Paths : \A t \in wants[p] : Channels!open_channel(plan, t) # 0
      /\ staging' = [p \in Paths |-> [c \in D |-> 0]] /\ sink' = [c \in D |-> <<>>]
      /\ holder' = [c \in D |-> Nobody] /\ ondisk' = [c \in D |-> 0] /\ toflush' = D
      /\ UNCHANGED <<wants, plan, said, dirty, step, out>>
  BY DEF Channels!Opens, Nobody
<1>2. /\ plan \in Seq(Channels!Targets) /\ wants \in [Paths -> SUBSET Channels!Targets]
      /\ said = [q \in Paths |-> 0] /\ dirty = [q \in Paths |-> <<>>]
      /\ step = [q \in Paths |-> "reading"] /\ out \in [Paths -> BOOLEAN]
  BY <1>1, PlanningIs
<1>3. DOMAIN sink' = D
  BY <1>1
<1>4. \A p \in Paths : Channels!ids(p)' \subseteq D
  <2> SUFFICES ASSUME NEW p \in Paths, NEW t \in wants[p]
               PROVE  Channels!open_channel(plan, t) \in D
    BY <1>1 DEF Channels!ids, Channels!open_channel
  <2>1. Len(plan) \in Nat
    <3> DEFINE T == Channels!Targets
    <3>1. plan \in Seq(T)
      BY <1>2
    <3> HIDE DEF T
    <3> QED
      BY <3>1
  <2>2. Channels!Position(plan, t) # 0
    BY <1>1 DEF Channels!open_channel
  <2> QED
    BY <2>1, <2>2, PositionIs DEF Channels!open_channel
<1>5. sink' \in [D -> Seq(Piece)] /\ \A c \in D : sink'[c] = <<>>
  <2> DEFINE T == Seq(Piece)
  <2>1. <<>> \in T
    OBVIOUS
  <2> HIDE DEF T
  <2>2. sink' \in [D -> T]
    BY <1>1, <2>1
  <2> QED
    BY <1>1, <2>2 DEF T
<1>6. dirty' \in [Paths -> Seq(D)]
  <2> DEFINE T == Seq(D)
  <2>1. <<>> \in T
    OBVIOUS
  <2> HIDE DEF T
  <2>2. dirty' \in [Paths -> T]
    BY <1>1, <1>2, <2>1
  <2> QED
    BY <2>2 DEF T
<1>7. holder' \in [D -> Paths \cup {Nobody}] /\ staging' \in [Paths -> [D -> Nat]]
      /\ ondisk' \in [D -> Int]
  BY <1>1
<1>8. said' \in [Paths -> Nat] /\ step' \in [Paths -> Steps] /\ out' \in [Paths -> BOOLEAN]
  BY <1>1, <1>2 DEF Steps
<1>9. plan' = plan
  BY <1>1
<1> HIDE DEF D
<1>10. SidesTyped'
  <2>1. D = 1..Len(plan')
    BY <1>9 DEF D
  <2>2. wants' \in [Paths -> SUBSET Channels!Targets] /\ plan' \in Seq(Channels!Targets)
    BY <1>1, <1>2
  <2> QED
    BY <1>1, <1>3, <1>4, <1>5, <1>6, <1>7, <1>8, <2>1, <2>2 DEF SidesTyped
<1>11. ASSUME NEW p \in Paths PROVE Tidy(p)' /\ Told'[p] = 0
  <2>1. Len(dirty'[p]) = 0 /\ said'[p] = 0 /\ step'[p] = "reading" /\ dirty'[p] = <<>>
    BY <1>1, <1>2
  <2>2. Told'[p] = 0
    BY <2>1 DEF Told
  <2>3. Tidy(p)'
    BY <2>1 DEF Tidy, TidyWith
  <2> QED
    BY <2>2, <2>3
<1>12. LocksInTurn'
  BY <1>1, <1>3 DEF LocksInTurn
<1>13. SinksSound'
  BY <1>3, <1>5 DEF SinksSound, SinkSound
<1>14. ToldIsWritten'
  BY <1>11 DEF ToldIsWritten
<1>15. FlushIInv'
  BY <1>1, <1>3, <1>7 DEF FlushIInv
<1> QED
  BY <1>10, <1>11, <1>12, <1>13, <1>14, <1>15 DEF ReportsIInv, PathsIInv

(* So it begins, ...                                                       *)
LEMMA ReportsInit == Channels!Init => ReportsIInv
<1> SUFFICES ASSUME Channels!Init PROVE ReportsIInv
  OBVIOUS
<1>1. plan \in Seq(Channels!Targets)
  <2> DEFINE T == Channels!Targets
  <2>1. plan = <<>>
    BY DEF Channels!Init
  <2> HIDE DEF T
  <2>2. plan \in Seq(T)
    BY <2>1
  <2> QED
    BY <2>2 DEF T
<1>2. Fresh
  BY <1>1 DEF Channels!Init, Fresh
<1> QED
  BY <1>2, BeforeThePaths

(* ... and every step of a path, of a sink and of the run keeps it.        *)
LEMMA ReportsStep ==
  ReportsIInv /\ [StagesNext]_<<part, vars, meterVars, channelVars, guestVars>> => ReportsIInv'
<1> SUFFICES ASSUME ReportsIInv, [StagesNext]_<<part, vars, meterVars, channelVars, guestVars>>
             PROVE  ReportsIInv'
  OBVIOUS
<1>1. Nobody \notin Paths
  BY StagesAssumption DEF Nobody, Channels!Nobody
<1>2. CASE UNCHANGED channelVars
  <2>1. UNCHANGED <<wants, plan, said, staging, dirty, step, out, sink, holder, ondisk, toflush, exit>>
    BY <1>2 DEF channelVars
  <2>2. CASE exit = "planning"
    <3>1. Fresh
      BY <2>2, PlanningIs DEF Fresh
    <3>2. Fresh'
      BY <2>1, <3>1 DEF Fresh
    <3>3. (Fresh => ReportsIInv)'
      BY BeforeThePaths, PTL
    <3> QED
      BY <3>2, <3>3
  <2>3. CASE exit # "planning"
    <3>1. PathsIInv'
      BY <2>1, <2>3, PathsStay DEF ReportsIInv
    <3>2. FlushIInv'
      BY <2>1 DEF ReportsIInv, FlushIInv
    <3> QED
      BY <3>1, <3>2 DEF ReportsIInv
  <2> QED
    BY <2>2, <2>3
<1>3. CASE Channels!Next
  <2>1. ASSUME NEW p \in Paths, NEW channels \in Channels!Staged(p), NEW final \in BOOLEAN,
               Channels!Calls(p, channels, final)
        PROVE  ReportsIInv'
    BY <1>1, <2>1, CallsKeeps
  <2>2. ASSUME NEW p \in Paths, Channels!Sends(p) PROVE ReportsIInv'
    BY <1>1, <2>2, SendsKeeps
  <2>3. ASSUME NEW p \in Paths, Channels!Locks(p) PROVE ReportsIInv'
    BY <1>1, <2>3, LocksKeeps
  <2>4. ASSUME NEW p \in Paths, Channels!Writes(p) PROVE ReportsIInv'
    BY <1>1, <2>4, WritesKeeps
  <2>5. ASSUME NEW p \in Paths, Channels!WritesRest(p) PROVE ReportsIInv'
    BY <1>1, <2>5, WritesRestKeeps
  <2>6. ASSUME NEW p \in Paths, Channels!Finishes(p) PROVE ReportsIInv'
    BY <1>1, <2>6, FinishesKeeps
  <2>7. ASSUME NEW c \in DOMAIN sink, Channels!Spills(c) \/ Channels!Flushes(c) PROVE ReportsIInv'
    BY <2>7, SpillsKeeps, FlushesKeeps
  <2>8. ASSUME NEW p \in Paths, NEW t \in wants[p], Channels!Discovers(t) PROVE ReportsIInv'
    BY <2>8, DiscoversKeeps
  <2>9. CASE Channels!Opens
    BY <1>1, <2>9, OpensKeeps
  <2>10. CASE Channels!Returns
    BY <2>10, ReturnsKeeps
  <2>11. CASE Channels!Exits
    BY <2>11, ExitsKeeps
  <2> QED
    BY <1>3, <2>1, <2>2, <2>3, <2>4, <2>5, <2>6, <2>7, <2>8, <2>9, <2>10, <2>11
    DEF Channels!Next
<1>4. Channels!Next \/ UNCHANGED channelVars
  BY DEF StagesNext
<1> QED
  BY <1>2, <1>3, <1>4

(* A path that has said all has had all of it written; what it holds of a  *)
(* sink is in one piece and in order.                                      *)
LEMMA ReportsImply == ReportsIInv => ReportsAreWhole
<1> SUFFICES ASSUME ReportsIInv PROVE ReportsAreWhole
  OBVIOUS
<1>1. SidesTyped /\ SinksSound /\ ToldIsWritten /\ FlushIInv /\ \A p \in Paths : Tidy(p)
  BY DEF ReportsIInv, PathsIInv
<1>2. Channels!RecordsAreWhole
  <2>1. ASSUME NEW c \in DOMAIN sink, NEW i \in 1..Len(sink[c])
        PROVE  /\ sink[c][i][3] = 1 =>
                    \/ i < Len(sink[c]) /\ sink[c][i + 1] = <<sink[c][i][1], sink[c][i][2], 2>>
                    \/ i = Len(sink[c]) /\ holder[c] = sink[c][i][1]
                    \/ step[sink[c][i][1]] = "err"
               /\ \A j \in 1..Len(sink[c]) : InOrder(sink[c], i, j)
    <3>1. InOnePiece(sink[c], holder[c], Told, Bad, i) /\ \A j \in 1..Len(sink[c]) : InOrder(sink[c], i, j)
      BY <1>1 DEF SinksSound, SinkSound
    <3> QED
      BY <3>1 DEF InOnePiece, Begins, Bad
  <2> QED
    BY <2>1 DEF Channels!RecordsAreWhole, InOrder
<1>3. Channels!OkMeansReported
  <2> SUFFICES ASSUME NEW p \in Paths, step[p] = "ok", NEW n \in 1..said[p]
               PROVE  Written(sink, p, n)
    BY DEF Channels!OkMeansReported, Written
  <2>1. dirty[p] = <<>> /\ p \notin Bad /\ said[p] \in Nat
    BY <1>1 DEF Tidy, TidyWith, Bad, SidesTyped
  <2>2. Told[p] = said[p]
    <3>1. Len(dirty[p]) = 0
      BY <2>1
    <3> QED
      BY <2>1, <3>1 DEF Told
  <2> QED
    BY <1>1, <2>1, <2>2 DEF ToldIsWritten
<1>4. ~Abandons => Channels!NoTailIsLost
  BY <1>1 DEF FlushIInv, Channels!NoTailIsLost
<1> QED
  BY <1>2, <1>3, <1>4 DEF ReportsAreWhole

(* However many paths share whatever sinks, in each a record stays in one  *)
(* piece and in order; a file has as many sinks as it was named in ways,   *)
(* with append and without (OneSinkAFile); a path that ends well has had all its records written, and a  *)
(* run that leaves no path behind loses no tail but the ones it warns of   *)
(* (Channels::apply and flush of host.rs, run_pipeline of pump.rs).        *)
THEOREM ReportsWhole == StagesSpec => []ReportsAreWhole
<1>1. StagesInit => ReportsIInv
  BY ReportsInit DEF StagesInit
<1> QED
  BY <1>1, ReportsStep, ReportsImply, PTL DEF StagesSpec

-----------------------------------------------------------------------------
(* A guest of the WebAssembly host.                                        *)

(* One that was loaded is never another, and has kept what it claimed.     *)
GuestIInv ==
  /\ guest \in Hosted!Modules /\ Hosted!LoadedAsBuilt
  /\ phase \in {"loading", "refused", "ready", "bytes", "tick", "flush", "eof", "failed", "ended"}

(* A call of the guest ends in the phase that is next, or in failure.      *)
LEMMA CallsAndGoesOn ==
  ASSUME NEW next, Hosted!Calls(next) \/ Hosted!Skips(next)
  PROVE  phase' \in {next, "failed"}
BY DEF Hosted!Calls, Hosted!Skips, Hosted!drain, Hosted!Traps

(* A loaded guest stays as it is when only the phase changes, to "tick"    *)
(* only if it has a timer.                                                 *)
LEMMA GuestStays ==
  ASSUME GuestIInv, phase \notin {"loading", "refused"}, UNCHANGED <<guest, ticking, claims>>,
         phase' \in {"ready", "bytes", "tick", "flush", "eof", "failed", "ended"},
         phase' = "tick" => ticking
  PROVE  GuestIInv'
<1>1. guest \in Hosted!Modules /\ Hosted!LoadedAsBuilt
  BY DEF GuestIInv
<1>2. Hosted!LoadedAsBuilt'
  BY <1>1 DEF Hosted!LoadedAsBuilt, Hosted!Sound, Hosted!Exports, Hosted!unpack_boundaries
<1> QED
  BY <1>1, <1>2 DEF GuestIInv

(* A module is loaded only if it is sound and its claims are understood.   *)
LEMMA BuildsKeeps ==
  ASSUME GuestIInv, Hosted!Builds
  PROVE  GuestIInv'
<1>1. guest \in Hosted!Modules /\ guest' = guest
  BY DEF GuestIInv, Hosted!Builds
<1>2. CASE phase' = "refused"
  BY <1>1, <1>2 DEF GuestIInv, Hosted!LoadedAsBuilt
<1>3. CASE phase' # "refused"
  <2>1. PICK cost \in Costs :
          /\ Hosted!Sound /\ Hosted!Declares(cost) /\ phase' = "ready"
          /\ ticking' = Hosted!Ticks(cost)
          /\ claims' = Hosted!unpack_boundaries(IF Hosted!Exports("tocat_boundaries")
                                                THEN guest.word ELSE 0)
    BY <1>3 DEF Hosted!Builds
  <2>2. Hosted!Sound' /\ \A f : Hosted!Exports(f)' = Hosted!Exports(f)
    BY <1>1, <2>1 DEF Hosted!Sound, Hosted!Exports
  <2>3. ticking' => guest'.asks /\ Hosted!Exports("tocat_on_tick")'
    BY <1>1, <2>1, <2>2 DEF Hosted!Ticks
  <2>4. IF Hosted!Exports("tocat_boundaries")
        THEN guest.word = claims'.needs * 4 + claims'.boundaries /\ claims'.needs < 4
        ELSE claims' = Hosted!unpack_boundaries(0)
    <3>1. CASE Hosted!Exports("tocat_boundaries")
      <4> DEFINE w == guest.word
      <4>1. w \in {0, 6, 16}
        BY <1>1 DEF Hosted!Modules
      <4>2. w < 16
        BY <2>1, <3>1 DEF Hosted!Declares, Hosted!Understood
      <4>3. claims' = [boundaries |-> w % 4, needs |-> w \div 4]
        BY <2>1, <3>1 DEF Hosted!unpack_boundaries
      <4>4. claims'.boundaries = w % 4 /\ claims'.needs = w \div 4
        BY <4>3
      <4> HIDE DEF w
      <4>5. w = (w \div 4) * 4 + (w % 4) /\ (w \div 4) < 4
        BY <4>1, <4>2
      <4> QED
        BY <3>1, <4>4, <4>5 DEF w
    <3>2. CASE ~Hosted!Exports("tocat_boundaries")
      BY <2>1, <3>2
    <3> QED
      BY <3>1, <3>2
  <2>5. Hosted!LoadedAsBuilt'
    <3>1. Hosted!unpack_boundaries(0)' = Hosted!unpack_boundaries(0)
      BY DEF Hosted!unpack_boundaries
    <3> QED
      BY <1>1, <2>1, <2>2, <2>3, <2>4, <3>1 DEF Hosted!LoadedAsBuilt
  <2> QED
    BY <1>1, <2>1, <2>5 DEF GuestIInv
<1> QED
  BY <1>2, <1>3

(* Every step of the host and of the guest keeps it.                       *)
LEMMA GuestStep ==
  GuestIInv /\ [StagesNext]_<<part, vars, meterVars, channelVars, guestVars>> => GuestIInv'
<1> SUFFICES ASSUME GuestIInv, [StagesNext]_<<part, vars, meterVars, channelVars, guestVars>>
             PROVE  GuestIInv'
  OBVIOUS
<1>1. CASE UNCHANGED guestVars
  <2>1. UNCHANGED <<guest, phase, ticking, claims>>
    BY <1>1 DEF guestVars
  <2> QED
    BY <2>1 DEF GuestIInv, Hosted!LoadedAsBuilt, Hosted!Sound, Hosted!Exports,
                Hosted!unpack_boundaries
<1>2. CASE Hosted!Next
  <2>1. CASE Hosted!Builds
    BY <2>1, BuildsKeeps
  <2>2. ASSUME NEW chunk \in Hosted!Chunks, Hosted!Process(chunk) PROVE GuestIInv'
    BY <2>2, GuestStays DEF Hosted!Process, Hosted!run
  <2>3. CASE Hosted!Tick
    BY <2>3, GuestStays DEF Hosted!Tick, Hosted!run
  <2>4. CASE Hosted!Finish \/ Hosted!HandsLast
    BY <2>4, GuestStays DEF Hosted!Finish, Hosted!HandsLast, Hosted!run
  <2>5. CASE Hosted!on_bytes
    <3>1. phase \in {"bytes", "flush"} /\ UNCHANGED <<guest, ticking, claims>>
      BY <2>5 DEF Hosted!on_bytes
    <3>2. phase' \in {"failed", "ready", "eof"}
      BY <2>5, CallsAndGoesOn DEF Hosted!on_bytes, Hosted!Traps
    <3> QED
      BY <3>1, <3>2, GuestStays
  <2>6. CASE Hosted!on_tick
    <3>1. phase = "tick" /\ UNCHANGED <<guest, ticking, claims>>
      BY <2>6 DEF Hosted!on_tick
    <3>2. phase' \in {"failed", "ready"}
      BY <2>6, CallsAndGoesOn DEF Hosted!on_tick
    <3> QED
      BY <3>1, <3>2, GuestStays
  <2>7. CASE Hosted!on_eof
    <3>1. phase = "eof" /\ UNCHANGED <<guest, ticking, claims>>
      BY <2>7 DEF Hosted!on_eof
    <3>2. phase' \in {"failed", "ended"}
      BY <2>7, CallsAndGoesOn DEF Hosted!on_eof
    <3> QED
      BY <3>1, <3>2, GuestStays
  <2> QED
    BY <1>2, <2>1, <2>2, <2>3, <2>4, <2>5, <2>6, <2>7 DEF Hosted!Next
<1>3. Hosted!Next \/ UNCHANGED guestVars
  BY DEF StagesNext
<1> QED
  BY <1>1, <1>2, <1>3

-----------------------------------------------------------------------------
(* Sums, as the recursive function has them.                               *)

(* A set of numbers that has 0 and, with one, the next, has all of them.   *)
LEMMA Induct ==
  ASSUME NEW S, 0 \in S, \A n \in Nat : n \in S => n + 1 \in S
  PROVE  \A n \in Nat : n \in S
<1> DEFINE T == Nat \ S
<1>1. SUFFICES ASSUME T # {} PROVE FALSE
  OBVIOUS
<1>2. PICK x \in T : \A y \in T : x <= y
  BY <1>1, Smallest
<1>3. x \in Nat /\ x # 0 /\ x - 1 \in Nat /\ ~(x <= x - 1) /\ (x - 1) + 1 = x
  BY <1>2
<1>4. x - 1 \notin T
  BY <1>2, <1>3
<1> QED
  BY <1>2, <1>3, <1>4

(* f[n] is the sum of the first n members of s, up to the m-th.            *)
Adds(f, m, s) == f = [n \in 0..m |-> IF n = 0 THEN 0 ELSE f[n - 1] + s[n]]

(* There are such sums, of any length.                                     *)
LEMMA SumsExist ==
  ASSUME NEW s
  PROVE  \A m \in Nat : \E f : Adds(f, m, s)
<1> DEFINE S == {m \in Nat : \E f : Adds(f, m, s)}
<1>1. 0 \in S
  <2> DEFINE f == [i \in 0..0 |-> 0]
  <2>1. \A i \in 0..0 : i = 0
    OBVIOUS
  <2>2. Adds(f, 0, s)
    BY <2>1 DEF Adds
  <2> QED
    BY <2>2
<1>2. ASSUME NEW m \in Nat, m \in S PROVE m + 1 \in S
  <2>1. PICK f : Adds(f, m, s)
    BY <1>2
  <2> DEFINE g == [i \in 0..(m + 1) |-> IF i <= m THEN f[i] ELSE f[m] + s[m + 1]]
  <2>2. ASSUME NEW i \in 0..(m + 1)
        PROVE  g[i] = IF i = 0 THEN 0 ELSE g[i - 1] + s[i]
    <3>1. CASE i = 0
      <4>1. f[0] = 0
        BY <2>1 DEF Adds
      <4> QED
        BY <3>1, <4>1
    <3>2. CASE i \in 1..m
      <4>1. f[i] = f[i - 1] + s[i]
        BY <2>1, <3>2 DEF Adds
      <4>2. i - 1 \in 0..(m + 1) /\ i - 1 <= m
        BY <3>2
      <4> QED
        BY <3>2, <4>1, <4>2
    <3>3. CASE i = m + 1
      <4>1. i - 1 = m /\ m \in 0..(m + 1) /\ ~(i <= m) /\ i # 0
        BY <3>3
      <4> QED
        BY <3>3, <4>1
    <3>4. i = 0 \/ i \in 1..m \/ i = m + 1
      OBVIOUS
    <3> QED
      BY <3>1, <3>2, <3>3, <3>4
  <2>3. g = [i \in 0..(m + 1) |-> g[i]]
    OBVIOUS
  <2> HIDE DEF g
  <2>4. Adds(g, m + 1, s)
    BY <2>2, <2>3 DEF Adds
  <2> QED
    BY <2>4
<1> HIDE DEF S
<1>3. \A m \in Nat : m \in S
  BY <1>1, <1>2, Induct
<1> QED
  BY <1>3 DEF S

(* They depend on the members they add.                                    *)
LEMMA SumsAgree ==
  ASSUME NEW s, NEW t, NEW f, NEW g, NEW m \in Nat, NEW n \in Nat,
         Adds(f, m, s), Adds(g, n, t), m <= n, \A i \in 1..m : s[i] = t[i]
  PROVE  \A i \in 0..m : f[i] = g[i]
<1> DEFINE S == {i \in Nat : i <= m => f[i] = g[i]}
<1>1. 0 \in S
  BY DEF Adds
<1>2. ASSUME NEW i \in Nat, i \in S PROVE i + 1 \in S
  <2> SUFFICES ASSUME i + 1 <= m PROVE f[i + 1] = g[i + 1]
    OBVIOUS
  <2>1. f[i] = g[i]
    BY <1>2
  <2> DEFINE k == i + 1
  <2>2. k \in 0..m /\ k \in 0..n /\ k # 0 /\ k - 1 = i /\ s[k] = t[k]
    OBVIOUS
  <2> HIDE DEF k
  <2>3. f[k] = f[k - 1] + s[k]
    BY <2>2 DEF Adds
  <2>4. g[k] = g[k - 1] + t[k]
    BY <2>2 DEF Adds
  <2> QED
    BY <2>1, <2>2, <2>3, <2>4 DEF k
<1> HIDE DEF S
<1>3. \A i \in Nat : i \in S
  BY <1>1, <1>2, Induct
<1>4. TAKE i \in 0..m
<1>5. i \in Nat /\ i <= m
  OBVIOUS
<1> QED
  BY <1>3, <1>5 DEF S

(* Sum is what adds up.                                                    *)
LEMMA SumIs ==
  ASSUME NEW s, Len(s) \in Nat
  PROVE  \E f : Adds(f, Len(s), s) /\ Metered!Sum(s) = f[Len(s)]
<1> DEFINE m    == Len(s)
           P(f) == f = [n \in 0..m |-> IF n = 0 THEN 0 ELSE f[n - 1] + s[n]]
           C    == CHOOSE f : P(f)
<1>1. \A f : P(f) <=> Adds(f, m, s)
  BY DEF Adds
<1>2. \E f : P(f)
  BY <1>1, SumsExist
<1>3. P(C)
  <2> HIDE DEF P
  <2> QED
    BY <1>2
<1>4. Metered!Sum(s) = C[m]
  BY DEF Metered!Sum
<1> QED
  BY <1>1, <1>3, <1>4

(* Nothing adds up to nothing.                                             *)
LEMMA SumOfNone == Metered!Sum(<<>>) = 0
<1>1. PICK f : Adds(f, Len(<<>>), <<>>) /\ Metered!Sum(<<>>) = f[Len(<<>>)]
  BY SumIs
<1> QED
  BY <1>1 DEF Adds

(* A member more adds itself.                                              *)
LEMMA SumOneMore ==
  ASSUME NEW S, NEW s \in Seq(S), NEW x \in S
  PROVE  Metered!Sum(Append(s, x)) = Metered!Sum(s) + x
<1> DEFINE t == Append(s, x)
           m == Len(s)
<1>1. m \in Nat /\ Len(t) = m + 1 /\ t[m + 1] = x /\ \A i \in 1..m : s[i] = t[i]
  OBVIOUS
<1> HIDE DEF t
<1>2. PICK f : Adds(f, m, s) /\ Metered!Sum(s) = f[m]
  BY <1>1, SumIs
<1>3. PICK g : Adds(g, m + 1, t) /\ Metered!Sum(t) = g[m + 1]
  BY <1>1, SumIs
<1>4. m <= m + 1 /\ m \in 0..m /\ m + 1 \in Nat
  BY <1>1
<1>5. f[m] = g[m]
  BY <1>1, <1>2, <1>3, <1>4, SumsAgree
<1>6. g[m + 1] = g[m] + t[m + 1]
  <2> DEFINE k == m + 1
  <2>1. k \in 0..k /\ k # 0 /\ k - 1 = m
    BY <1>1
  <2>2. Adds(g, k, t)
    BY <1>3
  <2> HIDE DEF k
  <2>3. g[k] = g[k - 1] + t[k]
    BY <2>1, <2>2 DEF Adds
  <2> QED
    BY <2>1, <2>3 DEF k
<1> QED
  BY <1>1, <1>2, <1>3, <1>5, <1>6 DEF t

(* A sum of numbers is one.                                                *)
LEMMA SumIsNat ==
  ASSUME NEW s \in Seq(Nat)
  PROVE  Metered!Sum(s) \in Nat
<1> DEFINE m == Len(s)
<1>1. m \in Nat /\ \A i \in 1..m : s[i] \in Nat
  OBVIOUS
<1>2. PICK f : Adds(f, m, s) /\ Metered!Sum(s) = f[m]
  BY <1>1, SumIs
<1> DEFINE S == {i \in Nat : i <= m => f[i] \in Nat}
<1>3. 0 \in S
  BY <1>1, <1>2 DEF Adds
<1>4. ASSUME NEW i \in Nat, i \in S PROVE i + 1 \in S
  <2> SUFFICES ASSUME i + 1 <= m PROVE f[i + 1] \in Nat
    OBVIOUS
  <2>1. f[i] \in Nat
    BY <1>1, <1>4
  <2> DEFINE k == i + 1
  <2>2. k \in 0..m /\ k \in 1..m /\ k # 0 /\ k - 1 = i
    BY <1>1
  <2>3. s[k] \in Nat
    BY <1>1, <2>2
  <2> HIDE DEF k, m
  <2>4. f[k] = f[k - 1] + s[k]
    BY <1>2, <2>2 DEF Adds
  <2> QED
    BY <2>1, <2>2, <2>3, <2>4 DEF k
<1> HIDE DEF S
<1>5. \A i \in Nat : i \in S
  BY <1>3, <1>4, Induct
<1> QED
  BY <1>1, <1>2, <1>5 DEF S

(* Throttle::debt: by then what is owed is earned.                         *)
LEMMA DebtIsEarned ==
  ASSUME NEW x \in Nat, NEW v \in Nat \ {0}
  PROVE  /\ (x + v - 1) \div v \in Nat
         /\ ((x + v - 1) \div v) * v >= x
<1> DEFINE y == x + v - 1
           q == y \div v
<1>1. y \in Nat
  OBVIOUS
<1>2. y = v * q + (y % v) /\ y % v \in 0..(v - 1) /\ q \in Int
  BY <1>1
<1> QED
  BY <1>2

(* What of the chunks p goes through from the i-th to the j-th.            *)
Stretch(p, i, j) == Metered!Sum(Metered!Bytes(SubSeq(p, i, j)))

Passing == Nat \X (Nat \ {0})
Amount == Nat \ {0}

(* The bytes of chunks are those of each.                                  *)
LEMMA BytesAre ==
  ASSUME NEW p \in Seq(Passing)
  PROVE  /\ Metered!Bytes(p) \in Seq(Nat) /\ Metered!Bytes(p) \in Seq(Amount)
         /\ Len(Metered!Bytes(p)) = Len(p)
         /\ \A i \in 1..Len(p) : Metered!Bytes(p)[i] = p[i][2] /\ p[i][1] \in Nat /\ p[i][2] \in Amount
<1>1. Len(p) \in Nat /\ \A i \in 1..Len(p) : p[i] \in Passing
  OBVIOUS
<1>2. \A c \in Passing : c[1] \in Nat /\ c[2] \in Amount
  BY DEF Passing, Amount
<1>3. \A i \in 1..Len(p) : p[i][1] \in Nat /\ p[i][2] \in Amount
  BY <1>1, <1>2
<1> DEFINE b == [i \in 1..Len(p) |-> p[i][2]]
<1>4. b \in [1..Len(p) -> Amount]
  BY <1>3
<1>5. b \in Seq(Amount) /\ Len(b) = Len(p)
  BY <1>1, <1>4
<1>6. Amount \subseteq Nat
  BY DEF Amount
<1>7. b \in Seq(Nat)
  <2>1. b \in [1..Len(p) -> Nat]
    BY <1>4, <1>6
  <2> HIDE DEF b
  <2> QED
    BY <1>1, <2>1
<1> QED
  BY <1>3, <1>5, <1>7 DEF Metered!Bytes

(* A chunk more is its bytes more ...                                      *)
LEMMA BytesOneMore ==
  ASSUME NEW p \in Seq(Passing), NEW c \in Passing
  PROVE  Metered!Bytes(Append(p, c)) = Append(Metered!Bytes(p), c[2])
<1> DEFINE q == Append(p, c)
           l == Len(p)
           b == Metered!Bytes(p)
           d == Metered!Bytes(q)
           a == Append(b, c[2])
<1>1. l \in Nat /\ q \in Seq(Passing) /\ Len(q) = l + 1 /\ q[l + 1] = c /\ \A i \in 1..l : q[i] = p[i]
  OBVIOUS
<1>2. c[2] \in Amount
  BY DEF Passing, Amount
<1>3. b \in Seq(Amount) /\ Len(b) = l /\ \A i \in 1..l : b[i] = p[i][2]
  BY BytesAre
<1> HIDE DEF q
<1>4. d \in Seq(Amount) /\ Len(d) = l + 1 /\ \A i \in 1..(l + 1) : d[i] = q[i][2]
  BY <1>1, BytesAre
<1> HIDE DEF d, b, l
<1>5. a \in Seq(Amount) /\ Len(a) = l + 1 /\ a[l + 1] = c[2] /\ \A i \in 1..l : a[i] = b[i]
  BY <1>2, <1>3
<1>6. \A i \in 1..(l + 1) : i \in 1..l \/ i = l + 1
  BY <1>1
<1> HIDE DEF a
<1>7. \A i \in 1..(l + 1) : d[i] = a[i]
  <2> TAKE i \in 1..(l + 1)
  <2>1. d[i] = q[i][2]
    BY <1>4
  <2>2. CASE i = l + 1
    BY <1>1, <1>5, <2>1, <2>2
  <2>3. CASE i \in 1..l
    <3>1. q[i] = p[i] /\ b[i] = p[i][2] /\ a[i] = b[i]
      BY <1>1, <1>3, <1>5, <2>3
    <3> QED
      BY <2>1, <3>1
  <2> QED
    BY <1>6, <2>2, <2>3
<1>8. d = a
  BY <1>4, <1>5, <1>7, SeqEqual
<1> QED
  BY <1>8 DEF d, b, a, q

(* ... in every stretch that ends with it, and in none that does not.      *)
LEMMA StretchOneMore ==
  ASSUME NEW p \in Seq(Passing), NEW c \in Passing
  PROVE  /\ \A i \in 1..Len(p), j \in 0..Len(p) : Stretch(Append(p, c), i, j) = Stretch(p, i, j)
         /\ \A i \in 1..Len(p) :
              Stretch(Append(p, c), i, Len(p) + 1) = Stretch(p, i, Len(p)) + c[2]
         /\ Stretch(Append(p, c), Len(p) + 1, Len(p) + 1) = c[2]
<1> DEFINE q == Append(p, c)
           l == Len(p)
<1>1. l \in Nat /\ q \in Seq(Passing) /\ Len(q) = l + 1 /\ q[l + 1] = c /\ \A i \in 1..l : q[i] = p[i]
  OBVIOUS
<1>2. \A i \in 1..l, j \in 0..l : SubSeq(q, i, j) = SubSeq(p, i, j)
  BY <1>1
<1>3. \A i \in 1..(l + 1) : SubSeq(q, i, l + 1) = Append(SubSeq(p, i, l), c)
  BY <1>1
<1>4. \A i \in 1..(l + 1) : SubSeq(p, i, l) \in Seq(Passing)
  BY <1>1
<1>5. SubSeq(p, l + 1, l) = <<>>
  BY <1>1
<1>6. c[2] \in Nat
  BY DEF Passing
<1>7. \A i \in 1..(l + 1) :
        Metered!Sum(Metered!Bytes(Append(SubSeq(p, i, l), c)))
          = Metered!Sum(Metered!Bytes(SubSeq(p, i, l))) + c[2]
  <2> TAKE i \in 1..(l + 1)
  <2> DEFINE s == SubSeq(p, i, l)
  <2>1. s \in Seq(Passing)
    BY <1>4
  <2> HIDE DEF s
  <2>2. Metered!Bytes(Append(s, c)) = Append(Metered!Bytes(s), c[2]) /\ Metered!Bytes(s) \in Seq(Nat)
    BY <2>1, BytesOneMore, BytesAre
  <2>3. Metered!Sum(Append(Metered!Bytes(s), c[2])) = Metered!Sum(Metered!Bytes(s)) + c[2]
    BY <1>6, <2>2, SumOneMore
  <2> QED
    BY <2>2, <2>3 DEF s
<1>8. Metered!Sum(Metered!Bytes(<<>>)) = 0
  <2>1. Metered!Bytes(<<>>) = <<>>
    <3>1. <<>> \in Seq(Passing) /\ Len(<<>>) = 0
      OBVIOUS
    <3>2. Metered!Bytes(<<>>) \in Seq(Nat) /\ Len(Metered!Bytes(<<>>)) = 0
      BY <3>1, BytesAre
    <3> QED
      BY <3>2, EmptySeq
  <2> QED
    BY <2>1, SumOfNone
<1> HIDE DEF q, l
<1>9. \A i \in 1..l, j \in 0..l : Stretch(q, i, j) = Stretch(p, i, j)
  BY <1>2 DEF Stretch
<1>10. \A i \in 1..l : Stretch(q, i, l + 1) = Stretch(p, i, l) + c[2]
  <2>1. \A i \in 1..l : i \in 1..(l + 1)
    BY <1>1
  <2> QED
    BY <1>3, <1>7, <2>1 DEF Stretch
<1>11. Stretch(q, l + 1, l + 1) = c[2]
  <2>1. l + 1 \in 1..(l + 1)
    BY <1>1
  <2>2. Stretch(q, l + 1, l + 1) = 0 + c[2]
    BY <1>3, <1>5, <1>7, <1>8, <2>1 DEF Stretch
  <2> QED
    BY <1>6, <2>2
<1> QED
  BY <1>9, <1>10, <1>11 DEF q, l

-----------------------------------------------------------------------------
(* limit, throttle, rate, tee and hash of one path.                        *)

MeterTyped ==
  /\ conf \in Metered!Accepted
  /\ now \in Nat /\ spent \in Nat /\ spent <= now /\ pause \in Int /\ tokens \in Int
  /\ stopped \in BOOLEAN /\ seen \in Int
  /\ offered \in Seq(Amount) /\ passed \in Seq(Passing)
  /\ window \in Nat /\ hashed \in Nat /\ samples \in Seq(Nat) /\ digests \in Seq(Nat)

(* What passed from any chunk on, with what is left in the bucket, is paid *)
(* for; what is owed is earned by the time the pause is over.              *)
Within(p, left, at) ==
  \A i \in 1..Len(p) :
    Stretch(p, i, Len(p)) + left <= conf.throttle.burst + conf.throttle.speed * (at - p[i][1])
Steady(p) ==
  \A i, j \in 1..Len(p) : i < j =>
    Stretch(p, i, j - 1) <= conf.throttle.burst + conf.throttle.speed * (p[j][1] - p[i][1])
Paced ==
  /\ Within(passed, tokens, spent) /\ Steady(passed)
  /\ ~stopped => tokens + conf.throttle.speed * (pause - spent) >= 0

(* Short of its limit a path has passed on what it was offered, and counted*)
(* it.                                                                     *)
Short == ~stopped =>
  /\ Metered!Bytes(passed) = offered
  /\ seen = IF conf.limit.packets THEN Len(offered) ELSE Metered!Sum(offered)
  /\ offered = <<>> \/ seen < conf.limit.cap

(* A file has a sample of all that passed, or has it to come; the log of no*)
(* more than one stall in a row.                                           *)
Sampled ==
  /\ conf.file => Metered!Sum(samples) + window = Metered!Through /\ (outcome # "no" => window = 0)
  /\ ~conf.file =>
       /\ \A i \in 2..Len(samples) : samples[i] > 0 \/ samples[i - 1] > 0
       /\ samples # <<>> /\ samples[Len(samples)] = 0 => stalled

(* A digest of each chunk, or of them all.                                 *)
Digested ==
  /\ hashed = Metered!Through
  /\ conf.hash.chunks =>
       /\ Len(passed) <= Len(digests) /\ (outcome = "no" => Len(digests) = Len(passed))
       /\ \A i \in 1..Len(passed) : digests[i] = passed[i][2]
  /\ outcome # "no" /\ conf.hash.summary =>
       digests # <<>> /\ digests[Len(digests)] = Metered!Through

MeterIInv == MeterTyped /\ Paced /\ Short /\ Metered!LimitIsExact /\ Sampled /\ Digested

(* What the factories accept.                                              *)
LEMMA Accepts ==
  ASSUME conf \in Metered!Accepted
  PROVE  /\ conf.throttle.speed \in Nat \ {0} /\ conf.throttle.burst \in Nat \ {0}
         /\ conf.limit.cap \in Nat
         /\ conf.limit.packets \in BOOLEAN /\ conf.limit.bytes \in BOOLEAN
         /\ (conf.limit.bytes <=> ~conf.limit.packets)
         /\ Metered!at_limit \in {"drop", "exact", "overshoot"}
         /\ conf.file \in BOOLEAN /\ conf.hash.chunks \in BOOLEAN /\ conf.hash.summary \in BOOLEAN
<1>1. Caps \subseteq Nat /\ Speeds \subseteq Nat /\ Bursts \subseteq Nat
  BY StagesAssumption
<1>2. /\ conf.limit \in Metered!Limits /\ ~Metered!limit_refused(conf.limit)
      /\ conf.throttle \in Metered!Throttles /\ conf.hash \in Metered!Hashes
      /\ conf.file \in BOOLEAN
  BY DEF Metered!Accepted
<1>3. conf.throttle.speed \in Nat \ {0}
  BY <1>1, <1>2 DEF Metered!Throttles
<1>4. conf.throttle.burst \in Nat \ {0}
  <2>1. PICK b \in Bursts : conf.throttle.burst = Metered!Most(b, 1)
    BY <1>2 DEF Metered!Throttles
  <2> QED
    BY <1>1, <2>1 DEF Metered!Most
<1>5. /\ conf.limit.cap \in Nat
      /\ conf.limit.packets \in BOOLEAN /\ conf.limit.bytes \in BOOLEAN
      /\ conf.limit.at \in {"unset", "drop", "exact", "overshoot"}
  BY <1>1, <1>2 DEF Metered!Limits
<1>6. conf.limit.bytes # conf.limit.packets
  BY <1>2 DEF Metered!limit_refused
<1>7. Metered!at_limit \in {"drop", "exact", "overshoot"}
  BY <1>5, Zenon DEF Metered!at_limit
<1>8. conf.hash.chunks \in BOOLEAN /\ conf.hash.summary \in BOOLEAN
  BY <1>2 DEF Metered!Hashes
<1>9. conf.limit.bytes <=> ~conf.limit.packets
  <2>1. \A b, p \in BOOLEAN : b # p => (b <=> ~p)
    OBVIOUS
  <2> QED
    BY <1>5, <1>6, <2>1, Zenon
<1> QED
  BY <1>2, <1>3, <1>4, <1>5, <1>7, <1>8, <1>9

(* Throttle::on_bytes: a chunk of m bytes after time has gone by is paid   *)
(* for by what was earned in it, up to the bucket.                         *)
LEMMA EarnedPays ==
  ASSUME NEW sum \in Int, NEW left \in Int, NEW earned \in Int, NEW burst \in Nat, NEW speed \in Nat,
         NEW at \in Nat, NEW from \in Nat, NEW then \in Nat, NEW m \in Nat,
         sum + left <= burst + speed * (at - from),
         earned <= left + (then - at) * speed
  PROVE  (sum + m) + (earned - m) <= burst + speed * (then - from)
<1>1. speed * (at - from) + (then - at) * speed = speed * (then - from)
  OBVIOUS
<1> DEFINE x == speed * (at - from)
           y == (then - at) * speed
           z == speed * (then - from)
<1>2. x \in Int /\ y \in Int /\ z \in Int /\ x + y = z /\ sum + left <= burst + x /\ earned <= left + y
  BY <1>1
<1> HIDE DEF x, y, z
<1>3. (sum + m) + (earned - m) <= burst + z
  BY <1>2
<1> QED
  BY <1>3 DEF z

(* And before it nothing was owed any more.                                *)
LEMMA PauseEarns ==
  ASSUME NEW sum \in Int, NEW left \in Int, NEW burst \in Nat, NEW speed \in Nat,
         NEW at \in Nat, NEW from \in Nat, NEW then \in Nat, NEW until \in Int,
         sum + left <= burst + speed * (at - from),
         left + speed * (until - at) >= 0, then >= until
  PROVE  sum <= burst + speed * (then - from)
<1> DEFINE x == speed * (at - from)
           y == speed * (until - at)
           w == speed * (then - until)
           z == speed * (then - from)
<1>1. x + y + w = z
  OBVIOUS
<1>2. w >= 0
  <2> DEFINE d == then - until
  <2>1. d \in Nat
    OBVIOUS
  <2> HIDE DEF d
  <2>2. speed * d >= 0
    BY <2>1
  <2> QED
    BY <2>2 DEF d
<1>3. x \in Int /\ y \in Int /\ w \in Int /\ z \in Int /\ sum + left <= burst + x /\ left + y >= 0
  OBVIOUS
<1> HIDE DEF x, y, w, z
<1>4. sum <= burst + z
  BY <1>1, <1>2, <1>3
<1> QED
  BY <1>4 DEF z

(* What limit hands on of a chunk, while it is short of its cap: of a count*)
(* of packets ...                                                          *)
LEMMA PacketsForwarded ==
  ASSUME conf \in Metered!Accepted, conf.limit.packets,
         NEW n \in Amount, seen \in Nat, seen = 0 \/ seen < conf.limit.cap
  PROVE  /\ Metered!Forwarded(n) \in {0, n}
         /\ ~Metered!Reaches(n) => Metered!Forwarded(n) = n /\ seen + 1 < conf.limit.cap
         /\ Metered!Forwarded(n) = 0 => Metered!Reaches(n) /\ conf.limit.cap = 0
         /\ Metered!Reaches(n) /\ Metered!Forwarded(n) # 0 => conf.limit.cap = seen + 1
<1> DEFINE c == conf.limit.cap
           k == seen
<1>1. c \in Nat /\ ~conf.limit.bytes /\ n \in Nat /\ n # 0
  BY Accepts, Zenon DEF Amount
<1>2. Metered!Reaches(n) <=> c = 0 \/ k + 1 >= c
  BY <1>1 DEF Metered!Reaches, Metered!cap
<1>3. Metered!Forwarded(n) = IF c = 0 THEN 0 ELSE n
  BY <1>1 DEF Metered!Forwarded, Metered!cap
<1> HIDE DEF c, k
<1>4. CASE c = 0
  BY <1>1, <1>2, <1>3, <1>4 DEF c
<1>5. CASE c # 0
  <2>1. k \in Nat /\ (k = 0 \/ k < c)
    BY DEF c, k
  <2>2. c = k + 1 \/ k + 1 < c
    BY <1>1, <1>5, <2>1
  <2>3. k + 1 >= c => c = k + 1
    BY <1>1, <2>1, <2>2
  <2>4. ~(k + 1 >= c) => k + 1 < c
    BY <1>1, <2>1
  <2> QED
    BY <1>1, <1>2, <1>3, <1>5, <2>3, <2>4 DEF c, k
<1> QED
  BY <1>4, <1>5

(* ... and of one of bytes.                                                *)
LEMMA BytesForwarded ==
  ASSUME conf \in Metered!Accepted, ~conf.limit.packets,
         NEW n \in Amount, seen \in Nat, seen = 0 \/ seen < conf.limit.cap
  PROVE  /\ Metered!Forwarded(n) \in 0..n
         /\ ~Metered!Reaches(n) => Metered!Forwarded(n) = n /\ seen + n < conf.limit.cap
         /\ Metered!Forwarded(n) = 0 => Metered!Reaches(n)
         /\ Metered!Reaches(n) /\ Metered!at_limit = "drop" =>
              seen + Metered!Forwarded(n) <= conf.limit.cap /\ seen + n >= conf.limit.cap
         /\ Metered!Reaches(n) /\ Metered!at_limit = "exact" =>
              seen + Metered!Forwarded(n) = conf.limit.cap
         /\ Metered!Reaches(n) /\ Metered!at_limit = "overshoot" =>
              /\ Metered!Forwarded(n) = n /\ seen + n >= conf.limit.cap
              /\ seen < Metered!Most(conf.limit.cap, 1)
<1> DEFINE c == conf.limit.cap
           k == seen
           w == Metered!Most(c, 1)
           m == Metered!Forwarded(n)
<1>1. c \in Nat /\ conf.limit.bytes /\ n \in Nat /\ n # 0
      /\ Metered!at_limit \in {"drop", "exact", "overshoot"}
  BY Accepts, Zenon DEF Amount
<1>2. Metered!Reaches(n) <=> n >= c - k
  BY <1>1 DEF Metered!Reaches, Metered!cap
<1>3. /\ n <= c - k => m = n
      /\ ~(n <= c - k) /\ Metered!at_limit = "drop" => m = 0
      /\ ~(n <= c - k) /\ Metered!at_limit = "exact" => m = c - k
      /\ ~(n <= c - k) /\ Metered!at_limit = "overshoot" => m = n
  BY <1>1 DEF Metered!Forwarded, Metered!cap
<1>4. k \in Nat /\ k <= c /\ k < w
  <2>1. w = IF c > 1 THEN c ELSE 1
    BY DEF Metered!Most
  <2> QED
    BY <1>1, <2>1
<1> HIDE DEF c, k, w, m
<1>5. CASE n < c - k
  <2>1. m = n /\ ~(n >= c - k) /\ k + n < c /\ n \in 0..n
    BY <1>1, <1>3, <1>4, <1>5
  <2> QED
    BY <1>1, <1>2, <2>1 DEF c, k, m
<1>6. CASE n = c - k
  <2>1. m = n /\ n >= c - k /\ k + n = c /\ k + n >= c /\ k + n <= c /\ n \in 0..n
    BY <1>1, <1>3, <1>4, <1>6
  <2> QED
    BY <1>1, <1>2, <1>4, <2>1 DEF c, k, m, w
<1>7. CASE n > c - k
  <2>1. ~(n <= c - k) /\ n >= c - k /\ k + n >= c /\ k + 0 <= c /\ k + (c - k) = c
        /\ n \in 0..n /\ 0 \in 0..n /\ c - k \in 0..n
    BY <1>1, <1>4, <1>7
  <2>2. CASE Metered!at_limit = "drop"
    <3>1. m = 0
      BY <1>3, <2>1, <2>2
    <3> QED
      BY <1>2, <2>1, <2>2, <3>1 DEF c, k, m
  <2>3. CASE Metered!at_limit = "exact"
    <3>1. m = c - k
      BY <1>3, <2>1, <2>3
    <3> QED
      BY <1>2, <2>1, <2>3, <3>1 DEF c, k, m
  <2>4. CASE Metered!at_limit = "overshoot"
    <3>1. m = n
      BY <1>3, <2>1, <2>4
    <3> QED
      BY <1>1, <1>2, <1>4, <2>1, <2>4, <3>1 DEF c, k, m, w
  <2> QED
    BY <1>1, <2>2, <2>3, <2>4
<1> QED
  BY <1>1, <1>4, <1>5, <1>6, <1>7

(* What the state's types say of sums.                                     *)
LEMMA SumsAre ==
  ASSUME MeterTyped
  PROVE  /\ Len(offered) \in Nat /\ Len(passed) \in Nat
         /\ Metered!Sum(offered) \in Nat /\ Metered!Through \in Nat /\ Metered!Sum(samples) \in Nat
         /\ \A i \in 1..Len(passed) :
              passed[i][1] \in Nat /\ passed[i][2] \in Amount /\ Metered!Bytes(passed)[i] = passed[i][2]
         /\ \A i \in 1..Len(passed), j \in 0..Len(passed) : Stretch(passed, i, j) \in Nat
<1>1. offered \in Seq(Nat)
  <2>1. Amount \subseteq Nat
    BY DEF Amount
  <2> QED
    BY <2>1, SeqMonotonic DEF MeterTyped
<1>2. passed \in Seq(Passing) /\ Metered!Bytes(passed) \in Seq(Nat)
  BY BytesAre DEF MeterTyped
<1>3. \A i \in 1..Len(passed), j \in 0..Len(passed) : Stretch(passed, i, j) \in Nat
  <2> TAKE i \in 1..Len(passed), j \in 0..Len(passed)
  <2> DEFINE s == SubSeq(passed, i, j)
  <2>1. s \in Seq(Passing)
    BY <1>2
  <2> HIDE DEF s
  <2>2. Metered!Bytes(s) \in Seq(Nat)
    BY <2>1, BytesAre
  <2> QED
    BY <2>2, SumIsNat DEF Stretch, s
<1>4. Metered!Sum(samples) \in Nat
  BY SumIsNat DEF MeterTyped
<1>5. Metered!Sum(offered) \in Nat /\ Metered!Through \in Nat
  BY <1>1, <1>2, SumIsNat DEF Metered!Through
<1>6. \A i \in 1..Len(passed) :
        passed[i][1] \in Nat /\ passed[i][2] \in Amount /\ Metered!Bytes(passed)[i] = passed[i][2]
  BY <1>2, BytesAre
<1> QED
  BY <1>1, <1>2, <1>3, <1>4, <1>5, <1>6

(* A path is short of its cap before it is at it.                          *)
LEMMA SeenIs ==
  ASSUME MeterTyped, Short, ~stopped
  PROVE  /\ seen \in Nat /\ (seen = 0 \/ seen < conf.limit.cap)
         /\ Metered!Bytes(passed) = offered /\ Len(passed) = Len(offered)
         /\ Metered!Through = Metered!Sum(offered)
         /\ conf.limit.packets => seen = Len(offered)
         /\ ~conf.limit.packets => seen = Metered!Sum(offered)
<1>1. /\ Metered!Bytes(passed) = offered
      /\ seen = IF conf.limit.packets THEN Len(offered) ELSE Metered!Sum(offered)
      /\ offered = <<>> \/ seen < conf.limit.cap
  BY DEF Short
<1>2. Len(offered) \in Nat /\ Metered!Sum(offered) \in Nat
  BY SumsAre
<1>3. offered = <<>> => seen = 0
  BY <1>1, SumOfNone
<1>4. Len(passed) = Len(offered)
  BY <1>1, BytesAre DEF MeterTyped
<1> QED
  BY <1>1, <1>2, <1>3, <1>4 DEF Metered!Through

(* The types hold as a path is built.                                      *)
LEMMA MeterInit == Metered!Init => MeterIInv
<1> SUFFICES ASSUME Metered!Init PROVE MeterIInv
  OBVIOUS
<1>1. /\ conf \in Metered!Accepted /\ now = 0 /\ seen = 0 /\ stopped = FALSE
      /\ tokens = conf.throttle.burst /\ spent = 0 /\ window = 0 /\ samples = <<>>
      /\ hashed = 0 /\ digests = <<>> /\ offered = <<>> /\ passed = <<>> /\ pause = 0 /\ outcome = "no"
  BY DEF Metered!Init
<1>2. conf.throttle.burst \in Nat /\ conf.throttle.speed \in Nat /\ 0 - 0 = 0
      /\ conf.throttle.speed * 0 = 0
  BY <1>1, Accepts
<1>3. MeterTyped
  <2>1. stopped \in BOOLEAN
    BY <1>1
  <2>2. samples \in Seq(Nat) /\ digests \in Seq(Nat)
    BY <1>1
  <2>3. offered \in Seq(Amount) /\ passed \in Seq(Passing)
    BY <1>1
  <2>4. now \in Nat /\ spent \in Nat /\ spent <= now /\ pause \in Int /\ tokens \in Int /\ seen \in Int
        /\ window \in Nat /\ hashed \in Nat
    BY <1>1, <1>2
  <2> QED
    BY <1>1, <2>1, <2>2, <2>3, <2>4 DEF MeterTyped
<1>4. Metered!Bytes(<<>>) = <<>>
  <2>1. <<>> \in Seq(Passing) /\ Len(<<>>) = 0
    OBVIOUS
  <2>2. Metered!Bytes(<<>>) \in Seq(Nat) /\ Len(Metered!Bytes(<<>>)) = 0
    BY <2>1, BytesAre
  <2> QED
    BY <2>2, EmptySeq
<1>5. Metered!Through = 0
  BY <1>1, <1>4, SumOfNone DEF Metered!Through
<1>6. Paced
  BY <1>1, <1>2 DEF Paced, Within, Steady
<1>7. Short
  BY <1>1, <1>4, SumOfNone DEF Short
<1>8. Metered!LimitIsExact
  BY <1>1, <1>4 DEF Metered!LimitIsExact
<1>9. Sampled
  BY <1>1, <1>5, SumOfNone DEF Sampled
<1>10. Digested
  BY <1>1, <1>5 DEF Digested
<1> QED
  BY <1>3, <1>6, <1>7, <1>8, <1>9, <1>10 DEF MeterIInv

(* What a chunk of n bytes does, m of them being handed on.                *)
Heard(n, m) ==
  /\ outcome = "no" /\ ~stopped /\ now >= pause
  /\ n \in Amount /\ m \in 0..n
  /\ (stopped' <=> Metered!Reaches(n)) /\ stopped' \in BOOLEAN
  /\ offered' = Append(offered, n)
  /\ conf' = conf /\ now' = now /\ outcome' = outcome /\ samples' = samples /\ stalled' = stalled
  /\ seen' \in Int
  /\ ~stopped' => m = n /\ seen' = seen + (IF conf.limit.packets THEN 1 ELSE n)
  /\ m = 0 => /\ stopped' /\ pause' = now
              /\ UNCHANGED <<passed, tokens, spent, window, hashed, digests>>
  /\ m # 0 =>
       /\ passed' = Append(passed, <<now, m>>) /\ <<now, m>> \in Passing /\ m \in Amount
       /\ tokens' = Metered!Earned - m /\ spent' = now
       /\ pause' = IF tokens' < 0 /\ ~stopped' THEN now + Metered!debt(tokens') ELSE now
       /\ window' = window + m /\ hashed' = hashed + m
       /\ digests' = IF conf.hash.chunks THEN Append(digests, m) ELSE digests

(* on_bytes does.                                                          *)
LEMMA Hears ==
  ASSUME MeterTyped, Short, NEW n \in 1..MaxChunk, Metered!on_bytes(n)
  PROVE  Heard(n, Metered!Forwarded(n))
<1> DEFINE m == Metered!Forwarded(n)
<1>1. n \in Amount
  BY DEF Amount
<1>2. outcome = "no" /\ ~stopped /\ now >= pause
  BY DEF Metered!on_bytes, Metered!Reading
<1>3. seen \in Nat /\ (seen = 0 \/ seen < conf.limit.cap) /\ conf \in Metered!Accepted
  BY <1>2, SeenIs DEF MeterTyped
<1>4. m \in 0..n /\ (m = 0 => Metered!Reaches(n))
  <2>1. n \in Nat
    BY <1>1 DEF Amount
  <2>2. CASE conf.limit.packets
    BY <1>1, <1>3, <2>1, <2>2, PacketsForwarded
  <2>3. CASE ~conf.limit.packets
    BY <1>1, <1>3, <2>3, BytesForwarded
  <2> QED
    BY <2>2, <2>3
<1>5. /\ offered' = Append(offered, n) /\ stopped' = Metered!Reaches(n)
      /\ seen' = IF conf.limit.packets THEN (IF Metered!cap = 0 THEN seen ELSE seen + 1)
                 ELSE seen + m
      /\ Metered!Below(m)
      /\ conf' = conf /\ now' = now /\ outcome' = outcome
  BY DEF Metered!on_bytes
<1>6. stopped' \in BOOLEAN /\ (stopped' <=> Metered!Reaches(n))
  <2>1. Metered!Reaches(n) \in BOOLEAN
    <3> DEFINE a == n >= Metered!cap - seen
               b == Metered!cap = 0 \/ seen + 1 >= Metered!cap
    <3>1. a \in BOOLEAN
      OBVIOUS
    <3>2. b \in BOOLEAN
      BY Zenon
    <3>3. Metered!Reaches(n) = IF conf.limit.bytes THEN a ELSE b
      BY DEF Metered!Reaches
    <3> HIDE DEF a, b
    <3> QED
      BY <3>1, <3>2, <3>3
  <2> QED
    BY <1>5, <2>1, Zenon
<1>66. ~stopped' => m = n /\ seen' = seen + (IF conf.limit.packets THEN 1 ELSE n)
  <2> SUFFICES ASSUME ~stopped' PROVE m = n /\ seen' = seen + (IF conf.limit.packets THEN 1 ELSE n)
    OBVIOUS
  <2>1. ~Metered!Reaches(n)
    BY <1>6
  <2>2. CASE conf.limit.packets
    <3>1. m = n /\ seen + 1 < conf.limit.cap
      BY <1>1, <1>3, <2>1, <2>2, PacketsForwarded
    <3>2. conf.limit.cap # 0
      BY <1>3, <3>1
    <3> QED
      BY <1>5, <2>2, <3>1, <3>2 DEF Metered!cap
  <2>3. CASE ~conf.limit.packets
    <3>1. m = n
      BY <1>1, <1>3, <2>1, <2>3, BytesForwarded
    <3> QED
      BY <1>5, <2>3, <3>1
  <2> QED
    BY <2>2, <2>3
<1> HIDE DEF m
<1>7. seen' \in Int
  BY <1>3, <1>4, <1>5
<1>8. CASE m = 0
  <2>1. UNCHANGED <<passed, tokens, spent, window, hashed, digests, samples, stalled>> /\ pause' = now
    BY <1>5, <1>8 DEF Metered!Below, Metered!throttle, Metered!rate, Metered!dump
  <2> QED
    BY <1>1, <1>2, <1>4, <1>5, <1>6, <1>66, <1>7, <1>8, <2>1 DEF Heard, m
<1>9. CASE m # 0
  <2>1. /\ passed' = Append(passed, <<now, m>>)
        /\ tokens' = Metered!Earned - m /\ spent' = now
        /\ pause' = IF tokens' < 0 /\ ~stopped' THEN now + Metered!debt(tokens') ELSE now
        /\ window' = window + m /\ hashed' = hashed + m
        /\ digests' = (IF conf.hash.chunks THEN Append(digests, m) ELSE digests)
        /\ samples' = samples /\ stalled' = stalled
    BY <1>5, <1>9 DEF Metered!Below, Metered!ThrottleHears, Metered!RateHears, Metered!TeeHears,
      Metered!HashHears
  <2>2. m \in Amount /\ <<now, m>> \in Passing
    BY <1>1, <1>4, <1>9 DEF Amount, Passing, MeterTyped
  <2> QED
    BY <1>1, <1>2, <1>4, <1>5, <1>6, <1>66, <1>7, <1>9, <2>1, <2>2 DEF Heard, m
<1> QED
  BY <1>8, <1>9 DEF m

(* What passed is more by what was handed on.                              *)
LEMMA HeardMore ==
  ASSUME MeterTyped, NEW n, NEW m, Heard(n, m)
  PROVE  /\ passed' \in Seq(Passing) /\ offered' \in Seq(Amount)
         /\ Metered!Through' = Metered!Through + m
         /\ Metered!Sum(offered') = Metered!Sum(offered) + n
         /\ Len(offered') = Len(offered) + 1 /\ offered'[Len(offered')] = n
         /\ Len(passed') = Len(passed) + (IF m = 0 THEN 0 ELSE 1)
         /\ m # 0 => Metered!Bytes(passed') = Append(Metered!Bytes(passed), m)
<1>1. /\ n \in Amount /\ m \in 0..n /\ offered' = Append(offered, n)
      /\ m = 0 => passed' = passed
      /\ m # 0 => passed' = Append(passed, <<now, m>>) /\ <<now, m>> \in Passing /\ <<now, m>>[2] = m
  BY DEF Heard
<1>2. passed \in Seq(Passing) /\ offered \in Seq(Amount)
  BY DEF MeterTyped
<1>3. Metered!Bytes(passed) \in Seq(Nat)
  BY <1>2, BytesAre
<1>4. m \in Nat /\ Metered!Through \in Nat /\ Len(passed) \in Nat
  BY <1>1, SumsAre DEF Amount
<1>5. Metered!Sum(offered') = Metered!Sum(offered) + n
  BY <1>1, <1>2, SumOneMore
<1>6. offered' \in Seq(Amount) /\ Len(offered') = Len(offered) + 1 /\ offered'[Len(offered')] = n
  BY <1>1, <1>2, AppendProperties
<1>7. CASE m = 0
  <2>1. passed' = passed
    BY <1>1, <1>7
  <2>2. Metered!Through' = Metered!Through
    BY <2>1 DEF Metered!Through
  <2> QED
    BY <1>2, <1>4, <1>5, <1>6, <1>7, <2>1, <2>2
<1>8. CASE m # 0
  <2> DEFINE c == <<now, m>>
  <2>1. passed' = Append(passed, c) /\ c \in Passing /\ c[2] = m
    BY <1>1, <1>8
  <2> HIDE DEF c
  <2>2. Metered!Bytes(passed') = Append(Metered!Bytes(passed), m)
    BY <1>2, <2>1, BytesOneMore
  <2>3. Metered!Through' = Metered!Through + m
    BY <1>3, <1>4, <2>2, SumOneMore DEF Metered!Through
  <2>4. passed' \in Seq(Passing) /\ Len(passed') = Len(passed) + 1
    BY <1>2, <2>1, AppendProperties
  <2> QED
    BY <1>5, <1>6, <1>8, <2>2, <2>3, <2>4
<1> QED
  BY <1>7, <1>8

(* A chunk is within the limit, or the path stops on it as `at` has it.    *)
LEMMA HeardInLimit ==
  ASSUME MeterTyped, Short, NEW n, Heard(n, Metered!Forwarded(n))
  PROVE  Short' /\ Metered!LimitIsExact'
<1> DEFINE m == Metered!Forwarded(n)
           r == Metered!Reaches(n)
           c == conf.limit.cap
           a == Metered!at_limit
           w == Metered!Most(c, 1)
<1>1. ~stopped /\ conf \in Metered!Accepted
  BY DEF Heard, MeterTyped
<1>2. conf' = conf /\ (stopped' <=> r) /\ stopped' \in BOOLEAN
  BY DEF Heard
<1>3. n \in Amount /\ m \in 0..n /\ offered' = Append(offered, n)
  BY DEF Heard
<1>4. ~stopped' => m = n /\ seen' = seen + (IF conf.limit.packets THEN 1 ELSE n)
  BY DEF Heard
<1>5. seen \in Nat /\ (seen = 0 \/ seen < conf.limit.cap)
  BY <1>1, SeenIs, Zenon
<1>6. /\ Metered!Bytes(passed) = offered /\ Len(passed) = Len(offered)
      /\ Metered!Through = Metered!Sum(offered)
      /\ conf.limit.packets => seen = Len(offered)
      /\ ~conf.limit.packets => seen = Metered!Sum(offered)
  BY <1>1, SeenIs, Zenon
<1>7. /\ Metered!Through' = Metered!Through + m
      /\ Metered!Sum(offered') = Metered!Sum(offered) + n
      /\ Len(offered') = Len(offered) + 1 /\ offered'[Len(offered')] = n
      /\ Len(passed') = Len(passed) + (IF m = 0 THEN 0 ELSE 1)
      /\ m # 0 => Metered!Bytes(passed') = Append(Metered!Bytes(passed), m)
  BY HeardMore
<1>8. c \in Nat /\ a \in {"drop", "exact", "overshoot"}
  BY <1>1, Accepts, Zenon
<1>9. n \in Nat /\ n # 0 /\ m \in Nat
  BY <1>3 DEF Amount
<1>10. a' = a /\ c' = c /\ Metered!cap' = c /\ (conf.limit.packets)' = conf.limit.packets
  BY <1>2 DEF Metered!at_limit, Metered!cap
<1>11. CASE stopped' /\ conf.limit.packets
  <2>1. m \in {0, n} /\ (m = 0 => c = 0) /\ (r /\ m # 0 => c = seen + 1)
    BY <1>1, <1>3, <1>5, <1>11, PacketsForwarded, Zenon
  <2>2. seen = Len(passed) /\ (m # 0 => c = seen + 1)
    BY <1>2, <1>6, <1>11, <2>1, Zenon
  <2> HIDE DEF c, m
  <2>3. Len(passed') = c
    <3>1. CASE m = 0
      BY <1>5, <1>7, <2>1, <2>2, <3>1 DEF c
    <3>2. CASE m # 0
      BY <1>7, <2>2, <3>2
    <3> QED
      BY <3>1, <3>2
  <2>4. Metered!LimitIsExact'
    BY <1>10, <1>11, <2>3, Zenon DEF Metered!LimitIsExact
  <2>5. Short'
    BY <1>11, Zenon DEF Short
  <2> QED
    BY <2>4, <2>5
<1>12. CASE stopped' /\ ~conf.limit.packets
  <2> DEFINE t == Metered!Through'
             u == Metered!Sum(offered')
             k == seen
  <2>1. r
    BY <1>2, <1>12, Zenon
  <2>2. /\ a = "drop" => k + m <= c /\ k + n >= c
        /\ a = "exact" => k + m = c
        /\ a = "overshoot" => m = n /\ k + n >= c /\ k < w
    BY <1>1, <1>3, <1>5, <1>12, <2>1, BytesForwarded, Zenon
  <2>3. t = k + m /\ u = k + n /\ k \in Nat
    BY <1>5, <1>6, <1>7, <1>12
  <2>4. offered'[Len(offered')] = n
    BY <1>7
  <2>5. Short'
    BY <1>12, Zenon DEF Short
  <2> HIDE DEF c, m, a, w, t, u, k
  <2>6. (k + n) - n = k
    BY <1>9, <2>3
  <2>7. CASE a = "drop"
    <3>1. t <= c /\ u >= c
      BY <2>2, <2>3, <2>7
    <3>2. Metered!LimitIsExact'
      BY <1>10, <1>12, <2>7, <3>1 DEF Metered!LimitIsExact, a, t, u
    <3> QED
      BY <2>5, <3>2
  <2>8. CASE a = "exact"
    <3>1. t = c
      BY <2>2, <2>3, <2>8
    <3>2. Metered!LimitIsExact'
      BY <1>10, <1>12, <2>8, <3>1 DEF Metered!LimitIsExact, a, t, u
    <3> QED
      BY <2>5, <3>2
  <2>9. CASE a = "overshoot"
    <3>1. t = u /\ t >= c /\ t - n < w
      BY <2>2, <2>3, <2>6, <2>9
    <3>2. Metered!LimitIsExact'
      BY <1>10, <1>12, <2>4, <2>9, <3>1 DEF Metered!LimitIsExact, Metered!Last, a, t, u, w
    <3> QED
      BY <2>5, <3>2
  <2> QED
    BY <1>8, <2>7, <2>8, <2>9 DEF a
<1>13. CASE ~stopped'
  <2>1. m = n /\ seen' = seen + (IF conf.limit.packets THEN 1 ELSE n) /\ ~r
    BY <1>2, <1>4, <1>13
  <2>2. Metered!Bytes(passed') = offered'
    BY <1>3, <1>6, <1>7, <1>9, <2>1
  <2>3. Metered!Through' = Metered!Sum(offered')
    BY <1>6, <1>7, <2>1
  <2>4. CASE conf.limit.packets
    <3>1. seen + 1 < c
      BY <1>1, <1>3, <1>5, <2>1, <2>4, PacketsForwarded, Zenon
    <3>2. seen' = Len(offered') /\ seen' < c
      BY <1>6, <1>7, <2>1, <2>4, <3>1
    <3>3. Short'
      BY <1>10, <2>2, <2>4, <3>2 DEF Short
    <3>4. Metered!LimitIsExact'
      BY <1>10, <1>13, <2>2, <2>4, <3>2 DEF Metered!LimitIsExact
    <3> QED
      BY <3>3, <3>4
  <2>5. CASE ~conf.limit.packets
    <3>1. seen + n < c
      BY <1>1, <1>3, <1>5, <2>1, <2>5, BytesForwarded, Zenon
    <3>2. seen' = Metered!Sum(offered') /\ seen' < c
      BY <1>6, <1>7, <2>1, <2>5, <3>1
    <3>3. Short'
      BY <1>10, <2>2, <2>5, <3>2 DEF Short
    <3>4. Metered!LimitIsExact'
      BY <1>10, <1>13, <2>2, <2>3, <2>5, <3>2 DEF Metered!LimitIsExact
    <3> QED
      BY <3>3, <3>4
  <2> QED
    BY <2>4, <2>5
<1> QED
  BY <1>2, <1>11, <1>12, <1>13

(* A chunk leaves the path paced: it came after what was owed before it    *)
(* had been earned, and the pause lasts until what it owes is.             *)
LEMMA HeardPaced ==
  ASSUME MeterTyped, Paced, NEW n, NEW m, Heard(n, m)
  PROVE  Paced'
<1> DEFINE p == passed
           q == passed'
           l == Len(passed)
           v == conf.throttle.speed
           b == conf.throttle.burst
           E == Metered!Earned
<1>1. ~stopped /\ now >= pause /\ conf' = conf
  BY DEF Heard
<1>2. v \in Nat /\ v # 0 /\ b \in Nat
  <2>1. conf \in Metered!Accepted
    BY DEF MeterTyped
  <2> QED
    BY <2>1, Accepts
<1>3. Within(p, tokens, spent) /\ Steady(p) /\ tokens + v * (pause - spent) >= 0
  BY <1>1 DEF Paced
<1>4. now \in Nat /\ spent \in Nat /\ pause \in Int /\ tokens \in Int
  BY DEF MeterTyped
<1>5. CASE m = 0
  <2>1. stopped' /\ passed' = passed /\ tokens' = tokens /\ spent' = spent
    BY <1>5 DEF Heard
  <2>2. Within(passed, tokens, spent)' /\ Steady(passed)'
    BY <1>1, <1>3, <2>1 DEF Within, Steady
  <2> QED
    BY <2>1, <2>2 DEF Paced
<1>6. CASE m # 0
  <2>1. /\ q = Append(p, <<now, m>>) /\ <<now, m>> \in Passing /\ m \in Nat
        /\ tokens' = E - m /\ spent' = now
        /\ pause' = IF tokens' < 0 /\ ~stopped' THEN now + Metered!debt(tokens') ELSE now
    BY <1>6 DEF Heard, Amount
  <2>2. p \in Seq(Passing) /\ l \in Nat
    BY DEF MeterTyped
  <2>3. /\ \A i \in 1..l, j \in 0..l : Stretch(q, i, j) = Stretch(p, i, j)
        /\ \A i \in 1..l : Stretch(q, i, l + 1) = Stretch(p, i, l) + m
        /\ Stretch(q, l + 1, l + 1) = m
    <3> DEFINE c == <<now, m>>
    <3>1. c \in Passing /\ c[2] = m /\ q = Append(p, c)
      BY <2>1
    <3> HIDE DEF c
    <3> QED
      BY <2>2, <3>1, StretchOneMore
  <2>4. /\ Len(q) = l + 1 /\ q[l + 1][1] = now
        /\ \A i \in 1..l : q[i] = p[i] /\ p[i][1] \in Nat
    <3>1. Len(q) = l + 1 /\ q[l + 1] = <<now, m>> /\ \A i \in 1..l : q[i] = p[i]
      BY <2>1, <2>2, AppendProperties
    <3> QED
      BY <3>1, SumsAre
  <2>5. \A i \in 1..l, j \in 0..l : Stretch(p, i, j) \in Int
    BY SumsAre
  <2>6. E \in Int /\ E <= tokens + (now - spent) * v /\ E <= b
    <3> DEFINE x == tokens + (now - spent) * v
    <3>1. x \in Int
      BY <1>2, <1>4
    <3>2. E = IF x < b THEN x ELSE b
      BY DEF Metered!Earned, Metered!Least
    <3> HIDE DEF x, E
    <3>3. E \in Int /\ E <= x /\ E <= b
      BY <1>2, <3>1, <3>2
    <3> QED
      BY <3>3 DEF x
  <2> HIDE DEF q, l, v, b, E
  <2>7. Within(q, E - m, now)
    <3>1. ASSUME NEW i \in 1..l
          PROVE  (Stretch(p, i, l) + m) + (E - m) <= b + v * (now - p[i][1])
      <4>1. Stretch(p, i, l) + tokens <= b + v * (spent - p[i][1])
        BY <1>3 DEF Within, b, v, l
      <4>2. Stretch(p, i, l) \in Int /\ p[i][1] \in Nat
        BY <2>2, <2>4, <2>5
      <4> QED
        BY <1>2, <1>4, <2>1, <2>6, <4>1, <4>2, EarnedPays
    <3>2. m + (E - m) <= b + v * (now - now)
      <4>1. now - now = 0 /\ v * 0 = 0 /\ m + (E - m) = E
        BY <1>2, <1>4, <2>1, <2>6
      <4> QED
        BY <1>2, <2>6, <4>1
    <3> SUFFICES ASSUME NEW i \in 1..(l + 1)
                 PROVE  Stretch(q, i, l + 1) + (E - m) <= b + v * (now - q[i][1])
      BY <2>4 DEF Within, b, v
    <3>3. CASE i \in 1..l
      <4>1. q[i][1] = p[i][1] /\ Stretch(q, i, l + 1) = Stretch(p, i, l) + m
        BY <2>3, <2>4, <3>3
      <4> QED
        BY <3>1, <3>3, <4>1
    <3>4. CASE i = l + 1
      BY <2>3, <2>4, <3>2, <3>4
    <3> QED
      BY <2>2, <3>3, <3>4
  <2>8. Steady(q)
    <3>1. ASSUME NEW i \in 1..l PROVE Stretch(p, i, l) <= b + v * (now - p[i][1])
      <4>1. Stretch(p, i, l) + tokens <= b + v * (spent - p[i][1])
        BY <1>3 DEF Within, b, v, l
      <4>2. Stretch(p, i, l) \in Int /\ p[i][1] \in Nat
        BY <2>2, <2>4, <2>5
      <4> QED
        BY <1>1, <1>2, <1>3, <1>4, <4>1, <4>2, PauseEarns DEF v
    <3> SUFFICES ASSUME NEW i \in 1..(l + 1), NEW j \in 1..(l + 1), i < j
                 PROVE  Stretch(q, i, j - 1) <= b + v * (q[j][1] - q[i][1])
      BY <2>4 DEF Steady, b, v
    <3>2. i \in 1..l /\ j - 1 \in 0..l
      BY <2>2
    <3>3. Stretch(q, i, j - 1) = Stretch(p, i, j - 1) /\ q[i] = p[i]
      BY <2>3, <2>4, <3>2
    <3>4. CASE j \in 1..l
      <4>1. Stretch(p, i, j - 1) <= b + v * (p[j][1] - p[i][1])
        BY <1>3, <3>2, <3>4 DEF Steady, b, v, l
      <4> QED
        BY <2>4, <3>3, <3>4, <4>1
    <3>5. CASE j = l + 1
      <4>1. j - 1 = l
        BY <2>2, <3>5
      <4> QED
        BY <2>4, <3>1, <3>2, <3>3, <3>5, <4>1
    <3> QED
      BY <2>2, <3>4, <3>5
  <2>9. ~stopped' => tokens' + v * (pause' - spent') >= 0
    <3> SUFFICES ASSUME ~stopped' PROVE tokens' + v * (pause' - spent') >= 0
      OBVIOUS
    <3> DEFINE t == tokens'
    <3>1. t \in Int /\ spent' = now
      BY <2>1, <2>6
    <3>2. CASE t < 0
      <4> DEFINE x == -t
                 d == (x + v - 1) \div v
      <4>1. x \in Nat
        <5>1. \A y \in Int : y < 0 => -y \in Nat
          OBVIOUS
        <5>2. t \in Int /\ t < 0
          BY <3>1, <3>2
        <5> HIDE DEF t
        <5> QED
          BY <5>1, <5>2
      <4>2. d \in Nat /\ d * v >= x
        BY <1>2, <4>1, DebtIsEarned
      <4>3. pause' = now + d
        BY <2>1, <3>2 DEF Metered!debt, v
      <4>4. pause' - spent' = d
        BY <1>4, <3>1, <4>2, <4>3
      <4> HIDE DEF d, t
      <4>5. t + v * d >= 0
        BY <1>2, <3>1, <4>2
      <4> QED
        BY <4>4, <4>5 DEF t
    <3>3. CASE ~(t < 0)
      <4>1. pause' = now
        BY <2>1, <3>3
      <4>2. pause' - spent' = 0 /\ v * 0 = 0
        BY <1>2, <1>4, <3>1, <4>1
      <4> QED
        BY <3>1, <3>3, <4>2
    <3> QED
      BY <3>2, <3>3
  <2>10. Within(passed, tokens, spent)' /\ Steady(passed)'
    BY <1>1, <2>1, <2>7, <2>8 DEF Within, Steady, q
  <2> QED
    BY <1>1, <2>9, <2>10 DEF Paced, v
<1> QED
  BY <1>5, <1>6

(* A chunk leaves the types as they are.                                   *)
LEMMA HeardTyped ==
  ASSUME MeterTyped, NEW n, NEW m, Heard(n, m)
  PROVE  MeterTyped'
<1>1. /\ conf' = conf /\ now' = now /\ samples' = samples /\ stopped' \in BOOLEAN /\ seen' \in Int
      /\ conf \in Metered!Accepted /\ now \in Nat /\ samples \in Seq(Nat)
  BY DEF MeterTyped, Heard
<1>2. passed' \in Seq(Passing) /\ offered' \in Seq(Amount)
  BY HeardMore
<1>3. spent' \in Nat /\ spent' <= now /\ pause' \in Int /\ tokens' \in Int /\ window' \in Nat
      /\ hashed' \in Nat /\ digests' \in Seq(Nat)
  <2>1. CASE m = 0
    BY <1>1, <2>1 DEF MeterTyped, Heard
  <2>2. CASE m # 0
    <3>1. /\ tokens' = Metered!Earned - m /\ spent' = now
          /\ pause' = IF tokens' < 0 /\ ~stopped' THEN now + Metered!debt(tokens') ELSE now
          /\ window' = window + m /\ hashed' = hashed + m
          /\ digests' = IF conf.hash.chunks THEN Append(digests, m) ELSE digests
          /\ m \in Nat
      BY <2>2 DEF Heard, Amount
    <3>2. conf.throttle.speed \in Nat \ {0} /\ conf.throttle.burst \in Nat
      BY <1>1, Accepts
    <3>3. Metered!Earned \in Int
      <4>1. tokens \in Int /\ spent \in Nat
        BY DEF MeterTyped
      <4>2. tokens + (now - spent) * conf.throttle.speed \in Int
        BY <1>1, <3>2, <4>1
      <4> QED
        BY <3>2, <4>2 DEF Metered!Earned, Metered!Least
    <3> DEFINE t == tokens'
    <3>4. t \in Int
      BY <3>1, <3>3
    <3>5. pause' \in Int
      <4>1. CASE t < 0
        <5>1. \A y \in Int : y < 0 => -y \in Nat
          OBVIOUS
        <5> HIDE DEF t
        <5>2. -t \in Nat
          BY <3>4, <4>1, <5>1
        <5>3. Metered!debt(t) \in Int
          BY <3>2, <5>2, DebtIsEarned DEF Metered!debt
        <5> QED
          BY <1>1, <3>1, <5>3 DEF t
      <4>2. CASE ~(t < 0)
        BY <1>1, <3>1, <4>2
      <4> QED
        BY <4>1, <4>2
    <3>6. window' \in Nat /\ hashed' \in Nat /\ digests' \in Seq(Nat)
      <4>1. window \in Nat /\ hashed \in Nat /\ digests \in Seq(Nat)
        BY DEF MeterTyped
      <4>2. Append(digests, m) \in Seq(Nat)
        BY <3>1, <4>1, AppendProperties
      <4>3. window + m \in Nat /\ hashed + m \in Nat
        BY <3>1, <4>1
      <4> QED
        BY <3>1, <4>1, <4>2, <4>3
    <3> QED
      BY <1>1, <3>1, <3>4, <3>5, <3>6
  <2> QED
    BY <2>1, <2>2
<1> QED
  BY <1>1, <1>2, <1>3 DEF MeterTyped

(* What passed is in the window of rate and in the digests.                *)
LEMMA HeardSampled ==
  ASSUME MeterTyped, Sampled, Digested, NEW n, NEW m, Heard(n, m)
  PROVE  Sampled' /\ Digested'
<1>1. conf' = conf /\ outcome' = "no" /\ outcome = "no" /\ samples' = samples /\ stalled' = stalled
  BY DEF Heard
<1>2. Metered!Through' = Metered!Through + m
  BY HeardMore
<1>3. Metered!Through \in Nat /\ Metered!Sum(samples) \in Nat /\ Len(passed) \in Nat
  BY SumsAre
<1>4. window \in Nat /\ hashed \in Nat /\ digests \in Seq(Nat) /\ passed \in Seq(Passing)
  BY DEF MeterTyped
<1>5. CASE m = 0
  <2>1. window' = window /\ hashed' = hashed /\ digests' = digests /\ passed' = passed
    BY <1>5 DEF Heard
  <2>2. Metered!Through' = Metered!Through
    BY <1>2, <1>3, <1>5
  <2> QED
    BY <1>1, <2>1, <2>2 DEF Sampled, Digested
<1>6. CASE m # 0
  <2>1. /\ window' = window + m /\ hashed' = hashed + m /\ m \in Nat
        /\ digests' = (IF conf.hash.chunks THEN Append(digests, m) ELSE digests)
        /\ passed' = Append(passed, <<now, m>>) /\ <<now, m>> \in Passing
    BY <1>6 DEF Heard, Amount
  <2>2. Sampled'
    <3>1. conf.file => Metered!Sum(samples) + (window + m) = Metered!Through + m
      <4> DEFINE a == Metered!Sum(samples)
                 t == Metered!Through
      <4>1. a \in Nat /\ t \in Nat /\ window \in Nat /\ m \in Nat
        BY <1>3, <1>4, <2>1
      <4>2. conf.file => a + window = t
        BY DEF Sampled
      <4> HIDE DEF a, t
      <4>3. a + window = t => a + (window + m) = t + m
        BY <4>1
      <4> QED
        BY <4>2, <4>3 DEF a, t
    <3>2. (conf.file => Metered!Sum(samples) + window = Metered!Through /\ (outcome # "no" => window = 0))'
      BY <1>1, <1>2, <2>1, <3>1
    <3>3. (~conf.file =>
             /\ \A i \in 2..Len(samples) : samples[i] > 0 \/ samples[i - 1] > 0
             /\ samples # <<>> /\ samples[Len(samples)] = 0 => stalled)'
      BY <1>1 DEF Sampled
    <3> QED
      BY <3>2, <3>3 DEF Sampled
  <2>3. hashed' = Metered!Through'
    BY <1>2, <2>1 DEF Digested
  <2>4. conf.hash.chunks =>
          /\ Len(passed') = Len(digests') /\ Len(passed') <= Len(digests')
          /\ \A i \in 1..Len(passed') : digests'[i] = passed'[i][2]
    <3> SUFFICES ASSUME conf.hash.chunks
                 PROVE  /\ Len(passed') = Len(digests') /\ Len(passed') <= Len(digests')
                        /\ \A i \in 1..Len(passed') : digests'[i] = passed'[i][2]
      OBVIOUS
    <3> DEFINE l == Len(passed)
               c == <<now, m>>
    <3>1. Len(digests) = l /\ \A i \in 1..l : digests[i] = passed[i][2]
      BY <1>1 DEF Digested
    <3>2. digests' = Append(digests, m) /\ passed' = Append(passed, c) /\ c \in Passing /\ c[2] = m
      BY <2>1
    <3> HIDE DEF c
    <3>3. /\ Len(digests') = l + 1 /\ digests'[l + 1] = m
          /\ \A i \in 1..l : digests'[i] = digests[i]
      BY <1>4, <2>1, <3>1, <3>2, AppendProperties
    <3>4. /\ Len(passed') = l + 1 /\ passed'[l + 1] = c
          /\ \A i \in 1..l : passed'[i] = passed[i]
      BY <1>4, <3>2, AppendProperties
    <3>5. l \in Nat
      BY <1>3
    <3> HIDE DEF l
    <3>6. \A i \in 1..(l + 1) : digests'[i] = passed'[i][2]
      <4> TAKE i \in 1..(l + 1)
      <4>1. CASE i \in 1..l
        BY <3>1, <3>3, <3>4, <4>1
      <4>2. CASE i = l + 1
        BY <3>2, <3>3, <3>4, <4>2
      <4> QED
        BY <3>5, <4>1, <4>2
    <3> QED
      BY <3>3, <3>4, <3>5, <3>6
  <2> QED
    BY <1>1, <2>2, <2>3, <2>4 DEF Digested
<1> QED
  BY <1>5, <1>6

(* The end of a path takes the last window and the digest of all.          *)
LEMMA FinishesSampled ==
  ASSUME MeterTyped, Sampled, Digested, outcome = "no",
         NEW how \in {"halted", "eof"}, Metered!Finishes(how),
         UNCHANGED <<conf, passed, hashed, stalled>>
  PROVE  Sampled' /\ Digested' /\ samples' \in Seq(Nat) /\ digests' \in Seq(Nat) /\ window' \in Nat
<1>1. /\ samples' = (IF conf.file /\ window > 0 THEN Append(samples, window) ELSE samples)
      /\ window' = (IF conf.file THEN 0 ELSE window)
      /\ digests' = (IF conf.hash.summary THEN Append(digests, hashed) ELSE digests)
      /\ outcome' # "no"
  BY DEF Metered!Finishes, Metered!RateEnds, Metered!HashEnds
<1>2. Metered!Through' = Metered!Through
  BY DEF Metered!Through
<1>3. Metered!Through \in Nat /\ Metered!Sum(samples) \in Nat /\ Len(passed) \in Nat
  BY SumsAre
<1>4. window \in Nat /\ hashed \in Nat /\ digests \in Seq(Nat) /\ samples \in Seq(Nat)
  BY DEF MeterTyped
<1>5. Append(samples, window) \in Seq(Nat) /\ Append(digests, hashed) \in Seq(Nat)
  BY <1>4, AppendProperties
<1>6. Metered!Sum(Append(samples, window)) = Metered!Sum(samples) + window
  BY <1>4, SumOneMore
<1>7. Sampled'
  <2>1. CASE conf.file
    <3>1. Metered!Sum(samples) + window = Metered!Through /\ window' = 0
      BY <1>1, <2>1 DEF Sampled
    <3>2. Metered!Sum(samples') = Metered!Through
      <4>1. CASE window > 0
        BY <1>1, <1>6, <2>1, <3>1, <4>1
      <4>2. CASE window = 0
        <5>1. samples' = samples
          BY <1>1, <4>2
        <5> QED
          BY <1>3, <3>1, <4>2, <5>1
      <4> QED
        BY <1>4, <4>1, <4>2
    <3>3. Metered!Through + 0 = Metered!Through
      BY <1>3
    <3> QED
      BY <1>2, <2>1, <3>1, <3>2, <3>3 DEF Sampled
  <2>2. CASE ~conf.file
    <3>1. samples' = samples
      BY <1>1, <2>2
    <3> QED
      BY <2>2, <3>1 DEF Sampled
  <2> QED
    BY <2>1, <2>2
<1>8. Digested'
  <2> DEFINE t == Metered!Through
             l == Len(digests)
  <2>1. hashed = t /\ hashed' = Metered!Through'
    BY <1>2 DEF Digested
  <2>2. conf.hash.chunks =>
          /\ Len(passed) <= Len(digests')
          /\ \A i \in 1..Len(passed) : digests'[i] = passed[i][2]
    <3> SUFFICES ASSUME conf.hash.chunks
                 PROVE  /\ Len(passed) <= Len(digests')
                        /\ \A i \in 1..Len(passed) : digests'[i] = passed[i][2]
      OBVIOUS
    <3>1. l = Len(passed) /\ \A i \in 1..Len(passed) : digests[i] = passed[i][2]
      BY DEF Digested
    <3>2. Len(digests') \in {l, l + 1} /\ \A i \in 1..l : digests'[i] = digests[i]
      BY <1>1, <1>4, AppendProperties
    <3>3. l \in Nat
      BY <1>4
    <3> HIDE DEF l
    <3> QED
      BY <3>1, <3>2, <3>3
  <2>3. conf.hash.summary => digests' # <<>> /\ digests'[Len(digests')] = hashed
    BY <1>1, <1>4, AppendProperties
  <2> QED
    BY <1>1, <2>1, <2>2, <2>3 DEF Digested
<1> QED
  BY <1>1, <1>4, <1>5, <1>7, <1>8

(* A sample takes the window, and none is of a stall that was announced.   *)
LEMMA SampleSampled ==
  ASSUME MeterTyped, Sampled, outcome = "no", Metered!sample, UNCHANGED <<conf, outcome, passed>>
  PROVE  Sampled' /\ samples' \in Seq(Nat) /\ window' = 0
<1>1. /\ samples' = (IF Metered!Says THEN Append(samples, window) ELSE samples)
      /\ (stalled' <=> window = 0) /\ window' = 0
  BY DEF Metered!sample
<1>2. Metered!Through' = Metered!Through
  BY DEF Metered!Through
<1>3. Metered!Through \in Nat /\ Metered!Sum(samples) \in Nat
  BY SumsAre
<1>4. window \in Nat /\ samples \in Seq(Nat)
  BY DEF MeterTyped
<1>5. Append(samples, window) \in Seq(Nat)
  BY <1>4, AppendProperties
<1>6. CASE conf.file
  <2>1. samples' = Append(samples, window)
    BY <1>1, <1>6 DEF Metered!Says
  <2>2. Metered!Sum(samples') = Metered!Sum(samples) + window
    BY <1>4, <2>1, SumOneMore
  <2>3. Metered!Sum(samples) + window = Metered!Through
    BY <1>6 DEF Sampled
  <2>4. Metered!Through + 0 = Metered!Through
    BY <1>3
  <2> QED
    BY <1>1, <1>2, <1>5, <1>6, <2>1, <2>2, <2>3, <2>4 DEF Sampled
<1>7. CASE ~conf.file
  <2> DEFINE l == Len(samples)
  <2>1. /\ \A i \in 2..l : samples[i] > 0 \/ samples[i - 1] > 0
        /\ samples # <<>> /\ samples[l] = 0 => stalled
    BY <1>7 DEF Sampled
  <2>2. l \in Nat /\ \A i \in 1..l : samples[i] \in Nat
    BY <1>4
  <2>3. CASE window > 0 \/ ~stalled
    <3>1. samples' = Append(samples, window)
      BY <1>1, <2>3 DEF Metered!Says
    <3>2. /\ Len(samples') = l + 1 /\ samples'[l + 1] = window
          /\ \A i \in 1..l : samples'[i] = samples[i]
      BY <1>4, <3>1, AppendProperties
    <3>3. l # 0 => samples # <<>>
      OBVIOUS
    <3> HIDE DEF l
    <3>4. \A i \in 2..(l + 1) : samples'[i] > 0 \/ samples'[i - 1] > 0
      <4> TAKE i \in 2..(l + 1)
      <4>1. CASE i \in 2..l
        <5>1. i \in 1..l /\ i - 1 \in 1..l
          BY <2>2, <4>1
        <5> QED
          BY <2>1, <3>2, <4>1, <5>1
      <4>2. CASE i = l + 1
        <5>1. l \in 1..l /\ l # 0 /\ i - 1 = l
          BY <2>2, <4>2
        <5>2. samples'[i] = window /\ samples'[i - 1] = samples[l] /\ samples[l] \in Nat
          BY <2>2, <3>2, <4>2, <5>1
        <5>3. CASE window > 0
          BY <5>2, <5>3
        <5>4. CASE ~stalled
          <6>1. samples[l] # 0
            BY <2>1, <3>3, <5>1, <5>4
          <6> QED
            BY <5>2, <6>1
        <5> QED
          BY <2>3, <5>3, <5>4
      <4> QED
        BY <2>2, <4>1, <4>2
    <3>5. samples'[Len(samples')] = 0 => stalled'
      BY <1>1, <3>2
    <3> QED
      BY <1>1, <1>5, <1>7, <2>2, <3>1, <3>2, <3>4, <3>5 DEF Sampled
  <2>4. CASE ~(window > 0 \/ ~stalled)
    <3>1. samples' = samples
      BY <1>1, <1>7, <2>4 DEF Metered!Says
    <3>2. stalled'
      BY <1>1, <1>4, <2>4
    <3> QED
      BY <1>1, <1>4, <1>7, <2>1, <3>1, <3>2 DEF Sampled
  <2> QED
    BY <2>3, <2>4
<1> QED
  BY <1>6, <1>7

(* Every step of the path keeps what is known of it.                       *)
LEMMA MeterStep == MeterIInv /\ (Metered!Next \/ UNCHANGED Metered!vars) => MeterIInv'
<1> SUFFICES ASSUME MeterIInv, Metered!Next \/ UNCHANGED Metered!vars PROVE MeterIInv'
  OBVIOUS
<1>1. MeterTyped /\ Paced /\ Short /\ Metered!LimitIsExact /\ Sampled /\ Digested
  BY DEF MeterIInv
<1>2. ASSUME NEW n \in 1..MaxChunk, Metered!on_bytes(n) PROVE MeterIInv'
  <2>1. Heard(n, Metered!Forwarded(n))
    BY <1>1, <1>2, Hears
  <2> QED
    BY <1>1, <2>1, HeardTyped, HeardPaced, HeardInLimit, HeardSampled DEF MeterIInv
<1>3. ASSUME UNCHANGED <<conf, seen, stopped, tokens, spent, offered, passed, pause>>
      PROVE  Paced' /\ Short' /\ Metered!LimitIsExact'
  <2>1. Paced'
    BY <1>1, <1>3 DEF Paced, Within, Steady
  <2>2. Short'
    BY <1>1, <1>3 DEF Short
  <2>3. Metered!LimitIsExact'
    BY <1>1, <1>3 DEF Metered!LimitIsExact, Metered!Through, Metered!at_limit, Metered!cap
  <2> QED
    BY <2>1, <2>2, <2>3
<1>4. ASSUME UNCHANGED <<conf, window, stalled, samples, hashed, digests, passed, outcome>>
      PROVE  Sampled' /\ Digested'
  BY <1>1, <1>4 DEF Sampled, Digested, Metered!Through
<1>5. ASSUME NEW how \in {"halted", "eof"}, outcome = "no", Metered!Finishes(how),
             UNCHANGED <<conf, now, seen, stopped, tokens, spent, stalled, hashed, offered, passed, pause>>
      PROVE  MeterIInv'
  <2>1. Sampled' /\ Digested' /\ samples' \in Seq(Nat) /\ digests' \in Seq(Nat) /\ window' \in Nat
    BY <1>1, <1>5, FinishesSampled
  <2>2. MeterTyped'
    BY <1>1, <1>5, <2>1 DEF MeterTyped
  <2> QED
    BY <1>3, <1>5, <2>1, <2>2 DEF MeterIInv
<1>6. Metered!Halts => MeterIInv'
  BY <1>5 DEF Metered!Halts, Metered!limit, Metered!throttle
<1>7. Metered!on_eof => MeterIInv'
  BY <1>5 DEF Metered!on_eof, Metered!Reading, Metered!limit, Metered!throttle
<1>8. ASSUME Metered!on_tick PROVE MeterIInv'
  <2>1. /\ outcome = "no"
        /\ UNCHANGED <<conf, now, seen, stopped, tokens, spent, offered, passed, pause>>
        /\ UNCHANGED <<offset, hashed, digests, outcome>>
        /\ \/ UNCHANGED <<started, last, total, window, stalled, chunks, samples>>
           \/ Metered!sample
    BY <1>8 DEF Metered!on_tick, Metered!Reading, Metered!limit, Metered!throttle, Metered!dump,
      Metered!rate
  <2>2. Paced' /\ Short' /\ Metered!LimitIsExact'
    BY <1>3, <2>1
  <2>3. Digested'
    BY <1>1, <2>1 DEF Digested, Metered!Through
  <2>4. Sampled' /\ samples' \in Seq(Nat) /\ window' \in Nat
    <3>1. CASE UNCHANGED <<started, last, total, window, stalled, chunks, samples>>
      BY <1>1, <1>4, <2>1, <3>1 DEF MeterTyped
    <3>2. CASE Metered!sample
      <4>1. Sampled' /\ samples' \in Seq(Nat) /\ window' = 0
        BY <1>1, <2>1, <3>2, SampleSampled
      <4> QED
        BY <4>1
    <3> QED
      BY <2>1, <3>1, <3>2
  <2>5. MeterTyped'
    BY <1>1, <2>1, <2>4 DEF MeterTyped
  <2> QED
    BY <2>2, <2>3, <2>4, <2>5 DEF MeterIInv
<1>9. ASSUME Metered!Pass PROVE MeterIInv'
  <2>1. /\ now' = now + 1
        /\ UNCHANGED <<conf, seen, stopped, tokens, spent, offered, passed, pause>>
        /\ UNCHANGED <<window, stalled, samples, hashed, digests, outcome>>
    BY <1>9 DEF Metered!Pass, Metered!limit, Metered!throttle, Metered!dump, Metered!rate
  <2>2. now' \in Nat /\ spent' <= now'
    BY <1>1, <2>1 DEF MeterTyped
  <2>3. MeterTyped'
    BY <1>1, <2>1, <2>2 DEF MeterTyped
  <2> QED
    BY <1>3, <1>4, <2>1, <2>3 DEF MeterIInv
<1>10. ASSUME UNCHANGED Metered!vars PROVE MeterIInv'
  <2>1. /\ UNCHANGED <<conf, now, seen, stopped, tokens, spent, offered, passed, pause>>
        /\ UNCHANGED <<window, stalled, samples, hashed, digests, outcome>>
    BY <1>10 DEF Metered!vars, Metered!limit, Metered!throttle, Metered!dump, Metered!rate
  <2>2. MeterTyped'
    BY <1>1, <2>1 DEF MeterTyped
  <2> QED
    BY <1>3, <1>4, <2>1, <2>2 DEF MeterIInv
<1> QED
  BY <1>2, <1>6, <1>7, <1>8, <1>9, <1>10 DEF Metered!Next

(* What is known of the path is what is promised of it.                    *)
LEMMA MeterImplies == MeterIInv => MetersAreExact
<1> SUFFICES ASSUME MeterIInv PROVE MetersAreExact
  OBVIOUS
<1>1. MeterTyped /\ Paced /\ Metered!LimitIsExact /\ Sampled /\ Digested
  BY DEF MeterIInv
<1>2. Metered!SpeedHolds
  BY <1>1 DEF Paced, Steady, Stretch, Metered!SpeedHolds
<1>3. conf.hash.chunks => Metered!Sum(SubSeq(digests, 1, Len(passed))) = Metered!Through
  <2> SUFFICES ASSUME conf.hash.chunks PROVE SubSeq(digests, 1, Len(passed)) = Metered!Bytes(passed)
    BY DEF Metered!Through
  <2> DEFINE s == SubSeq(digests, 1, Len(passed))
             b == Metered!Bytes(passed)
             l == Len(passed)
  <2>1. l \in Nat /\ l <= Len(digests) /\ \A i \in 1..l : digests[i] = passed[i][2]
    BY <1>1, SumsAre DEF Digested
  <2>2. digests \in Seq(Nat) /\ passed \in Seq(Passing)
    BY <1>1 DEF MeterTyped
  <2>3. s \in Seq(Nat) /\ Len(s) = l /\ \A i \in 1..l : s[i] = digests[i]
    BY <2>1, <2>2
  <2>4. b \in Seq(Nat) /\ Len(b) = l /\ \A i \in 1..l : b[i] = passed[i][2]
    BY <2>2, BytesAre
  <2> HIDE DEF s, b, l
  <2>5. Len(s) = Len(b) /\ \A i \in 1..Len(s) : s[i] = b[i]
    BY <2>1, <2>3, <2>4
  <2>6. s = b
    BY <2>3, <2>4, <2>5, SeqEqual
  <2> QED
    BY <2>6 DEF s, b, l
<1>4. Metered!SamplesAddUp
  BY <1>1, <1>3 DEF Sampled, Digested, Metered!SamplesAddUp, Metered!Last
<1> QED
  BY <1>1, <1>2, <1>4 DEF MetersAreExact

(* A limit ends the path where its table says, on the byte; what passes is *)
(* no faster than its speed over any stretch; every byte is in one sample  *)
(* and one digest (on_bytes of limit.rs, throttle.rs, rate.rs and hash.rs),*)
(* for every cap, speed, bucket and chunk.                                 *)
THEOREM MetersAreTrue == StagesSpec => []MetersAreExact
<1>1. StagesInit => MeterIInv
  BY MeterInit DEF StagesInit
<1>2. [StagesNext]_<<part, vars, meterVars, channelVars, guestVars>>
        => Metered!Next \/ UNCHANGED Metered!vars
  BY DEF StagesNext, meterVars, Metered!vars, Metered!limit, Metered!throttle, Metered!rate,
    Metered!dump
<1> QED
  BY <1>1, <1>2, MeterStep, MeterImplies, PTL DEF StagesSpec
-----------------------------------------------------------------------------
(* What a guest says, and what the host has taken from it.                 *)

(* The bytes a guest is handed and writes.                                 *)
Letters == {"i", "s", "t"}

(* Two sequences of them, one behind the other.                            *)
LEMMA Behind ==
  ASSUME NEW a \in Seq(Letters), NEW b \in Seq(Letters)
  PROVE  /\ a \o b \in Seq(Letters) /\ Len(a \o b) = Len(a) + Len(b)
         /\ Len(a) \in Nat /\ Len(b) \in Nat /\ a \o <<>> = a /\ <<>> \o a = a
<1> DEFINE S == Letters
<1>1. a \in Seq(S) /\ b \in Seq(S)
  OBVIOUS
<1> HIDE DEF S
<1>2. a \o b \in Seq(S) /\ Len(a \o b) = Len(a) + Len(b)
  BY <1>1, ConcatProperties
<1>3. Len(a) \in Nat /\ Len(b) \in Nat
  BY <1>1, LenProperties
<1>4. a \o <<>> = a /\ <<>> \o a = a
  BY <1>1, ConcatEmptySeq
<1> QED
  BY <1>2, <1>3, <1>4 DEF S

(* Nothing is <<>>, and it is that which has no length.                    *)
LEMMA NoLetters ==
  ASSUME NEW T, NEW a \in Seq(T)
  PROVE  (a = <<>> <=> Len(a) = 0) /\ Len(a) \in Nat /\ <<>> \in Seq(T) /\ Len(<<>>) = 0
BY EmptySeq, LenProperties

(* A part of such a sequence, and the next one.                            *)
LEMMA NextPart ==
  ASSUME NEW a \in Seq(Letters), NEW m \in 0..Len(a), NEW n \in m..Len(a)
  PROVE  /\ SubSeq(a, m + 1, n) \in Seq(Letters)
         /\ SubSeq(a, 1, m) \in Seq(Letters) /\ Len(SubSeq(a, 1, m)) = m
         /\ SubSeq(a, 1, m) \o SubSeq(a, m + 1, n) = SubSeq(a, 1, n)
         /\ SubSeq(a, 1, 0) = <<>> /\ SubSeq(a, 1, Len(a)) = a
<1> DEFINE S == Letters
<1>1. a \in Seq(S) /\ Len(a) \in Nat
  OBVIOUS
<1> HIDE DEF S
<1>2. \A i \in 1..Len(a) : a[i] \in S
  BY <1>1, ElementOfSeq
<1>3. m \in Int /\ n \in Int /\ 1 \in Int /\ m + 1 \in Int
  BY <1>1
<1>4. SubSeq(a, m + 1, n) \in Seq(S)
  <2>1. \A i \in (m + 1)..n : a[i] \in S
    BY <1>1, <1>2
  <2> QED
    BY <1>3, <2>1, SubSeqProperties
<1>5. SubSeq(a, 1, m) \in Seq(S) /\ Len(SubSeq(a, 1, m)) = m
  <2>1. \A i \in 1..m : a[i] \in S
    BY <1>1, <1>2
  <2>2. Len(SubSeq(a, 1, m)) = IF 1 <= m THEN m - 1 + 1 ELSE 0
    BY <1>3, <2>1, SubSeqProperties
  <2>3. SubSeq(a, 1, m) \in Seq(S)
    BY <1>3, <2>1, SubSeqProperties
  <2> QED
    BY <1>1, <2>2, <2>3
<1>6. SubSeq(a, 1, m) \o SubSeq(a, m + 1, n) = SubSeq(a, 1, n)
  <2>1. 1 \in 1..(Len(a) + 1) /\ m \in (1 - 1)..Len(a) /\ n \in m..Len(a)
    BY <1>1
  <2> QED
    BY <1>1, <2>1, ConcatAdjacentSubSeq
<1>7. SubSeq(a, 1, 0) = <<>>
  BY SubSeqEmpty
<1>8. SubSeq(a, 1, Len(a)) = a
  BY <1>1, SubSeqFull
<1> QED
  BY <1>4, <1>5, <1>6, <1>7, <1>8 DEF S

(* The ends in b cut l bytes where the numbers in c say.                   *)
CutsAt(b, l, c) ==
  /\ b \in Seq(Nat) /\ c \subseteq Nat
  /\ \A i \in 1..Len(b) : b[i] \in 1..l
  /\ \A i, j \in 1..Len(b) : i < j => b[i] < b[j]
  /\ \A m \in Nat \ {0} : m \in c <=> \E i \in 1..Len(b) : b[i] = m

(* An emission, of a call with the input x, holds the bytes of B, cut at C.*)
Holds(e, x, B, C) ==
  /\ e \in [out : Seq(Letters), bounds : Seq(Nat), emit : {"pending", "passthrough", "buffered"}]
  /\ x \in Seq(Letters) /\ B \in Seq(Letters)
  /\ Hosted!Copied(e, x) = B
  /\ e.emit # "buffered" => e.out = <<>> /\ e.bounds = <<>>
  /\ CutsAt(e.bounds, Len(e.out), C)

(* Cuts stay where they are when more bytes follow.                        *)
LEMMA CutsStay ==
  ASSUME NEW b, NEW l \in Nat, NEW m \in Nat, l <= m, NEW c, CutsAt(b, l, c)
  PROVE  CutsAt(b, m, c)
<1>1. \A i \in 1..Len(b) : b[i] \in 1..m
  BY DEF CutsAt
<1> QED
  BY <1>1 DEF CutsAt

(* Bytes of the guest's own come behind what it held.                      *)
LEMMA ForwardHolds ==
  ASSUME NEW e, NEW x, NEW B, NEW C, Holds(e, x, B, C), NEW y \in Seq(Letters)
  PROVE  /\ Holds(Hosted!forward(e, x, y), x, B \o y, C)
         /\ Hosted!forward(e, x, y).emit = "buffered"
<1> DEFINE f == Hosted!forward(e, x, y)
<1>1. f = [e EXCEPT !.out = B \o y, !.emit = "buffered"]
  BY DEF Holds, Hosted!forward
<1>2. e \in [out : Seq(Letters), bounds : Seq(Nat), emit : {"pending", "passthrough", "buffered"}]
  BY DEF Holds
<1>3. B \in Seq(Letters) /\ x \in Seq(Letters) /\ B \o y \in Seq(Letters)
  BY Behind DEF Holds
<1> HIDE DEF f
<1>4. f.out = B \o y /\ f.bounds = e.bounds /\ f.emit = "buffered"
      /\ f \in [out : Seq(Letters), bounds : Seq(Nat), emit : {"pending", "passthrough", "buffered"}]
  BY <1>1, <1>2, <1>3
<1>5. Hosted!Copied(f, x) = B \o y
  BY <1>4 DEF Hosted!Copied
<1>6. Len(e.out) \in Nat /\ Len(B \o y) \in Nat /\ Len(e.out) <= Len(B \o y)
  <2>1. B = e.out \/ B = e.out \o x
    BY DEF Holds, Hosted!Copied
  <2>2. e.out \in Seq(Letters)
    BY <1>2
  <2>3. Len(B) \in Nat /\ Len(e.out) \in Nat /\ Len(e.out) <= Len(B)
    BY <1>3, <2>1, <2>2, Behind
  <2>4. Len(B \o y) = Len(B) + Len(y) /\ Len(y) \in Nat
    BY <1>3, Behind
  <2> QED
    BY <2>3, <2>4
<1>7. CutsAt(f.bounds, Len(f.out), C)
  BY <1>4, <1>6, CutsStay DEF Holds
<1> QED
  BY <1>3, <1>4, <1>5, <1>7 DEF Holds, f
(* A number behind the cuts is one more cut.                               *)
LEMMA CutsMore ==
  ASSUME NEW b, NEW l \in Nat, NEW c, CutsAt(b, l, c), l # 0, Len(b) # 0 => b[Len(b)] < l
  PROVE  CutsAt(Append(b, l), l, c \cup {l})
<1> DEFINE n == Len(b)
           a == Append(b, l)
<1>1. /\ b \in Seq(Nat) /\ c \subseteq Nat /\ n \in Nat
      /\ \A i \in 1..n : b[i] \in 1..l
      /\ \A i, j \in 1..n : i < j => b[i] < b[j]
      /\ \A m \in Nat \ {0} : m \in c <=> \E i \in 1..n : b[i] = m
  BY DEF CutsAt
<1>2. /\ a \in Seq(Nat) /\ Len(a) = n + 1 /\ a[n + 1] = l
      /\ \A i \in 1..n : a[i] = b[i]
  BY <1>1, AppendProperties
<1> HIDE DEF a, n
<1>3. \A i \in 1..(n + 1) : i \in 1..n \/ i = n + 1
  BY <1>1
<1>4. ASSUME NEW i \in 1..(n + 1) PROVE a[i] \in 1..l
  <2>1. l \in 1..l
    OBVIOUS
  <2>2. CASE i \in 1..n
    BY <1>1, <1>2, <2>2, Zenon
  <2>3. CASE i = n + 1
    BY <1>2, <2>1, <2>3, Zenon
  <2> QED
    BY <1>3, <2>2, <2>3
<1>5. ASSUME NEW i \in 1..(n + 1), NEW j \in 1..(n + 1), i < j PROVE a[i] < a[j]
  <2>1. i \in 1..n
    BY <1>1, <1>5
  <2>2. CASE j \in 1..n
    BY <1>1, <1>2, <1>5, <2>1, <2>2
  <2>3. CASE j = n + 1
    <3>1. n \in 1..n /\ n # 0 /\ (i < n \/ i = n)
      BY <1>1, <2>1
    <3>2. b[n] < l /\ b[i] \in 1..l /\ b[n] \in 1..l
      BY <1>1, <2>1, <3>1 DEF n
    <3>3. b[i] < l
      BY <1>1, <2>1, <3>1, <3>2
    <3> QED
      BY <1>2, <2>1, <2>3, <3>3
  <2> QED
    BY <1>3, <2>2, <2>3
<1>6. ASSUME NEW m \in Nat \ {0} PROVE m \in c \cup {l} <=> \E i \in 1..(n + 1) : a[i] = m
  <2>1. CASE m = l
    <3>1. n + 1 \in 1..(n + 1)
      BY <1>1
    <3> QED
      BY <1>2, <2>1, <3>1
  <2>2. CASE m # l /\ m \in c
    <3>1. PICK i \in 1..n : b[i] = m
      BY <1>1, <2>2
    <3>2. i \in 1..(n + 1) /\ a[i] = m
      BY <1>1, <1>2, <3>1
    <3> QED
      BY <2>2, <3>2
  <2>3. CASE m # l /\ m \notin c
    <3>1. \A i \in 1..n : b[i] # m
      BY <1>1, <2>3
    <3> QED
      BY <1>2, <1>3, <2>3, <3>1
  <2> QED
    BY <2>1, <2>2, <2>3
<1>7. c \cup {l} \subseteq Nat
  BY <1>1
<1> QED
  BY <1>2, <1>4, <1>5, <1>6, <1>7 DEF CutsAt, a

(* Where there is a cut already, or nothing to cut, one more changes none. *)
LEMMA CutsSame ==
  ASSUME NEW b, NEW l \in Nat, NEW c, CutsAt(b, l, c),
         l = 0 \/ (Len(b) # 0 /\ b[Len(b)] = l)
  PROVE  CutsAt(b, l, c \cup {l})
<1>1. Len(b) \in Nat /\ c \cup {l} \subseteq Nat
  BY DEF CutsAt
<1>2. l # 0 => l \in c
  <2> SUFFICES ASSUME l # 0 PROVE l \in c
    OBVIOUS
  <2>1. Len(b) \in 1..Len(b) /\ b[Len(b)] = l /\ l \in Nat \ {0}
    BY <1>1
  <2> QED
    BY <2>1 DEF CutsAt
<1>3. \A m \in Nat \ {0} : m \in c \cup {l} <=> m \in c
  BY <1>2
<1> QED
  BY <1>1, <1>3 DEF CutsAt

(* What is said of an emission that is closed: where its last cut is.      *)
LEMMA CloseIs ==
  ASSUME NEW e, NEW x, NEW B, NEW C, Holds(e, x, B, C), e.emit # "passthrough"
  PROVE  /\ Holds(Hosted!close(e), x, B, C \cup {Len(B)})
         /\ Hosted!close(e).out = e.out /\ Hosted!close(e).emit = e.emit
         /\ e.out = B
<1> DEFINE f == Hosted!close(e)
           n == Len(e.bounds)
           l == Len(e.out)
<1>1. e \in [out : Seq(Letters), bounds : Seq(Nat), emit : {"pending", "passthrough", "buffered"}]
  BY DEF Holds
<1>2. e.out = B /\ x \in Seq(Letters) /\ B \in Seq(Letters)
  BY DEF Holds, Hosted!Copied
<1>3. CutsAt(e.bounds, l, C)
  BY DEF Holds
<1>4. l \in Nat /\ n \in Nat /\ e.bounds \in Seq(Nat) /\ (e.bounds = <<>> <=> n = 0)
      /\ e.out \in Seq(Letters) /\ (e.out = <<>> <=> l = 0)
  <2>1. e.bounds \in Seq(Nat) /\ e.out \in Seq(Letters)
    BY <1>1
  <2> QED
    BY <2>1, NoLetters
<1>5. Hosted!LastEnd(e) = IF n # 0 THEN e.bounds[n] ELSE 0
  BY <1>4 DEF Hosted!LastEnd, Hosted!Framed
<1>6. n # 0 => e.bounds[n] \in 1..l
  <2>1. n # 0 => n \in 1..n
    BY <1>4
  <2> QED
    BY <1>3, <2>1 DEF CutsAt
<1>7. CASE Hosted!LastEnd(e) < l
  <2>1. f = [e EXCEPT !.bounds = Append(e.bounds, l)]
    BY <1>7 DEF Hosted!close
  <2>2. l # 0 /\ (n # 0 => e.bounds[n] < l)
    BY <1>4, <1>5, <1>6, <1>7
  <2>3. CutsAt(Append(e.bounds, l), l, C \cup {l})
    BY <1>3, <1>4, <2>2, CutsMore
  <2>4. Append(e.bounds, l) \in Seq(Nat)
    BY <2>3 DEF CutsAt
  <2> HIDE DEF f
  <2>5. f.bounds = Append(e.bounds, l) /\ f.out = e.out /\ f.emit = e.emit
        /\ f \in [out : Seq(Letters), bounds : Seq(Nat), emit : {"pending", "passthrough", "buffered"}]
    BY <1>1, <2>1, <2>4
  <2>6. e.emit = "buffered"
    BY <1>4, <2>2 DEF Holds
  <2>7. Hosted!Copied(f, x) = B
    BY <1>2, <2>5, <2>6 DEF Hosted!Copied
  <2>8. CutsAt(f.bounds, Len(f.out), C \cup {Len(B)})
    BY <1>2, <2>3, <2>5
  <2> QED
    BY <1>2, <2>5, <2>6, <2>7, <2>8 DEF Holds, f
<1>8. CASE ~(Hosted!LastEnd(e) < l)
  <2>1. f = e
    BY <1>8 DEF Hosted!close
  <2>2. l = 0 \/ (n # 0 /\ e.bounds[n] = l)
    BY <1>4, <1>5, <1>6, <1>8
  <2>3. CutsAt(e.bounds, l, C \cup {Len(B)})
    BY <1>2, <1>3, <1>4, <2>2, CutsSame
  <2> QED
    BY <1>2, <2>1, <2>3 DEF Holds
<1> QED
  BY <1>7, <1>8

(* A boundary cuts behind what the emission holds.                         *)
LEMMA BoundaryHolds ==
  ASSUME NEW e, NEW x, NEW B, NEW C, Holds(e, x, B, C), e.emit = "buffered"
  PROVE  /\ Holds(Hosted!boundary(e, x), x, B, C \cup {Len(B)})
         /\ Hosted!boundary(e, x).emit = "buffered"
<1>1. e = [e EXCEPT !.out = e.out, !.emit = e.emit]
  BY DEF Holds
<1>2. Hosted!Copied(e, x) = e.out
  BY DEF Hosted!Copied
<1>3. Hosted!boundary(e, x) = Hosted!close(e)
  BY <1>1, <1>2 DEF Hosted!boundary
<1> QED
  BY <1>3, CloseIs

(* A chunk that is passed through comes behind what the emission held, ... *)
LEMMA PassHolds ==
  ASSUME NEW e, NEW x, NEW B, NEW C, Holds(e, x, B, C), e.emit # "passthrough" \/ x = <<>>
  PROVE  Holds(Hosted!pass_through(e, x), x, B \o x, C)
<1> DEFINE f == Hosted!pass_through(e, x)
<1>1. /\ e \in [out : Seq(Letters), bounds : Seq(Nat), emit : {"pending", "passthrough", "buffered"}]
      /\ x \in Seq(Letters) /\ B \in Seq(Letters) /\ B \o x \in Seq(Letters)
  BY Behind DEF Holds
<1>2. CASE e.emit = "pending"
  <2>1. f = [e EXCEPT !.emit = "passthrough", !.out = e.out]
    BY <1>2 DEF Hosted!pass_through
  <2> HIDE DEF f
  <2>2. f.out = e.out /\ f.bounds = e.bounds /\ f.emit = "passthrough"
        /\ f \in [out : Seq(Letters), bounds : Seq(Nat), emit : {"pending", "passthrough", "buffered"}]
    BY <1>1, <2>1
  <2>3. e.out = B /\ e.out = <<>> /\ e.bounds = <<>>
    BY <1>2 DEF Holds, Hosted!Copied
  <2>4. Hosted!Copied(f, x) = B \o x
    BY <2>2, <2>3 DEF Hosted!Copied
  <2> QED
    BY <1>1, <2>2, <2>3, <2>4 DEF Holds, f
<1>3. CASE e.emit = "buffered"
  <2>1. f = [e EXCEPT !.emit = "buffered", !.out = e.out \o x]
    BY <1>3 DEF Hosted!pass_through
  <2> HIDE DEF f
  <2>2. e.out = B
    BY <1>3 DEF Holds, Hosted!Copied
  <2>3. f.out = B \o x /\ f.bounds = e.bounds /\ f.emit = "buffered"
        /\ f \in [out : Seq(Letters), bounds : Seq(Nat), emit : {"pending", "passthrough", "buffered"}]
    BY <1>1, <2>1, <2>2
  <2>4. Hosted!Copied(f, x) = B \o x
    BY <2>3 DEF Hosted!Copied
  <2>5. Len(B) \in Nat /\ Len(B \o x) \in Nat /\ Len(B) <= Len(B \o x)
    BY <1>1, Behind
  <2>6. CutsAt(f.bounds, Len(f.out), C)
    BY <2>2, <2>3, <2>5, CutsStay DEF Holds
  <2> QED
    BY <1>1, <2>3, <2>4, <2>6 DEF Holds, f
<1>4. CASE e.emit = "passthrough"
  <2>1. x = <<>> /\ B \o x = B
    BY <1>1, <1>4, Behind
  <2>2. f = [e EXCEPT !.emit = e.emit, !.out = e.out]
    BY <1>4 DEF Hosted!pass_through
  <2>3. f = e
    BY <1>1, <2>2
  <2> QED
    BY <2>1, <2>3
<1> QED
  BY <1>1, <1>2, <1>3, <1>4

(* ... and one that is dropped adds nothing to it.                         *)
LEMMA DropHolds ==
  ASSUME NEW e, NEW x, NEW B, NEW C, Holds(e, x, B, C), e.emit # "passthrough" \/ x = <<>>
  PROVE  Holds(Hosted!drop_chunk(e), x, B, C)
<1> DEFINE f == Hosted!drop_chunk(e)
<1>1. e \in [out : Seq(Letters), bounds : Seq(Nat), emit : {"pending", "passthrough", "buffered"}]
      /\ x \in Seq(Letters) /\ B \in Seq(Letters)
  BY DEF Holds
<1>2. CASE e.emit # "passthrough"
  <2>1. f = [e EXCEPT !.emit = e.emit]
    BY <1>2 DEF Hosted!drop_chunk
  <2>2. f = e
    BY <1>1, <2>1
  <2> QED
    BY <2>2
<1>3. CASE e.emit = "passthrough"
  <2>1. f = [e EXCEPT !.emit = "pending"]
    BY <1>3 DEF Hosted!drop_chunk
  <2> HIDE DEF f
  <2>2. f.out = e.out /\ f.bounds = e.bounds /\ f.emit = "pending"
        /\ f \in [out : Seq(Letters), bounds : Seq(Nat), emit : {"pending", "passthrough", "buffered"}]
    BY <1>1, <2>1
  <2>3. e.out = <<>> /\ e.bounds = <<>> /\ B = e.out \o x /\ x = <<>>
    BY <1>3 DEF Holds, Hosted!Copied
  <2>4. B = <<>>
    BY <1>1, <2>3, Behind
  <2>5. Hosted!Copied(f, x) = B
    BY <2>2, <2>3, <2>4 DEF Hosted!Copied
  <2> QED
    BY <1>1, <2>2, <2>3, <2>5 DEF Holds, f
<1> QED
  BY <1>2, <1>3
(* f[k] is what the spans up to the k-th boundary come to, up to the m-th. *)
Cuttings(f, o, e, m) ==
  f = [k \in 0..m |-> IF k = 0 THEN [start |-> 0, e |-> e]
                      ELSE Hosted!cut(o, f[k - 1], o.bounds[k])]

(* They come to something, up to any of them.                              *)
LEMMA CuttingsExist ==
  ASSUME NEW o, NEW e
  PROVE  \A m \in Nat : \E f : Cuttings(f, o, e, m)
<1> DEFINE S == {m \in Nat : \E f : Cuttings(f, o, e, m)}
<1>1. 0 \in S
  <2> DEFINE f == [k \in 0..0 |-> [start |-> 0, e |-> e]]
  <2>1. \A k \in 0..0 : k = 0
    OBVIOUS
  <2>2. Cuttings(f, o, e, 0)
    BY <2>1 DEF Cuttings
  <2> QED
    BY <2>2
<1>2. ASSUME NEW m \in Nat, m \in S PROVE m + 1 \in S
  <2>1. PICK f : Cuttings(f, o, e, m)
    BY <1>2
  <2> DEFINE g == [k \in 0..(m + 1) |-> IF k <= m THEN f[k] ELSE Hosted!cut(o, f[m], o.bounds[m + 1])]
  <2>2. ASSUME NEW k \in 0..(m + 1)
        PROVE  g[k] = IF k = 0 THEN [start |-> 0, e |-> e] ELSE Hosted!cut(o, g[k - 1], o.bounds[k])
    <3>1. CASE k = 0
      <4>1. f[0] = [start |-> 0, e |-> e]
        BY <2>1 DEF Cuttings
      <4> QED
        BY <3>1, <4>1
    <3>2. CASE k \in 1..m
      <4>1. f[k] = Hosted!cut(o, f[k - 1], o.bounds[k])
        BY <2>1, <3>2 DEF Cuttings
      <4>2. k - 1 \in 0..(m + 1) /\ k - 1 <= m
        BY <3>2
      <4>3. g[k] = f[k] /\ g[k - 1] = f[k - 1] /\ k # 0
        BY <3>2, <4>2
      <4> HIDE DEF g
      <4> QED
        BY <4>1, <4>3
    <3>3. CASE k = m + 1
      <4>1. k - 1 = m /\ m \in 0..(m + 1) /\ ~(k <= m) /\ k # 0
        BY <3>3
      <4>2. g[k] = Hosted!cut(o, f[m], o.bounds[m + 1]) /\ g[m] = f[m]
        BY <3>3, <4>1
      <4> HIDE DEF g
      <4> QED
        BY <3>3, <4>1, <4>2
    <3>4. k = 0 \/ k \in 1..m \/ k = m + 1
      OBVIOUS
    <3> QED
      BY <3>1, <3>2, <3>3, <3>4
  <2>3. g = [k \in 0..(m + 1) |-> g[k]]
    OBVIOUS
  <2> HIDE DEF g
  <2>4. Cuttings(g, o, e, m + 1)
    BY <2>2, <2>3 DEF Cuttings
  <2> QED
    BY <2>4
<1> HIDE DEF S
<1>3. \A m \in Nat : m \in S
  BY <1>1, <1>2, Induct
<1> QED
  BY <1>3 DEF S

(* Cutting is what they come to.                                           *)
LEMMA CuttingIs ==
  ASSUME NEW o, NEW e, Len(o.bounds) \in Nat
  PROVE  \E f : Cuttings(f, o, e, Len(o.bounds)) /\ Hosted!Cutting(o, e) = f[Len(o.bounds)]
<1> DEFINE m    == Len(o.bounds)
           P(f) == f = [k \in 0..m |-> IF k = 0 THEN [start |-> 0, e |-> e]
                                       ELSE Hosted!cut(o, f[k - 1], o.bounds[k])]
           R    == CHOOSE f : P(f)
<1>1. \A f : P(f) <=> Cuttings(f, o, e, m)
  BY DEF Cuttings
<1>2. \E f : P(f)
  BY <1>1, CuttingsExist
<1>3. P(R)
  <2> HIDE DEF P
  <2> QED
    BY <1>2
<1>4. Hosted!Cutting(o, e) = R[m]
  BY DEF Hosted!Cutting
<1> QED
  BY <1>1, <1>3, <1>4

(* The first k boundaries that do not go back.                             *)
KeptTo(o, k) == {o.bounds[i] : i \in {j \in 1..k : \A h \in 1..j : o.bounds[h] <= o.bounds[j]}}

(* Numbers, n further on.                                                  *)
FurtherOn(n, T) == {n + c : c \in T}

(* An outbox whose boundaries lie in its bytes.                            *)
InBytes(o) ==
  /\ o.bytes \in Seq(Letters) /\ o.bounds \in Seq(Nat)
  /\ \A i \in 1..Len(o.bounds) : o.bounds[i] <= Len(o.bytes)

(* What has been cut of it up to the k-th boundary.                        *)
CutSoFar(o, k, acc, x, B, C) ==
  /\ acc.start \in 0..Len(o.bytes)
  /\ \A i \in 1..k : o.bounds[i] <= acc.start
  /\ acc.start = 0 \/ \E i \in 1..k : o.bounds[i] = acc.start
  /\ Holds(acc.e, x, B \o SubSeq(o.bytes, 1, acc.start), C \cup FurtherOn(Len(B), KeptTo(o, k)))

(* The next boundary is kept if it does not go back behind the last.       *)
LEMMA KeptNext ==
  ASSUME NEW o, InBytes(o), NEW k \in Nat, k + 1 <= Len(o.bounds), NEW s \in Nat,
         \A i \in 1..k : o.bounds[i] <= s, s = 0 \/ \E i \in 1..k : o.bounds[i] = s
  PROVE  /\ o.bounds[k + 1] >= s =>
              KeptTo(o, k + 1) = KeptTo(o, k) \cup {o.bounds[k + 1]}
         /\ ~(o.bounds[k + 1] >= s) => KeptTo(o, k + 1) = KeptTo(o, k)
<1> DEFINE b == o.bounds
           K(j) == \A h \in 1..j : b[h] <= b[j]
<1>1. \A i \in 1..(k + 1) : b[i] \in Nat
  BY DEF InBytes
<1>2. \A i \in 1..(k + 1) : i \in 1..k \/ i = k + 1
  OBVIOUS
<1>3. \A i \in 1..k : i \in 1..(k + 1)
  OBVIOUS
<1>4. k + 1 \in 1..(k + 1)
  OBVIOUS
<1>5. K(k + 1) <=> b[k + 1] >= s
  <2>1. CASE b[k + 1] >= s
    <3>1. ASSUME NEW h \in 1..(k + 1) PROVE b[h] <= b[k + 1]
      BY <1>1, <1>2, <1>3, <1>4, <2>1
    <3> QED
      BY <2>1, <3>1
  <2>2. CASE ~(b[k + 1] >= s)
    <3>1. s # 0
      BY <1>1, <1>4, <2>2
    <3>2. PICK i \in 1..k : b[i] = s
      BY <3>1
    <3>3. i \in 1..(k + 1) /\ ~(b[i] <= b[k + 1])
      BY <1>1, <1>3, <1>4, <2>2, <3>2
    <3> QED
      BY <2>2, <3>3
  <2> QED
    BY <2>1, <2>2
<1>6. KeptTo(o, k) = {b[i] : i \in {j \in 1..k : K(j)}}
  BY DEF KeptTo
<1>7. KeptTo(o, k + 1) = {b[i] : i \in {j \in 1..(k + 1) : K(j)}}
  BY DEF KeptTo
<1> HIDE DEF K
<1>8. CASE K(k + 1)
  <2>1. {j \in 1..(k + 1) : K(j)} = {j \in 1..k : K(j)} \cup {k + 1}
    BY <1>2, <1>3, <1>4, <1>8
  <2>2. KeptTo(o, k + 1) = KeptTo(o, k) \cup {b[k + 1]}
    BY <1>6, <1>7, <2>1
  <2> QED
    BY <1>5, <1>8, <2>2
<1>9. CASE ~K(k + 1)
  <2>1. {j \in 1..(k + 1) : K(j)} = {j \in 1..k : K(j)}
    BY <1>2, <1>3, <1>9
  <2> QED
    BY <1>5, <1>6, <1>7, <1>9, <2>1
<1> QED
  BY <1>8, <1>9
(* Kept boundaries are numbers, and one more is one more cut.              *)
LEMMA KeptFurther ==
  ASSUME NEW n \in Nat, NEW T, NEW m \in Nat
  PROVE  FurtherOn(n, T \cup {m}) = FurtherOn(n, T) \cup {n + m}
BY DEF FurtherOn

(* Three pieces laid end to end are laid so from either side.              *)
LEMMA InThree ==
  ASSUME NEW s \in Seq(Letters), NEW t \in Seq(Letters), NEW u \in Seq(Letters)
  PROVE  (s \o t) \o u = s \o (t \o u)
<1> DEFINE S == Letters
<1>1. s \in Seq(S) /\ t \in Seq(S) /\ u \in Seq(S)
  OBVIOUS
<1> HIDE DEF S
<1> QED
  BY <1>1, ConcatAssociative

(* The loop of Wasm::drain, once around.                                   *)
LEMMA CutNext ==
  ASSUME NEW o, InBytes(o), NEW k \in Nat, k + 1 <= Len(o.bounds), NEW acc, NEW B \in Seq(Letters), NEW C,
         CutSoFar(o, k, acc, input, B, C)
  PROVE  CutSoFar(o, k + 1, Hosted!cut(o, acc, o.bounds[k + 1]), input, B, C)
<1> DEFINE end == o.bounds[k + 1]
           s == acc.start
           y == o.bytes
           x == input
           D == C \cup FurtherOn(Len(B), KeptTo(o, k))
<1>1. y \in Seq(Letters) /\ Len(y) \in Nat /\ o.bounds \in Seq(Nat)
      /\ \A i \in 1..Len(o.bounds) : o.bounds[i] <= Len(y)
  <2>1. y \in Seq(Letters) /\ o.bounds \in Seq(Nat)
        /\ \A i \in 1..Len(o.bounds) : o.bounds[i] <= Len(y)
    BY DEF InBytes
  <2> QED
    BY <2>1, NoLetters
<1>2. k + 1 \in 1..Len(o.bounds)
  BY <1>1
<1>3. end \in Nat /\ end <= Len(y)
  BY <1>1, <1>2
<1>4. /\ s \in 0..Len(y) /\ \A i \in 1..k : o.bounds[i] <= s
      /\ s = 0 \/ \E i \in 1..k : o.bounds[i] = s
      /\ Holds(acc.e, x, B \o SubSeq(y, 1, s), D)
  BY DEF CutSoFar
<1>5. s \in Nat
  BY <1>1, <1>4
<1>6. /\ end >= s => KeptTo(o, k + 1) = KeptTo(o, k) \cup {end}
      /\ ~(end >= s) => KeptTo(o, k + 1) = KeptTo(o, k)
  BY <1>4, <1>5, KeptNext
<1>7. \A i \in 1..(k + 1) : i \in 1..k \/ i = k + 1
  OBVIOUS
<1>8. \A i \in 1..k : i \in 1..(k + 1)
  OBVIOUS
<1>9. k + 1 \in 1..(k + 1)
  OBVIOUS
<1> HIDE DEF end, s, y, x, D
<1>10. CASE ~(end >= s)
  <2>1. Hosted!cut(o, acc, end) = acc
    BY <1>10 DEF Hosted!cut, s
  <2>2. \A i \in 1..(k + 1) : o.bounds[i] <= s
    BY <1>3, <1>4, <1>5, <1>7, <1>10 DEF end
  <2>3. s = 0 \/ \E i \in 1..(k + 1) : o.bounds[i] = s
    BY <1>4, <1>8
  <2>4. Holds(acc.e, x, B \o SubSeq(y, 1, s), C \cup FurtherOn(Len(B), KeptTo(o, k + 1)))
    BY <1>4, <1>6, <1>10 DEF D
  <2>5. CutSoFar(o, k + 1, acc, x, B, C)
    BY <1>4, <2>2, <2>3, <2>4 DEF CutSoFar, s, y
  <2> QED
    BY <2>1, <2>5 DEF end, x
<1>11. CASE end >= s
  <2> DEFINE z == SubSeq(y, s + 1, end)
             f == Hosted!forward(acc.e, x, z)
             g == Hosted!boundary(f, x)
             E == B \o SubSeq(y, 1, end)
  <2>1. Hosted!cut(o, acc, end) = [start |-> end, e |-> g]
    BY <1>11 DEF Hosted!cut, s, x, y
  <2>2. end \in s..Len(y)
    BY <1>1, <1>3, <1>5, <1>11
  <2>3. z \in Seq(Letters) /\ SubSeq(y, 1, s) \in Seq(Letters)
        /\ SubSeq(y, 1, s) \o z = SubSeq(y, 1, end)
    BY <1>1, <1>4, <2>2, NextPart
  <2> DEFINE a == SubSeq(y, 1, s)
  <2>4. end \in 0..Len(y) /\ end \in end..Len(y)
    BY <1>1, <1>3
  <2>5. SubSeq(y, 1, end) \in Seq(Letters) /\ Len(SubSeq(y, 1, end)) = end
    BY <1>1, <2>4, NextPart
  <2>6. E \in Seq(Letters) /\ Len(E) = Len(B) + end /\ Len(B) \in Nat
    BY <2>5, Behind
  <2>7. (B \o a) \o z = E
    <3>1. (B \o a) \o z = B \o (a \o z)
      <4>1. a \in Seq(Letters) /\ z \in Seq(Letters)
        BY <2>3
      <4> HIDE DEF a, z
      <4> QED
        BY <4>1, InThree
    <3> QED
      BY <2>3, <3>1
  <2> HIDE DEF a, z, E
  <2>8. Holds(f, x, E, D) /\ f.emit = "buffered"
    <3>1. Holds(acc.e, x, B \o a, D)
      BY <1>4 DEF a
    <3>2. Holds(f, x, (B \o a) \o z, D) /\ f.emit = "buffered"
      BY <2>3, <3>1, ForwardHolds
    <3> QED
      BY <2>7, <3>2
  <2> HIDE DEF f
  <2>9. Holds(g, x, E, D \cup {Len(E)})
    BY <2>8, BoundaryHolds
  <2> HIDE DEF g
  <2>10. D \cup {Len(E)} = C \cup FurtherOn(Len(B), KeptTo(o, k + 1))
    <3>1. FurtherOn(Len(B), KeptTo(o, k + 1)) = FurtherOn(Len(B), KeptTo(o, k)) \cup {Len(B) + end}
      <4>1. FurtherOn(Len(B), KeptTo(o, k) \cup {end})
              = FurtherOn(Len(B), KeptTo(o, k)) \cup {Len(B) + end}
        BY <1>3, <2>6, KeptFurther, Zenon
      <4> QED
        BY <1>6, <1>11, <4>1, Zenon
    <3> QED
      BY <2>6, <3>1 DEF D
  <2> DEFINE new == [start |-> end, e |-> g]
  <2>11. new.start = end /\ new.e = g
    OBVIOUS
  <2> HIDE DEF new
  <2>12. \A i \in 1..(k + 1) : o.bounds[i] <= end
    <3>1. ASSUME NEW i \in 1..(k + 1) PROVE o.bounds[i] <= end
      <4>1. CASE i \in 1..k
        <5>1. i \in 1..Len(o.bounds) /\ o.bounds[i] <= s
          BY <1>1, <1>2, <1>4, <4>1
        <5>2. o.bounds[i] \in Nat
          BY <1>1, <5>1
        <5> QED
          BY <1>3, <1>5, <1>11, <5>1, <5>2
      <4>2. CASE i = k + 1
        BY <1>3, <4>2 DEF end
      <4> QED
        BY <1>7, <4>1, <4>2
    <3> QED
      BY <3>1
  <2>13. \E i \in 1..(k + 1) : o.bounds[i] = end
    BY <1>9 DEF end
  <2>14. Holds(new.e, x, B \o SubSeq(y, 1, new.start), C \cup FurtherOn(Len(B), KeptTo(o, k + 1)))
    BY <2>9, <2>10, <2>11 DEF E
  <2>15. CutSoFar(o, k + 1, new, x, B, C)
    BY <2>4, <2>11, <2>12, <2>13, <2>14 DEF CutSoFar, y
  <2>16. Hosted!cut(o, acc, end) = new
    BY <2>1 DEF new
  <2> QED
    BY <2>15, <2>16 DEF end, x
<1> QED
  BY <1>10, <1>11 DEF end, x

(* The loop of Wasm::drain, all around.                                    *)
LEMMA CutAll ==
  ASSUME NEW o, InBytes(o), NEW e, NEW B \in Seq(Letters), NEW C, Holds(e, input, B, C)
  PROVE  CutSoFar(o, Len(o.bounds), Hosted!Cutting(o, e), input, B, C)
<1> DEFINE m == Len(o.bounds)
<1>1. m \in Nat
  BY NoLetters DEF InBytes
<1>2. PICK f : Cuttings(f, o, e, m) /\ Hosted!Cutting(o, e) = f[m]
  BY <1>1, CuttingIs
<1> HIDE DEF m
<1> DEFINE S == {k \in Nat : k <= m => CutSoFar(o, k, f[k], input, B, C)}
<1>3. 0 \in S
  <2> DEFINE acc == [start |-> 0, e |-> e]
  <2>1. f[0] = acc
    BY <1>1, <1>2 DEF Cuttings
  <2>2. acc.start = 0 /\ acc.e = e
    OBVIOUS
  <2> HIDE DEF acc
  <2>3. o.bytes \in Seq(Letters) /\ Len(o.bytes) \in Nat
    BY NoLetters DEF InBytes
  <2>4. SubSeq(o.bytes, 1, 0) = <<>> /\ B \o <<>> = B
    BY SubSeqEmpty, Behind, <2>3
  <2>5. \A i \in 1..0 : FALSE
    OBVIOUS
  <2>6. KeptTo(o, 0) = {}
    BY <2>5 DEF KeptTo
  <2>7. C \cup FurtherOn(Len(B), KeptTo(o, 0)) = C
    BY <2>6 DEF FurtherOn
  <2>8. 0 \in 0..Len(o.bytes)
    BY <2>3
  <2>9. CutSoFar(o, 0, acc, input, B, C)
    BY <2>2, <2>4, <2>5, <2>7, <2>8 DEF CutSoFar
  <2> QED
    BY <2>1, <2>9
<1>4. ASSUME NEW k \in Nat, k \in S PROVE k + 1 \in S
  <2> SUFFICES ASSUME k + 1 <= m PROVE CutSoFar(o, k + 1, f[k + 1], input, B, C)
    OBVIOUS
  <2>1. CutSoFar(o, k, f[k], input, B, C)
    BY <1>1, <1>4
  <2>2. k + 1 \in 0..m /\ k + 1 # 0 /\ (k + 1) - 1 = k
    BY <1>1
  <2>3. f[k + 1] = Hosted!cut(o, f[k], o.bounds[k + 1])
    <3>1. f[k + 1] = Hosted!cut(o, f[(k + 1) - 1], o.bounds[k + 1])
      BY <1>2, <2>2, Zenon DEF Cuttings
    <3> QED
      BY <2>2, <3>1
  <2> HIDE DEF S
  <2>4. k + 1 <= Len(o.bounds)
    BY DEF m
  <2> QED
    BY <2>1, <2>3, <2>4, CutNext
<1> HIDE DEF S
<1>5. \A k \in Nat : k \in S
  BY <1>3, <1>4, Induct
<1>6. CutSoFar(o, m, f[m], input, B, C)
  BY <1>1, <1>5 DEF S
<1> QED
  BY <1>2, <1>6 DEF m

(* What a guest buffers comes behind what was held, cut where it said.     *)
LEMMA SpansHold ==
  ASSUME NEW o, InBytes(o), NEW e, NEW B \in Seq(Letters), NEW C, Holds(e, input, B, C)
  PROVE  /\ Holds(Hosted!Spans(o, e), input, B \o o.bytes,
                  C \cup FurtherOn(Len(B), Hosted!Kept(o.bounds)))
         /\ Hosted!Spans(o, e).emit = "buffered"
<1> DEFINE acc == Hosted!Cutting(o, e)
           s == acc.start
           y == o.bytes
           D == C \cup FurtherOn(Len(B), KeptTo(o, Len(o.bounds)))
           z == SubSeq(y, s + 1, Len(y))
           a == SubSeq(y, 1, s)
<1>1. y \in Seq(Letters) /\ Len(y) \in Nat /\ o.bounds \in Seq(Nat)
  BY NoLetters DEF InBytes
<1>2. s \in 0..Len(y) /\ Holds(acc.e, input, B \o a, D)
  BY CutAll DEF CutSoFar
<1>3. Hosted!Spans(o, e) = Hosted!forward(acc.e, input, z)
  BY DEF Hosted!Spans
<1> HIDE DEF acc, s, y, D
<1>4. Len(y) \in s..Len(y)
  BY <1>1, <1>2
<1>5. z \in Seq(Letters) /\ a \in Seq(Letters) /\ a \o z = y
  BY <1>1, <1>2, <1>4, NextPart
<1>6. (B \o a) \o z = B \o y
  <2>1. (B \o a) \o z = B \o (a \o z)
    <3> DEFINE S == Letters
    <3>1. B \in Seq(S) /\ a \in Seq(S) /\ z \in Seq(S)
      BY <1>5
    <3> HIDE DEF S, a, z
    <3> QED
      BY <3>1, ConcatAssociative
  <2> QED
    BY <1>5, <2>1
<1> HIDE DEF a, z
<1>7. Holds(Hosted!forward(acc.e, input, z), input, (B \o a) \o z, D)
      /\ Hosted!forward(acc.e, input, z).emit = "buffered"
  BY <1>2, <1>5, ForwardHolds
<1>8. KeptTo(o, Len(o.bounds)) = Hosted!Kept(o.bounds)
  <2>1. DOMAIN o.bounds = 1..Len(o.bounds)
    BY <1>1, LenProperties
  <2> QED
    BY <2>1 DEF KeptTo, Hosted!Kept
<1> QED
  BY <1>3, <1>6, <1>7, <1>8 DEF D, y
(* Numbers that rise within 1..n, n of them, are 1..n in order.            *)
LEMMA Identity ==
  ASSUME NEW n \in Nat, NEW h \in [1..n -> 1..n],
         \A i, j \in 1..n : i < j => h[i] < h[j]
  PROVE  \A i \in 1..n : h[i] = i
<1> DEFINE S == {i \in Nat : i \in 1..n => h[i] >= i}
           T == {k \in Nat : k < n => h[n - k] <= n - k}
<1>1. \A i \in 1..n : h[i] \in 1..n
  OBVIOUS
<1>2. \A i \in Nat : i \in S
  <2>1. 0 \in S
    OBVIOUS
  <2>2. ASSUME NEW i \in Nat, i \in S PROVE i + 1 \in S
    <3> SUFFICES ASSUME i + 1 \in 1..n PROVE h[i + 1] >= i + 1
      OBVIOUS
    <3>1. CASE i = 0
      BY <1>1, <3>1
    <3>2. CASE i # 0
      <4>1. i \in 1..n /\ i < i + 1 /\ h[i] >= i
        BY <2>2, <3>2
      <4>2. h[i] < h[i + 1] /\ h[i] \in 1..n /\ h[i + 1] \in 1..n
        BY <1>1, <4>1
      <4> QED
        BY <4>1, <4>2
    <3> QED
      BY <3>1, <3>2
  <2> HIDE DEF S
  <2> QED
    BY <2>1, <2>2, Induct
<1>3. \A k \in Nat : k \in T
  <2>1. 0 \in T
    <3> SUFFICES ASSUME 0 < n PROVE h[n - 0] <= n - 0
      OBVIOUS
    <3>1. n \in 1..n /\ n - 0 = n
      OBVIOUS
    <3> QED
      BY <1>1, <3>1
  <2>2. ASSUME NEW k \in Nat, k \in T PROVE k + 1 \in T
    <3> SUFFICES ASSUME k + 1 < n PROVE h[n - (k + 1)] <= n - (k + 1)
      OBVIOUS
    <3> DEFINE i == n - (k + 1)
               j == n - k
    <3>1. i \in 1..n /\ j \in 1..n /\ i < j /\ j = i + 1 /\ k < n
      OBVIOUS
    <3>2. h[j] <= j
      BY <2>2, <3>1
    <3> HIDE DEF i, j
    <3>3. h[i] < h[j] /\ h[i] \in 1..n /\ h[j] \in 1..n
      BY <1>1, <3>1
    <3>4. h[i] <= i
      BY <3>1, <3>2, <3>3
    <3> QED
      BY <3>4 DEF i
  <2> HIDE DEF T
  <2> QED
    BY <2>1, <2>2, Induct
<1>4. ASSUME NEW i \in 1..n PROVE h[i] = i
  <2>1. h[i] >= i
    BY <1>2
  <2> DEFINE k == n - i
  <2>2. k \in Nat /\ k < n /\ n - k = i
    OBVIOUS
  <2>3. h[n - k] <= n - k
    BY <1>3, <2>2
  <2> HIDE DEF k
  <2> QED
    BY <1>1, <2>1, <2>2, <2>3
<1> QED
  BY <1>4

(* The first n members of s rise, and every member of T is one of them.    *)
Rises(s, n)     == \A i, j \in 1..n : i < j => s[i] < s[j]
Covers(s, n, T) == \A m \in T : \E i \in 1..n : s[i] = m

(* There is one way to write numbers down as they rise.                    *)
LEMMA OneOrder ==
  ASSUME NEW ends, ends \subseteq Nat, NEW n \in Nat, NEW b \in [1..n -> ends],
         Rises(b, n), Covers(b, n, ends)
  PROVE  /\ Cardinality(ends) = n
         /\ \A s \in [1..n -> ends] : Rises(s, n) => s = b
<1>0. /\ \A i, j \in 1..n : i < j => b[i] < b[j]
      /\ \A m \in ends : \E i \in 1..n : b[i] = m
  BY DEF Rises, Covers
<1>1. \A i \in 1..n : b[i] \in ends /\ b[i] \in Nat
  OBVIOUS
<1>2. \A i, j \in 1..n : b[i] < b[j] => i < j
  <2> TAKE i, j \in 1..n
  <2>1. i < j \/ i = j \/ j < i
    OBVIOUS
  <2>2. j < i => b[j] < b[i]
    BY <1>0
  <2>3. b[i] \in Nat /\ b[j] \in Nat
    BY <1>1
  <2> QED
    BY <2>1, <2>2, <2>3
<1>3. Cardinality(ends) = n
  <2>1. \A i, j \in 1..n : b[i] = b[j] => i = j
    <3> TAKE i, j \in 1..n
    <3>1. i < j \/ i = j \/ j < i
      OBVIOUS
    <3>2. (i < j => b[i] < b[j]) /\ (j < i => b[j] < b[i])
      BY <1>0
    <3>3. b[i] \in Nat /\ b[j] \in Nat
      BY <1>1
    <3> QED
      BY <3>1, <3>2, <3>3
  <2>2. b \in Bijection(1..n, ends)
    BY <1>0, <2>1 DEF Bijection, Injection, Surjection, IsInjective
  <2>3. ExistsBijection(1..n, ends)
    BY <2>2 DEF ExistsBijection
  <2>4. IsFiniteSet(1..n) /\ Cardinality(1..n) = n
    BY FS_Interval
  <2> QED
    BY <2>3, <2>4, FS_Bijection
<1>4. ASSUME NEW s \in [1..n -> ends], Rises(s, n)
      PROVE  s = b
  <2> DEFINE h == [i \in 1..n |-> CHOOSE k \in 1..n : b[k] = s[i]]
  <2>1. \A i \in 1..n : h[i] \in 1..n /\ b[h[i]] = s[i]
    <3> TAKE i \in 1..n
    <3>1. s[i] \in ends
      OBVIOUS
    <3>2. \E k \in 1..n : b[k] = s[i]
      BY <1>0, <3>1
    <3> QED
      BY <3>2
  <2>2. h \in [1..n -> 1..n]
    BY <2>1
  <2> HIDE DEF h
  <2>3. \A i, j \in 1..n : i < j => h[i] < h[j]
    <3> TAKE i, j \in 1..n
    <3> HAVE i < j
    <3>1. b[h[i]] < b[h[j]]
      <4>1. s[i] < s[j]
        BY <1>4 DEF Rises
      <4> QED
        BY <2>1, <4>1
    <3> QED
      BY <1>2, <2>1, <3>1
  <2>4. \A i \in 1..n : h[i] = i
    BY <2>2, <2>3, Identity
  <2>5. \A i \in 1..n : s[i] = b[i]
    BY <2>1, <2>4
  <2> QED
    BY <2>5
<1> QED
  BY <1>3, <1>4
(* The guest's cardinality is everybody's.                                 *)
LEMMA SameCardinality == \A S : Hosted!Cardinality(S) = Cardinality(S)
BY Zenon DEF Hosted!Cardinality, Cardinality

(* Cut where the bounds are, the bytes are the units that were meant.      *)
LEMMA MeantIs ==
  ASSUME NEW b, NEW B \in Seq(Letters), meant.bytes = B,
         CutsAt(b, Len(B), meant.cuts \cup {Len(B)})
  PROVE  Hosted!Meant =
           [i \in 1..Len(b) |-> SubSeq(B, IF i = 1 THEN 1 ELSE b[i - 1] + 1, b[i])]
<1> DEFINE l    == Len(meant.bytes)
           n    == Len(b)
           ends == {c \in meant.cuts \cup {l} : c \in 1..l}
           P(s) == \A i, j \in DOMAIN s : i < j => s[i] < s[j]
           at   == CHOOSE s \in [1..Hosted!Cardinality(ends) -> ends] : P(s)
<1>1. l \in Nat /\ l = Len(B)
  BY NoLetters
<1>2. /\ b \in Seq(Nat) /\ n \in Nat /\ b \in [1..n -> Nat] /\ DOMAIN b = 1..n
      /\ \A i \in 1..n : b[i] \in 1..l
      /\ \A i, j \in 1..n : i < j => b[i] < b[j]
      /\ \A m \in Nat \ {0} : m \in meant.cuts \cup {l} <=> \E i \in 1..n : b[i] = m
  BY <1>1, LenProperties DEF CutsAt
<1>3. ends \subseteq Nat
  BY <1>1
<1>4. \A i \in 1..n : b[i] \in ends
  <2> TAKE i \in 1..n
  <2>1. b[i] \in 1..l /\ b[i] \in Nat \ {0}
    BY <1>1, <1>2
  <2>2. b[i] \in meant.cuts \cup {l}
    BY <1>2, <2>1
  <2> QED
    BY <2>1, <2>2
<1>5. \A m \in ends : \E i \in 1..n : b[i] = m
  <2> TAKE m \in ends
  <2>1. m \in Nat \ {0} /\ m \in meant.cuts \cup {l}
    BY <1>1
  <2> QED
    BY <1>2, <2>1
<1>6. b \in [1..n -> ends]
  BY <1>2, <1>4
<1> HIDE DEF n, ends
<1>7. Rises(b, n) /\ Covers(b, n, ends)
  BY <1>2, <1>5 DEF Rises, Covers
<1>8. ends \subseteq Nat /\ n \in Nat
  BY <1>2, <1>3
<1>9. /\ Hosted!Cardinality(ends) = n
      /\ \A s \in [1..n -> ends] : Rises(s, n) => s = b
  BY <1>6, <1>7, <1>8, OneOrder, SameCardinality, Zenon
<1>10. P(b)
  BY <1>2
<1>11. at \in [1..n -> ends] /\ P(at)
  <2> HIDE DEF P
  <2> QED
    BY <1>6, <1>9, <1>10
<1>12. DOMAIN at = 1..n
  BY <1>11
<1>13. Rises(at, n)
  BY <1>11, <1>12 DEF Rises
<1>14. at = b
  <2> HIDE DEF at
  <2> QED
    BY <1>9, <1>11, <1>13
<1>15. Hosted!Meant =
         [i \in 1..Len(at) |-> SubSeq(meant.bytes, IF i = 1 THEN 1 ELSE at[i - 1] + 1, at[i])]
  BY Zenon DEF Hosted!Meant, ends
<1> HIDE DEF at
<1> QED
  BY <1>14, <1>15

(* Uncut, they are one unit, and none if there are none.                   *)
LEMMA UncutIs ==
  ASSUME NEW B \in Seq(Letters), meant.bytes = B, CutsAt(<<>>, Len(B), meant.cuts)
  PROVE  Hosted!Meant = IF B = <<>> THEN <<>> ELSE <<B>>
<1> DEFINE l == Len(B)
<1>1. l \in Nat /\ (B = <<>> <=> l = 0) /\ Len(<<>>) = 0
  BY NoLetters
<1>2. CASE l = 0
  <2>1. CutsAt(<<>>, l, meant.cuts \cup {l})
    BY <1>1, <1>2, CutsSame
  <2>2. Hosted!Meant = [i \in 1..Len(<<>>) |->
                          SubSeq(B, IF i = 1 THEN 1 ELSE <<>>[i - 1] + 1, <<>>[i])]
    BY <2>1, MeantIs
  <2>3. Hosted!Meant = <<>>
    <3>1. \A i : i \notin 1..Len(<<>>)
      BY <1>1
    <3> QED
      BY <2>2, <3>1
  <2> QED
    BY <1>1, <1>2, <2>3
<1>3. CASE l # 0
  <2> DEFINE b == Append(<<>>, l)
  <2>1. CutsAt(b, l, meant.cuts \cup {l})
    BY <1>1, <1>3, CutsMore
  <2>2. Len(b) = 1 /\ b[1] = l
    BY <1>1
  <2> HIDE DEF b
  <2>3. Hosted!Meant = [i \in 1..Len(b) |-> SubSeq(B, IF i = 1 THEN 1 ELSE b[i - 1] + 1, b[i])]
    BY <2>1, MeantIs
  <2>4. SubSeq(B, 1, l) = B
    BY SubSeqFull
  <2>5. Hosted!Meant = [i \in 1..1 |-> B]
    BY <2>2, <2>3, <2>4
  <2>6. Hosted!Meant = <<B>>
    BY <2>5
  <2> QED
    BY <1>1, <1>3, <2>6
<1> QED
  BY <1>2, <1>3

(* What is handed on of an emission that holds what was meant is just that.*)
LEMMA HandsWhatIsMeant ==
  ASSUME Holds(emission, input, meant.bytes, meant.cuts)
  PROVE  Hosted!Handed = Hosted!Meant
<1> DEFINE e == emission
           B == meant.bytes
           C == meant.cuts
<1>1. /\ e \in [out : Seq(Letters), bounds : Seq(Nat), emit : {"pending", "passthrough", "buffered"}]
      /\ input \in Seq(Letters) /\ B \in Seq(Letters) /\ Hosted!Copied(e, input) = B
      /\ e.emit # "buffered" => e.out = <<>> /\ e.bounds = <<>>
      /\ CutsAt(e.bounds, Len(e.out), C)
  BY DEF Holds
<1>2. Len(B) \in Nat /\ (B = <<>> <=> Len(B) = 0) /\ Len(<<>>) = 0
  BY <1>1, NoLetters
<1> HIDE DEF e, B, C
<1>3. CASE e.emit = "passthrough"
  <2>1. e.out = <<>> /\ e.bounds = <<>> /\ B = e.out \o input
    BY <1>1, <1>3 DEF Hosted!Copied
  <2>2. B = input
    BY <1>1, <2>1, Behind
  <2>3. CutsAt(<<>>, Len(B), C)
    BY <1>1, <1>2, <2>1, CutsStay
  <2>4. Hosted!Meant = IF B = <<>> THEN <<>> ELSE <<B>>
    BY <1>1, <2>3, UncutIs DEF B, C
  <2> QED
    BY <1>3, <2>2, <2>4 DEF Hosted!Handed, e
<1>4. CASE e.emit # "passthrough" /\ e.bounds = <<>>
  <2>1. e.out = B
    BY <1>1, <1>4 DEF Hosted!Copied
  <2>2. CutsAt(<<>>, Len(B), C)
    BY <1>1, <1>4, <2>1
  <2>3. Hosted!Meant = IF B = <<>> THEN <<>> ELSE <<B>>
    BY <1>1, <2>2, UncutIs DEF B, C
  <2>4. Hosted!Handed = Hosted!EmittedUnits(e)
    BY <1>4 DEF Hosted!Handed, Hosted!Framed, e
  <2>5. B = <<>> => Hosted!units(e) = <<>>
    <3>1. Len(e.bounds) = 0 /\ \A i : i \notin 1..0
      BY <1>2, <1>4
    <3> QED
      BY <3>1 DEF Hosted!units
  <2> QED
    BY <1>4, <2>1, <2>3, <2>4, <2>5 DEF Hosted!EmittedUnits, Hosted!Framed
<1>5. CASE e.emit # "passthrough" /\ e.bounds # <<>>
  <2> DEFINE f == Hosted!close(e)
  <2>1. Holds(f, input, B, C \cup {Len(B)}) /\ f.out = e.out /\ e.out = B
    BY <1>5, CloseIs DEF e, B, C
  <2>2. CutsAt(f.bounds, Len(B), C \cup {Len(B)})
    BY <2>1 DEF Holds
  <2> HIDE DEF f
  <2>3. Hosted!Meant =
          [i \in 1..Len(f.bounds) |-> SubSeq(B, IF i = 1 THEN 1 ELSE f.bounds[i - 1] + 1, f.bounds[i])]
    BY <1>1, <2>2, MeantIs DEF B, C
  <2>4. f.bounds # <<>>
    <3>1. Len(e.bounds) # 0 /\ Len(e.bounds) \in Nat
      BY <1>1, <1>5, NoLetters
    <3>2. 1 \in 1..Len(e.bounds)
      BY <3>1
    <3>3. e.bounds[1] \in 1..Len(B)
      BY <1>1, <2>1, <3>2 DEF CutsAt
    <3>4. Len(B) \in Nat \ {0}
      BY <1>2, <3>3
    <3>5. PICK i \in 1..Len(f.bounds) : f.bounds[i] = Len(B)
      BY <2>2, <3>4 DEF CutsAt
    <3> QED
      BY <1>2, <3>5
  <2>5. Hosted!Handed = Hosted!units(f)
    BY <1>5, <2>4 DEF Hosted!Handed, Hosted!Framed, Hosted!EmittedUnits, e, f
  <2> QED
    BY <2>1, <2>3, <2>5 DEF Hosted!units
<1> QED
  BY <1>3, <1>4, <1>5 DEF e
(* A guest writes letters in its outbox, and numbers for boundaries, and   *)
(* emits in a way the host knows or does not.                              *)
LEMMA HookIs ==
  ASSUME NEW word \in Hosted!Words
  PROVE  /\ Hosted!hook(word).bytes \in Seq(Letters)
         /\ Hosted!hook(word).bounds \in Seq(Nat)
         /\ Hosted!hook(word).emit \in {"passthrough", "unknown", "drop", "buffered"}
<1> DEFINE o == Hosted!hook(word)
           E == Hosted!Empty
<1>1. /\ DOMAIN E = {"emit", "bytes", "bounds", "flags", "wild"}
      /\ E.emit = "drop" /\ E.bytes = <<>> /\ E.bounds = <<>>
  BY DEF Hosted!Empty
<1>2. \A f \in DOMAIN E : o[f] = IF f \in DOMAIN word THEN word[f] ELSE E[f]
  BY DEF Hosted!hook
<1> DEFINE Fine(w) ==
             /\ "emit" \in DOMAIN w =>
                  w["emit"] \in {"passthrough", "unknown", "drop", "buffered"}
             /\ "bytes" \in DOMAIN w => w["bytes"] \in Seq(Letters)
             /\ "bounds" \in DOMAIN w => w["bounds"] \in Seq(Nat)
<1>3. <<"s", "t">> \in Seq(Letters) /\ <<>> \in Seq(Letters)
  BY DEF Letters
<1>4. {<<>>, <<1>>, <<0, 1, 2>>, <<2, 1>>, <<3>>} \subseteq Seq(Nat)
  OBVIOUS
<1>5. ASSUME NEW w \in Hosted!Emits PROVE Fine(w)
  <2> DEFINE y == <<"s", "t">>
             R == {<<>>, <<1>>, <<0, 1, 2>>, <<2, 1>>, <<3>>}
  <2>1. Hosted!Emits =
          {[emit |-> "passthrough"], [emit |-> "unknown"], [emit |-> "drop"],
           [emit |-> "buffered", bytes |-> y, wild |-> "bytes"]}
            \cup [emit : {"buffered"}, bytes : {y}, bounds : R]
    BY Zenon DEF Hosted!Emits
  <2>2. y \in Seq(Letters) /\ R \subseteq Seq(Nat)
    BY <1>3, <1>4
  <2> HIDE DEF y, R
  <2>3. CASE w \in {[emit |-> "passthrough"], [emit |-> "unknown"], [emit |-> "drop"]}
    BY <2>3
  <2>4. CASE w = [emit |-> "buffered", bytes |-> y, wild |-> "bytes"]
    BY <2>2, <2>4
  <2>5. CASE w \in [emit : {"buffered"}, bytes : {y}, bounds : R]
    BY <2>2, <2>5
  <2> QED
    BY <2>1, <2>3, <2>4, <2>5
<1>6. ASSUME NEW w \in Hosted!Asks PROVE Fine(w) /\ "bytes" \notin DOMAIN w /\ "bounds" \notin DOMAIN w
  BY DEF Hosted!Asks
<1>7. ASSUME NEW a \in Hosted!Asks,
             NEW w, w = [f \in {"emit"} \cup DOMAIN a |-> IF f = "emit" THEN "passthrough" ELSE a[f]]
      PROVE  Fine(w)
  <2>1. "bytes" \notin DOMAIN a /\ "bounds" \notin DOMAIN a
    BY <1>6
  <2>2. DOMAIN w = {"emit"} \cup DOMAIN a /\ w["emit"] = "passthrough"
    BY <1>7
  <2> QED
    BY <2>1, <2>2
<1> HIDE DEF Fine
<1>8. Fine(word)
  BY <1>5, <1>6, <1>7 DEF Hosted!Words
<1> HIDE DEF o, E
<1> QED
  BY <1>1, <1>2, <1>3, <1>4, <1>8 DEF Fine, o

(* The host holds what the guest has said in its call, and was asked what  *)
(* the guest asks for.                                                     *)
Agrees ==
  /\ Holds(emission, input, meant.bytes, meant.cuts)
  /\ effects = meant.flags /\ meant.verbatim \in BOOLEAN
  /\ emission.emit = "passthrough" => meant.verbatim

(* A hook is called, and what it said is taken.                            *)
LEMMA CallAgrees ==
  ASSUME Agrees, emission.emit # "passthrough" \/ input = <<>>, input' = input,
         NEW next, next # "failed", Hosted!Calls(next), phase' = next
  PROVE  Agrees' /\ (meant.verbatim => meant'.verbatim)
<1>1. PICK word \in Hosted!Words, cost \in Costs :
        Hosted!drain(Hosted!hook(word), Hosted!set_fuel - cost, next) /\ Hosted!Says(Hosted!hook(word))
  BY DEF Hosted!Calls, Hosted!Traps
<1> DEFINE o == Hosted!hook(word)
           e == emission
           B == meant.bytes
           C == meant.cuts
<1>2. /\ o.bytes \in Seq(Letters) /\ o.bounds \in Seq(Nat)
      /\ o.emit \in {"passthrough", "unknown", "drop", "buffered"}
  BY HookIs
<1> HIDE DEF o
<1>3. /\ ~Hosted!Fails(o) /\ emission' = Hosted!Applied(o, e)
      /\ effects' = effects \cup o.flags
  BY <1>1 DEF Hosted!drain, o
<1>4. /\ meant'.bytes = B \o (IF o.emit = "passthrough" THEN input
                              ELSE IF o.emit = "buffered" THEN o.bytes ELSE <<>>)
      /\ meant'.cuts = C \cup (IF o.emit = "buffered"
                               THEN FurtherOn(Len(B), Hosted!Kept(o.bounds)) ELSE {})
      /\ meant'.verbatim = (meant.verbatim \/ o.emit = "passthrough")
      /\ meant'.flags = meant.flags \cup o.flags
  BY <1>1 DEF Hosted!Says, FurtherOn, o
<1>5. Holds(e, input, B, C) /\ effects = meant.flags /\ meant.verbatim \in BOOLEAN
      /\ (e.emit = "passthrough" => meant.verbatim) /\ (e.emit # "passthrough" \/ input = <<>>)
  BY DEF Agrees
<1>6. B \in Seq(Letters) /\ B \o <<>> = B
  BY <1>5, Behind DEF Holds
<1> HIDE DEF e, B, C
<1>7. effects' = meant'.flags /\ meant'.verbatim \in BOOLEAN /\ (meant.verbatim => meant'.verbatim)
  BY <1>3, <1>4, <1>5
<1>8. CASE o.emit = "passthrough"
  <2>1. emission' = Hosted!pass_through(e, input)
    BY <1>3, <1>8 DEF Hosted!Applied
  <2>2. Holds(emission', input, B \o input, C)
    BY <1>5, <2>1, PassHolds
  <2>3. meant'.bytes = B \o input /\ meant'.cuts = C /\ meant'.verbatim
    BY <1>4, <1>8
  <2> QED
    BY <1>7, <2>2, <2>3 DEF Agrees
<1>9. CASE o.emit = "drop"
  <2>1. emission' = Hosted!drop_chunk(e)
    BY <1>3, <1>9 DEF Hosted!Applied
  <2>2. Holds(emission', input, B, C)
    BY <1>5, <2>1, DropHolds
  <2>3. emission'.emit # "passthrough"
    <3>1. e.emit \in {"pending", "passthrough", "buffered"} /\ e = [e EXCEPT !.emit = e.emit]
      BY <1>5 DEF Holds
    <3> QED
      BY <1>5, <2>1, <3>1 DEF Hosted!drop_chunk, Holds
  <2>4. meant'.bytes = B /\ meant'.cuts = C
    BY <1>4, <1>6, <1>9
  <2> QED
    BY <1>7, <2>2, <2>3, <2>4 DEF Agrees
<1>10. CASE o.emit = "buffered"
  <2>1. emission' = Hosted!Spans(o, e)
    BY <1>3, <1>10 DEF Hosted!Applied
  <2>2. InBytes(o)
    <3>1. \A b \in Hosted!Range(o.bounds) : ~(b > Len(o.bytes))
      BY <1>3, <1>10 DEF Hosted!Fails
    <3>2. \A i \in 1..Len(o.bounds) : o.bounds[i] \in Hosted!Range(o.bounds) /\ o.bounds[i] \in Nat
      BY <1>2 DEF Hosted!Range
    <3>3. Len(o.bytes) \in Nat
      BY <1>2, NoLetters
    <3>4. \A i \in 1..Len(o.bounds) : o.bounds[i] <= Len(o.bytes)
      BY <3>1, <3>2, <3>3
    <3> QED
      BY <1>2, <3>4 DEF InBytes
  <2>3. Holds(emission', input, B \o o.bytes, C \cup FurtherOn(Len(B), Hosted!Kept(o.bounds)))
        /\ emission'.emit = "buffered"
    BY <1>5, <1>6, <2>1, <2>2, SpansHold
  <2>4. /\ meant'.bytes = B \o o.bytes
        /\ meant'.cuts = C \cup FurtherOn(Len(B), Hosted!Kept(o.bounds))
    BY <1>4, <1>10
  <2> QED
    BY <1>7, <2>3, <2>4 DEF Agrees
<1>11. o.emit # "unknown"
  BY <1>3 DEF Hosted!Fails
<1> QED
  BY <1>2, <1>8, <1>9, <1>10, <1>11
(* Before its first call and behind every call the guest is heard as it    *)
(* said it; between two, what it passed through may yet be taken back, so  *)
(* of the second no more is known than HeardAsSaid says.                   *)
HeardIInv ==
  /\ input \in Seq(Letters)
  /\ phase \in {"loading", "ready", "bytes", "tick", "flush", "eof"} => Agrees
  /\ phase \in {"bytes", "tick", "flush"} => ~meant.verbatim
  /\ phase = "ended" /\ Hosted!Exports("tocat_on_eof") /\ (input = <<>> \/ ~meant.verbatim) => Agrees

(* Nothing is held of a call that has yet to be made, and nothing meant.   *)
LEMMA FreshHolds == ASSUME NEW x \in Seq(Letters) PROVE Holds(Hosted!Fresh, x, <<>>, {})
<1> DEFINE e == Hosted!Fresh
<1>1. e.out = <<>> /\ e.bounds = <<>> /\ e.emit = "pending"
      /\ e \in [out : Seq(Letters), bounds : Seq(Nat), emit : {"pending", "passthrough", "buffered"}]
  BY DEF Hosted!Fresh
<1> HIDE DEF e
<1>2. Hosted!Copied(e, x) = <<>>
  BY <1>1 DEF Hosted!Copied
<1>3. CutsAt(<<>>, Len(<<>>), {})
  BY NoLetters DEF CutsAt
<1>4. <<>> \in Seq(Letters)
  OBVIOUS
<1> QED
  BY <1>1, <1>2, <1>3, <1>4 DEF Holds, e

(* It is what a stage starts with.                                         *)
LEMMA FreshAgrees ==
  ASSUME input \in Seq(Letters), emission = Hosted!Fresh, effects = {},
         meant = [bytes |-> <<>>, cuts |-> {}, verbatim |-> FALSE, flags |-> {}]
  PROVE  Agrees /\ ~meant.verbatim
<1>1. meant.bytes = <<>> /\ meant.cuts = {} /\ meant.verbatim = FALSE /\ meant.flags = {}
  OBVIOUS
<1>2. emission.emit = "pending"
  BY DEF Hosted!Fresh
<1>3. Holds(emission, input, <<>>, {})
  BY FreshHolds
<1> QED
  BY <1>1, <1>2, <1>3 DEF Agrees

(* Where a call of the host begins.                                        *)
LEMMA RunHears ==
  ASSUME NEW call, call \in {"bytes", "tick", "flush", "eof"}, NEW chunk \in Seq(Letters),
         Hosted!run(call, chunk)
  PROVE  HeardIInv'
<1>1. /\ phase' = call /\ input' = chunk /\ emission' = Hosted!Fresh /\ effects' = {}
      /\ meant' = [bytes |-> <<>>, cuts |-> {}, verbatim |-> FALSE, flags |-> {}]
  BY DEF Hosted!run
<1>2. input' \in Seq(Letters)
  BY <1>1
<1>3. Agrees' /\ ~meant'.verbatim
  <2>1. /\ meant'.bytes = <<>> /\ meant'.cuts = {} /\ meant'.verbatim = FALSE /\ meant'.flags = {}
        /\ emission'.emit = "pending"
    BY <1>1 DEF Hosted!Fresh
  <2>2. Holds(emission', input', <<>>, {})
    BY <1>1, <1>2, FreshHolds
  <2> QED
    BY <1>1, <2>1, <2>2 DEF Agrees
<1> QED
  BY <1>1, <1>2, <1>3 DEF HeardIInv

(* A call that fails is not heard.                                         *)
LEMMA FailsHears ==
  ASSUME HeardIInv, phase' \in {"failed", "refused"}, input' = input
  PROVE  HeardIInv'
BY DEF HeardIInv

(* Every step of the host and of the guest keeps it.                       *)
LEMMA HeardStep ==
  GuestIInv /\ HeardIInv /\ [StagesNext]_<<part, vars, meterVars, channelVars, guestVars>>
    => HeardIInv'
<1> SUFFICES ASSUME GuestIInv, HeardIInv,
                    [StagesNext]_<<part, vars, meterVars, channelVars, guestVars>>
             PROVE  HeardIInv'
  OBVIOUS
<1>1. CASE UNCHANGED guestVars
  <2>1. UNCHANGED <<guest, phase, input, emission, effects, meant>>
    BY <1>1 DEF guestVars
  <2>2. Agrees' = Agrees
    BY <2>1 DEF Agrees
  <2>3. Hosted!Exports("tocat_on_eof")' = Hosted!Exports("tocat_on_eof")
    BY <2>1 DEF Hosted!Exports
  <2> QED
    BY <2>1, <2>2, <2>3 DEF HeardIInv
<1>2. CASE Hosted!Next
  <2>0. input \in Seq(Letters)
    BY DEF HeardIInv
  <2>1. CASE Hosted!Builds
    <3>1. /\ phase = "loading" /\ phase' \in {"ready", "refused"}
          /\ UNCHANGED <<input, emission, effects, meant>>
      BY <2>1 DEF Hosted!Builds
    <3>2. Agrees
      BY <3>1 DEF HeardIInv
    <3>3. Agrees'
      BY <3>1, <3>2 DEF Agrees
    <3> QED
      BY <2>0, <3>1, <3>3 DEF HeardIInv
  <2>2. ASSUME NEW chunk \in Hosted!Chunks, Hosted!Process(chunk) PROVE HeardIInv'
    <3>1. chunk \in Seq(Letters)
      <4>1. CASE chunk = <<"i">>
        BY <4>1 DEF Letters
      <4>2. CASE chunk = [i \in 1..(Arena + 1) |-> "i"]
        <5>1. Arena + 1 \in Nat
          BY StagesAssumption
        <5>2. chunk \in [1..(Arena + 1) -> Letters]
          BY <4>2 DEF Letters
        <5> QED
          BY <5>1, <5>2
      <4> QED
        BY <4>1, <4>2 DEF Hosted!Chunks
    <3> QED
      BY <2>2, <3>1, RunHears DEF Hosted!Process
  <2>3. CASE Hosted!Tick
    <3>1. <<>> \in Seq(Letters)
      OBVIOUS
    <3> QED
      BY <2>3, <3>1, RunHears DEF Hosted!Tick
  <2>4. CASE Hosted!Finish
    <3>1. <<>> \in Seq(Letters)
      OBVIOUS
    <3> QED
      BY <2>4, <3>1, RunHears DEF Hosted!Finish
  <2>5. CASE Hosted!HandsLast
    <3>1. <<"i">> \in Seq(Letters)
      BY DEF Letters
    <3> QED
      BY <2>5, <3>1, RunHears DEF Hosted!HandsLast
  <2>6. CASE Hosted!on_bytes
    <3>1. phase \in {"bytes", "flush"} /\ input' = input
      BY <2>6 DEF Hosted!on_bytes
    <3>2. Agrees /\ ~meant.verbatim /\ emission.emit # "passthrough"
      BY <3>1 DEF HeardIInv, Agrees
    <3> DEFINE next == IF phase = "bytes" THEN "ready" ELSE "eof"
    <3>3. phase' = "failed" \/ Hosted!Calls(next)
      BY <2>6 DEF Hosted!on_bytes, Hosted!Traps
    <3>4. phase' \in {next, "failed"}
      BY <3>3, CallsAndGoesOn
    <3>5. next \in {"ready", "eof"}
      OBVIOUS
    <3> HIDE DEF next
    <3>6. CASE phase' = "failed"
      BY <3>1, <3>6, FailsHears
    <3>7. CASE phase' # "failed"
      <4>1. phase' = next /\ Hosted!Calls(next) /\ next # "failed"
        BY <3>3, <3>4, <3>5, <3>7
      <4>2. Agrees'
        BY <3>1, <3>2, <4>1, CallAgrees
      <4> QED
        BY <2>0, <3>1, <3>5, <4>1, <4>2 DEF HeardIInv
    <3> QED
      BY <3>6, <3>7
  <2>7. CASE Hosted!on_tick
    <3>1. phase = "tick" /\ input' = input
      BY <2>7 DEF Hosted!on_tick
    <3>2. Agrees /\ ~meant.verbatim /\ emission.emit # "passthrough"
      BY <3>1 DEF HeardIInv, Agrees
    <3>3. Hosted!Exports("tocat_on_tick")
      BY <3>1 DEF GuestIInv, Hosted!LoadedAsBuilt
    <3>4. Hosted!Calls("ready")
      BY <2>7, <3>3 DEF Hosted!on_tick
    <3>5. phase' \in {"ready", "failed"}
      BY <3>4, CallsAndGoesOn
    <3>6. CASE phase' = "failed"
      BY <3>1, <3>6, FailsHears
    <3>7. CASE phase' = "ready"
      <4>1. Agrees'
        BY <3>1, <3>2, <3>4, <3>7, CallAgrees
      <4> QED
        BY <2>0, <3>1, <3>7, <4>1 DEF HeardIInv
    <3> QED
      BY <3>5, <3>6, <3>7
  <2>8. CASE Hosted!on_eof
    <3>1. phase = "eof" /\ input' = input /\ guest' = guest
      BY <2>8 DEF Hosted!on_eof
    <3>2. Agrees
      BY <3>1 DEF HeardIInv
    <3>3. Hosted!Exports("tocat_on_eof")' = Hosted!Exports("tocat_on_eof")
      BY <3>1 DEF Hosted!Exports
    <3>4. phase' \in {"ended", "failed"}
      BY <2>8, CallsAndGoesOn DEF Hosted!on_eof
    <3>5. CASE phase' = "failed"
      BY <3>1, <3>5, FailsHears
    <3>6. CASE phase' = "ended" /\ ~Hosted!Exports("tocat_on_eof")
      BY <2>0, <3>1, <3>3, <3>6 DEF HeardIInv
    <3>7. CASE phase' = "ended" /\ Hosted!Exports("tocat_on_eof")
      <4>1. Hosted!Calls("ended")
        BY <2>8, <3>7 DEF Hosted!on_eof
      <4>2. CASE emission.emit # "passthrough" \/ input = <<>>
        <5>1. Agrees'
          BY <3>1, <3>2, <3>7, <4>1, <4>2, CallAgrees
        <5> QED
          BY <2>0, <3>1, <3>7, <5>1 DEF HeardIInv
      <4>3. CASE ~(emission.emit # "passthrough" \/ input = <<>>)
        <5>1. meant.verbatim /\ input # <<>>
          BY <3>2, <4>3 DEF Agrees
        <5>2. PICK word \in Hosted!Words : Hosted!Says(Hosted!hook(word))
          BY <3>7, <4>1 DEF Hosted!Calls, Hosted!Traps
        <5> DEFINE o == Hosted!hook(word)
        <5>3. meant'.verbatim = (meant.verbatim \/ o.emit = "passthrough")
          BY <5>2 DEF Hosted!Says, o
        <5> HIDE DEF o
        <5>4. meant'.verbatim
          BY <5>1, <5>3
        <5> QED
          BY <2>0, <3>1, <3>7, <5>1, <5>4 DEF HeardIInv
      <4> QED
        BY <4>2, <4>3
    <3> QED
      BY <3>4, <3>5, <3>6, <3>7
  <2> QED
    BY <1>2, <2>1, <2>2, <2>3, <2>4, <2>5, <2>6, <2>7, <2>8 DEF Hosted!Next
<1>3. Hosted!Next \/ UNCHANGED guestVars
  BY DEF StagesNext
<1> QED
  BY <1>1, <1>2, <1>3

(* "After every call the host reads a fixed-layout struct at tocat_outbox()*)
(* and applies it" (Wasm::drain of wasm.rs): what is handed on, and what is*)
(* asked of the host, is what the guest said in the call, once and in the  *)
(* units it cut, whatever budget its calls have and whatever they cost; it *)
(* was loaded as it was built.                                             *)
THEOREM GuestsHeard == StagesSpec => []GuestsAreHeard
<1>1. StagesInit => GuestIInv
  BY DEF StagesInit, Hosted!Init, GuestIInv, Hosted!LoadedAsBuilt
<1>2. StagesInit => HeardIInv
  <2> SUFFICES ASSUME StagesInit PROVE HeardIInv
    OBVIOUS
  <2>1. /\ phase = "loading" /\ input = <<>> /\ emission = Hosted!Fresh /\ effects = {}
        /\ meant = [bytes |-> <<>>, cuts |-> {}, verbatim |-> FALSE, flags |-> {}]
    BY DEF StagesInit, Hosted!Init
  <2>2. input \in Seq(Letters)
    BY <2>1
  <2> QED
    BY <2>1, <2>2, FreshAgrees DEF HeardIInv
<1>3. GuestIInv /\ HeardIInv => GuestsAreHeard
  <2> SUFFICES ASSUME GuestIInv, HeardIInv PROVE GuestsAreHeard
    OBVIOUS
  <2>1. Hosted!LoadedAsBuilt
    BY DEF GuestIInv
  <2>2. ASSUME Agrees PROVE Hosted!Handed = Hosted!Meant /\ effects = meant.flags
    BY <2>2, HandsWhatIsMeant DEF Agrees
  <2>3. Hosted!HeardAsSaid
    BY <2>2 DEF Hosted!HeardAsSaid, HeardIInv
  <2> QED
    BY <2>1, <2>3 DEF GuestsAreHeard
<1> QED
  BY <1>1, <1>2, <1>3, GuestStep, HeardStep, PTL DEF StagesSpec
=============================================================================

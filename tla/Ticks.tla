------------------------------- MODULE Ticks -------------------------------
(***************************************************************************)
(* Time in a segment: the schedules of crates/tocat-api/src/pipeline.rs    *)
(* (due, rearm, tick) under the one timer of run_pipeline and drive_ticks  *)
(* (crates/tocat-core/src/pump.rs), for a segment with the two stages that *)
(* lean on it, `timeout` above `block` (crates/tocat-plugins/src).         *)
(*                                                                         *)
(* The timer wakes the segment at a fixed cadence, the shortest period any *)
(* stage asked for; a stage whose deadline lies between two wakeups is     *)
(* served at the second.  Times are counted from the present, so that the  *)
(* state is finite: nextIn[s] <= 0 is a deadline that has passed.          *)
(***************************************************************************)
EXTENDS Integers

CONSTANTS
  Flush,   (* of block: its period                                         *)
  Size,    (* of block: units of a full one                                *)
  Step,    (* of timeout: its period, a fraction of the window             *)
  Limit    (* of timeout: idle ticks that make up the window               *)

ASSUME TicksAssumption ==
  /\ Flush \in Nat \ {0} /\ Size \in Nat \ {0}
  /\ Step \in Nat \ {0} /\ Limit \in Nat \ {0}

Stages == {"timeout", "block"}
period == [s \in Stages |-> IF s = "block" THEN Flush ELSE Step]

(* Pipeline::tick_interval.                                                *)
tick_interval == IF Flush < Step THEN Flush ELSE Step

Window  == Step * Limit
Longest == Window + Flush + Step

VARIABLES
  wakeIn,   (* until the segment's timer fires                             *)
  nextIn,   (* until each stage is owed a tick                             *)
  fill,     (* units block holds                                           *)
  heldFor,  (* age of the first of them                                    *)
  idle,     (* ticks timeout has counted                                   *)
  quietFor, (* age of the last chunk, or of the path                       *)
  busy,     (* the segment awaits a write                                  *)
  won,      (* a read has won the race against the timer that is due       *)
  slow,     (* "held", "quiet": whose tick was kept waiting since its count
               began, by a write or by reads that won                      *)
  ended     (* timeout has halted the path                                 *)

clocks == <<wakeIn, nextIn, heldFor, quietFor, slow>>
vars   == <<wakeIn, nextIn, fill, heldFor, idle, quietFor, busy, won, slow, ended>>

Init ==
  /\ wakeIn = 0 /\ nextIn = period
  /\ fill = 0 /\ heldFor = 0 /\ idle = 0 /\ quietFor = 0
  /\ busy = FALSE /\ won = FALSE /\ slow = {} /\ ended = FALSE

Least(a, b) == IF a < b THEN a ELSE b

(* Ages are counted up to Longest, and lateness down to a whole period,    *)
(* past which it makes no difference.                                      *)
Older(age) == Least(age + 1, Longest)

(* Time passes while the segment waits for something.  A timer that is due *)
(* is served at once, unless the segment is writing or chunks stand ready: *)
(* the select is biased and takes its input first.                         *)
Pass ==
  /\ ~ended
  /\ busy \/ won \/ wakeIn > 0
  /\ wakeIn' = IF wakeIn > 0 THEN wakeIn - 1 ELSE 0
  /\ nextIn' = [s \in Stages |-> IF nextIn[s] > -period[s] THEN nextIn[s] - 1 ELSE nextIn[s]]
  /\ heldFor' = IF fill > 0 THEN Older(heldFor) ELSE 0
  /\ quietFor' = Older(quietFor)
  /\ slow' = IF busy THEN {"held", "quiet"} ELSE IF won THEN slow \cup {"held"} ELSE slow
  /\ won' = FALSE
  /\ UNCHANGED <<fill, idle, busy, ended>>

WriteDone ==
  /\ busy /\ busy' = FALSE
  /\ UNCHANGED <<clocks, fill, idle, won, ended>>

(* Pipeline::rearm of a set of stages.                                     *)
Rearmed(S) == [s \in Stages |-> IF s \in S THEN period[s] ELSE nextIn[s]]

(* A block starts filling when bytes arrive with nothing in hand, at the   *)
(* start of a chunk or after a full block has gone out.                    *)
StartsFilling(n) == fill = 0 \/ fill + n > Size

(* A chunk of n units goes through both stages; block rearms as it starts  *)
(* to fill, timeout with every chunk.  If the timer was due, it waits.     *)
Arrives(n, rearming) ==
  /\ ~ended /\ ~busy
  /\ idle' = 0 /\ quietFor' = 0
  /\ fill' = (fill + n) % Size
  /\ heldFor' = IF StartsFilling(n) THEN 0 ELSE heldFor
  /\ nextIn' = Rearmed(rearming)
  /\ slow' = slow \ (IF StartsFilling(n) THEN {"held", "quiet"} ELSE {"quiet"})
  /\ busy' \in (IF fill + n >= Size THEN BOOLEAN ELSE {FALSE})
  /\ won' = (wakeIn = 0)
  /\ UNCHANGED <<wakeIn, ended>>

Chunk(n) == Arrives(n, {"timeout"} \cup (IF StartsFilling(n) THEN {"block"} ELSE {}))

Due == {s \in Stages : nextIn[s] <= 0}

(* Mutant: a deadline that was slept through is not moved past the present.*)
AdvancedOnce(s) == IF s \in Due THEN nextIn[s] + period[s] ELSE nextIn[s]

(* Pipeline::due: the next deadline from the last, or from now if periods  *)
(* were slept through.                                                     *)
Advanced(s) ==
  IF s \notin Due THEN nextIn[s]
  ELSE IF nextIn[s] + period[s] > 0 THEN nextIn[s] + period[s] ELSE period[s]

(* Timeout::on_tick.                                                       *)
Halts == "timeout" \in Due /\ idle + 1 >= Limit

(* drive_ticks: every due stage has its turn, measured against one now.    *)
(* The timer counts from when it fired (MissedTickBehavior::Delay).  A     *)
(* halt ends the path, and block hands over what it holds.                 *)
Wake ==
  /\ ~ended /\ ~busy /\ wakeIn <= 0
  /\ wakeIn' = tick_interval
  /\ nextIn' = [s \in Stages |-> Advanced(s)]
  /\ idle' = IF "timeout" \in Due THEN idle + 1 ELSE idle
  /\ ended' = Halts
  /\ fill' = IF "block" \in Due \/ Halts THEN 0 ELSE fill
  /\ busy' \in (IF "block" \in Due /\ fill > 0 THEN BOOLEAN ELSE {FALSE})
  /\ won' = FALSE
  /\ UNCHANGED <<heldFor, quietFor, slow>>

Next == Pass \/ WriteDone \/ Wake \/ \E n \in 1..(2 * Size) : Chunk(n)

Spec == Init /\ [][Next]_vars

-----------------------------------------------------------------------------
TypeOK ==
  /\ wakeIn \in 0..tick_interval
  /\ nextIn \in [Stages -> Int]
  /\ \A s \in Stages : nextIn[s] \in (-period[s])..period[s]
  /\ fill \in 0..(Size - 1) /\ heldFor \in 0..Longest
  /\ idle \in 0..Limit /\ quietFor \in 0..Longest
  /\ busy \in BOOLEAN /\ won \in BOOLEAN /\ slow \subseteq {"held", "quiet"} /\ ended \in BOOLEAN

(* A stage that has been served is owed nothing more at that instant: time *)
(* slept through is not made up by a burst of ticks (run_pipeline).        *)
NoBurst == \A s \in Stages : nextIn'[s] > 0

(* A short block goes out on a tick only when it has waited its interval:  *)
(* rearm makes the period "an interval since you asked" (Ctx::rearm).      *)
NeverFlushedEarly == ~Halts /\ fill > 0 /\ fill' = 0 => heldFor >= Flush

(* And at the latest one wakeup after that, unless a write, or reads that  *)
(* won the race against the timer, held the tick up meanwhile: under a     *)
(* stream that always has a chunk ready a short block waits until it is    *)
(* full.                                                                   *)
FlushedInTime == fill > 0 /\ "held" \notin slow => heldFor < Flush + tick_interval

(* The timeout "lands within a quarter of the timeout of where it was      *)
(* asked for, and never early" (timeout.md): never before the whole window *)
(* has gone by without a chunk ...                                         *)
NeverHaltedEarly == ended => quietFor >= Window

(* ... and within one tick of it, unless a write held the segment up.      *)
(* Reads that win do not: the window counts from the last of them.         *)
HaltedInTime == "quiet" \notin slow => quietFor < Window + Step

(* Both stages are served in time and never early, on a clock of its types.*)
InTime == TypeOK /\ FlushedInTime /\ HaltedInTime /\ NeverHaltedEarly

(* And a wakeup serves what is due, when it is due, and once.              *)
OnSchedule == [][InTime' /\ (Wake => NoBurst /\ NeverFlushedEarly)]_vars
=============================================================================

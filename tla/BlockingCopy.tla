---------------------------- MODULE BlockingCopy ----------------------------
(***************************************************************************)
(* The copy between two blocking endpoints with no stage declared:         *)
(* Relay::run_sync and copy_sync of crates/tocat-core/src/relay.rs, as     *)
(* Relay::dispatch races them against the signal, and the teardown of main *)
(* (crates/tocat-cli/src/main.rs).                                         *)
(*                                                                         *)
(* Each direction is a thread of the blocking pool.  A thread cannot be    *)
(* cancelled: it looks at the signal between chunks, and one that is stuck *)
(* in a read is left behind.                                               *)
(***************************************************************************)
EXTENDS Naturals, Sequences

CONSTANT MaxChunks   (* bound: chunks a direction carries                  *)

Dirs == {"forward", "reverse"}

(* run_sync spawns and joins them in this order.                           *)
Order == <<"forward", "reverse">>

VARIABLES
  exists,    (* the directions that have a reader and a writer             *)
  signal,    (* the shutdown watch has been triggered                      *)
  thread,    (* "looking" at the signal, "reading", "writing" a chunk,     *)
             (* "flushing", "ok", "err", or "killed" by the teardown       *)
  taken,     (* chunks each direction has read                             *)
  given,     (* chunks it has written                                      *)
  late,      (* history: chunks it has read since the signal               *)
  joined,    (* of run_sync: tasks joined                                  *)
  copyResult (* of dispatch: "running", "ok", "err" or "interrupted"       *)

vars == <<exists, signal, thread, taken, given, late, joined, copyResult>>

Init ==
  /\ exists \in SUBSET Dirs /\ signal = FALSE
  /\ thread = [d \in Dirs |-> IF d \in exists THEN "looking" ELSE "ok"]
  /\ taken = [d \in Dirs |-> 0] /\ given = [d \in Dirs |-> 0]
  /\ late = [d \in Dirs |-> 0]
  /\ joined = 0 /\ copyResult = "running"

Drain ==
  /\ ~signal /\ signal' = TRUE
  /\ UNCHANGED <<exists, thread, taken, given, late, joined, copyResult>>

-----------------------------------------------------------------------------
(* copy_sync.                                                              *)

Goes(d, from, to) ==
  /\ thread[d] = from
  /\ thread' = [thread EXCEPT ![d] = to]
  /\ UNCHANGED <<exists, signal, joined, copyResult>>

Looks(d) ==
  /\ Goes(d, "looking", IF signal THEN "flushing" ELSE "reading")
  /\ UNCHANGED <<taken, given, late>>

Reads(d) ==
  /\ taken[d] < MaxChunks
  /\ Goes(d, "reading", "writing")
  /\ taken' = [taken EXCEPT ![d] = @ + 1]
  /\ late' = [late EXCEPT ![d] = IF signal THEN @ + 1 ELSE 0]
  /\ UNCHANGED given

ReadsEof(d) == Goes(d, "reading", "flushing") /\ UNCHANGED <<taken, given, late>>

Writes(d) ==
  /\ Goes(d, "writing", "looking")
  /\ given' = [given EXCEPT ![d] = @ + 1]
  /\ UNCHANGED <<taken, late>>

Flushes(d) == Goes(d, "flushing", "ok") /\ UNCHANGED <<taken, given, late>>

(* A read, a write or the flush fails.                                     *)
Fails(d) ==
  /\ \E from \in {"reading", "writing", "flushing"} : Goes(d, from, "err")
  /\ UNCHANGED <<taken, given, late>>

Copies(d) == Looks(d) \/ Writes(d) \/ Flushes(d)

-----------------------------------------------------------------------------
(* run_sync and dispatch.                                                  *)

Awaits == UNCHANGED <<exists, signal, thread, taken, given, late>>

(* A task's error is reported only when its turn comes to be joined.       *)
Joins ==
  /\ copyResult = "running" /\ joined < Len(Order)
  /\ LET d == Order[joined + 1] IN
       \/ thread[d] = "ok" /\ joined' = joined + 1 /\ UNCHANGED copyResult
       \/ thread[d] = "err" /\ copyResult' = "err" /\ UNCHANGED joined
  /\ Awaits

Completes ==
  /\ copyResult = "running" /\ joined = Len(Order)
  /\ copyResult' = "ok" /\ UNCHANGED joined /\ Awaits

(* The select! of dispatch: the copy is abandoned, the threads go on.      *)
Interrupted ==
  /\ copyResult = "running" /\ signal
  /\ copyResult' = "interrupted" /\ UNCHANGED joined /\ Awaits

(* TEARDOWN_GRACE has gone by: what the threads were at is cut short.      *)
Teardown ==
  /\ copyResult # "running"
  /\ \E d \in Dirs : thread[d] \notin {"ok", "err", "killed"}
  /\ thread' = [d \in Dirs |-> IF thread[d] \in {"ok", "err"} THEN thread[d] ELSE "killed"]
  /\ UNCHANGED <<exists, signal, taken, given, late, joined, copyResult>>

Own == Joins \/ Completes \/ Interrupted \/ Teardown

Next ==
  \/ Drain \/ Own
  \/ \E d \in Dirs : Copies(d) \/ Reads(d) \/ ReadsEof(d) \/ Fails(d)

Spec == Init /\ [][Next]_vars

-----------------------------------------------------------------------------
Stopped(d) == thread[d] \in {"ok", "err", "killed"}

TypeOK ==
  /\ exists \subseteq Dirs /\ signal \in BOOLEAN
  /\ thread \in [Dirs -> {"looking", "reading", "writing", "flushing", "ok", "err", "killed"}]
  /\ taken \in [Dirs -> 0..MaxChunks] /\ given \in [Dirs -> 0..MaxChunks]
  /\ late \in [Dirs -> 0..MaxChunks] /\ joined \in 0..Len(Order)
  /\ copyResult \in {"running", "ok", "err", "interrupted"}

(* Success is reported only when every direction there is has written all  *)
(* that it read, and flushed it.                                           *)
OkMeansCopied ==
  copyResult = "ok" => \A d \in Dirs : thread[d] = "ok" /\ given[d] = taken[d]

(* "A shutdown signal takes effect when the current read returns"          *)
(* (run_sync): a thread takes at most the one chunk it was waiting for.    *)
OneReadAfterSignal == \A d \in Dirs : late[d] <= 1
=============================================================================

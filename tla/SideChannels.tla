---------------------------- MODULE SideChannels ----------------------------
(***************************************************************************)
(* The side channels of crates/tocat-core/src/host.rs: the plan that hands *)
(* them out, what a call stages for them, apply running beside the write   *)
(* of the payload (run_pipeline of pump.rs), and the flush as a run ends.  *)
(* Paths share the sinks, each behind a lock.                              *)
(*                                                                         *)
(* What a call stages for a sink is one record, written in two pieces, as  *)
(* write_all may be; a piece is <<path, record, 1 or 2>>.                  *)
(***************************************************************************)
EXTENDS Integers, SequencesExt

CONSTANTS
  Paths,      (* pump tasks                                                *)
  Files,      (* names a stage's `file` may have                           *)
  MaxRecords, (* bound on the records of a path                            *)
  MaxSinks,   (* bound on the targets that all the stages ask for          *)
  Abandons    (* the relay may return with paths that still run            *)

VARIABLES
  wants,    (* the targets that each path's stages write to                *)
  plan,     (* ChannelPlan: targets, in the order they were asked for      *)
  said,     (* records each path has staged                                *)
  staging,  (* Effects: the record staged for each channel, or 0           *)
  dirty,    (* and the channels it is staged for, in order                 *)
  step,     (* of a path: where run_pipeline is                            *)
  out,      (* of the call at hand, the payload has been written           *)
  sink,     (* pieces written to each channel                              *)
  holder,   (* the path that holds a sink's lock, or Nobody                *)
  ondisk,   (* pieces of a sink that left its BufWriter                    *)
  toflush,  (* sinks that the flush of the run has yet to see              *)
  exit      (* "planning", "running", "flushing", "ok", "warned"           *)

path == <<said, staging, dirty, step, out>>
vars == <<wants, plan, path, sink, holder, ondisk, toflush, exit>>

Nobody  == "nobody"
Stderr  == <<"stderr", FALSE>>
Refused == <<"refused", FALSE>>

(* `file` and `append` as they may be given, and the target they make      *)
(* (TeeConfig::target, and of hash and rate the same): stdout may carry the*)
(* payload, and a file that is appended to is not the one that is truncated.*)
Spellings == {"unset", "-", "stdout"} \cup Files
target(file, append) ==
  IF file = "stdout" THEN Refused ELSE IF file \in Files THEN <<file, append>> ELSE Stderr
Targets == {target(file, append) : file \in Spellings \ {"stdout"}, append \in BOOLEAN}

Position(s, x) == SelectInSeq(s, LAMBDA y : y = x)

(* ChannelPlan::open_channel: the channel of a target.  A plan that is not *)
(* frozen takes it up; one that is refuses what it does not know.          *)
open_channel(targets, t) == Position(targets, t)

Asked(targets, t) == IF open_channel(targets, t) = 0 THEN Append(targets, t) ELSE targets

Init ==
  /\ wants \in [Paths -> (SUBSET Targets) \ {{}}]
  /\ Cardinality(UNION {wants[p] : p \in Paths}) <= MaxSinks
  /\ plan = <<>> /\ exit = "planning"
  /\ said = [p \in Paths |-> 0] /\ dirty = [p \in Paths |-> <<>>]
  /\ staging = [p \in Paths |-> <<>>]
  /\ step = [p \in Paths |-> "reading"] /\ out = [p \in Paths |-> TRUE]
  /\ sink = <<>> /\ holder = <<>> /\ ondisk = <<>> /\ toflush = {}

(* A chain is built to discover its channels, ...                          *)
Discovers(t) ==
  /\ exit = "planning" /\ plan' = Asked(plan, t)
  /\ UNCHANGED <<wants, path, sink, holder, ondisk, toflush, exit>>

(* ... Channels::open opens them once all are known, and each path is      *)
(* built again against the frozen plan.                                    *)
Opens ==
  /\ exit = "planning"
  /\ \A p \in Paths : \A t \in wants[p] : open_channel(plan, t) # 0
  /\ exit' = "running"
  /\ staging' = [p \in Paths |-> [c \in 1..Len(plan) |-> 0]]
  /\ sink' = [c \in 1..Len(plan) |-> <<>>]
  /\ holder' = [c \in 1..Len(plan) |-> Nobody]
  /\ ondisk' = [c \in 1..Len(plan) |-> 0] /\ toflush' = 1..Len(plan)
  /\ UNCHANGED <<wants, plan, said, dirty, step, out>>

(* The channels of a path's stages.                                        *)
ids(p) == {open_channel(plan, t) : t \in wants[p]}

Running(p) == exit \in {"running", "flushing"} /\ step[p] \notin {"ok", "err"}

(* A chunk, or the end of the stream, goes through the stages, which stage *)
(* at most a record each.  EffectSink::write marks a channel once.         *)
Calls(p, channels, last) ==
  /\ Running(p) /\ step[p] = "reading"
  /\ last \/ said[p] + Len(channels) < MaxRecords
  /\ said[p] + Len(channels) <= MaxRecords
  /\ staging' = [staging EXCEPT ![p] =
       [c \in DOMAIN @ |-> IF Contains(channels, c)
                           THEN said[p] + Position(channels, c) ELSE @[c]]]
  /\ dirty' = [dirty EXCEPT ![p] = channels]
  /\ said' = [said EXCEPT ![p] = @ + Len(channels)]
  /\ step' = [step EXCEPT ![p] = IF last THEN "last write"
                                 ELSE IF channels = <<>> THEN "writing" ELSE "joined"]
  /\ out' = [out EXCEPT ![p] = FALSE]
  /\ UNCHANGED <<wants, plan, sink, holder, ondisk, toflush, exit>>

(* What a path that ends holds of a lock goes with its future.             *)
LocksWithout(p) == [c \in DOMAIN holder |-> IF holder[c] = p THEN Nobody ELSE holder[c]]

(* output.send: it is done, or fails and takes apply with it (try_join!).  *)
Sends(p) ==
  /\ Running(p) /\ ~out[p]
  /\ \/ /\ out' = [out EXCEPT ![p] = TRUE]
        /\ step' = [step EXCEPT ![p] = CASE step[p] = "writing" -> "reading"
                                         [] step[p] = "joined" /\ dirty[p] = <<>> -> "reading"
                                         [] step[p] = "last write" -> "last apply"
                                         [] OTHER -> step[p]]
        /\ UNCHANGED holder
     \/ /\ step' = [step EXCEPT ![p] = "err"] /\ holder' = LocksWithout(p)
        /\ UNCHANGED out
  /\ UNCHANGED <<wants, plan, said, staging, dirty, sink, ondisk, toflush, exit>>

Applying(p) == Running(p) /\ step[p] \in {"joined", "last apply"} /\ dirty[p] # <<>>
Current(p)  == Head(dirty[p])
Begun(p)    == sink[Current(p)] # <<>> /\ Last(sink[Current(p)]) = <<p, staging[p][Current(p)], 1>>

(* Mutant: a writer does not wait for the lock.                            *)
LocksAnyway(p) ==
  /\ Applying(p) /\ holder[Current(p)] # p
  /\ holder' = [holder EXCEPT ![Current(p)] = p]
  /\ UNCHANGED <<wants, plan, path, sink, ondisk, toflush, exit>>

(* Channels::apply: sink.lock().await ...                                  *)
Locks(p) ==
  /\ Applying(p) /\ holder[Current(p)] = Nobody
  /\ holder' = [holder EXCEPT ![Current(p)] = p]
  /\ UNCHANGED <<wants, plan, path, sink, ondisk, toflush, exit>>

(* ... then write_all, which ends the path if it fails ...                 *)
Writes(p) ==
  /\ Applying(p) /\ holder[Current(p)] = p
  /\ \/ /\ ~Begun(p)
        /\ sink' = [sink EXCEPT ![Current(p)] = Append(@, <<p, staging[p][Current(p)], 1>>)]
        /\ UNCHANGED <<step, holder>>
     \/ sink' = sink /\ step' = [step EXCEPT ![p] = "err"] /\ holder' = LocksWithout(p)
  /\ UNCHANGED <<wants, plan, said, staging, dirty, out, ondisk, toflush, exit>>

(* buf.clear(); a call that stages for a channel adds to what is there.    *)
Clears(p) == staging' = [staging EXCEPT ![p][Current(p)] = 0]

(* ... then the next channel, and the next call once there is none.        *)
WritesRest(p) ==
  /\ Applying(p) /\ holder[Current(p)] = p /\ Begun(p)
  /\ sink' = [sink EXCEPT ![Current(p)] = Append(@, <<p, staging[p][Current(p)], 2>>)]
  /\ Clears(p)
  /\ dirty' = [dirty EXCEPT ![p] = Tail(@)]
  /\ holder' = LocksWithout(p)
  /\ step' = [step EXCEPT ![p] = IF @ = "joined" /\ out[p] /\ Len(dirty[p]) = 1
                                 THEN "reading" ELSE @]
  /\ UNCHANGED <<wants, plan, said, out, ondisk, toflush, exit>>

(* The end of run_pipeline, after the last apply.                          *)
Finishes(p) ==
  /\ Running(p) /\ step[p] = "last apply" /\ dirty[p] = <<>>
  /\ step' = [step EXCEPT ![p] = "ok"]
  /\ UNCHANGED <<wants, plan, said, staging, dirty, out, sink, holder, ondisk, toflush, exit>>

(* A BufWriter that is full passes on what it has.                         *)
Spills(c) ==
  /\ exit \in {"running", "flushing"} /\ ondisk[c] \in 0..(Len(sink[c]) - 1)
  /\ ondisk' = [ondisk EXCEPT ![c] = Len(sink[c])]
  /\ UNCHANGED <<wants, plan, path, sink, holder, toflush, exit>>

(* The relay has returned: its paths are over, or a fatal error of accept  *)
(* left some of them behind (serve of relay.rs).                           *)
Returns ==
  /\ exit = "running"
  /\ Abandons \/ \A p \in Paths : step[p] \in {"ok", "err"}
  /\ exit' = "flushing"
  /\ UNCHANGED <<wants, plan, path, sink, holder, ondisk, toflush>>

OthersToFlush(c) == toflush \ {c}

(* Channels::flush: every sink, as its lock is free, whatever becomes of   *)
(* the others (join_all).                                                  *)
Flushes(c) ==
  /\ exit = "flushing" /\ c \in toflush /\ holder[c] = Nobody
  /\ \/ ondisk' = [ondisk EXCEPT ![c] = Len(sink[c])] /\ toflush' = toflush \ {c}
     \/ ondisk' = [ondisk EXCEPT ![c] = -1] /\ toflush' = OthersToFlush(c)
  /\ UNCHANGED <<wants, plan, path, sink, holder, exit>>

Exits ==
  /\ exit = "flushing" /\ toflush = {}
  /\ exit' = IF \E c \in DOMAIN sink : ondisk[c] = -1 THEN "warned" ELSE "ok"
  /\ UNCHANGED <<wants, plan, path, sink, holder, ondisk, toflush>>

(* What the stages of a path may write to in one call, in any order.       *)
Staged(p) == UNION {SetToSeqs(S) : S \in SUBSET ids(p)}

Next ==
  \/ \E p \in Paths :
       \/ \E channels \in Staged(p), last \in BOOLEAN : Calls(p, channels, last)
       \/ Sends(p) \/ Locks(p) \/ Writes(p) \/ WritesRest(p) \/ Finishes(p)
  \/ \E c \in DOMAIN sink : Spills(c) \/ Flushes(c)
  \/ \E p \in Paths : \E t \in wants[p] : Discovers(t)
  \/ Opens \/ Returns \/ Exits

Spec == Init /\ [][Next]_vars

-----------------------------------------------------------------------------
(* What a path wrote to a sink is its records in the order they were       *)
(* staged, each once and in one piece whatever other paths write to that   *)
(* sink; only a path that failed leaves one torn, and it is its last       *)
(* (Channels::apply).  A sink is a file's one writer where OneSinkAFile    *)
(* holds; where it does not, two sinks of whole records share the file.    *)
RecordsAreWhole ==
  \A c \in DOMAIN sink :
    /\ \A i \in 1..Len(sink[c]) :
         sink[c][i][3] = 1 =>
           \/ i < Len(sink[c]) /\ sink[c][i + 1] = <<sink[c][i][1], sink[c][i][2], 2>>
           \/ i = Len(sink[c]) /\ holder[c] = sink[c][i][1]
           \/ step[sink[c][i][1]] = "err"
    /\ \A i, j \in 1..Len(sink[c]) :
         i < j /\ sink[c][i][1] = sink[c][j][1]
           => \/ sink[c][i][2] < sink[c][j][2]
              \/ sink[c][i][2] = sink[c][j][2] /\ j = i + 1 /\ sink[c][i][3] = 1 /\ sink[c][j][3] = 2

(* A path that ended well has said all that its stages staged.             *)
OkMeansReported ==
  \A p \in Paths : step[p] = "ok" =>
    \A n \in 1..said[p] :
      \E c \in DOMAIN sink : \E i \in 1..Len(sink[c]) : sink[c][i] = <<p, n, 2>>

(* "Buffered channel writers must not lose their tail on exit" (run), and  *)
(* "we don't want a single sink's failure to cancel all the other flushes" *)
(* (Channels::flush).  The code keeps this only if no path is left running *)
(* (Abandons is FALSE), and says nothing when it does not (see README.md). *)
NoTailIsLost ==
  exit \in {"ok", "warned"} =>
    \A c \in DOMAIN sink :
      ondisk[c] = Len(sink[c]) \/ (exit = "warned" /\ ondisk[c] = -1)

(* "Each sink has its own mutex, so two directions contend only when they  *)
(* genuinely target the same file" (Channels), and then they do: a file has*)
(* one sink.  The code does not keep this: two stages that name a file, one*)
(* with append and one without, get a writer each, at its own place in the *)
(* file (see README.md).                                                   *)
OneSinkAFile == \A c, d \in DOMAIN sink : plan[c][1] = plan[d][1] => c = d
=============================================================================

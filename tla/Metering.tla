------------------------------ MODULE Metering ------------------------------
(***************************************************************************)
(* The stages that count (crates/tocat-plugins/src): `limit` on a path     *)
(* with `rate` and `throttle` below it, `tee` and `hash` beside them, and  *)
(* what the pump makes of a halt and of a pace (flow of pump.rs).  Bytes   *)
(* and instants are numbers; a cap that is drawn is any number it may be.  *)
(***************************************************************************)
EXTENDS Integers, SequencesExt

CONSTANTS
  Caps,      (* what limit may count to                                    *)
  Speeds,    (* of throttle: bytes per instant                             *)
  Bursts,    (* of throttle: its bucket                                    *)
  Period,    (* of rate                                                    *)
  MaxChunk,  (* bound on the bytes of a chunk                              *)
  MaxTime    (* bound on the clock                                         *)

VARIABLES
  conf,      (* the options of the three                                   *)
  now,
  seen, stopped,    (* of limit                                            *)
  tokens, spent,    (* of throttle: its bucket, and when it was last used  *)
  started, last, total, window, stalled, chunks, samples,       (* of rate *)
  offset, hashed, digests,     (* of tee and hash                          *)
  nextTick,         (* when rate is owed a tick                            *)
  offered,          (* chunks read                                         *)
  passed,           (* <<instant, bytes>> of each chunk handed on          *)
  pause,            (* the pump reads no more until then                   *)
  outcome             (* "no", "halted" by limit, or at the "eof"     *)

limit    == <<seen, stopped>>
throttle == <<tokens, spent>>
rate     == <<started, last, total, window, stalled, chunks, samples>>
dump     == <<offset, hashed, digests>>
vars     == <<conf, now, limit, throttle, rate, dump, nextTick, offered, passed, pause, outcome>>

Unset == -1
Sum(s) == LET upTo[n \in 0..Len(s)] == IF n = 0 THEN 0 ELSE upTo[n - 1] + s[n]
          IN  upTo[Len(s)]
Most(a, b)  == IF a > b THEN a ELSE b
Least(a, b) == IF a < b THEN a ELSE b

(* LimitConfig as it is written, a seed being of use only where the cap    *)
(* is drawn.                                                               *)
Limits ==
  [bytes : BOOLEAN, packets : BOOLEAN, drawn : BOOLEAN, seed : BOOLEAN,
   at : {"unset", "drop", "exact", "overshoot"}, cap : Caps]

(* LimitFactory::build.                                                    *)
limit_refused(l) ==
  \/ l.seed /\ ~l.drawn
  \/ l.bytes = l.packets
  \/ l.packets /\ l.at # "unset"

(* ThrottleFactory::build.                                                 *)
Throttles == [speed : Speeds \ {0}, burst : {Most(b, 1) : b \in Bursts}]

(* HashFactory::build wants one of summary and chunks; TeeFactory::build   *)
(* a width.                                                                *)
Hashes == [chunks : BOOLEAN, summary : BOOLEAN] \ [chunks : {FALSE}, summary : {FALSE}]

Accepted ==
  [limit : {l \in Limits : ~limit_refused(l) /\ l.seed = l.drawn},
   throttle : Throttles, hash : Hashes, file : BOOLEAN]

Init ==
  /\ conf \in Accepted
  /\ now = 0
  /\ seen = 0 /\ stopped = FALSE
  /\ tokens = conf.throttle.burst /\ spent = 0
  /\ started = Unset /\ last = 0 /\ total = 0 /\ window = 0 /\ stalled = FALSE
  /\ chunks = 0 /\ samples = <<>>
  /\ offset = 0 /\ hashed = 0 /\ digests = <<>>
  /\ nextTick = Period
  /\ offered = <<>> /\ passed = <<>> /\ pause = 0 /\ outcome = "no"

at_limit == IF conf.limit.at = "unset" THEN "exact" ELSE conf.limit.at
cap      == conf.limit.cap

(* Limit::on_bytes: whether this chunk is the last ...                     *)
Reaches(n) == IF conf.limit.bytes THEN n >= cap - seen ELSE cap = 0 \/ seen + 1 >= cap

(* ... and how much of it goes on.                                         *)
Forwarded(n) ==
  IF conf.limit.packets THEN (IF cap = 0 THEN 0 ELSE n)
  ELSE IF n <= cap - seen THEN n
  ELSE CASE at_limit = "drop" -> 0
         [] at_limit = "exact" -> cap - seen
         [] at_limit = "overshoot" -> n

(* Throttle::on_bytes: earn for the time gone by, up to the bucket, and    *)
(* spend the chunk whatever it comes to.                                   *)
Earned == Least(tokens + (now - spent) * conf.throttle.speed, conf.throttle.burst)

(* Mutant: debt is forgiven by the instant it ends in.                     *)
debtRoundedDown(left) == (-left) \div conf.throttle.speed

(* Throttle::debt, of a bucket in debt: time to earn it back.              *)
debt(left) == (-left + conf.throttle.speed - 1) \div conf.throttle.speed

ThrottleHears(m) ==
  /\ tokens' = Earned - m /\ spent' = now
  /\ pause' = IF tokens' < 0 /\ ~stopped' THEN now + debt(tokens') ELSE now

(* Rate::on_bytes: the first chunk starts the clock.                       *)
RateHears(m) ==
  /\ total' = total + m /\ window' = window + m /\ chunks' = chunks + 1
  /\ started' = IF started = Unset THEN now ELSE started
  /\ last' = IF started = Unset THEN now ELSE last
  /\ UNCHANGED <<stalled, samples>>

TeeHears(m) == offset' = offset + m

HashHears(m) ==
  /\ hashed' = hashed + m
  /\ digests' = IF conf.hash.chunks THEN Append(digests, m) ELSE digests

(* The stages below limit are handed m bytes; none of them changes any,    *)
(* and none hears of a chunk that was dropped.                             *)
Below(m) ==
  IF m = 0 THEN UNCHANGED <<throttle, rate, dump, passed>> /\ pause' = now
  ELSE /\ passed' = Append(passed, <<now, m>>)
       /\ ThrottleHears(m) /\ RateHears(m) /\ TeeHears(m) /\ HashHears(m)

(* What they say as the stream ends: rate its last window to a file ...    *)
RateEnds ==
  /\ samples' = IF conf.file /\ window > 0 THEN Append(samples, window) ELSE samples
  /\ window' = IF conf.file THEN 0 ELSE window

(* ... and hash the digest of everything.                                  *)
HashEnds == digests' = IF conf.hash.summary THEN Append(digests, hashed) ELSE digests

Finishes(how) == outcome' = how /\ RateEnds /\ HashEnds

Reading == outcome = "no" /\ now >= pause /\ ~stopped

(* A chunk of n bytes, as the pump reads one.                              *)
on_bytes(n) ==
  /\ Reading
  /\ offered' = Append(offered, n)
  /\ stopped' = Reaches(n)
  /\ seen' = IF conf.limit.packets THEN (IF cap = 0 THEN seen ELSE seen + 1)
             ELSE seen + Forwarded(n)
  /\ Below(Forwarded(n))
  /\ UNCHANGED <<conf, now, nextTick, outcome>>

(* flow, once the chunk is written: a halt ends the path as its end of     *)
(* stream would.                                                           *)
Halts ==
  /\ outcome = "no" /\ stopped /\ Finishes("halted")
  /\ UNCHANGED <<conf, now, limit, throttle, started, last, total, stalled, chunks,
                 offset, hashed, nextTick, offered, passed, pause>>

on_eof ==
  /\ Reading /\ Finishes("eof")
  /\ UNCHANGED <<conf, now, limit, throttle, started, last, total, stalled, chunks,
                 offset, hashed, nextTick, offered, passed, pause>>

Says == conf.file \/ window > 0 \/ ~stalled

(* Rate::sample: to a file a line each time, to the log but one of a stall.*)
sample ==
  /\ samples' = IF Says THEN Append(samples, window) ELSE samples
  /\ stalled' = (window = 0) /\ last' = now /\ window' = 0
  /\ UNCHANGED <<started, total, chunks>>

(* Rate::on_tick: nothing before the first chunk.                          *)
on_tick ==
  /\ Reading /\ nextTick <= now
  /\ nextTick' = Most(nextTick + Period, now + 1)
  /\ IF started = Unset THEN UNCHANGED rate ELSE sample
  /\ UNCHANGED <<conf, now, limit, throttle, dump, offered, passed, pause, outcome>>

(* Time passes while the pump waits, for a chunk or for a pause to end.    *)
Pass ==
  /\ outcome = "no" /\ ~stopped /\ now < MaxTime
  /\ now < pause \/ nextTick > now
  /\ now' = now + 1
  /\ UNCHANGED <<conf, limit, throttle, rate, dump, nextTick, offered, passed, pause, outcome>>

Next == Pass \/ on_tick \/ Halts \/ on_eof \/ \E n \in 1..MaxChunk : on_bytes(n)

Spec == Init /\ [][Next]_vars

-----------------------------------------------------------------------------
Bytes(chunk) == [i \in 1..Len(chunk) |-> chunk[i][2]]
Through      == Sum(Bytes(passed))

(* The table of limit.rs: drop passes "at most `bytes`", exact "exactly",  *)
(* overshoot "at least", and no less or more than the one chunk that       *)
(* crosses makes it; packets are whole and counted; and a path that has    *)
(* not reached its limit goes on with every byte it was offered.           *)
LimitIsExact ==
  LET crossing == Last(offered)
  IN IF stopped
     THEN IF conf.limit.packets THEN Len(passed) = cap
          ELSE CASE at_limit = "drop" -> Through <= cap /\ Sum(offered) >= cap
                 [] at_limit = "exact" -> Through = cap
                 [] at_limit = "overshoot" ->
                      Through = Sum(offered) /\ Through >= cap /\ Through - crossing < Most(cap, 1)
     ELSE /\ Bytes(passed) = offered
          /\ offered = <<>> \/ (IF conf.limit.packets THEN Len(offered) ELSE Through) < cap

(* "The average holds either way" (throttle.rs): over any stretch of a     *)
(* path, what passes before its last chunk is covered by one bucket and    *)
(* what the time in between has earned.                                    *)
SpeedHolds ==
  \A i, j \in 1..Len(passed) :
    i < j => Sum(Bytes(SubSeq(passed, i, j - 1)))
               <= conf.throttle.burst + conf.throttle.speed * (passed[j][1] - passed[i][1])

(* Every byte is in one sample and one digest, the last window of a file   *)
(* included; to the log "a stall is announced once" (rate.rs).             *)
SamplesAddUp ==
  /\ conf.file => Sum(samples) + window = Through /\ (outcome # "no" => window = 0)
  /\ ~conf.file => \A i \in 2..Len(samples) : samples[i] > 0 \/ samples[i - 1] > 0
  /\ outcome # "no" /\ conf.hash.summary => Last(digests) = Through
  /\ conf.hash.chunks => Sum(SubSeq(digests, 1, Len(passed))) = Through
=============================================================================

------------------------------- MODULE Guest -------------------------------
(***************************************************************************)
(* A WebAssembly guest as a stage: what loads (Guest::new of               *)
(* crates/tocat-plugins/src/wasm/engine.rs), the calls into it, and what   *)
(* the host makes of the outbox it leaves (Wasm::drain of wasm.rs), in a   *)
(* segment that calls stages as run of crates/tocat-api/src/pipeline.rs    *)
(* does with units that are not framed.                                    *)
(*                                                                         *)
(* A guest is written with the SDK, which exports every hook, or by hand,  *)
(* with those it needs; each hook it has resets the outbox first.  Its     *)
(* memory is an arena for the input and the outbox, read as a record; what *)
(* points outside of memory is marked `wild`.  Log records are left out.   *)
(***************************************************************************)
EXTENDS Emission, FiniteSets, Functions

CONSTANTS
  Budgets,   (* fuel of a call; 0 is unmetered                             *)
  Costs,     (* of a call of the guest's own                               *)
  Arena      (* bytes that a guest takes at once                           *)

VARIABLES
  guest,     (* the module and its options                                 *)
  phase,     (* "loading"; "refused" by the host, or "ready"; "bytes",     *)
             (* "tick", "flush" or "eof", to be called so; "failed",       *)
             (* "ended"                                                    *)
  ticking,   (* the host keeps a timer for it                              *)
  claims,    (* what it says of boundaries, and what it needs of them      *)
  outbox,
  fuel,      (* what is left of it                                         *)
  input,     (* of the host's call                                         *)
  emission,  (* what the host has taken from the guest in its call ...     *)
  effects,   (* ... and what else the guest asked for                      *)
  meant,     (* what the guest said in the call, and whether verbatim      *)
  halted     (* the path is to end                                         *)

vars == <<guest, phase, ticking, claims, outbox, fuel, input, emission, effects, meant, halted>>

-----------------------------------------------------------------------------
(* Outbox::new.                                                            *)
Empty == [emit |-> "drop", bytes |-> <<>>, bounds |-> <<>>, flags |-> {}, wild |-> "no"]

(* What a hook may write in an outbox: how it emits, and a flag.           *)
Emits ==
  {[emit |-> "passthrough"], [emit |-> "unknown"], [emit |-> "drop"],
   [emit |-> "buffered", bytes |-> <<"s", "t">>, wild |-> "bytes"]}
    \cup [emit : {"buffered"}, bytes : {<<"s", "t">>},
          bounds : {<<>>, <<1>>, <<0, 1, 2>>, <<2, 1>>, <<3>>}]

Asks ==
  {[flags |-> {f}] : f \in {"rearm", "pace", "halt", "error"}}
    \cup {[flags |-> {"halt", "error"}], [flags |-> {"halt"}, wild |-> "message"]}

Words ==
  Emits \cup Asks
    \cup {[f \in {"emit"} \cup DOMAIN a |-> IF f = "emit" THEN "passthrough" ELSE a[f]] : a \in Asks}

(* A hook as the SDKs generate it: the queue is cleared before the guest   *)
(* writes to it.                                                           *)
hook(word) == [f \in DOMAIN Empty |-> IF f \in DOMAIN word THEN word[f] ELSE Empty[f]]

Optional ==
  {"tocat_init", "tocat_on_eof", "tocat_on_tick", "tocat_tick_interval_ns", "tocat_boundaries"}

ABI_VERSION == 2

Exports(f) == f \in guest.exports

(* prepare refuses a module that imports anything, and Guest::new one of   *)
(* another version or without what is required.                            *)
Sound == ~guest.imports /\ guest.version = ABI_VERSION /\ guest.whole

(* set_fuel, of a budget that has a bound: Plenty stands for u64::MAX.     *)
Plenty == 99
set_fuel == IF guest.fuel = 0 THEN Plenty ELSE guest.fuel

(* A call of one of the small exports, on what is left.                    *)
Spent(left) == IF left = 0 THEN 0 ELSE left - 1

(* unpack_boundaries: two bits and two bits, and no others.                *)
unpack_boundaries(word) == [boundaries |-> word % 4, needs |-> word \div 4]
Understood(word)        == word < 16

(* A module, `whole` if it has the exports that are required, with the     *)
(* answers it gives once, and where it was placed on what budget.          *)
Modules ==
  [exports : {Optional} \cup SUBSET {"tocat_on_eof", "tocat_on_tick", "tocat_tick_interval_ns"},
   imports : BOOLEAN, version : {ABI_VERSION, ABI_VERSION + 1}, whole : BOOLEAN,
   asks : BOOLEAN, word : {0, 6, 16}, inline : BOOLEAN, fuel : Budgets]

Init ==
  /\ guest \in Modules
  /\ phase = "loading" /\ ticking = FALSE /\ claims = unpack_boundaries(0)
  /\ outbox = Empty /\ fuel = set_fuel
  /\ input = <<>> /\ emission = Fresh /\ effects = {} /\ halted = FALSE
  /\ meant = [bytes |-> <<>>, cuts |-> {}, verbatim |-> FALSE, flags |-> {}]

-----------------------------------------------------------------------------
(* tocat_init, with its options: what is left after the host has read the  *)
(* outbox, which it does only to learn of an error.                        *)
AfterInit(cost) ==
  IF Exports("tocat_init") THEN Spent(set_fuel - cost) ELSE Spent(set_fuel)

Inits(word, cost) ==
  Exports("tocat_init") =>
    /\ cost < set_fuel
    /\ "error" \notin hook(word).flags

AfterInterval(cost) ==
  IF Exports("tocat_tick_interval_ns") THEN Spent(AfterInit(cost)) ELSE AfterInit(cost)

(* A guest whose interval it cannot afford to tell gets no ticks, ...      *)
Ticks(cost) ==
  /\ Exports("tocat_tick_interval_ns") /\ Exports("tocat_on_tick")
  /\ guest.asks /\ AfterInit(cost) > 0

(* ... and one whose claims are not told, or not understood, is refused.   *)
Declares(cost) ==
  Exports("tocat_boundaries") => AfterInterval(cost) > 0 /\ Understood(guest.word)

(* Guest::new.                                                             *)
Builds ==
  /\ phase = "loading"
  /\ \E word \in Asks \cup {[emit |-> "drop"]}, cost \in Costs :
       IF Sound /\ Inits(word, cost) /\ Declares(cost)
       THEN /\ phase' = "ready"
            /\ ticking' = Ticks(cost)
            /\ claims' = unpack_boundaries(IF Exports("tocat_boundaries") THEN guest.word ELSE 0)
            /\ outbox' = IF Exports("tocat_init") THEN hook(word) ELSE outbox
            /\ fuel' = IF Exports("tocat_boundaries") THEN Spent(AfterInterval(cost))
                       ELSE AfterInterval(cost)
       ELSE phase' = "refused" /\ UNCHANGED <<ticking, claims, outbox, fuel>>
  /\ UNCHANGED <<guest, input, emission, effects, meant, halted>>

-----------------------------------------------------------------------------
(* Mutant: what lies before a boundary is emitted again behind it.         *)
SpansFromZero(o, e) ==
  LET recut(acc, end) ==
        IF end >= acc.start
        THEN [acc EXCEPT !.e = boundary(forward(@, input, SubSeq(o.bytes, 1, end)), input)]
        ELSE acc
      upTo[k \in 0..Len(o.bounds)] ==
        IF k = 0 THEN [start |-> 0, e |-> e] ELSE recut(upTo[k - 1], o.bounds[k])
      spans == upTo[Len(o.bounds)]
  IN  forward(spans.e, input, SubSeq(o.bytes, spans.start + 1, Len(o.bytes)))

(* Each span between two boundaries is a unit, a boundary that goes back   *)
(* is none, ...                                                            *)
cut(o, acc, end) ==
  IF end >= acc.start
  THEN [start |-> end,
        e |-> boundary(forward(acc.e, input, SubSeq(o.bytes, acc.start + 1, end)), input)]
  ELSE acc

Cutting(o, e) ==
  LET upTo[k \in 0..Len(o.bounds)] ==
        IF k = 0 THEN [start |-> 0, e |-> e] ELSE cut(o, upTo[k - 1], o.bounds[k])
  IN  upTo[Len(o.bounds)]

(* ... and what is behind the last needs none.                             *)
Spans(o, e) ==
  LET spans == Cutting(o, e)
  IN  forward(spans.e, input, SubSeq(o.bytes, spans.start + 1, Len(o.bytes)))

Stops(o) == o.flags \cap {"halt", "error"} # {}

(* What drain fails for.                                                   *)
Fails(o) ==
  \/ o.emit = "unknown"
  \/ o.emit = "buffered" /\ (o.wild = "bytes" \/ \E b \in Range(o.bounds) : b > Len(o.bytes))
  \/ Stops(o) /\ (o.wild = "message" \/ "error" \in o.flags)

Applied(o, e) ==
  CASE o.emit = "passthrough" -> pass_through(e, input)
    [] o.emit = "drop"        -> drop_chunk(e)
    [] o.emit = "buffered"    -> Spans(o, e)

(* Wasm::drain of what the last call left, on what fuel it left, since     *)
(* tocat_outbox is a call too.                                             *)
drain(o, left, next) ==
  /\ outbox' = o /\ fuel' = Spent(left)
  /\ IF left = 0 \/ Fails(o)
     THEN phase' = "failed" /\ UNCHANGED <<emission, effects, halted>>
     ELSE /\ phase' = next
          /\ emission' = Applied(o, emission)
          /\ effects' = effects \cup o.flags
          /\ halted' = (halted \/ "halt" \in o.flags)

(* A trap: the call ran out of fuel.                                       *)
Traps ==
  /\ phase' = "failed" /\ fuel' = 0
  /\ UNCHANGED <<outbox, emission, effects, halted, meant>>

(* What the guest has said in a call, however the host finds it out.       *)
Kept(bounds) == {bounds[i] : i \in {j \in DOMAIN bounds : \A k \in 1..j : bounds[k] <= bounds[j]}}

Says(o) ==
  meant' =
    [bytes    |-> meant.bytes \o (IF o.emit = "passthrough" THEN input
                                  ELSE IF o.emit = "buffered" THEN o.bytes ELSE <<>>),
     cuts     |-> meant.cuts \cup (IF o.emit = "buffered"
                                   THEN {Len(meant.bytes) + b : b \in Kept(o.bounds)} ELSE {}),
     verbatim |-> meant.verbatim \/ o.emit = "passthrough",
     flags    |-> meant.flags \cup o.flags]

(* A hook that the guest has, and that costs it something ...              *)
Calls(next) ==
  \E word \in Words, cost \in Costs :
    IF cost > set_fuel THEN Traps
    ELSE drain(hook(word), set_fuel - cost, next) /\ Says(hook(word))

(* ... and one it has not, which is no call, and drained all the same.     *)
Skips(next) == drain(outbox, fuel, next) /\ UNCHANGED meant
-----------------------------------------------------------------------------
(* The segment calls the stage: with a chunk, when its timer is due, or at *)
(* the end of the stream, where one that is not the first of its segment   *)
(* may be handed a last chunk in the same call.                            *)
run(call, chunk) ==
  /\ phase = "ready"
  /\ phase' = call /\ input' = chunk
  /\ emission' = Fresh /\ effects' = {}
  /\ meant' = [bytes |-> <<>>, cuts |-> {}, verbatim |-> FALSE, flags |-> {}]
  /\ UNCHANGED <<guest, ticking, claims, outbox, fuel, halted>>

Chunks == {<<"i">>, [i \in 1..(Arena + 1) |-> "i"]}

Process(chunk) == ~halted /\ run("bytes", chunk)
Tick           == ~halted /\ ticking /\ run("tick", <<>>)
Finish         == run("eof", <<>>)
HandsLast      == guest.inline /\ run("flush", <<"i">>)

(* Guest::on_bytes: a chunk that tocat_alloc finds no room for is refused, *)
(* and nothing is written.                                                 *)
on_bytes ==
  /\ phase \in {"bytes", "flush"}
  /\ IF Len(input) > Arena THEN Traps
     ELSE Calls(IF phase = "bytes" THEN "ready" ELSE "eof")
  /\ UNCHANGED <<guest, ticking, claims, input>>

on_tick ==
  /\ phase = "tick"
  /\ IF Exports("tocat_on_tick") THEN Calls("ready") ELSE Skips("ready")
  /\ UNCHANGED <<guest, ticking, claims, input>>

on_eof ==
  /\ phase = "eof"
  /\ IF Exports("tocat_on_eof") THEN Calls("ended") ELSE Skips("ended")
  /\ UNCHANGED <<guest, ticking, claims, input>>

Next ==
  \/ Builds
  \/ \E chunk \in Chunks : Process(chunk)
  \/ Tick \/ Finish \/ HandsLast
  \/ on_bytes \/ on_tick \/ on_eof

Spec == Init /\ [][Next]_vars

-----------------------------------------------------------------------------
(* What the segment hands on.                                              *)
Handed ==
  IF emission.emit = "passthrough" THEN (IF input = <<>> THEN <<>> ELSE <<input>>)
  ELSE EmittedUnits(IF Framed(emission) THEN close(emission) ELSE emission)

(* What it should: the guest's bytes, cut where it asked for a cut.        *)
Meant ==
  LET ends == {c \in meant.cuts \cup {Len(meant.bytes)} : c \in 1..Len(meant.bytes)}
      at   == CHOOSE s \in [1..Cardinality(ends) -> ends] :
                \A i, j \in DOMAIN s : i < j => s[i] < s[j]
  IN  [i \in 1..Len(at) |->
         SubSeq(meant.bytes, IF i = 1 THEN 1 ELSE at[i - 1] + 1, at[i])]

(* "After every call the host reads a fixed-layout struct at tocat_outbox()*)
(* and applies it": what leaves, and what is asked of the host, is what    *)
(* the guest said in that call, once and in the units it cut.  It is so of *)
(* a guest that has on_eof, and that does not pass through a last chunk it *)
(* is handed together with the end: see the two below.                     *)
HeardAsSaid ==
  /\ phase \in {"ready", "ended"}
  /\ phase = "ended" => Exports("tocat_on_eof") /\ (input = <<>> \/ ~meant.verbatim)
  => Handed = Meant /\ effects = meant.flags

(* A guest that runs is one that imports nothing, speaks this version and  *)
(* has what is required, whose options it has not refused itself; its      *)
(* claims are those it made, and it is ticked only where it asked for it.  *)
LoadedAsBuilt ==
  phase \notin {"loading", "refused"} =>
    /\ Sound
    /\ IF Exports("tocat_boundaries")
       THEN guest.word = claims.needs * 4 + claims.boundaries /\ claims.needs < 4
       ELSE claims = unpack_boundaries(0)
    /\ ticking => guest.asks /\ Exports("tocat_on_tick")
    /\ phase = "tick" => ticking

(* "Every export is generated whether or not the guest implements the      *)
(* corresponding hook, which changes nothing the host does": a stream ends *)
(* for a guest that has no on_eof as it does for one whose on_eof says     *)
(* nothing.                                                                *)
SilentAtTheEnd ==
  phase = "ended" /\ input = <<>> /\ ~Exports("tocat_on_eof") => Handed = <<>>

(* "Emitting nothing does the same thing", of drop_chunk.  The code does   *)
(* not keep it: a guest whose on_eof says nothing is made to take back the *)
(* last chunk, if it has passed that through within the same call.         *)
TakesNothingBack ==
  phase = "ended" /\ Exports("tocat_on_eof") /\ outbox = Empty => Handed = Meant
=============================================================================

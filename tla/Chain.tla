------------------------------- MODULE Chain -------------------------------
(***************************************************************************)
(* How the declared plugins become one chain per direction                 *)
(* (Registry::build, crates/tocat-api/src/pipeline.rs), and what Relay::new*)
(* (crates/tocat-core/src/relay.rs) asks of them before anything runs: do  *)
(* messages survive as far as the stages that need them.                   *)
(*                                                                         *)
(* A stage is the index of its declaration.                                *)
(***************************************************************************)
EXTENDS Integers, SequencesExt

CONSTANTS
  MaxStages,   (* bound on the plugins declared                            *)
  Directions   (* the direction specs they are declared with               *)

Boundaries == {"fuse", "preserve", "seal", "split"}

(* A plugin filters, and says what it does to boundaries, or is external.  *)
PluginSpec ==
  [direction : Directions, detach : {"unset", "yes", "no"},
   makes : Boundaries \cup {"external"}]

VARIABLES
  specs,      (* the plugins, in the order of declaration                  *)
  building,   (* the direction whose chain is being built, or "none"       *)
  left,       (* stages it has yet to take                                 *)
  draft,      (* of the segment being assembled; <<>> for none             *)
  chains,     (* per direction, the segments                               *)
  verdict,    (* "none", "refused", "unmet", "ok"                          *)
  datagram,   (* whether each endpoint carries messages                    *)
  needs       (* pairs of a stage and the side on which it needs messages  *)

vars == <<specs, building, left, draft, chains, verdict, datagram, needs>>

Sides == {"upstream", "downstream"}

contains(d, path) == d \in {"both", path}

(* The stages that apply to a path, in the order of declaration.           *)
Applying(declared, path) ==
  LET upTo[n \in 0..Len(declared)] ==
        IF n = 0 THEN <<>>
        ELSE IF contains(declared[n].direction, path) THEN Append(upTo[n - 1], n)
        ELSE upTo[n - 1]
  IN  upTo[Len(declared)]

(* Mutant: the way back is not mirrored.                                   *)
SelectedUnmirrored(declared, path) == Applying(declared, path)

(* And mirrored on the way back.                                           *)
Selected(declared, path) ==
  IF path = "sink-to-source" THEN Reverse(Applying(declared, path))
  ELSE Applying(declared, path)

Init ==
  /\ specs \in UNION {[1..n -> PluginSpec] : n \in 0..MaxStages}
  /\ building = "source-to-sink" /\ left = Selected(specs, "source-to-sink")
  /\ draft = <<>>
  /\ chains = [p \in {"source-to-sink", "sink-to-source"} |-> <<>>]
  /\ verdict = "none" /\ datagram = [e \in {"source", "sink"} |-> FALSE] /\ needs = {}

(***************************************************************************)
(* Building.                                                               *)
(***************************************************************************)
Inline(stages) == [kind |-> "inline", stages |-> stages]
Process(i)     == [kind |-> "process", stages |-> <<i>>]

(* The draft becomes a segment, if there is one.                           *)
Flushed(segments, d) == IF d = <<>> THEN segments ELSE Append(segments, Inline(d))

(* A stage of much work per byte is detached unless told otherwise.        *)
Default(i) == IF specs[i].makes \in {"fuse", "external"} THEN "yes" ELSE "no"
Detached(i) == "yes" = IF specs[i].detach = "unset" THEN Default(i) ELSE specs[i].detach

Building == building # "none" /\ verdict = "none"

(* A detached filter starts a segment; so does the first after a process.  *)
StartsSegment(i) == draft = <<>> \/ Detached(i)

TakesFilter ==
  LET i == Head(left)
  IN  /\ Building /\ left # <<>> /\ specs[i].makes # "external"
      /\ IF StartsSegment(i)
         THEN /\ chains' = [chains EXCEPT ![building] = Flushed(@, draft)]
              /\ draft' = <<i>>
         ELSE draft' = Append(draft, i) /\ UNCHANGED chains
      /\ left' = Tail(left)
      /\ UNCHANGED <<specs, building, verdict, datagram, needs>>

TakesExternal ==
  LET i == Head(left)
  IN  /\ Building /\ left # <<>>
      /\ specs[i].makes = "external" /\ specs[i].detach # "no"
      /\ chains' = [chains EXCEPT ![building] = Append(Flushed(@, draft), Process(i))]
      /\ draft' = <<>> /\ left' = Tail(left)
      /\ UNCHANGED <<specs, building, verdict, datagram, needs>>

(* A subprocess always has its own task.                                   *)
RefusesExternal ==
  /\ Building /\ left # <<>>
  /\ specs[Head(left)].makes = "external" /\ specs[Head(left)].detach = "no"
  /\ verdict' = "refused"
  /\ UNCHANGED <<specs, building, left, draft, chains, datagram, needs>>

(* build_pair: forward, then back.                                         *)
EndsChain ==
  /\ Building /\ left = <<>>
  /\ chains' = [chains EXCEPT ![building] = Flushed(@, draft)]
  /\ draft' = <<>>
  /\ building' = IF building = "source-to-sink" THEN "sink-to-source" ELSE "none"
  /\ left' = IF building = "source-to-sink" THEN Selected(specs, "sink-to-source") ELSE <<>>
  /\ UNCHANGED <<specs, verdict, datagram, needs>>
-----------------------------------------------------------------------------
(***************************************************************************)
(* The scan over what stages declare.                                      *)
(***************************************************************************)
(* Mutant: a seal stops the scan upwards, too.                             *)
SealStopsBothWays == {"preserve"}
passes_downstream    == {"preserve"}
passes_upstream      == {"preserve", "seal"}
satisfies_downstream == {"seal"}
satisfies_upstream   == {"split"}
preserves_messages   == {"preserve", "seal"}

(* Chain::declarations: stages of all segments, a subprocess as Fuse.      *)
Stages(segments) == FlattenSeq([k \in 1..Len(segments) |-> segments[k].stages])

declarations(segments) ==
  LET stages == Stages(segments)
  IN  [k \in 1..Len(stages) |->
         IF specs[stages[k]].makes = "external" THEN "fuse" ELSE specs[stages[k]].makes]

(* The first position of a walk that settles the question, or 0.           *)
Settles(decl, walk, passing) ==
  LET at == SelectInSeq(walk, LAMBDA k : decl[k] \notin passing)
  IN  IF at = 0 THEN 0 ELSE walk[at]

Below(decl, k) == [j \in 1..(Len(decl) - k) |-> k + j]
Above(k)       == [j \in 1..(k - 1) |-> k - j]

(* boundary_faults, of a stage with the need: the walk that meets nothing  *)
(* is answered by the endpoint.                                            *)
FaultDownstream(decl, k, carries) ==
  LET at == Settles(decl, Below(decl, k), passes_downstream)
  IN  IF at = 0 THEN ~carries ELSE decl[at] \notin satisfies_downstream

FaultUpstream(decl, k, carries) ==
  LET at == Settles(decl, Above(k), passes_upstream)
  IN  IF at = 0 THEN ~carries ELSE decl[at] \notin satisfies_upstream

datagram_hazard(decl) == \E k \in DOMAIN decl : decl[k] \notin preserves_messages

Upstream(path)   == IF path = "source-to-sink" THEN "source" ELSE "sink"
Downstream(path) == IF path = "source-to-sink" THEN "sink" ELSE "source"

(* Whether a stage of the path has a need that the path does not meet.     *)
Unmet(path, carries, needed) ==
  LET stages == Stages(chains[path])
      decl   == declarations(chains[path])
  IN  \E k \in DOMAIN decl :
        \/ /\ <<stages[k], "downstream">> \in needed
           /\ FaultDownstream(decl, k, carries[Downstream(path)])
        \/ /\ <<stages[k], "upstream">> \in needed
           /\ FaultUpstream(decl, k, carries[Upstream(path)])

(* A subprocess needs nothing.  Faults add up, so it is enough to look at  *)
(* one need at a time, and at all of them together.                        *)
PossibleNeeds ==
  LET all == {i \in DOMAIN specs : specs[i].makes # "external"} \X Sides
  IN  {{}, all} \cup {{need} : need \in all}

(* The two endpoints are looked at when both chains stand.                 *)
Judges ==
  /\ building = "none" /\ verdict = "none"
  /\ needs' \in PossibleNeeds
  /\ datagram' \in [{"source", "sink"} -> BOOLEAN]
  /\ verdict' = IF \E path \in DOMAIN chains : Unmet(path, datagram', needs')
                THEN "unmet" ELSE "ok"
  /\ UNCHANGED <<specs, building, left, draft, chains>>

Next == TakesFilter \/ TakesExternal \/ RefusesExternal \/ EndsChain \/ Judges

Spec == Init /\ [][Next]_vars
-----------------------------------------------------------------------------
(***************************************************************************)
(* What the declarations mean, for two bytes: a cutting says whether they  *)
(* are one unit or two, which is enough for two cuttings to differ.        *)
(***************************************************************************)
Cuttings == {"whole", "halves"}

(* What may arrive: units, the messages they stand for, and the cuttings   *)
(* that seals have written into the payload.  A byte stream is cut where   *)
(* reads happened to end.                                                  *)
Arrivals(carries) ==
  {p \in [units : Cuttings, message : Cuttings, seals : {{}}] :
     carries => p.units = p.message}

(* What a stage may make of it.  A seal is undone by no stage of this      *)
(* chain: an unframe reads the framing of the peer.                        *)
Through(boundaries, p) ==
  CASE boundaries = "preserve" -> {p}
    [] boundaries = "seal"     -> {[p EXCEPT !.seals = @ \cup {p.units}]}
    [] boundaries = "fuse"     -> {[p EXCEPT !.units = c] : c \in Cuttings}
    [] boundaries = "split"    -> {[p EXCEPT !.units = c, !.message = c] : c \in Cuttings}

(* What may be behind the stages from .. to of what was before them.       *)
Reach(decl, from, to, start) ==
  LET behind[k \in (from - 1)..to] ==
        IF k = from - 1 THEN start ELSE UNION {Through(decl[k], p) : p \in behind[k - 1]}
  IN  behind[to]

(* Upstream: every call carries one whole message.                         *)
MayHearParts(decl, k, carries) ==
  \E p \in Reach(decl, 1, k - 1, Arrivals(carries)) : p.units # p.message

(* Downstream: what the stage emitted can be told apart at the far end, by *)
(* its messages or by a seal.                                              *)
MayBeLost(decl, k, carries) ==
  \E emitted \in Cuttings, m \in Cuttings :
    \E p \in Reach(decl, k + 1, Len(decl), {[units |-> emitted, message |-> m, seals |-> {}]}) :
      ~(carries /\ p.units = emitted) /\ emitted \notin p.seals

Built == building = "none" /\ verdict = "none"

(* Boundaries are refused where, and only where, the declarations let them *)
(* be lost: for every stage, on either side, whatever the endpoints carry. *)
ScanIsExact ==
  Built =>
    \A path \in DOMAIN chains, carries \in BOOLEAN :
      LET decl == declarations(chains[path])
      IN  \A k \in DOMAIN decl :
            /\ FaultUpstream(decl, k, carries)   <=> MayHearParts(decl, k, carries)
            /\ FaultDownstream(decl, k, carries) <=> MayBeLost(decl, k, carries)

(* A relay that starts has carried the messages that it was asked to, with *)
(* each direction looked at between its own ends.                          *)
OkMeansCarried ==
  verdict = "ok" =>
    \A path \in DOMAIN chains :
      LET stages == Stages(chains[path])
          decl   == declarations(chains[path])
          reads  == IF path = "source-to-sink" THEN "source" ELSE "sink"
          writes == IF path = "source-to-sink" THEN "sink" ELSE "source"
      IN  \A k \in DOMAIN decl :
            /\ <<stages[k], "upstream">> \in needs => ~MayHearParts(decl, k, datagram[reads])
            /\ <<stages[k], "downstream">> \in needs => ~MayBeLost(decl, k, datagram[writes])

(* The warning is exact too: it is there when messages may leave otherwise *)
(* than they came.                                                         *)
WarningIsExact ==
  Built =>
    \A path \in DOMAIN chains :
      LET decl == declarations(chains[path])
      IN  datagram_hazard(decl) <=>
            \E c \in Cuttings :
              \E p \in Reach(decl, 1, Len(decl), {[units |-> c, message |-> c, seals |-> {}]}) :
                p.units # c

(* "[a, b] nests as a(b(payload)) in both directions": every stage of a    *)
(* path is in its chain once, in the order of declaration one way and in   *)
(* the opposite order the other.                                           *)
Nests ==
  Built =>
    \A path \in DOMAIN chains :
      LET stages == Stages(chains[path])
      IN  /\ ToSet(stages) = {i \in DOMAIN specs : contains(specs[i].direction, path)}
          /\ \A j, k \in DOMAIN stages :
               j < k => IF path = "source-to-sink" THEN stages[j] < stages[k]
                        ELSE stages[j] > stages[k]

(* A segment is a task: a subprocess has one to itself, a detached stage   *)
(* begins one, and inline stages never cost one of their own.              *)
TasksWhereAsked ==
  Built =>
    \A path \in DOMAIN chains :
      LET segments == chains[path]
      IN  \A k \in DOMAIN segments :
            IF segments[k].kind = "process"
            THEN specs[segments[k].stages[1]].makes = "external"
            ELSE /\ segments[k].stages # <<>>
                 /\ \A j \in DOMAIN segments[k].stages :
                      /\ specs[segments[k].stages[j]].makes # "external"
                      /\ j > 1 => ~Detached(segments[k].stages[j])
                 /\ k > 1 /\ segments[k - 1].kind = "inline" =>
                      Detached(segments[k].stages[1])

(* Types, and a builder that is done with every stage when it is done.     *)
TypeOK ==
  /\ building \in {"source-to-sink", "sink-to-source", "none"}
  /\ verdict \in {"none", "refused", "unmet", "ok"}
  /\ needs \subseteq (DOMAIN specs) \X Sides
  /\ \A i \in ToSet(left) \cup ToSet(draft) : i \in DOMAIN specs
  /\ \A path \in DOMAIN chains : ToSet(Stages(chains[path])) \subseteq DOMAIN specs
  /\ building = "none" => left = <<>> /\ draft = <<>>

(* What Registry::build makes of the declarations, for every list of them. *)
BuiltAsDeclared == TypeOK /\ Nests /\ TasksWhereAsked
=============================================================================

------------------------------- MODULE Stages -------------------------------
(***************************************************************************)
(* What the stages of crates/tocat-plugins/src rely on the pump for, in    *)
(* four parts that share no state: the schedules of the stages that tick   *)
(* (Ticks), those that count and pace (Metering), the side channels of     *)
(* those that report (SideChannels), and WebAssembly guests (Guest).  A    *)
(* behaviour is one of one part.                                           *)
(***************************************************************************)
EXTENDS Ticks

CONSTANTS
  Caps, Speeds, Bursts, Period, MaxChunk, MaxTime,  (* Metering            *)
  Paths, Files, MaxRecords, MaxSinks, Abandons,     (* SideChannels        *)
  Budgets, Costs, Arena                             (* Guest               *)

ASSUME StagesAssumption ==
  /\ "nobody" \notin Paths
  /\ Caps \subseteq Nat /\ Speeds \subseteq Nat /\ Bursts \subseteq Nat
  /\ Period \in Nat \ {0} /\ Abandons \in BOOLEAN
  /\ Budgets \subseteq Nat /\ Costs \subseteq Nat \ {0} /\ Arena \in Nat \ {0}

VARIABLES
  part,    (* "ticks", "metering", "channels" or "guest"                   *)
  conf, now, seen, stopped, tokens, spent, started, last, total, window,
  stalled, chunks, samples, offset, hashed, digests, nextTick, offered,
  passed, pause, outcome,                                      (* Metering *)
  wants, plan, said, staging, dirty, step, out, sink, holder, ondisk, toflush,
  exit,                                                    (* SideChannels *)
  guest, phase, ticking, claims, outbox, fuel, input, emission, effects, meant,
  halted                                                          (* Guest *)

meterVars ==
  <<conf, now, seen, stopped, tokens, spent, started, last, total, window, stalled,
    chunks, samples, offset, hashed, digests, nextTick, offered, passed, pause, outcome>>
channelVars ==
  <<wants, plan, said, staging, dirty, step, out, sink, holder, ondisk, toflush, exit>>
guestVars ==
  <<guest, phase, ticking, claims, outbox, fuel, input, emission, effects, meant, halted>>

Metered  == INSTANCE Metering
Channels == INSTANCE SideChannels
Hosted   == INSTANCE Guest

StagesInit ==
  /\ part \in {"ticks", "metering", "channels", "guest"}
  /\ part # "metering" => conf = CHOOSE c \in Metered!Accepted : TRUE
  /\ part # "channels" => wants = [p \in Paths |-> {Channels!Stderr}]
  /\ part # "guest" => guest = CHOOSE g \in Hosted!Modules : TRUE
  /\ Init /\ Metered!Init /\ Channels!Init /\ Hosted!Init

StagesNext ==
  \/ part = "ticks" /\ Next /\ UNCHANGED <<part, meterVars, channelVars, guestVars>>
  \/ part = "metering" /\ Metered!Next /\ UNCHANGED <<part, vars, channelVars, guestVars>>
  \/ part = "channels" /\ Channels!Next /\ UNCHANGED <<part, vars, meterVars, guestVars>>
  \/ part = "guest" /\ Hosted!Next /\ UNCHANGED <<part, vars, meterVars, channelVars>>

(* Paths differ in nothing but what their stages want.                     *)
Alike == Channels!Permutations(Paths)

StagesSpec ==
  StagesInit /\ [][StagesNext]_<<part, vars, meterVars, channelVars, guestVars>>

-----------------------------------------------------------------------------
(* Limits end a path where the table of limit.rs says, a throttled path    *)
(* keeps to its speed over every stretch of it, and what rate and hash     *)
(* report accounts for every byte that went through.                       *)
MetersAreExact == Metered!LimitIsExact /\ Metered!SpeedHolds /\ Metered!SamplesAddUp

(* Paths that share a sink never tear each other's records in it, and      *)
(* whatever a path that ended well had to say is written; a run that leaves*)
(* no path behind and warns of nothing has flushed all that any of them    *)
(* wrote.  A file with two sinks is not promised whole (OneSinkAFile).     *)
ReportsAreWhole ==
  /\ Channels!RecordsAreWhole /\ Channels!OkMeansReported
  /\ ~Abandons => Channels!NoTailIsLost

(* A guest that loads is as it was built, and what it says in a call is    *)
(* what the host makes of it.                                              *)
GuestsAreHeard == Hosted!LoadedAsBuilt /\ Hosted!HeardAsSaid
=============================================================================

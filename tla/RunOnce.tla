------------------------------ MODULE RunOnce ------------------------------
(***************************************************************************)
(* A relay that does not fork: Relay::run_once and relay_streams of        *)
(* crates/tocat-core/src/relay.rs, which open both endpoints, run both     *)
(* directions, and under reconnect=restart do it again after a failure;    *)
(* with the attempt loop of EndpointSpec::connect_transport and the path   *)
(* a listening endpoint holds (PathGuard of endpoint/sys.rs).              *)
(*                                                                         *)
(* What a direction does inside is the matter of Segments; here it takes a *)
(* unit, hands it on, ends or fails.                                       *)
(***************************************************************************)
EXTENDS Naturals

CONSTANTS
  Restarts,  (* either endpoint has reconnect=restart                      *)
  Attempts,  (* retry: connects per opening of a dialled endpoint          *)
  MaxRuns    (* bound: times the pair is opened                            *)

Ends == {"source", "sink"}
Dirs == {"forward", "reverse"}

VARIABLES
  listens,  (* the endpoints that listen, each on a path of the filesystem *)
  staged,   (* some stage is declared, or the copy cannot be handed to    *)
            (* copy_bidirectional for another reason                       *)
  signal,   (* the shutdown watch has been triggered                       *)
  phase,    (* "opening", "relaying", "waiting" to restart, "ok" or "err"  *)
  at,       (* each endpoint: "idle", "trying", "resting" between two      *)
            (* attempts, "open" or "failed"                                *)
  attempt,  (* of connect_transport, counting from one                     *)
  path,     (* endpoints whose path is bound                               *)
  dir,      (* each direction: "running", "eof" or "failed"                *)
  held,     (* its stages hold a unit they took                            *)
  lost,     (* stages of this run were dropped holding a unit              *)
  runs

config == <<listens, staged>>
ends   == <<at, attempt>>
copy   == <<dir, held, lost>>
vars   == <<config, signal, phase, ends, path, copy, runs>>

Idle    == [e \in Ends |-> "idle"]
First   == [e \in Ends |-> 1]
Nothing == [d \in Dirs |-> FALSE]
Going   == [d \in Dirs |-> "running"]

Init ==
  /\ listens \in SUBSET Ends /\ staged \in BOOLEAN
  /\ signal = FALSE /\ phase = "opening"
  /\ at = Idle /\ attempt = First /\ path = {}
  /\ dir = Going /\ held = Nothing /\ lost = FALSE
  /\ runs = 1

Drain ==
  /\ ~signal /\ signal' = TRUE
  /\ UNCHANGED <<config, phase, ends, path, copy, runs>>

-----------------------------------------------------------------------------
(* Opening: connect_shared of each endpoint.                               *)

(* Both at once when both listen, the source first otherwise.              *)
Turn(e) == listens = Ends \/ e = "source" \/ at["source"] = "open"

Becomes(e, what) ==
  /\ at' = [at EXCEPT ![e] = what]
  /\ UNCHANGED <<config, signal, phase, copy, runs>>

(* A listener binds its path, which fails while the path is there.         *)
Starts(e) ==
  /\ phase = "opening" /\ at[e] = "idle" /\ Turn(e)
  /\ Becomes(e, IF e \in path THEN "failed" ELSE "trying")
  /\ path' = path \cup ({e} \cap listens)
  /\ UNCHANGED attempt

(* A peer came, or answered.                                               *)
Connects(e) ==
  /\ phase = "opening" /\ at[e] = "trying"
  /\ Becomes(e, "open")
  /\ UNCHANGED <<path, attempt>>

(* Retry::again: a dial is tried again while attempts are left, an accept  *)
(* that fails is final.  A connect that takes too long is one that failed. *)
Refused(e) ==
  /\ phase = "opening" /\ at[e] = "trying"
  /\ Becomes(e, IF e \notin listens /\ attempt[e] < Attempts THEN "resting" ELSE "failed")
  /\ UNCHANGED <<path, attempt>>

TriesAgain(e) ==
  /\ phase = "opening" /\ at[e] = "resting"
  /\ Becomes(e, "trying")
  /\ attempt' = [attempt EXCEPT ![e] = @ + 1]
  /\ UNCHANGED path

OpenFails ==
  /\ phase = "opening" /\ \E e \in Ends : at[e] = "failed"
  /\ phase' = "err" /\ path' = {}
  /\ UNCHANGED <<config, signal, ends, copy, runs>>

(* Fresh chains for a fresh pair.                                          *)
Relays ==
  /\ phase = "opening" /\ \A e \in Ends : at[e] = "open"
  /\ phase' = "relaying"
  /\ dir' = Going /\ held' = Nothing /\ lost' = FALSE
  /\ UNCHANGED <<config, signal, ends, path, runs>>

-----------------------------------------------------------------------------
(* relay_streams.                                                          *)

Moves(d) ==
  /\ phase = "relaying" /\ dir[d] = "running"
  /\ UNCHANGED <<config, signal, phase, ends, path, runs>>

Takes(d) ==
  /\ Moves(d) /\ staged /\ ~held[d]
  /\ held' = [held EXCEPT ![d] = TRUE]
  /\ UNCHANGED <<dir, lost>>

Gives(d) ==
  /\ Moves(d) /\ held[d]
  /\ held' = [held EXCEPT ![d] = FALSE]
  /\ UNCHANGED <<dir, lost>>

(* Mutant: the stages do not get their end of stream.                      *)
EndsWithoutFinish(d) ==
  /\ Moves(d)
  /\ dir' = [dir EXCEPT ![d] = "eof"]
  /\ lost' = (lost \/ held[d]) /\ held' = [held EXCEPT ![d] = FALSE]

(* End of stream: of the peer's, or the signal delivered as one.           *)
Finishes(d) ==
  /\ Moves(d)
  /\ dir' = [dir EXCEPT ![d] = "eof"]
  /\ held' = [held EXCEPT ![d] = FALSE]
  /\ UNCHANGED lost

Fails(d) ==
  /\ Moves(d)
  /\ dir' = [dir EXCEPT ![d] = "failed"]
  /\ lost' = (lost \/ held[d]) /\ held' = [held EXCEPT ![d] = FALSE]

(* Both directions ended: the run is over, and the guards with it.         *)
Completes ==
  /\ phase = "relaying" /\ \A d \in Dirs : dir[d] = "eof"
  /\ phase' = "ok" /\ path' = {}
  /\ UNCHANGED <<config, signal, ends, copy, runs>>

(* With nothing declared the copy is raced against the signal and dropped. *)
Interrupted ==
  /\ phase = "relaying" /\ signal /\ ~staged
  /\ phase' = "ok" /\ path' = {}
  /\ UNCHANGED <<config, signal, ends, copy, runs>>

(* try_join! drops the other direction, with what its stages held.  The    *)
(* guards live to the end of the loop's body, past the wait.               *)
Breaks(goes, keeps) ==
  /\ phase = "relaying" /\ \E d \in Dirs : dir[d] = "failed"
  /\ phase' = goes
  /\ lost' = (lost \/ \E d \in Dirs : held[d]) /\ held' = Nothing
  /\ path' = keeps
  /\ UNCHANGED <<config, signal, ends, dir, runs>>

MustEnd == ~Restarts \/ signal

BreaksOff == IF MustEnd THEN Breaks("err", {}) ELSE Breaks("waiting", path)

(* Mutant: the guards outlive the loop's body.                             *)
ReopensHolding ==
  /\ phase = "waiting" /\ runs < MaxRuns
  /\ phase' = "opening" /\ at' = Idle /\ attempt' = First
  /\ runs' = runs + 1
  /\ UNCHANGED <<config, signal, path, copy>>

(* The sleep is over: the guards drop and the loop begins again.           *)
Reopens ==
  /\ phase = "waiting" /\ runs < MaxRuns
  /\ phase' = "opening" /\ at' = Idle /\ attempt' = First /\ path' = {}
  /\ runs' = runs + 1
  /\ UNCHANGED <<config, signal, copy>>

-----------------------------------------------------------------------------
(* The task itself.                                                        *)
Own ==
  \/ \E e \in Ends : Starts(e) \/ TriesAgain(e)
  \/ OpenFails \/ Relays \/ Completes \/ Interrupted \/ BreaksOff \/ Reopens

Next ==
  \/ Own \/ Drain
  \/ \E e \in Ends : Connects(e) \/ Refused(e)
  \/ \E d \in Dirs : Takes(d) \/ Gives(d) \/ Finishes(d) \/ Fails(d)

Spec == Init /\ [][Next]_vars

(* What may not be put off for ever, with the task itself: a direction that*)
(* was signalled ends (Segments, EndsComeThrough).  Nothing brings a client*)
(* to a listener, and a connect need not conclude.                         *)
Drains(d) == signal /\ (Finishes(d) \/ Fails(d))

-----------------------------------------------------------------------------
Over == phase \in {"ok", "err"}

TypeOK ==
  /\ listens \subseteq Ends /\ staged \in BOOLEAN /\ signal \in BOOLEAN
  /\ phase \in {"opening", "relaying", "waiting", "ok", "err"}
  /\ at \in [Ends -> {"idle", "trying", "resting", "open", "failed"}]
  /\ attempt \in [Ends -> 1..Attempts] /\ path \subseteq listens
  /\ dir \in [Dirs -> {"running", "eof", "failed"}]
  /\ held \in [Dirs -> BOOLEAN] /\ lost \in BOOLEAN /\ runs \in 1..MaxRuns

(* A socket's path is there as long as its connection is in use, gone when *)
(* the run is over, and "unlinked before it is bound again" (run_once): a  *)
(* restart never trips over its own path.                                  *)
PathFollowsUse ==
  /\ phase = "relaying" => path = listens
  /\ Over => path = {}
  /\ phase = "opening" => \A e \in Ends : at[e] = "idle" => e \notin path

(* "Ok here means both directions reached end of stream" (run_once), or,   *)
(* with no stage declared, that the relay was interrupted; and then no     *)
(* stage was dropped with something in its hands.                          *)
OkMeansEnded ==
  phase = "ok" =>
    /\ ~lost /\ \A d \in Dirs : ~held[d]
    /\ (\A d \in Dirs : dir[d] = "eof") \/ (signal /\ ~staged)

(* "A drain is not something to reconnect through: [...] reopening would   *)
(* keep it alive past the point it was asked to end" (run_once).           *)
NoReopenOnceDrained == [][phase = "waiting" /\ phase' = "opening" => ~signal]_vars
=============================================================================

------------------------------- MODULE Serve -------------------------------
(***************************************************************************)
(* A relay that forks: Relay::serve and handle_client of                   *)
(* crates/tocat-core/src/relay.rs.  The accept loop takes a permit, then a *)
(* connection, and gives both to a task of its own, which dials the other  *)
(* endpoint and relays; on the signal it stops and a task tracker waits    *)
(* for the tasks.                                                          *)
(***************************************************************************)
EXTENDS Naturals, FiniteSets

CONSTANTS
  Clients,         (* those that ever connect                              *)
  max_connections  (* permits of the semaphore                             *)

VARIABLES
  signal,   (* the shutdown watch has been triggered                       *)
  loop,     (* the accept loop: "acquire", "accept", "drain" or "left"     *)
  permits,  (* left in the semaphore                                       *)
  client,   (* "away", "knocking" in the backlog, "dialing", "relaying",   *)
            (* or "over"                                                   *)
  result    (* of serve: "running", "ok" or "err"                          *)

vars == <<signal, loop, permits, client, result>>

Active == {c \in Clients : client[c] \in {"dialing", "relaying"}}

Init ==
  /\ signal = FALSE /\ loop = "acquire" /\ permits = max_connections
  /\ client = [c \in Clients |-> "away"]
  /\ result = "running"

Drain ==
  /\ ~signal /\ signal' = TRUE
  /\ UNCHANGED <<loop, permits, client, result>>

Knocks(c) ==
  /\ client[c] = "away"
  /\ client' = [client EXCEPT ![c] = "knocking"]
  /\ UNCHANGED <<signal, loop, permits, result>>

-----------------------------------------------------------------------------
(* serve.  Both select! are biased towards the signal.                     *)

Loops == UNCHANGED <<signal, result>>

Acquires ==
  /\ loop = "acquire" /\ ~signal /\ permits > 0
  /\ permits' = permits - 1 /\ loop' = "accept"
  /\ UNCHANGED client /\ Loops

(* The permit goes to the task with the connection.                        *)
Accepts(c) ==
  /\ loop = "accept" /\ ~signal /\ client[c] = "knocking"
  /\ client' = [client EXCEPT ![c] = "dialing"] /\ loop' = "acquire"
  /\ UNCHANGED permits /\ Loops

(* Mutant: an accept that fails keeps its permit.                          *)
AcceptLeaks(c) ==
  /\ loop = "accept" /\ ~signal /\ client[c] = "knocking"
  /\ client' = [client EXCEPT ![c] = "over"] /\ loop' = "acquire"
  /\ UNCHANGED permits /\ Loops

(* An error of one connection: `continue` drops the permit.                *)
AcceptFails(c) ==
  /\ loop = "accept" /\ ~signal /\ client[c] = "knocking"
  /\ client' = [client EXCEPT ![c] = "over"] /\ loop' = "acquire"
  /\ permits' = permits + 1
  /\ Loops

(* is_fatal_accept: serve returns at once, and its tasks are on their own. *)
AcceptIsFatal ==
  /\ loop = "accept" /\ ~signal
  /\ loop' = "left" /\ result' = "err" /\ permits' = permits + 1
  /\ UNCHANGED <<signal, client>>

Stops ==
  /\ loop \in {"acquire", "accept"} /\ signal
  /\ loop' = "drain"
  /\ permits' = IF loop = "accept" THEN permits + 1 ELSE permits
  /\ UNCHANGED client /\ Loops

(* tracker.close, tracker.wait.                                            *)
Drained ==
  /\ loop = "drain" /\ Active = {}
  /\ loop' = "left" /\ result' = "ok"
  /\ UNCHANGED <<signal, permits, client>>

-----------------------------------------------------------------------------
(* handle_client, in a task of its own.                                    *)

Dials(c) ==
  /\ client[c] = "dialing"
  /\ client' = [client EXCEPT ![c] = "relaying"]
  /\ UNCHANGED <<signal, loop, permits, result>>

(* It ends, well or not: the dial, a layer or the relay failed, both       *)
(* directions ended, or they were signalled.  The permit is dropped.       *)
Ends(c) ==
  /\ c \in Active
  /\ client' = [client EXCEPT ![c] = "over"]
  /\ permits' = permits + 1
  /\ UNCHANGED <<signal, loop, result>>

Own == Acquires \/ Stops \/ Drained

Next ==
  \/ Drain \/ AcceptIsFatal \/ Own
  \/ \E c \in Clients :
       Knocks(c) \/ Accepts(c) \/ AcceptFails(c) \/ Dials(c) \/ Ends(c)

Spec == Init /\ [][Next]_vars

(* What may not be put off for ever: the loop goes on while it can and     *)
(* takes who knocks, and a relay that was signalled ends (Segments,        *)
(* EndsComeThrough).  A client's dial, and the layers put on both ends, are*)
(* not raced with the signal and bounded by nothing unless the endpoint has*)
(* a connect-timeout: they may never conclude.                             *)
Drains(c) == signal /\ client[c] = "relaying" /\ Ends(c)

-----------------------------------------------------------------------------
TypeOK ==
  /\ signal \in BOOLEAN /\ loop \in {"acquire", "accept", "drain", "left"}
  /\ permits \in 0..max_connections
  /\ client \in [Clients -> {"away", "knocking", "dialing", "relaying", "over"}]
  /\ result \in {"running", "ok", "err"}

(* Every permit is in the semaphore, with the loop, or with a connection   *)
(* being served: none leaks however a connection ends, no more than the    *)
(* ceiling are ever served, and so "the listener stops taking connections  *)
(* it cannot serve" (lifecycle.md).                                        *)
PermitsConserved ==
  permits + Cardinality(Active) + (IF loop = "accept" THEN 1 ELSE 0) = max_connections

(* Success means that the relay was told to stop and that every connection *)
(* in flight was waited for.                                               *)
OkMeansDrained == result = "ok" => signal /\ Active = {}
=============================================================================

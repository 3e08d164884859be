------------------------------- MODULE Demux -------------------------------
(***************************************************************************)
(* A forked datagram listener: the receive loop and the sessions of        *)
(* crates/tocat-core/src/endpoint/datagram.rs, with the accept loop of     *)
(* Relay::serve (relay.rs) as their consumer.                              *)
(*                                                                         *)
(* One task receives every message and never awaits anything a session     *)
(* controls, so what it does with a message is one action.  Messages are   *)
(* numbered in the order of their receive, sessions in that of their       *)
(* opening.                                                                *)
(***************************************************************************)
EXTENDS Naturals, Sequences, FiniteSets

CONSTANTS
  Peers,
  max_connections,   (* the ceiling, of sessions and of permits            *)
  SESSION_DEPTH,     (* messages a session's queue holds                   *)
  PENDING_SESSIONS,  (* sessions waiting for the accept loop               *)
  MaxMessages        (* bound: messages ever received                      *)

ASSUME DemuxAssumption ==
  /\ IsFiniteSet(Peers)
  /\ max_connections \in Nat \ {0} /\ SESSION_DEPTH \in Nat \ {0}
  /\ PENDING_SESSIONS \in Nat \ {0} /\ MaxMessages \in Nat

Ids == 1..MaxMessages
None == 0

VARIABLES
  received, (* messages so far                                             *)
  running,  (* the receive loop has not stopped                            *)
  sessions, (* the map: the session of each peer, or None                  *)
  opened,   (* sessions so far                                             *)
  owner,    (* history: whose a session is                                 *)
  opener,   (* history: the message that opened it                         *)
  life,     (* "pending", "served", "deaf" once its reading direction has  *)
            (* ended, or "closed"                                          *)
  queue,    (* messages it has not been read                               *)
  read,     (* history: messages its relay has been given                  *)
  pending,  (* the channel to the accept loop                              *)
  permits,  (* of the accept loop                                          *)
  accepting (* it has not stopped                                          *)

table  == <<sessions, opened, owner, opener>>
accept == <<pending, permits, accepting>>
vars   == <<received, running, table, life, queue, read, accept>>

Init ==
  /\ received = 0 /\ running = TRUE
  /\ sessions = [p \in Peers |-> None] /\ opened = 0
  /\ owner = [i \in Ids |-> None] /\ opener = [i \in Ids |-> 0]
  /\ life = [i \in Ids |-> "none"]
  /\ queue = [i \in Ids |-> <<>>] /\ read = [i \in Ids |-> <<>>]
  /\ pending = <<>> /\ permits = max_connections /\ accepting = TRUE

(* A sender's receiver is dropped with the session, which both halves of   *)
(* the endpoint share.                                                     *)
Closed(i)  == life[i] = "closed"
Live(i)    == life[i] \in {"pending", "served", "deaf"}
Entries(m) == {p \in Peers : m[p] # None}

-----------------------------------------------------------------------------
(* demultiplex: one message of peer p.                                     *)

Receives ==
  /\ running /\ received < MaxMessages
  /\ received' = received + 1

(* try_send to the session there is.                                       *)
Delivers(p) ==
  /\ Receives
  /\ LET i == sessions[p] IN
       /\ i # None /\ ~Closed(i) /\ Len(queue[i]) < SESSION_DEPTH
       /\ queue' = [queue EXCEPT ![i] = Append(@, received + 1)]
  /\ UNCHANGED <<running, table, life, read, accept>>

Overflows(p) ==
  /\ Receives
  /\ LET i == sessions[p] IN i # None /\ ~Closed(i) /\ Len(queue[i]) = SESSION_DEPTH
  /\ UNCHANGED <<running, table, life, queue, read, accept>>

(* An entry that is closed makes room for a new one of the same peer; at   *)
(* the ceiling all closed entries do.                                      *)
Forgets(p) == [sessions EXCEPT ![p] = None]

(* Mutant: no sweep.                                                       *)
NeverSwept(p) == Forgets(p)

Swept(p) ==
  IF Cardinality(Entries(Forgets(p))) < max_connections THEN Forgets(p)
  ELSE [q \in Peers |-> IF Forgets(p)[q] # None /\ Closed(Forgets(p)[q]) THEN None
                                                                 ELSE Forgets(p)[q]]

IsNew(p) == sessions[p] # None => Closed(sessions[p])

AtCeiling(p) ==
  /\ Receives /\ IsNew(p)
  /\ Cardinality(Entries(Swept(p))) >= max_connections
  /\ sessions' = Swept(p)
  /\ UNCHANGED <<running, opened, owner, opener, life, queue, read, accept>>

NotAccepted(p) ==
  /\ Receives /\ IsNew(p)
  /\ Cardinality(Entries(Swept(p))) < max_connections
  /\ accepting /\ Len(pending) = PENDING_SESSIONS
  /\ sessions' = Swept(p)
  /\ UNCHANGED <<running, opened, owner, opener, life, queue, read, accept>>

Open(p, first) ==
  LET i == opened + 1 IN
  /\ Receives /\ IsNew(p)
  /\ Cardinality(Entries(Swept(p))) < max_connections
  /\ accepting /\ Len(pending) < PENDING_SESSIONS
  /\ opened' = i
  /\ owner' = [owner EXCEPT ![i] = p] /\ opener' = [opener EXCEPT ![i] = received + 1]
  /\ life' = [life EXCEPT ![i] = "pending"]
  /\ pending' = Append(pending, i)
  /\ queue' = [queue EXCEPT ![i] = first]
  /\ sessions' = [Swept(p) EXCEPT ![p] = i]
  /\ UNCHANGED <<running, read, permits, accepting>>

(* The message that opened the session is its first.                       *)
Opens(p) == Open(p, <<received + 1>>)

(* The accept side is gone: nobody is left to serve.                       *)
FindsNobody(p) ==
  /\ Receives /\ IsNew(p)
  /\ Cardinality(Entries(Swept(p))) < max_connections
  /\ ~accepting
  /\ running' = FALSE /\ sessions' = [q \in Peers |-> None]
  /\ UNCHANGED <<opened, owner, opener, life, queue, read, accept>>

(* The signal, or an error of the socket.  The senders go with the map.    *)
Stops ==
  /\ running /\ running' = FALSE
  /\ sessions' = [q \in Peers |-> None]
  /\ UNCHANGED <<received, opened, owner, opener, life, queue, read, accept>>

-----------------------------------------------------------------------------
(* The accept loop and the sessions' tasks.                                *)

Accepts ==
  /\ accepting /\ permits > 0 /\ pending # <<>>
  /\ pending' = Tail(pending) /\ permits' = permits - 1
  /\ life' = [life EXCEPT ![Head(pending)] = "served"]
  /\ UNCHANGED <<received, running, table, queue, read, accepting>>

(* The signal or a fatal error: the sessions not yet taken are dropped.    *)
StopsAccepting ==
  /\ accepting /\ accepting' = FALSE
  /\ pending' = <<>>
  /\ life' = [i \in Ids |-> IF life[i] = "pending" THEN "closed" ELSE life[i]]
  /\ queue' = [i \in Ids |-> IF life[i] = "pending" THEN <<>> ELSE queue[i]]
  /\ UNCHANGED <<received, running, table, read, permits>>

Reads(i) ==
  /\ life[i] = "served" /\ queue[i] # <<>>
  /\ read' = [read EXCEPT ![i] = Append(@, Head(queue[i]))]
  /\ queue' = [queue EXCEPT ![i] = Tail(@)]
  /\ UNCHANGED <<received, running, table, life, accept>>

(* A stage stopped the reading direction: the writing one keeps the queue. *)
ReadingEnds(i) ==
  /\ life[i] = "served"
  /\ life' = [life EXCEPT ![i] = "deaf"]
  /\ UNCHANGED <<received, running, table, queue, read, accept>>

(* Its task ends: the queue closes, the permit is dropped.                 *)
TaskEnds(i) ==
  /\ life[i] \in {"served", "deaf"}
  /\ life' = [life EXCEPT ![i] = "closed"]
  /\ queue' = [queue EXCEPT ![i] = <<>>]
  /\ permits' = permits + 1
  /\ UNCHANGED <<received, running, table, read, pending, accepting>>

Next ==
  \/ \E p \in Peers :
       \/ Delivers(p) \/ Overflows(p) \/ AtCeiling(p) \/ NotAccepted(p)
       \/ Opens(p) \/ FindsNobody(p)
  \/ Stops \/ Accepts \/ StopsAccepting
  \/ \E i \in Ids : Reads(i) \/ ReadingEnds(i) \/ TaskEnds(i)

Spec == Init /\ [][Next]_vars

-----------------------------------------------------------------------------
TypeOK ==
  /\ received \in 0..MaxMessages /\ running \in BOOLEAN /\ accepting \in BOOLEAN
  /\ sessions \in [Peers -> 0..opened] /\ opened \in 0..MaxMessages
  /\ owner \in [Ids -> Peers \cup {None}] /\ opener \in [Ids -> 0..MaxMessages]
  /\ life \in [Ids -> {"none", "pending", "served", "deaf", "closed"}]
  /\ \A i \in Ids : Len(queue[i]) <= SESSION_DEPTH
  /\ \A i \in Ids : Len(read[i]) <= MaxMessages
  /\ Len(pending) <= PENDING_SESSIONS /\ permits \in 0..max_connections

(* "The ceiling is enforced there, not at the accept" (datagrams.md): the  *)
(* sessions that exist, waiting or served, never exceed it, and so what    *)
(* the accept loop takes always finds a permit.                            *)
CeilingHolds ==
  /\ Cardinality({i \in Ids : Live(i)}) <= max_connections
  /\ Cardinality({i \in Ids : life[i] \in {"served", "deaf"}}) + permits = max_connections

(* Two live sessions never answer to the same peer, and each hears only    *)
(* from its own: stage state is per connection.                            *)
OneSessionPerPeer ==
  \A i, j \in Ids : Live(i) /\ Live(j) /\ owner[i] = owner[j] => i = j

(* What a session is given starts with the message that opened it ("its    *)
(* first, not a probe") and goes on in the order of receipt, none twice:   *)
(* messages are dropped at a full queue, never reordered.                  *)
HeardInOrder ==
  \A i \in Ids :
    LET heard == read[i] \o queue[i] IN
    /\ heard # <<>> /\ life[i] # "none" => Head(heard) = opener[i]
    /\ life[i] \in {"pending", "served"} => heard # <<>>
    /\ \A m, n \in 1..Len(heard) : m < n => heard[m] < heard[n]

(* A peer is turned away at the ceiling only by sessions that are alive:   *)
(* "a finished session holds nothing open".                                *)
FullOfLive == Cardinality({i \in Ids : Live(i)}) >= max_connections

(* The table of sessions, at every moment: of its types, below its         *)
(* ceiling, and with one session to a peer.                                *)
SessionsInv == TypeOK /\ CeilingHolds /\ OneSessionPerPeer
=============================================================================

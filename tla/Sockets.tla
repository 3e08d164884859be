------------------------------- MODULE Sockets -------------------------------
(***************************************************************************)
(* How a socket is made: the options every socket scheme shares            *)
(* (endpoint/sockopt.rs), when each is set, and the dials and binds of tcp *)
(* and tcp-listen (tcp.rs), udp and udp-listen (udp.rs), unix, unix-listen *)
(* (unix.rs) and unix-seqpacket-listen (unix/seqpacket.rs).  What happens  *)
(* at a unix path is Paths, and who is heard Messages and Demux.           *)
(***************************************************************************)
EXTENDS Integers, Sequences

CONSTANT MaxAccepted   (* bound on the connections a listener takes        *)

VARIABLES
  scheme,
  asked,     (* the options that were asked for                            *)
  compact,   (* whether on the command line: a config file takes any       *)
  resolved,  (* the addresses of the name: [v4, up]                        *)
  local,     (* the families of the addresses bind= resolves to            *)
  group,     (* the family of the multicast group, or "none"               *)
  step,      (* "start", "socket", "bind", "connect", "listen", "apply",   *)
             (* "open", "failed"                                           *)
  why,
  family,    (* of the socket, once there is one                           *)
  set,       (* when each option was set: "no", "before", "after"          *)
  peer,      (* which address was reached, 0 for none                      *)
  streams    (* the options of each connection that was accepted           *)

vars == <<scheme, asked, compact, resolved, local, group, step, why, family, set, peer, streams>>

Options == {"reuseaddr", "buffer", "nagle", "keepidle", "linger"}
Tcp       == {"tcp", "tcp-listen"}
Unix      == {"unix", "unix-listen", "unix-seqpacket-listen"}
Datagram  == {"udp", "udp-listen"}
Listens   == {"tcp-listen", "unix-listen", "unix-seqpacket-listen"}
Inet      == Tcp \cup Datagram

(* Which options an endpoint of the family takes, and which the kernel     *)
(* refuses it.                                                             *)
option(o) ==
  CASE o = "reuseaddr"             -> scheme \notin Unix
    [] o \in {"nagle", "keepidle"} -> scheme \in Tcp
    [] o = "linger"                -> scheme \notin Datagram
    [] o = "buffer"                -> TRUE

Refused(o) == o \in {"nagle", "keepidle"} /\ scheme \notin Tcp

(* Mutant: only reuseaddr needs the socket first.                          *)
ForReuse == "reuseaddr" \in asked

needs_socket == asked \cap {"reuseaddr", "buffer"} # {}

Early == asked \cap {"reuseaddr", "buffer"}
Late  == asked \ {"reuseaddr"}

Addresses == UNION {[1..n -> [v4 : BOOLEAN, up : BOOLEAN]] : n \in 0..2}
Families  == UNION {[1..n -> BOOLEAN] : n \in 0..2}

Init ==
  /\ scheme \in Inet \cup Unix
  /\ compact \in BOOLEAN
  /\ asked \in {a \in SUBSET Options : compact => \A o \in a : option(o)}
  /\ resolved \in (IF scheme \in Inet THEN Addresses ELSE {<<>>})
  /\ local \in (IF scheme \in {"tcp", "udp"} THEN Families ELSE {<<>>})
  /\ group \in (IF scheme \in Datagram THEN {"none", "v4", "v6"} ELSE {"none"})
  /\ step = "start" /\ why = "none" /\ family = "none"
  /\ set = [o \in Options |-> "no"] /\ peer = 0 /\ streams = <<>>

Given == UNCHANGED <<scheme, asked, compact, resolved, local, group>>
Fails(cause) == step' = "failed" /\ why' = cause
V(v4) == IF v4 THEN "v4" ELSE "v6"

(* A plain connect tries the addresses in turn.                            *)
connect ==
  /\ step = "start" /\ Given
  /\ \/ /\ scheme = "tcp" /\ local = <<>> /\ ~needs_socket
        /\ LET up == {i \in DOMAIN resolved : resolved[i].up}
               first == CHOOSE i \in up : \A j \in up : i <= j
           IN  IF up = {} THEN Fails("unreachable") /\ UNCHANGED <<family, peer>>
               ELSE step' = "apply" /\ peer' = first /\ family' = V(resolved[first].v4) /\ UNCHANGED why
     \/ /\ scheme = "unix"
        /\ \/ step' = "apply" /\ family' = "unix" /\ UNCHANGED <<why, peer>>
           \/ Fails("unreachable") /\ UNCHANGED <<family, peer>>
  /\ UNCHANGED <<set, streams>>

(* Where the socket has to be made first, it is for the first address: of  *)
(* the peer, or for udp with a bind= of its own.                           *)
socket ==
  /\ step = "start" /\ Given
  /\ scheme = "tcp" => local # <<>> \/ needs_socket
  /\ scheme # "unix"
  /\ IF scheme \in Inet /\ resolved = <<>> THEN Fails("unresolved") /\ UNCHANGED family
     ELSE /\ step' = "socket" /\ UNCHANGED why
          /\ family' = IF scheme \in Unix THEN "unix"
                       ELSE IF scheme = "udp" /\ local # <<>> THEN V(local[1])
                       ELSE V(resolved[1].v4)
  /\ UNCHANGED <<set, peer, streams>>

(* unix-seqpacket-listen has no moment for it.                             *)
apply_before ==
  /\ step = "socket" /\ step' = "bind" /\ Given
  /\ set' = IF scheme = "unix-seqpacket-listen" THEN set
            ELSE [o \in Options |-> IF o \in Early THEN "before" ELSE set[o]]
  /\ UNCHANGED <<why, family, peer, streams>>

(* tcp binds the address of bind= that is of the peer's family.            *)
bind ==
  /\ step = "bind" /\ Given
  /\ IF scheme = "tcp" /\ local # <<>> /\ ~\E i \in DOMAIN local : V(local[i]) = family
     THEN Fails("family")
     ELSE \/ /\ step' = CASE scheme \in Listens -> "listen" [] scheme = "tcp" -> "connect"
                          [] scheme \in Datagram -> "apply"
             /\ UNCHANGED why
          \/ Fails("taken")
  /\ UNCHANGED <<family, set, peer, streams>>

(* The connect of a socket made first, to the first address and no other.  *)
ConnectFirst ==
  /\ step = "connect" /\ Given
  /\ IF V(resolved[1].v4) # family THEN Fails("family") /\ UNCHANGED peer
     ELSE IF scheme = "tcp" /\ ~resolved[1].up THEN Fails("unreachable") /\ UNCHANGED peer
     ELSE peer' = 1 /\ step' = (IF scheme = "tcp" THEN "apply" ELSE "open") /\ UNCHANGED why
  /\ UNCHANGED <<family, set, streams>>

(* apply, which sets the buffers again, and for a datagram socket the      *)
(* multicast options by the group's family.  A listener has none of its    *)
(* own, but for unix-seqpacket-listen.                                     *)
apply ==
  /\ step \in {"apply", "listen"} /\ Given
  /\ LET sets == IF step = "listen" /\ scheme # "unix-seqpacket-listen" THEN {} ELSE Late IN
     \/ (\E o \in sets : Refused(o)) /\ Fails("option") /\ UNCHANGED set
     \/ group \notin {"none", family} /\ Fails("group") /\ UNCHANGED set
     \/ /\ \A o \in sets : ~Refused(o)
        /\ group = "v6" => family = "v6"
        /\ set' = [o \in Options |-> IF o \in sets /\ set[o] = "no" THEN "after" ELSE set[o]]
        /\ step' = (IF scheme = "udp" THEN "connect" ELSE "open") /\ UNCHANGED why
  /\ UNCHANGED <<family, peer, streams>>

(* A connection is taken with what its listener set before, and what is    *)
(* set on it; an option that is refused ends the listener.                 *)
accepted ==
  /\ step = "open" /\ scheme \in Listens /\ Len(streams) < MaxAccepted /\ Given
  /\ IF \E o \in Late : Refused(o) THEN Fails("option") /\ UNCHANGED streams
     ELSE /\ streams' = Append(streams, Late \cup {o \in Options : set[o] # "no"})
          /\ UNCHANGED <<step, why>>
  /\ UNCHANGED <<family, set, peer>>

Next == connect \/ socket \/ apply_before \/ bind \/ ConnectFirst \/ apply \/ accepted

Spec == Init /\ [][Next]_vars

-----------------------------------------------------------------------------
(* An option that was asked for on the command line is carried: by the     *)
(* socket of a dial, set before the connect where it only counts then, and *)
(* by every connection a listener takes; and none is refused.  A socket is *)
(* of its peer's family, and a dial with no options reaches whichever      *)
(* address of its name answers.                                            *)
SocketsCarry ==
  /\ step = "open" /\ compact /\ scheme \notin Listens =>
       \A o \in asked : /\ set[o] # "no"
                        /\ o \in {"reuseaddr", "buffer"} /\ scheme \in Inet => set[o] = "before"
  /\ compact /\ scheme \in Tcp \cup {"unix-listen"} => \A i \in DOMAIN streams : asked \subseteq streams[i]
  /\ compact => why # "option"
  /\ peer # 0 => family = V(resolved[peer].v4)
  /\ why = "unreachable" /\ asked = {} /\ local = <<>> => \A i \in DOMAIN resolved : ~resolved[i].up
=============================================================================

------------------------------ MODULE Messages ------------------------------
(***************************************************************************)
(* The message endpoints of one peer: chan (endpoint/chan.rs), udp and     *)
(* udp-listen (udp.rs), unix-dgram and unix-dgram-listen (unix/dgram.rs)   *)
(* and unix-seqpacket (unix/seqpacket.rs), from the bind to what the       *)
(* methods of DatagramSocket (stream.rs) return.  The forked listeners,    *)
(* with a session for each sender, are Demux.                              *)
(*                                                                         *)
(* A message is [from, n, size]; n counts what the queue was given.        *)
(***************************************************************************)
EXTENDS Integers, SequencesExt

CONSTANTS
  Buffer,      (* size of the copy buffer                                  *)
  Queue,       (* messages a queue holds                                   *)
  MaxMessages, (* bound on the messages each way                           *)
  MaxRegisters (* bound on the registrations of a channel's name           *)

VARIABLES
  scheme,     (* of this endpoint                                          *)
  phase,      (* "new", "bound", "learned", "open", "failed"               *)
  peer,       (* whom the kernel lets through: a sender, or Anyone         *)
  first,      (* the sender the endpoint learned                           *)
  inbox,      (* messages queued for this endpoint                         *)
  sent,       (* all that were                                             *)
  pending,    (* UnixDgramSocket::pending                                  *)
  hungup,     (* whether the peer has shut down, or dropped its sender     *)
  got,        (* what recv returned                                        *)
  reader,     (* "open", "eof"                                             *)
  writer,     (* "open", "finished", "error"                               *)
  outbox,     (* [to, n] of the messages that were sent                    *)
  registered, (* the registration under the name, 0 where there is none    *)
  made,       (* registrations so far                                      *)
  claims      (* the registrations that connects have taken                *)

vars == <<scheme, phase, peer, first, inbox, sent, pending, hungup, got, reader, writer, outbox,
          registered, made, claims>>
registry == <<registered, made, claims>>

Schemes   == {"chan", "udp", "udp-listen", "unix-dgram", "unix-dgram-listen", "unix-seqpacket"}
Dials     == {"udp", "unix-dgram"}
Learns    == {"udp-listen", "unix-dgram-listen"}
HasEnd    == {"chan", "unix-seqpacket"}
Anyone    == "anyone"

(* A unix sender that never bound has no address.                          *)
Senders == {"peer", "other"} \cup (IF scheme = "unix-dgram-listen" THEN {"unnamed"} ELSE {})

Message(from, n, size) == [from |-> from, n |-> n, size |-> size]

(* What fits the buffer of a receive, the rest being lost.                 *)
cut(m) == [m EXCEPT !.size = IF @ < Buffer THEN @ ELSE Buffer]

Init ==
  /\ scheme \in Schemes
  /\ phase = "new" /\ peer = Anyone /\ first = Anyone /\ inbox = <<>> /\ sent = <<>>
  /\ pending = <<>> /\ hungup = FALSE /\ got = <<>> /\ reader = "open" /\ writer = "open"
  /\ outbox = <<>> /\ registered = 0 /\ made = 0 /\ claims = <<>>

(***************************************************************************)
(* The embedder of a channel.                                              *)
(***************************************************************************)
(* register replaces what was there, whose messages go with it.            *)
register ==
  /\ scheme = "chan" /\ made < MaxRegisters
  /\ made' = made + 1 /\ registered' = made + 1
  /\ IF phase = "new" THEN inbox' = <<>> /\ sent' = <<>> /\ hungup' = FALSE
                      ELSE UNCHANGED <<inbox, sent, hungup>>
  /\ UNCHANGED <<scheme, phase, peer, first, pending, got, reader, writer, outbox, claims>>

unregister ==
  /\ registered # 0 /\ registered' = 0
  /\ IF phase = "new" THEN inbox' = <<>> /\ sent' = <<>> ELSE UNCHANGED <<inbox, sent>>
  /\ UNCHANGED <<scheme, phase, peer, first, pending, hungup, got, reader, writer, outbox, made, claims>>

(* Another relay that was given the same name.                             *)
ClaimedElsewhere ==
  /\ scheme = "chan" /\ registered # 0
  /\ claims' = Append(claims, registered) /\ registered' = 0
  /\ IF phase = "new" THEN inbox' = <<>> /\ sent' = <<>> ELSE UNCHANGED <<inbox, sent>>
  /\ UNCHANGED <<scheme, phase, peer, first, pending, hungup, got, reader, writer, outbox, made>>

(***************************************************************************)
(* Opening.                                                                *)
(***************************************************************************)
(* Chan::connect, the bind of the others, and the connect of seqpacket.    *)
connect ==
  /\ phase = "new"
  /\ CASE scheme = "chan" ->
            IF registered = 0 THEN phase' = "failed" /\ UNCHANGED <<registry, peer>>
            ELSE /\ phase' = "open" /\ peer' = "peer"
                 /\ claims' = Append(claims, registered) /\ registered' = 0 /\ UNCHANGED made
       [] scheme = "unix-seqpacket" ->
            phase' \in {"open", "failed"} /\ peer' = "peer" /\ UNCHANGED registry
       [] OTHER -> phase' \in {"bound", "failed"} /\ UNCHANGED <<registry, peer>>
  /\ UNCHANGED <<scheme, first, inbox, sent, pending, hungup, got, reader, writer, outbox>>

(* Mutant: the message is received, and only the sender kept.              *)
ReceivesToLearn ==
  /\ phase = "bound" /\ scheme \in Learns /\ inbox # <<>>
  /\ first' = Head(inbox).from /\ inbox' = Tail(inbox) /\ UNCHANGED pending
  /\ phase' = IF first' = "unnamed" THEN "open" ELSE "learned"
  /\ UNCHANGED <<scheme, peer, sent, hungup, got, reader, writer, outbox, registry>>

(* The first datagram names the peer: udp-listen peeks at it, and          *)
(* unix-dgram-listen carries it into the session.                          *)
learn ==
  /\ phase = "bound" /\ scheme \in Learns /\ inbox # <<>>
  /\ first' = Head(inbox).from
  /\ IF scheme = "udp-listen" THEN UNCHANGED <<inbox, pending>>
     ELSE inbox' = Tail(inbox) /\ pending' = <<cut(Head(inbox))>>
  /\ phase' = IF first' = "unnamed" THEN "open" ELSE "learned"
  /\ UNCHANGED <<scheme, peer, sent, hungup, got, reader, writer, outbox, registry>>

(* connect(2), from when the kernel lets one sender through: what others   *)
(* had queued by then stays queued.                                        *)
connect_addr ==
  /\ phase = "learned" \/ (phase = "bound" /\ scheme \in Dials)
  /\ phase' \in {"open", "failed"}
  /\ peer' = IF scheme \in Dials THEN "peer" ELSE first
  /\ UNCHANGED <<scheme, first, inbox, sent, pending, hungup, got, reader, writer, outbox, registry>>

(***************************************************************************)
(* The kernel, and the peer.                                               *)
(***************************************************************************)
Bound == IF scheme = "chan" THEN phase = "open" \/ (phase = "new" /\ registered # 0)
         ELSE phase \in (IF scheme \in HasEnd THEN {"open"} ELSE {"bound", "learned", "open"})

Arrives ==
  /\ Bound /\ ~hungup /\ Len(inbox) < Queue /\ Len(sent) < MaxMessages
  /\ \E from \in (IF scheme \in HasEnd THEN {"peer"} ELSE Senders), size \in 0..(Buffer + 1) :
       /\ peer \in {Anyone, from}
       /\ LET m == Message(from, Len(sent) + 1, size)
          IN  inbox' = Append(inbox, m) /\ sent' = Append(sent, m)
  /\ UNCHANGED <<scheme, phase, peer, first, pending, hungup, got, reader, writer, outbox, registry>>

PeerEnds ==
  /\ scheme \in HasEnd /\ Bound /\ ~hungup /\ hungup' = TRUE
  /\ UNCHANGED <<scheme, phase, peer, first, inbox, sent, pending, got, reader, writer, outbox, registry>>

(***************************************************************************)
(* DatagramSocket.                                                         *)
(***************************************************************************)
(* recv, of which a seqpacket socket cannot tell an empty message from the *)
(* end.                                                                    *)
recv ==
  /\ phase = "open" /\ reader = "open"
  /\ IF pending # <<>> THEN got' = Append(got, cut(pending[1])) /\ pending' = <<>> /\ UNCHANGED <<inbox, reader>>
     ELSE IF inbox # <<>>
     THEN /\ inbox' = Tail(inbox) /\ UNCHANGED pending
          /\ IF scheme = "unix-seqpacket" /\ Head(inbox).size = 0
             THEN reader' = "eof" /\ UNCHANGED got
             ELSE got' = Append(got, cut(Head(inbox))) /\ UNCHANGED reader
     ELSE hungup /\ reader' = "eof" /\ UNCHANGED <<inbox, pending, got>>
  /\ UNCHANGED <<scheme, phase, peer, first, sent, hungup, writer, outbox, registry>>

send ==
  /\ phase = "open" /\ writer = "open" /\ Len(outbox) < MaxMessages
  /\ \/ peer # Anyone /\ outbox' = Append(outbox, [to |-> peer, n |-> Len(outbox) + 1]) /\ UNCHANGED writer
     \/ writer' = "error" /\ UNCHANGED outbox
  /\ UNCHANGED <<scheme, phase, peer, first, inbox, sent, pending, hungup, got, reader, registry>>

finish ==
  /\ phase = "open" /\ writer = "open" /\ writer' = "finished"
  /\ UNCHANGED <<scheme, phase, peer, first, inbox, sent, pending, hungup, got, reader, outbox, registry>>

Next ==
  \/ register \/ unregister \/ ClaimedElsewhere
  \/ connect \/ learn \/ connect_addr
  \/ Arrives \/ PeerEnds \/ recv \/ send \/ finish

Spec == Init /\ [][Next]_vars

-----------------------------------------------------------------------------
(* What recv returns is what was queued, from the first message that       *)
(* opened the path on, in order and cut to the buffer and nothing else;    *)
(* an endpoint with no end has none, and one with an end ends once it has  *)
(* returned what its peer had sent, or at an empty seqpacket message.      *)
(* Replies go to the sender of the first message, or to no one where it    *)
(* had no address, and no registration of a channel is claimed twice.      *)
HeardFromTheFirst ==
  LET heard == got \o pending \o inbox
      stops == reader = "eof" /\ scheme = "unix-seqpacket"
  IN  /\ \A i \in 1..Len(heard) : cut(heard[i]) = cut(sent[i]) \/ (stops /\ i > Len(got))
      /\ Len(heard) = Len(sent) \/ (stops /\ sent[Len(got) + 1].size = 0)
      /\ reader = "eof" => scheme \in HasEnd /\ (~hungup => stops /\ Len(heard) < Len(sent))
      /\ scheme \in Learns =>
           \A i \in 1..Len(outbox) : outbox[i].to = sent[1].from /\ outbox[i].to # "unnamed"
      /\ IsInjective(claims)

(* "Connecting is what makes the kernel filter incoming messages to one    *)
(* sender": an endpoint that is connected hears from its peer alone.  The  *)
(* code does not keep this: what was queued before the connect stays (see  *)
(* README.md).                                                             *)
OnlyFromPeer == peer # Anyone => \A i \in 1..Len(got) : got[i].from = peer
=============================================================================

------------------------------- MODULE Noise -------------------------------
(***************************************************************************)
(* The noise layer (crates/tocat-core/src/endpoint/layer/noise.rs): what   *)
(* each end is given and whether check accepts it, the handshake the two   *)
(* ends then take turns in, each until it opens or fails by itself, and one*)
(* direction of the stream that follows, as records over a connection that *)
(* takes and gives any piece of one.                                       *)
(*                                                                         *)
(* A record is a length byte, its payload and a tag, each in a unit of its *)
(* own: a unit knows the nonce and the key of its record.                  *)
(***************************************************************************)
EXTENDS Integers, SequencesExt

CONSTANTS
  MaxPlain,    (* MAX_PLAINTEXT                                            *)
  Rekeys,      (* values of rekey, 0 where it is not set                   *)
  Room,        (* units the connection holds                               *)
  MaxWritten   (* bound on the bytes written                               *)

VARIABLES
  ends,      (* the pattern, and what the initiator and the responder have *)
  turn,      (* of each end: messages of the handshake it wrote or read    *)
  phase,     (* of each: "check", "handshake", "open", "refused", "failed" *)
  from,      (* the end whose bytes the stream carries                     *)
  every,     (* rekey, of both ends                                        *)
  accepted,  (* bytes poll_write has said it took                          *)
  nonce,     (* sent: records encrypted                                    *)
  buffered,  (* write_buf from write_pos                                   *)
  line,      (* units on the connection                                    *)
  over,      (* "no", "shut" by its writer, "cut"                          *)
  collected, (* read_buf up to read_pos                                    *)
  received,  (* records decrypted                                          *)
  plain, given,  (* decrypted and not handed on; handed on                 *)
  reader     (* "open", "eof", "error"                                     *)

stream == <<every, accepted, nonce, buffered, line, over, collected, received,
            plain, given, reader>>
vars   == <<ends, turn, phase, from, stream>>

End      == {"initiator", "responder"}
Other(e) == CHOOSE o \in End : o # e

(***************************************************************************)
(* Patterns and keys.                                                      *)
(***************************************************************************)
NoPsk == -1
Handshakes ==
  [initiator : {"N", "K", "X", "I"}, responder : {"N", "K", "X"}, psk : {NoPsk} \cup 0..3]

(* How many sources of a secret and of a static key an end was given, and  *)
(* whether it names the peer's key, rightly or not.                        *)
Given == [psk : 0..2, key : 0..2, peer : {"none", "right", "wrong"}]

has_key(letter)          == letter # "N"
known_in_advance(letter) == letter = "K"
messages(h)              == IF h.initiator = "X" THEN 3 ELSE 2
mine(h, listening)       == IF listening THEN h.responder ELSE h.initiator
theirs(h, listening)     == mine(h, ~listening)

(* Noise::check.                                                           *)
check(h, end, listening) ==
  /\ h.psk <= messages(h)
  /\ end.psk = (IF h.psk = NoPsk THEN 0 ELSE 1)
  /\ end.key = (IF has_key(mine(h, listening)) THEN 1 ELSE 0)
  /\ known_in_advance(theirs(h, listening)) => end.peer # "none"
  /\ ~has_key(theirs(h, listening)) => end.peer = "none"

(* Noise::handshake, which asks for a value wherever the builder does.     *)
builds(h, end, listening) ==
  /\ h.psk # NoPsk => end.psk > 0 /\ h.psk <= messages(h)
  /\ has_key(mine(h, listening)) => end.key > 0
  /\ known_in_advance(theirs(h, listening)) => end.peer # "none"

Init ==
  /\ ends \in [pattern : Handshakes, initiator : Given, responder : Given]
  /\ turn = [e \in End |-> 0] /\ phase = [e \in End |-> "check"] /\ from \in End
  /\ every \in Rekeys
  /\ accepted = 0 /\ nonce = 0 /\ buffered = <<>> /\ line = <<>> /\ over = "no"
  /\ collected = <<>> /\ received = 0 /\ plain = <<>> /\ given = <<>> /\ reader = "open"

Checks ==
  /\ \A e \in End : phase[e] = "check"
  /\ phase' = [e \in End |-> IF check(ends.pattern, ends[e], e = "responder")
                            THEN "handshake" ELSE "refused"]
  /\ UNCHANGED <<ends, turn, from, stream>>

(* What an end may know of the other's key, and how it comes to know it.   *)
theirs_of(e) == theirs(ends.pattern, e = "responder")

(* An end was given a key in advance that is not its peer's: the two do not*)
(* make the same of a message that is encrypted, ...                       *)
Mismatch == \E e \in End : known_in_advance(theirs_of(e)) /\ ends[e].peer = "wrong"

(* ... which is every one after the first, and the first if the responder's*)
(* key or a secret goes into it.                                           *)
encrypted(m) == m > 1 \/ ends.pattern.responder = "K" \/ ends.pattern.psk \in {0, 1}

(* An end that fails drops the connection.                                 *)
Fails(e) ==
  /\ phase' = [phase EXCEPT ![e] = "failed"]
  /\ over' = "cut" /\ buffered' = <<>>
  /\ UNCHANGED <<every, accepted, nonce, line, collected, received, plain, given, reader>>

Shaking(e) == phase[e] = "handshake" /\ phase[Other(e)] \notin {"check", "refused"}
MyTurn(e)  == (turn[e] % 2 = 0) = (e = "initiator")
Goes(e)    == turn' = [turn EXCEPT ![e] = @ + 1]

(* run: whoever's turn it is writes ...                                    *)
WritesMessage(e) ==
  /\ Shaking(e) /\ turn[e] < messages(ends.pattern) /\ MyTurn(e)
  /\ Goes(e) /\ UNCHANGED <<ends, phase, from, stream>>

(* ... and the other reads, once it is there.                              *)
ReadsMessage(e) ==
  /\ Shaking(e) /\ turn[e] < messages(ends.pattern) /\ ~MyTurn(e) /\ turn[Other(e)] > turn[e]
  /\ IF Mismatch /\ encrypted(turn[e] + 1) THEN Fails(e) /\ UNCHANGED turn
     ELSE Goes(e) /\ UNCHANGED <<phase, stream>>
  /\ UNCHANGED <<ends, from>>

(* A connection that was dropped ends a handshake that needs it.           *)
LosesPeer(e) ==
  /\ Shaking(e) /\ over = "cut" /\ Fails(e)
  /\ UNCHANGED <<ends, turn, from>>

(* Whether the key that came in the handshake is the one an end names: one *)
(* that was known in advance is what it was given.                         *)
PinHolds(e) == known_in_advance(theirs_of(e)) \/ ends[e].peer # "wrong"

(* And then each end opens, or refuses, by itself: the one that wrote the  *)
(* last message before the other has read it.                              *)
Pins(e) ==
  /\ Shaking(e) /\ turn[e] = messages(ends.pattern)
  /\ IF PinHolds(e) THEN phase' = [phase EXCEPT ![e] = "open"] /\ UNCHANGED stream ELSE Fails(e)
  /\ UNCHANGED <<ends, turn, from>>

(***************************************************************************)
(* The stream, in one direction.                                           *)
(***************************************************************************)
Key(n)  == IF every = 0 THEN 0 ELSE n \div every

(* The n-th record, of bytes first to last: what the reader must find is   *)
(* the nonce it counts and the key it has come to.                         *)
Record(n, first, last) ==
  LET unit(kind, byte) == [nonce |-> n, key |-> Key(n), kind |-> kind, byte |-> byte,
                           size |-> last - first + 2]
  IN  <<unit("length", 0)>> \o [i \in 1..(last - first + 1) |-> unit("payload", first + i - 1)]
        \o <<unit("tag", 0)>>

CanWrite == phase[from] = "open"
CanRead  == phase[Other(from)] = "open"

(* poll_send, as far as the connection takes it.                           *)
Sends(k, bytes) ==
  /\ k \in 0..Len(bytes) /\ Len(line) + k <= Room
  /\ line' = line \o SubSeq(bytes, 1, k)
  /\ buffered' = SubSeq(bytes, k + 1, Len(bytes))

(* Mutant: the next record is made over what is left of the last.          *)
WritesOver(n) ==
  /\ CanWrite /\ over = "no" /\ accepted + n <= MaxWritten
  /\ LET take == IF n < MaxPlain THEN n ELSE MaxPlain
     IN /\ accepted' = accepted + take /\ nonce' = nonce + 1
        /\ \E k \in 0..Room : Sends(k, Record(nonce, accepted + 1, accepted + take))
  /\ UNCHANGED <<ends, turn, phase, from, every, over, collected, received, plain, given, reader>>

(* poll_write of n bytes, once poll_send has found nothing left to send.   *)
poll_write(n) ==
  /\ CanWrite /\ over = "no" /\ buffered = <<>> /\ accepted + n <= MaxWritten
  /\ LET take == IF n < MaxPlain THEN n ELSE MaxPlain
     IN /\ accepted' = accepted + take /\ nonce' = nonce + 1
        /\ \E k \in 0..Room : Sends(k, Record(nonce, accepted + 1, accepted + take))
  /\ UNCHANGED <<ends, turn, phase, from, every, over, collected, received, plain, given, reader>>

(* A peer may send a record of no payload, which another noise stack does. *)
EmptyRecord ==
  /\ CanWrite /\ over = "no" /\ buffered = <<>> /\ nonce < MaxWritten
  /\ nonce' = nonce + 1
  /\ \E k \in 0..Room : Sends(k, Record(nonce, accepted + 1, accepted))
  /\ UNCHANGED <<ends, turn, phase, from, every, accepted, over, collected, received, plain, given, reader>>

(* poll_send at the head of a poll that stays pending, or of poll_flush.   *)
poll_send ==
  /\ CanWrite /\ over = "no" /\ buffered # <<>>
  /\ \E k \in 1..Room : Sends(k, buffered)
  /\ UNCHANGED <<ends, turn, phase, from, every, accepted, nonce, over, collected, received, plain, given, reader>>

(* poll_shutdown pushes the record out first; a connection may be cut.     *)
poll_shutdown ==
  /\ CanWrite /\ over = "no" /\ buffered = <<>> /\ over' = "shut"
  /\ UNCHANGED <<ends, turn, phase, from, every, accepted, nonce, buffered, line, collected, received, plain, given, reader>>

Cut ==
  /\ (\E e \in End : Shaking(e) \/ phase[e] = "open") /\ over # "cut" /\ over' = "cut" /\ buffered' = <<>>
  /\ \E k \in 0..Len(line) : line' = SubSeq(line, 1, k)
  /\ UNCHANGED <<ends, turn, phase, from, every, accepted, nonce, collected, received, plain, given, reader>>

(* How many units the read side is after: the length, then the body.       *)
Needs == IF collected = <<>> THEN 1 ELSE collected[1].size + 1 - Len(collected)

(* Whether the record decrypts under the nonce and the key that are next.  *)
Authentic(units) ==
  \A i \in 1..Len(units) : units[i].nonce = received /\ units[i].key = Key(received)
                           /\ units[i].size = units[1].size

(* What is between the length and the tag.                                 *)
Payload(units) == [i \in 1..(Len(units) - 2) |-> units[i + 1].byte]

(* poll_read, collecting what the connection has.                          *)
Collects ==
  /\ CanRead /\ reader = "open" /\ plain = <<>> /\ line # <<>>
  /\ \E k \in 1..Needs :
       /\ k <= Len(line)
       /\ line' = SubSeq(line, k + 1, Len(line))
       /\ LET units == collected \o SubSeq(line, 1, k)
              whole == Len(units) = units[1].size + 1
          IN IF ~whole THEN collected' = units /\ UNCHANGED <<received, plain, reader>>
             ELSE IF ~Authentic(units)
                  THEN reader' = "error" /\ UNCHANGED <<collected, received, plain>>
                  ELSE /\ plain' = Payload(units) /\ received' = received + 1
                       /\ collected' = <<>> /\ UNCHANGED reader
  /\ UNCHANGED <<ends, turn, phase, from, every, accepted, nonce, buffered, over, given>>

(* poll_read, handing on what was decrypted to a buffer of any size.       *)
HandsOn ==
  /\ CanRead /\ plain # <<>>
  /\ \E n \in 1..Len(plain) :
       given' = given \o SubSeq(plain, 1, n) /\ plain' = SubSeq(plain, n + 1, Len(plain))
  /\ UNCHANGED <<ends, turn, phase, from, every, accepted, nonce, buffered, line, over, collected, received, reader>>

(* poll_read at the end of the connection.                                 *)
ReadsEnd ==
  /\ CanRead /\ reader = "open" /\ plain = <<>> /\ line = <<>> /\ over # "no"
  /\ reader' = IF collected = <<>> THEN "eof" ELSE "error"
  /\ UNCHANGED <<ends, turn, phase, from, every, accepted, nonce, buffered, line, over, collected, received, plain, given>>

Next ==
  \/ Checks
  \/ \E e \in End : WritesMessage(e) \/ ReadsMessage(e) \/ LosesPeer(e) \/ Pins(e)
  \/ EmptyRecord \/ poll_send \/ poll_shutdown \/ Cut \/ (\E n \in 1..MaxWritten : poll_write(n))
  \/ Collects \/ HandsOn \/ ReadsEnd

Spec == Init /\ [][Next]_vars

-----------------------------------------------------------------------------
(* "check has already rejected the combinations that cannot work": ends    *)
(* that pass it find in handshake all that the pattern needs.  An end does *)
(* not open to a peer whose key, sent to it, is not the one it names; it   *)
(* may open alone, to a peer that then refuses it or with a wrong key it   *)
(* had from the start, but not both do, and nothing is ever read.          *)
KeysSuffice ==
  /\ \A e \in End : phase[e] \notin {"check", "refused"} =>
       builds(ends.pattern, ends[e], e = "responder") /\ ends[e].key <= 1
  /\ \A e \in End : phase[e] = "open" => PinHolds(e)
  /\ (CanWrite /\ CanRead) \/ received > 0 => \A e \in End : ends[e].peer # "wrong"

(* "Records have to reach the peer in the order they were made": however   *)
(* the connection takes and gives them, what is read is what was written,  *)
(* no record fails to decrypt, and the stream ends well only where it was  *)
(* shut, with all that was written, or was cut between two records, as it  *)
(* is by a peer that refuses the pairing.                                  *)
ReadAsWritten ==
  CanRead =>
    /\ given \o plain = [i \in 1..(Len(given) + Len(plain)) |-> i]
    /\ Len(given) <= accepted
    /\ reader = "error" => over = "cut"
    /\ reader = "eof" => over # "no" /\ (over = "shut" => Len(given) = accepted)
=============================================================================

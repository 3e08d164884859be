------------------------------ MODULE Framing ------------------------------
(***************************************************************************)
(* frame and unframe (crates/tocat-plugins/src/frame.rs): messages put on  *)
(* a byte stream by one, cut anywhere on the way by the wire and the reads *)
(* of the other end, and found again by the other.                         *)
(*                                                                         *)
(* Bytes are few, so that payloads meet every special one: numbers are     *)
(* written in base 2, a COBS block holds Block bytes.  What a call emits   *)
(* reaches the stages below when it returns, and not if it fails.          *)
(***************************************************************************)
EXTENDS Integers, SequencesExt

CONSTANTS
  Delimiters,    (* terminators of delimiter mode                          *)
  Widths,        (* of a length header                                     *)
  Block,         (* COBS_BLOCK                                             *)
  Digits,        (* NETSTRING_DIGITS                                       *)
  MaxMessage,    (* max-message of unframe                                 *)
  MaxLen,        (* bound on the length of a message                       *)
  MaxTotal,      (* bound on the bytes sent, all messages together         *)
  MaxNoise       (* bound on the bytes of a peer that does not frame       *)

VARIABLES
  conf,       (* the options, the same at both ends                        *)
  peer,       (* "frame", or "noise": it frames otherwise, or not at all   *)
  sent,       (* messages framed                                           *)
  refused,    (* the one frame would not take, or <<>>                     *)
  closed,     (* the peer is done                                          *)
  cut,        (* and took back bytes it had sent                           *)
  wire,       (* bytes written and not read                                *)
  read,       (* bytes read                                                *)
  buf,        (* of unframe: the bytes not yet accounted for               *)
  scanned,    (* how many of them hold no terminator                       *)
  emitting,   (* the units of the call at hand                             *)
  busy,       (* unframe is in on_bytes                                    *)
  delivered,  (* units handed to the stage below                           *)
  status      (* of unframe's path: "open", "ended", "failed"              *)

sender   == <<conf, peer, sent, refused, closed, cut>>
unframer == <<buf, scanned, emitting, busy, delivered, status>>
vars     == <<sender, wire, read, unframer>>

Escaping == {"cobs", "slip"}
Counted  == {"length", "netstring"}

END == 0
ESC == 1
ESC_END == 2
ESC_ESC == 3
COLON == 2
COMMA == 3
Byte == 0..3

SeqUpTo(S, n) == UNION {[1..k -> S] : k \in 0..n}

(* Bytes of the payload, those its mode gives a meaning among them.        *)
PayloadByte(mode) ==
  CASE mode = "slip" -> {END, ESC, ESC_END}
    [] mode = "netstring" -> {1, COLON, COMMA}
    [] mode = "delimiter" -> {1, 2}
    [] OTHER -> {0, 1}

Options(mode) ==
  [mode : {mode},
   terminator : CASE mode = "delimiter" -> Delimiters
                  [] mode = "cobs" -> { <<0>> }
                  [] mode = "slip" -> { <<END>> }
                  [] OTHER -> { <<>> },
   width : IF mode = "length" THEN Widths ELSE {0},
   endian : IF mode = "length" THEN {"big", "little"} ELSE {"big"},
   check : IF mode = "delimiter" THEN BOOLEAN ELSE {TRUE},
   at_eof : CASE mode = "null" -> {"error"}
              [] mode \in Counted -> {"error", "drop"}
              [] OTHER -> {"emit", "error", "drop"}]

(* In a length header every byte is a digit.                               *)
NoiseByte(mode) == IF mode = "length" THEN {0, 1} ELSE Byte

Modes == {"delimiter", "null"} \cup Escaping \cup Counted

Init ==
  /\ \E mode \in Modes : conf \in Options(mode)
  /\ \/ peer = "frame" /\ wire = <<>> /\ closed = FALSE
     \/ peer = "noise" /\ wire \in SeqUpTo(NoiseByte(conf.mode), MaxNoise) /\ closed = TRUE
  /\ sent = <<>> /\ refused = <<>> /\ cut = FALSE /\ read = <<>>
  /\ buf = <<>> /\ scanned = 0 /\ emitting = <<>> /\ busy = FALSE
  /\ delivered = <<>> /\ status = "open"

term == conf.terminator

(* Where the needle first begins, or 0.                                    *)
find(haystack, needle) ==
  SelectInSeq([i \in 1..(Len(haystack) - Len(needle) + 1) |->
                 SubSeq(haystack, i, i + Len(needle) - 1)],
              LAMBDA window : window = needle)

(***************************************************************************)
(* The codecs.                                                             *)
(***************************************************************************)
(* A block's code byte is one more than the bytes it holds; one that is    *)
(* not full stands for a zero byte behind it.                              *)
CobsBlock(bytes) == <<Len(bytes) + 1>> \o bytes

cobs_encode(message) ==
  LET Add(s, byte) ==
        IF byte # 0 /\ Len(s.block) + 1 < Block THEN [s EXCEPT !.block = Append(@, byte)]
        ELSE [out   |-> s.out \o CobsBlock(IF byte = 0 THEN s.block
                                           ELSE Append(s.block, byte)),
              block |-> <<>>]
      end == FoldLeft(Add, [out |-> <<>>, block |-> <<>>], message)
  IN  end.out \o CobsBlock(end.block)

Undecodable == [ok |-> FALSE, out |-> <<>>]

cobs_decode(frame) ==
  LET Add(s, byte) ==
        IF s.more > 0 THEN [s EXCEPT !.out = Append(@, byte), !.more = @ - 1]
        ELSE [out  |-> s.out \o IF s.code = 0 \/ s.code > Block THEN <<>> ELSE <<0>>,
              code |-> byte, more |-> byte - 1, ok |-> s.ok /\ byte # 0]
      end == FoldLeft(Add, [out |-> <<>>, code |-> 0, more |-> 0, ok |-> TRUE], frame)
  IN  IF frame # <<>> /\ end.ok /\ end.more = 0 THEN [ok |-> TRUE, out |-> end.out]
      ELSE Undecodable

SlipByte(byte) ==
  CASE byte = END -> <<ESC, ESC_END>>
    [] byte = ESC -> <<ESC, ESC_ESC>>
    [] OTHER      -> <<byte>>

slip_encode(message) == FlattenSeq([i \in 1..Len(message) |-> SlipByte(message[i])])

slip_decode(frame) ==
  LET Add(s, byte) ==
        IF ~s.escaped
        THEN IF byte = ESC THEN [s EXCEPT !.escaped = TRUE]
             ELSE [s EXCEPT !.out = Append(@, byte)]
        ELSE [out |-> Append(s.out, IF byte = ESC_END THEN END ELSE ESC),
              escaped |-> FALSE, ok |-> s.ok /\ byte \in {ESC_END, ESC_ESC}]
      end == FoldLeft(Add, [out |-> <<>>, escaped |-> FALSE, ok |-> TRUE], frame)
  IN  IF end.ok /\ ~end.escaped THEN [ok |-> TRUE, out |-> end.out] ELSE Undecodable

Decoded(frame) ==
  CASE conf.mode = "cobs" -> cobs_decode(frame)
    [] conf.mode = "slip" -> slip_decode(frame)
    [] OTHER -> [ok |-> TRUE, out |-> frame]

(* Numbers, most significant digit first.                                  *)
Value(digits) == FoldLeft(LAMBDA n, d : 2 * n + d, 0, digits)

Decimal(n) == CHOOSE ds \in SeqUpTo({0, 1}, Digits) :
                Value(ds) = n /\ ds # <<>> /\ (Len(ds) > 1 => ds[1] # 0)

Fixed(n) == CHOOSE ds \in [1..conf.width -> {0, 1}] : Value(ds) = n

ceiling == 2 ^ conf.width - 1

Ordered(digits) == IF conf.endian = "big" THEN digits ELSE Reverse(digits)

(***************************************************************************)
(* Frame.                                                                  *)
(***************************************************************************)
(* A terminator inside, or one that the terminator completes too early:    *)
(* only the join of the message's end and the terminator can hold it.      *)
ambiguous(message) ==
  LET overlap == Len(term) - 1
      join    == SubSeq(message, Len(message) - (IF overlap < Len(message) THEN overlap
                                                 ELSE Len(message)) + 1, Len(message))
                   \o term
  IN  \/ find(message, term) # 0
      \/ overlap # 0 /\ find(join, term) # Len(join) - Len(term) + 1

Refuses(message) ==
  CASE conf.mode = "delimiter" -> conf.check /\ ambiguous(message)
    [] conf.mode = "length"    -> Len(message) > ceiling
    [] OTHER                   -> FALSE

Framed(message) ==
  CASE conf.mode = "cobs"      -> cobs_encode(message) \o term
    [] conf.mode = "slip"      -> slip_encode(message) \o term
    [] conf.mode = "length"    -> Ordered(Fixed(Len(message))) \o message
    [] conf.mode = "netstring" -> Decimal(Len(message)) \o <<COLON>> \o message \o <<COMMA>>
    [] OTHER                   -> message \o term

Writing == peer = "frame" /\ ~closed

Total == Len(FlattenSeq(sent))
Room  == IF MaxTotal - Total < MaxLen THEN MaxTotal - Total ELSE MaxLen

Sends ==
  /\ Writing
  /\ \E m \in SeqUpTo(PayloadByte(conf.mode), Room) \ { <<>> } :
       IF Refuses(m)
       THEN refused' = m /\ closed' = TRUE /\ UNCHANGED <<sent, wire>>
       ELSE /\ sent' = Append(sent, m) /\ wire' = wire \o Framed(m)
            /\ UNCHANGED <<refused, closed>>
  /\ UNCHANGED <<conf, peer, cut, read, unframer>>

Closes ==
  /\ Writing
  /\ closed' = TRUE
  /\ UNCHANGED <<conf, peer, sent, refused, cut, wire, read, unframer>>

(* The connection ends before everything written has arrived.              *)
CutsOff ==
  /\ Writing
  /\ \E n \in 0..(Len(wire) - 1) : wire' = SubSeq(wire, 1, n)
  /\ closed' = TRUE /\ cut' = TRUE
  /\ UNCHANGED <<conf, peer, sent, refused, read, unframer>>

(***************************************************************************)
(* Unframe.                                                                *)
(***************************************************************************)
Incomplete(upTo) == [kind |-> "incomplete", scanned |-> upTo]
Malformed        == [kind |-> "error"]
Message(payload, consumed) ==
  [kind |-> "message", payload |-> payload, consumed |-> consumed]

(* A terminator can straddle the join with the next chunk, so the last few *)
(* bytes are searched again.                                               *)
Searched(pending) ==
  IF Len(pending) < Len(term) THEN 0 ELSE Len(pending) - (Len(term) - 1)

step_terminated(pending, from) ==
  LET at  == find(SubSeq(pending, from + 1, Len(pending)), term)
      end == from + at - 1
      msg == Decoded(SubSeq(pending, 1, end))
  IN  IF at = 0 THEN Incomplete(Searched(pending))
      ELSE IF msg.ok THEN Message(msg.out, end + Len(term))
      ELSE Malformed

(* check_declared.                                                         *)
TooBig(len) == len > MaxMessage

step_length(pending) ==
  LET len == Value(Ordered(SubSeq(pending, 1, conf.width)))
      end == conf.width + len
  IN  IF Len(pending) < conf.width THEN Incomplete(0)
      ELSE IF TooBig(len) THEN Malformed
      ELSE IF Len(pending) < end THEN Incomplete(0)
      ELSE Message(SubSeq(pending, conf.width + 1, end), end)

(* parse_netstring_length refuses anything but a canonical number.         *)
Canonical(digits) ==
  /\ digits # <<>> /\ ToSet(digits) \subseteq {0, 1}
  /\ Len(digits) > 1 => digits[1] # 0

step_netstring(pending) ==
  LET colon  == find(SubSeq(pending, 1, IF Len(pending) < Digits + 1 THEN Len(pending)
                                        ELSE Digits + 1), <<COLON>>)
      digits == SubSeq(pending, 1, colon - 1)
      end    == colon + Value(digits)
  IN  IF colon = 0 THEN IF Len(pending) > Digits THEN Malformed ELSE Incomplete(0)
      ELSE IF ~Canonical(digits) \/ TooBig(Value(digits)) THEN Malformed
      ELSE IF Len(pending) <= end THEN Incomplete(0)
      ELSE IF pending[end + 1] # COMMA THEN Malformed
      ELSE Message(SubSeq(pending, colon + 1, end), end + 1)

step(pending, from) ==
  CASE conf.mode = "length"    -> step_length(pending)
    [] conf.mode = "netstring" -> step_netstring(pending)
    [] OTHER                   -> step_terminated(pending, from)

slack ==
  CASE conf.mode = "length"    -> conf.width
    [] conf.mode = "netstring" -> Digits + 2
    [] OTHER                   -> Len(term) - 1

check_held(pending) == Len(pending) <= MaxMessage + slack

(* ctx.forward and ctx.boundary: nothing forwarded is no unit.             *)
Emitted(units, message) == IF message = <<>> THEN units ELSE Append(units, message)

Open == status = "open" /\ ~busy

(* on_bytes begins, with what a read returned; null hands it on.           *)
Reads ==
  /\ Open
  /\ \E n \in 1..Len(wire) :
       /\ read' = read \o SubSeq(wire, 1, n)
       /\ wire' = SubSeq(wire, n + 1, Len(wire))
       /\ IF conf.mode = "null"
          THEN delivered' = Append(delivered, SubSeq(wire, 1, n)) /\ UNCHANGED <<buf, busy>>
          ELSE buf' = buf \o SubSeq(wire, 1, n) /\ busy' = TRUE /\ UNCHANGED delivered
  /\ UNCHANGED <<sender, scanned, emitting, status>>

(* Mutant: the search goes on from where the last one was.                 *)
TakesKeepingScanned ==
  LET s == step(buf, scanned)
  IN  /\ busy /\ s.kind = "message"
      /\ emitting' = Emitted(emitting, s.payload)
      /\ buf' = SubSeq(buf, s.consumed + 1, Len(buf))
      /\ UNCHANGED <<sender, wire, read, scanned, busy, delivered, status>>

TakesMessage ==
  LET s == step(buf, scanned)
  IN  /\ busy /\ s.kind = "message"
      /\ emitting' = Emitted(emitting, s.payload)
      /\ buf' = SubSeq(buf, s.consumed + 1, Len(buf))
      /\ scanned' = 0
      /\ UNCHANGED <<sender, wire, read, busy, delivered, status>>

(* Nothing more to find: the call returns, unless too much is held.        *)
ReturnsFromBytes ==
  LET s == step(buf, scanned)
  IN  /\ busy /\ s.kind = "incomplete"
      /\ busy' = FALSE /\ emitting' = <<>> /\ scanned' = s.scanned
      /\ IF check_held(buf)
         THEN delivered' = delivered \o emitting /\ UNCHANGED status
         ELSE status' = "failed" /\ UNCHANGED delivered
      /\ UNCHANGED <<sender, wire, read, buf>>

FailsOnBytes ==
  /\ busy /\ step(buf, scanned).kind = "error"
  /\ status' = "failed" /\ busy' = FALSE /\ emitting' = <<>>
  /\ UNCHANGED <<sender, wire, read, buf, scanned, delivered>>

(* Mutant: what is held at the end is dropped.                             *)
EndsForgetting ==
  /\ Open /\ closed /\ wire = <<>>
  /\ status' = "ended"
  /\ UNCHANGED <<sender, wire, read, buf, scanned, emitting, busy, delivered>>

(* on_eof.                                                                 *)
Ends ==
  LET rest == Decoded(buf)
      lost == conf.at_eof = "error" \/ (conf.at_eof = "emit" /\ ~rest.ok)
  IN  /\ Open /\ closed /\ wire = <<>>
      /\ status' = IF buf # <<>> /\ lost THEN "failed" ELSE "ended"
      /\ IF buf # <<>> /\ ~lost
         THEN /\ buf' = <<>> /\ scanned' = 0
              /\ delivered' = IF conf.at_eof = "emit" THEN Emitted(delivered, rest.out)
                              ELSE delivered
         ELSE UNCHANGED <<buf, scanned, delivered>>
      /\ UNCHANGED <<sender, wire, read, emitting, busy>>

Next ==
  \/ Sends \/ Closes \/ CutsOff
  \/ Reads \/ TakesMessage \/ ReturnsFromBytes \/ FailsOnBytes \/ Ends

Spec == Init /\ [][Next]_vars
-----------------------------------------------------------------------------
(***************************************************************************)
(* Properties.                                                             *)
(***************************************************************************)
(* Types, and a search that has overlooked nothing: what is marked as      *)
(* searched holds no terminator, nor the beginning of one.                 *)
TypeOK ==
  /\ status \in {"open", "ended", "failed"}
  /\ ToSet(buf) \cup ToSet(wire) \cup ToSet(read) \subseteq Byte
  /\ scanned \in 0..Len(buf)
  /\ scanned > 0 => /\ scanned + Len(term) - 1 <= Len(buf)
                    /\ find(SubSeq(buf, 1, scanned + Len(term) - 1), term) = 0

Faithful == peer = "frame" /\ conf.check /\ conf.mode # "null"

(* However the wire and the reads cut the stream, what arrives is the      *)
(* messages that were sent, one unit for each, in order; and each as soon  *)
(* as its last byte does.                                                  *)
ReadAsSent ==
  Faithful /\ status = "open" =>
    /\ IsPrefix(delivered \o emitting, sent)
    /\ Open /\ wire = <<>> /\ ~cut => delivered = sent /\ buf = <<>>

(* The units a stream holds, read byte by byte.                            *)
ByteByByte(bytes) ==
  FoldLeft(LAMBDA s, b :
             LET pending == Append(s.pending, b)
                 found   == step(pending, 0)
             IN  IF found.kind = "message"
                 THEN [pending |-> <<>>, units |-> Emitted(s.units, found.payload)]
                 ELSE [s EXCEPT !.pending = pending],
           [pending |-> <<>>, units |-> <<>>], bytes)

(* A peer that frames otherwise is misread the same way by every cutting.  *)
ChunkingIsInvisible ==
  Open /\ conf.mode # "null" =>
    delivered = ByteByByte(read).units /\ buf = ByteByByte(read).pending

(* "The limit is on what is held, not on what passes", and it is kept.     *)
HeldIsBounded == Open => Len(buf) <= MaxMessage + slack

(* max-message "means the message rather than the frame": no message of    *)
(* that size is refused, wherever the stream is cut.  COBS and SLIP hold   *)
(* escaped bytes, of which a message may have more.                        *)
MaxMeansMessage ==
  /\ Faithful /\ conf.mode \notin Escaping /\ status = "failed"
  /\ conf.at_eof # "error"
  => \E i \in DOMAIN sent : Len(sent[i]) > MaxMessage

(* Frame refuses no message that the other end would have read as sent.    *)
RefusedRightly ==
  refused # <<>> =>
    IF conf.mode = "delimiter" THEN ByteByByte(Framed(refused)).units # <<refused>>
    ELSE Len(refused) >= 2 ^ conf.width

(* A path that ends well, when it was not told to drop or to emit the      *)
(* rest, has delivered every byte that it read.                            *)
EndsOnAMessage ==
  Faithful /\ status = "ended" /\ conf.at_eof = "error" =>
    /\ IsPrefix(delivered, sent)
    /\ read = FlattenSeq([i \in 1..Len(delivered) |-> Framed(delivered[i])])

(* What unframe holds back: searched without oversight, and limited to the *)
(* size of a message, no less and no more.                                 *)
LimitsHold == TypeOK /\ HeldIsBounded /\ MaxMeansMessage
=============================================================================

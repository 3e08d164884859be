------------------------------- MODULE Coding -------------------------------
(***************************************************************************)
(* The codecs that turn a stream into another of a different length:       *)
(* base64, hexify and compress, each with the stage that undoes it         *)
(* (base64.rs, hexify.rs, compress.rs of crates/tocat-plugins/src).  The   *)
(* first two encode a message per call and decode one per call, so they    *)
(* depend on unframe to bring messages whole; compress keeps its own       *)
(* blocks and is read in any pieces.                                       *)
(*                                                                         *)
(* A byte is its place in the stream; a character knows the group of bytes *)
(* it encodes, and its place in it.                                        *)
(***************************************************************************)
EXTENDS Integers, SequencesExt

CONSTANT MaxBytes  (* bound on the bytes of the stream                     *)

VARIABLES
  conf, sent,
  pending,    (* bytes zstd holds and has put in no block                  *)
  coder,      (* "open", "ended"                                           *)
  wire,
  cut,        (* the connection ended before the coder did                 *)
  held,       (* characters of a block that is not whole                   *)
  delivered, decoder  (* what came out, and "open", "ended", "failed"      *)

vars == <<conf, sent, pending, coder, wire, cut, held, delivered, decoder>>

Garbage == 0

(* framed: unframe is ahead of the decoder.  pads: the peer writes the     *)
(* padding of base64, as the stage does and others need not.               *)
Accepted ==
  [codec : {"base64"}, framed : BOOLEAN, pads : BOOLEAN, accept_unpadded : BOOLEAN, flush : {TRUE}]
    \cup [codec : {"hexify"}, framed : BOOLEAN, pads : {TRUE}, accept_unpadded : {FALSE}, flush : {TRUE}]
    \cup [codec : {"compress"}, framed : {FALSE}, pads : {TRUE}, accept_unpadded : {FALSE}, flush : BOOLEAN]

Init ==
  /\ conf \in Accepted
  /\ sent = 0 /\ pending = 0 /\ coder = "open" /\ wire = <<>> /\ cut = FALSE
  /\ held = <<>> /\ delivered = <<>> /\ decoder = "open"

compresses == conf.codec = "compress"
Bytes == IF conf.codec = "base64" THEN 3 ELSE 1
Width == IF conf.codec = "base64" THEN 4 ELSE 2

(***************************************************************************)
(* Encoding.                                                               *)
(***************************************************************************)
(* The characters of a group of n bytes: a header comes with a block.      *)
Size(n) == IF compresses \/ ~conf.pads THEN n + 1 ELSE Width

Group(first, n, last) ==
  [k \in 1..Size(n) |-> [first |-> first, bytes |-> n, at |-> k, ends |-> last /\ k = Size(n)]]

Message(first, n) ==
  LET groups == (n + Bytes - 1) \div Bytes
      size(g) == IF g < groups THEN Bytes ELSE n - Bytes * (groups - 1)
  IN FlattenSeq([g \in 1..groups |-> Group(first + Bytes * (g - 1), size(g), g = groups)])

(* Base64::on_bytes and Hexify::on_bytes, which skip an empty message.     *)
Encode(n) ==
  /\ ~compresses /\ coder = "open" /\ sent + n <= MaxBytes
  /\ sent' = sent + n /\ wire' = wire \o Message(sent + 1, n)
  /\ UNCHANGED <<conf, pending, coder, cut, held, delivered, decoder>>

(* Compress::on_bytes: zstd keeps what it likes unless it is flushed.      *)
Compress(n) ==
  /\ compresses /\ coder = "open" /\ sent + n <= MaxBytes
  /\ sent' = sent + n
  /\ \E kept \in 0..(pending + n) :
       /\ conf.flush => kept = 0
       /\ pending' = kept
       /\ wire' = IF kept = pending + n THEN wire
                  ELSE wire \o Group(sent - pending + 1, pending + n - kept, TRUE)
  /\ UNCHANGED <<conf, coder, cut, held, delivered, decoder>>

(* Compress::on_eof closes the frame: the rest, and an epilogue.           *)
on_eof ==
  /\ coder = "open" /\ coder' = "ended" /\ pending' = 0
  /\ wire' = IF ~compresses THEN wire
             ELSE wire \o (IF pending = 0 THEN <<>> ELSE Group(sent - pending + 1, pending, TRUE))
                       \o Group(sent + 1, 0, TRUE)
  /\ UNCHANGED <<conf, sent, cut, held, delivered, decoder>>

(* The connection ends, and part of what was written is gone.              *)
Cut ==
  /\ ~conf.framed /\ ~cut /\ cut' = TRUE
  /\ \E n \in 0..Len(wire) : wire' = SubSeq(wire, 1, n)
  /\ UNCHANGED <<conf, sent, pending, coder, held, delivered, decoder>>

(***************************************************************************)
(* Decoding.                                                               *)
(***************************************************************************)
Cells(chunk) ==
  [i \in 1..((Len(chunk) + Width - 1) \div Width) |->
     SubSeq(chunk, Width * (i - 1) + 1, IF Width * i < Len(chunk) THEN Width * i ELSE Len(chunk))]

IsPadding(c)  == c.at > c.bytes + 1
Values(cell)  == SelectSeq(cell, LAMBDA c : ~IsPadding(c))
Aligned(cell) == \A i \in 1..Len(cell) : cell[i].first = cell[1].first /\ cell[i].at = i
Complete(cell) == Aligned(cell) /\ Len(Values(cell)) = cell[1].bytes + 1

(* Mutant: whatever is missing of the last group is taken for padding.     *)
PadsAnything(chunk) == FALSE

(* Unbase64::on_bytes and Unhexify::on_bytes: not a whole number of        *)
(* groups, beyond what accept-unpadded restores.                           *)
Misframed(chunk) ==
  LET remainder == Len(chunk) % Width
  IN remainder # 0 /\ (remainder = 1 \/ ~conf.accept_unpadded)

(* What no decoder takes: padding that is not at the end.                  *)
Malformed(cells) ==
  \E i \in 1..Len(cells) :
    LET values == Values(cells[i])
    IN \/ Len(values) < 2
       \/ \E j \in 1..Len(values) : values[j] # cells[i][j]
       \/ Len(values) < Width /\ i < Len(cells)

(* The bytes a cell reads as.  Only one that is a whole group is sure to   *)
(* be read: of another the bits left over may be refused.                  *)
Decoded(cell) ==
  [j \in 1..(Len(Values(cell)) - 1) |-> IF Aligned(cell) THEN cell[1].first + j - 1 ELSE Garbage]

(* One call of unbase64 or of unhexify.                                    *)
Decode(chunk) ==
  LET cells == Cells(chunk)
  IN \/ /\ Misframed(chunk) \/ Malformed(cells) \/ \E i \in 1..Len(cells) : ~Complete(cells[i])
        /\ decoder' = "failed" /\ UNCHANGED delivered
     \/ /\ ~Misframed(chunk) /\ ~Malformed(cells)
        /\ delivered' = delivered \o FlattenSeq([i \in 1..Len(cells) |-> Decoded(cells[i])])
        /\ UNCHANGED decoder

(* Decompress::on_bytes holds a block until the rest of it arrives.        *)
Decompress(chunk) ==
  LET all == held \o chunk
      whole == IF \E i \in 1..Len(all) : all[i].ends
               THEN SelectLastInSeq(all, LAMBDA c : c.ends) ELSE 0
      bytes == SelectSeq(SubSeq(all, 1, whole), LAMBDA c : c.at > 1)
  IN /\ delivered' = delivered \o [i \in 1..Len(bytes) |-> bytes[i].first + bytes[i].at - 2]
     /\ held' = SubSeq(all, whole + 1, Len(all))
     /\ UNCHANGED decoder

(* Behind unframe a call is a message; otherwise it is what a read brings. *)
Takes(n) ==
  conf.framed => wire[n].ends /\ \A i \in 1..(n - 1) : ~wire[i].ends

on_bytes(n) ==
  /\ decoder = "open" /\ Takes(n)
  /\ wire' = SubSeq(wire, n + 1, Len(wire))
  /\ IF compresses THEN Decompress(SubSeq(wire, 1, n))
     ELSE Decode(SubSeq(wire, 1, n)) /\ UNCHANGED held
  /\ UNCHANGED <<conf, sent, pending, coder, cut>>

(* Decompress::on_eof flushes the decoder and ends, whatever it holds.     *)
DecoderEof ==
  /\ decoder = "open" /\ wire = <<>> /\ decoder' = "ended"
  /\ coder = "ended" \/ cut
  /\ UNCHANGED <<conf, sent, pending, coder, wire, cut, held, delivered>>

Next ==
  \/ ~cut /\ (on_eof \/ \E n \in 0..MaxBytes : Encode(n) \/ Compress(n))
  \/ Cut /\ decoder = "open"
  \/ DecoderEof
  \/ \E n \in 1..Len(wire) : on_bytes(n)

-----------------------------------------------------------------------------
(* A decoder that is behind unframe, or demands the padding that keeps     *)
(* groups in step, or keeps blocks of its own, delivers what was sent, in  *)
(* order and never a byte that was not; behind unframe, or reading blocks, *)
(* it takes everything a coder like itself sends; and with flush "whatever *)
(* arrived is on the wire before the call returns" (compress.rs).          *)
DecodedAsCoded ==
  LET sure == compresses \/ (conf.framed /\ (conf.pads \/ conf.accept_unpadded))
  IN compresses \/ conf.framed \/ (conf.pads /\ ~conf.accept_unpadded) =>
       /\ delivered = [i \in 1..Len(delivered) |-> i] /\ Len(delivered) <= sent
       /\ sure => decoder # "failed"
       /\ decoder # "failed" /\ ~cut /\ wire = <<>> /\ (conf.flush \/ coder = "ended") =>
            Len(delivered) = sent
=============================================================================

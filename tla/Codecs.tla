------------------------------- MODULE Codecs -------------------------------
(***************************************************************************)
(* The stages that change what the bytes are, each between two ends that   *)
(* undo one another over a stream that is cut anywhere, in three parts     *)
(* that share no state: frame and unframe (Framing), encrypt and decrypt   *)
(* (Encryption), and the codecs (Coding).  A behaviour is one of one part. *)
(***************************************************************************)
EXTENDS Integers, SequencesExt

CONSTANTS
  Delimiters, Widths, Block, Digits, MaxMessage, MaxLen, MaxTotal,
  MaxNoise,                                                (* Framing      *)
  CipherBlock, Nonce, Pool, Budgets, MaxSent, MaxRecords,  (* Encryption   *)
  MaxBytes                                                 (* Coding       *)

ASSUME FramingAssumption ==
  /\ \A d \in Delimiters : d # <<>>
  /\ Block \in Nat \ {0} /\ Digits \in Nat \ {0} /\ MaxMessage \in Nat \ {0}

ASSUME CodecsAssumption ==
  /\ CipherBlock \in Nat \ {0} /\ Nonce \in Nat \ {0} /\ Nonce % 2 = 0
  /\ Pool \in Nat /\ Nonce <= Pool /\ Budgets \subseteq Nat /\ MaxSent \in Nat

VARIABLES
  part,     (* "framing", "encryption" or "coding"                         *)
  conf, peer, sent, refused, closed, cut, wire, read, buf, scanned, emitting, busy,
  delivered, status,                                        (* Framing     *)
  cipher, plaintext, feed, session, fed, issued, pending, sealing,
  announced, pool, nonces, records, severed, harmed, reading, header, opening,
  opened, heldback, decrypted, opener,                      (* Encryption  *)
  codec, coded, uncoded, coder, coding, broken, block, decoded, decoder
                                                            (* Coding      *)

framingVars ==
  <<conf, peer, sent, refused, closed, cut, wire, read, buf, scanned, emitting, busy,
    delivered, status>>
cipherVars ==
  <<cipher, plaintext, feed, session, fed, issued, pending, sealing, announced,
    pool, nonces, records, severed, harmed, reading, header, opening, opened, heldback,
    decrypted, opener>>
codecVars == <<codec, coded, uncoded, coder, coding, broken, block, decoded, decoder>>

Delimited == INSTANCE Framing

Encrypted ==
  INSTANCE Encryption WITH
    Block <- CipherBlock, conf <- cipher, sent <- plaintext, wire <- records,
    cut <- severed, held <- heldback, delivered <- decrypted, emitted <- issued

Coded ==
  INSTANCE Coding WITH
    conf <- codec, sent <- coded, pending <- uncoded, wire <- coding,
    cut <- broken, held <- block, delivered <- decoded

CodecsInit ==
  /\ part \in {"framing", "encryption", "coding"}
  /\ part # "encryption" => cipher = CHOOSE c \in Encrypted!Accepted : TRUE
  /\ part # "coding" => codec = CHOOSE c \in Coded!Accepted : TRUE
  /\ part # "framing" => conf = CHOOSE c \in Delimited!Options("length") : TRUE
  /\ Encrypted!Init /\ Coded!Init /\ Delimited!Init
  /\ part # "framing" => peer = "frame"

CodecsNext ==
  \/ part = "framing" /\ Delimited!Next /\ UNCHANGED <<part, cipherVars, codecVars>>
  \/ part = "encryption" /\ Encrypted!Next /\ UNCHANGED <<part, framingVars, codecVars>>
  \/ part = "coding" /\ Coded!Next /\ UNCHANGED <<part, framingVars, cipherVars>>

CodecsSpec == CodecsInit /\ [][CodecsNext]_<<part, framingVars, cipherVars, codecVars>>

-----------------------------------------------------------------------------
(* What unframe delivers is the messages frame was handed, one unit each   *)
(* and as soon as it can; a path that ends well ends between two; and what *)
(* is refused, of a message or of a stream, is what has to be.             *)
FramedAsSent ==
  /\ Delimited!ReadAsSent /\ Delimited!EndsOnAMessage
  /\ Delimited!LimitsHold /\ Delimited!RefusedRightly

(* A peer that frames otherwise is misread the same way by every cutting.  *)
ChunkingIsInvisible == Delimited!ChunkingIsInvisible

(* Wherever either end cuts a stream that is encrypted, what comes out is  *)
(* what went in.                                                           *)
DecryptedAsSent == Encrypted!DecryptedAsSent

(* No randomness is used twice, and of the messages sealed as records each *)
(* comes out but those of which one was lost or damaged.                   *)
RecordsStandAlone == Encrypted!NoncesAreFresh /\ Encrypted!RecordsStandAlone

(* What base64, hexify and compress make of a stream reads as that stream. *)
DecodedAsCoded == Coded!DecodedAsCoded
=============================================================================

------------------------------- MODULE Tunnel -------------------------------
(***************************************************************************)
(* The layers that ask a proxy for a route: socks5 (layer/socks.rs) and    *)
(* proxy (layer/proxy.rs).  The proxy's answers and, as soon as the route  *)
(* is open, the bytes of the target come on one stream: what the layer     *)
(* takes of it must be the answers and no more.                            *)
(*                                                                         *)
(* A byte is [part |-> the answer it is of, is |-> what it says].          *)
(***************************************************************************)
EXTENDS Integers, SequencesExt

CONSTANTS
  V4, V6,      (* bytes of an address, of the two families                 *)
  PortBytes,   (* bytes of a port                                          *)
  MaxName,     (* longest name a proxy answers with                        *)
  MAX_HEADER,  (* longest header of an HTTP answer                         *)
  MaxTarget    (* bound on the bytes of the target                         *)

VARIABLES
  layer,     (* "socks5" or "proxy", and its options                       *)
  secret,    (* what credentials yields: "none", "pair", "bad", "unreadable" *)
  step,      (* where the exchange is                                      *)
  needs,     (* bytes the read in progress is after                        *)
  taken,     (* bytes it has, of an HTTP answer all that were read         *)
  stream,    (* bytes of the proxy's that have not been read               *)
  asked,     (* what was sent of "methods", "credentials", "connect"       *)
  granted,   (* whether the proxy has opened the route                     *)
  target,    (* bytes the target has sent                                  *)
  closed     (* whether the proxy closed the connection                    *)

vars == <<layer, secret, step, needs, taken, stream, asked, granted, target, closed>>

Byte(part, is) == [part |-> part, is |-> is]

Layers ==
  [kind : {"socks5", "proxy"}, target : {"", "name", "v4", "v6", "garbage"}, sources : 0..2,
   resolve_locally : BOOLEAN, listening : BOOLEAN, datagram : BOOLEAN]

(* Socks::check and Proxy::check.                                          *)
check(l) == ~l.datagram /\ ~l.listening /\ l.target # "" /\ l.sources <= 1

Init ==
  /\ layer \in Layers
  /\ layer.kind = "proxy" => ~layer.resolve_locally /\ layer.target # "garbage"
  /\ secret \in IF layer.sources = 0 THEN {"none"} ELSE {"pair", "bad", "unreadable"}
  /\ step = "check" /\ needs = 0 /\ taken = <<>> /\ stream = <<>> /\ asked = {}
  /\ granted = FALSE /\ target = 0 /\ closed = FALSE

Socks == layer.kind = "socks5"
Running == step \notin {"check", "refused", "open", "failed"}

(* The next read, of exactly so many bytes.                                *)
Reads(next, count) == step' = next /\ needs' = count /\ taken' = <<>>
Fails              == step' = "failed" /\ needs' = 0 /\ UNCHANGED taken

Checks ==
  /\ step = "check"
  /\ step' = IF check(layer) THEN "ask" ELSE "refused"
  /\ UNCHANGED <<layer, secret, needs, taken, stream, asked, target, granted, closed>>

(* wrap_client: the credentials, then the greeting or the request.  Only   *)
(* socks5 has them split at a colon.                                       *)
Asks ==
  /\ step = "ask"
  /\ IF secret = "unreadable" \/ (Socks /\ secret = "bad") \/ closed
     THEN Fails /\ UNCHANGED asked
     ELSE IF Socks
     THEN Reads("method", 2) /\ asked' = {"methods"}
     ELSE Reads("header", 1) /\ asked' = {"connect"} \cup (IF secret = "none" THEN {} ELSE {"credentials"})
  /\ UNCHANGED <<layer, secret, stream, target, granted, closed>>

(***************************************************************************)
(* The proxy, which may answer whatever it likes, in the order it is asked.*)
(***************************************************************************)
Answering == Running /\ ~closed /\ stream = <<>> /\ taken = <<>> /\ target = 0

ProxyAnswers(bytes, grants) ==
  /\ stream' = bytes /\ granted' = grants
  /\ UNCHANGED <<layer, secret, step, needs, taken, asked, target, closed>>

AnswersMethod ==
  /\ Answering /\ step = "method"
  /\ \E version \in {4, 5}, method \in {"no auth", "user pass", "no acceptable", "other"} :
       ProxyAnswers(<<Byte("method", version), Byte("method", method)>>, FALSE)

AnswersAuth ==
  /\ Answering /\ step = "auth"
  /\ \E status \in 0..1 : ProxyAnswers(<<Byte("auth", 1), Byte("auth", status)>>, FALSE)

Filler(part, n) == [i \in 1..n |-> Byte(part, 0)]

AnswersConnect ==
  /\ Answering /\ step = "reply"
  /\ \E code \in 0..1, type \in {"v4", "v6", "name", "other"}, len \in 0..MaxName :
       ProxyAnswers(
         <<Byte("reply", 5), Byte("reply", code), Byte("reply", 0), Byte("reply", type)>> \o
         (IF code = 1 \/ type = "other" THEN <<>>
          ELSE IF type = "name" THEN <<Byte("reply", len)>> \o Filler("reply", len + PortBytes)
          ELSE Filler("reply", (IF type = "v4" THEN V4 ELSE V6) + PortBytes)),
         code = 0 /\ type # "other")

(* A status line and any number of fields, ended by an empty line.  A text *)
(* is one byte of the model, and so is the end of a line.                  *)
AnswersHeader ==
  /\ Answering /\ step = "header"
  /\ \E status \in {"2xx", "4xx", "garbage"}, fields \in 0..MAX_HEADER :
       ProxyAnswers(
         <<Byte("header", status), Byte("header", "crlf")>> \o
         [i \in 1..(2 * fields) |-> Byte("header", IF i % 2 = 1 THEN "text" ELSE "crlf")] \o
         <<Byte("header", "crlf")>>, status = "2xx")

(* Nothing keeps the target from speaking as soon as it is connected: its  *)
(* bytes may be behind the answer before that has been read.               *)
TargetSends ==
  /\ granted /\ ~closed /\ target < MaxTarget
  /\ target' = target + 1 /\ stream' = Append(stream, Byte("target", target + 1))
  /\ UNCHANGED <<layer, secret, step, needs, taken, asked, granted, closed>>

ProxyCloses ==
  /\ Running /\ ~closed /\ closed' = TRUE
  /\ \E k \in 0..Len(stream) : stream' = SubSeq(stream, 1, k)
  /\ UNCHANGED <<layer, secret, step, needs, taken, asked, target, granted>>

(***************************************************************************)
(* What the layer does with what it has read.                              *)
(***************************************************************************)
(* Any piece of what a read is after, until it has it all.                 *)
Takes ==
  /\ Running /\ needs > 0 /\ stream # <<>>
  /\ \E k \in 1..Len(stream) :
       /\ k <= needs
       /\ taken' = taken \o SubSeq(stream, 1, k) /\ stream' = SubSeq(stream, k + 1, Len(stream))
       /\ needs' = needs - k
  /\ UNCHANGED <<layer, secret, step, asked, target, granted, closed>>

EndsShort ==
  /\ Running /\ needs > 0 /\ stream = <<>> /\ closed
  /\ Fails /\ UNCHANGED <<layer, secret, stream, asked, target, granted, closed>>

Has(at) == step = at /\ needs = 0
Kept    == UNCHANGED <<layer, secret, stream, target, granted, closed>>

(* The request of connect, for a target that splits at its last colon.     *)
Requests ==
  IF layer.target = "garbage" \/ closed THEN Fails /\ UNCHANGED asked
  ELSE Reads("reply", 4) /\ asked' = asked \cup {"connect"}

ReadsMethod ==
  /\ Has("method") /\ Kept
  /\ LET method == taken[2].is
     IN  IF taken[1].is # 5 THEN Fails /\ UNCHANGED asked
         ELSE IF method = "no auth" THEN Requests
         ELSE IF method = "user pass" /\ secret = "pair" /\ ~closed
         THEN Reads("auth", 2) /\ asked' = asked \cup {"credentials"}
         ELSE Fails /\ UNCHANGED asked

(* A name that is resolved here may have no address.                       *)
LookupFails ==
  /\ Socks /\ layer.resolve_locally /\ layer.target = "name"
  /\ \/ Has("auth") /\ taken[2].is = 0
     \/ Has("method") /\ taken[1].is = 5 /\ taken[2].is = "no auth"
  /\ Fails /\ Kept /\ UNCHANGED asked

ReadsAuth ==
  /\ Has("auth") /\ Kept
  /\ IF taken[2].is # 0 THEN Fails /\ UNCHANGED asked ELSE Requests

(* Mutant: the port behind the address is forgotten.                       *)
AddressAlone(type) == IF type = "v4" THEN V4 ELSE V6

(* What is behind a reply, of an address that is not a name.               *)
drain(type) == PortBytes + IF type = "v4" THEN V4 ELSE V6

ReadsReply ==
  /\ Has("reply") /\ Kept /\ UNCHANGED asked
  /\ LET type == taken[4].is
     IN  IF taken[2].is # 0 \/ type = "other" THEN Fails
         ELSE IF type = "name" THEN Reads("name", 1)
         ELSE Reads("address", drain(type))

ReadsName ==
  /\ Has("name") /\ Kept /\ UNCHANGED asked
  /\ Reads("address", taken[1].is + PortBytes)

ReadsAddress ==
  /\ Has("address") /\ Kept /\ UNCHANGED asked
  /\ step' = "open" /\ UNCHANGED <<needs, taken>>

(* read_status, a byte at a time.                                          *)
EndsWithEmptyLine ==
  Len(taken) >= 2 /\ taken[Len(taken)].is = "crlf" /\ taken[Len(taken) - 1].is = "crlf"

ReadsHeader ==
  /\ Has("header") /\ Kept /\ UNCHANGED asked
  /\ IF EndsWithEmptyLine
     THEN IF taken[1].is = "2xx" THEN step' = "open" /\ UNCHANGED <<needs, taken>> ELSE Fails
     ELSE IF Len(taken) > MAX_HEADER THEN Fails
     ELSE needs' = 1 /\ UNCHANGED <<step, taken>>

Next ==
  \/ Checks \/ Asks
  \/ AnswersMethod \/ AnswersAuth \/ AnswersConnect \/ AnswersHeader \/ TargetSends \/ ProxyCloses
  \/ Takes \/ EndsShort \/ ReadsMethod \/ LookupFails \/ ReadsAuth
  \/ ReadsReply \/ ReadsName \/ ReadsAddress \/ ReadsHeader

Spec == Init /\ [][Next]_vars

-----------------------------------------------------------------------------
(* "Every read here is exact": however the answers and the target's bytes  *)
(* arrive, the pipeline starts with the target's first byte and none is    *)
(* lost unless the proxy closed on it, and an exchange a proxy went through*)
(* with does not fail for want of something the endpoint was given.        *)
StartsAtTarget ==
  /\ step = "open" =>
       /\ \A i \in 1..Len(stream) : stream[i] = Byte("target", i)
       /\ ~closed => Len(stream) = target
       /\ \A i \in 1..Len(taken) : taken[i].part # "target"
  /\ "credentials" \in asked => secret \in {"pair", "bad"} /\ (Socks => secret = "pair")
  /\ step = "failed" /\ ~closed /\ taken # <<>> => taken[1].part # "target"
=============================================================================

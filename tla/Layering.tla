------------------------------ MODULE Layering ------------------------------
(***************************************************************************)
(* The layers of an endpoint.                                              *)
(*                                                                         *)
(* First how an endpoint is opened (crates/tocat-core/src/endpoint.rs and  *)
(* endpoint/layer.rs): a transport under a stack of layers is checked,     *)
(* dialled as often as its policy says, wrapped in each layer from the     *)
(* bottom up, and made to reopen itself if that was asked for.  Settings of*)
(* a layer are sound here; what their check refuses is in Tls, Tunnel and  *)
(* Noise.                                                                  *)
(*                                                                         *)
(* Then, from LayeringInit on, each layer by itself beside it: noise       *)
(* (Noise), tls (Tls), socks5 and proxy (Tunnel) and ws (Frames).  The     *)
(* parts share no state; a behaviour is one of one part.                   *)
(***************************************************************************)
EXTENDS Integers, Sequences

CONSTANTS
  MaxLayers,   (* layers of a stack                                        *)
  Limits,      (* values of retry=, 0 standing for forever                 *)
  Deadlines,   (* values of connect-timeout=, 0 where it is not set        *)
  MaxAttempts, (* bound on the dials of an endpoint                        *)
  MaxWait      (* bound on the time one dial or handshake takes            *)

ASSUME OpeningAssumption ==
  /\ MaxLayers \in Nat /\ MaxAttempts \in Nat \ {0} /\ MaxWait \in Nat
  /\ Limits \subseteq Nat /\ Deadlines \subseteq 0..MaxWait

VARIABLES
  spec,     (* the endpoint, and the side of the relay it is on            *)
  phase,    (* "check", "dial", "rest", "wrap", "open", "refused", "failed"*)
  why,      (* of a failure: "dial", "handshake", "shape", "side", "keep"  *)
  attempt,  (* dials begun                                                 *)
  elapsed,  (* time since this dial, or since the transport opened         *)
  stream,   (* "none", "duplex", "split", "half", "message"                *)
  wrapped,  (* layers put around it                                        *)
  told      (* the host each of those layers was told                      *)

vars == <<spec, phase, why, attempt, elapsed, stream, wrapped, told>>

(***************************************************************************)
(* Transports.                                                             *)
(***************************************************************************)
Dialled   == {"tcp", "unix", "unix-seqpacket", "exec", "system"}
Messages  == {"udp", "udp-listen", "unix-seqpacket", "unix-seqpacket-listen", "unix-dgram",
              "unix-dgram-listen", "tun", "tap"}
Listeners == {"tcp-listen", "unix-listen", "unix-seqpacket-listen", "unix-dgram-listen",
              "udp-listen", "chan"}
Transports == Dialled \cup Messages \cup Listeners \cup
              {"stdio", "pipe", "file", "pty", "pty-exec", "tty"}

is_datagram(transport)        == transport \in Messages
is_listen(transport)          == transport \in Listeners
names_host(transport)         == transport \in {"tcp", "tcp-listen"}

(* What connect_once hands back.                                           *)
opens(transport) ==
  IF transport \in Messages \cup {"chan"} THEN "message"
  ELSE IF transport \in {"stdio", "exec", "system"} THEN "split"
  ELSE IF transport \in {"file", "pipe"} THEN "half" ELSE "duplex"

(***************************************************************************)
(* Layers.                                                                 *)
(***************************************************************************)
Tunnels == {"proxy", "socks5"}
Layers  == Tunnels \cup {"noise", "tls", "ws"}

layer_is_datagram(layer, below) == IF layer \in Tunnels THEN below ELSE layer = "ws"
layer_checks(layer, below, listening) == ~below /\ (layer \in Tunnels => ~listening)

(* What carries messages above the first n layers.                         *)
CarriesAfter(s, n) ==
  LET carries[i \in 0..n] == IF i = 0 THEN is_datagram(s.transport)
                             ELSE layer_is_datagram(s.layers[i], carries[i - 1])
  IN  carries[n]

spec_is_datagram(s) == CarriesAfter(s, Len(s.layers))

(* Who the layer above the first n is talking to: the target of the last   *)
(* tunnel among them, 0 for the host of the transport and -1 for none.     *)
HostAbove(s, n) ==
  LET host[i \in 0..n] == IF i = 0 THEN (IF names_host(s.transport) THEN 0 ELSE -1)
                          ELSE IF s.layers[i] \in Tunnels THEN i ELSE host[i - 1]
  IN  host[n]

(* Mutant: each layer is checked against the transport, not the layer      *)
(* below it.                                                               *)
ChecksTransport(s) ==
  /\ \A i \in 1..Len(s.layers) :
       layer_checks(s.layers[i], is_datagram(s.transport), is_listen(s.transport))
  /\ s.layers # <<>> => ~s.keeps

(* EndpointSpec::check.                                                    *)
check(s) ==
  /\ \A i \in 1..Len(s.layers) :
       layer_checks(s.layers[i], CarriesAfter(s, i - 1), is_listen(s.transport))
  /\ s.layers # <<>> => ~s.keeps

(***************************************************************************)
(* The policy of a transport that can be reopened.                         *)
(***************************************************************************)
NoRetry == [limit |-> 1, deadline |-> 0]
Policies(transport) ==
  IF transport \in Dialled THEN [limit : Limits, deadline : Deadlines] ELSE {NoRetry}

again(policy, n) == policy.limit = 0 \/ n < policy.limit

Stacks == UNION {[1..n -> Layers] : n \in 0..MaxLayers}
Specs ==
  {s \in [transport : Transports, layers : Stacks, policy : UNION {Policies(t) : t \in Transports},
          keeps : BOOLEAN] :
     s.policy \in Policies(s.transport) /\ (s.keeps => s.transport \in Dialled)}

Init ==
  /\ spec \in Specs
  /\ phase = "check" /\ why = "none" /\ attempt = 0 /\ elapsed = 0
  /\ stream = "none" /\ wrapped = 0 /\ told = <<>>

Checks ==
  /\ phase = "check"
  /\ IF check(spec) THEN phase' = "dial" /\ attempt' = 1
                    ELSE phase' = "refused" /\ UNCHANGED attempt
  /\ UNCHANGED <<spec, why, elapsed, stream, wrapped, told>>

(* connect_transport, which bounds the dial and nothing else.              *)
Passes ==
  /\ phase \in {"dial", "wrap"} /\ elapsed < MaxWait
  /\ phase = "dial" /\ spec.policy.deadline > 0 => elapsed < spec.policy.deadline
  /\ phase = "wrap" => wrapped < Len(spec.layers)
  /\ elapsed' = elapsed + 1
  /\ UNCHANGED <<spec, phase, why, attempt, stream, wrapped, told>>

connect_once ==
  /\ phase = "dial"
  /\ phase' = "wrap" /\ stream' = opens(spec.transport) /\ elapsed' = 0
  /\ UNCHANGED <<spec, why, attempt, wrapped, told>>

DialFails ==
  /\ phase = "dial"
  /\ IF again(spec.policy, attempt)
     THEN phase' = "rest" /\ UNCHANGED why ELSE phase' = "failed" /\ why' = "dial"
  /\ UNCHANGED <<spec, attempt, elapsed, stream, wrapped, told>>

Rests ==
  /\ phase = "rest" /\ attempt < MaxAttempts
  /\ phase' = "dial" /\ attempt' = attempt + 1 /\ elapsed' = 0
  /\ UNCHANGED <<spec, why, stream, wrapped, told>>

(* wrap, one layer: each asks for a duplex stream under it, a tunnel for   *)
(* the dialling side, and its handshake may fail.                          *)
Layer == spec.layers[wrapped + 1]

Bails(cause) ==
  phase' = "failed" /\ why' = cause /\ UNCHANGED <<spec, attempt, elapsed, stream, wrapped, told>>

RefusedSide ==
  phase = "wrap" /\ wrapped < Len(spec.layers) /\ is_listen(spec.transport) /\ Layer \in Tunnels
    /\ Bails("side")

RefusedShape ==
  phase = "wrap" /\ wrapped < Len(spec.layers) /\ ~(is_listen(spec.transport) /\ Layer \in Tunnels)
    /\ stream # "duplex" /\ Bails("shape")

HandshakeFails ==
  phase = "wrap" /\ wrapped < Len(spec.layers) /\ stream = "duplex" /\ Bails("handshake")

wrap ==
  /\ phase = "wrap" /\ wrapped < Len(spec.layers) /\ stream = "duplex"
  /\ ~(is_listen(spec.transport) /\ Layer \in Tunnels)
  /\ told' = Append(told, HostAbove(spec, wrapped)) /\ wrapped' = wrapped + 1
  /\ stream' = IF Layer = "ws" THEN "message" ELSE stream
  /\ UNCHANGED <<spec, phase, why, attempt, elapsed>>

(* connect_shared: only a duplex stream can be reopened underneath.        *)
connect_shared ==
  /\ phase = "wrap" /\ wrapped = Len(spec.layers)
  /\ IF spec.keeps /\ stream # "duplex" THEN Bails("keep")
     ELSE phase' = "open" /\ UNCHANGED <<spec, why, attempt, elapsed, stream, wrapped, told>>

Next ==
  \/ Checks \/ Passes \/ connect_once \/ DialFails \/ Rests
  \/ RefusedSide \/ RefusedShape \/ HandshakeFails \/ wrap \/ connect_shared

Spec == Init /\ [][Next]_vars

-----------------------------------------------------------------------------
(* An open endpoint carries what is_datagram said of it before it opened,  *)
(* which is what the boundary checks of a chain were made against (chan,   *)
(* which carries messages, is left out of is_datagram); and a stack that   *)
(* passed check over a two-way stream fails by its peer alone, with each   *)
(* layer told the host of whoever it is really talking to.                 *)
OpensAsDeclared ==
  /\ phase = "open" /\ spec.transport # "chan" =>
       (stream = "message") = spec_is_datagram(spec)
  /\ why \in {"side", "shape"} => opens(spec.transport) # "duplex"
  /\ \A i \in 1..Len(told) :
       LET tunnels == {j \in 1..(i - 1) : spec.layers[j] \in Tunnels}
       IN  IF tunnels = {} THEN told[i] \in {0, -1}
           ELSE told[i] \in tunnels /\ \A j \in tunnels : j <= told[i]

(* No endpoint is dialled more often than its policy says, no dial outlasts*)
(* connect-timeout, and a handshake that failed is not tried again: the    *)
(* attempts are of the transport.                                          *)
AttemptsHold ==
  /\ spec.policy.limit > 0 => attempt <= spec.policy.limit
  /\ phase = "dial" /\ spec.policy.deadline > 0 => elapsed <= spec.policy.deadline
  /\ why = "dial" => ~again(spec.policy, attempt) /\ attempt = spec.policy.limit

(* "bounding connection setup is the caller's job, in the one place that   *)
(* already does it for every layer": with connect-timeout set, neither the *)
(* dial nor the handshakes above it outlast it.  The code does not keep    *)
(* this: only the transport is under the timeout (see README.md).          *)
SetupIsBounded ==
  spec.policy.deadline > 0 /\ phase \in {"dial", "wrap"} => elapsed <= spec.policy.deadline

(***************************************************************************)
(* The layers, each by itself.                                             *)
(***************************************************************************)
CONSTANTS
  MaxPlain, Rekeys, Pieces, MaxWritten,                  (* Noise          *)
  Names, MaxRead,                                        (* Tls            *)
  V4, V6, PortBytes, MaxName, MAX_HEADER, MaxTarget,     (* Tunnel         *)
  Room, Buffer, MaxFrames                                (* Frames         *)

ASSUME LayeringAssumption ==
  MaxPlain \in Nat /\ V4 \in Nat /\ V6 \in Nat /\ PortBytes \in Nat /\ Buffer \in Nat

VARIABLES
  part,     (* "opening", "noise", "tls", "tunnel" or "ws"                 *)
  ends, turn, pairing, from, every, accepted, nonce, buffered, line, over, collected,
  received, plain, given, opener,                        (* Noise          *)
  tls, listening, host, files, certificate, session, missing, written, ending, lost,
  read, closing,                                         (* Tls            *)
  tunnel, secret, step, needs, taken, answers, requested, granted, target,
  closed,                                                (* Tunnel         *)
  text, asked, serves, ticks, inbox, outbox, sent, gone, lock, reader, dropped, got,
  owed, writer, message, handed, heard                   (* Frames         *)

noiseVars  == <<ends, turn, pairing, from, every, accepted, nonce, buffered, line, over,
                collected, received, plain, given, opener>>
tlsVars    == <<tls, listening, host, files, certificate, session, missing, written,
                ending, lost, read, closing>>
tunnelVars == <<tunnel, secret, step, needs, taken, answers, requested, granted,
                target, closed>>
frameVars  == <<text, asked, serves, ticks, inbox, outbox, sent, gone, lock, reader,
                dropped, got, owed, writer, message, handed, heard>>

Noised   == INSTANCE Noise WITH phase <- pairing, reader <- opener, Room <- Pieces
Secured  == INSTANCE Tls WITH peer <- certificate, phase <- session, reader <- closing
Tunneled == INSTANCE Tunnel WITH layer <- tunnel, stream <- answers, asked <- requested
Framed   == INSTANCE Frames WITH taken <- handed

LayeringInit ==
  /\ part \in {"opening", "noise", "tls", "tunnel", "ws"}
  /\ part # "opening" => spec = CHOOSE s \in Specs : TRUE
  /\ part # "noise" =>
       /\ ends = CHOOSE e \in [pattern : Noised!Handshakes, initiator : Noised!Given,
                               responder : Noised!Given] : TRUE
       /\ every = CHOOSE k \in Rekeys : TRUE
       /\ from = "initiator"
  /\ part # "tls" =>
       /\ tls = CHOOSE t \in Secured!Options : TRUE
       /\ listening = TRUE /\ host = CHOOSE n \in Names : TRUE
       /\ files = [anchors |-> TRUE, match |-> TRUE] /\ certificate = Secured!NoCertificate
  /\ part # "tunnel" =>
       /\ tunnel = CHOOSE l \in Tunneled!Layers : l.kind = "socks5" /\ l.sources = 0
       /\ secret = "none"
  /\ part # "ws" => text = FALSE /\ asked = "" /\ serves = "" /\ ticks = FALSE
  /\ Init /\ Noised!Init /\ Secured!Init /\ Tunneled!Init /\ Framed!Init

LayeringNext ==
  \/ part = "opening" /\ Next
       /\ UNCHANGED <<part, noiseVars, tlsVars, tunnelVars, frameVars>>
  \/ part = "noise" /\ Noised!Next
       /\ UNCHANGED <<part, vars, tlsVars, tunnelVars, frameVars>>
  \/ part = "tls" /\ Secured!Next
       /\ UNCHANGED <<part, vars, noiseVars, tunnelVars, frameVars>>
  \/ part = "tunnel" /\ Tunneled!Next
       /\ UNCHANGED <<part, vars, noiseVars, tlsVars, frameVars>>
  \/ part = "ws" /\ Framed!Next
       /\ UNCHANGED <<part, vars, noiseVars, tlsVars, tunnelVars>>

LayeringSpec ==
  LayeringInit /\ [][LayeringNext]_<<part, vars, noiseVars, tlsVars, tunnelVars, frameVars>>

-----------------------------------------------------------------------------
(* A stack carries what was declared of it, and its dials keep to policy.  *)
OpensAsAsked == OpensAsDeclared /\ AttemptsHold

(* Ends that noise's check accepts agree, and open to the peers they name; *)
(* what its records carry is read as it was written.                       *)
ReadAsWritten == Noised!KeysSuffice /\ Noised!ReadAsWritten

(* tls opens to whom it was told to, and a connection that ends has ended. *)
PeerIsAsNamed == Secured!PeerIsAsNamed /\ Secured!HangUpIsAnEnd

(* A tunnel takes the proxy's answers and leaves the target's bytes.       *)
StartsAtTarget == Tunneled!StartsAtTarget

(* One message in is one message out, of a WebSocket.                      *)
MessagesAreWhole == Framed!MessagesAreWhole
=============================================================================

-------------------------------- MODULE Tls --------------------------------
(***************************************************************************)
(* The tls layer (crates/tocat-core/src/endpoint/layer/tls.rs): what check *)
(* accepts of its options, the configuration that is built from them, whom *)
(* it lets the endpoint talk to, and what the end of the connection reads  *)
(* as.  rustls is external: it verifies as it was configured to.           *)
(*                                                                         *)
(* Certificates are of the platform's authorities, of the one in cafile or *)
(* of their own; a pin is the fingerprint of a leaf.                       *)
(***************************************************************************)
EXTENDS Integers

CONSTANTS
  Names,   (* host names                                                   *)
  MaxRead  (* bound on the bytes the peer writes                           *)

None == "none"

Options ==
  [cafile : BOOLEAN, pin : 0..1, verify : {"peer", None}, servername : Names \cup {None},
   cert : BOOLEAN, keyfile : BOOLEAN, client_auth : {None, "optional", "required"}]

Certificates == [issuer : {"platform", "cafile", "self"}, name : Names, leaf : 1..2]
NoCertificate == [issuer |-> None, name |-> None, leaf |-> 0]

VARIABLES
  tls, listening, host,  (* the options, the side and whom it was told     *)
  files,    (* whether cafile has certificates, and cert and keyfile match *)
  peer,     (* the peer's certificate, or NoCertificate                    *)
  phase,    (* "check", "configure", "handshake", "open", "refused", "failed" *)
  missing,  (* whether it failed for an option that was not given          *)
  written,  (* bytes the peer wrote                                        *)
  ending,   (* "no", "notify" said goodbye, "cut" did not, "reset"         *)
  lost,     (* of the bytes written, those that a cut kept back            *)
  read,     (* bytes handed on                                             *)
  reader    (* "open", "eof", "error"                                      *)

vars == <<tls, listening, host, files, peer, phase, missing, written, ending, lost, read, reader>>

(* Tls::check.                                                             *)
check(t, datagram, listens) ==
  /\ ~datagram
  /\ listens => /\ t.cert /\ t.keyfile
                /\ t.pin = 0 /\ t.servername = None /\ t.verify = "peer"
                /\ (t.client_auth # None) = t.cafile
  /\ ~listens => t.client_auth = None /\ t.cert = t.keyfile
  /\ ~(t.pin # 0 /\ t.verify = None)

(* roots: the anchors a chain is checked against.                          *)
roots(t) == IF t.cafile THEN "cafile" ELSE "platform"

(* Mutant: a pin is looked at only where the chain is not.                 *)
ChainFirst(t, told) ==
  [leaf   |-> IF t.verify = None THEN t.pin ELSE 0,
   anchor |-> IF t.verify = None THEN None ELSE roots(t),
   name   |-> IF t.servername = None THEN told ELSE t.servername]

(* client_config: the verifier, and the name wrap_client asks for.         *)
verifier(t, told) ==
  [leaf   |-> t.pin,
   anchor |-> IF t.pin # 0 \/ t.verify = None THEN None ELSE roots(t),
   name   |-> IF t.servername = None THEN told ELSE t.servername]

Init ==
  /\ tls \in Options /\ listening \in BOOLEAN /\ host \in Names
  /\ files \in [anchors : BOOLEAN, match : BOOLEAN]
  /\ peer \in Certificates \cup (IF listening THEN {NoCertificate} ELSE {})
  /\ phase = "check" /\ missing = FALSE
  /\ written = 0 /\ ending = "no" /\ lost = 0 /\ read = 0 /\ reader = "open"

session == <<written, ending, lost, read, reader>>
given   == <<tls, listening, host, files, peer>>

Checks ==
  /\ phase = "check"
  /\ \E datagram \in BOOLEAN :
       phase' = IF check(tls, datagram, listening) THEN "configure" ELSE "refused"
  /\ UNCHANGED <<given, missing, session>>

(* client_config and server_config, which read the files that are named.   *)
Configures ==
  /\ phase = "configure"
  /\ missing' = (listening /\ (~(tls.cert /\ tls.keyfile) \/ (tls.client_auth # None /\ ~tls.cafile)))
  /\ LET reads == IF listening THEN tls.client_auth # None
                  ELSE tls.pin = 0 /\ tls.verify = "peer"
         fails == \/ missing'
                  \/ reads /\ ~files.anchors
                  \/ tls.cert /\ tls.keyfile /\ ~files.match
     IN  phase' = IF fails THEN "failed" ELSE "handshake"
  /\ UNCHANGED <<given, session>>

(* What each side asks of the other's certificate.                         *)
Accepts ==
  IF listening
  THEN \/ tls.client_auth = None
       \/ IF peer = NoCertificate THEN tls.client_auth = "optional" ELSE peer.issuer = roots(tls)
  ELSE LET v == verifier(tls, host)
       IN  /\ v.leaf # 0 => peer.leaf = v.leaf
           /\ v.anchor # None => peer.issuer = v.anchor /\ peer.name = v.name

(* wrap_client and wrap_server.                                            *)
Handshakes ==
  /\ phase = "handshake"
  /\ phase' \in (IF Accepts THEN {"open", "failed"} ELSE {"failed"})
  /\ UNCHANGED <<given, missing, session>>

PeerWrites ==
  /\ phase = "open" /\ ending = "no" /\ written < MaxRead
  /\ written' = written + 1
  /\ UNCHANGED <<given, phase, missing, ending, lost, read, reader>>

(* A goodbye comes after all that was written; a connection that just ends *)
(* may do so before any of it, or in the middle of a record.               *)
PeerEnds ==
  /\ phase = "open" /\ ending = "no"
  /\ ending' \in {"notify", "cut", "reset"}
  /\ lost' \in (IF ending' = "cut" THEN 0..(written - read) ELSE {0})
  /\ UNCHANGED <<given, phase, missing, written, read, reader>>

(* Closing::poll_read: what an ending reads as.                            *)
ReadsAs(how) == IF how \in {"notify", "cut"} THEN "eof" ELSE "error"

poll_read ==
  /\ phase = "open" /\ reader = "open"
  /\ IF read < written - lost /\ ending # "reset" THEN read' = read + 1 /\ UNCHANGED reader
     ELSE ending # "no" /\ reader' = ReadsAs(ending) /\ UNCHANGED read
  /\ UNCHANGED <<given, phase, missing, written, ending, lost>>

Next ==
  Checks \/ Configures \/ Handshakes \/ PeerWrites \/ PeerEnds \/ poll_read

Spec == Init /\ [][Next]_vars

-----------------------------------------------------------------------------
(* "Wrong-side options are refused rather than ignored": options that pass *)
(* check are never found wanting when the configuration is built, and an   *)
(* endpoint that is open talks to the holder of the pinned leaf, or of a   *)
(* certificate of the anchors that were named and for the name of its last *)
(* hop, unless it was told to check nothing.                               *)
PeerIsAsNamed ==
  /\ ~missing
  /\ phase = "open" /\ ~listening =>
       \/ tls.pin # 0 /\ peer.leaf = tls.pin
       \/ tls.pin = 0 /\ tls.verify = None
       \/ /\ tls.pin = 0 /\ peer.issuer = (IF tls.cafile THEN "cafile" ELSE "platform")
          /\ peer.name \in {host, tls.servername}
          /\ tls.servername # None => peer.name = tls.servername
  /\ phase = "open" /\ listening =>
       /\ tls.pin = 0 /\ tls.servername = None /\ tls.verify = "peer"
       /\ tls.client_auth = "required" => peer # NoCertificate
       /\ tls.client_auth # None /\ peer # NoCertificate => peer.issuer = "cafile"

(* "A TLS stream that treats a peer hanging up as end of stream": a reader *)
(* is told of an end where the peer ended or the connection did, with all  *)
(* that was written if there was a goodbye and with nothing to tell it what*)
(* is missing if there was none; and of an error only where it had one.    *)
HangUpIsAnEnd ==
  /\ reader = "eof" =>
       \/ ending = "notify" /\ read = written
       \/ ending = "cut" /\ read = written - lost
  /\ reader = "error" => ending = "reset"
=============================================================================

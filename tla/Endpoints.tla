----------------------------- MODULE Endpoints ------------------------------
(***************************************************************************)
(* The endpoints under the layers: the forked datagram listener (Demux),   *)
(* the message endpoints of one peer (Messages), the paths they share with *)
(* other processes (Paths), terminals (Terminal), files and FIFOs (Files), *)
(* the making of sockets (Sockets) and the kernel's interfaces             *)
(* (Interface).  The parts share no state; a behaviour is one of one part. *)
(***************************************************************************)
EXTENDS Demux

CONSTANTS
  Buffer, Queue, MaxSent, MaxRegisters,       (* Messages                  *)
  Processes, MaxRuns,                         (* Paths                     *)
  Connections,                                (* Terminal and Files        *)
  MaxCells,                                   (* Files                     *)
  MaxAccepted,                                (* Sockets                   *)
  MtuBuffer, Mtus, Ethernet, PacketInfo,      (* Interface                 *)
  MaxPackets

ASSUME EndpointsAssumption ==
  /\ MtuBuffer \in Nat /\ Mtus \subseteq Nat /\ Ethernet \in Nat /\ PacketInfo \in Nat
  /\ Connections \cap {"old", "hole", "peer"} = {}

VARIABLES
  part,      (* "demux", "messages", "paths", "terminal", "files",         *)
             (* "sockets" or "interface"                                   *)
  messages, phase, peer, first, inbox, sent, carried, hungup, got, reader, writer, outbox,
  registered, made, claims,                                      (* Messages  *)
  abstract, path, spec, step, why, guard, socket, run, runs, alone, (* Paths  *)
  terminal, asks, found, device, exclusive, doing, original, termios, slave, over, shared,
  left,                                                          (* Terminal  *)
  file, dir, kind, content0, contents, access, offset, took, ended, broken, other,
  given,                                                         (* Files     *)
  dial, asked, compact, resolved, local, group, making, failure, family, set, reached,
  streams,                                                       (* Sockets   *)
  tun, wants, privileged, before, interface, stage, refusal, checked, raised,
  packets                                                        (* Interface *)

messageVars   == <<messages, phase, peer, first, inbox, sent, carried, hungup, got, reader,
                   writer, outbox, registered, made, claims>>
pathVars      == <<abstract, path, spec, step, why, guard, socket, run, runs, alone>>
terminalVars  == <<terminal, asks, found, device, exclusive, doing, original, termios, slave,
                   over, shared, left>>
fileVars      == <<file, dir, kind, content0, contents, access, offset, took, ended, broken,
                   other, given>>
socketVars    == <<dial, asked, compact, resolved, local, group, making, failure, family, set,
                   reached, streams>>
interfaceVars == <<tun, wants, privileged, before, interface, stage, refusal, checked, raised,
                   packets>>

Chat   == INSTANCE Messages WITH scheme <- messages, pending <- carried, MaxMessages <- MaxSent
Shared == INSTANCE Paths
Lines  == INSTANCE Terminal WITH scheme <- terminal, step <- doing, hungup <- over
Stored == INSTANCE Files WITH spec <- file, found <- content0, step <- access, peer <- other
Dialed == INSTANCE Sockets WITH scheme <- dial, step <- making, why <- failure, peer <- reached
Linked == INSTANCE Interface WITH scheme <- tun, asks <- wants, step <- stage, why <- refusal,
                                  read <- checked, Buffer <- MtuBuffer

EndpointsInit ==
  /\ part \in {"demux", "messages", "paths", "terminal", "files", "sockets", "interface"}
  /\ part # "messages" => messages = "udp"
  /\ part # "paths" =>
       /\ abstract = FALSE /\ path = Shared!Nothing
       /\ LET some == CHOOSE s \in Shared!Specs : s.scheme = "listen" /\ s.create /\ ~s.fork
          IN  spec = [p \in Processes |-> some]
  /\ part # "terminal" =>
       /\ terminal = "tty" /\ asks = CHOOSE a \in Lines!Asks : TRUE
       /\ found = CHOOSE s \in Lines!Settings : TRUE
  /\ part # "files" =>
       /\ file = CHOOSE s \in Stored!Specs : Stored!validate(s) /\ s.scheme = "file" /\ ~s.hold
       /\ kind = "nothing" /\ dir = "source"
  /\ part # "sockets" =>
       /\ dial = "unix" /\ asked = {} /\ compact = TRUE
  /\ part # "interface" =>
       /\ tun = "tap" /\ privileged = TRUE /\ wants = (CHOOSE a \in Linked!Asks : TRUE)
       /\ before = Linked!None
  /\ Init /\ Chat!Init /\ Shared!Init /\ Lines!Init /\ Stored!Init /\ Dialed!Init /\ Linked!Init

EndpointsNext ==
  \/ part = "demux" /\ Next
       /\ UNCHANGED <<part, messageVars, pathVars, terminalVars, fileVars, socketVars, interfaceVars>>
  \/ part = "messages" /\ Chat!Next
       /\ UNCHANGED <<part, vars, pathVars, terminalVars, fileVars, socketVars, interfaceVars>>
  \/ part = "paths" /\ Shared!Next
       /\ UNCHANGED <<part, vars, messageVars, terminalVars, fileVars, socketVars, interfaceVars>>
  \/ part = "terminal" /\ Lines!Next
       /\ UNCHANGED <<part, vars, messageVars, pathVars, fileVars, socketVars, interfaceVars>>
  \/ part = "files" /\ Stored!Next
       /\ UNCHANGED <<part, vars, messageVars, pathVars, terminalVars, socketVars, interfaceVars>>
  \/ part = "sockets" /\ Dialed!Next
       /\ UNCHANGED <<part, vars, messageVars, pathVars, terminalVars, fileVars, interfaceVars>>
  \/ part = "interface" /\ Linked!Next
       /\ UNCHANGED <<part, vars, messageVars, pathVars, terminalVars, fileVars, socketVars>>

EndpointsSpec ==
  EndpointsInit /\ [][EndpointsNext]_<<part, vars, messageVars, pathVars, terminalVars, fileVars,
                                       socketVars, interfaceVars>>

-----------------------------------------------------------------------------
(* A session and an endpoint of one peer hear from the message that opened *)
(* them on, in order, and answer no one else.                              *)
HeardAsSent == HeardInOrder /\ Chat!HeardFromTheFirst

(* Sessions stay below their ceiling, one to a peer, and those that have   *)
(* ended hold no place.                                                    *)
SessionsHold == [][SessionsInv /\ (\A p \in Peers : AtCeiling(p) => FullOfLive)]_vars

(* A path is left behind and taken over by no more than was asked.         *)
RecoversAlone == Shared!RecoversAlone

(* A borrowed terminal does as it was asked and is put back.               *)
TerminalsHold == Lines!TerminalsHold

(* A file keeps what it was not asked to change.                           *)
FilesKeep == Stored!FilesKeep

(* A socket and an interface are made as they were asked for.              *)
MadeAsAsked == Dialed!SocketsCarry /\ Linked!InterfaceIsKept
=============================================================================

------------------------------ MODULE Interface ------------------------------
(***************************************************************************)
(* tun and tap (endpoint/tun.rs): an interface of the kernel's, attached   *)
(* to or created, configured by whoever has the privilege to, checked      *)
(* against the copy buffer, and relayed a packet at a time.                *)
(***************************************************************************)
EXTENDS Integers, Sequences

CONSTANTS
  Buffer,      (* size of the copy buffer                                  *)
  Mtus,        (* MTUs, in the same unit                                   *)
  Ethernet,    (* what an Ethernet header takes                            *)
  PacketInfo,  (* what a struct tun_pi takes                               *)
  MaxPackets   (* bound on the packets read                                *)

VARIABLES
  scheme,      (* "tun" or "tap"                                           *)
  asks,        (* [up, address, mac, mtu, packet_info]; an mtu of 0 is     *)
               (* none                                                     *)
  privileged,  (* CAP_NET_ADMIN                                            *)
  before,      (* the interface there was: [exists, layer, up, mtu]        *)
  interface,   (* what there is now, with [address, mac] as set            *)
  step,        (* "start", "layered", "configured", "open", "done",        *)
  why,         (* "failed", and why                                        *)
  read,        (* whether its MTU could be read                            *)
  raised,      (* whether the operator has changed the MTU since           *)
  packets      (* what recv returned: its size, and how much was cut off   *)

vars == <<scheme, asks, privileged, before, interface, step, why, read, raised, packets>>

Asks == [up : {"unset", "yes", "no"}, address : BOOLEAN, mac : BOOLEAN, mtu : {0} \cup Mtus,
         packet_info : BOOLEAN]

None == [exists |-> FALSE, layer |-> "none", up |-> FALSE, mtu |-> 0]

(* What is done to the interface's state; "leave" is                       *)
(* inherit_enable_state.                                                   *)
enable ==
  IF asks.up = "yes" \/ (asks.up = "unset" /\ asks.address) THEN "up" ELSE "leave"

(* The bare MTU is what is compared.                                       *)
Fits == interface.mtu <= Buffer

(* What a packet is read with that its MTU does not count.                 *)
Beyond ==
  (IF scheme = "tap" THEN Ethernet ELSE 0) + (IF asks.packet_info THEN PacketInfo ELSE 0)

(* Whether anything asked for takes privilege.                             *)
Touches == enable # "leave" \/ asks.address \/ asks.mac \/ asks.mtu # 0

Init ==
  /\ scheme \in {"tun", "tap"} /\ privileged \in BOOLEAN
  /\ asks \in {a \in Asks : scheme = "tun" => ~a.mac}
  /\ before \in {None} \cup [exists : {TRUE}, layer : {"tun", "tap"}, up : BOOLEAN, mtu : Mtus]
  /\ interface = before /\ step = "start" /\ why = "none" /\ read = FALSE /\ raised = FALSE
  /\ packets = <<>>

Given == UNCHANGED <<scheme, asks, privileged, before>>

(* An interface that this made goes with the descriptor.                   *)
Gone == interface' = IF before.exists THEN interface ELSE None
Fails(cause) == step' = "failed" /\ why' = cause /\ Gone

(* The device is opened: attached to if it is of the layer, else created.  *)
Opens ==
  /\ step = "start" /\ Given
  /\ IF before.exists /\ before.layer # scheme THEN Fails("layer")
     ELSE IF ~before.exists /\ ~privileged THEN Fails("privilege")
     ELSE /\ step' = "layered" /\ UNCHANGED why
          /\ \E m \in Mtus : interface' = IF before.exists THEN before
                                          ELSE [exists |-> TRUE, layer |-> scheme, up |-> FALSE, mtu |-> m]
  /\ UNCHANGED <<read, raised, packets>>

(* The builder's settings, every one of which takes privilege.             *)
build_async ==
  /\ step = "layered" /\ Given
  /\ IF Touches /\ ~privileged THEN Fails("privilege")
     ELSE /\ interface' = [interface EXCEPT
                 !.up = IF enable = "up" THEN TRUE ELSE @,
                 !.mtu = IF asks.mtu # 0 THEN asks.mtu ELSE @]
          /\ step' = "configured" /\ UNCHANGED why
  /\ UNCHANGED <<read, raised, packets>>

(* The MTU is read back; not being able to read it is not fatal.           *)
mtu ==
  /\ step = "configured" /\ Given
  /\ \/ read' = TRUE /\ IF Fits THEN step' = "open" /\ UNCHANGED <<why, interface>>
                        ELSE Fails("mtu")
     \/ read' = FALSE /\ step' = "open" /\ UNCHANGED <<why, interface>>
  /\ UNCHANGED <<raised, packets>>

(* A packet of the MTU's size at most comes with its headers, and is cut   *)
(* to the buffer.                                                          *)
Cut(size) ==
  IF size <= Buffer THEN [size |-> size, lost |-> 0]
  ELSE [size |-> Buffer, lost |-> size - Buffer]

recv ==
  /\ step = "open" /\ Len(packets) < MaxPackets /\ Given
  /\ \E n \in 1..interface.mtu : packets' = Append(packets, Cut(n + Beyond))
  /\ UNCHANGED <<interface, step, why, read, raised>>

SetsMtu ==
  /\ step = "open" /\ ~raised /\ raised' = TRUE /\ Given
  /\ \E m \in Mtus : interface' = [interface EXCEPT !.mtu = m]
  /\ UNCHANGED <<step, why, read, packets>>

Ends ==
  /\ step = "open" /\ step' = "done" /\ Gone /\ Given
  /\ UNCHANGED <<why, read, raised, packets>>

Next == Opens \/ build_async \/ mtu \/ recv \/ SetsMtu \/ Ends

Spec == Init /\ [][Next]_vars

-----------------------------------------------------------------------------
(* An attach that asks for nothing privileged fails of no privilege and    *)
(* leaves the interface, up or down, as the operator made it, up=false     *)
(* included; one that is given an address is up, unless that was refused.  *)
(* While the MTU is the one that was checked a packet is cut by its headers*)
(* and no more, so a tun's without packet information not at all.  What was*)
(* created is gone when the relay is.                                      *)
InterfaceIsKept ==
  /\ before.exists /\ asks.up # "yes" /\ ~asks.address /\ ~asks.mac /\ asks.mtu = 0 =>
       why # "privilege" /\ (~raised => interface = before)
  /\ step = "open" /\ asks.address /\ asks.up # "no" => interface.up
  /\ read /\ ~raised => \A i \in DOMAIN packets : packets[i].lost <= Beyond
  /\ step \in {"done", "failed"} => interface.exists = before.exists

(* "Refuses to start if it is larger than the buffer, so this fails loudly *)
(* instead of quietly losing the end of every large packet" (tun.md): the  *)
(* code does not keep it of a tap, nor with packet-info, whose packets are *)
(* longer than the MTU that is compared (see README.md).                   *)
PacketsAreWhole ==
  read /\ ~raised => \A i \in DOMAIN packets : packets[i].lost = 0

(* "up=false, which brings the interface down and needs the same privilege *)
(* as bringing it up" (tun.md): the code leaves the interface as it is     *)
(* (see README.md).                                                        *)
RefusedUpIsDown ==
  asks.up = "no" /\ step = "open" => privileged /\ ~interface.up
=============================================================================

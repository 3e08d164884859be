------------------------------ MODULE Terminal ------------------------------
(***************************************************************************)
(* Terminals.  tty (endpoint/tty.rs) borrows a device that is there        *)
(* already and puts its settings back; a relay that forks opens it once    *)
(* for each client, and other relays may too.  pty and pty-exec            *)
(* (endpoint/pty.rs) allocate a pair of their own and relay its master.    *)
(* The link of a pty is in Paths.                                          *)
(***************************************************************************)
EXTENDS FiniteSets

CONSTANT Connections   (* to the endpoint                                  *)

VARIABLES
  scheme,    (* "tty", "pty" or "pty-exec"                                 *)
  asks,      (* what the endpoint asks for                                 *)
  found,     (* the settings of the device before anyone opened it         *)
  device,    (* its settings now                                           *)
  exclusive, (* TTY_EXCLUSIVE: more opens are refused                      *)
  step,      (* of each connection: "new", "claim", "read", "write",       *)
             (* "guard", "register", "open", "done", "failed", "crashed"   *)
  original,  (* what Restore holds                                         *)
  termios,   (* the settings a connection means to apply                   *)
  slave,     (* who holds the other end of each pty                        *)
  hungup,    (* the masters that have read the end of their pty            *)
  shared,    (* whether two connections have held the device at once       *)
  left       (* whether one ended with its settings applied and no Restore *)

vars == <<scheme, asks, found, device, exclusive, step, original, termios, slave, hungup,
          shared, left>>

Settings ==
  [canonical : BOOLEAN, echo : BOOLEAN, bits : {7, 8}, xon : BOOLEAN]

(* A character size of 9 can only come from a config file.                 *)
Asks ==
  [raw : BOOLEAN, echo : BOOLEAN, exclusive : BOOLEAN, bits : {7, 8, 9}, xon : BOOLEAN]

(* What cfmakeraw clears, and the configured echo after it.                *)
make_raw(t) ==
  [t EXCEPT !.canonical = FALSE, !.echo = FALSE, !.bits = 8, !.xon = FALSE]

(* Mutant: the echo is set before make_raw.                                *)
EchoFirst(t) ==
  LET echoed == [t EXCEPT !.echo = asks.echo] IN IF asks.raw THEN make_raw(echoed) ELSE echoed

fill(t) == [IF asks.raw THEN make_raw(t) ELSE t EXCEPT !.echo = asks.echo]

(* Line::apply; the parity and the stop bits go the way of the size.       *)
apply(t) == [t EXCEPT !.bits = asks.bits, !.xon = asks.xon]

Idle    == {"new", "done", "failed", "crashed"}
Holders == {c \in Connections : step[c] \notin Idle}

Init ==
  /\ scheme \in {"tty", "pty", "pty-exec"}
  /\ asks \in {a \in Asks : scheme # "tty" => ~a.exclusive /\ a.bits = 8 /\ ~a.xon}
  /\ found \in {s \in Settings :
       scheme # "tty" => s = [canonical |-> TRUE, echo |-> TRUE, bits |-> 8, xon |-> TRUE]}
  /\ device = found /\ exclusive = FALSE
  /\ step = [c \in Connections |-> "new"]
  /\ original = [c \in Connections |-> found] /\ termios = [c \in Connections |-> found]
  /\ slave = [c \in Connections |-> {}] /\ hungup = {}
  /\ shared = FALSE /\ left = FALSE

To(c, next) == step' = [step EXCEPT ![c] = next]
Given       == UNCHANGED <<scheme, asks, found>>

(* The last descriptor of a device that is closed takes the claim with it. *)
Releases(c) == exclusive' = (exclusive /\ Holders # {c})

-----------------------------------------------------------------------------
(* Tty::connect, one system call at a time.                                *)

Fails(c) ==
  /\ To(c, "failed") /\ Releases(c)
  /\ UNCHANGED <<original, termios, slave, hungup, shared>> /\ Given

open(c) ==
  /\ scheme = "tty" /\ step[c] = "new"
  /\ IF exclusive THEN To(c, "failed") /\ UNCHANGED shared
     ELSE /\ shared' = (shared \/ Holders # {})
          /\ To(c, IF asks.exclusive THEN "claim" ELSE "read")
  /\ UNCHANGED <<device, exclusive, original, termios, slave, hungup, left>> /\ Given

ioctl_tiocexcl(c) ==
  /\ step[c] = "claim"
  /\ exclusive' = TRUE /\ To(c, "read")
  /\ UNCHANGED <<device, original, termios, slave, hungup, shared, left>> /\ Given

(* The character size is converted with an expect, and a panic unwinds.    *)
tcgetattr(c) ==
  /\ step[c] = "read"
  /\ original' = [original EXCEPT ![c] = device]
  /\ IF asks.bits \in {7, 8}
     THEN /\ termios' = [termios EXCEPT ![c] = apply(fill(device))]
          /\ To(c, "write") /\ UNCHANGED exclusive
     ELSE To(c, "failed") /\ Releases(c) /\ UNCHANGED termios
  /\ UNCHANGED <<device, slave, hungup, shared, left>> /\ Given

tcsetattr(c) ==
  /\ step[c] = "write"
  /\ device' = termios[c] /\ To(c, "guard")
  /\ UNCHANGED <<exclusive, original, termios, slave, hungup, shared, left>> /\ Given

(* Restore is made of a duplicate, which may fail.                         *)
Guards(c) ==
  /\ step[c] = "guard"
  /\ To(c, "register")
  /\ UNCHANGED <<device, exclusive, original, termios, slave, hungup, shared, left>> /\ Given

(* An isatty, a claim, a speed or a write that is refused; a duplicate     *)
(* that cannot be had once the settings are applied.                       *)
Refused(c) ==
  /\ step[c] \in {"claim", "read", "write", "guard"}
  /\ left' = (left \/ step[c] = "guard") /\ UNCHANGED device
  /\ Fails(c)

(* The window size, and the reactor.                                       *)
register(c) ==
  /\ step[c] = "register" /\ To(c, "open")
  /\ UNCHANGED <<device, exclusive, original, termios, slave, hungup, shared, left>> /\ Given

(* Restore is dropped, with the connection or with what fails after it.    *)
Restore(c) ==
  /\ scheme = "tty" /\ step[c] \in {"register", "open"}
  /\ device' = original[c] /\ Releases(c)
  /\ To(c, IF step[c] = "open" THEN "done" ELSE "failed")
  /\ UNCHANGED <<original, termios, slave, hungup, shared, left>> /\ Given

(* Nothing is dropped by a process that is killed.                         *)
Crashes(c) ==
  /\ scheme = "tty" /\ c \in Holders
  /\ left' = (left \/ step[c] \in {"guard", "register", "open"}) /\ Releases(c) /\ To(c, "crashed")
  /\ UNCHANGED <<device, original, termios, slave, hungup, shared>> /\ Given

-----------------------------------------------------------------------------
(* A pty: the pair, the settings, and the other end, which the connection  *)
(* keeps and pty-exec gives to the child.                                  *)

allocate(c) ==
  /\ scheme # "tty" /\ step[c] = "new"
  /\ termios' = [termios EXCEPT ![c] = fill(found)]
  /\ \/ To(c, "failed") /\ UNCHANGED slave
     \/ To(c, "open")
        /\ slave' = [slave EXCEPT ![c] = {IF scheme = "pty" THEN "relay" ELSE "child"}]
  /\ UNCHANGED <<device, exclusive, original, hungup, shared, left>> /\ Given

(* Another program opens the device that pty published, and leaves it.     *)
PeerOpens(c) ==
  /\ scheme = "pty" /\ step[c] = "open" /\ "peer" \notin slave[c]
  /\ slave' = [slave EXCEPT ![c] = @ \cup {"peer"}]
  /\ UNCHANGED <<device, exclusive, step, original, termios, hungup, shared, left>> /\ Given

PeerCloses(c) ==
  /\ \E who \in {"peer", "child"} \cap slave[c] : slave' = [slave EXCEPT ![c] = @ \ {who}]
  /\ UNCHANGED <<device, exclusive, step, original, termios, hungup, shared, left>> /\ Given

ReadsEnd(c) ==
  /\ scheme # "tty" /\ step[c] = "open" /\ slave[c] = {} /\ c \notin hungup
  /\ hungup' = hungup \cup {c}
  /\ UNCHANGED <<device, exclusive, step, original, termios, slave, shared, left>> /\ Given

(* Dropping the connection closes the master, and what it kept alive.      *)
Drops(c) ==
  /\ scheme # "tty" /\ step[c] = "open" /\ To(c, "done")
  /\ slave' = [slave EXCEPT ![c] = @ \ {"relay"}]
  /\ UNCHANGED <<device, exclusive, original, termios, hungup, shared, left>> /\ Given

Acts(c) ==
  \/ open(c) \/ ioctl_tiocexcl(c) \/ tcgetattr(c) \/ tcsetattr(c) \/ Guards(c) \/ Refused(c)
  \/ register(c) \/ Restore(c) \/ Crashes(c)
  \/ allocate(c) \/ PeerOpens(c) \/ PeerCloses(c) \/ ReadsEnd(c) \/ Drops(c)

Next == \E c \in Connections : Acts(c)

Spec == Init /\ [][Next]_vars

-----------------------------------------------------------------------------
(* What is asked for holds of an open terminal: raw passes every byte,     *)
(* whatever the device was found with, and echo and the line are as they   *)
(* were configured, make_raw notwithstanding.                              *)
AsAsked(t) ==
  /\ t.echo = asks.echo /\ t.canonical = (found.canonical /\ ~asks.raw)
  /\ scheme = "tty" => t.bits = asks.bits /\ t.xon = asks.xon

(* Whoever overlaps, fails or is killed, a device is as the first found it *)
(* or all as was asked for, never between the two.  While no two hold it   *)
(* together it does as the one that is open asked, though another left it; *)
(* and it is free as the first found it, whatever failed before its        *)
(* settings were applied or after Restore was made: not where the duplicate*)
(* that Restore is made of cannot be had, or a process is killed.  A pty   *)
(* ends for its relay only once its child has, and never where the relay   *)
(* published it.                                                           *)
TerminalsHold ==
  /\ scheme = "tty" => device = found \/ AsAsked(device)
  /\ ~shared => \A c \in Connections : scheme = "tty" /\ step[c] = "open" => AsAsked(device)
  /\ ~shared /\ ~left /\ Holders = {} => device = found
  /\ scheme # "tty" => \A c \in Holders : AsAsked(termios[c])
  /\ \A c \in hungup : scheme = "pty-exec"

(* "Puts a borrowed device back the way it was found", "raw mode has to be *)
(* put back on the way out": once every connection has ended and none was  *)
(* killed, the device is as the first found it.  The code does not keep    *)
(* this where connections overlap, nor where the duplicate for Restore     *)
(* fails once the settings are applied (see README.md).                    *)
TtyPutBack ==
  Holders = {} /\ (\A c \in Connections : step[c] # "crashed") => device = found
=============================================================================

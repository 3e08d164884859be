-------------------------------- MODULE Paths --------------------------------
(***************************************************************************)
(* The path of a local endpoint, shared by processes that start, end and   *)
(* crash: the unix listeners and unix-dgram, which probe, unlink, bind and *)
(* chmod it (endpoint/unix.rs, unix/dgram.rs, unix/seqpacket.rs), pipe,    *)
(* which makes a FIFO there (pipe.rs), pty, which links the device it     *)
(* allocated from there (pty.rs), and the guard that removes it (sys.rs).  *)
(* An address in the abstract namespace is a name the kernel keeps for as  *)
(* long as a socket holds it.                                              *)
(***************************************************************************)
EXTENDS Integers, FiniteSets

CONSTANTS
  Processes,
  MaxRuns    (* bound on the endpoints that are opened                     *)

VARIABLES
  abstract,  (* whether the address is an abstract name                    *)
  path,      (* what is there: [kind, by, mode]                            *)
  spec,      (* the endpoint each process opens                            *)
  step,      (* "start", "probe", "clear", "make", "mode", "open",         *)
             (* "serving", "done", "crashed", "failed"                     *)
  why,       (* of a failure                                               *)
  guard,     (* the processes that hold a PathGuard                        *)
  socket,    (* the run whose socket each process listens on, or the       *)
             (* number of the device a pty holds: 0 for none               *)
  run, runs, (* which run each process is in, and how many there have been *)
  alone      (* the processes beside which no other has acted              *)

vars == <<abstract, path, spec, step, why, guard, socket, run, runs, alone>>

Specs ==
  [scheme : {"listen", "dgram", "pipe", "pty"}, unlink : BOOLEAN, mode : BOOLEAN, fork : BOOLEAN,
   create : BOOLEAN]

(* What is at the path: by is the run that made it, mode whether the bits  *)
(* that were asked for are on it.                                          *)
At(kind, by) == [kind |-> kind, by |-> by, mode |-> FALSE]
Nothing      == At("nothing", 0)
Found        == {Nothing, At("regular", 0), At("socket", 0), At("fifo", 0), At("link", 0)}

Init ==
  /\ abstract \in BOOLEAN /\ path \in (IF abstract THEN {Nothing} ELSE Found)
  /\ spec \in [Processes -> {s \in Specs :
                  /\ s.scheme # "listen" => ~s.fork
                  /\ s.scheme # "pipe" => s.create
                  /\ s.scheme = "pty" => s.unlink /\ ~s.mode
                  /\ abstract => s.scheme \notin {"pipe", "pty"}}]
  /\ step = [p \in Processes |-> "start"] /\ why = [p \in Processes |-> "none"]
  /\ guard = {} /\ socket = [p \in Processes |-> 0]
  /\ run = [p \in Processes |-> 0] /\ runs = 0 /\ alone = {}

Ended   == {"start", "done", "crashed", "failed"}
Running == {p \in Processes : step[p] \notin Ended}

(* Whether a process listens at the path, or holds the device it links to. *)
Live ==
  \E p \in Processes :
    /\ socket[p] = path.by /\ path.by # 0
    /\ path.kind = IF spec[p].scheme = "pty" THEN "link" ELSE "socket"

(* A process moves on, and its neighbours are no longer alone.             *)
To(p, next)  == step' = [step EXCEPT ![p] = next]
Fails(p, cause) == To(p, "failed") /\ why' = [why EXCEPT ![p] = cause]
Beside(p)    == alone' = alone \cap {p}
Kept         == UNCHANGED <<abstract, spec, runs, run>>

(* The devices of ptys are numbered from the lowest that is free.          *)
Free ==
  CHOOSE n \in 1..(Cardinality(Processes) + 1) :
    \A m \in 1..n : m # n <=> \E q \in Processes : spec[q].scheme = "pty" /\ socket[q] = m

(* A pty is allocated before its link is looked at.                        *)
Starts(p) ==
  /\ step[p] \in Ended /\ runs < MaxRuns
  /\ runs' = runs + 1 /\ run' = [run EXCEPT ![p] = runs + 1]
  /\ To(p, IF spec[p].scheme # "pipe" /\ spec[p].unlink THEN "probe" ELSE "make")
  /\ why' = [why EXCEPT ![p] = "none"]
  /\ alone' = IF Running = {} THEN {p} ELSE {}
  /\ socket' = IF spec[p].scheme = "pty" THEN [socket EXCEPT ![p] = Free] ELSE socket
  /\ UNCHANGED <<abstract, path, spec, guard>>

(* A connect is answered by a listener, and a link to nothing does not     *)
(* exist.                                                                  *)
Answers == path.kind = "socket" /\ Live
Gone    == path.kind = "link" /\ ~Live

(* Mutant: the path is removed when something answers.                     *)
ClearsLive(p) ==
  /\ step[p] = "probe" /\ spec[p].scheme # "pty" /\ Beside(p)
  /\ IF abstract \/ path = Nothing \/ Gone THEN To(p, "make") /\ UNCHANGED why
     ELSE IF ~Answers THEN Fails(p, "in use") ELSE To(p, "clear") /\ UNCHANGED why
  /\ UNCHANGED <<path, guard, socket>> /\ Kept

(* unlink_stale, to the answer of its probe: a connect is refused by a     *)
(* path whose socket is gone, and by one that is no socket.                *)
unlink_stale(p) ==
  /\ step[p] = "probe" /\ spec[p].scheme # "pty" /\ Beside(p)
  /\ IF abstract \/ path = Nothing \/ Gone THEN To(p, "make") /\ UNCHANGED why
     ELSE IF Answers THEN Fails(p, "in use") ELSE To(p, "clear") /\ UNCHANGED why
  /\ UNCHANGED <<path, guard, socket>> /\ Kept

(* Pty::connect, of a link that dangles.                                   *)
dangling(p) ==
  /\ step[p] = "probe" /\ spec[p].scheme = "pty" /\ Beside(p)
  /\ To(p, IF Gone THEN "clear" ELSE "make")
  /\ UNCHANGED <<path, why, guard, socket>> /\ Kept

(* unlink_stale and Pty::connect, from there: whatever is at the path now  *)
(* is removed.                                                             *)
remove_file(p) ==
  /\ step[p] = "clear" /\ Beside(p)
  /\ IF path = Nothing /\ spec[p].scheme # "pty" THEN Fails(p, "gone") /\ UNCHANGED path
     ELSE path' = Nothing /\ To(p, "make") /\ UNCHANGED why
  /\ UNCHANGED <<guard, socket>> /\ Kept

(* bind, which an existing path refuses.                                   *)
bind(p) ==
  /\ step[p] = "make" /\ spec[p].scheme \in {"listen", "dgram"} /\ Beside(p)
  /\ IF path # Nothing THEN Fails(p, "exists") /\ UNCHANGED <<path, socket>>
     ELSE /\ path' = At("socket", run[p]) /\ socket' = [socket EXCEPT ![p] = run[p]]
          /\ To(p, "mode") /\ UNCHANGED why
  /\ UNCHANGED guard /\ Kept

(* Pipe::ensure.                                                           *)
ensure(p) ==
  /\ step[p] = "make" /\ spec[p].scheme = "pipe" /\ Beside(p)
  /\ IF path.kind = "nothing" /\ spec[p].create
     THEN path' = At("fifo", run[p]) /\ To(p, "mode") /\ UNCHANGED why
     ELSE /\ UNCHANGED path
          /\ IF path.kind = "fifo" THEN To(p, "opens") /\ UNCHANGED why
             ELSE Fails(p, IF path = Nothing THEN "missing" ELSE "not a FIFO")
  /\ UNCHANGED <<guard, socket>> /\ Kept

(* A socket that is closed gives an abstract name back, and leaves a path. *)
Closes(p) ==
  /\ socket' = [socket EXCEPT ![p] = 0]
  /\ path' = IF abstract /\ path.by = run[p] THEN Nothing ELSE path

(* The link of a pty, and its guard with it.                               *)
symlink(p) ==
  /\ step[p] = "make" /\ spec[p].scheme = "pty" /\ Beside(p)
  /\ IF path # Nothing
     THEN Fails(p, "exists") /\ socket' = [socket EXCEPT ![p] = 0] /\ UNCHANGED <<path, guard>>
     ELSE /\ path' = At("link", socket[p]) /\ guard' = guard \cup {p} /\ To(p, "open")
          /\ UNCHANGED <<why, socket>>
  /\ Kept

(* apply_mode: on whatever is at the path, and on no abstract name.  The   *)
(* guard of a listener is made once bind returns.                          *)
apply_mode(p) ==
  /\ step[p] = "mode" /\ Beside(p)
  /\ IF spec[p].mode /\ (abstract \/ path = Nothing)
     THEN Fails(p, "mode") /\ Closes(p) /\ UNCHANGED guard
     ELSE /\ path' = IF spec[p].mode THEN [path EXCEPT !.mode = TRUE] ELSE path
          /\ To(p, "opens") /\ UNCHANGED <<why, guard, socket>>
  /\ Kept

(* The rest of the open, with the guard: of a path, and for pipe of one    *)
(* that was asked to be removed.                                           *)
opens(p) ==
  /\ step[p] = "opens" /\ Beside(p)
  /\ \/ To(p, "open") /\ UNCHANGED <<why, socket, path>>
        /\ guard' = IF (IF spec[p].scheme = "pipe" THEN spec[p].unlink ELSE ~abstract)
                    THEN guard \cup {p} ELSE guard
     \/ spec[p].scheme # "listen" /\ Fails(p, "peer") /\ Closes(p) /\ UNCHANGED guard
  /\ Kept

(* A listener that does not fork takes one peer and closes its socket.     *)
accepts(p) ==
  /\ step[p] = "open" /\ spec[p].scheme = "listen" /\ ~spec[p].fork /\ Beside(p)
  /\ To(p, "serving") /\ Closes(p)
  /\ UNCHANGED <<why, guard>> /\ Kept

(* The connection ends, and PathGuard::drop removes whatever is there.     *)
Ends(p) ==
  /\ step[p] \in {"open", "serving"} /\ Beside(p)
  /\ To(p, "done") /\ guard' = guard \ {p} /\ socket' = [socket EXCEPT ![p] = 0]
  /\ path' = IF p \in guard \/ (abstract /\ path.by = run[p]) THEN Nothing ELSE path
  /\ UNCHANGED why /\ Kept

Crashes(p) ==
  /\ step[p] \notin Ended /\ Beside(p)
  /\ To(p, "crashed") /\ guard' = guard \ {p} /\ Closes(p)
  /\ UNCHANGED why /\ Kept

Acts(p) ==
  \/ Starts(p) \/ unlink_stale(p) \/ dangling(p) \/ remove_file(p) \/ bind(p) \/ symlink(p)
  \/ ensure(p) \/ apply_mode(p) \/ opens(p) \/ accepts(p) \/ Ends(p) \/ Crashes(p)

Next == \E p \in Processes : Acts(p)

Spec == Init /\ [][Next]_vars

-----------------------------------------------------------------------------
(* Whatever crashed before it, an endpoint that starts while no other      *)
(* process acts opens: with unlink nothing is in the way of a socket but a *)
(* link, and a mode an abstract name cannot have.  It is then at its path, *)
(* with the mode it was asked for, and when it ends well nothing of it is  *)
(* left there.                                                             *)
RecoversAlone ==
  \A p \in alone :
    /\ step[p] = "failed" /\ spec[p].unlink /\ spec[p].scheme \in {"listen", "dgram"} =>
         why[p] = "peer" \/ (why[p] = "mode" /\ abstract) \/ path.kind = "link"
    /\ step[p] = "open" /\ spec[p].scheme = "pty" => path = At("link", socket[p])
    /\ socket[p] # 0 /\ spec[p].scheme # "pty" => path.by = run[p]
    /\ step[p] \in {"open", "serving"} /\ spec[p].scheme # "pipe" /\ spec[p].mode =>
         ~abstract /\ path.mode
    /\ step[p] = "done" /\ (spec[p].scheme = "pipe" => spec[p].unlink) => path = Nothing

(* "A dangling one left by a previous run is replaced": a pty that starts  *)
(* while no other process acts is not refused the link a crashed one left. *)
(* The code does not keep it: a pair is allocated before the link is read, *)
(* and may be given the number that it names.                              *)
DanglingIsReplaced ==
  [][\A p \in alone :
       spec[p].scheme = "pty" /\ path.kind = "link" => why'[p] # "exists"]_vars
=============================================================================

-------------------------------- MODULE Files --------------------------------
(***************************************************************************)
(* What is behind a path: the file or device that file opens               *)
(* (endpoint/file.rs) and the FIFO that pipe holds (endpoint/pipe.rs),     *)
(* with the connections of one endpoint, a relay that forks opening one    *)
(* for each client, and the other programs that use the path.  A cell of   *)
(* the contents is who wrote it.                                           *)
(***************************************************************************)
EXTENDS Integers, SequencesExt

CONSTANTS
  Connections, (* to the endpoint                                          *)
  MaxCells  (* bound on what the path holds, on a FIFO's capacity, and on  *)
            (* what each program writes there                              *)

VARIABLES
  spec,     (* the endpoint: [scheme, append, create, truncate, device,    *)
            (* seek, hold]                                                 *)
  dir,      (* "source" or "sink"                                          *)
  kind,     (* "nothing", "regular", "block" or "fifo"                     *)
  found,    (* the contents before anyone opened it                        *)
  contents,
  step,     (* of each connection: "new", "checked", "seeks", "open",      *)
            (* "done", "failed"                                            *)
  offset,   (* where each will read or write next                          *)
  took,     (* what each has read, or how much it has written              *)
  ended,    (* the connections that read an end of stream                  *)
  broken,   (* those whose write found no reader                           *)
  peer,     (* whether another program holds the FIFO's other end          *)
  given     (* how much it wrote there                                     *)

vars == <<spec, dir, kind, found, contents, step, offset, took, ended, broken, peer, given>>

Specs ==
  [scheme : {"file", "pipe"}, append : BOOLEAN, create : {"unset", "yes", "no"},
   truncate : BOOLEAN, device : BOOLEAN, seek : 0..1, hold : BOOLEAN]

(* File::validate, which the compact form goes through.                    *)
validate(s) ==
  /\ ~(s.seek > 0 /\ s.append)
  /\ ~(s.device /\ s.create = "yes")
  /\ ~(s.device /\ (s.truncate \/ s.append))

creates(s) == s.create = "yes" \/ (s.create = "unset" /\ ~s.device)

(* File::options and Pipe::access: how the path is opened.                 *)
options(s) ==
  [create   |-> dir = "sink" /\ creates(s),
   append   |-> dir = "sink" /\ s.append,
   truncate |-> dir = "sink" /\ s.truncate /\ ~s.append]

(* Mutant: a held FIFO is opened as one that is not.                       *)
OneWay(s) == [read |-> dir = "source", write |-> dir = "sink"]

access(s) ==
  [read  |-> dir = "source" \/ (s.scheme = "pipe" /\ s.hold),
   write |-> dir = "sink" \/ (s.scheme = "pipe" /\ s.hold)]

Init ==
  /\ kind \in {"nothing", "regular", "block", "fifo"} /\ dir \in {"source", "sink"}
  /\ spec \in {s \in Specs :
       /\ validate(s)
       /\ s.scheme = "file" => ~s.hold
       /\ s.scheme = "pipe" => kind = "fifo" /\ ~s.append /\ s.create = "unset" /\ ~s.truncate
                               /\ ~s.device /\ s.seek = 0}
  /\ found = IF kind \in {"regular", "block"} THEN <<"old", "old">> ELSE <<>>
  /\ contents = found
  /\ step = [c \in Connections |-> "new"] /\ offset = [c \in Connections |-> 0]
  /\ took = [c \in Connections |-> 0] /\ ended = {} /\ broken = {}
  /\ peer = FALSE /\ given = 0

To(c, next) == step' = [step EXCEPT ![c] = next]
Opened      == {c \in Connections : step[c] \in {"seeks", "open"}}

(* Whether there is anyone to read, or to write, what is in the FIFO.      *)
HasReader == (peer /\ dir = "sink") \/ \E c \in Opened : access(spec).read
HasWriter == (peer /\ dir = "source") \/ \E c \in Opened : access(spec).write

-----------------------------------------------------------------------------

(* check_device, before anything is opened.                                *)
check_device(c) ==
  /\ step[c] = "new"
  /\ To(c, IF spec.device /\ kind # "block" THEN "failed" ELSE "checked")
  /\ UNCHANGED <<spec, dir, kind, found, contents, offset, took, ended, broken, peer, given>>

(* The open, and what it does to the path.  A FIFO opened one way waits    *)
(* for the other end.                                                      *)
open(c) ==
  /\ step[c] = "checked"
  /\ IF kind = "fifo"
     THEN /\ \/ access(spec).read /\ access(spec).write
             \/ dir = "source" /\ HasWriter
             \/ dir = "sink" /\ HasReader
          /\ To(c, "seeks") /\ UNCHANGED <<kind, contents>>
     ELSE IF kind = "nothing" /\ ~options(spec).create
     THEN To(c, "failed") /\ UNCHANGED <<kind, contents>>
     ELSE /\ To(c, "seeks")
          /\ kind' = IF kind = "nothing" THEN "regular" ELSE kind
          /\ contents' = IF options(spec).truncate /\ kind = "regular" THEN <<>> ELSE contents
  /\ UNCHANGED <<spec, dir, found, offset, took, ended, broken, peer, given>>

(* seek_to, which a FIFO cannot.                                           *)
seek_to(c) ==
  /\ step[c] = "seeks"
  /\ IF spec.seek > 0 /\ kind = "fifo" THEN To(c, "failed") /\ UNCHANGED offset
     ELSE To(c, "open") /\ offset' = [offset EXCEPT ![c] = spec.seek]
  /\ UNCHANGED <<spec, dir, kind, found, contents, took, ended, broken, peer, given>>

(* A write of a cell at the offset, past a hole if the file is shorter; at *)
(* the end under append; into the FIFO, while there is room and a reader.  *)
Placed(c, at) ==
  [i \in 1..(IF at + 1 > Len(contents) THEN at + 1 ELSE Len(contents)) |->
     IF i = at + 1 THEN c ELSE IF i <= Len(contents) THEN contents[i] ELSE "hole"]

Writes(c) ==
  LET at == IF options(spec).append \/ kind = "fifo" THEN Len(contents) ELSE offset[c] IN
  /\ step[c] = "open" /\ dir = "sink" /\ at < MaxCells /\ took[c] < MaxCells
  /\ c \notin broken
  /\ IF kind = "fifo" /\ ~HasReader
     THEN broken' = broken \cup {c} /\ UNCHANGED <<contents, offset, took>>
     ELSE /\ contents' = Placed(c, at)
          /\ offset' = [offset EXCEPT ![c] = at + 1] /\ took' = [took EXCEPT ![c] = @ + 1]
          /\ UNCHANGED broken
  /\ UNCHANGED <<spec, dir, kind, found, step, ended, peer, given>>

(* A read: of a FIFO, that there is something in it or nobody to write.    *)
Reads(c) ==
  /\ step[c] = "open" /\ dir = "source" /\ c \notin ended
  /\ IF kind = "fifo"
     THEN \/ /\ contents # <<>> /\ contents' = Tail(contents)
             /\ took' = [took EXCEPT ![c] = @ + 1] /\ UNCHANGED <<offset, ended>>
          \/ /\ contents = <<>> /\ ~HasWriter /\ ended' = ended \cup {c}
             /\ UNCHANGED <<contents, offset, took>>
     ELSE /\ UNCHANGED contents
          /\ IF offset[c] >= Len(contents) THEN ended' = ended \cup {c} /\ UNCHANGED <<offset, took>>
             ELSE /\ offset' = [offset EXCEPT ![c] = @ + 1] /\ took' = [took EXCEPT ![c] = @ + 1]
                  /\ UNCHANGED ended
  /\ UNCHANGED <<spec, dir, kind, found, step, broken, peer, given>>

(* The connection ends; a FIFO that nobody holds loses what is in it.      *)
Closes(c) ==
  /\ step[c] = "open" /\ To(c, "done")
  /\ contents' = IF kind = "fifo" /\ ~peer /\ Opened = {c} THEN <<>> ELSE contents
  /\ UNCHANGED <<spec, dir, kind, found, offset, took, ended, broken, peer, given>>

(* The other end of a FIFO: a program that comes, writes or reads, and     *)
(* goes.  Its open waits for this end as this end's waits for it.          *)
PeerComes ==
  /\ kind = "fifo" /\ ~peer /\ \E c \in Connections : step[c] \in {"checked", "seeks", "open"}
  /\ peer' = TRUE
  /\ UNCHANGED <<spec, dir, kind, found, contents, step, offset, took, ended, broken, given>>

PeerActs ==
  /\ peer
  /\ IF dir = "source"
     THEN /\ given < MaxCells /\ contents' = Append(contents, "peer") /\ given' = given + 1
     ELSE /\ contents # <<>> /\ contents' = Tail(contents) /\ UNCHANGED given
  /\ UNCHANGED <<spec, dir, kind, found, step, offset, took, ended, broken, peer>>

PeerGoes ==
  /\ peer /\ peer' = FALSE
  /\ contents' = IF Opened = {} THEN <<>> ELSE contents
  /\ UNCHANGED <<spec, dir, kind, found, step, offset, took, ended, broken, given>>

(* The device is unplugged, between two steps of a connection.             *)
Unplugged ==
  /\ kind = "block" /\ Opened = {} /\ \A c \in Connections : step[c] # "done"
  /\ kind' = "nothing" /\ contents' = <<>> /\ found' = <<>>
  /\ UNCHANGED <<spec, dir, step, offset, took, ended, broken, peer, given>>

Next ==
  \/ \E c \in Connections :
       check_device(c) \/ open(c) \/ seek_to(c) \/ Writes(c) \/ Reads(c) \/ Closes(c)
  \/ PeerComes \/ PeerActs \/ PeerGoes \/ Unplugged

Spec == Init /\ [][Next]_vars

-----------------------------------------------------------------------------
Cells(who)   == Cardinality({i \in DOMAIN contents : contents[i] = who})
Started      == {c \in Connections : step[c] \in {"seeks", "open", "done"}}

(* What a sink makes of a file it has to itself.                           *)
Alone(c) ==
  LET kept == IF spec.truncate /\ ~spec.append /\ kind = "regular" THEN <<>> ELSE found
      from == IF spec.append THEN Len(kept) ELSE spec.seek
      size == IF took[c] = 0 \/ from + took[c] < Len(kept) THEN Len(kept) ELSE from + took[c]
  IN  [i \in 1..size |-> IF i > from /\ i <= from + took[c] THEN c
                         ELSE IF i <= Len(kept) THEN kept[i] ELSE "hole"]

(* A path is left as a source found it, and never made where a device was  *)
(* declared, even as it is unplugged; a sink's bytes are where it was told *)
(* to put them, and under append nobody's are written over.  A FIFO that   *)
(* is held never ends for its source, nor breaks under its sink, as its    *)
(* peers come and go.                                                      *)
FilesKeep ==
  /\ spec.device => kind # "regular" \/ found # <<>>
  /\ kind \in {"regular", "block"} =>
       /\ dir = "source" => contents = found
       /\ \A c \in Started : Started = {c} /\ dir = "sink" => contents = Alone(c)
       /\ dir = "sink" /\ spec.append => IsPrefix(found, contents) /\ \A c \in Connections : Cells(c) = took[c]
  /\ spec.hold => ended = {} /\ broken = {}
=============================================================================

# tocat in TLA+

`tocat` relays bytes between two endpoints, through a chain of stages in each
direction. This directory holds TLA+ modules of its concurrent core, the
configurations under which TLC checks them, and proofs, for every size of the
instance, of what the core promises. Paths below are relative to
`src/crates/` unless they begin with another directory.

    tlc -config MCSegments.cfg Segments.tla      # a run; PROJECT.json lists all
    tlapm SegmentsProofs.tla                     # its proofs; eight modules hold some

## The system

| component | state it keeps | operations | what makes it correct |
|---|---|---|---|
| **pump** `tocat-core/src/pump.rs` | per direction: segment tasks, bounded links, effects, the copy buffer | read or stop, process a chunk through the stages, send, tick, finish, join | chunks come out in order and complete; success is only reported when it is true; the signal drains; nothing outlives the pump for ever |
| **process segment** `pump.rs:340`, `child.rs` | a child, two pipes, a feed and a drain future | feed, drain, wait | no deadlock over full pipes; success means that the child's whole output went on |
| **reconnecting stream** `endpoint/reconnecting.rs`, `retry.rs` | one state shared by a reader and a writer: connected, dialling, finished | poll_read, poll_write, poll_flush, poll_shutdown | a break is redialled once, whoever met it; neither side sleeps for ever; a break is never an end of stream |
| **relay** `relay.rs`, `shutdown.rs` | guards of bound paths, permits, a task tracker, the signal | run, run_once with its restarts, serve, run_sync | permits are conserved, paths are owned by who uses them, a drain ends the run |
| **datagram demultiplexer** `endpoint/datagram.rs` | a table of sessions, a queue each, a queue of new ones | demultiplex, accept, recv | one session a peer, a ceiling, order within a session, ended sessions give way |
| **pipeline** `tocat-api/src/pipeline.rs` | stages, two buffers, tick schedules | process, tick, finish | units neither merge nor vanish; ticks are on time |
| **chain building** `pipeline.rs:720-1054` | none | build, boundary_faults | a chain is refused exactly when a stage could not work in it |
| **host effects** `tocat-core/src/host.rs` | staged bytes per channel, pace, halt, shared writers | apply, flush | side output is complete and unscrambled |
| **chan** `endpoint/chan.rs` | a registry of unclaimed ends | register, claim, send, finish | a name serves one connection |
| **counting stages** `tocat-plugins/src/{limit,throttle,rate}.rs` | what was seen, a bucket, a window of samples | on_bytes, on_tick, on_eof | a limit ends the path on the byte, a speed holds, samples add up |
| **framing** `frame.rs` | a partial message, what was searched of it | encode, take, check what is held, end | one unit per message, however the stream is cut |
| **encryption** `encrypt.rs` | a session and its count, a held block, a pool of randomness | open and close a session, update, record | what is opened is what was sealed; a nonce is used once |
| **codecs** `base64.rs`, `hexify.rs`, `compress.rs` | the library's block | encode, decode, flush | what is decoded is what was coded |
| **observers** `tee.rs`, `hash.rs` | offsets, a digest | on_bytes, on_tick, on_eof | every byte is reported once |
| **opening** `endpoint.rs`, `endpoint/layer.rs` | attempts, a deadline | check, dial, wrap | a stack is what was declared, and is refused when it could not work |
| **layers** `endpoint/layer/` | partial records, two locks (ws), answers of a proxy | handshake, read, write, close | records in order, once; the peer is who was named; no byte of the target is taken |
| **message endpoints** `udp.rs`, `unix/dgram.rs`, `unix/seqpacket.rs`, `chan.rs` | the first message, a peer | bind, learn, recv, send | heard from the first message on, and answered |
| **paths** `unix.rs`, `pipe.rs`, `pty.rs`, `sys.rs` | a path, its guard | probe, unlink, bind, link, chmod, drop | a crash leaves nothing that the next start cannot clear; a guard removes its own |
| **terminals, files, sockets, interfaces** `tty.rs`, `pty.rs`, `file.rs`, `pipe.rs`, `tcp.rs`, `sockopt.rs`, `tun.rs` | settings to restore, an offset, options, a privilege | open, configure, relay, restore | what was borrowed is put back, what was asked for is set and nothing else |
| **guests** `tocat-plugins/src/wasm.rs`, `wasm/`, `tocat-wasm-abi`, `tocat-wasm-sdk` | an instance and its fuel, the outbox in its memory | load, on_bytes, on_tick, on_eof, drain | what a guest says in a call is done once, in the units it cut; what it declares is what the chain is told |
| parsing, CLI, progress, TUI, WASM shell | configuration, counters | parse, paint | not modelled |

How they meet: `Relay::dispatch` opens a pair of endpoints, builds a chain per
direction and hands both to `pump`, which runs them in one `try_join!`: the
first error drops the other direction. Within a direction the head segment runs
on that task and every detached stage is a spawned task behind a bounded link.
The shutdown signal is one `watch` that the head and the accept loops await.
A fork endpoint makes one such relay per client, bounded by permits; a datagram
fork endpoint makes its clients up out of datagrams. Side channels are shared
by every pipeline of the process. A reconnecting endpoint is one object that
both directions poll.

The hard behaviours are interleavings at awaits, cancellation (a dropped
future takes what it held), wakers, bounded queues, retries against signals,
and time. `PROJECT.json` lists them as hazards, each with its line.

## The modules

**Direction** is the specification of `pump` as its caller sees it: it takes
chunks, gives them in order, takes at most one after the signal, and its result
is "ok" only when all it took is given, or when a halt further down cut it
short.

**Segments** is `run_segmented` with its N `run_pipeline` tasks. An action is
what a task does between two awaits: `HeadLooks` is the check of the signal up
front in `read_or_stop`, `HeadTakes` and `HeadEnds` the two arms of its select,
`OutletSends` a send that had room, `OutletRefused` one whose receiver is
gone, `Flow` the check for a halt after a chunk is written, `Finish` the end
of stream through the stages and `DestFinish` the shutdown of the endpoint or
the drop of the link. `HeadError` is the `?` that leaves spawned tasks behind,
`Join` and `Return` the loop over the handles, `Dropped` the other direction's
failure. A chunk is its number in reading order. Stages are arbitrary: a call
hands on any prefix of what its segment holds and keeps at most `Hold`, may
raise a halt, may fail. What stages do to the bytes is not here; order,
loss, ends and faults are.

**SegmentsProofs**, **StreamsProofs**, **RelayProofs**, **AssemblyProofs**,
**StagesProofs**, **CodecsProofs**, **LayeringProofs** and **EndpointsProofs** hold the
proofs, of the module or composite they are named after. What they prove is below.

**ProcessStage** is `run_process`: the feed, the drain and the wait as they
share a task, two pipes of `Pipe` chunks, and a child that reads, writes, keeps
up to `Keep`, exits when it likes, and is either a filter or not. Above and
below are an endpoint or a link of `Depth`, chosen at the start. Standard error
is relayed to the log and not modelled.

**Reconnecting** is `State` with the two futures that poll it. The waker a
pending poll leaves is explicit: a stream keeps one per direction, the dial
only the last one. `oneTask` says whether the two futures are on one task (no
detached stage above the endpoint), chosen at the start; on one task waking
either polls both. A reader comes and goes: while its direction writes a chunk
nobody polls it (`ReaderReturns`), and a tick or the signal drops a read that is
parked (`DropsRead`) but leaves its waker where it is. Backoff is a rest that
ends; an attempt need never be answered.

**Serve**, **RunOnce** and **BlockingCopy** are the three ways of
`Relay::dispatch`, and **Relay** composes them (`INSTANCE`) with the choice and
the flush of `Relay::run`. Serve has the permits, errors of accept by kind, a
dial per client, which need not conclude, and the tracker. RunOnce opens two ends, each a listener or a
connector, holds the guard of a bound path, relays, and reopens as `restart`
asks. A direction of it is what Direction promises: chunks it holds, an end
through the stages, or a failure. BlockingCopy has two threads that copy
between their looks at the signal, joined in order.

**Demux** is `demultiplex` with its accept queue and session handlers. A
datagram is its sender and its number.

**Ticks** is a pipeline of a `timeout` above a `block` under the host's timer,
against a clock in integer units (`Pass` is one). The select of `run_pipeline` takes
its input first, so a timer that is due waits for as long as chunks stand ready
(`won`) or a write is awaited (`busy`); `slow` remembers which tick that held up.
Clocks age up to a cap above every bound that is compared with them.

**Metering** is `limit` above `rate` and `throttle`, with `tee` and `hash` beside
them, on one path: every chunk and every instant is a number, a bucket's debt is
rounded to whole instants as the code rounds it to nanoseconds, and a `Pass` of
the clock is what `flow` sleeps for a pace. **SideChannels** is the other half of
an effect. While the run is planned, each chain is built once to discover the channels
its stages write to (`Discovers`), in whatever order the paths ask; `Opens`
opens them and freezes the plan, against which the chains are built again. A target
is a file and whether it is appended to, as `open_channel` compares them. Then
there are the records a call stages, in any order of its stages, `apply` beside the send
of the payload (the two arms of a `try_join!`, so
that either may cancel the other), the lock of a sink that two paths share, and
the flush. A record is written in two pieces, as `write_all` may.

**Guest** is a WebAssembly guest from `Guest::new` to the end of its stream. A
module has some of the optional exports, and may import something, speak another
version or lack what is required; `Builds` is what the host makes of that. A hook resets
the outbox and writes one word in it (`hook`), which `drain` then reads on the fuel the
call left; a hook that is not exported is no call (`Skips`). What the host takes from
the outbox goes through the operators of Emission, as the words of any stage do, and
`meant` remembers what the guest said.

**Units**, **Emission** and **Pipeline** are how one segment runs its stages.
Units is the promise: a stage is called once for each unit of the stage above, and
what it says is cut into units where it asked for it and at the end of a call.
Emission has the operators, one per method of `Emission` and of `Ctx` that
emits, and `units` and `materialise`. Pipeline is `drive`, `run` and `run_tick`
with the two halves: `Begins` is the reset at the head of `run`,
`ReturnsUnframed`, `ReturnsUnit` and `ReturnsEpilogue` are what `run` does after
each of its three calls, and `MovesOn` is the rest of the loop of `drive`. A
plugin may say anything in any call; every word writes a byte unlike all others,
so no two units can be taken for each other.

**Chain** is `Registry::build` for the forward and then the return path, one
action per arm of its match, and the judgement of `Relay::new`, which is asked
about the need of any one stage on either side, of none, and of all. What the
answers should be is not taken from the scan: `Through` says
what each declaration lets a stage do to two bytes cut or whole, and `Reach`
follows every outcome through the chain.

**Framing** is `frame`, the stream and `unframe`, in all six modes. The encoders
and decoders are folds over bytes in an alphabet small enough for payloads to be
full of delimiters, zero bytes and escapes; numbers are in base 2. `Reads` is
any read of what the wire holds and begins `on_bytes`, which goes on with a
`TakesMessage` for each message and ends in `ReturnsFromBytes` (with
`check_held`) or `FailsOnBytes`; units reach the stage below only if the call
succeeds. `Ends` is `on_eof`.

**Encryption** is `encrypt` and `decrypt`. What the options make of a cipher, its
padding, rotation and the answer to a failure are operators with the names of
the code's functions; the cipher is external, and a byte of ciphertext knows what
it was sealed from, under which nonce and at which place, so that one opened
elsewhere is `Garbage`. A stream is cut by either end where its own reads fall,
with blocks held back for the padding and sessions that both count out; a
record crosses a network that loses, repeats, reorders and damages; `harmed` has the
messages whose records it lost or damaged, so that all others can be asked for. The pool
that nonces are drawn from is counted, as a byte used twice is a nonce used
twice.

**Coding** is `base64`, `hexify` and `compress` with the stages that undo them: a
character knows the group of bytes it encodes, so a group that is cut, short or
padded in the middle is what the code's library makes of it.

**Layering** is how an endpoint is opened: `check` over the stack and the policy,
`connect_transport` with its attempts, rests and deadline, the layers from the bottom
up, and what keeps it open afterwards; and beside it, in the same module, the layers
by themselves, each an instance. **Noise**, **Tls**, **Tunnel** (socks5
and proxy) and **Frames** (ws) are these layers. In each, `check` is
the code's, and its guard is what a handshake may then depend on. Noise has two
ends that are given keys and take turns in the handshake, each of which opens, refuses
or fails by itself (`Pins(e)`), so one may write records to a peer that has yet to
refuse it; and one direction of the record stream over a connection that takes and gives any
piece of a record. Tls has the configuration and the verifier it chooses; a certificate is the
authority, the name and the leaf it has; a connection that is cut may lose what was
on its way (`lost`). Tunnel reads an exchange read by
read. Frames has both directions of a WebSocket in two tasks, the two locks, the
pong that tungstenite owes until something is flushed, and the ticks that drop a
`recv` wherever it waits (`ReadDropped`).

**Messages** is the message endpoints of one peer (udp, unix-dgram, seqpacket,
chan) from the bind to what recv and send return. **Paths** is a path that
processes probe, unlink, bind, chmod, link and leave, each step an action,
while others start, end and crash. **Terminal** is tty, which borrows a device
from whoever opens it next, and pty and pty-exec, which allocate one; every step of
`connect` may fail, the duplicate that Restore is made of too, after the settings were
applied, and a connection may be killed anywhere.
**Files** is what file and pipe open, shared by connections and other programs.
**Sockets** is the order in which each socket is made, with its options, over a list
of addresses. **Interface** is tun and tap: a frame is longer than the MTU by its
Ethernet header and by what `packet_info` puts before it (`Beyond`), and a read is cut to
the buffer.

**Streams** (ProcessStage and Reconnecting), **Assembly** (Chain and Pipeline),
**Stages** (Ticks, Metering, SideChannels and Guest), **Codecs** (Framing, Encryption
and Coding), **Layering** (opening and the four layers) and **Endpoints** (Demux
and the six above) put parts that share no state under one specification: a
behaviour picks a part at the start and is one of that part. What they check is
what the parts say, by the same names or joined where two answer one
question. **MCChains** runs Codecs and Assembly in one. Where parts do share state
they are composed for what they share: Serve, RunOnce and BlockingCopy in Relay, the two directions in RunOnce, the
reader and the writer in Reconnecting, the paths in SideChannels.

Constants keep the code's names where it has one (`LINK_DEPTH`,
`SESSION_DEPTH`, `PENDING_SESSIONS`, `max_connections`). Each module says at
its head which files it models; every definition that stands for code is
listed with its lines in `PROJECT.json`. Operators marked *Mutant* are wrong
variants, used to confirm that a property can fail.

## The runs

| run | what it shows | bounds |
|---|---|---|
| `segments` | Order, completeness, the result, the signal, orphans and halts of a two-segment direction with every fault; that it implements Direction; the inductive invariant | N = 2, links of one, one unit held, two chunks |
| `streams` | A subprocess over full pipes ends with its input, and success is complete; both futures of a keep endpoint, on one task or two | pipes of two, links of one, a child that keeps two; two attempts, two breaks |
| `relay` | The three ways of dispatch: permits, paths, what success means, the drain | three clients and two permits; two attempts, two runs; two chunks a thread |
| `chains` | What goes through a chain: one unit per message as sent, whatever the reads; what decrypts is what was encrypted, no randomness is used twice, and a record costs itself; what is decoded is what was coded. And how it is put together: which segments a list of plugins makes; boundaries are refused, and warned about, exactly where they may be lost; buffers, offsets and late copies amount to Units | three bytes of messages, three of a peer that frames otherwise, delimiters `1`, `11`, `12`, headers of one and two digits, limit 2; four bytes or two records, blocks and nonces of two, a pool of five, every rotation up to four; five bytes to code; up to three plugins, both or forward only, with and without detach, each endpoint a datagram endpoint or not; three stages, six words |
| `stages` | Two stages on one timer; limits, speeds and samples; records of paths that share sinks; what is made of a guest and of its outbox | flush 4, tick 3, three quiet ticks, blocks of 3; caps, speeds and bursts on and off, chunks of three, four instants; two paths, two records each, two sinks, the paths alike (a symmetry); fuel of two or none, calls of one to three, an arena of one |
| `layers` | A stack opens as it was declared, or is refused; noise's keys suffice and its records are read as written; tls talks to whom it was told to; a tunnel leaves the target's bytes; a WebSocket's messages are whole | stacks of three, three attempts, deadlines of one; every pattern; records of up to two bytes, three bytes written, a connection that holds three units of one, a rekey after two; two names; names and addresses of one or two units; two frames each way |
| `endpoints` | Sessions and their ceiling; endpoints of one peer; paths over crashes; terminals; files; sockets; interfaces | three senders, two sessions, four messages; three messages; two processes, three runs; two connections; three cells; two accepted streams; three MTUs around a buffer of two, headers of two and of one |
| `process_refused` | a finding, below | as `streams` |
| `keep_detached` | a finding, below | as `streams` |
| `keep_shut` | a finding, below | as `streams` |
| `restart_drained` | a finding, below | as `relay` |
| `silent_end` | a finding, below | the guests of `stages` |

Why the bounds are enough to be worth it: two segments have a head that is not
a tail and a tail that is not a head, and a link between; with two chunks and a
link of one, one chunk can be held, one in the link and the sender parked. (The
proofs cover every N; three segments with one chunk pass too.) Three clients at
two permits, or three peers at two sessions, are the least that make somebody
wait. Two breaks let a redial fail in either order on either side; two attempts
let one be retried and the limit be reached. In `stages` the periods 3 and 4 do
not divide each other, so every phase between them occurs; blocks of three let a
chunk start one, go on with one, fill it or overflow it. Fuel of two is spent within a
call, exactly by it, or so that one unit is left for `tocat_outbox`. Two paths are the least
that contend for a sink, and two records each the least of which one can be torn
by the other; the paths of SideChannels differ in name alone, so `Permutations(Paths)` is
sound for what is checked of them. Two sinks are the least by which one file has two
writers. (The proofs are of any number.)

Three stages have one that reads the caller's buffer, one that reads the first
half and one that reads the second; six words let a stage cut two units and
the next keep one and rewrite the other, with an epilogue. Three plugins put a stage
on both sides of one that needs its boundaries; each of three is told whether to
detach, the defaults being looked at in lists of two, where they give what a stage that
is told may get. Three bytes are two messages, one of
which is longer than a block or the limit; a message of three is over every
limit but the length header's of two digits. (With four bytes of messages or four of noise, and with seven
words, more states than the run has time for, the same properties hold.) Four bytes of plaintext in blocks of two are
two whole blocks with a third of padding, under every rotation that
falls inside, at or after a block; a pool of five holds two nonces of two and a
byte, so one must be drawn across a refill. Five bytes are a group of
base64 and a cut one.

Three layers put one between two others; a deadline of one and three attempts
let a dial give up for either reason. A record of a length, two bytes and a tag is longer than the
connection's three units, so it is cut in every place. Two frames each way let a ping lie between two
messages with both directions full. Two processes over three runs let one
crash, the other recover, and the first come back to a path that is not its
own. Two connections are the least that overlap on a terminal or a file; three
MTUs lie below, at and above the buffer, and with headers a frame passes it at each.
Three bytes of noise are two records, one of them whole while the next is cut.

Each run has one invariant, or a part of one, that takes the types of its module
with the structure that rests on them, and the properties that are about more
than one state, or about what success means. Where several say one thing of one
component they are one definition of its composite, with a comment of its own:

| checked | stands for |
|---|---|
| `EndsComeThrough` | the signal drains, spawned tasks end, a halt ends what is below |
| `ResourcesInv` | permits, paths of RunOnce, reads after the signal of BlockingCopy |
| `ProcessInv` | types and `OkMeansComplete` of ProcessStage |
| `DialsConclude` | `DialConcludes`, `CloseIsHeard` of Reconnecting |
| `ScanIsExact` | that, `WarningIsExact` and `OkMeansCarried` of Chain |
| `UnitsArePassedOn` | `WellFormed`, `ObserversAreFree` of Pipeline |
| `OnSchedule` | `InTime` (flushed in time, halted in time, never early) of Ticks at each step, `NoBurst` and `NeverFlushedEarly` at each wakeup |
| `MetersAreExact` | `LimitIsExact`, `SpeedHolds`, `SamplesAddUp` of Metering |
| `ReportsAreWhole` | `RecordsAreWhole`, `OkMeansReported`, `NoTailIsLost` of SideChannels |
| `GuestsAreHeard` | `LoadedAsBuilt`, `HeardAsSaid` of Guest |
| `FramedAsSent` | `ReadAsSent`, `EndsOnAMessage`, `LimitsHold`, `RefusedRightly` of Framing |
| `FuturesInv` | types, `NobodyForgotten`, `ShutdownIsFinal` of Reconnecting |
| `RecordsStandAlone` | that and `NoncesAreFresh` of Encryption |
| `OpensAsAsked` | `OpensAsDeclared`, `AttemptsHold` of Layering |
| `ReadAsWritten` | that and `KeysSuffice` of Noise |
| `PeerIsAsNamed` | that and `HangUpIsAnEnd` of Tls |
| `HeardAsSent` | `HeardInOrder` of Demux, `HeardFromTheFirst` of Messages |
| `SessionsHold` | `SessionsInv` at each step, and only live sessions keep a peer out, of Demux |
| `MadeAsAsked` | `SocketsCarry` of Sockets, `InterfaceIsKept` of Interface |

Deadlock checking is off throughout: every one of these systems stops when its
work is done.

Nine definitions state a promise that the code does not keep and have no run:
`SetupIsBounded` (Layering), `OnlyFromPeer` (Messages), `TtyPutBack` (Terminal),
`DanglingIsReplaced` (Paths), `TakesNothingBack` (Guest), `OneSinkAFile`
(SideChannels), `PacketsAreWhole` and `RefusedUpIsDown` (Interface), and
`NoTailIsLost` of SideChannels where `Abandons` is TRUE. A configuration with the
constants of the composite's run and any of them as an invariant shows its
counterexample; each is described under *Findings*.

### Fairness

Tasks that can go on do: weak fairness of each task (tokio polls what is woken)
and of the caller's join. Writing endpoints accept bytes or fail; children end
after their input has (`streams` asks this of a filter only); directions that are
signalled end, which is what `segments` shows of them (`EndsComeThrough`). Nothing
is assumed of peers, of clients, of the signal, of ticks or of faults. In
`relay` a thread stuck in a blocking read never comes back, and the run ends
nevertheless.

No dial is assumed to conclude: `connect-timeout` is off unless it is given
(`retry.rs:125`, 179), `retry=forever` has no last attempt, and the handshakes of
layers are not under it. So `SignalDrains` leaves out a fork that is for ever held
up by a client's dial (`relay.rs:772-777` does not race it with the signal), and
`DialsConclude` an attempt that is never answered; in what is left they say that
nothing else holds up a drain or a dial.

In `streams` each assumption is about a step of the part that runs (`Piped`,
`Kept`). A reader of a kept stream is polled when it is due, but it is not assumed
to come back: it may be dropped while it is parked, or its direction be busy
for ever. `keep_detached` and `keep_shut` are under the same fairness. `BusySpec` of
ProcessStage, used for the first finding, says that the
source always sends again, which only makes it harder to see that it goes on
for ever. `chains`, `stages`, `layers` and `endpoints` check safety only
and assume no fairness.

## What is proved

### The pump's segments (SegmentsProofs)

For every N, LINK_DEPTH and Hold in Nat (N, LINK_DEPTH > 0) and every bound on
chunks (`SegmentsAssumption`):

- `TypeCorrect`: `Spec => []TypeOK`.
- `Inductive`: `Spec => []IInv`.
- `Order`: chunks come out in the order they were read, none missing or twice.
- `NothingLost`: a pump that reports success has delivered all that the last
  segment to stop on purpose was ever handed.
- `OneAfterSignal`: the head reads at most one chunk after the signal.
- `Implements`: Segments implements Direction under the mapping at the end of
  `Segments.tla`, initial states and every step.

None of the three safety properties is inductive: `sink` in order says nothing of
what is on its way. The strengthening `IInv` is an account. While a
segment still has a reader, what it sent, what it is sending and what it holds
are consecutive and add up to what it was handed (`SegInv`); a link carries
exactly what its sender sent and its receiver has not been handed (`LinkInv`);
the sink is what the tail sent (`SinkInv`). Endings need `EndInv`: a segment
that is ending on its own account either stands below a failure or a halt
(`Broke`), or has been handed all that every segment above it was and those are
done. `GotInv` orders the counts, `JoinInv` ties the result to the joins, and
`SignalInv` counts the reads after the signal.

The proof does each conjunct for one action at a time. Most actions
are of one segment, so `OwnStep` shows that the acting segment keeps its own
account, `LinkFrame`/`LinkStep` do the two links it touches, `SinkStep` the
tail, `EndStep` and `BrokeStable` the endings, and `OutsideStep`/`DroppedStep`
the environment and a dropped caller. Runs of consecutive numbers have four
lemmas of their own (`RunAppend`, `RunTail`, `RunConcat`, `RunSplit`).
TLC checks `IInv` too, in `segments`.

### The rest

Nothing is assumed of the constants beyond the ASSUMEs of the modules, which TLC
evaluates in every run: that bounds are numbers (positive where the code's
are: `StreamsAssumption`, `ProcessAssumption`, `OpeningAssumption`, `TicksAssumption`,
...), that peers and clients are finite in number, and that model values for
"nobody" and for old content are nobody's names (`StagesAssumption`,
`EndpointsAssumption`). What is a set of values here (peers, paths,
connections, MTUs, speeds) is any set. Each theorem is of the specification of the
composite that a run checks, and states the very definition it checks.

| module | theorem | states | by the inductive invariant |
|---|---|---|---|
| StreamsProofs | `ProcessCarriesAll` | `ProcessInv` | `ProcessIInv`: a child that exited well and late was fed to its end; a drain that is done has read a dead child's pipe; success is both |
| | `NobodyIsForgotten` | `FuturesInv` | `KeepIInv`: a parked future's waker is with what ends its wait, or the stream was shut down under it; a rest has attempts left; a stream is finished by a shutdown, or a dial that used up its attempts |
| | `OnlyThePeerEnds` | `EofOnlyFromPeer`, an action property | the same |
| RelayProofs | `Inductive` | | `IInv`, the conjunction for the three ways of dispatch |
| | `ResourcesHeld` | `ResourcesInv` | `ForkIInv`: permits free, with the loop and with connections add up to the ceiling; `OnceIInv`: what is bound as an end opens, what is held where; `SyncIInv`: a thread that waits in a read has read nothing since the signal, and owes the chunk in its hands |
| | `SuccessIsDone` | `OkMeansDone` | the same |
| AssemblyProofs | `UnitsAreWhole` | `UnitsArePassedOn` | `PipeIInv`: bounds ascend within the bytes, nothing is handed on behind the last bound, and what came back untouched was not copied (`Run`) |
| | `BuffersImplementUnits` | `Implements`, a refinement | the same; units are the pieces between bounds |
| | `ChainsAreAsDeclared` | `BuiltAsDeclared` | `ChainIInv`: what a chain holds, what is drafted and what is left are together the stages that were selected, in their order (`InOrder`), and each segment, the draft too, is a task where it was asked to be one |
| | `ScanningIsExact` | `ScanIsExact` | the same, and that what was found to be met is |
| StagesProofs | `DeadlinesAreTrue` | | `TicksIInv`: a deadline has drawn near by what a block has aged, and the ticks counted are the time that went by, but for what writes held up; a read that wins the race starts the count over |
| | `ServedOnSchedule` | `OnSchedule`, a property of states and of wakeups | the same |
| | `ReportsWhole` | `ReportsAreWhole` | `ReportsIInv`: what a path has staged follows what it has written; a lock is held for the channel whose turn it is; a sink is whole records but for its holder's; a flush has seen what it has not left to see |
| | `GuestsHeard` | `GuestsAreHeard` | `GuestIInv`: nobody is loaded twice, nor ticked unasked; `HeardIInv`: before and after every call what is held and what was said agree (`Agrees`): the bytes laid end to end, the bounds, and what the host was asked for; what came back untouched is all there is of a chunk |
| | `MetersAreTrue` | `MetersAreExact` | `MeterIInv`: what passed from any chunk on, with what is left in the bucket, is paid for by one bucket and the time since, and a pause lasts until what is owed is earned; short of its limit a path has counted what it passed; a sample and a digest hold what passed, or have it to come |
| LayeringProofs | `OpenToWhomItWasTold` | `PeerIsAsNamed` | `TlsIInv`: what is configured passed check, and what opened was accepted; what is read and what a cut lost is of what was written |
| | `OpenedAsDeclared` | `OpensAsAsked` | `OpeningIInv`: up to the layer that is up, the stream carries what the scan says it does, and each was told the host of the tunnel below; attempts keep to the policy |
| | `RecordsAreRead` | `ReadAsWritten` | `NoiseIInv`, below |
| | `StartsWithTheTarget` | `StartsAtTarget` | `TunnelIInv`: in each step, what the proxy has sent and the client not yet taken begins with an answer the client asked for, and it asks for no more of it than there is |
| | `MessagesStayWhole` | `MessagesAreWhole` | `FrameIInv`: what recv took in, with the frames on their way, is what the peer sent, up to where the connection broke; what the peer heard or will, but for pongs, is what send was handed, and the message it is sending is the next; while the connection lasts, who owes a pong is about it, or was until a tick dropped it |
| CodecsProofs | `NothingIsReused` | `RecordsStandAlone` | `CipherIInv`: a nonce is of the pool at hand, before what that has used, or of an earlier one; an open session has passed on what it emitted and what is pending, and has room to close in its budget; what is on the way is of messages that were sent; a message that was not harmed came out or is going (`Reaches`), and a record that was damaged is of one that was |
| EndpointsProofs | `SessionsStayBelow` | `SessionsHold`, of states and of steps | `DemuxIInv`: what is alive has a permit or waits for one; an entry of the table is the last session of its peer; a session's history and its queue ascend, up to what was received |
| | `HeardAsItWasSent` | `HeardAsSent` | that and `ChatIInv`: what is in the inbox follows what was got, and nobody else's was kept |
| | `StartsOverAlone` | `RecoversAlone` | `SharedIInv`: whose name it is that is at the path, whoever starts, and what one that is undisturbed has done so far |
| | `TerminalsAreLent` | `TerminalsHold` | `LinesIInv`: a device is never between what was found and what was asked (`Unmixed`); of borrowers one at a time, what each will put back is what the first found, while nobody was killed or had no duplicate |
| | `MadeAsItWasAsked` | `MadeAsAsked` | `SocketIInv` (which options are set by each moment) and `LinkIInv` (what an interface was before, and an MTU that fits while it is the one that was checked) |
| | `KeepsTheFile` | `FilesKeep` | `FilesIInv`: where in the file each byte of each writer is |

The invariants of parts were checked by TLC on a small instance before they were
proved. Proving them found the model wanting twice. The plan of the side channels had
been a constant of the run: `ReportsIInv` needed to know when a channel
exists, which the code settles while it plans, so the planning became part of the
model. And the arms of a CASE in Metering (`Forwarded`) and in Encryption (`OpensAs`)
overlapped: TLC takes the first, as the code does, but TLA+ may take either, and the
prover does. They are disjoint now.

Some of the arguments:

- **Parts under one specification.** A behaviour of a composite is of one part. A
  part's theorem needs only that a step of the composite is a step of the part
  or leaves its variables alone, which is the first lemma of each proof. In RelayProofs the
  three ways share the signal, so the lemma there says who may raise it, and
  that nobody lowers it.
- **Records of noise.** How many bytes each record took is not in the state, as
  the code does not keep it, so `Recorded` is an existence: there are byte counts
  by which the units on the line, in the buffer and in the collection are whole
  records in order (`Sealed`), the last perhaps cut by the end. A write chooses
  one more, a read drops the first, and a cut keeps all of them.
- **Recursive functions.** `CarriesAfter` and `HostAbove` of Layering are defined by
  recursion on the layers. That they satisfy their equations is not given to the
  provers; the lemma `Induct` of LayeringProofs, from the least element of a set of
  numbers, shows that they do, up to any length. `Only` of Frames, a filter, is
  another: what it makes of the beginning begins what it makes of the whole. `Sum` of Metering is one too, and
  StagesProofs has the same lemma for it; so are `Applying`, `Stages` and `Reach` of
  Chain, for which AssemblyProofs has it, and `Cutting` of Guest.
- **What a guest said.** `HeardAsSaid` compares two accounts that are kept in different
  ways: the host appends, marks bounds and copies late, piece by piece; `meant` has the
  bytes of every call and a set of places to cut at. `Holds` says of the first, at any
  point, which bytes and which cuts it stands for, and each operator of Emission
  changes both alike (`ForwardHolds`, `BoundaryHolds`, `PassHolds`, `DropHolds`). That
  the units `Meant` cuts are those the bounds cut needs that a finite set of
  numbers has one enumeration that rises (`OneOrder`).
- **Exactness of the scan.** The scan stops at the first stage that settles the question;
  what may arrive (`Reach`) goes through every stage. Both directions of the
  equivalence are one argument each way: a set of parcels that every stage keeps
  to (`AllKept`) shows that nothing is lost, and one that every stage may leave a
  parcel in (`SomeKept`) that something may be. Up to the stage that settles it
  there is some parcel, or only the one emitted; that stage moves it into such a set
  (whole or torn, upstream; written by a seal or lost, downstream), and
  the stages behind it keep it there, whichever they are.
- **Blocks and budgets.** A session of a block cipher closes with a block of padding,
  so its budget holds because what it has emitted is whole blocks, and of two numbers
  of whole blocks the larger is larger by a block (`BlockApart`).
- **Refinement of Units.** The two buffers, the copy between them, the offset of the
  unit at hand and the late copies of `ensure_copied` all map to one sequence of
  units heard and one of units said. A step of Pipeline that only moves bytes is a stutter;
  a word that ends a unit adds a piece, one that does not lengthens the rest behind the last bound.
- **Records of paths.** A sink is cut at the end of its last whole record. What lies
  behind is empty or the first piece of the holder's record, or what a path that
  failed left there, after which that channel is never written again
  by it; `Told` and `Bad` say which records that leaves.

### What stays with TLC

- **Liveness**: `EndsComeThrough`, `InputEndsIt`, `DialsConclude`,
  `ChunksAreReadByOneTask`, `SignalDrains`, `KnockersAreTaken`. The prover has no
  rule for fairness or ENABLED.
- **What is defined by folds over data**: the rest of Codecs (`FramedAsSent`,
  `DecryptedAsSent` and `DecodedAsCoded` there, `ChunkingIsInvisible` of Framing), whose
  encoders and decoders are folds over bytes. What a fold computes for every input
  is induction over data.
- The five findings, which are counterexamples.


## Findings

Five disagreements have a run of their own:

1. **A process segment ignores that the one below stopped** (`process_refused`).
   `Outlet::send` returns false for it and says that it "is end of stream for
   this segment too" (`pump.rs:866-873`); the drain at `pump.rs:466` discards
   the answer, so the child is fed for as long as the source has data.
2. **A dial polled from two tasks forgets one of them** (`keep_detached`). With
   `reconnect=keep` under a detached stage, the side that polled the dial first
   is not woken when it completes, against `reconnecting.rs:12-13`. On one
   task (`ChunksAreReadByOneTask`) all is well.
3. **A shutdown leaves a reader asleep** (`keep_shut`). `poll_shutdown`
   (`reconnecting.rs:231`) drops the connection, and with it the waker of a reader that
   is parked on it, and wakes nobody. The reader, which its next poll would tell of
   the end, is not polled again: on another task never, and on the same one only if
   something else wakes it. `NobodyForgotten` leaves this case out, by name.
4. **A restart does not look at the signal after its wait** (`restart_drained`):
   `relay.rs:657` checks before the sleep only, against the comment at 654-656.
5. **A guest without `tocat_on_eof` repeats its last chunk** (`silent_end`). The
   call is skipped (`wasm/engine.rs:287`), the outbox is drained all the same
   (`wasm.rs:119`) and still holds what the last `on_bytes` wrote. `sdk/wasm/examples/toupper.c`
   is such a guest. The SDKs export every hook, "which changes nothing the
   host does" (`tocat-wasm-sdk/src/lib.rs:343`): here it does.

Read while modelling, each modelled as the code does it:

- `run_once` holds the guards of a failed pair during the restart wait; the
  comment at `relay.rs:664-667` says they are dropped by then.
- A restart discards what the stages held, where `retry.rs:79-81` says that the
  old path gets its end of stream first: an error leaves `run_pipeline` before
  `finish`, and `try_join!` drops the other direction.
- `poll_shutdown` of a keep endpoint drops the whole connection, so ending one
  direction ends the reading of the other, unlike a plain duplex endpoint.
- A dial given up by the writer, on a task of its own, finishes the shared state
  (`reconnecting.rs:152`, 209): the writing direction reports the error, and the reader
  hears an end of stream, Ok(0), which "is the peer saying it is finished" (`GivenUp` in
  `EofOnlyFromPeer`).
- A read that is dropped, by the signal or by a tick (`pump.rs:240`), may be the last to
  have polled a dial, which then keeps a waker of nobody: a writer that is parked on it on
  another task is not woken. It is the hazard of finding 2 by another way;
  `ChunksAreReadByOneTask` and `DialsConclude` (`Wanted`) ask for somebody who is there.
- A writer waiting for a dial does not hear the signal, so with `retry=forever`
  a drain waits for the peer. Nor does the dial of a forked client (`relay.rs:772-777`),
  which nothing bounds unless `connect-timeout` was given: it holds up the drain of the
  fork for as long.
- A fatal accept error returns from `serve` without waiting for its clients,
  and the channels are flushed under them (`relay.rs:714`, 362): what they
  report afterwards may be lost, and the flush warns of nothing. This is
  `NoTailIsLost` with `Abandons` TRUE.
- `connect-timeout` bounds the transport alone (`endpoint.rs:658`), where the
  handshake of a layer says that "bounding connection setup is the caller's job,
  in the one place that already does it for every layer" (`SetupIsBounded`).
- What was queued on a udp or unix-dgram socket between its bind and its connect
  stays queued and is heard, whoever sent it (`OnlyFromPeer`).
- A terminal is not always put back, against `tty.rs:18-20` (`TtyPutBack`). One that is
  opened twice at once is restored in the order the
  connections end, so the last puts back what the first had set. And where the
  duplicate for Restore fails after `tcsetattr` (`tty.rs:375-382`), the settings stay. `bits` out of range in a configuration file is met by an
  `expect`, as only the parser refuses it.
- The link that a crashed pty left may not dangle (`DanglingIsReplaced`): the pair
  is allocated before the link is looked at (`pty.rs:304`), and the kernel gives out the
  lowest free number, so the new relay may be given the device that the old link
  names. It is then not replaced, against `docs/src/guide/endpoints/pty.md:55-57`.
- An `on_eof` of a guest that says nothing is a `drop_chunk` (`wasm.rs:160`). Below
  a stage that flushes at the end it takes back the last chunk, if the guest has
  passed that through in the same call (`TakesNothingBack`).
- `tocat_outbox` runs on the fuel that the call before it left, so a call that fits its
  budget exactly fails the path. A guest that spends it all before
  `tocat_tick_interval_ns` gets no ticks and no message.
- A first signal is not heard by a pair that is still being opened
  (`relay.rs:394`); `SignalDrains` of Relay says where it starts.
- After a signal, `run_sync` is dropped with its guards while its threads may
  still be inside a call; the process gives them its teardown grace.
- A byte held by `block` may wait almost two intervals when the host timer's
  phase is against it (`pump.rs:714`), where `block.md` says at most one.
  And the select takes its input first (`pump.rs:726-729`, and so
  `docs/src/api/ticks.md:66`: "Reads win the race against the timer"), so under a source
  that always has a chunk ready no tick is served at all; a short block then waits until
  it is full. `FlushedInTime` states the bound that holds where neither a write nor
  reads that won held the tick up. A timeout loses nothing by it: it counts from the last read.
- The plan of the channels tells files apart by path and `append` (`host.rs:65-67`). Two stages
  that name one file, one with append and one without, get two writers of it, each at
  its own offset and behind a lock of its own, and write over each other
  (`OneSinkAFile`); so do two that spell the path in two ways.
- The two ends of noise open separately (`noise.rs:759-794`). The one that
  wrote the last message is open, and its relay may write, while the other has yet
  to compare a pin; if that refuses it, the connection is dropped, which the first reads as
  a clean end if it falls between two records.
- tls reads a connection that ends without `close_notify` as an end of stream
  (`tls.rs:543-568`, which says so): what was lost on the way is lost silently. `HangUpIsAnEnd`
  has it (`lost`).
- A tick drops a ws `recv` that is flushing a pong (`pump.rs:726-738`, `ws.rs:225`). No message
  is lost by it, but the pong is then owed until another ping or a write.
- A tap frame is longer than the MTU by its Ethernet header, and a packet under `packet-info`
  by four bytes, where `tun.rs:273` compares the bare MTU with the buffer: at an MTU of the
  buffer's size the ends of full frames are lost, quietly (`PacketsAreWhole`),
  against `docs/src/guide/endpoints/tun.md` and the comment above the check.
- `up=false` on an interface leaves it as it is (`tun.rs:94-96`, 232-245), where
  `docs/src/guide/endpoints/tun.md:78-79` has it bring the interface down and need the privilege
  for that (`RefusedUpIsDown`).
- A record that comes twice is delivered twice by `decrypt`: records have no window of what was
  seen. No doc promises one; `RecordsStandAlone` speaks of what is delivered, not of how often.
- `reconnect-delay` is not consulted under `keep`.
- `Transport::is_datagram` leaves `chan` out (`endpoint.rs:523`), which `chan.rs`
  says is a datagram endpoint under the same checks.
- The `Ping` arm of the ws read awaits the lock a blocked write holds
  (`ws.rs:225`), which the head of that file warns against for a single lock: with
  the connection full both ways, and a peer that reads only once it is read,
  neither moves. The pong leaves with that flush, and not with the next write
  as a comment at the reader has it.
- `on_eof` of a stage that was handed one unframed unit shares its context with
  the `on_bytes` before it: `ctx.input()` is that unit and not empty, as
  `plugin.rs:308` says it is, `drop_chunk` undoes what `on_bytes` passed through,
  and the output of both calls is one unit, where `docs/src/api/units.md` has
  one per call. `RunsOn` of Units is this case.
- `docs/src/guide/plugins.md` says that under a `frame` "no later stage can lose"
  the boundary. An `unframe` of the same mode in the same chain undoes it, and the
  scan, which stops at the `frame`, does not look so far. `ScanIsExact` holds
  with an `unframe` taken to read the framing of the peer.
- `max-message` "means the message rather than the frame" (`frame.rs:839`) in
  the counted and delimiter modes (`MaxMeansMessage`). COBS and SLIP hold the
  escaped bytes, so a message within the limit may be refused, if it arrives in
  pieces; and a message over the limit passes every terminator mode, if it arrives
  in one. The limit is on what is held, as `frame.rs:877` says.
- The text of `AMBIGUOUS_MESSAGE` names any message that ends with a prefix of
  the delimiter; the check refuses fewer, only those that would be read as
  something else (`RefusedRightly`).
- `flow` does not race the sleep of a pace with the signal (`pump.rs:799`), so
  a drain may wait for one pace.
- A halt or a pace that a stage asks for in `on_eof` is read by nobody.
- A receive of the demultiplexer is polled before the signal (`datagram.rs:227`).
- A second signal in the few instructions between the two waits of the handler
  is not counted as the second.
- `unlink_stale` probes and then removes (`unix.rs:224`), so two relays that start
  at once can remove a path that is alive; it also takes a regular file or
  a device for a dead socket, as connecting to one is refused. A dangling
  symbolic link passes its `exists` and fails the bind.
- A `unix-listen` without fork drops its listener once a client is there and keeps
  the guard of the path, which may by then be a successor's.
- A mode that cannot be set leaves the path that was just bound; so does a
  `unix-dgram` whose connect fails, and a FIFO made with `unlink` whose open fails.
- A held FIFO as a sink discards what nobody has read when it is closed.
- `tcp` with a local address tries the first of the peer's addresses only, and `udp`
  binds the first local one whatever its family.
- Options of another family are refused by the parser only: from a configuration
  file `reuseaddr` on a unix socket is ignored, and `nagle` or `keepalive` end
  its accept. `file`'s contradictions, `unlink` of a `unix-dgram` and the hardware
  address of a tun are also the parser's alone.
- `unix-seqpacket-listen` sets its options after its bind.
- A tun is compared with the copy buffer when it is opened and not again.
- `exec` and others under `reconnect=keep` pass the check and fail once opened.
- `stream.rs` says of `recv` that only two variants can end; a boxed one can too.
- The socks5 exchange writes its requests without a flush, which a buffering layer
  below would hold.

## Not modelled

- **Of guests**: log records, the layout of the outbox in bytes, the cache of
  compiled modules (one lock, held across a compilation), and the interactive shell.
- **Parsing, configuration and the command line.** Pure functions of text, tested
  over tables. What a check refuses of a parsed endpoint, layer or stage is in its
  module. Where the parser alone refuses something, the inputs of a module are mostly what
  passes it: Files and Interface begin with specs that the parser accepts, so that a `file` with
  `device` and `create`, or a tun with a `mac`, both of which a configuration file can
  ask for, are not seen by their runs. Sockets and Layering take what a configuration file
  may say, too.
- **Progress, logging and the terminal interface.** Display; memory orderings of
  the counters concern nothing else.
- **Libraries**: ciphers, digests, zstd, rustls, snow, tungstenite, the kernel and
  the runtime. They appear as what the code uses of them (*external* in the map).
- **stdio and exec** have no state of their own beyond the handles they hand to the
  relay, **copy buffers** are an aligned allocation, and name resolution,
  multicast interfaces and the text of addresses are inputs.
- **The second signal** ends the process from any state.

Parts of one composite do not meet in one behaviour: a record of noise is not
also a chunk of Segments. What they hand to one another is bytes or messages, and
each part takes any of them.

## Plan

Done, in this order: Direction, Segments with its proofs, ProcessStage,
Reconnecting, RunOnce, Serve, BlockingCopy and Relay, Demux, Ticks; then
Pipeline over Units, Chain and Framing; then Metering and SideChannels,
Encryption and Coding, the layers, the endpoints, and Guest.

Then the proofs: of Segments first, then of the parts of Streams and Relay, of
Demux and Messages, of the local endpoints, of the layers, of Pipeline against
Units, of what Stages relies on, and of Chain.

What could come next: `DecryptedAsSent` of a stream
whose sessions are laid end to end.

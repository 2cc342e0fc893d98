# A verification of coreletd

coreletd is a daemon that makes a Linux board with an SX1262 LoRa module a
MeshCore companion node: it keeps contacts, channels and received messages,
sends and relays packets, and serves one companion app over TCP or a Unix
socket.  It runs on one thread, around an event loop: every timer, descriptor
and radio event is a callback that runs to completion.

This directory holds TLA+ models of its parts, TLC runs that check them on
small instances, and TLAPS proofs of the properties that matter most, for all
values of their constants.  Source paths below are relative to the repository.

## The parts of the system

| part | source | model |
| --- | --- | --- |
| packet dispatcher: priority queue, pacing, dedup | `src/mesh/dispatcher.*` | `Dispatcher`, `TxQueue` |
| duty-cycle account, Radio interface | `src/radio/radio.*` | `DutyCycle`, `RadioContract` |
| reliable sender: retries and acks | `src/mesh/sender.*`, `src/mesh/routing.h` | `ReliableSender`, and over relays in `Mesh` |
| SX1262 driver | `src/radio/sx1262.*` | `Sx1262`, `ChannelSense` |
| GPIO, SPI | `src/radio/gpio.*`, `spidev.*` | the bus that may fail, in `Sx1262` |
| mesh node: receive, relay, acks, paths | `src/mesh/node.*` | `Mesh`; what it stores in `StateDir`, what it tells the app in `Companion` |
| contacts, channels | `src/mesh/contacts.*`, `channels.*` | adverts and routes in `Mesh`, commands in `Companion`, files in `StateDir` |
| inbox, state writer, durable files | `src/mesh/inbox.*`, `state_writer.*`, `src/util/persist.*` | `StateDir` |
| settings | `src/daemon/settings.*` | `StateDir`, replies in `Companion` |
| companion server | `src/companion/server.*` | `Companion`; the Unix socket in `UnixSocket` |
| companion session, frames | `src/companion/session.*`, `frames.*` | `Companion` |
| event loop | `src/daemon/eventloop.*` | `EventLoop` |
| daemon start and stop | `src/daemon/app.*`, `src/main.cpp` | identity, loading and the last flush in `StateDir` |
| packet and payload codecs | `src/proto/*` | hops and the duplicate hash, in `Mesh` |
| crypto, identity | `src/crypto/*` | the identity file, in `StateDir` |
| configuration, INI, metrics, logging, bytes | `src/daemon/config.*`, `host_metrics.*`, `src/util/*` | not modelled |

How they interact: everything runs as callbacks of the event loop.  The app's
requests reach the session, and through it the node, which hands direct
messages to the reliable sender and everything else to the dispatcher; the
sender gives each attempt to the dispatcher too, and is told its fate by
`on_result`; the dispatcher feeds the radio one packet at a time and is told by
`tx_done` when it is off the air.  What the radio hears goes the other way: to
the dispatcher, which drops duplicates, to the node, which relays, answers and
stores, and to the session, which pushes.  The stores are written by the state
writer, the settings by themselves.

    ReliableSender --uses--> TxQueue <--implemented by-- Dispatcher
                                                            |
    RadioContract <--implemented by-- Sx1262   (Dispatcher's own radio is the same contract)

    Mesh       several nodes: node, contacts, sender and dedup, composed over the air
    Companion  one node's server, session, contacts, inbox and settings, with two clients
    StateDir   one node's stores, settings, key, writer and start-up, over a disk
    EventLoop  what all of them assume of their callbacks

## The modules

**`Dispatcher`** models every operation of `src/mesh/dispatcher.cpp` that
changes state.  `Send`, `PumpTimer`, `Receive`, `ExpireSeen`, `Reconfigure` and
`TxDone` are the entry points; `Pump` is `pump()`, with one operator for each of
its stages (`Swept`, `PumpLive`, `PumpReady`, `Defer`, `Transmit`), applied to
the state its caller has reached.  `queue`, `timer`, `busyFor`, `seen` and
`spent` are `queue_`, `pump_timer_`, `busy_since_ms_`, `seen_` and `duty_`.
The radio is an environment that goes up and down, refuses a packet (and is then
down: `Sx1262::send()` fails only on an I/O error), loses a transmission or hears
somebody else.  Time is discrete and relative: each deadline is the time that
remains, and `Tick` makes all of them one shorter.  `Tick` may happen although a
timer is due, because `poll()` returns late.  `DutyCycle` holds the
sliding-window account as operators.

**`TxQueue`** is the promise of `TxResultHandler` in `dispatcher.h`: every
accepted packet is answered once, at most one is on the air.

**`ReliableSender`** models `src/mesh/sender.cpp` above `TxQueue`.  `Send`,
`OnRetry` and `Complete` are the operations; `QueueServes` is the queue
answering packets, with `on_tx_result()` as part of that step, as in the code.
Contacts come, go and change their path at any time.  The hash of an ack is a
constant operator, so that hashes may collide.

**`Sx1262`** models the driver: `Begin`, `ReleaseReset`, `PollResetBusy`,
`Supervise`, `Reconfigure`, `Send`, `TxTimeout`, `OnIrq` and `Shutdown` are its
callbacks and calls.  The chip is a record: its power, whether its bus is flaky,
its mode, what it is programmed with and its latched interrupt flags.  Every
command fails on a chip without power (`command_status_ok()` rejects an undriven
MISO) and may fail on a flaky bus, so each callback can stop at any of its
commands.  There is no clock; an armed timer may fire, and the deadline of a
recovery is a number of polls.  Both kinds of start-up, supervised and not, and
starting without a frequency are initial states.

**`RadioContract`** is what `src/radio/radio.h` promises the dispatcher.

**`ChannelSense`** is `channel_busy()` with the chip flags and a clock, apart
from `Sx1262`, whose properties do not depend on it.

**`Mesh`** is several nodes and the air between them.  A node's state is a
record: its contacts with their routes, the packets it has seen, the texts it
has delivered, its inbox, its pending sends and the packets it has queued.  A
handler of `node.cpp` is an operator from that record to the next, with the
answer whether the packet is to be repeated (`HandleText`, `HandlePath`,
`HandleAck`, ...); `OnPacket` chooses among them as `on_packet()` does.
`Transmit` is one packet going out and every node that `Links` lets hear it
running its callback, less those that lose it, and the sender's `on_tx_result()`.
The dispatcher is a set of packets sent in any order.  Relays go off
(`SwitchOff`) and dedup tables expire (`ExpireSeen`).  A workload says what the
apps ask for, what nodes of other kinds transmit and what may go wrong.
`WorkloadAssumption` says which workloads there are: the routes the nodes start
with are real, texts, acks, path returns and channel texts come from the nodes'
own apps, since only the holder of a key can make them, and a channel text is
for the holders of one key.

**`StateDir`** is the state directory and everything that reads and writes it.
`durable_replace()` is four steps, `Syncs`, `Links`, `Renames` and
`SyncsDirectory`, each of which may fail, and between any two of which the
process or the power may go; what a power cut leaves is any directory since the
last sync.  The start is `StartWithKey` or `GenerateKey` and `Generated`, then
`Load`, `Restore` and `Reload` for each store, as `load_state()` goes through
them.  `Change`, `Receive`, `Collect` and `Set` are what the app and the mesh
do; `TimerFires`, `Sweep` and `Stop` are the three callers of
`StateWriter::flush()`.

**`Companion`** is the daemon as an app sees it.  The daemon's state is the
record `s` (the client, the bytes read and not yet cut into frames, the output
not yet written, `app_started_`, the inbox, the contacts, the channels), each
command of `session.cpp` an operator on it, and each callback a step: `Accept`,
`OnClientReady`, `OnClientError`, `Hear` and `FlushState`.  `ServeFrames` is the
loop of `on_client_ready()` over the frames that have come: a round, `ServeFrame`,
drops what is no frame (`Resynced`), takes a frame if all of it is there and
handles it, as long as the client is.  Clients write their bytes in pieces, read
when they like and hang up.

**`UnixSocket`** is `start_unix()` and `shutdown()` of several processes, one
step for each system call another process can see.

**`EventLoop`** is `run()`: `Top`, `Ready`, `TimedOut` and `Interrupted` up to
the return of `poll()`, `DispatchFd` and `DispatchTimer` for the callbacks of a
round.  A callback is arbitrary: between its start and `Return` it arms and
cancels timers, adds watches, drops them and closes their descriptors, whose
numbers are then free for others, and stops the loop.

The modules whose names begin with **`MC`** give constants their values.
Operators named `Mut...` are deliberately wrong variants of the definition that
follows them; no specification uses them, and they serve to show that the
properties notice such a mistake.

## What the runs check

| run | checks | shows |
| --- | --- | --- |
| `Dispatcher` | `ExactlyOnce` `WithinBudget` `UrgencyKept` `StaleOnlyBehindBackoff` `ImplementsTxQueue` `EveryPacketAnswered` | each packet is answered once, by whatever step removes it, and in the end, with the radio down and the channel busy for ever; urgency is kept in sending and in evicting (until the radio refuses a packet); the recorded airtime of the window never exceeds the budget; the dispatcher implements `TxQueue` |
| `Sender` | `Driven` `ConfirmedWasSent` `SpacedApart` `GivesUpAfterFlood` `EverySendEnds` | an operation has exactly one driver; nothing is confirmed that was not sent; its attempts keep their distance, end in a flood, and end |
| `Sx1262Driver` | `SettingsApplied` `CompletionNotLost` `ImplementsRadio` `EveryTransmissionEnds` `ComesUp` | failures, power cuts and new settings in any order leave the driver on the latest settings and true to its contract; no transmission lasts for ever, and a supervised radio comes up once rail and bus stay good |
| `ChannelLatch` | `NeverLatched` | noise does not silence the node |
| `Mesh` | `RoutesAreReal` `ConfirmedWasDelivered` `DeliveredOnce` `TrafficIsBounded` `EveryTextArrives` `TraceCompletes` `AllQuiet` | a learned route leads to its contact; what is confirmed was delivered; retries are delivered once; floods and path returns end, although tables expire; a text whose route is gone arrives by the flood of its last attempt; a trace comes through although it visits a node twice |
| `StateFiles` | `AckedSurvives` `SavedIsNotLost` `OneIdentity` `EmptyIsLastResort` `RetriedUntilWritten` | whichever call fails and whenever the process or the power goes: an acknowledged message is on disk, unless its commit failed, which does not hold back the ack; what a save reported as written stays; every directory that may be left has the key the daemon last went on with, except an empty one before any save was reported as done; a store starts empty only when its backup is no use either, and a failed save is tried again |
| `Companion` | `OwnWholeFrames` `PushedAfterStart` `WaitingIsAnnounced` `AnsweredOnceInOrder` `OutputArrives` | a client gets frames made for it, whole, and pushes only after its start; a command is answered once and in order however its bytes are cut; an app that has started knows that messages wait; output reaches a client that reads |
| `UnixSocket` | `LiveIsReachable` `StoppedLeavesNothing` | the daemon that listens is the one at the path; a stopped one leaves no socket, unless its `lstat()` or `unlink()` failed |
| `EventLoop` | `NeverOnceOver` `NeverEarly` `OwnEvents` `EveryTimerRuns` | whatever callbacks do to the registrations of their own round: nothing runs after its handle was reset, no one-shot timer twice, no watch gets the events of another with the same number, and no timer is early or lost, across the wrap of the clock |

The runs leave out what is proved for every instance and needs no liveness:
the type invariants of `Dispatcher`, `ReliableSender`, `Sx1262`, `Companion` and
`EventLoop`, `NoStall`, `QueuedIsSeen`, `AnyAttemptAcks`, `AttemptsDiffer`,
`ListensWhenIdle`, `RecoveryIsArmed` and `OnlyTheLivingRefuse`.  `TypeOK` of the
other modules documents their state; it can be added to their configurations,
and holds.

Three runs end in a violation.  In each, the property is what the README, a test
or the manual page says, and the code does otherwise:

| run | property | disagreement |
| --- | --- | --- |
| `Sx1262Rail` | `RailCutNoticed` | a rail switched off and on between two checks is not noticed: the chip answers and is no longer programmed (`sx1262.cpp:484` against `etc/coreletd.8.in:111`) |
| `StateContacts` | `ContactsSurvive` | `load()` refuses a file with a position that is not on earth, and `save()` writes whatever position an advert or the app gave; the next start sets all contacts aside (`contacts.cpp:227` against `README.md:39`) |
| `MeshRouted` | `RoutedIsForwarded` | a relay that overhears a direct packet before its turn has it in its dedup table when it is the next hop, and drops it (`dispatcher.cpp:146` against `README.md:43` and `tests/test_mesh.cpp:1325`) |

More places were met where a sentence promises more than the code does, or where
the code has a limit its documents do not mention; they follow from reading it,
and no run of this project checks them.

* `pump()` sweeps expired packets from the front only; one behind a packet that
  backs off is sent stale (`dispatcher.cpp:255` against the comment at 18).
  `StaleOnlyBehindBackoff` says that this is the only way.
* A refused packet is put in front whatever its priority (`dispatcher.cpp:327`
  against `README.md:46`).  `UrgencyKept` says that this is the only way.
* `busy_since_ms_` survives the expiry of the packets it was set for, so the next
  packet may find the deferral used up (`dispatcher.cpp:301` against 38).
* `rx_since_ms_` is kept from one reception to the next, so the next may be
  called stale at once (`sx1262.cpp:782` against `radio.h:127`).
* A packet enters the dedup table when it is queued, so the entry of one that
  waited long may be gone when a neighbour repeats it (`dispatcher.cpp:195`,
  comment at 193).
* A duty-cycle hold is for the packet that does not fit, and one that fits and
  whose backoff ends meanwhile waits with it (`dispatcher.cpp:290`,
  `README.md:46`).
* An ack cancels the retry timer of its send, not a retry that is already in the
  transmit queue (`sender.cpp:215`, `sender.h:54`).  The round trip a
  confirmation reports is measured from the latest send of any message.
* The recipient of a direct packet that overhears it in transit has it in its
  dedup table and drops its own copy, as the relay of `MeshRouted` does.
* Two files set aside within a second share a name and the second replaces the
  first, where the comment says the first is kept (`persist.cpp:113`).
* A setting whose save fails after the rename is reported as not written, and is
  in effect after a restart (`settings.cpp:82` against `companion/settings.h`).
* A start that is cut short between setting a file aside and restoring its
  backup leaves no file; the next start takes it for missing and does not look at
  the backup (`app.cpp:39`).
* A start takes a key that it finds as it is, and does not sync the directory.
  If an earlier start ended between the rename and the directory sync of the
  first key, a power cut can still take that key away, and the node that uses it
  begins again as another (`app.cpp:141`, against the message at 142, which
  refuses to start "with an identity that would change on restart").
  `OneIdentity` says that this is the only way: the directory is then empty, and
  the node has not reported any save as done.
* A message leaves the inbox before its reply has reached the app
  (`session.cpp:454`).
* An advert interval of 2^31 ms or more, which `config.cpp:153` allows, reads as
  overdue in every round of the event loop.  `ShortDelays` excludes it: the run has
  no such delay, and the theorems that need this say so.

### Bounds

`Dispatcher` has three packets for a queue of two, so overflow, eviction and
reordering happen; two priorities and a packet with a backoff, so a sweep can be
blocked; two sizes, so that `wait_ms()` has to free one of two recorded
transmissions for a third; and lifetimes of two and four ticks against retries
of one, so packets expire in every stage.  `Sender` has all four attempts of the
code for one operation; two operations of two attempts each, side by side, pass
too (134,961 states).  `MaxSends`, `MaxOps` and `MaxOthers` end the traffic, not
the retries: there is room for every attempt.  `Sx1262` has two settings, enough
for a retune to be overtaken by another, and needs no bound but the polls of a
recovery.  `ChannelSense` has a preamble of two ticks in packets of five.

`Mesh` has four nodes, two ways between the ends of which one is one-way, and two
nodes that share their first key byte, as nodes with a one-byte hash do.  Each
workload allows a lost reception, a relay that goes off or an expired table or
two; `MaxHops` is 4, so a flood can go round before it stops.  With two attempts
a text goes by its route once and by flood once.  `StateFiles` has all five
files, two messages for an inbox of one and two failures, so that one can happen
while the consequences of another are dealt with.  `Companion` has two clients and a socket that takes
less than two frames, with an output limit of three; the scenarios send every
command.  The news of a scenario says what a packet may be; two packets of any
kind with an app that adds contacts pass too (302,294 states).  `UnixSocket` has
three daemons with three starts each, and its proofs need no bound.  `EventLoop`
has a clock of four readings, so every timer meets the wrap, two timers, three
watches on two numbers, and two operations in a callback; clocks of six with
longer delays (3,400,000 states) and of eight (9,400,000 states, safety only)
pass too.  Ages that the code compares with a limit are counted up to that limit.

### Fairness

The event loop runs timers that are due and reads descriptors that are ready,
so timer callbacks and `OnIrq` are weakly fair, and so is time.  `EventLoop`
shows this of the loop itself, from three assumptions: the thread runs
(`WF(Loop)`), the clock moves whenever it may (`SF(Tick)`), and `poll()` returns
when its time is up although descriptors keep being ready (`SF(TimedOut)`: it
never sleeps past its timeout).  A transmission ends because the driver arms a
timeout for it (`EveryTransmissionEnds` of `Sx1262` is what `Dispatcher` assumes
here).  The queue answers each packet in `ReliableSender` because
`EveryPacketAnswered` holds of `Dispatcher`.  In `Mesh` something that can be
sent or retried is, in the end (`WF(Progress)`), in no particular order.  In
`StateDir` a save that has begun goes on, and the sweep, a repeating timer of the
one thread, comes again however often other callbacks hold it up
(`SF(Sweep)`); nothing says that a daemon is started again.  In `Companion` a
listening socket with a client waiting is served (`WF(Accept)`), and a client
that stays ready is served, which is to say that a byte is read, written or the
client dropped; `OutputArrives` has a client that keeps reading as its
hypothesis.  Nothing is assumed of peers, of power, of the channel or of the app.
Of the bus, only `NeverLatched` assumes that the chip keeps answering
`channel_busy()` now and then; `ComesUp` has a good bus and rail as its
hypothesis.

## What is proved

`DispatcherProofs`, for all limits, delays, traffic and budgets that satisfy
`DispatcherAssumption` and `WindowAssumption`:
`TypeCorrect`, `AnsweredExactlyOnce`, `NeverStalls`, `WaitingPacketIsSeen`.
The inductive invariant `Inv` says of the queue that its packets have different
sequence numbers below `next_seq_`, that exactly those accepted and not queued
have been answered (`Sound`), and that the dedup entry of each lasts at least as
long as the packet, which lasts at most as long as a fresh entry (`Covered`).
`Covered` is stronger than `QueuedIsSeen` because `MarkSeen` replaces an entry:
that must never shorten it below what another queued packet with the same hash
needs.  `pump()` is proved once, in `PumpSound`, from any state a caller may
reach (`PumpPre`), and every action that calls it cites that lemma.

Its second half, from the same invariant, is about what the queue's users
get of it.  `BudgetIsKept`: `WithinBudget` is inductive once `wait_ms()` is known
to mean what it says, and most of the work is about the sliding-window account,
a recursive function over ages: what recording a transmission, growing a tick
older and waiting do to the airtime since an age (`RecordTotal`, `AgedTotal`,
`NoWaitFits`).  These are inductions over the length of the window, and
`SetInduction` states the principle for a set of numbers instead of a predicate,
which the provers can instantiate.  `UrgencyDecides` and `StaleNeedsBackoff` are
about which packet `pump()` takes and which a full queue drops.
`DispatcherImplementsTxQueue` is the refinement that lets `ReliableSender` be
checked above `TxQueue` instead of above the dispatcher.  `Outcome` describes
what a pump does by the packets it drops and the one it may put on the air, seen
from the queue it started with; each stage of `pump()` has an outcome
(`PumpOutcome`), and an outcome is a step of the promise (`ServiceStep`).

`ReliableSenderProofs`, from `SenderAssumption`, with colliding hashes allowed:
`TypeCorrect`, `AlwaysDriven`, `AnyAttemptCompletes`, `EveryAttemptDiffers`.
`Driven` is not inductive by itself: that a retry adds a packet where there was
none needs that packets in the queue belong to operations at their current
attempt (`Traced`), that every packet ever queued for an operation is of an
attempt no later than that (`Differ`), and that the queue's three sets stay
apart (`QueueOK`).

Three more theorems strengthen it.  `ConfirmsOnlyTheSent` adds that an operation
expects only hashes of its own message (`OwnHashes`).  `AttemptsKeepDistance` and
`FloodsBeforeGivingUp` add that no armed timer is shorter than the delay still to
be kept (`Held`, and `Fresh` for operations to come), that an operation at its
last attempt has had a flood packet queued (`Escalated`) and that a packet which
no longer waits was answered (`Settled`).  These two assume
more than one attempt: the code has four, and with one there is nothing to fall
back on.

`Sx1262Proofs`, for any settings and any deadline, from `Sx1262Assumption`:
`TypeCorrect`, `AlwaysOnTheLatestSettings`, `NeverDeaf`, `CompletionComes`,
`RecoveryNeverWedged`, and `DriverImplementsRadio`, the refinement of
`RadioContract`.  The invariant adds to the properties how the flags go together
(`Flags`: for instance, a retune waits only while a packet is on the air, and a
tx_done is owed exactly then) and that nothing is received during a transmission
(`Deafened`), without which `on_irq()` could take a reception for its end.

`UnixSocketProofs`, for any number of daemons and starts, from
`SocketAssumption`: `Reachability`, `RefusedOnlyByTheLiving`, `StopsCleanly`.
None of the three is inductive.  Whoever is past the lock holds it, so nobody
else touches the path; what a daemon last saw or did there is therefore still
true, and `Holder` says what that is at each step of its start and shutdown.
`Left` adds what a stopped daemon has left behind, which later starts of others
must not bring back.

`CompanionProofs`, for any clients, bytes, reads, limits and traffic, from
`CompanionAssumption`: `TypeCorrect`, `FramesAreOwn`, `NoPushBeforeStart`,
`WaitingIsKnown` and `EveryCommandAnswered`.  All are about the stream of a
connection: what has gone to the socket and what still waits for it.  Every
handler sends frames or drops the client, so its lemma says what it adds to the
stream (`Grows`, and `Said` for the answer to a command) unless it drops it, and
what it leaves alone (`Keeps`); `FrameAdds` and `OneMoreFrame` say what a frame
more means for the properties.  `EveryCommandAnswered` is about the bytes read so
far, and that is not inductive: a frame that lacks its last bytes is a command
only once these have come.  The invariant therefore speaks of every continuation
(`Read`): whatever bytes come next, the commands in all that was read, with
them, are those answered, followed by those in the reader's buffer, with them.
For a frame that is served this rests on `CutTakesOne` (the first frame of a
buffer is its first command, and the rest of the commands are in the rest of the
bytes), for bytes that are dropped on `ResyncKeepsCommands`, and for the end of
the loop on `RestHoldsNone` (a buffer without a whole frame holds no command).
The reference `CommandsIn`, a recursive function from the end of the bytes to
their beginning, is related to the loop by inductions over the number of bytes,
with `SetInduction` as for the dispatcher.  The lemmas have the few facts about
numbers and finite sets that they need as a hypothesis, `Basics`, which
`BasicsHold` proves from the library before the theorems: with the library in
the context of every lemma the proofs take three times as long.

`StateDirProofs`, for any messages, limits, order of the stores and number of
failures, from `StateDirAssumption`: `AckedMessagesSurvive`, `SavedContentsStay`,
`IdentityIsKept` and the action property `BackupIsTriedFirst`.  The three
invariants speak of every directory a crash may leave, so the inductive
invariant does too: each of them holds the messages still owed and contents at
least as new as the last that a save reported as written (`Image`).  For a step of `durable_replace()` to keep this,
the contents it puts in place must be no older than those it replaces (`Save`),
and so must what a start loads into memory (`Memory`), up to the store being
loaded at the moment (`Phases`): that is why a file that is refused, and set
aside, may only be one whose last written contents `load()` refuses (`Good`).
The key has an invariant of its own on top of this one (`KeyInv`): the
directories with a key agree on it and on the one the daemon went on with, one
without a key is empty and there is none once a save was reported as done
(`Keyed`), and a key is written only while all of them are empty (`KeySave`).

`MeshProofs`, for any nodes, links, key bytes, limits and workloads, from
`MeshAssumption` and `WorkloadAssumption`: `LearnedRoutesLead`,
`ConfirmationsAreTrue`, `TextsAreStoredOnce` and `FloodsPassANodeOnce`.  Links may
work one way only and nodes may share their key byte.  What is true of a node is
true because of packets that are still on their way, so the invariant says of
every packet queued anywhere that an ack, alone or inside a path return, is for
a message in its recipient's inbox; that a path return brings a route from its
reader to its sender (`Made`); and that whoever hears a flooded text, ack or path
return can reach it from its origin by the path it has gathered (`Reached`, kept
by each relay in `RouteExtends`).  Of a node's mail it says that the texts in the
inbox are those in the table of delivered ones (`Mail`) and that a channel text
there has its hash in the table of packets seen (`Once`); of a flood, that as many
nodes have seen it as its path is long, and one more (`Walked`).  Each handler of
`node.cpp` has a lemma that it keeps all this for its node (`Local`), whatever the
others do, and `TransmitInv` puts the hearers of a transmission together.

`EventLoopProofs`, for any clock, timers, descriptors and callbacks, from
`LoopAssumption`: `TypeCorrect`, `WhatIsOverIsNotCalled`, `NoTimerRunsEarly`,
`WatchesGetTheirOwnEvents` and `NeverOversleeps`.  That a timer is not early is
a fact about the wrapped clock: the invariant says that a live timer's due time
is the clock plus the real time left to it, which stays within half of the
clock's range either way (`OnTime`), and `UntilIsLeft` that the signed difference
the code takes is then that time exactly.  A round reads the clock once and its
callbacks take time, so what it found due is kept with the time elapsed since
(`Overdue`): this bounds how late a repeating timer is set again.  What is over
stays out of the tables' live entries, and ids are never used twice (`Over`).
`NeverOversleeps` is the safety half of `EveryTimerRuns`.  It and
`NoTimerRunsEarly` assume `ShortDelays`, delays below half of the clock's range;
the others do not.  `Tick` bounds how late a timer may be to the same half.

## What is only model-checked

Liveness, since it rests on fairness: `EveryPacketAnswered`, `EverySendEnds`,
`EveryTransmissionEnds`, `ComesUp`, `RetriedUntilWritten`, `EveryTimerRuns`,
`EveryTextArrives`, `TraceCompletes`, `AllQuiet`, `OutputArrives`, and
`NeverLatched`, all there is of `ChannelSense`.  And of `Mesh`, the number of path
returns, the second half of `TrafficIsBounded`: it needs to know which text each
path return goes back to, which is not in the state.

Inductions over data (the airtime of a window, the frames in a buffer, the
answers in a stream) are proved for a set of numbers, `SetInduction`, because the
library's induction theorems take an operator, which the provers do not
instantiate.

## Not modelled

* Statistics and log lines.
* Encoding and decoding of packets, payloads and files, beyond hops, the
  duplicate hash and which files `load()` refuses: byte layouts without state,
  which the tests compare with recorded packets.  Encryption and hashing are
  library calls; a text that cannot be sealed is a constant.
* Configuration, INI files, host metrics, hex and logging: parsing and I/O
  without state.  GPIO and SPI are the bus that may fail.
* `airtime_ms()`: floating point.
* The branch of `pump()` for an encoded packet longer than `kMaxPacketSize`:
  `Packet::valid()`, which `send()` demands, bounds it below that.
* The failure of a retry to be sealed: whether a message can be is decided by
  the message, at its first attempt.
* Outside `EventLoop`, the 32-bit clock: the code compares differences, which
  relative time models; that `busy_since_ms_` and `rx_since_ms_` use 0 for "not
  set" and the clock may read 0 is not modelled.
* In `Sx1262`, the antenna switch lines and the registers `configure()` writes,
  which succeed or fail with the command they belong to; `channel_busy()`, which
  clears only flags that no other handler uses; new settings that still have no
  frequency, which a radio that is not supervised would be brought up with
  (`sx1262.cpp:685`).  In `ChannelSense`, the time the
  transmission takes after a key-up.
* In `Mesh`, hop hashes wider than a byte, transport codes, the limit of pending
  sends and contacts that are removed during a send (`ReliableSender` has both),
  and the expiry of the table of delivered texts (`StateDir` has it).
* In `StateDir`, the temporary file, which no load reads; file modes; that a
  learned route marks the contacts without asking for a save, so that the sweep
  writes it.
* In `Companion`, the contents of replies beyond their kind, the `since` filter
  of the contact list, connections closed in one direction, and TCP listeners:
  `start_tcp()` keeps nothing between starts.
* In `EventLoop`, `update_fd()`, which changes only what is polled for (its use
  is `Watched` in `Companion`), and the virtual clock with `advance()`, which
  only tests use.

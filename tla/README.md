# TLA+ verification of the motorcycle computer

This directory models the control network of the motorcycle: a Raspberry Pi (the
main computer), an ESP32-S3 that routes packets between serial ports (the
northbridge) and two ESP32 controllers (the southbridges) for lighting and
security. TLC checks the modules on small instances; TLAPS proves the main invariants
of the security server, the command link, the routing, the receive path, the lighting
controller, the supervisor and the self test for all values of their constants, and
that two of them implement an abstract specification.

    tlc -config MCSecurityMonitor.cfg MCSecurityMonitor.tla
    tlapm SecurityServerProofs.tla      # likewise each module named ...Proofs

`PROJECT.json` lists the runs, the source lines every definition stands for, and
for each checked property a *mutant*: an operator, defined next to the one it
replaces, that makes the property fail.

## 1. Inventory

| Component | Code | State | Operations |
|---|---|---|---|
| Security server | `library/src/security_server.cpp`, `security_controller.cpp`, `esp32/security` | mode, engine filter, two shock filters, alarm timer, armed flag in NVS, siren and start-inhibit pins | Lock, Unlock, SilenceAlarm, RequestState, system requests, `service()`, restore at boot |
| Acknowledged commands | `library/src/node.cpp` | sequence counter, the one pending command, retries, receive queue | `send`, `send_ack`, `poll`, `service` |
| Northbridge | `library/src/northbridge.cpp`, `router.cpp`, `esp32/northbridge` | route table, bindings, counters per port | forward, local replies, topology fault, diagnostics |
| Lighting server and local control | `library/src/lighting_server.cpp`, `lighting_local_control.cpp`, `lighting_controller.cpp`, `esp32/lighting` | commanded state, debouncers, flasher, output pins | SET_OUTPUT, GET_STATE, `service()` |
| Lighting diagnostics, fault manager | `library/src/lighting_diagnostics.cpp`, `lighting_fault_manager.cpp` | confirmation counters, latches | sample, latch, shut down, clear, publish |
| Network supervisor | `library/src/supervisor.cpp` | table of nodes, two send timestamps | observe, `service()` |
| Main computer | `library/src/motorcycle_computer.cpp`, `raspberry-pi/main-computer` | decoded snapshot of each node | begin, dispatch, request_all_states, console |
| Self test, logger, diagnostic role | `raspberry-pi/diagnostic-computer` | current test item, results, bounded log | begin, observe, timeout |
| Codec, CRC, stream parser | `protocol`, `library/src/stream_parser.cpp` | parser buffer | encode, decode, push |
| Standalone sketch | `esp32s3C` | fixed routes, counters | route, local replies |

**Interaction.** Every node is one thread that loops: it polls its serial port,
handles each packet, then calls `service(now_ms)` with the millisecond time that
was read at the top of the loop. Nodes share nothing; they exchange frames over
serial lines through the northbridge, which forwards in the order of arrival.
Commands from the main computer carry `FlagAckRequired`; states, events,
heartbeats and discovery do not. Inputs (switches, shock sensors, the engine
sense) change at any moment.

**What is hard.** Order: packets arrive between two passes of the loop, so a
command's sample comes before or after the pass's own. Time: 32-bit clocks wrap
and are subtracted unsigned. Failure: power is lost between any two steps, frames
are lost, answers come late, writes fail and the result is sometimes ignored.
Fairness: everything that must happen eventually depends on a loop that keeps
running.

What makes each component correct, in a sentence:

* Security: start prevention never comes on while the engine runs or the bike is
  unlocked, and is on whenever it is locked and stopped; the siren always ends;
  a restart does what the rider last asked for; the main computer knows the mode.
* Commands: an acknowledgement means that the command was applied; a retry never
  overtakes a newer command; each command is settled.
* Northbridge: a packet for a bound node reaches its port or none; the routes of
  bound nodes survive every sender; the counters add up.
* Lighting: the rider's switches win over commands; bounces do not count; flashes
  have their length; the main computer's picture is current.
* Receiving: what is acknowledged reaches the application; damage on the line costs
  a bounded number of frames.
* Lighting faults: a shutdown holds; only confirmed faults are latched; the main
  computer shows what is latched.
* Self test: a run ends in time, and what it passes was heard.
* Supervisor: online means heard within the timeout; a dead node is noticed, a live
  one is seen again; the supervisor never stops asking.

The hazards of the code, each at its line, are in `PROJECT.json`.

## 2. Modules

| Module | Models |
|---|---|
| `SecurityServer` | the security southbridge, with firmware start and power loss |
| `Immobiliser` | abstract: what the security southbridge promises the rider, without sensors, clocks, flash or packets |
| `SecurityMonitor` | the same server with history variables that measure real time and remember promises |
| `SecurityServerProofs` | TLAPS proofs about `SecurityServer` |
| `SecurityMonitorProofs` | TLAPS proofs about `SecurityMonitor`, on top of them |
| `CommandService` | abstract: what acknowledged commands promise, without frames or clocks |
| `NodeLink` | `BikeNode`'s sender, lossy FIFO links and the controllers that answer; implements `CommandService` |
| `NodeLinkProofs` | TLAPS proofs about `NodeLink`, the refinement among them |
| `RxPath` | bytes on the line, the stream parser, `decode_packet`, `poll` and the receive queue |
| `RxPathProofs` | TLAPS proofs about `RxPath` |
| `Northbridge` | the northbridge runtime over the router |
| `NorthbridgeProofs` | TLAPS proofs about `Northbridge` |
| `Lighting` | the lighting southbridge: commands, debouncing, flasher, arbitration |
| `LightingProofs` | TLAPS proofs about `Lighting` and `LightingFaults` |
| `LightingFaults` | extends `Lighting`: fault manager, diagnostics, and what the main computer shows of them |
| `Supervision` | the supervisor, the nodes it asks and the link between |
| `SupervisionProofs` | TLAPS proofs about `Supervision` |
| `SelfTest` | the self test, fed by the main computer's `dispatch` beside its decoders |
| `SelfTestProofs` | TLAPS proofs about `SelfTest` |
| `MC...` | values of constants for TLC |

### Conventions

* One pass of a firmware loop is `Wake(d)` (the clock is read, `d` ms later), any
  number of handler actions, and `Service`. `phase` is "poll" in between.
* A handler is one action, with every call it makes: the siren, the inhibit, the
  NVS write, and the packets it sends, in order, in `out`.
* A clock is `0 .. ClockMod - 1`; `Elapsed` is the unsigned difference and `Later`
  the advance, written with IF because the provers handle that better than `%`.
* A flag and the timestamp it guards are one variable: the timestamp, or
  `NotPending` (`engine_stop_pending_`/`engine_stop_started_ms_`,
  `alarm_timer_active_`/`alarm_started_ms_`, a debouncer, an online entry).
* Variables marked "history" are not in the code and appear in no guard.

### SecurityServer

`mode`, `engine` (`filtered_engine_running_`, or "unknown" before
`engine_filter_initialized_`), `stop_started`, `filter`, `previous`,
`alarm_started`, `last_controller`, `nvs` and the two pins are the members of
`SecurityServer` and its hardware. `Lock`, `Unlock`, `SilenceAlarm` and
`RequestState` are the branches of `handle_command`, each with the answer and the
published state; `BadCommand` is a wrong length or code; `SystemRequest` is
`handle_system_packet`. `ServiceEffect` is `service()` after the sample, with the
results of the two driver calls as parameters. `Reboot` is power loss between
handlers and `RebootWhileSaving` between the NVS write and the rest of
`set_locked`; both restore as `restore_persisted_state` does. The store and the
driver may fail at each call in the run that says so; the shipped driver always
succeeds. The shock bits and the engine bit of the reported state are left out.

`Promise` is the refinement to `Immobiliser`: `LockState` is the mode without the
alarm, "found stopped" the filtered engine, the alarm the mode `Alarm` (a driver that
refuses may keep the siren silent), and commands are handled while `phase` is "poll".
A pass of `service()` is one `Watch`, with whatever filters and timers decided; a
rejected or empty handler is a stutter. The promise holds for a store that works: one
that loses writes loses what the rider asked for.

### NodeLink

`pending` is `pending_` (an empty or a one-element set), `sequence` is `sequence_`.
`SendCommand`/`RefuseCommand` are the outcomes of `send` with an acknowledgement,
`SendPlain` a send without; `ReceiveAnswer` is `handle_control_packet`;
`Retransmit` and `GiveUp` are the branches of `service`. `HandleCommand` is a
controller's handler seen from the link: apply and ACK, or reject and NACK. Frames
are lost whole when written (`Put`). `Restart` is a new process of the main
computer: sequence 1, no pending command, and `open_device` has flushed what had
come in.

The refinement to `CommandService` is by the variables `outcome`, `dest`,
`applied` and `latest`, which both modules have (`Promise` in `NodeLink`). It needs `SlowRestart`: after a
restart that is faster than the frames on their way, an answer to an old frame
with the same sequence number acknowledges a new command, since the counter starts
again at 1. Nothing in the repository says what a restart promises, so this is
recorded as a hazard and not as a finding.

### RxPath

`length` and `expected` are the parser's `length_` and `expected_`. Of the buffer's
contents the model keeps only whether they are the first bytes of the frame on the
line (`genuine`): a genuine complete buffer passes the CRC, any other may or may
not. `StartFrame` is `write_packet`, `FrameBytes` what `encode_packet` writes.
`IntactByte`, `SpoiltByte` and `NoiseByte` are one round of `poll`'s loop (`Push`)
for a byte that arrives as sent, changed, or from nowhere; `Lose` drops bytes.
`Read` is `poll` reading a chunk, which it does only with an empty queue, and
`Deliver` is `dequeue_rx`. Acknowledgements are not remembered one by one: every
packet that `Accept` could drop would have been acknowledged just before.

### Northbridge

`routes` is the router's table, in the order of its array, `Bindings` what
`bind_node` was called with. `Reject`, `HandleLocal` and `Forward` are the three
ways through the body of `service_port` for one packet, with the ports that fail
meanwhile as an input. `Init` starts after `setup()`, with the bindings in any order.

### Lighting

`commanded` is the server's `commanded_`, `driven` the hardware's `state_`.
`SetOutput` writes the pin before it records the command and then publishes, as
`handle_packet` does. `Service` samples, runs the flasher, decides (`Effective`) and
writes what differs. A command that is NACKed changes nothing and has no action.
Any write of an output in `Flaky` may fail.

### LightingFaults

The rest of the lighting controller's loop: after `LocalControl` (the `Service` of
`Lighting`), `CheckOutputs` is `fault_manager.service()` followed by
`diagnostics.service()`. `load` is the state of each circuit:
`LoadChanges` breaks, shorts or repairs it. `ClearLatch` is `clear_latch`, which the
library offers and the shipped firmware never calls; likewise `CutOff` outputs, as
the firmware leaves all channels at report only. Reports and diagnostics are
refused by `send`, lost, or arrive and are decoded (`decode_lighting_fault`,
`decode_lighting_diagnostics`) before the next step; `shown` and `channels` are
`lighting_faults_` and `lighting_diagnostics_` of the main computer. The write that
shuts an output in `Resisting` down may fail; the fault manager tries again in the next
pass that finds it on. Four facts of the code that a reader may not expect: the
confirmation counts samples with a fault of either kind, so the kind that is latched is
the last sample's, and a latch changes its kind after a single sample of the other;
`shutdown_applied` stays set once a shutdown has succeeded, although the local control drives the
output again in each pass and the fault manager cuts it again in the same pass; a shutdown
that fails in the pass that latches and reports its fault and succeeds in a later one is
never reported (`lighting_fault_manager.cpp:93-97`: by then nothing is newly latched),
which `MainShowsFaults` states as its one exception (`late`); and a restart of either
computer leaves a stale fault picture, since nothing asks for latches or tells that they
are forgotten. What recovers from the last two is the diagnostics (`DiagnosticsCatchUp`).

### Supervision

`last_seen` holds `last_seen_ms` while `online`, `Observe` is `observe`, `Service`
is `service()`: heartbeat, timeouts, rediscovery. A controller answers broadcasts
and unicasts, the northbridge only what is addressed to it (`AnswersBroadcast`).
The console's "refresh" and "diag refresh" are `Refresh`, its "diag scan" is `Scan`, a
discovery at any moment between two passes; the loop reads one command at most in a pass.
Frames on their way form sets, since a second copy of a request or of a packet of
the same kind changes nothing the supervisor keeps here.

### SelfTest

`index`, `active`, `report_ready` are the runner's members, `results` and `started`
those of its items. `StartNext` is `start_next`: from a given item on, skip what is
offline, incompatible or not writable, ask the next, or finish. `Dispatch` is
`MotorcycleComputer::dispatch`: the supervisor, the packet observer (`observe`), the
decoders; `shown` (history) collects the nodes whose snapshot was replaced. A packet
of any node may come at any time, so late answers of an earlier run and unasked
states are included. `Begin` happens at a later time than the pass's, because
`handle_command` gets a clock of its own.

## 3. Runs

Passing runs:

| Run | Properties | What it shows |
|---|---|---|
| `security` | TypeOK, SirenHasTimer, PersistedIntent, InhibitAfterConfirmedStop, SirenNeedsFreshTrigger, SirenIsBounded, AcknowledgedIntentSurvives, ModeIsReported, ImplementsImmobiliser | Any order of commands, inputs and power losses with working hardware: the README's timing rules in real time, promises across restarts, the refinement |
| `security_server` | InhibitOnlyWhenStopped, LockedMeansInhibited, NeverAssertedWhileRunning, AlarmEnds, PendingLocks | A siren driver failing at will, power losses, clock wrap; alarms end, pending locks take effect |
| `node_link` | TypeOK, GivenUpAfterAllRetries, ImplementsService, PendingIsSettled | The refinement, the retry count, and that each accepted command is settled, even on a dead link |
| `rx_path` | BufferFits, AcknowledgedIsServed, LossIsBounded | All byte streams over a small alphabet with damage anywhere, read in chunks of any size: the buffer never fills, the queue never overflows, resynchronisation |
| `northbridge` | TypeOK, RoutesHold, OnlyToItsOwner, CountersBalance | Misplaced nodes and strangers against a table with one free entry, with failing writes |
| `lighting` | PhysicalControlsWin, MainIsTold, BouncesIgnored, FlashesOnTime | A brake switch and both indicator switches against commands, failing writes and resets |
| `lighting_faults` | ShutdownHolds, OnlyShutdownsOverride, MainShowsFaults, LatchedAreConfirmed, DiagnosticsCatchUp | A flashing indicator that fails and recovers, shutdowns that fail, reports and diagnostics refused or lost, restarts of both computers |
| `supervision` | OnlineMeansHeard, NeverStopsAsking, DeadNodeIsNoticed, LiveNodeIsSeen | An incompatible controller that fails and recovers, discoveries from the console, writes that fail, a lossy link |
| `self_test` | RunIsBounded, ReportIsEarned | Late, unasked, short and missing answers, nodes that go offline, clock wrap |

Runs that refute what a document, a comment or a test says:

| Run | Claim | What the code does |
|---|---|---|
| `security_arm_transition` | `tests/security_server_test.cpp:151` | a trigger active while the lock was pending starts the alarm if it is confirmed in the pass that locks |
| `lighting_brake_claim` | `esp32/lighting/README.md:22` | a remote OFF drops the brake lamp, and reports it off, until the local control runs |
| `supervision_northbridge` | `raspberry-pi/main-computer/README.md:6` | the northbridge, asked only by broadcasts, goes offline and stays so |

Three smaller disagreements were met on the way and have no run of their own. The
state published in the pass that locks is sent before the inhibit is updated and
says it is off (`security_server.cpp:235`). The firmware enforces its bindings, so
the route of a bound node does not follow the port where it is observed, as
`esp32/northbridge/README.md:42` has it. After a handover from one indicator to the
other in one pass the first flash is not complete, against the comment at
`lighting_local_control.cpp:61`.

**Bounds.** The clocks have 3 to 6 values, more than each timeout plus one step, so
that every wrap happens within a few passes; steps may be longer than one tick
where it fits, so a deadline can be overrun. Confirmation times of 0, 1 and 2
cover the code's special case for 0 and the first, middle and last sample.
`MaxCommands`, `MaxSequence`, `QueueBound` (NodeLink) and `MaxPackets`
(Northbridge) bound the length of a behaviour: with two commands one can be late
while the next is pending, or refused; three packets are enough to fill the table,
misplace a node and then look up a route. `Outages` lets no port, one port or all
fail during a packet, so a broadcast succeeds, fails in part, or fails. `Wired` and
`Commanded` (Lighting) leave out switches and outputs that behave like one that is
in. `Supervision` runs with one node: nodes are coupled only by the flag that any of
them is missing. `rx_path` has frames of 5 to 7 bytes and an alphabet of every valid
length, both sync bytes and lengths that are too long; a chunk of 10 bytes can
complete two frames, what the queue holds, and begin a third. `lighting_faults`
monitors one output, since channels do not depend on each other, with a confirmation
of two samples, and asks it of an indicator, whose lamp goes on and off by itself; its
clock has three values, so the half period and the publishing interval are one tick.
Its shutdowns may fail (`Resisting`); that other writes of it fail too is left to the proofs.
`self_test` has a step as long as the timeout, so that a timeout can be noticed a
whole step late. `security_server` runs one controller and a store that works:
several controllers and a failing store are covered for all sizes by the proofs.
Northbridge uses symmetry in the two strangers. Deadlock is checked except in the Northbridge, which stops
at `MaxPackets`. In NodeLink the clock always ticks, so the deadlock check says
little there; settling is what `PendingIsSettled` is for.

**Fairness.** `loop()` and the main computer's loop are called for ever and the
clock advances: weak fairness of `Service`, strong fairness of a clock step that
is not 0, because a pass may take less than a millisecond but not all of them do.
The security server adds that the siren driver does not refuse for ever (`SirenObeys`):
`service()` tries again in each pass while the alarm is over, so one success in
infinitely many tries is enough.
NodeLink adds that the transport does not fail for ever (strong fairness of
`Retransmit` and `GiveUp`); it needs nothing of the link. Supervision assumes that of
the heartbeats that fall due again and again some are written (`BeatWritten`), and,
for seeing a node only, that some of those are answered and observed. Nothing is assumed of inputs, commands or power; only
PendingLocks excuses power that is lost again and again, since each restart begins
the confirmation anew.

## 4. Proofs

`SecurityServerProofs` proves, for all timings, controllers and failures that
satisfy `TimingAssumption` and `EnvironmentAssumption`:

* `Typing`: TypeOK. `SampleDecides` shows that a sample types the filters and
  decides the engine filter; `PacketTypes` and `PacketLists` type what is sent.
* `InhibitSafety`, `LockSafety`, `SirenSafety`, `IntentSafety`: the state
  invariants, from `SafetyInv`.
* `AssertSafety`: NeverAssertedWhileRunning, the action property.

The two invariants on the inhibit are not inductive by themselves. `SilenceAlarm`
takes no sample and calls `update_start_inhibit`, which reads the raw pin while
the engine filter is undecided. `UndecidedOnlyUnlocked` excludes that: the filter
is undecided only between a boot that restored nothing and the first sample, when
the mode is Unlocked. `SafetyInv` is the conjunction; `SafetyStep` has one step for
each action. For `AssertSafety` the handlers that sample see the engine pin; the
one that does not, `SilenceAlarm`, could only switch on what `LockedMeansInhibited`
says is on already.

* `Implementation`: ImplementsImmobiliser, with a store that works
  (`StoreOutcomes = {TRUE}`) and any siren driver. `LookPromised` says
  that a handler which samples leaves the inhibit as the lock and the engine say; the
  invariants are needed where nothing is sampled: for `SilenceAlarm`, which decides the
  inhibit afresh, and in `BootPromised`, where PersistedIntent says that a restart finds
  in flash what the mode was.

`SecurityMonitorProofs` proves the same for the watched server, `MonitorSpec`, of which
`MonitorWatches` says that it implements `Spec`:

* `ConfirmedInhibit`: InhibitAfterConfirmedStop. By itself it is not inductive: the
  invariant must say what the filter's timestamp is worth. `StopIs`: while the filter
  says "running", a pending timestamp's age is below the confirmation time (and a
  step, within a pass, `Slack`), so it never wraps, and no more than the time since a
  sample last saw the engine run; once the filter has let go, that time is the whole
  confirmation time.
* `FreshTriggers`: SirenNeedsFreshTrigger, an action property. `TriggerIs` ties the
  debounced trigger to the time the samples have seen it held, and says that one which
  has started the siren already is remembered in `previous`, so it makes no new edge.
* `BoundedSiren`: SirenIsBounded. `SirenIs`: with a driver that obeys, the siren's time
  is the age of `alarm_started`, which `service()` checks in each pass.
* `SurvivingIntent`: AcknowledgedIntentSurvives, from PersistedIntent of `SafetyInv`:
  the mode follows flash, and `promised` follows the last acknowledged command.
* `ReportedMode`: ModeIsReported. A pass may report twice, when a pending lock is
  armed and the alarm starts; `ReportsInTurn` says that the last of the states that a
  handler sends has the mode it leaves (`ReportIsTheLast`).

`AgesStep` has one case for each action; how an input and its filter may move is in
`EngineSampled`, `TriggerSampled` and `SirenServed`. Confirmation times of 0, for which a filter follows its sample at once, and
drivers and stores that fail are included.

`NodeLinkProofs` proves, for all controllers, numbers of commands, sequence numbers and
retries, queue lengths, timings and patterns of loss that satisfy `LinkAssumption`:

* `Typing`: TypeOK. `Retries`: GivenUpAfterAllRetries, quick restarts included:
  `PendingIsTheOne` counts a pending command's writes by its retries, `InOrder` says
  what was never written.
* `Refinement`: with `SlowRestart`, ImplementsService. `FramesInOrder` is what excludes
  an overtaking: the frames on their way to a controller are of commands sent to it, in
  the order given, between the one applied last and the one in progress.
  `NumbersAreFresh` is what makes an acknowledgement true: every number on its way has
  been used, so a new command's is new, and a positive answer with the pending one's
  comes from a frame of that command. Here `SlowRestart` is needed, and only here: a
  restart begins again at 1 with old frames on their way.

`NorthbridgeProofs` proves, for any ports, bindings, table size, number of packets
and pattern of failing writes that satisfy `NetworkAssumption`:

* `Routing`: RoutesHold. `MarkSeenWrites` says that learning writes one entry, that
  of the address or a free one; so uniqueness is kept, and the entry of a bound
  address can only be rewritten by a packet of that address, which
  `expected_port_for` has let through on its own port only. `SetupIsSafe` shows that
  `setup()` leaves such a table in whatever order it binds.
* `Delivery`: OnlyToItsOwner, from the same invariant `RouteInv` and the exactness of
  the lookup (`LookupIsExact`, `BoundLookup`).
* `Balancing`: CountersBalance, and with it `Typing`: TypeOK. The counters of the
  ports are summed with a fold. `TotalIsSum` identifies it with the sum that adds port
  after port, in whatever order `CHOOSE` takes them; `TotalOfOneMore` is all the steps
  need. The induction on the number of ports is in set form (`NatSetInduction`, from
  the library's least-element property), which needs no operator as a parameter.
  The inductive invariant `CounterInv` counts the packets received on all ports as
  forwarded, dropped or handled, and the topology faults as movements (`Balance`), and
  compares what was written with what was counted as sent (`Covers`). What is counted
  may be more: a broadcast that failed on one port is counted as sent there
  (`northbridge.cpp:110`).

`NetworkAssumption` includes that nobody binds the broadcast address and that the
table has room for the bindings, as in `esp32/northbridge/src/main.cpp`.

`RxPathProofs` proves, for all header, CRC, payload, chunk and queue sizes that
satisfy `RxAssumption`, the real ones (10, 2, 128, 64, 8) among them:

* `BufferSuffices`: BufferFits, by which the parser never writes behind its buffer and
  never waits for a size that cannot come.
* `NothingDropped`: AcknowledgedIsServed. By itself it is not inductive:
  `QueueFitsChunk` counts the bytes of the chunk that the packets in the queue and
  the bytes in the buffer have used up, except for the first packet, which bytes of
  earlier chunks may have begun. The assumption `Chunk <= QueueSize * MinFrame` is
  what makes the queue large enough.
* `Resynchronises`: LossIsBounded. `InStep` says that a genuine buffer is exactly as
  long as what the line has carried of the frame; `Misled` that any other buffer was
  begun at or after the last thing that could mislead the parser, so it is longer
  than the calm since and cannot survive MaxFrame - 1 quiet bytes; `DueIsBuffered`
  draws the conclusion for each frame begun after that.

`SelfTestProofs` proves, for all timings that satisfy `SelfTestAssumption`:

* `RunsEnd`: RunIsBounded. `RunInv` adds what holds within a pass: the item that waits
  was asked at a time whose age is at most the timeout and a step, and the run's age is
  at most that age and the slices of the items before it (`SlicesAdd`, `LaterItem`).
* `ReportsAreEarned`: ReportIsEarned, when no node sends an answer longer than the
  decoders expect, which is so for the nodes of this repository: `MatchedIsDecoded`
  shows that what the runner passes the decoders take.

`LightingProofs` proves, for all debounce times (0 among them), half periods, clock
widths and steps, wired switches and failing outputs that satisfy `LightingAssumption`:

* `Typing`: TypeOK.
* `Authority`: PhysicalControlsWin. `DebouncerIs` ties each debouncer to the history: a
  pending one has seen the other value for exactly the age of its timestamp, which no
  pass leaves at the debounce time or above, so that a switch held for longer is
  believed (`HeldIsBelieved`); `OutputsAreDecided` says that a pass leaves the outputs
  as decided.
* `Debouncing`: BouncesIgnored; `Flashing`: FlashesOnTime, from the same invariant
  (`DebouncerServed`, `FlasherServed`). Within a pass an age exceeds its deadline by
  less than a step, and the assumption keeps deadline and step below a turn of the
  clock: so no age wraps (`AgesTogether`).
* `Reporting`: MainIsTold.

It also proves of the whole loop, for all sets of monitored, shut-down and failing
outputs and any fate of the reports that satisfy `FaultsAssumption`:

* `Shutdown`: ShutdownHolds; `FaultReporting`: MainShowsFaults, for every monitored
  output, with the late shutdown as the exception; `Confirmation`: LatchedAreConfirmed.
  Needed besides: the code's count is the run of faulty passes it stands for
  (`CountIsRun`), and `LatchesAreConsistent`: nothing is shut down without a latch, and an
  over-current that is latched under the shutdown policy, and of which the main computer
  has been told, has been shut down or is in `late`. So a later shutdown of the same latch
  changes nothing that was reported.
* `CatchingUp`: DiagnosticsCatchUp. `SnapshotsAreOnTime`: while no snapshot is refused or
  lost, the time that the main computer's diagnostics have been wrong exceeds the age of
  the last snapshot by a step at most. Refusals leave the timestamp, so its age may have
  wrapped: the step is what excuses that, and a refusal starts the time anew.
* `RiderInTheLoop`: OnlyShutdownsOverride, the counterpart of `Authority`. The decision
  that PhysicalControlsWin checks after the local control no longer holds of the pins
  once the fault manager has run, so the invariant splits: `ControlInv`, on switches,
  debouncers and flasher, is inductive by itself and knows nothing of the outputs;
  `LoopIsDecided` says which outputs a pass leaves as decided and which it may have cut.
* `LoopDebouncing` and `LoopFlashing`: BouncesIgnored and FlashesOnTime of `FaultSpec`,
  from `ControlInv`.

`SupervisionProofs` proves, for all nodes, intervals, clock widths, failing writes and
lost frames that satisfy `SupervisionAssumption`:

* `Typing`: TypeOK.
* `Hearing`: OnlineMeansHeard. `HeardInv`: while a node is online its silence is the
  age of its timestamp, which is checked in each pass and therefore never wraps.
* `Asking`: NeverStopsAsking. Here ages do wrap, since a write that fails leaves its
  timestamp. `OnTime` says that the time since the last try exceeds the age of the last
  success by a step at most, whatever number of turns that age has lost.

Only model-checked: liveness under fairness, which is out of the prover's reach
(AlarmEnds, PendingLocks, PendingIsSettled, DeadNodeIsNoticed, LiveNodeIsSeen), and the
runs that refute a claim, whose counterexamples are behaviours. Every invariant and
action property of the passing runs has a theorem.

## 5. What is not modelled

* The CRC's arithmetic and the fields of a payload. In the models other than `RxPath`
  a damaged frame is a lost frame, and a receive queue of any length stands for
  `BikeNode`'s, which by `NothingDropped` drops nothing.
* Northbridge: `rx_bytes`, `malformed_frames` and `last_seen_ms`, which no decision
  in the runtime reads; `remove_route` and `is_online`, which nothing calls. With
  six ports or more the diagnostics would outgrow a payload; the firmware has three.
* Sends of the controllers that fail. The write of their serial port waits until it has
  taken the frame, so `RequestState`, which would refuse a request whose state cannot be
  sent, always acknowledges, and a state that is sent counts as told. What `node_.send`
  refuses on the main computer is modelled (`NodeLink`, `Supervision`, `SelfTest`), as are
  refused fault reports and diagnostics.
* Self test: values out of range in an answer of the right length, which the decoders
  refuse and the runner does not look at; no node sends them. `ReportIsEarned` does not
  tell which request an answer belongs to, nor does the code.
* Supervisor: the contents of the identity, `reboot_count`, the 16-entry limit.
* Lighting: measured currents and their limits, occurrence counts, the timestamps of
  fault records. As it stands `esp32/lighting/src/main.cpp:31` calls
  `set_debounce_ms`, while the header declares `set_input_debounce_ms`; the model
  follows the library. The shipped `NoLightingElectricalFeedback` measures nothing,
  so with it no fault is ever sampled; `LightingFaults` models what the library does
  with feedback.
* The main computer: the topology fault in its snapshot, which only a restart clears,
  and security events; both are copied from the last packet and read by nobody but
  the console. The logger (a bounded list and a file), the transports, the command
  line and the build files.
* The standalone sketch in `esp32s3C`, a separate prototype with fixed routes that by
  its README has never been compiled.

## 6. Plan

Done: `SecurityServer` with `Immobiliser`, its monitor and proofs, `CommandService` and `NodeLink`,
and `RxPath`, `Northbridge`, `Lighting`, `LightingFaults`, `Supervision` and `SelfTest`,
each with its proofs.

Worth doing next: a composition of `NodeLink` with the security server's handlers, in
which an acknowledgement the main computer receives means the lock that `Immobiliser`
describes; the prototype in `esp32s3C` against `RoutesHold`; properties for the hazards
that have none.

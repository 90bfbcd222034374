# CatHub: TLA+ specifications and proofs

CatHub (`src/crates/cathub`) shares one transceiver and one CW keyer among
several programs. This directory holds TLA+ models of it, the TLC configurations
that check them, and TLAPS proofs about them.

## The system

All paths are under `src/crates/cathub/src/` unless they begin with `src/`.
One process runs a set of tokio tasks:

| Component | Source | State | Operations |
|---|---|---|---|
| Operation scheduler | `radio/mod.rs` 434-548 | mpsc channel (128), `Vec` of per-session queues, the operation being executed | `submit`, `enqueue`, `select_next`, `execute` |
| PTT lease | `ptt.rs` | owner, `keyed_at` | `try_key`, `unkey`, `owner`, `expired_owner` |
| Client session context | `dialect/mod.rs` | session id, permissions, auto-information flag | `apply_modeled`, `passthrough`, `release_ptt_on_disconnect` |
| CAT endpoints and dialects | `serial_endpoint.rs`, `dialect/kenwood/*` | notification cursor | request, notification, lag and resync, close |
| Hamlib NET endpoint | `hamlib_net.rs` | one session per connection | line commands, some of several writes |
| Watchdog, start-up, shutdown | `lib.rs` | where the tasks stand | expiry, orderly stop, what is opened in which order |
| Poller and native push | `events.rs`, `backend/kenwood/ts590.rs` | poll interval | poll cycle, arming of the push |
| Radio link | `radio/mod.rs` 40-432 | command channel, command in flight, backoff | command, reply, push, timeout, reconnect |
| Radio state cache | `state.rs`, `model.rs` | snapshot, mode facts in doubt, broadcast ring | `record`, `is_redundant`, `subscribe` |
| Backends | `backend/**` | none | `poll`, `apply`, `passthrough`, events |
| Permissions | `permissions.rs` | none | `from_tokens`, `allows`, `allows_mutation` |
| WinKeyer broker | `winkeyer/broker.rs` | clients, job queue, foreground owner, connection | admission, start, completion, reconnect |
| WinKeyer actor | `winkeyer/actor.rs` | broker, transport, station lease | requests, device events, pacing, shutdown |
| WinKeyer endpoints | `winkeyer/endpoint.rs`, `winkeyer/grpc.rs` | virtual host session, typed clients' ids | virtual commands, typed service |
| WinKeyer protocol | `winkeyer/protocol.rs` | partial command | `ClientParser`, `DeviceEvent` |
| Configuration, runtime info | `config.rs`, `runtime_info.rs` | files | load, validate, migrate, publish, remove |
| Virtual serial protocol | `src/crates/cathub-virtual-serial/src/protocol.rs` | none | encode, decode, negotiate |
| Logging, errors | `logging.rs`, `error.rs` | none | output |

The sessions, the watchdog, the poller and the shutdown all submit operations to
the scheduler and await the answer; the scheduler alone drives the backend, and
the backend the radio link. The sessions and the watchdog share the PTT lease
(a mutex that is never held over an await). Backends record what they learn in
the state cache, which broadcasts changes to the sessions. The endpoints of the
keyer make requests to its actor, which takes the same PTT lease for the time a
keyer job transmits, and which tells them of the keyer by a broadcast ring and a
published snapshot.

What makes it hard: each task gives way at every await, so that between a read
of the lease, the cache or a snapshot and the step it leads to any other task
runs; an operation may be answered with an error and obeyed all the same, or
answered Ok and lost; replies come late, between pushed frames, or never; rings
overflow; the shutdown gives up after 500 ms; clients, transports and the
process itself come and go. What makes each component correct:

- scheduler: per-session FIFO, strict priority over the oldest operations, one
  answer per operation and to its own submitter, no operation stranded;
- lease and sessions: whoever transmits holds the lease; nobody takes over a
  transmission; a closed session does not transmit; a transmission ends; an
  orderly stop leaves the radio unkeyed;
- radio link: a command is written once, and gets its own reply or an error; a
  pushed frame reaches the cache; a new transport is made to push again;
- state cache: once all is quiet it is what the radio is set to, and a write is
  suppressed only when the radio holds the value;
- CAT and Hamlib endpoints: a client ends with the current values, also after
  lost events; what it does is within its permissions; a command told Ok holds at
  the radio; a single-VFO client cannot tell the VFOs apart;
- keyer: jobs run in admission order, one at a time, each ends in one way; the
  station lease spans the transmission; the keyer carries the profile and speed
  the broker believes it carries; maintenance excludes jobs, silences the keyer and
  ends in host mode;
- keyer endpoints: bytes reach the broker in the order they were typed, and never
  past the permissions; a session that is over leaves nothing held for longer than
  what it sent takes to be handled;
- configuration: a migration that stops anywhere loses nothing; a daemon that
  started serves every endpoint, and the runtime info names one that is up.

## Modules

| Module | Models |
|---|---|
| `SessionFifo` | The abstract promise of the scheduler: per-session backlogs, the running operation, and where each actor's `submit(..).await` stands |
| `Scheduler` | The scheduler as coded: channel, queues, the order in which sessions entered the `Vec`, `select_next`. It refines `SessionFifo` (`ImplementsFifo`) with `pending[s]` = the queue of `s` followed by the channel's operations for `s` |
| `Station` | The transmitter and everyone who may key it, on top of `SessionFifo`: `PttManager`, the client sessions, the watchdog, the poller, the shutdown and the radio |
| `RadioLink` | The command channel, the transport task, its supervisor and the radio behind it |
| `Cache` | Operators: the snapshot and its changes, what the TS-590 backend writes for a change and reads from a frame |
| `RadioState` | The cache between a TS-590 that may push, the transport task and the worker that record in it, and a client whose writes it may suppress |
| `Endpoint` | Operators: permissions, and what a Kenwood dialect makes of a request |
| `CatSession` | One client at a Kenwood endpoint, with the broadcast ring |
| `Hamlib` | Operators: the rigctld protocol as the hub serves it, mode tokens, transmitter power |
| `Bridge` | Hamlib clients of the hub, and the radio behind a rigctld that the hub polls |
| `KeyerDevice` | The physical WinKeyer (external): its FIFO, key, registers, host mode, and the bytes under way to the host |
| `Keyer` | `BrokerCore` and the actor that owns the keyer's port, with the station lease, on top of `KeyerDevice` |
| `WkProtocol` | Operators: the parser of a keyer client's bytes, the policy of each command, the permissions of a keyer endpoint |
| `KeyerEndpoint` | One virtual WinKeyer endpoint, another one, and typed clients, before a broker kept as small as they can tell |
| `Config` | Operators: sections, validation, documents, and the order in which a daemon opens what it is configured with |
| `Setup` | The files, migrations, daemons that start and stop, the runtime info |
| `MC...` | Instances for TLC |
| `...Proofs` | TLAPS: eight modules, described below |

`Scheduler` implements `SessionFifo`, and `Station` is built on `SessionFifo`
instead of on the detailed scheduler. `Keyer` sees of the station its lease only
(`nobody`, `keyer` or `cat`), and in `Station` the keyer's lease is one more session
that keys. `RadioState` takes from `RadioLink` that frames come in order,
`CatSession` and `Bridge` take the cache from `Cache`, `KeyerEndpoint` takes from
`Keyer` what its requests are answered.

### Scheduler

`SubmitOp` is `RadioHandle::submit` (send into the channel when it has room, then
await), `Drain` one `recv`/`try_recv` and `Enqueue`, `Select` is `select_next`
once `try_recv` found the channel empty, `Complete` the end of `execute(..)` and
the oneshot, `Resume` the submitter's continuation. The tie-break by position in
the `Vec` is kept; `SessionFifo` leaves ties open. The order in which senders
wait for room in a full channel (tokio's FIFO semaphore) is left open too, so
the model has every order.

### Station

A client session is sequential. Its `phase` is the await or the gap it stands at:

| phase | code |
|---|---|
| `idle` | between two requests |
| `keyHold` | `try_key` returned Ok, `submit` not yet called (`dialect/mod.rs` 117-124) |
| `keyWait`, `unkeyWait`, `otherWait` | awaiting the answer to TX, RX, any other command |
| `closing`, `closeWait`, `closed` | `release_ptt_on_disconnect` |

Requests that change nothing (not permitted, `Busy`, redundant) are not actions.
The watchdog is `sleep`, `expired` (it has an owner, and has not submitted) or
`rxWait`; `run()` is `running`, `stopping`, `rxWait` or `exited`. `age` is the
time since `keyed_at` in ticks up to `MaxTx`. `Tick` waits for a session in
`keyHold`: no await lies between `try_key` and the send into the channel, and
the ceiling is minutes, so that a task cannot be there and expired.

`keyedBy` is the radio: the session whose TX keyed it. `Execute(outcome)` ends an
operation in one of four ways: `done`; `refused` (error, not obeyed);
`unanswered` (error, obeyed: the rigctld backend awaits `RPRT`, and the answer was
late or lost); `lost` (Ok, not obeyed: the TS-590 backend writes `TX;`/`RX;`
without a reply).

Two history variables say when the lease does not tell of the radio, so that the
properties can name their exceptions: `unsure` has the sessions whose TX failed
with the radio keyed by them, whose RX left it keyed, or whose TX crossed a
release that the watchdog or the shutdown had begun (`Releasing`); it is cleared
by the next `try_key`. `lateKey` tells that a lease was acquired after the
shutdown began. They are never read by a guard.

Session ids are never reused (`clone_for_session` gets fresh ids), so `closed` is
final: a new connection is another member of `Clients`.

### Radio link

`RadioLink` has the channel (`queue`), the command in flight (`pending`), where the
supervisor is (`conn`) and the line to the radio (`inbox`, `wire`). `Write`,
`ReadIdle`, `ReadPending`, `Timeout` and `Eof` are the arms of `run_transport`'s
`select!`; `Reopen` and `ReopenFails` are `run_transport_supervised`, and `SubmitArm`
the task it spawns with each transport. The radio is of one of two styles: a Kenwood
answers queries by verb, answers no set and pushes once it was armed; a rigctld
answers everything with lines that do not say what they answer. `Drop` closes the
transport at the far end; what was written then is lost, and the frames that had
arrived are still read, up to any point. A radio may answer the arming command with
an error and not push then; `refused` notes it, for the hub does not look. The model starts a new transport with empty
lines: nothing of the old connection reaches the new one.

### Radio state

`Cache` keeps the fields of `Snapshot`; a mutation is the change it asks for, as
`StateMutation::into_change` makes it. In `RadioState` two recorders share the cache:
the transport task (`ReadFrame`, pushes) and the scheduler's worker (`PollStep`,
`TakeReply`, `ApplyWrite`, with polls and writes). `record` is two steps,
`RecordChange` (the snapshot) and `RecordRest` (the mode facts in doubt), because
the code takes two locks in turn. A client's `Write` may be suppressed by
`is_redundant`. The radio obeys in order and pushes, or does not (`ai`); a new
frequency may recall another mode of its band, as the code's comments say the radio
does. `fresh`, `amiss` and `promise` are histories. `amiss` has what the hub itself did
since the last whole poll that leaves the cache behind the radio: a push that an older
answer was laid over (`overlaid`), split written with `FR0` and recorded as split alone
(`moved`, at a radio that does not push), a mode recorded for a VFO that is no longer the
one in use (`misnamed`).

### CAT sessions

`Endpoint!Handle` is what each of the four dialects (transparent TS-590, TS-590,
single-VFO TS-590, TS-2000) makes of a request: frames to reply with, an operation
with its class, or the session's auto-information flag. `CatSession` puts one such
session between the two recorders and its client: `Push` and `Poll` record,
`Broadcast` sends (the second step of `record`), `HandleRequest`, `Execute` and
`Resume` are a request up to its await, the worker, and the continuation (a write may be
redundant, with the mode facts in doubt, `unsure`, that recording keeps); `ReadEvent`
and `Lag` read the ring. `view` is what the client shows after what it was told.
`astray` notes that two recorders sent their changes in the other order than they
made them, and `missed` that a change is not told to this client at all; they are
the exceptions of `SessionFollows`.

### Hamlib

`Hamlib!HandleLine` is every command of `hamlib_net.rs`, plain and extended. In `Bridge`
two clients (one of them single-VFO) use it, with plain and PKT modes, over a radio
behind rigctld. A mode with
its data flag is two operations, between which the other client or a poll may come
(`HandleCommand`, `ApplyMutation`, `Resume`); `StartPoll`, `PollQuery` and `PollFails`
are one poll with its queries, of which some may be answered with an error; a PKT mode is an
answer that tells it nothing (`Untold`). The
millionths of the power scale are `Scale` units.

### Keyer

The actor is one task, and each turn of its `select!` is one action: a request
(`Register`, `Unregister`, `SetSpeed`, `Configure`, `KeyImmediate`, `Enqueue`,
`StreamOn`, `StreamQueued`, `Cancel`, `CancelJob`, `Stop`, `Maintain`,
`ReleaseMaintenance`, `Shutdown`), a byte of the keyer (`ReadFirmware`,
`ReadMaintenance`, `ReadEcho`, `ReadStatus`) or a tick (`Watchdog`, `Settle`, `Poll`,
`Tick`). Requests that are refused without a change are not actions.
`EnqueueUnconnected` is the one that is refused and changes something.

| variable | code |
|---|---|
| `clients`, `desired`, `profile`, `applied`, `queue`, `active`, `nextJob`, `status` | the fields of `BrokerCore` |
| `link` | where `run_actor` is: `up` the session loop, `failed` leaving it, `down` the reconnect loop, `off` returned; `connected` is `up` or `failed` |
| `maint`, `reopening` | `maintenance_owner`, `maintenance_reopen_pending` |
| `lease` | `PttManager`, as far as the keyer sees it: `nobody`, `keyer`, `cat` |
| `dev` | the keyer |

`Perform` is `apply_actions`: the writes reach the keyer in order up to the one
that fails, and the events after it are dropped (`untold`). In the reconnect loop
writes go to a sink. `Shutdown` writes its `Farewell` also when the list before it broke
off. `Settled` is `release_station_tx_if_idle`, at the end of each
turn that calls it.

The keyer obeys commands as they are written, and its bytes wait in `dev.up` until
they are read, so that a status may be stale. Text is a sequence of pieces marked with
their job and client; a profile is a map of transient registers; the pot and its wpm
are left out. A status byte says `sending` (busy or key down), `paddle` (break-in
alone) or `idle`; `waiting` alone, which counts as busy in `observe_status` only, is
left out. `Settle` assumes that 250 ms are enough for the keyer's statuses to arrive.
Out of host mode a maintenance command may reset the registers, and anything else
that is written is ignored. `strayed` and `expired` note an emergency stop in
maintenance and a lease that the PTT watchdog freed, so that the properties say what
holds without them.

### Keyer endpoints

`KeyerEndpoint` is the session of one virtual endpoint. `Read` takes what its client
wrote, or a part of it; each `Take...` is one item that the parser cut out of the
chunk, with every request it leads to; `PartialTimeout` drops a partial command and
`FlushStream` sends the text that waits. `ReadEvent` and `Lag` read the broker's ring,
`HangUp` and `EndSession` are the end of the session and its cleanup; an answer that
cannot be written ends it in the middle of a read (`Unanswered`). The release of Host Close
and of the end, and the unregistration, are sent and not awaited: they wait in `box` until
the actor comes to them (`Handle`), before any later request of the session. `core` is the
broker as its clients can tell it (jobs without text, one status with break-in), answering
with `Enqueue`, `Cancel`, `Maintain` and so on; `Publish` is `publish_snapshot`, one step
after the request was answered. `basis` notes what the client was last told of: a status of
the keyer or a published snapshot (`told`), one not yet published (`early`), or a job's end
(`completed`, always 0xc0). Typed clients register across an await (`Identify`,
`Enter`), as `grpc.rs` does. `meant` is what is to be made of the bytes looked at, `out`
the bytes handed on, `asked` the requests made: histories, as is `basis`.

### Configuration

`Config!Valid` is every check of `validate`, `Load` what a file says, `Bringup` the
resources `run` opens, in order. `Setup` has two files with their backups and
temporaries. A migration is one step per file operation, writing and copying in two
parts (`Fill`), and `Abandon` stops it anywhere; the user may edit at any of them. A daemon
opens one resource after the other, publishes the runtime info in two steps (a file that is
there is removed first), and quits in three (it reads whom the file names, removes it, and
frees its ports) or is killed. Two daemons need not have any port in common.

## Runs

Every run passes.

| Run | Instance | Checks |
|---|---|---|
| `scheduler` | 2 sessions, watchdog, poller; channel of 2; 5 submits | `SubmitsKept`, `ImplementsFifo` (refinement), `EverySubmitAnswered` (liveness) |
| `station_safety` | 2 capable sessions, all four outcomes, `MaxTx` 1 | `LeaseCoversKey`, `NoTakeover`, `DisconnectDropsTx`, `CleanExit` |
| `station_live` | 1 capable session and 1 other with ordinary commands, fair | `StationTypeOK`, `ExactlyOneInFlight`, `Backstop` (liveness) |
| `keyer_jobs` | a primary and another client, 3 jobs, a queue of 2, streams of 2 pieces, failing writes, emergency stop, shutdown, expiry of the lease | `JobsKept`, `JobsInOrder`, `LeaseSpansJobs` |
| `keyer_settings` | the same clients, one may do maintenance; a register, two speeds, 1 job, failing writes and reconnects, paddles, Key Immediate, a CAT session | `SettingsInEffect`, `MaintenanceSilent`, `HostMode` |
| `keyer_live` | 2 jobs, maintenance, Key Immediate, failing writes and lost transports, fair | `EveryJobEnds`, `LeaseReturned` (liveness) |
| `radio_link` | both styles, 2 verbs, 3 commands, 2 pushes, 1 lost transport, fair | `LinkInv`, `OwnReply`, `PushesKept`, `Rearmed`, `EveryCommandAnswered` (liveness) |
| `radio_state` | 2 frequencies, 2 modes, 2 writes of frequency, mode and split, 1 turn of a knob | `CacheInv`, `WriteHolds` |
| `cat_session` | four dialects, 2 sets of permissions, a ring of 2, 3 moves | `CatInv`, `SessionFollows`, `HiddenVfo` |
| `bridge` | a general and a single-VFO client, USB and AM, plain and PKT, 3 events (commands and turns of knobs), errors to three of the queries | `BridgeInv`, `CommandHolds`, `HiddenFromLoggers`, `ExtendedEnds` |
| `keyer_endpoint` | 3 sets of permissions, 11 messages, 2 typed clients, queue, ring and ids at their limits, 3 moves | `EndpointInv`, `BytesInOrder`, `StatusFollows`, `MaintenanceHeld`, `Authority` |
| `setup` | 2 daemons, 3 configurations, 2 migrations, 2 edits | `FilesSafe`, `EndpointsServed`, `InfoTrue` |

Some properties are conjunctions of named parts: `SubmitsKept` of `TypeOK`, `Owed` and
`Single`; `JobsKept` of `KeyerTypeOK` and `JobsAccounted`; `JobsInOrder` of
`ArrivalOrder` and `NeverInterleaved`; `SettingsInEffect` of `ProfileInEffect` and
`SpeedInEffect`; `LinkInv` of `LinkTypeOK`, `Accounted` and `WrittenOnce`; `CacheInv` of
its types and `CacheFaithful`; `CatInv` of its types and `Authority`; `BridgeInv` of its
types and `BridgeFaithful`; `EndpointInv` of its types and `TypedClients`; `FilesSafe` of
its types, `NothingLost` and `NeverTorn`.

### Bounds

In `scheduler` a channel of 2 fills up, and 5 submits of 4 actors include
a second operation behind a first one, ties, and a poll behind everything.
`MaxSubmits` bounds the behaviour only; liveness is checked once submits stop.
In `Station` an actor has one operation at a time, so the state is finite without
a bound; two capable sessions are the owner and its rival, which every property
is about (the proofs remove the bound). `MaxTx = 1` makes each lease expirable
after one tick; the code compares `elapsed() >= max_tx` only. `station_safety` has no
ordinary commands (`OtherPrio = {}`): they only delay, and the order of equal
priorities is open there anyway; `station_live` has them, where delay matters.
Capable sessions are interchangeable, and `station_safety` (no liveness) uses that
symmetry.

In `Keyer` `MaxJobs` bounds the behaviour (ids are not used again), `MaxReports` the
bytes under way, `Events` what the environment does in an instance. Three jobs are a
running one and two that wait, of one client or of two; a queue of two gets full; two
clients, one of them the primary, are the owner and the other every decision of the
broker distinguishes. One register suffices for a profile, whose entries do not
interact, and `"pot"` and one fixed speed for the speeds. One report under way makes
a status stale by one request.

In `radio_link` three commands are one that times out, one that may take its reply, and
one that this displaces in turn; two pushes can be told apart in order; the proof of
`LinkInv` removes the bounds. The scheduler's worker awaits each operation, so that the
link has one caller, and with it the arming task. In `radio_state` two writes are a
frequency that puts the mode in doubt and a mode that may be redundant, or a split and what
is written after it; `DA` and `PC`
are not polled, which only spares steps. In `cat_session` three moves (changes and
requests) overflow a ring of two, and the enumerations of `HiddenVfo` are over every
request. In `bridge` three events are a mode's two halves, the other client's command or
the operator between them, and what comes after; `Levels` and `Scale` make the
conversions of the power round, and `MaxU32` makes them overflow. In `keyer_endpoint`
three moves are a maintenance begun, something of another client, and its end; messages
are cut anywhere by `Read`, and two typed clients of three names fill what room there is.
In `setup` one configuration has a keyer with two endpoints, one the same with two
primaries, which is refused, and one shares no port with them: daemons contend for a port,
or for nothing but the one runtime info. Two edits and two migrations include a migration
over what an earlier one left, and an edit within one.

### Fairness

Every task that holds an answer or owes a submit goes on (tokio runs
ready tasks); the scheduler starts operations and the backend ends them (each
command has `REPLY_TIMEOUT`, 1 s); the watchdog's sleep ends; time passes; a
shutdown that began comes to its end (its timeout). No client is obliged to send,
unkey or close, and no one to stop the daemon. Fairness is weak throughout.
In `Keyer` the actor reads bytes and its ticks come, `max_tx` passes, and the keyer
keys its text and reports; no reconnection is promised (`EveryJobEnds` holds without
one, for a lost transport cancels the jobs). `LeaseReturned` has the premise that
from some time on nobody keys by hand, no maintenance is under way and the transport
stays. `Backstop` has a premise: the watchdog's RX is queued in the owner's session,
behind a write the owner may have there, which ties with the writes of other
sessions; it holds when those cease. In `RadioLink` the transport task and the arming
task go on, the timeout comes, and a transport that is reopened again and again is
reopened in the end (`Reopen`): commands queued during an outage have no deadline,
and nobody answers them while the radio is away. The radio owes nothing.

Deadlock is checked except where a behaviour ends at its bounds or all processes have
ended (`radio_link`, `cat_session`, `bridge`, `keyer_endpoint`, `setup`).

## Proofs

The proofs hold for every value of the constants that the named assumptions allow.

| Module | Theorem | Property |
|---|---|---|
| `SchedulerProofs` | `SchedulerAnswersOnce` | `SubmitsKept` |
| | `SchedulerImplementsFifo` | `ImplementsFifo` |
| `StationProofs` | `FifoAnswersOnce` | `ExactlyOneInFlight` |
| | `StationTyped` | `StationTypeOK` |
| | `StationAnswersOnce` | `ExactlyOneInFlight` |
| | `LeaseIsSafe` | `LeaseCoversKey` |
| | `NobodyTakesOver` | `NoTakeover` |
| | `DisconnectIsSafe` | `DisconnectDropsTx` |
| | `ShutdownIsClean` | `CleanExit` |
| `RadioLinkProofs` | `LinkKeepsBooks` | `LinkInv` |
| | `LinkRearmed` | `Rearmed` |
| | `LinkAnswersItsOwn` | `OwnReply` |
| | `LinkKeepsPushes` | `PushesKept` |
| `KeyerProofs` | `LeaseSpansEveryJob` | `LeaseSpansJobs` |
| | `MaintenanceIsSilent` | `MaintenanceSilent` |
| | `KeyerIsInHostMode` | `HostMode` |
| | `JobsRunInOrder` | `JobsInOrder` |
| | `EveryJobIsKept` | `JobsKept` |
| | `SettingsStayInEffect` | `SettingsInEffect` |
| `CatSessionProofs` | `SessionSound` | `CatInv` |
| | `SessionCatchesUp` | `SessionFollows` |
| | `SessionHidesVfo` | `HiddenVfo` |
| `KeyerEndpointProofs` | `EndpointAuthority` | `KeyerEndpoint!Authority` |
| | `TypedClientsApart` | `TypedClients`, a part of `EndpointInv` |
| | `EndpointKeepsOrder` | `BytesInOrder` |
| | `EndpointSound` | `EndpointInv` |
| | `EndpointReleases` | `MaintenanceHeld` |
| | `EndpointTellsTruth` | `StatusFollows` |
| `BridgeProofs` | `ReadsAreRight` | `BridgeInv` |
| | `OkHolds` | `CommandHolds` |
| | `LoggersHidden` | `HiddenFromLoggers` |
| | `RepliesEnd` | `ExtendedEnds` |
| `SetupProofs` | `MigrationKeepsFiles` | `FilesSafe` |
| | `DaemonServesEndpoints` | `EndpointsServed` |
| | `InfoNamesDaemon` | `InfoTrue` |

**Selection.** `Vec::retain` and the filters of a queue are `Selection(s, S)`, the elements
of `s` that are in `S`, a recursive function of the prefix. What it is of `Append(s, x)`,
and of a sequence without its first element (`SelectionAppend`, `SelectionCons`, in
`SchedulerProofs`), or of which type it is, is an induction over the length.
The library's induction theorems take an operator, which the provers cannot instantiate;
these proofs take the least index at which the claim fails instead (`Least`, of a set of
numbers), and find that it does not. The modules that select share `Least`, `Kept` and
`SelectionKept` by having them each: their variables keep one from extending another.

**Scheduler.** `FifoAnswersOnce` (in `StationProofs`) is
`FifoSpec => []ExactlyOneInFlight`. The
invariant is inductive with the types: `Submit` needs that the submitter awaits
nothing, `Answer` that no other operation is its submitter's. The module then derives
what `Station` needs of backlogs without looking into sequences: which operations are
in flight after each scheduler step (`Flying`) and that order in a session is kept
(`Ahead`). `SchedulerProofs` shows the same of the scheduler as coded, for any
channel capacity: `Owed` (a task that awaits has its operation in the channel, in a
queue or executing) and `Single` (in one of these, once), with `Listed` (the `Vec` has
sessions only). Each step moves one operation from one place to the next, and the
lemmas `AtTheEnd` and `AtTheFront` say what that does to a sequence.
`SchedulerImplementsFifo` is the refinement: a session's backlog is its queue and what of
the channel is its own (`Backlog`), so that a submit appends to one backlog, and `Drain`
moves the border between the two parts and is a stutter. `Select` runs when the channel is
empty, so that the queues are the backlogs, and what `Best` takes is the head that no other
session's outranks: every session with a queue is in the `Vec` (`Listed`).

**Station.** `Spec => []StationInv`, for any sets of clients and capable clients, any
`MaxTx` and any outcomes. `LeaseCoversKey` is not inductive. A lease is released in
three places, and each needs to know that the session does not transmit:

- a session that takes its own answer: `AnsweredUnkeyed` (its RX was obeyed, or its
  TX was not, or it is unsure);
- the watchdog and the shutdown: `ReleaseRunsLast`, the heart of the argument. Their
  RX is queued in the owner's own session, behind any TX of the owner, so that it
  runs after it; a TX acquired later is noted in `unsure` (`CrossingNoted`). That a
  session the watchdog finds expired is not itself between `try_key` and `submit` is
  `FreshKey`;
- `OpsWellFormed` ties each operation in flight to the phase of its submitter,
  `ClosedFree` and `ShutdownOwns` carry the lease through disconnect and shutdown.

**Radio link.** `LinkInv` is inductive with `Books`: what waits in the channel is in the
order of the ids and unanswered (`Before`, `Waiting`), what is in flight was written and
comes before it (`Flying`), an answered command was submitted (`Submitted`), each
submitted one is somewhere (`Placed`), and the commands written are those that left the
channel by being written, in order (`Wrote`). A failed write answers a command that was
never written, a lost transport one that was, and a reopened transport finds the channel
as it was.

`OwnReply` needs to know what is on the line, and that differs with the style. Where
frames have verbs a query is answered once (`Single`, `VerbsLine`): the frame, the query
not answered yet and the command in flight of one id are never two of these, so that a
frame of the verb that is not the command's own is a push, or of a command that was given
up or had itself been answered by another frame (`Displaced`). Where lines have none they
come in the order of the commands (`LinesInOrder`), and a command that has been given only
lines of its own still awaits exactly those on the line (`LinesInFlight`): one that was
answered without a timeout leaves none behind for the next. `Older` keeps ids that come
back from the line apart from those in the channel. `PushesKept` rests on `Numbers`, the
order of the pushed frames on the line, and on `Closed`: only a transport that drops loses
one. `Rearmed` on `Kinds`, that no command but the arming one is counted as it.

**Keyer.** `LeaseSpansJobs`, for any clients, profiles and bounds, is inductive with two
facts: no other owner exists than the keyer and the CAT sessions (`LeaseOwners`), and the
reconnect loop has no running job (`NoJobOffline`), so that no session begins with one
that has no lease.

The other theorems on the keyer share `TypesInv`, the types of all variables and of the
keyer (`Device`), and rest on what `apply_actions` does with a list of writes, any end of
which may be dropped. `AllKeep` says it once: what every write of a list keeps, every
beginning of the list keeps (a least counterexample again, as for `Selection`). The handlers
then differ in the lists they make, and a lemma for each says of what writes its list is:
`Settings` (registers and speed), `Mild` ones, which leave the keyer in host mode, `Quiet`
ones, which put no text into the keyer's FIFO. `Leads` lets the first of them be the taking
of a byte.

`HostInv` adds to `HostMode` the keyer that was reopened and has not answered: it is in host
mode also when an earlier emergency stop had left it out of it. With `MaintenanceWaits` (no
job runs or waits in maintenance) it is inductive; `Maintain` alone writes a Host Close and
stays, and it sets the owner before.

`SilentInv` is `MaintenanceSilent` with one more fact: out of host mode the keyer keys
nothing of a client (`Shut`), whoever has it. No write but text and Key Immediate makes a
keyer louder, and none does so out of host mode (`WrittenQuieter`); these two are written
only when nobody maintains the keyer and none is to be restored (`MaintenanceWaits` and the
guards), and the Clear and key-up that go before Host Close silence what was under way.

`OrderInv` names the job that was started last (`Reached`): the queue is ascending and
beyond it, and the keyer's FIFO does not go beyond it (`Follows`), what is of it being its
client's. Without the job, which may have ended long ago while its text is still keyed, the
order of the FIFO is not inductive. `SelectionThinned` gives what is left of a queue when a
client's jobs are taken out, and what is taken: both in order.

`KeptInv` says where each job is: it waits or runs (`Waiting`), or has been told one end, or
its end was lost, and never two of these. What a handler writes is `Closing(acts, E)`: it
tells each job of `E` once and no other. `PerformCloses` then shows, wherever the list
breaks off, that each of `E` was told or lost once (`EndsTold`), and each handler takes
exactly `E` out of `Waiting`, for which the ids must be ascending, hence distinct
(`OrderInv`). The cancellation of a client needs this most: what `cancel_client` takes and
what it leaves are two filters of one queue.

`SetUp` is `SettingsInEffect` with what makes it inductive: while the keyer is the broker's
(`Attended`: a session is up, nobody maintains it, no reopening is under way and no
emergency stop has thrown one away), `RegsSet` says
that the profile the broker takes for applied is in the registers, and `SpeedSet` also what
the speed is when there is no primary to go by: the pot's, as long as none ever came.
Without that clause the primary's arrival could find any speed. Maintenance, which resets
registers, is followed by `ReadFirmware` or a new session before anything is claimed
again; the restore of `ReadFirmware` takes nothing for applied, and by `HostInv` the keyer
is then in host mode and no job runs. `ReplayLoads` shows that a
replay loads a whole profile over whatever was there, in any order of its registers; a list
is followed through its parts (`ObeyOn`): of what a step writes first nothing touches a
register (`Tuning`), then come the replay and the speed (`StartSets`, `RestoreSetsAfter`).
`NextSets` is `start_next_or_restore` for any clients left and any profile taken for
applied, so that a client that goes, a cancel, a stop, a completion and the answer to Host
Open are all cases of it. A cut-off list ends the session, of which nothing is claimed until
`Reconnect`, which needs `NoJobOffline`: it restores the foreground and starts no job.

**Permissions.** `SessionAuthority`: whatever a request is, a dialect makes a forwarded
frame, a modeled write, a transmission or an answer of it (`DialectSubmits`), and for each
the check that the session makes implies the permission for its effect
(`PermittedWithin`). `SessionSound` adds the types. `EndpointAuthority`: every request a keyer session adds was
granted (`CommandGranted`), and the text that is flushed later was gathered under the
permission to send, which `Gathered` adds to the invariant.

**What a client shows.** `SessionCatchesUp` needs to know where the last word on each
setting is. An event `Says` something of a setting: a change of it or, to a transparent
client, the radio's frame. `NewsRight`: what a recorder has yet to send is what the
snapshot has, or another recorder is to send a later one (`AwaitedRight`); when nothing of
the setting is yet to be sent, the last of the ring is right (`LastRight`), also when the
ring dropped its oldest. `ViewRight`: a setting of which nothing is left to read (`Settled`)
is shown as it is. Two recorders make at most two changes at a time, and `InOrder` says in
which order; a change sent before an earlier one is what `astray` excludes. A recorder either
changes nothing or makes one setting unsettled (`Quiet`, `Loud`). The rest is what a client
makes of the frames: of one change (`ShowsTs590`, `ShowsSingle`, `ShowsRadio`), and of the
whole snapshot replayed as twelve (`ResyncShows`, by the least replayed change after which
something is wrong). `SessionHidesVfo` compares a deed with that of the mirrored snapshot,
request by request (`RequestAlike`) and change by change (`ToldAlike`).

**Hamlib.** `BridgeInv` and `CommandHolds` share one invariant, `IInv` (`BridgeInvariant`),
for any clients, frequencies, levels and failing queries. A poll is right one answer at a
time: `Heeded` says for each of its queries what of the snapshot is the radio's by now, as
long as nothing came between (`mixed`). What a poll leaves is right until something goes by
it: `Trust` is what the last one told and the hub was told since, without the mode while it
is in doubt (`unsure`), and that is what a redundant write relies on; `Freshness` is what
clients read of an undisturbed one, and adds the transmitting VFO and the power, which is
converted for that VFO's frequency and mode and not for the one received with. Of the data
flag `Trust` has one direction only, that the cache has it for on when the radio does: so
that leaving a flag off may be redundant, and leaving it on is what `DataAssumed` excepts.
A query that tells nothing (`Untold`) ends the trust. A mode is
set half by half: `Progress` says that the half which is done holds at the radio while
nothing else was done to it, and that the snapshot knows the mode, so that the second half
writes the same mode again. `Chain` unfolds what a list of at most two changes records.
`LoggersHidden` needs of the snapshot only that its receive VFO is A, and holds of every
command (`AlwaysHidden`, while TLC looks before the first one); it compares a command on
two caches that differ by which VFO is received with (`SameView`). `RepliesEnd` needs
nothing (`AlwaysEnds`): an answer is one report or lines without any (`Fine`), which
`Extended` ends with one (`ExtendedWell`).

**Order of a client's bytes.** `EndpointKeepsOrder`: `OrderInv` adds to `BytesInOrder` that
the session and the history agree on the partial command and on whether the host is open
(`Agreed`), and that nothing is held without the permission to send (`NothingOut`). The
session tests the permission once when it gathers, once when it flushes and the history
at each byte; a Clear Buffer empties all three.

**Typed clients.** Ids are numbered upwards and entered under the lock that was held
when they were taken: `Newest` says that the id awaited is above all those entered, so
that `Apart` survives `Enter`; the count is that of the names entered.

**The broker as its clients see it.** The other theorems on `KeyerEndpoint` share one
invariant, `WholeInv`. Whatever a client asks and the keyer says, the broker's answer is
`Fair`: it leaves the broker `Sound` (its jobs are of clients it knows, none too long, not
too many, maintenance too) and it `Tells` what it did: the last event that says something
of the status says what the status now is, and without such an event neither the status
changed nor the last job ended. One lemma for each kind of request (`EnqueueFair`,
`CancelFair`, `UnregisterFair` and so on) shows that, for any broker. `DoesKeeps` carries it to
the session: what the ring still has of the events is an end of them, so its last word is
true (`RingInv`), and once nothing of the kind is left to read and none was lost the
client was told the truth, all of it or, by a completion, all but break-in (`ShownInv`).
`MaintenanceHeld` follows from `HeldInv`, from `ClientsInv` (the broker knows the session
until the actor has come to its unregistration, and a job only of who it knows) and from
`BoxInv`: what waits in `box` are releases and, of a session that is over, the
unregistration last, so that an empty one has been handled. `PartialShort` is why a partial command never waits for less than it has: its
length is final from the second byte on.

**Files.** `MigrationKeepsFiles`: `FilesInv` adds to `FilesSafe` what a migration has done
at each of its phases. While it writes the destination, the source is as the user left it
(`Untouched`); before it unlinks the source, the source's backup is what the user wrote
(`Secured`), unless he came between the copy and the rewriting (`raced`); and what is renamed
over a file is complete (`Complete`). `Kept` is what is left when a migration stops: the
source as written, or a source without the section and its backup as written. What
`Settings` are does not matter.

**Daemons.** `DaemonServesEndpoints`: what a running daemon has opened and what it has to
do make up the `Bringup` of settings that were accepted, and its sessions carry the ids
1 to n (`Serves`). `BringupTyped` takes from `ValidKeyer` that one endpoint of these is
primary at most, so that `Registers` refuses none. `InfoNamesDaemon` supposes nothing of what
the daemons are configured with: two that are up have their names published over each other,
or removed by one that had read its own. `crossed` notes whom that befell, and `Crossing` says
that whoever is up while another is about to remove the file is noted; so that a removal takes
the name of nobody else.

Assumptions: `FifoAssumption`, `SchedulerAssumption`, `StationAssumption`,
`LinkAssumption`, `NoCmdAssumption`, `CatAssumption`, `HamlibAssumption`,
`BridgeAssumption`, `KeyerAssumption` and `EndpointAssumption` say that tasks, sessions,
changes and the values that stand for "none" are distinct, and of which kind the constants
are; that of the keyer adds that its registers are finitely many and that one client is
primary at most, as `Config::validate` and the broker's own refusal of a second primary
have it; that of `Bridge` that the main VFO has the plain and the PKT form of USB and of each
mode there is, and that the radio always is on some frequency at some power. The proofs about `Setup` need none. TLC evaluates all of
them in the runs.

### Only model-checked

- All liveness (the provers do not handle fairness and `ENABLED` here).
- `CacheInv` and `WriteHolds`, on `RadioState`: between two recorders, two locks and two
  queues of frames an invariant would have to say, of every frame under way, which of the
  recorders will make what of it; it has not been written.

## Not modelled

- The virtual serial protocol (`src/crates/cathub-virtual-serial`) and its conformance
  runner: a versioned encoder and decoder of single frames for a private interface of a
  Windows driver, and a test tool for it. The daemon does not link them; they hold no
  state that interacts with anything.
- Generated gRPC types; logging; errors; printed formats, defaults and paths of the
  configuration; the loopback backend.
- Framing of bytes into lines and Kenwood frames, and the caps on their length.
- `next_interval`: polls come at any time. The values of the keyer's pot, firmware and
  echo bytes, and the typed event stream.
- Two migrations at once, a migration whose source is its destination, and a power
  failure between a write and its reaching the disk.

## Seen while modelling

The models have this behaviour, and the properties leave room for it by name: an
exception in a formula, a history variable, or an environment that does not do it. It is
listed for whoever reads a property and wonders why it does not say more.

Station:

- The lease can be freed over a keyed radio: the owner re-asserts TX while the watchdog
  awaits its RX, and is then released (`lib.rs` 504-526 says it is never freed so).
- "The key request never reached the radio" (`dialect/mod.rs` 130) need not be so: an
  error may come of a late answer.
- The daemon may exit with the radio keyed (the 500 ms timeout, or a client that keys
  during the shutdown), whereas `src/README.md` 9 has it leave the station unkeyed.
- A client that repeats its TX restarts `keyed_at` and is never cut off (`ptt.rs` 57). The
  watchdog's RX may end another session's transmission, when the owner it found expired
  has unkeyed meanwhile, and so may the RX of any capable session (`dialect/mod.rs` 135);
  and it waits behind a write of the owner that other sessions may
  keep from being served (the premise of `Backstop`).

Radio link and cache:

- A lines command that timed out shifts each later reply by one, until the transport is
  lost; `radio/mod.rs` 47-48 calls the next lines "unambiguously the reply". `OwnReply` states
  the exception. An error line completes a command early.
- With native push the supervisor itself holds a `RadioLink`, so that the channel never
  closes and the task never ends by itself. Nobody looks at the answer to the arming
  command: a radio that refuses it does not push until the next transport (`refused`).
- The worker may record a poll's or a write's older value after the transport task has
  recorded a newer push; it stays until the next whole poll (`overlaid`). Two recorders may
  broadcast in the other order than they changed the snapshot (`astray`;
  `state.rs` 214-219 speaks of the order the radio produced).
- A mode mutation names the VFO at the time it is handled, but `MD` reaches the VFO that is
  active when it is written; `MD` and `DA` from the radio are recorded for VFO A
  (`misnamed`).
- Split is written as `FR0;FT1;` or `FR0;FT0;` (`ts590.rs` 243, 245) and recorded as split
  alone (265): at a radio that receives on VFO B and does not push, the cache goes on saying
  B, and clients are shown and write B's frequency and mode, until the next poll (`moved`).
- `is_redundant` does not look at whether a mode was ever learnt. An RIT or XIT offset is
  recorded but not written; no session sets the receive VFO.

Endpoints:

- A transparent client is told by polls of nothing, and is resynchronised from a snapshot
  that may be behind. Changes of split and of PTT are not notified.
- Modeled reads of the Kenwood dialects do not ask for `read`. A Kenwood mode the hub does
  not know (`MD8;`) is written as USB and answered, whereas Hamlib's is refused.
- Over rigctld a poll takes a PKT mode for `Unknown` and learns nothing of the data flag
  (`backend/rigctld.rs` 192). `SetMode` clears the data mode at the radio and leaves it in
  the cache: with the flag on there, a client that sets PKTUSB over PKTLSB, or over the plain
  USB an operator chose, is told 0 and the radio is in plain USB, since the second of the two
  writes is redundant (`hamlib_net.rs` 443-453). `CommandHolds` excepts a flag that is taken
  for on (`DataAssumed`) and what is relied on after a poll that told nothing. An
  answer of an error to `m` is recorded as `Unknown`. When the operator works
  split during a poll, the poll may record the other VFO's data flag for VFO A, and no
  later poll corrects it: `BridgeFaithful` says of the mode that is received with what a
  poll tells of it, the base, and leaves the flag to what the cache has.
- The extended form of `q` answers nothing and closes nothing.

Keyer:

- An emergency stop during maintenance leaves the keyer out of host mode, and later jobs
  are lost in it (`strayed`).
- A job refused while the keyer is away takes the station lease (`actor.rs` 751), and the
  reconnect loop (578-596) never gives it back: until the keyer is connected again, or the
  PTT watchdog finds the lease expired, the radio's other clients are refused TX.
- A stale busy status makes the next job complete before it is keyed (`broker.rs` 495-502).
- A cancel by a primary without a job writes Clear Buffer into another client's
  maintenance (`actor.rs` 786; `src/docs/design/winkeyer-broker.md` has only the owner or
  the idle primary do so).
- The active client's disconnect writes no key-up (`broker.rs` 250), which the design names.
- Jobs that follow each other do not renew the keyer's lease: the PTT watchdog frees it
  while the keyer sends (`expired`).
- Maintenance is granted while the keyer transmits by hand or the paddles do
  (`actor.rs` 834-836 looks at the broker's jobs), though `winkeyer-broker.md` 95 has no
  transmission active then. `MaintenanceSilent` says what does hold: by the Clear and key-up
  written before it, nothing of a client is keyed in maintenance.
- Nothing bounds the wait for the firmware byte after maintenance. `MAX_JOB_BYTES` counts
  what a stream ever wrote, also what was keyed already, and refuses it as an unknown client.

Keyer endpoints:

- A refused stream ends the session for good: `lib.rs` 420-436 spawns it once
  (`endpoint.rs` 41-42 names two other ends).
- Echo bytes go to whoever is active when the event is read, not when it was sent. A status
  made for a cancel, a lag or a query is read off a snapshot that may not be published yet
  (`early`). A job that ends under break-in is told as 0xc0 (`endpoint.rs` 480), which says
  that the paddles are at rest, and no status corrects it until they are (`completed`).
  Events that came while the host was closed are read after it is opened.
- The end of a session and Host Close send what frees the keyer and do not wait for it
  (`actor.rs` 144-146, 244-246): for a moment a session that is over still has maintenance or
  jobs, and what it had streamed may yet be keyed (`box`).
- Admin commands 0x0f, 0x13, 0x16 and 0x19 are classed as maintenance and handled with
  `control`.
- A typed request that is dropped between the registration and its entry leaves an id
  registered that no name has.

Configuration:

- A second `--force` with a `.bak` present keeps nothing of the replaced destination
  (`lib.rs` 153 promises a copy); a torn `.bak` counts as one. `NothingLost` is about the
  source.
- A crash between `remove_file` and `rename` leaves no file at the path, only its backup.
- Two daemons whose settings have no port or device in common share one runtime info: the
  second replaces the first one's, which is then up and named by none. One that ends checks
  the name in the file before it removes it (`runtime_info.rs` 51-55), but another may publish
  between the two, and is not named either (`crossed`).
- A user who edits the source between its copy and its rewriting by a migration loses the
  edit (`raced`): nothing in `config.rs` looks again.
- Validation does not rule out two serial endpoints on one port; the second does not open
  and ends the start.

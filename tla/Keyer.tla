-------------------------------- MODULE Keyer --------------------------------
(***************************************************************************)
(* The WinKeyer broker: BrokerCore (winkeyer/broker.rs) and the actor that *)
(* owns the keyer's port and applies what the core decides                 *)
(* (winkeyer/actor.rs), the station lease it shares with the CAT sessions  *)
(* (ptt.rs) and the keyer itself (KeyerDevice).                            *)
(*                                                                         *)
(* The actor is one task: it takes one request, one byte of the keyer or   *)
(* one tick at a time, so that each is one action here.  Requests of       *)
(* different clients come in any order.  A handler hands the core's        *)
(* PhysicalActions to apply_actions, which may fail at any of the writes.  *)
(***************************************************************************)
EXTENDS KeyerDevice, Selection, SequencesExt

CONSTANTS
  Clients,      \* virtual endpoints and typed clients
  Primaries,    \* endpoints configured as primary
  Maintainers,  \* endpoints with the config_write permission
  Speeds,       \* SpeedMode: "pot" and fixed speeds
  NoClient,
  NoJob,
  MaxJobs,      \* jobs ever admitted: bounds the behaviour
  MaxQueue,     \* MAX_QUEUED_JOBS
  MaxSize,      \* MAX_JOB_BYTES, in pieces of text
  Events        \* what happens in the environment, see AllEvents

\* Failing transports, paddles, Key Immediate commands, CAT sessions that take
\* the lease, the PTT watchdog that frees it, emergency stops, the shutdown.
AllEvents == {"fault", "paddle", "key", "cat", "expiry", "stop", "shutdown"}

JobIds == 1 .. MaxJobs
\* The speed "own" is that of a stream that begins with Buffered Speed (0x1c).
Job == [id : JobIds, client : Clients, speed : Speeds \cup {"own"},
        stream : BOOLEAN, size : 1 .. MaxSize]
Running == [job : Job, sawBusy : BOOLEAN, observed : BOOLEAN]

ASSUME KeyerAssumption ==
  /\ Primaries \subseteq Clients /\ Maintainers \subseteq Clients
  /\ \A c, d \in Primaries : c = d  \* Config::validate
  /\ NoClient \notin Clients /\ NoJob \notin Running
  /\ IsFiniteSet(Regs)
  /\ "pot" \in Speeds /\ "own" \notin Speeds
  /\ MaxJobs \in Nat /\ MaxQueue \in Nat \ {0} /\ MaxSize \in Nat \ {0}
  /\ Events \subseteq AllEvents

VARIABLES
  clients,     \* BrokerCore.clients: the registered ids ...
  gone,        \* ids that were unregistered; an id is not used again
  desired,     \* ... their desired_speed ...
  profile,     \* ... and their profile
  applied,     \* applied_profile_client_id
  queue,       \* queue, oldest first
  active,      \* active, or NoJob
  nextJob,     \* next_job_id
  status,      \* status, as last observed
  link,        \* the actor: "up", "failed" (leaving the session loop), "down"
               \* (the reconnect loop) or "off"; connected in the first two
  maint,       \* maintenance_owner
  reopening,   \* maintenance_reopen_pending
  lease,       \* PttManager's owner: "nobody", "keyer" or "cat"
  dev,         \* the keyer
  told,        \* history: how often its clients were told a job's end
  untold,      \* history: jobs whose end was lost with the transport
  strayed,     \* history: an emergency stop left the keyer out of host mode
  expired      \* history: the PTT watchdog freed the keyer's lease

clientVars == <<clients, gone, desired, profile>>
coreVars  == <<clientVars, applied, queue, active, nextJob, status>>
ghostVars == <<told, untold, strayed, expired>>
vars == <<coreVars, link, maint, reopening, lease, dev, ghostVars>>

KeyerTypeOK ==
  /\ clients \subseteq Clients /\ gone \subseteq Clients
  /\ desired \in [Clients -> Speeds]
  /\ profile \in [Clients -> [Regs -> Vals \cup {Unset}]]
  /\ applied \in Clients \cup {NoClient}
  /\ queue \in Seq(Job) /\ Len(queue) <= MaxQueue
  /\ active \in Running \cup {NoJob}
  /\ nextJob \in 1 .. MaxJobs + 1
  /\ status \in Statuses
  /\ link \in {"up", "failed", "down", "off"}
  /\ maint \in Clients \cup {NoClient}
  /\ reopening \in BOOLEAN
  /\ lease \in {"nobody", "keyer", "cat"}
  /\ told \in [JobIds -> 0 .. 2]
  /\ untold \subseteq JobIds
  /\ strayed \in BOOLEAN /\ expired \in BOOLEAN

\* spawn_inner: the keyer answered Host Open and was initialised.
Initialised(d) ==
  [d EXCEPT !.open = TRUE, !.text = <<>>, !.key = FALSE, !.speed = "pot",
            !.said = "nothing", !.up = <<>>]

Init ==
  /\ clients = {} /\ gone = {}
  /\ desired = [c \in Clients |-> "pot"]
  /\ profile = [c \in Clients |-> [r \in Regs |-> Unset]]
  /\ applied = NoClient
  /\ queue = <<>>
  /\ active = NoJob
  /\ nextJob = 1
  /\ status = "idle"
  /\ link = "up"
  /\ maint = NoClient
  /\ reopening = FALSE
  /\ lease = "nobody"
  /\ dev = Initialised(FreshDevice)
  /\ told = [j \in JobIds |-> 0]
  /\ untold = {}
  /\ strayed = FALSE
  /\ expired = FALSE

------------------------------------------------------------------------------
(***************************************************************************)
(* apply_actions and the station lease                                     *)
(***************************************************************************)

Completed(j) == [do |-> "completed", job |-> j]
Canceled(j)  == [do |-> "canceled", job |-> j]
IsEvent(a) == a.do \in {"completed", "canceled"}
IsWrite(a) == ~IsEvent(a) /\ a # ByteRead

Cancels(jobs) == [i \in DOMAIN jobs |-> Canceled(jobs[i].id)]

Ends(acts) == {acts[i] : i \in {k \in DOMAIN acts : IsEvent(acts[k])}}

Tell(acts) ==
  told' = [j \in JobIds |->
             Min({2, told[j] + Cardinality({e \in Ends(acts) : e.job = j})})]

\* To the keyer an event means nothing.
Deliver(acts) == ObeyAll(dev, acts)

\* The actions are applied in order, up to n of them: the next cannot be written,
\* and the rest are dropped.
Applied(acts, n) ==
  /\ n < Len(acts) => "fault" \in Events /\ IsWrite(acts[n + 1])
  /\ Tell(SubSeq(acts, 1, n))
  /\ untold' = untold \cup {e.job : e \in Ends(SubSeq(acts, n + 1, Len(acts)))}

\* In the session loop a failed write ends the session.  In the reconnect loop
\* writes go to a sink.
Perform(acts) ==
  IF link # "up" THEN Tell(acts) /\ UNCHANGED <<link, dev, untold>>
  ELSE \E n \in 0 .. Len(acts) :
         /\ Applied(acts, n)
         /\ link' = IF n < Len(acts) THEN "failed" ELSE link
         /\ dev' = Deliver(SubSeq(acts, 1, n))

\* A release that looks at the status only.
SettledByStatus(owner) ==
  IF link = "up" /\ link' = "up" /\ status' = "idle" /\ owner = "keyer"
  THEN "nobody" ELSE owner

\* A release that only follows a job.
SettledAfterJob(owner) ==
  IF /\ link = "up" /\ link' = "up"
     /\ active # NoJob /\ active' = NoJob /\ status' = "idle"
     /\ owner = "keyer"
  THEN "nobody" ELSE owner

\* release_station_tx_if_idle at the end of a step of the session loop.
Settled(owner) ==
  IF /\ link = "up" /\ link' = "up"
     /\ active' = NoJob /\ status' = "idle"
     /\ owner = "keyer"
  THEN "nobody" ELSE owner

\* try_key does not answer Busy, and the keyer owns the lease.
Leased(owner) == IF owner = "nobody" THEN "keyer" ELSE owner

\* A step of the session loop that leaves the lease to Settled.
Release == lease' = Settled(lease)

------------------------------------------------------------------------------
(***************************************************************************)
(* BrokerCore: which job runs                                              *)
(***************************************************************************)

\* The writes that put client c's profile into the keyer.
Replay(c) ==
  LET regs == SetToSeq({r \in Regs : profile[c][r] # Unset})
  IN [i \in DOMAIN regs |-> SetReg(regs[i], profile[c][regs[i]])]

Foreground(registered) ==
  IF Primaries \cap registered = {} THEN NoClient
  ELSE CHOOSE c \in Primaries \cap registered : TRUE

\* A restore that forgets the speed.
RestoreProfileOnly(registered, seen, before) ==
  LET fg == Foreground(registered) IN
  /\ applied' = IF fg = NoClient THEN seen ELSE fg
  /\ Perform(before \o (IF fg \in {NoClient, seen} THEN <<>> ELSE Replay(fg)))

\* restore_foreground_speed; "seen" is the profile the broker believes to be
\* applied.
Restored(fg, seen) == IF fg = NoClient THEN seen ELSE fg

RestoreWrites(fg, seen) ==
  (IF fg \in {NoClient, seen} THEN <<>> ELSE Replay(fg))
  \o <<SetWpm(IF fg = NoClient THEN "pot" ELSE desired[fg])>>

\* The same after the actions "before".
RestoreForeground(registered, seen, before) ==
  LET fg == Foreground(registered) IN
  /\ applied' = Restored(fg, seen)
  /\ Perform(before \o RestoreWrites(fg, seen))

\* start_next_or_restore with a job to start.
Start(q, seen, before) ==
  LET job == Head(q) IN
  /\ queue' = Tail(q)
  /\ active' = [job |-> job, sawBusy |-> FALSE, observed |-> FALSE]
  /\ applied' = job.client
  /\ Perform(before
             \o (IF seen = job.client THEN <<>> ELSE Replay(job.client))
             \o (IF job.speed = "own" THEN <<>> ELSE <<SetWpm(job.speed)>>)
             \o <<Text(job.id, job.client), StatusRequest>>)

StartNextOrRestore(registered, q, seen, before) ==
  IF q # <<>> THEN Start(q, seen, before)
  ELSE /\ queue' = q
       /\ active' = NoJob
       /\ RestoreForeground(registered, seen, before)

\* complete_active, once status' is known.
Complete(before) ==
  StartNextOrRestore(clients, queue, applied,
                     before \o <<Completed(active.job.id)>>)

\* An emergency stop that tells the running job's client only.
EmergencyStopOfRunning ==
  /\ queue' = <<>>
  /\ active' = NoJob
  /\ RestoreForeground(clients, applied,
       <<Clear, KeyUp>> \o IF active = NoJob THEN <<>> ELSE Cancels(<<active.job>>))

\* The jobs admitted and not ended, in order of their start.
Pending == (IF active = NoJob THEN <<>> ELSE <<active.job>>) \o queue

\* emergency_stop: everything is cleared, the running job first.
EmergencyStop ==
  /\ queue' = <<>>
  /\ active' = NoJob
  /\ RestoreForeground(clients, applied, <<Clear, KeyUp>> \o Cancels(Pending))

Owns(c) == active # NoJob /\ active.job.client = c

JobsOf(c) == {job \in Job : job.client = c}

------------------------------------------------------------------------------
(***************************************************************************)
(* Requests that change what the broker knows of a client                  *)
(***************************************************************************)

\* The actor takes a request, in the session loop or in the reconnect loop.
Serving == link \in {"up", "down"}

\* Register, once for each endpoint or typed name; a second primary is refused.
Register(c) ==
  /\ Serving
  /\ c \notin clients \cup gone
  /\ c \in Primaries => Foreground(clients) = NoClient
  /\ clients' = clients \cup {c}
  /\ desired' = [desired EXCEPT ![c] = "pot"]
  /\ profile' = [profile EXCEPT ![c] = [r \in Regs |-> Unset]]
  /\ Perform(<<>>)
  /\ UNCHANGED <<gone, applied, queue, active, nextJob, status, maint, reopening,
                 strayed, expired>>
  /\ Release

\* An unregister that ends maintenance and forgets the keyer.
UnregisterClosed(c) ==
  /\ Serving /\ c \in clients /\ maint = c
  /\ clients' = clients \ {c}
  /\ gone' = gone \cup {c}
  /\ maint' = NoClient
  /\ Perform(<<>>)
  /\ UNCHANGED <<desired, profile, applied, queue, active, nextJob, status,
                 reopening, strayed, expired>>
  /\ Release

\* An endpoint session ended.
Unregister(c) ==
  LET seen == IF applied = c THEN NoClient ELSE applied
      held == maint = c
      before == (IF held THEN <<HostOpen>> ELSE <<>>)
                \o Cancels(Selection(queue, JobsOf(c)))
      left == Selection(queue, Job \ JobsOf(c))
  IN
  /\ Serving
  /\ c \in clients
  /\ clients' = clients \ {c}
  /\ gone' = gone \cup {c}
  /\ maint' = IF held THEN NoClient ELSE maint
  /\ reopening' = (reopening \/ held)
  /\ IF Owns(c)
     THEN StartNextOrRestore(clients', left, seen,
                             before \o <<Clear, Canceled(active.job.id)>>)
     ELSE /\ queue' = left
          /\ applied' = seen
          /\ UNCHANGED active
          /\ Perform(before)
  /\ UNCHANGED <<desired, profile, nextJob, status, strayed, expired>>
  /\ Release

\* Nobody else's maintenance is in the way.
Free(c) == ~reopening /\ maint \in {NoClient, c}

\* The idle primary's settings reach the keyer at once.
AtOnce(c) == active = NoJob /\ c \in Primaries

SetSpeed(c, s) ==
  /\ Serving /\ c \in clients /\ Free(c)
  /\ desired' = [desired EXCEPT ![c] = s]
  /\ Perform(IF AtOnce(c) THEN <<SetWpm(s)>> ELSE <<>>)
  /\ UNCHANGED <<clients, gone, profile, applied, queue, active, nextJob, status,
                 maint, reopening, strayed, expired>>
  /\ Release

\* A Configure that does not ask for the replay of what it could not apply.
ConfigureLazily(c, r, v) ==
  /\ Serving /\ c \in clients /\ Free(c)
  /\ profile' = [profile EXCEPT ![c][r] = v]
  /\ applied' = IF AtOnce(c) THEN c ELSE applied
  /\ Perform(IF AtOnce(c) THEN <<SetReg(r, v)>> ELSE <<>>)
  /\ UNCHANGED <<clients, gone, desired, queue, active, nextJob, status, maint,
                 reopening, strayed, expired>>
  /\ Release

\* Configure: set_client_command.
Configure(c, r, v) ==
  /\ Serving /\ c \in clients /\ Free(c)
  /\ profile' = [profile EXCEPT ![c][r] = v]
  /\ applied' = IF AtOnce(c) THEN c
                ELSE IF applied = c THEN NoClient ELSE applied
  /\ Perform(IF AtOnce(c) THEN <<SetReg(r, v)>> ELSE <<>>)
  /\ UNCHANGED <<clients, gone, desired, queue, active, nextJob, status, maint,
                 reopening, strayed, expired>>
  /\ Release

\* ActiveOwnerCommand, for the command that matters here: Key Immediate.
KeyImmediate(c, w) ==
  /\ "key" \in Events /\ w \in {KeyDown, KeyUp}
  /\ Serving /\ c \in clients
  /\ maint = NoClient /\ ~reopening
  /\ Owns(c) \/ AtOnce(c)
  /\ Perform(<<w>>)
  /\ UNCHANGED <<coreVars, maint, reopening, strayed, expired>>
  /\ Release

------------------------------------------------------------------------------
(***************************************************************************)
(* Jobs                                                                    *)
(***************************************************************************)

Room == Len(queue) < MaxQueue

\* A queue that favours the primary.
BehindUnlessPrimary(job) ==
  IF job.client \in Primaries THEN <<job>> \o queue ELSE Append(queue, job)

Behind(job) == Append(queue, job)

MayEnqueue(c) == c \in clients /\ maint = NoClient /\ ~reopening

OwnStream(job, c) == job.client = c /\ job.stream

\* A stream request that goes to the running job whoever owns it.
StreamOnAny(c) ==
  /\ link = "up" /\ MayEnqueue(c)
  /\ active # NoJob /\ active.job.stream /\ active.job.size < MaxSize
  /\ active' = [active EXCEPT !.job.size = @ + 1]
  /\ Perform(<<Text(active.job.id, c)>>)
  /\ UNCHANGED <<clientVars, applied, queue, nextJob, status,
                 maint, reopening, strayed, expired>>
  /\ Release

\* A stream request of the client whose stream runs: it goes on.  At MaxSize it
\* is refused and nothing changes.
StreamOn(c) ==
  /\ link = "up" /\ MayEnqueue(c)
  /\ active # NoJob /\ OwnStream(active.job, c) /\ active.job.size < MaxSize
  /\ active' = [active EXCEPT !.job.size = @ + 1]
  /\ Perform(<<Text(active.job.id, c)>>)
  /\ UNCHANGED <<clientVars, applied, queue, nextJob, status,
                 maint, reopening, strayed, expired>>
  /\ Release

\* Its stream is the last in the queue, and grows there; with a full queue only
\* behind a job of its own.
StreamQueued(c) ==
  /\ link = "up" /\ MayEnqueue(c)
  /\ ~(active # NoJob /\ OwnStream(active.job, c))
  /\ queue # <<>> /\ (Room \/ Owns(c))
  /\ OwnStream(Last(queue), c) /\ Last(queue).size < MaxSize
  /\ queue' = [queue EXCEPT ![Len(queue)].size = @ + 1]
  /\ Perform(<<>>)
  /\ UNCHANGED <<clientVars, applied, active, nextJob, status,
                 maint, reopening, strayed, expired>>
  /\ Release

\* The piece of a stream request that makes a job of its own.
NewStream(c) ==
  /\ ~(active # NoJob /\ OwnStream(active.job, c))
  /\ ~(queue # <<>> /\ OwnStream(Last(queue), c))

\* Enqueue: a new job.  Without one running, the station must be free and the
\* keyer idle; the job starts at once.
Enqueue(c, speed, stream) ==
  LET job == [id |-> nextJob, client |-> c, speed |-> speed,
              stream |-> stream, size |-> 1]
  IN
  /\ link = "up" /\ MayEnqueue(c)
  /\ stream => NewStream(c)
  /\ nextJob <= MaxJobs /\ Room
  /\ nextJob' = nextJob + 1
  /\ IF active = NoJob
     THEN /\ status = "idle" /\ lease # "cat"
          /\ StartNextOrRestore(clients, Behind(job), applied, <<>>)
     ELSE /\ queue' = Behind(job)
          /\ UNCHANGED <<active, applied>>
          /\ Perform(<<>>)
  /\ UNCHANGED <<clientVars, status, maint, reopening, strayed, expired>>
  /\ lease' = Settled(IF active = NoJob THEN Leased(lease) ELSE lease)

\* Enqueue in the reconnect loop: the lease is taken, then the job refused.
EnqueueUnconnected(c) ==
  /\ link = "down" /\ MayEnqueue(c)
  /\ active = NoJob /\ status = "idle" /\ lease # "cat"
  /\ lease' = Leased(lease)
  /\ UNCHANGED <<coreVars, link, maint, reopening, dev, ghostVars>>

\* Clear Buffer of an endpoint, or AbortClient: cancel_client with the running
\* job.  The idle primary may clear the keyer's FIFO.
Cancel(c) ==
  LET cancels == Cancels(Selection(queue, JobsOf(c)))
      left == Selection(queue, Job \ JobsOf(c))
  IN
  /\ Serving /\ c \in clients
  /\ IF Owns(c)
     THEN StartNextOrRestore(clients, left, applied,
            <<Clear>> \o cancels \o <<Canceled(active.job.id)>>)
     ELSE /\ queue' = left
          /\ UNCHANGED <<active, applied>>
          /\ Perform((IF AtOnce(c) THEN <<Clear>> ELSE <<>>) \o cancels)
  /\ UNCHANGED <<clientVars, nextJob, status, maint, reopening, strayed,
                 expired>>
  /\ Release

\* CancelJob: only a job of the client that asks.
CancelJob(c, j) ==
  LET named == {job \in JobsOf(c) : job.id = j} IN
  /\ Serving /\ c \in clients
  /\ IF active # NoJob /\ active.job \in named
     THEN StartNextOrRestore(clients, queue, applied, <<Clear, Canceled(j)>>)
     ELSE /\ queue' = Selection(queue, Job \ named)
          /\ UNCHANGED <<active, applied>>
          /\ Perform(Cancels(Selection(queue, named)))
  /\ UNCHANGED <<clientVars, nextJob, status, maint, reopening, strayed,
                 expired>>
  /\ Release

\* Any client's emergency stop; it also ends maintenance.
Stop ==
  /\ "stop" \in Events
  /\ Serving
  /\ maint' = NoClient
  /\ reopening' = FALSE
  /\ EmergencyStop
  /\ strayed' = (strayed \/ maint # NoClient \/ reopening)
  /\ UNCHANGED <<clientVars, nextJob, status, expired>>
  /\ Release

------------------------------------------------------------------------------
(***************************************************************************)
(* Maintenance                                                             *)
(***************************************************************************)

\* Maintenance while jobs wait.
MaintainAnyway(c) ==
  /\ link = "up"
  /\ c \in clients \cap Maintainers
  /\ maint \in {NoClient, c}
  /\ Len(dev.up) < MaxReports
  /\ maint' = c
  /\ Perform((IF maint = NoClient THEN <<Clear, KeyUp, HostClose>> ELSE <<>>)
             \o <<Admin>>)
  /\ UNCHANGED <<coreVars, reopening, strayed, expired>>
  /\ Release

\* Maintenance that leaves the key to whoever holds it down.
MaintainKeyed(c) ==
  /\ link = "up"
  /\ c \in clients \cap Maintainers
  /\ maint \in {NoClient, c}
  /\ active = NoJob /\ queue = <<>>
  /\ Len(dev.up) < MaxReports
  /\ maint' = c
  /\ Perform((IF maint = NoClient THEN <<Clear, HostClose>> ELSE <<>>) \o <<Admin>>)
  /\ UNCHANGED <<coreVars, reopening, strayed, expired>>
  /\ Release

\* MaintenanceCommand: the first of them takes the keyer out of host mode.
Maintain(c) ==
  /\ link = "up"
  /\ c \in clients \cap Maintainers
  /\ maint \in {NoClient, c}
  /\ active = NoJob /\ queue = <<>>
  /\ Len(dev.up) < MaxReports
  /\ maint' = c
  /\ Perform((IF maint = NoClient THEN <<Clear, KeyUp, HostClose>> ELSE <<>>)
             \o <<Admin>>)
  /\ UNCHANGED <<coreVars, reopening, strayed, expired>>
  /\ Release

ReleaseMaintenance(c) ==
  /\ link = "up" /\ maint = c
  /\ maint' = NoClient
  /\ reopening' = TRUE
  /\ Perform(<<HostOpen>>)
  /\ UNCHANGED <<coreVars, strayed, expired>>
  /\ Release

------------------------------------------------------------------------------
(***************************************************************************)
(* Bytes of the keyer and ticks.  A tick may stop or complete a job and     *)
(* then poll: two steps here, which follow each other.                     *)
(***************************************************************************)

NextByte == Head(dev.up)

Reading == link = "up" /\ dev.up # <<>>

\* After a Host Open of the actor, the first byte is the firmware revision,
\* whatever it is: the keyer is initialised and the foreground restored.
ReadFirmware ==
  /\ Reading /\ reopening
  /\ reopening' = FALSE
  /\ RestoreForeground(clients, NoClient,
                       <<ByteRead, Clear, KeyUp, SetWpm("pot"), StatusRequest>>)
  /\ strayed' = FALSE
  /\ UNCHANGED <<clientVars, queue, active, nextJob, status, maint, lease,
                 expired>>

\* During maintenance the owner gets every byte.
ReadMaintenance ==
  /\ Reading /\ ~reopening /\ maint # NoClient
  /\ Perform(<<ByteRead>>)
  /\ UNCHANGED <<coreVars, maint, reopening, lease, strayed, expired>>

InSession == Reading /\ ~reopening /\ maint = NoClient

ReadEcho ==
  /\ InSession /\ NextByte \notin Statuses
  /\ Perform(<<ByteRead>>)
  /\ UNCHANGED <<coreVars, maint, reopening, strayed, expired>>
  /\ Release

\* A transmission at the keyer that no job accounts for takes the lease, if no
\* CAT session has it.
Paddled(byte) ==
  IF byte # "idle" /\ active = NoJob THEN Leased(lease) ELSE lease

\* observe_status: the running job is complete with the first status that is
\* not busy after one that is.
ReadStatus ==
  /\ InSession /\ NextByte \in Statuses
  /\ status' = NextByte
  /\ IF active # NoJob /\ NextByte # "sending" /\ active.sawBusy
     THEN Complete(<<ByteRead>>)
     ELSE /\ active' = IF active = NoJob THEN NoJob
                       ELSE [active EXCEPT
                               !.observed = TRUE,
                               !.sawBusy = (@ \/ NextByte = "sending")]
          /\ UNCHANGED <<queue, applied>>
          /\ Perform(<<ByteRead>>)
  /\ UNCHANGED <<clientVars, nextJob, maint, reopening, strayed, expired>>
  /\ lease' = Settled(Paddled(NextByte))

\* A watchdog that spares a keyer at work.
WatchdogPatient ==
  /\ link = "up" /\ active # NoJob /\ status # "sending"
  /\ EmergencyStop
  /\ UNCHANGED <<clientVars, nextJob, status, maint, reopening, strayed, expired>>
  /\ Release

\* The running job has reached max_tx.
Watchdog ==
  /\ link = "up" /\ active # NoJob
  /\ EmergencyStop
  /\ UNCHANGED <<clientVars, nextJob, status, maint, reopening, strayed, expired>>
  /\ Release

\* confirm_idle_after_settle, for a job too short to be seen busy.  In the
\* 250 ms since the start every status of the keyer has arrived.
Settle ==
  /\ link = "up" /\ active # NoJob
  /\ active.observed /\ status # "sending"
  /\ dev.up = <<>> /\ dev.said = DeviceStatus(dev)
  /\ Complete(<<>>)
  /\ UNCHANGED <<clientVars, nextJob, status, maint, reopening, strayed, expired>>
  /\ Release

\* The status poll of a busy broker.
Poll ==
  /\ link = "up"
  /\ status = "sending" \/ active # NoJob
  /\ Perform(<<StatusRequest>>)
  /\ UNCHANGED <<coreVars, maint, reopening, strayed, expired>>
  /\ Release

\* A tick that finds nothing to do but to look at the lease.
Tick ==
  /\ link = "up"
  /\ UNCHANGED <<coreVars, link, maint, reopening, dev, ghostVars>>
  /\ Release

------------------------------------------------------------------------------
(***************************************************************************)
(* The transport, the shutdown and the environment                         *)
(***************************************************************************)

LinkLost ==
  /\ "fault" \in Events /\ link = "up"
  /\ link' = "failed"
  /\ UNCHANGED <<coreVars, maint, reopening, lease, dev, ghostVars>>

\* The end of the session loop: physical_error cancels all jobs.  The status is
\* kept.
SessionError ==
  /\ link = "failed" /\ link' = "down"
  /\ queue' = <<>> /\ active' = NoJob
  /\ applied' = NoClient
  /\ maint' = NoClient /\ reopening' = FALSE
  /\ Tell(Cancels(Pending))
  /\ lease' = IF lease = "keyer" THEN "nobody" ELSE lease
  /\ dev' = [dev EXCEPT !.up = <<>>]
  /\ UNCHANGED <<clientVars, nextJob, status, untold, strayed, expired>>

\* The reconnect loop succeeds: the keyer is initialised, the foreground restored.
Reconnect ==
  LET fg == Foreground(clients) IN
  /\ link = "down" /\ link' = "up"
  /\ applied' = Restored(fg, NoClient)
  /\ dev' = ObeyAll(Initialised(dev), RestoreWrites(fg, NoClient))
  /\ strayed' = FALSE
  /\ UNCHANGED <<clientVars, queue, active, nextJob, status, maint, reopening,
                 lease, told, untold, expired>>

\* It fails, before or after the keyer was initialised.
ReconnectFailed ==
  /\ link = "down"
  /\ applied' = NoClient
  /\ dev' \in {dev, Initialised(dev)}
  /\ UNCHANGED <<clientVars, queue, active, nextJob, status, link, maint,
                 reopening, lease, ghostVars>>

\* What the actor writes when it ends, whatever became of the writes before.
Farewell == <<Clear, KeyUp, HostClose>>

\* Shutdown: an emergency stop, and whether or not it could be written the
\* farewell, each as far as it gets; and the lease.
Shutdown ==
  LET fg   == Foreground(clients)
      stop == <<Clear, KeyUp>> \o Cancels(Pending) \o RestoreWrites(fg, applied)
  IN
  /\ "shutdown" \in Events /\ Serving
  /\ queue' = <<>> /\ active' = NoJob
  /\ applied' = Restored(fg, applied)
  /\ IF link # "up" THEN Tell(stop) /\ UNCHANGED <<dev, untold>>
     ELSE \E n \in 0 .. Len(stop), m \in 0 .. Len(Farewell) :
            /\ Applied(stop, n)
            /\ m < Len(Farewell) => "fault" \in Events
            /\ dev' = Deliver(SubSeq(stop, 1, n) \o SubSeq(Farewell, 1, m))
  /\ link' = "off"
  /\ lease' = IF lease = "keyer" THEN "nobody" ELSE lease
  /\ UNCHANGED <<clientVars, nextJob, status, maint, reopening, strayed, expired>>

DeviceStep(d) ==
  /\ dev' = d
  /\ UNCHANGED <<coreVars, link, maint, reopening, lease, ghostVars>>

\* Nothing leaves the keyer while the host side of its port is closed.
DeviceReport == link = "up" /\ MayReport(dev) /\ DeviceStep(Reported(dev))

DeviceKeys == dev.text # <<>> /\ DeviceStep(Keyed(dev))

Paddle == "paddle" \in Events /\ DeviceStep([dev EXCEPT !.paddle = ~@])

\* A CAT session takes or returns the station lease.
CatLease ==
  /\ "cat" \in Events
  /\ \/ lease = "nobody" /\ lease' = "cat"
     \/ lease = "cat" /\ lease' = "nobody"
  /\ UNCHANGED <<coreVars, link, maint, reopening, dev, ghostVars>>

\* The PTT watchdog (Station) found the keyer's lease beyond ptt_max_tx_ms.
LeaseExpiry ==
  /\ "expiry" \in Events
  /\ lease = "keyer" /\ lease' = "nobody"
  /\ expired' = TRUE
  /\ UNCHANGED <<coreVars, link, maint, reopening, dev, told, untold, strayed>>

ClientRequest(c) ==
  \/ Register(c) \/ Unregister(c)
  \/ \E s \in Speeds : SetSpeed(c, s)
  \/ \E r \in Regs, v \in Vals : Configure(c, r, v)
  \/ \E w \in {KeyDown, KeyUp} : KeyImmediate(c, w)
  \/ StreamOn(c) \/ StreamQueued(c)
  \/ \E s \in Speeds : Enqueue(c, s, FALSE)
  \/ \E s \in {desired[c], "own"} : Enqueue(c, s, TRUE)
  \/ EnqueueUnconnected(c)
  \/ Cancel(c)
  \/ \E j \in 1 .. nextJob - 1 : CancelJob(c, j)
  \/ Maintain(c) \/ ReleaseMaintenance(c)

Read == ReadFirmware \/ ReadMaintenance \/ ReadEcho \/ ReadStatus

Next ==
  \/ /\ link # "off"
     /\ \/ \E c \in Clients : ClientRequest(c)
        \/ Stop
        \/ Read
        \/ Watchdog \/ Settle \/ Poll \/ Tick
        \/ LinkLost \/ SessionError \/ Reconnect \/ ReconnectFailed
        \/ Shutdown
        \/ DeviceReport \/ DeviceKeys \/ Paddle
        \/ CatLease \/ LeaseExpiry
  \/ link = "off" /\ UNCHANGED vars

Spec == Init /\ [][Next]_vars

\* Ready tasks run, the keyer keys its text and reports, ticks come and max_tx
\* passes.  No reconnection is promised, nor that a client asks for anything.
Fairness ==
  /\ WF_vars(Read) /\ WF_vars(SessionError)
  /\ WF_vars(Poll) /\ WF_vars(Settle) /\ WF_vars(Watchdog)
  /\ WF_vars(Tick)
  /\ WF_vars(DeviceReport) /\ WF_vars(DeviceKeys)

FairSpec == Spec /\ Fairness

------------------------------------------------------------------------------
(***************************************************************************)
(* Properties                                                              *)
(***************************************************************************)

PendingIds == {Pending[i].id : i \in DOMAIN Pending}

\* Completed and Canceled (broker.rs:46-49): each job that was admitted waits,
\* runs, or has been told exactly one end; only a write that fails within the
\* cancel loses one.
JobsAccounted ==
  /\ PendingIds \cap untold = {}
  /\ \A j \in JobIds :
       /\ told[j] < 2
       /\ told[j] = 0 <=> j >= nextJob \/ j \in PendingIds \cup untold

\* "Jobs use one global arrival-order FIFO" (winkeyer-broker.md).
ArrivalOrder ==
  \A i, k \in DOMAIN Pending : i < k => Pending[i].id < Pending[k].id

\* "CatHub does not put client bytes or commands inside another job": in the
\* keyer's FIFO jobs follow each other, and a job's text is its client's.
NeverInterleaved ==
  \A i, k \in DOMAIN dev.text : i < k =>
    \/ dev.text[i].job < dev.text[k].job
    \/ dev.text[i] = dev.text[k]

\* "CAT PTT and WinKeyer transmit jobs acquire the same station lease": from
\* the start of the first job to the end of the last one the keyer has it,
\* unless the PTT watchdog took it.
LeaseSpansJobs ==
  active # NoJob /\ link = "up" /\ ~expired => lease = "keyer"

\* The keyer is as client c set it up.
InEffect(c) ==
  \A r \in Regs : profile[c][r] # Unset => dev.regs[r] = profile[c][r]

\* "It replays a profile only when client ownership changes": what the broker
\* takes for applied is in the keyer, and so is the idle primary's profile,
\* through every interleaving of jobs, settings, maintenance and reconnects.
ProfileInEffect ==
  link = "up" /\ maint = NoClient /\ ~reopening /\ ~strayed =>
    \A c \in clients :
      applied = c \/ (active = NoJob /\ c = Foreground(clients)) => InEffect(c)

\* "After the queue drains, it ... restores the fixed or pot-controlled speed":
\* each job has its speed, and the idle primary its own.
SpeedInEffect ==
  link = "up" /\ maint = NoClient /\ ~reopening /\ ~strayed =>
    /\ active # NoJob /\ active.job.speed # "own" =>
         dev.speed = active.job.speed
    /\ active = NoJob => \A c \in Primaries \cap clients : dev.speed = desired[c]

\* Maintenance waits for the jobs, and until it is over no job is admitted.  For a
\* transmission by hand it does not wait (the broker looks at its jobs alone).
MaintenanceWaits ==
  maint # NoClient \/ reopening => active = NoJob /\ queue = <<>>

\* "It clears the buffer and removes keying" before the keyer leaves host mode: a
\* keyer in maintenance, or not yet restored after it, keys nothing of any client's,
\* neither text nor a key held down by Key Immediate.  Only the operator's paddles
\* are beyond the broker.
MaintenanceSilent ==
  /\ MaintenanceWaits
  /\ link = "up" /\ (maint # NoClient \/ reopening) => dev.text = <<>> /\ ~dev.key

\* "After virtual Host Close or client loss, CatHub sends physical Host Open":
\* without a maintenance owner the keyer is in host mode.
HostMode == link = "up" /\ maint = NoClient /\ ~strayed => dev.open

\* Every job admitted ends.
EveryJobEnds ==
  \A j \in JobIds : j \in PendingIds ~> j \notin PendingIds

\* The lease comes back to the station once nobody keys by hand, maintenance
\* is over and the transport is not lost any more.
Undisturbed ==
  ~dev.key /\ ~dev.paddle /\ maint = NoClient /\ ~reopening /\ ~strayed /\ link = "up"

LeaseReturned ==
  <>[]Undisturbed => (lease = "keyer" ~> lease # "keyer")

\* Every job admitted is accounted for, with the types of all variables.
JobsKept == KeyerTypeOK /\ JobsAccounted

\* Jobs run in the order they arrived in and their texts do not mix, from the queue
\* to the keyer's own FIFO.
JobsInOrder == ArrivalOrder /\ NeverInterleaved

\* The keyer is set up for whoever keys it, or would key it next: registers and speed.
SettingsInEffect == ProfileInEffect /\ SpeedInEffect
==============================================================================

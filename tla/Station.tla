------------------------------- MODULE Station -------------------------------
(***************************************************************************)
(* The transmitter and everyone who may key it: the PTT lease (ptt.rs),    *)
(* the CAT client sessions (dialect/mod.rs, serial_endpoint.rs,            *)
(* hamlib_net.rs), the PTT watchdog and the orderly shutdown (lib.rs), the *)
(* poller (events.rs), the operation scheduler (SessionFifo) and the radio *)
(* as the backends leave it.                                               *)
(*                                                                         *)
(* Every task is sequential and gives way at its awaits: between a read of *)
(* the lease and the operation it leads to, and between an operation and   *)
(* what is done with its answer, every other task may run.                 *)
(***************************************************************************)
EXTENDS SessionFifo

CONSTANTS
  Clients,     \* sessions of CAT and Hamlib clients
  PttClients,  \* those whose endpoint has the ptt permission
  Watchdog,    \* the PTT watchdog task
  MainTask,    \* run(), which performs the orderly shutdown
  Poller,      \* the poller task, and POLLER_SESSION
  Nobody,      \* no session
  MaxTx,       \* ptt_max_tx_ms, in ticks of the clock
  OtherPrio,   \* priorities of the clients' other commands
  Outcomes     \* what can become of an operation, see Effect below

\* What an operation sent to the radio comes to: "done" (answered and obeyed),
\* "refused" (an error, not obeyed), "unanswered" (an error, yet obeyed: the
\* reply was late or lost) and "lost" (answered Ok, not obeyed: a Kenwood set
\* is written and never acknowledged).
AllOutcomes == {"done", "refused", "unanswered", "lost"}

ASSUME StationAssumption ==
  /\ PttClients \subseteq Clients
  /\ Nobody \notin Clients
  /\ {Watchdog, MainTask, Poller} \cap Clients = {}
  /\ Watchdog # MainTask /\ Watchdog # Poller /\ MainTask # Poller
  /\ SessionIds = Clients \cup {Poller}
  /\ Actors = Clients \cup {Watchdog, MainTask, Poller}
  /\ Kinds = {"tx", "rx", "other", "poll"}
  /\ MaxTx \in Nat \ {0}
  /\ OtherPrio \subseteq {Write, Read}
  /\ Outcomes \subseteq AllOutcomes

VARIABLES
  owner,       \* PttManager: Inner.owner
  age,         \* PttManager: ticks since Inner.keyed_at, up to MaxTx
  phase,       \* per client, where its session task stands
  keyedBy,     \* the radio: the session whose TX keyed it, or Nobody
  wdPhase,     \* where the watchdog stands ...
  wdTarget,    \* ... and the owner it found expired
  mainPhase,   \* where run() stands ...
  mainTarget,  \* ... and the owner it found at shutdown
  unsure,      \* history: clients whose lease no longer tells of the radio
  lateKey      \* history: a lease was acquired after shutdown began

leaseVars  == <<owner, age>>
wdVars     == <<wdPhase, wdTarget>>
mainVars   == <<mainPhase, mainTarget>>
ghostVars  == <<unsure, lateKey>>
vars == <<fifoVars, leaseVars, phase, keyedBy, wdVars, mainVars, ghostVars>>

Phase == {"idle", "keyHold", "keyWait", "unkeyWait", "otherWait",
          "closing", "closeWait", "closed"}

StationTypeOK ==
  /\ FifoTypeOK
  /\ owner \in PttClients \cup {Nobody}
  /\ age \in 0 .. MaxTx
  /\ phase \in [Clients -> Phase]
  /\ keyedBy \in PttClients \cup {Nobody}
  /\ wdPhase \in {"sleep", "expired", "rxWait"}
  /\ wdTarget \in PttClients \cup {Nobody}
  /\ mainPhase \in {"running", "stopping", "rxWait", "exited"}
  /\ mainTarget \in PttClients \cup {Nobody}
  /\ unsure \subseteq PttClients
  /\ lateKey \in BOOLEAN

Init ==
  /\ FifoInit
  /\ owner = Nobody
  /\ age = 0
  /\ phase = [c \in Clients |-> "idle"]
  /\ keyedBy = Nobody
  /\ wdPhase = "sleep" /\ wdTarget = Nobody
  /\ mainPhase = "running" /\ mainTarget = Nobody
  /\ unsure = {}
  /\ lateKey = FALSE

------------------------------------------------------------------------------
(***************************************************************************)
(* PttManager                                                              *)
(***************************************************************************)

\* A try_key that forgets the Busy check.
TryKeyBusyToo(c) ==
  /\ owner' = c
  /\ age' = 0

\* try_key: free, or held by the same session, whose clock restarts.
TryKey(c) ==
  /\ owner \in {Nobody, c}
  /\ owner' = c
  /\ age' = 0

\* An unkey that releases whoever holds the lease.
UnkeyAnyone(c) ==
  /\ owner' = Nobody
  /\ age' = 0

\* unkey: only the owner releases.
Unkey(c) ==
  /\ owner' = IF owner = c THEN Nobody ELSE owner
  /\ age' = IF owner = c THEN 0 ELSE age

\* expired_owner() is Some(owner).
Expired == owner # Nobody /\ age >= MaxTx

Op(session, actor, prio, kind) ==
  [session |-> session, from |-> actor, prio |-> prio, kind |-> kind]

Unkeying(session, actor) == Op(session, actor, Ptt, "rx")

\* A task that will release session c's lease has read it and not yet done so.
Releasing(c) ==
  \/ wdPhase # "sleep" /\ wdTarget = c
  \/ mainPhase \in {"stopping", "rxWait"} /\ mainTarget = c

------------------------------------------------------------------------------
(***************************************************************************)
(* Client sessions: apply_modeled and release_ptt_on_disconnect            *)
(***************************************************************************)

MoveClient(c, from, to) ==
  /\ phase[c] = from
  /\ phase' = [phase EXCEPT ![c] = to]

\* A TX request whose endpoint's ptt permission nobody checked.
KeyAcquireUnchecked(c) ==
  /\ MoveClient(c, "idle", "keyHold")
  /\ TryKey(c)
  /\ UNCHANGED <<fifoVars, keyedBy, wdVars, mainVars, ghostVars>>

\* A TX request from a capable endpoint: try_key succeeds.  A refused request
\* (NotPermitted or Busy) changes nothing.
KeyAcquire(c) ==
  /\ c \in PttClients
  /\ MoveClient(c, "idle", "keyHold")
  /\ TryKey(c)
  /\ unsure' = IF Releasing(c) THEN unsure \cup {c} ELSE unsure \ {c}
  /\ lateKey' = (lateKey \/ mainPhase # "running")
  /\ UNCHANGED <<fifoVars, keyedBy, wdVars, mainVars>>

KeySubmit(c) ==
  /\ MoveClient(c, "keyHold", "keyWait")
  /\ Submit(Op(c, c, Ptt, "tx"))
  /\ UNCHANGED <<leaseVars, keyedBy, wdVars, mainVars, ghostVars>>

KeyDone(c) ==
  /\ MoveClient(c, "keyWait", "idle")
  /\ await[c] = "ok"
  /\ Resume(c)
  /\ UNCHANGED <<leaseVars, keyedBy, wdVars, mainVars, ghostVars>>

\* The submit failed: the session gives its lease back.
KeyFailed(c) ==
  /\ MoveClient(c, "keyWait", "idle")
  /\ await[c] = "err"
  /\ Resume(c)
  /\ Unkey(c)
  /\ UNCHANGED <<keyedBy, wdVars, mainVars, ghostVars>>

\* An RX request: any capable session may send one, owner or not.
UnkeySubmit(c) ==
  /\ c \in PttClients
  /\ MoveClient(c, "idle", "unkeyWait")
  /\ Submit(Unkeying(c, c))
  /\ UNCHANGED <<leaseVars, keyedBy, wdVars, mainVars, ghostVars>>

\* Answered, well or badly: the lease is released if the session has it.
UnkeyDone(c) ==
  /\ MoveClient(c, "unkeyWait", "idle")
  /\ Resume(c)
  /\ Unkey(c)
  /\ UNCHANGED <<keyedBy, wdVars, mainVars, ghostVars>>

\* Any other modeled write, or a passthrough command.
OtherSubmit(c) ==
  /\ MoveClient(c, "idle", "otherWait")
  /\ \E p \in OtherPrio : Submit(Op(c, c, p, "other"))
  /\ UNCHANGED <<leaseVars, keyedBy, wdVars, mainVars, ghostVars>>

OtherDone(c) ==
  /\ MoveClient(c, "otherWait", "idle")
  /\ Resume(c)
  /\ UNCHANGED <<leaseVars, keyedBy, wdVars, mainVars, ghostVars>>

\* A session that ends without looking at the lease.
DisconnectSilently(c) ==
  /\ MoveClient(c, "idle", "closed")
  /\ UNCHANGED <<fifoVars, leaseVars, keyedBy, wdVars, mainVars, ghostVars>>

\* The transport closed between two requests: the session checks the lease.
Disconnect(c) ==
  /\ MoveClient(c, "idle", IF owner = c THEN "closing" ELSE "closed")
  /\ UNCHANGED <<fifoVars, leaseVars, keyedBy, wdVars, mainVars, ghostVars>>

DisconnectSubmit(c) ==
  /\ MoveClient(c, "closing", "closeWait")
  /\ Submit(Unkeying(c, c))
  /\ UNCHANGED <<leaseVars, keyedBy, wdVars, mainVars, ghostVars>>

DisconnectDone(c) ==
  /\ MoveClient(c, "closeWait", "closed")
  /\ Resume(c)
  /\ Unkey(c)
  /\ UNCHANGED <<keyedBy, wdVars, mainVars, ghostVars>>

ClientStep(c) ==
  \/ KeyAcquire(c) \/ KeySubmit(c) \/ KeyDone(c) \/ KeyFailed(c)
  \/ UnkeySubmit(c) \/ UnkeyDone(c)
  \/ OtherSubmit(c) \/ OtherDone(c)
  \/ Disconnect(c) \/ DisconnectSubmit(c) \/ DisconnectDone(c)

------------------------------------------------------------------------------
(***************************************************************************)
(* The PTT watchdog and the poller                                         *)
(***************************************************************************)

\* An expired_owner() that frees the lease and leaves the radio as it is.
WatchdogFreeOnly ==
  /\ wdPhase = "sleep" /\ Expired
  /\ Unkey(owner)
  /\ UNCHANGED <<fifoVars, phase, keyedBy, wdVars, mainVars, ghostVars>>

\* The 500 ms sleep ended and expired_owner() named a session.
WatchdogExpire ==
  /\ wdPhase = "sleep" /\ wdPhase' = "expired"
  /\ Expired
  /\ wdTarget' = owner
  /\ UNCHANGED <<fifoVars, leaseVars, phase, keyedBy, mainVars, ghostVars>>

WatchdogSubmit ==
  /\ wdPhase = "expired" /\ wdPhase' = "rxWait"
  /\ Submit(Unkeying(wdTarget, Watchdog))
  /\ UNCHANGED <<leaseVars, phase, keyedBy, wdTarget, mainVars, ghostVars>>

WatchdogRelease ==
  /\ wdPhase = "rxWait" /\ wdPhase' = "sleep"
  /\ Resume(Watchdog)
  /\ Unkey(wdTarget)
  /\ UNCHANGED <<phase, keyedBy, wdTarget, mainVars, ghostVars>>

WatchdogStep == WatchdogExpire \/ WatchdogSubmit \/ WatchdogRelease

PollSubmit ==
  /\ Submit(Op(Poller, Poller, Poll, "poll"))
  /\ UNCHANGED <<leaseVars, phase, keyedBy, wdVars, mainVars, ghostVars>>

PollDone ==
  /\ Resume(Poller)
  /\ UNCHANGED <<leaseVars, phase, keyedBy, wdVars, mainVars, ghostVars>>

------------------------------------------------------------------------------
(***************************************************************************)
(* Orderly shutdown at the end of run()                                    *)
(***************************************************************************)

\* A run() that returns without looking at the lease.
ShutdownSilently ==
  /\ mainPhase = "running" /\ mainPhase' = "exited"
  /\ UNCHANGED <<fifoVars, leaseVars, phase, keyedBy, wdVars, mainTarget,
                 ghostVars>>

\* Ctrl+C arrived and the keyer is shut down; run() reads the owner and, with
\* none, returns.
Shutdown ==
  /\ mainPhase = "running"
  /\ mainPhase' = IF owner = Nobody THEN "exited" ELSE "stopping"
  /\ mainTarget' = owner
  /\ UNCHANGED <<fifoVars, leaseVars, phase, keyedBy, wdVars, ghostVars>>

\* A TX request of the owner may be between try_key and submit just now.
ShutdownSubmit ==
  /\ mainPhase = "stopping" /\ mainPhase' = "rxWait"
  /\ Submit(Unkeying(mainTarget, MainTask))
  /\ unsure' = IF phase[mainTarget] = "keyHold"
               THEN unsure \cup {mainTarget} ELSE unsure
  /\ UNCHANGED <<leaseVars, phase, keyedBy, wdVars, mainTarget, lateKey>>

ShutdownDone ==
  /\ mainPhase = "rxWait" /\ mainPhase' = "exited"
  /\ Resume(MainTask)
  /\ Unkey(mainTarget)
  /\ UNCHANGED <<phase, keyedBy, wdVars, mainTarget, ghostVars>>

\* The 500 ms timeout: the answer is no longer awaited.
ShutdownTimeout ==
  /\ mainPhase = "rxWait" /\ mainPhase' = "exited"
  /\ await[MainTask] = "waiting"
  /\ Unkey(mainTarget)
  /\ UNCHANGED <<fifoVars, phase, keyedBy, wdVars, mainTarget, ghostVars>>

MainStep == Shutdown \/ ShutdownSubmit \/ ShutdownDone \/ ShutdownTimeout

------------------------------------------------------------------------------
(***************************************************************************)
(* The scheduler task and the radio                                        *)
(***************************************************************************)

StartNext ==
  /\ \E s \in SessionIds : Start(s)
  /\ UNCHANGED <<leaseVars, phase, keyedBy, wdVars, mainVars, ghostVars>>

\* The radio after it has, or has not, obeyed the running operation.
Effect(outcome) ==
  IF outcome \notin {"done", "unanswered"} THEN keyedBy
  ELSE CASE running.kind = "tx" -> running.session
         [] running.kind = "rx" -> Nobody
         [] OTHER -> keyedBy

\* backend.apply / poll / passthrough returns.  The history: a session is
\* unsure when its TX failed and the radio is keyed all the same, and when an
\* RX in its name left it keyed.
Execute(outcome) ==
  /\ Answer(IF outcome \in {"done", "lost"} THEN "ok" ELSE "err")
  /\ keyedBy' = Effect(outcome)
  /\ unsure' =
       IF /\ keyedBy' = running.session
          /\ \/ running.kind = "rx"
             \/ running.kind = "tx" /\ outcome \notin {"done", "lost"}
       THEN unsure \cup {running.session} ELSE unsure
  /\ UNCHANGED <<leaseVars, phase, wdVars, mainVars, lateKey>>

\* Time passes; a task between try_key and submit takes none of it.
Tick ==
  /\ owner # Nobody /\ age < MaxTx
  /\ \A c \in Clients : phase[c] # "keyHold"
  /\ age' = age + 1
  /\ UNCHANGED <<fifoVars, owner, phase, keyedBy, wdVars, mainVars, ghostVars>>

\* run() has returned: the runtime and all its tasks are gone.
Exited ==
  /\ mainPhase = "exited"
  /\ UNCHANGED vars

Next ==
  \/ /\ mainPhase # "exited"
     /\ \/ \E c \in Clients : ClientStep(c)
        \/ WatchdogStep
        \/ PollSubmit \/ PollDone
        \/ MainStep
        \/ StartNext
        \/ \E o \in Outcomes : Execute(o)
        \/ Tick
  \/ Exited

Spec == Init /\ [][Next]_vars

\* Tasks that hold an answer or owe a submit run on; the backend answers or
\* times out (REPLY_TIMEOUT), and so does a shutdown that began; the watchdog's
\* sleep ends; the clock runs.  No client is obliged to make a request, to
\* unkey or to close, and nobody to stop the daemon.
ClientResume(c) ==
  \/ KeySubmit(c) \/ KeyDone(c) \/ KeyFailed(c) \/ UnkeyDone(c)
  \/ OtherDone(c) \/ DisconnectSubmit(c) \/ DisconnectDone(c)

Alive(A) == mainPhase # "exited" /\ A

Fairness ==
  /\ \A c \in Clients : WF_vars(Alive(ClientResume(c)))
  /\ WF_vars(Alive(WatchdogStep))
  /\ WF_vars(Alive(PollDone))
  /\ WF_vars(Alive(ShutdownSubmit \/ ShutdownDone \/ ShutdownTimeout))
  /\ WF_vars(Alive(StartNext))
  /\ WF_vars(Alive(\E o \in Outcomes : Execute(o)))
  /\ WF_vars(Alive(Tick))

FairSpec == Spec /\ Fairness

------------------------------------------------------------------------------
(***************************************************************************)
(* Properties                                                              *)
(***************************************************************************)

\* Session c transmits, or has a key request that may still reach the radio.
Claim(c) ==
  \/ keyedBy = c
  \/ phase[c] = "keyHold"
  \/ phase[c] = "keyWait" /\ await[c] = "waiting"

\* "The lease is never freed while the radio is still keyed" (lib.rs:504-506),
\* as far as the code keeps it: a session that transmits, or is about to, has
\* the lease, unless an operation in its name failed or its request crossed
\* with a release the watchdog or the shutdown had begun.
LeaseCoversKey ==
  mainPhase # "exited" =>
    \A c \in PttClients : Claim(c) /\ c \notin unsure => owner = c

\* Contention for the transmitter is safe (ptt.rs:1-2): a session's TX never
\* lands on top of another session's transmission, except after the same
\* failures and crossings.
NoTakeover ==
  [][\A c, d \in PttClients :
       keyedBy = c /\ keyedBy' = d /\ c # d => {c, d} \cap unsure # {}]_vars

\* release_ptt_on_disconnect: a session that is gone holds no lease, and the
\* radio is not keyed on its behalf unless its release failed or crossed.
DisconnectDropsTx ==
  mainPhase # "exited" =>
    \A c \in PttClients : phase[c] = "closed" =>
      /\ owner # c
      /\ keyedBy = c => c \in unsure

\* The orderly stop of run(): with its RX answered in time and no lease
\* acquired since it began, the radio is left unkeyed.
CleanExit ==
  mainPhase = "exited" /\ await[MainTask] # "waiting" /\ ~lateKey =>
    keyedBy \in unsure \cup {Nobody}

\* "The ceiling is a real stuck-transmitter backstop" (lib.rs:504-505): a
\* transmission ends unless its session asks for TX again, which restarts the
\* ceiling, or an operation in its name failed or crossed.
StuckTxReleased(c) ==
  keyedBy = c ~> \/ keyedBy # c
                 \/ phase[c] = "keyHold"
                 \/ c \in unsure
                 \/ mainPhase = "exited"

\* The watchdog's RX waits in the owner's own queue, behind a write of the
\* owner that other sessions can keep from being served; the backstop holds
\* when the other sessions cease to send ordinary commands.
Backstop ==
  \A c \in PttClients :
    (\A d \in Clients \ {c} : <>[](phase[d] # "otherWait")) => StuckTxReleased(c)
==============================================================================

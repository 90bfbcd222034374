----------------------------- MODULE SessionFifo -----------------------------
(***************************************************************************)
(* What the operation scheduler of crates/cathub/src/radio/mod.rs promises *)
(* the tasks that call RadioHandle::submit: operations of one session run  *)
(* in the order they were submitted, one operation runs at a time, the     *)
(* operation that starts has the best priority among the oldest operations *)
(* of all sessions, and its submitter gets one answer.                     *)
(*                                                                         *)
(* Scheduler.tla implements this specification with the channel and the    *)
(* per-session queues of the code; Station.tla composes it with the tasks  *)
(* that submit operations.                                                 *)
(***************************************************************************)
EXTENDS Naturals, Sequences

CONSTANTS
  SessionIds,  \* session ids an operation can be tagged with
  Actors,      \* tasks that submit operations, each awaiting one at a time
  Kinds,       \* kinds of operation
  NoOp         \* no operation is executing

\* Priority of radio/mod.rs, in the order its derive(Ord) gives: 0 is best.
Ptt   == 0
Write == 1
Read  == 2
Poll  == 3
Priority == Ptt .. Poll

Operation ==
  [session: SessionIds, from: Actors, prio: Priority, kind: Kinds]

Result     == {"ok", "err"}
SubmitCall == {"idle", "waiting"} \cup Result

ASSUME FifoAssumption == NoOp \notin Operation

VARIABLES
  pending,  \* per session, the operations submitted and not yet started
  running,  \* the operation the backend executes, or NoOp
  await     \* per actor, where its submit(..).await stands

fifoVars == <<pending, running, await>>

FifoTypeOK ==
  /\ pending \in [SessionIds -> Seq(Operation)]
  /\ running \in Operation \cup {NoOp}
  /\ await \in [Actors -> SubmitCall]

FifoInit ==
  /\ pending = [s \in SessionIds |-> <<>>]
  /\ running = NoOp
  /\ await = [a \in Actors |-> "idle"]

\* RadioHandle::submit up to its await.  A full channel makes senders wait in
\* arrival order, so its capacity does not show in the order of operations.
Submit(op) ==
  /\ await[op.from] = "idle"
  /\ await' = [await EXCEPT ![op.from] = "waiting"]
  /\ pending' = [pending EXCEPT ![op.session] = Append(@, op)]
  /\ UNCHANGED running

\* A pop_front() that leaves the operation in its queue.
StartKeeping(s) ==
  /\ running = NoOp
  /\ pending[s] # <<>>
  /\ \A t \in SessionIds :
        pending[t] # <<>> => Head(pending[s]).prio <= Head(pending[t]).prio
  /\ running' = Head(pending[s])
  /\ UNCHANGED <<pending, await>>

\* The scheduler takes the oldest operation of session s: no other session's
\* oldest operation has a better priority.
Start(s) ==
  /\ running = NoOp
  /\ pending[s] # <<>>
  /\ \A t \in SessionIds :
        pending[t] # <<>> => Head(pending[s]).prio <= Head(pending[t]).prio
  /\ running' = Head(pending[s])
  /\ pending' = [pending EXCEPT ![s] = Tail(@)]
  /\ UNCHANGED await

\* execute(..) returned: the answer goes to the submitter if it still waits.
Answer(result) ==
  /\ running # NoOp
  /\ running' = NoOp
  /\ await' = [await EXCEPT ![running.from] =
                 IF @ = "waiting" THEN result ELSE @]
  /\ UNCHANGED pending

\* The submitter resumes with its answer.
Resume(a) ==
  /\ await[a] \in Result
  /\ await' = [await EXCEPT ![a] = "idle"]
  /\ UNCHANGED <<pending, running>>

FifoNext ==
  \/ \E op \in Operation : Submit(op)
  \/ \E s \in SessionIds : Start(s)
  \/ \E r \in Result : Answer(r)
  \/ \E a \in Actors : Resume(a)

FifoSpec == FifoInit /\ [][FifoNext]_fifoVars

------------------------------------------------------------------------------
(***************************************************************************)
(* Properties                                                              *)
(***************************************************************************)

\* A backlog holds the operations of its own session.
SessionTagged ==
  \A s \in SessionIds : \A i \in 1 .. Len(pending[s]) :
    pending[s][i].session = s

\* Whoever submitted an operation that is not answered yet waits for it.
AwaitedInFlight ==
  /\ \A s \in SessionIds : \A i \in 1 .. Len(pending[s]) :
       await[pending[s][i].from] = "waiting"
  /\ running # NoOp => await[running.from] = "waiting"

\* No actor has two operations in flight, and so no answer is for another.
OnePerActor ==
  /\ \A s, t \in SessionIds :
       \A i \in 1 .. Len(pending[s]), j \in 1 .. Len(pending[t]) :
         pending[s][i].from = pending[t][j].from => s = t /\ i = j
  /\ running # NoOp =>
       \A s \in SessionIds : \A i \in 1 .. Len(pending[s]) :
         pending[s][i].from # running.from

\* The operation actor a awaits is queued or executing.
InFlight(a) ==
  \/ running # NoOp /\ running.from = a
  \/ \E s \in SessionIds : \E i \in 1 .. Len(pending[s]) :
       pending[s][i].from = a

NoneLost == \A a \in Actors : await[a] = "waiting" => InFlight(a)

\* RadioHandle::submit returns once and with the answer to its own operation:
\* an actor waits exactly when one operation of its own is in flight.
ExactlyOneInFlight ==
  SessionTagged /\ AwaitedInFlight /\ OnePerActor /\ NoneLost
==============================================================================

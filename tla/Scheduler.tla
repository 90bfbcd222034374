------------------------------ MODULE Scheduler ------------------------------
(***************************************************************************)
(* The operation scheduler of crates/cathub/src/radio/mod.rs (434-548):    *)
(* RadioHandle::submit puts an operation in an mpsc channel; the scheduler *)
(* task moves the channel into per-session queues, picks the               *)
(* best-priority head, awaits the backend and answers the submitter.       *)
(* SessionFifo is what it promises; Fifo!FifoSpec is checked as a          *)
(* refinement.                                                             *)
(***************************************************************************)
EXTENDS Selection, SequencesExt

CONSTANTS
  SessionIds, Actors, Kinds, NoOp,
  ChannelCap,  \* capacity of the mpsc channel, 128 in the code
  Requests,    \* the operations the actors submit
  MaxSubmits   \* bound: submits in one behaviour

VARIABLES
  channel,  \* the mpsc channel, oldest first
  queues,   \* session id -> its VecDeque of operations
  order,    \* session ids in the order their queue entered the Vec
  running,  \* the operation execute(..) awaits, or NoOp
  await,    \* per actor, where its submit(..).await stands
  submits   \* submits so far

vars == <<channel, queues, order, running, await, submits>>

\* The abstract backlog of a session: its queue, then what the channel still
\* holds for it.
Of(s) == {op \in Requests : op.session = s}
Backlog(s) == queues[s] \o Selection(channel, Of(s))

Fifo == INSTANCE SessionFifo WITH
          pending <- [s \in SessionIds |-> Backlog(s)]

ASSUME SchedulerAssumption ==
  /\ ChannelCap \in Nat \ {0}
  /\ MaxSubmits \in Nat
  /\ Requests \subseteq Fifo!Operation /\ NoOp \notin Fifo!Operation

Init ==
  /\ channel = <<>>
  /\ queues = [s \in SessionIds |-> <<>>]
  /\ order = <<>>
  /\ running = NoOp
  /\ await = [a \in Actors |-> "idle"]
  /\ submits = 0

\* RadioHandle::submit: send into the channel when it has room, then await.
SubmitOp(op) ==
  /\ submits < MaxSubmits
  /\ await[op.from] = "idle"
  /\ Len(channel) < ChannelCap
  /\ channel' = Append(channel, op)
  /\ await' = [await EXCEPT ![op.from] = "waiting"]
  /\ submits' = submits + 1
  /\ UNCHANGED <<queues, order, running>>

\* An enqueue() that lists its session anew each time.
EnqueueListed(op) ==
  /\ queues' = [queues EXCEPT ![op.session] = Append(@, op)]
  /\ order' = Append(order, op.session)

\* enqueue(): append to the session's queue, which joins the Vec the first
\* time the session is seen and is never removed from it.
Enqueue(op) ==
  /\ queues' = [queues EXCEPT ![op.session] = Append(@, op)]
  /\ order' = IF Contains(order, op.session) THEN order
              ELSE Append(order, op.session)

\* One recv() or try_recv() of the scheduler task between two operations.
Drain ==
  /\ running = NoOp
  /\ channel # <<>>
  /\ Enqueue(Head(channel))
  /\ channel' = Tail(channel)
  /\ UNCHANGED <<running, await, submits>>

\* A select_next() that takes the first queue and ignores priorities.
BestFirst(i) ==
  /\ queues[order[i]] # <<>>
  /\ \A j \in DOMAIN order : j < i => queues[order[j]] = <<>>

\* A select_next() without best.is_none(): a poll is never below Priority::Poll.
BestBelowPoll(i) ==
  /\ queues[order[i]] # <<>>
  /\ Head(queues[order[i]]).prio < Fifo!Poll
  /\ \A j \in DOMAIN order \ {i} :
        queues[order[j]] # <<>> =>
          LET mine == Head(queues[order[i]]).prio
              other == Head(queues[order[j]]).prio
          IN  mine < other \/ (mine = other /\ i < j)

\* select_next(): the strict < over the Vec keeps the first of the best heads.
Best(i) ==
  /\ queues[order[i]] # <<>>
  /\ \A j \in DOMAIN order \ {i} :
        queues[order[j]] # <<>> =>
          LET mine == Head(queues[order[i]]).prio
              other == Head(queues[order[j]]).prio
          IN  mine < other \/ (mine = other /\ i < j)

\* try_recv() found the channel empty: select and start an operation.
Select ==
  /\ running = NoOp
  /\ channel = <<>>
  /\ \E i \in DOMAIN order :
        /\ Best(i)
        /\ running' = Head(queues[order[i]])
        /\ queues' = [queues EXCEPT ![order[i]] = Tail(@)]
  /\ UNCHANGED <<channel, order, await, submits>>

\* execute(..) returned; op.reply.send(result).
Complete(result) ==
  /\ running # NoOp
  /\ running' = NoOp
  /\ await' = [await EXCEPT ![running.from] = result]
  /\ UNCHANGED <<channel, queues, order, submits>>

\* The submitting task resumes with its answer.
Resume(a) ==
  /\ await[a] \in Fifo!Result
  /\ await' = [await EXCEPT ![a] = "idle"]
  /\ UNCHANGED <<channel, queues, order, running, submits>>

\* Every submit was made and answered.
Idle ==
  /\ submits = MaxSubmits
  /\ \A a \in Actors : await[a] = "idle"
  /\ UNCHANGED vars

Next ==
  \/ \E op \in Requests : SubmitOp(op)
  \/ Drain
  \/ Select
  \/ \E r \in Fifo!Result : Complete(r)
  \/ \E a \in Actors : Resume(a)
  \/ Idle

\* The scheduler task runs whenever it can; the backend answers or times out
\* (REPLY_TIMEOUT), so an execution ends.
Fairness ==
  /\ WF_vars(Drain)
  /\ WF_vars(Select)
  /\ WF_vars(\E r \in Fifo!Result : Complete(r))

Spec == Init /\ [][Next]_vars /\ Fairness

------------------------------------------------------------------------------
(***************************************************************************)
(* Properties                                                              *)
(***************************************************************************)

\* The state keeps its types; the Vec lists a session once, and every session
\* with queued operations is in it (enqueue).
TypeOK ==
  /\ channel \in Seq(Fifo!Operation) /\ Len(channel) <= ChannelCap
  /\ queues \in [SessionIds -> Seq(Fifo!Operation)]
  /\ running \in Fifo!Operation \cup {NoOp}
  /\ await \in [Actors -> Fifo!SubmitCall]
  /\ IsInjective(order)
  /\ \A s \in SessionIds : queues[s] # <<>> => Contains(order, s)

\* A task that awaits its submit has one operation in the channel, in the queues or
\* executing, and no other task has one: none is lost, doubled or answered twice on
\* its way through enqueue and select_next.
Holds(ops, a) == \E i \in DOMAIN ops : ops[i].from = a
Apart(ops) == \A i, j \in DOMAIN ops : ops[i].from = ops[j].from => i = j
Executing(a) == running # NoOp /\ running.from = a
Owed ==
  \A a \in Actors :
    await[a] = "waiting" <=>
      Holds(channel, a) \/ Executing(a) \/ \E s \in SessionIds : Holds(queues[s], a)
Single ==
  /\ Apart(channel) /\ \A s \in SessionIds : Apart(queues[s])
  /\ \A a \in Actors : \A s \in SessionIds :
       /\ Holds(queues[s], a) => ~Holds(channel, a) /\ ~Executing(a)
       /\ \A t \in SessionIds \ {s} : ~(Holds(queues[s], a) /\ Holds(queues[t], a))
  /\ \A a \in Actors : ~(Holds(channel, a) /\ Executing(a))

\* The scheduler's state is sound, and every submit is owed one answer.
SubmitsKept == TypeOK /\ Owed /\ Single

\* The channel and the queues together behave as per-session FIFOs with strict
\* priority over their oldest operations, an operation still in the channel
\* included ("always preempts everything else at selection time").
ImplementsFifo == Fifo!FifoSpec

\* No operation is lost in the channel, in a queue or behind a better priority
\* that keeps arriving: once the submits stop, each one is answered.
EverySubmitAnswered ==
  \A a \in Actors : await[a] = "waiting" ~> await[a] \in Fifo!Result
==============================================================================

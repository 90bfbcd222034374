---------------------------- MODULE RadioLinkProofs ----------------------------
(***************************************************************************)
(* What holds of the command channel for any callers, verbs and bounds: in *)
(* particular for any number of commands, pushes and reconnects.           *)
(***************************************************************************)
EXTENDS RadioLink, SequenceTheorems, TLAPS

\* Where the frames the radio sends in answer to a command belong.
LEMMA LinesTyped ==
  ASSUME NEW cmd \in Command, NEW err \in BOOLEAN, style \in {"verbs", "lines"}
  PROVE  LinesOf(cmd, err) \in Seq(Frame)
<1>1. 0 \in 0 .. MaxPush
  BY LinkAssumption
<1>2. cmd.verb \in Verbs \cup {"none"} /\ cmd.id \in CmdIds \cup {0} /\ cmd.kind \in {"get", "set", "arm"}
  BY DEF Command
<1>3. \A v \in Verbs \cup {"none", "error"} : [verb |-> v, of |-> cmd.id, push |-> 0] \in Frame
  BY <1>1, <1>2 DEF Frame
<1>4. CASE style = "verbs"
  BY <1>2, <1>3, <1>4 DEF LinesOf
<1>5. CASE style = "lines" /\ (err \/ cmd.kind # "get")
  BY <1>3, <1>5 DEF LinesOf
<1>6. CASE style = "lines" /\ ~err /\ cmd.kind = "get"
  BY <1>2, <1>3, <1>6 DEF LinesOf
<1> QED
  BY <1>2, <1>4, <1>5, <1>6

USE LinkAssumption, NoCmdAssumption

\* At the start nothing was submitted and the channel is empty.
LEMMA InitTyped == Init => LinkTypeOK
<1> SUFFICES ASSUME Init PROVE LinkTypeOK
  OBVIOUS
<1>1. ArmingTasks \in Nat
  BY DEF ArmingTasks
<1>3. /\ style \in {"verbs", "lines"} /\ nextId \in 1 .. MaxCmds + 1
      /\ pending = NoCmd /\ queue \in Seq(Command)
  BY DEF Init
<1>4. /\ conn \in {"up", "down", "off"}
      /\ backoff \in 1 .. BackoffMax /\ drops \in 0 .. MaxDrops /\ arming \in Nat
  BY <1>1 DEF Init
<1>5. /\ inbox \in Seq(Command) /\ wire \in Seq(Frame) /\ pushes \in 0 .. MaxPush
      /\ written \in Seq(CmdIds) /\ routed \in Seq(1 .. MaxPush)
  BY DEF Init
<1>6. cut \in BOOLEAN /\ armed \in BOOLEAN /\ refused \in BOOLEAN
  BY DEF Init
<1>2. answer \in [CmdIds -> [res : {"none", "ok", "timeout", "transport"},
                             verb : Verbs \cup {"none"}, got : Seq(Frame)]]
  BY DEF Init, Unanswered
<1> QED
  BY <1>2, <1>3, <1>4, <1>5, <1>6 DEF LinkTypeOK

\* What callers, the supervisor and the radio do keeps the types.
LEMMA OutsideTyped ==
  ASSUME LinkTypeOK,
         \/ \E c \in Callers, k \in {"get", "set"}, v \in Verbs \cup {"none"} : Submit(c, k, v)
         \/ SubmitArm \/ Shutdown \/ Reopen \/ ReopenFails
         \/ \E err \in BOOLEAN : RadioObeys(err)
         \/ \E v \in Verbs : RadioPushes(v)
         \/ Drop
  PROVE  LinkTypeOK'
<1> USE DEF LinkTypeOK, radioVars, supVars
<1>1. ASSUME NEW c \in Callers, NEW k \in {"get", "set"}, NEW v \in Verbs \cup {"none"}, Submit(c, k, v)
      PROVE  LinkTypeOK'
  <2>1. nextId \in CmdIds
    BY <1>1 DEF Submit, CmdIds
  <2>2. PICK cmd \in Command : cmd = [id |-> nextId, from |-> c, kind |-> k, verb |-> v]
    BY <2>1 DEF Command
  <2>3. queue' \in Seq(Command)
    <3>1. queue' = Append(queue, cmd)
      BY <1>1, <2>2 DEF Submit
    <3> QED
      BY <3>1
  <2>4. nextId' \in 1 .. MaxCmds + 1
    BY <1>1 DEF Submit
  <2> QED
    BY <1>1, <2>3, <2>4 DEF Submit
<1>2. CASE SubmitArm
  <2>1. [id |-> 0, from |-> "armer", kind |-> "arm", verb |-> "none"] \in Command
    BY DEF Command
  <2> QED
    BY <1>2, <2>1 DEF SubmitArm
<1>3. CASE Shutdown
  BY <1>3 DEF Shutdown
<1>4. CASE Reopen
  <2>1. ArmingTasks \in Nat
    BY DEF ArmingTasks
  <2>2. cut' \in BOOLEAN /\ armed' \in BOOLEAN /\ refused' \in BOOLEAN
    BY <1>4 DEF Reopen
  <2>3. arming' \in Nat /\ backoff' \in 1 .. BackoffMax /\ conn' \in {"up", "down", "off"}
    BY <1>4, <2>1 DEF Reopen
  <2> QED
    BY <1>4, <2>2, <2>3 DEF Reopen
<1>5. CASE ReopenFails
  BY <1>5 DEF ReopenFails
<1>6. ASSUME NEW err \in BOOLEAN, RadioObeys(err)
      PROVE  LinkTypeOK'
  <2>1. Head(inbox) \in Command /\ Tail(inbox) \in Seq(Command)
    BY <1>6 DEF RadioObeys
  <2>2. LinesOf(Head(inbox), err) \in Seq(Frame)
    BY <2>1, LinesTyped
  <2>3. wire' \in Seq(Frame)
    BY <1>6, <2>2, ConcatProperties DEF RadioObeys
  <2> QED
    BY <1>6, <2>1, <2>3 DEF RadioObeys
<1>7. ASSUME NEW v \in Verbs, RadioPushes(v)
      PROVE  LinkTypeOK'
  <2>1. [verb |-> v, of |-> 0, push |-> pushes + 1] \in Frame
    BY <1>7 DEF RadioPushes, Frame
  <2> QED
    BY <1>7, <2>1 DEF RadioPushes
<1>8. CASE Drop
  <2>1. wire' \in Seq(Frame)
    BY <1>8, SubSeqProperties DEF Drop
  <2>2. armed' \in BOOLEAN /\ cut' \in BOOLEAN /\ refused' \in BOOLEAN
    BY <1>8 DEF Drop
  <2>3. drops' \in 0 .. MaxDrops /\ inbox' \in Seq(Command)
    BY <1>8 DEF Drop
  <2> QED
    BY <1>8, <2>1, <2>2, <2>3 DEF Drop
<1> QED
  BY <1>1, <1>2, <1>3, <1>4, <1>5, <1>6, <1>7, <1>8

Answers == [res : {"none", "ok", "timeout", "transport"},
            verb : Verbs \cup {"none"}, got : Seq(Frame)]

\* What is noted is an answer of a command.
LEMMA NotedTyped ==
  ASSUME answer \in [CmdIds -> Answers], NEW cmd \in Command, NEW got \in Seq(Frame),
         NEW res \in {"ok", "timeout", "transport"}
  PROVE  Noted(cmd, res, got) \in [CmdIds -> Answers]
<1>1. [res |-> res, verb |-> cmd.verb, got |-> got] \in Answers
  BY DEF Answers, Command
<1> QED
  BY <1>1 DEF Noted

InFlightType == [cmd : Command, left : 1 .. 2, got : Seq(Frame)]

\* What the transport task does keeps the types.
LEMMA TaskTyped ==
  ASSUME LinkTypeOK, Write \/ WriteFails \/ ReadIdle \/ ReadPending \/ Timeout \/ Eof
  PROVE  LinkTypeOK'
<1>1. answer \in [CmdIds -> Answers] /\ <<>> \in Seq(Frame)
  BY DEF LinkTypeOK, Answers
<1>2. pending # NoCmd => pending \in InFlightType /\ pending.cmd \in Command
  BY DEF LinkTypeOK, InFlightType
<1>3. ASSUME queue # <<>> PROVE Head(queue) \in Command /\ Tail(queue) \in Seq(Command)
  BY <1>3 DEF LinkTypeOK
<1>4. ASSUME wire # <<>>
      PROVE  Head(wire) \in Frame /\ Tail(wire) \in Seq(Frame)
  BY <1>4 DEF LinkTypeOK
<1>5. ASSUME wire # <<>>, RouteEvent(Head(wire)) PROVE routed' \in Seq(1 .. MaxPush)
  <2>1. Head(wire).push \in 0 .. MaxPush
    BY <1>4, <1>5 DEF Frame
  <2>2. routed \in Seq(1 .. MaxPush)
    BY DEF LinkTypeOK
  <2>3. CASE Head(wire).push = 0
    BY <1>5, <2>2, <2>3 DEF RouteEvent
  <2>4. CASE Head(wire).push # 0
    <3>1. Head(wire).push \in 1 .. MaxPush /\ routed' = Append(routed, Head(wire).push)
      BY <1>5, <2>1, <2>4 DEF RouteEvent
    <3> QED
      BY <2>2, <3>1
  <2> QED
    BY <2>3, <2>4
<1>6. CASE Write
  <2> DEFINE cmd == Head(queue)
  <2>1. cmd \in Command /\ queue' \in Seq(Command)
    BY <1>3, <1>6 DEF Write
  <2>2. written' \in Seq(CmdIds) /\ inbox' \in Seq(Command)
    BY <1>6, <2>1 DEF Write, Command, LinkTypeOK
  <2>3. answer' = answer \/ answer' = Noted(cmd, "ok", <<>>)
    BY <1>6 DEF Write, AnswerOf
  <2>4. answer' \in [CmdIds -> Answers]
    <3>1. PICK s \in Seq(Frame) : s = <<>>
      BY <1>1, Zenon
    <3>2. Noted(cmd, "ok", s) \in [CmdIds -> Answers]
      BY <1>1, <2>1, NotedTyped
    <3> QED
      BY <1>1, <2>3, <3>1, <3>2, Zenon
  <2>5. Expected(cmd) \in 0 .. 2
    BY <2>1 DEF Expected, LinkTypeOK
  <2>6. \/ pending' = pending
        \/ Expected(cmd) # 0 /\ pending' = [cmd |-> cmd, left |-> Expected(cmd), got |-> <<>>]
    BY <1>6 DEF Write
  <2>7. pending' = NoCmd \/ pending' \in InFlightType
    <3>1. Expected(cmd) # 0 => [cmd |-> cmd, left |-> Expected(cmd), got |-> <<>>] \in InFlightType
      BY <1>1, <2>1, <2>5 DEF InFlightType
    <3>2. pending = NoCmd \/ pending \in InFlightType
      BY <1>2
    <3> QED
      BY <2>6, <3>1, <3>2
  <2> QED
    BY <1>6, <2>1, <2>2, <2>4, <2>7 DEF Write, LinkTypeOK, Answers, InFlightType, supVars
<1>7. CASE WriteFails
  <2>1. Head(queue) \in Command /\ queue' \in Seq(Command)
    BY <1>3, <1>7 DEF WriteFails
  <2>2. answer' = Noted(Head(queue), "transport", <<>>)
    BY <1>7 DEF WriteFails, AnswerOf
  <2>3. answer' \in [CmdIds -> Answers]
    BY <1>1, <2>1, <2>2, NotedTyped
  <2>4. cut' \in BOOLEAN
    BY <1>7 DEF WriteFails, Leave
  <2> QED
    BY <1>7, <2>1, <2>3, <2>4 DEF WriteFails, Leave, LinkTypeOK, Answers
<1>8. CASE ReadIdle
  <2>1. routed' \in Seq(1 .. MaxPush) /\ wire' \in Seq(Frame)
    BY <1>4, <1>5, <1>8 DEF ReadIdle
  <2> QED
    BY <1>8, <2>1 DEF ReadIdle, LinkTypeOK, supVars
<1>9. CASE ReadPending
  <2> DEFINE frame == Head(wire)
             got   == Append(pending.got, frame)
  <2>1. frame \in Frame /\ wire' \in Seq(Frame)
    BY <1>4, <1>9 DEF ReadPending
  <2>2. pending \in InFlightType /\ pending.cmd \in Command
    BY <1>2, <1>9 DEF ReadPending
  <2>3. got \in Seq(Frame)
    BY <2>1, <2>2 DEF InFlightType
  <2>4. routed' \in Seq(1 .. MaxPush)
    <3>1. routed' = routed \/ RouteEvent(frame)
      BY <1>9 DEF ReadPending
    <3> QED
      BY <1>5, <1>9, <3>1 DEF ReadPending, LinkTypeOK
  <2>5. \/ answer' = answer /\ pending' = pending
        \/ answer' = Noted(pending.cmd, "ok", got) /\ pending' = NoCmd
        \/ /\ answer' = answer /\ pending.left # 1
           /\ pending' = [cmd |-> pending.cmd, left |-> pending.left - 1, got |-> got]
    BY <1>9 DEF ReadPending, AnswerOf, Completes
  <2> HIDE DEF got
  <2>6. answer' \in [CmdIds -> Answers]
    BY <1>1, <2>2, <2>3, <2>5, NotedTyped
  <2>7. pending' = NoCmd \/ pending' \in InFlightType
    <3>1. [cmd |-> pending.cmd, left |-> pending.left - 1, got |-> got] \in InFlightType \/ pending.left = 1
      <4>1. pending.left = 1 \/ pending.left - 1 \in 1 .. 2
        BY <2>2 DEF InFlightType
      <4> QED
        BY <2>2, <2>3, <4>1 DEF InFlightType
    <3> QED
      BY <2>2, <2>5, <3>1
  <2> QED
    BY <1>9, <2>1, <2>4, <2>6, <2>7 DEF ReadPending, LinkTypeOK, Answers, InFlightType, supVars
<1>10. CASE Timeout
  <2>1. answer' = Noted(pending.cmd, "timeout", <<>>) /\ pending # NoCmd
    BY <1>10 DEF Timeout, AnswerOf
  <2>2. answer' \in [CmdIds -> Answers]
    BY <1>1, <1>2, <2>1, NotedTyped
  <2> QED
    BY <1>10, <2>2 DEF Timeout, LinkTypeOK, Answers, supVars, radioVars
<1>11. CASE Eof
  <2>1. \/ answer' = answer
        \/ answer' = Noted(pending.cmd, "transport", <<>>) /\ pending # NoCmd
    BY <1>11 DEF Eof, AnswerOf
  <2>2. answer' \in [CmdIds -> Answers]
    <3>1. PICK s \in Seq(Frame) : s = <<>>
      BY <1>1, Zenon
    <3>2. ASSUME pending # NoCmd PROVE Noted(pending.cmd, "transport", s) \in [CmdIds -> Answers]
      <4>1. pending.cmd \in Command
        BY <1>2, <3>2, Zenon
      <4> QED
        BY <1>1, <4>1, NotedTyped
    <3> QED
      BY <1>1, <2>1, <3>1, <3>2, Zenon
  <2>3. cut' \in BOOLEAN
    BY <1>11 DEF Eof, Leave
  <2> QED
    BY <1>11, <2>2, <2>3 DEF Eof, Leave, LinkTypeOK, Answers
<1> QED
  BY <1>6, <1>7, <1>8, <1>9, <1>10, <1>11

\* No step breaks the types.
LEMMA NextTyped == LinkTypeOK /\ [Next]_vars => LinkTypeOK'
<1> SUFFICES ASSUME LinkTypeOK, [Next]_vars PROVE LinkTypeOK'
  OBVIOUS
<1>1. CASE UNCHANGED vars
  BY <1>1 DEF vars, supVars, radioVars, LinkTypeOK
<1>2. CASE Next
  BY <1>2, OutsideTyped, TaskTyped DEF Next
<1> QED
  BY <1>1, <1>2

------------------------------------------------------------------------------
\* What Accounted and WrittenOnce need to be inductive: ids are given out in
\* order, so that of two commands in the channel the later one has the greater
\* id, and what was written or is in flight left the channel before them.
Real(k) == queue[k].id # 0
Before == \A k, l \in DOMAIN queue : k < l /\ Real(k) /\ Real(l) => queue[k].id < queue[l].id
Waiting == \A k \in DOMAIN queue : Real(k) => queue[k].id < nextId /\ ~Answered(queue[k].id)
Flying ==
  pending # NoCmd /\ pending.cmd.id # 0 =>
    /\ pending.cmd.id < nextId /\ ~Answered(pending.cmd.id)
    /\ \A k \in DOMAIN queue : queue[k].id # pending.cmd.id
Submitted == \A i \in CmdIds : Answered(i) => i < nextId
Placed == \A i \in CmdIds : i < nextId => InQueue(i) \/ InFlight(i) \/ Answered(i)
Wrote ==
  /\ \A k, l \in DOMAIN written : k < l => written[k] < written[l]
  /\ \A k \in DOMAIN written :
       written[k] < nextId /\ \A l \in DOMAIN queue : Real(l) => written[k] < queue[l].id

Books == Before /\ Waiting /\ Flying /\ Submitted /\ Placed /\ Wrote

\* The books imply that every command is accounted for and written once.
LEMMA BooksSuffice == LinkTypeOK /\ Books => Accounted /\ WrittenOnce
<1> SUFFICES ASSUME LinkTypeOK, Books PROVE Accounted /\ WrittenOnce
  OBVIOUS
<1>1. queue \in Seq(Command) /\ written \in Seq(CmdIds) /\ nextId \in Nat
  BY DEF LinkTypeOK
<1>2. \A k \in DOMAIN queue : queue[k] \in Command
  BY <1>1
<1>3. ASSUME NEW i \in CmdIds
      PROVE  /\ (i < nextId) <=> (InQueue(i) \/ InFlight(i) \/ Answered(i))
             /\ ~(InQueue(i) /\ InFlight(i)) /\ ~(Answered(i) /\ (InQueue(i) \/ InFlight(i)))
  <2>1. i # 0
    BY DEF CmdIds
  <2> QED
    BY <2>1 DEF Books, Waiting, Flying, Submitted, Placed, InQueue, InFlight, Real
<1>4. ASSUME NEW i \in CmdIds, NEW k \in DOMAIN queue, NEW l \in DOMAIN queue,
             queue[k].id = i, queue[l].id = i
      PROVE  k = l
  <2>1. Real(k) /\ Real(l) /\ i \in Nat /\ k \in Nat /\ l \in Nat
    BY <1>1, <1>4 DEF Real, CmdIds
  <2> QED
    BY <1>4, <2>1 DEF Books, Before
<1>5. ASSUME NEW k \in DOMAIN written PROVE ~InQueue(written[k])
  <2>1. written[k] \in CmdIds /\ written[k] \in Nat /\ written[k] # 0
    BY <1>1 DEF CmdIds
  <2> QED
    BY <2>1 DEF Books, Wrote, InQueue, Real
<1> QED
  BY <1>3, <1>4, <1>5 DEF Accounted, WrittenOnce, Books, Wrote

\* At the start the books are empty.
LEMMA InitBooks == Init => Books
<1> SUFFICES ASSUME Init PROVE Books
  OBVIOUS
<1>1. queue = <<>> /\ written = <<>> /\ nextId = 1 /\ pending = NoCmd
  BY DEF Init
<1>2. \A i \in CmdIds : ~Answered(i) /\ ~(i < nextId)
  BY DEF Init, Answered, Unanswered, CmdIds
<1>3. Before /\ Waiting /\ Flying /\ Wrote
  BY <1>1 DEF Before, Waiting, Flying, Wrote
<1> QED
  BY <1>2, <1>3 DEF Books, Submitted, Placed

\* What is noted answers that command and no other.
LEMMA NotedAnswers ==
  ASSUME answer \in [CmdIds -> Answers], NEW cmd \in Command, NEW got,
         NEW res \in {"ok", "timeout", "transport"}, NEW i \in CmdIds
  PROVE  Noted(cmd, res, got)[i].res # "none" <=> Answered(i) \/ i = cmd.id
<1>1. cmd.id \in CmdIds \cup {0} /\ i # 0
  BY DEF Command, CmdIds
<1> QED
  BY <1>1 DEF Noted, Answered

\* A command joins the channel behind the others: the arming command, which has no
\* id, or one with the next id.
LEMMA SubmitBooks ==
  ASSUME LinkTypeOK, Books,
         \/ \E c \in Callers, k \in {"get", "set"}, v \in Verbs \cup {"none"} : Submit(c, k, v)
         \/ SubmitArm
  PROVE  Books'
<1>1. PICK cmd : /\ queue' = Append(queue, cmd)
                 /\ \/ cmd.id = nextId /\ nextId' = nextId + 1 /\ nextId <= MaxCmds
                    \/ cmd.id = 0 /\ nextId' = nextId
  <2>1. ASSUME NEW c, NEW k, NEW v, Submit(c, k, v)
        PROVE  LET cmd == [id |-> nextId, from |-> c, kind |-> k, verb |-> v]
               IN queue' = Append(queue, cmd) /\ cmd.id = nextId
    BY <2>1 DEF Submit
  <2>2. ASSUME SubmitArm
        PROVE  LET cmd == [id |-> 0, from |-> "armer", kind |-> "arm", verb |-> "none"]
               IN queue' = Append(queue, cmd) /\ cmd.id = 0
    BY <2>2 DEF SubmitArm
  <2> QED
    BY <2>1, <2>2 DEF Submit, SubmitArm
<1>2. UNCHANGED <<pending, written, answer>>
  BY DEF Submit, SubmitArm
<1>3. /\ queue \in Seq(Command) /\ nextId \in Nat \ {0} /\ written \in Seq(CmdIds)
      /\ \A k \in DOMAIN queue : queue[k].id \in Nat
      /\ \A k \in DOMAIN written : written[k] \in Nat
  <2>1. queue \in Seq(Command) /\ nextId \in Nat \ {0} /\ written \in Seq(CmdIds)
    BY DEF LinkTypeOK
  <2>2. \A k \in DOMAIN queue : queue[k] \in Command
    BY <2>1
  <2> QED
    BY <2>1, <2>2 DEF Command, CmdIds
<1>4. /\ DOMAIN queue' = 1 .. Len(queue) + 1 /\ DOMAIN queue = 1 .. Len(queue) /\ Len(queue) \in Nat
      /\ \A k \in DOMAIN queue : queue'[k] = queue[k]
      /\ queue'[Len(queue) + 1] = cmd
  BY <1>1, <1>3
<1>5. \A i : Answered(i)' <=> Answered(i)
  BY <1>2 DEF Answered
<1>6. \A k \in DOMAIN queue : (Real(k)' <=> Real(k)) /\ (Real(k) => queue[k].id < nextId)
  BY <1>4 DEF Real, Books, Waiting
<1>7. Before'
  BY <1>1, <1>3, <1>4, <1>6 DEF Before, Books, Real
<1>8. \A i \in CmdIds : Answered(i) => i < nextId
  BY DEF Books, Submitted
<1>9. Waiting'
  <2> SUFFICES ASSUME NEW k \in DOMAIN queue', queue'[k].id # 0
               PROVE  queue'[k].id < nextId' /\ answer'[queue'[k].id].res = "none"
    BY DEF Waiting, Answered, Real
  <2>1. PICK i : i = queue'[k].id
    OBVIOUS
  <2>2. CASE k \in DOMAIN queue
    <3>1. Real(k) /\ queue[k].id = i
      BY <1>4, <2>1, <2>2 DEF Real
    <3>2. i < nextId /\ ~Answered(i)
      BY <2>2, <3>1 DEF Waiting, Books
    <3> QED
      BY <1>1, <1>2, <1>3, <2>1, <2>2, <3>1, <3>2 DEF Answered
  <2>3. CASE k = Len(queue) + 1
    <3>1. i = nextId /\ nextId' = nextId + 1 /\ nextId <= MaxCmds
      BY <1>1, <1>4, <2>1, <2>3
    <3>2. i \in CmdIds /\ ~(i < nextId)
      BY <1>3, <3>1 DEF CmdIds
    <3>3. ~Answered(i)
      BY <1>8, <3>2
    <3> QED
      BY <1>2, <1>3, <2>1, <3>1, <3>3 DEF Answered
  <2>4. k \in DOMAIN queue \/ k = Len(queue) + 1
    BY <1>4
  <2> QED
    BY <2>2, <2>3, <2>4
<1>10. Flying'
  <2> SUFFICES ASSUME pending # NoCmd, pending.cmd.id # 0
               PROVE  /\ pending.cmd.id < nextId' /\ ~Answered(pending.cmd.id)
                      /\ \A k \in DOMAIN queue' : queue'[k].id # pending.cmd.id
    BY <1>2 DEF Flying, Answered
  <2>1. PICK i : i = pending.cmd.id
    OBVIOUS
  <2>2. i < nextId /\ ~Answered(i) /\ \A k \in DOMAIN queue : queue[k].id # i
    BY <2>1 DEF Flying, Books
  <2>3. i \in CmdIds
    BY <2>1 DEF LinkTypeOK, Command
  <2>4. i \in Nat \ {0}
    BY <2>3 DEF CmdIds
  <2>5. i # cmd.id
    BY <1>1, <1>3, <2>2, <2>4
  <2>6. ASSUME NEW k \in DOMAIN queue' PROVE queue'[k].id # i
    <3>1. k \in DOMAIN queue \/ k = Len(queue) + 1
      BY <1>4
    <3> QED
      BY <1>4, <2>2, <2>5, <3>1
  <2>7. i < nextId'
    BY <1>1, <1>3, <2>2, <2>4
  <2> QED
    BY <2>1, <2>2, <2>6, <2>7
<1>11. Submitted' /\ Placed'
  <2>1. Submitted'
    BY <1>1, <1>3, <1>5, <1>8 DEF Submitted, CmdIds
  <2>2. \A i : InFlight(i)' <=> InFlight(i)
    BY <1>2 DEF InFlight
  <2>3. \A i : InQueue(i) => InQueue(i)'
    BY <1>4 DEF InQueue
  <2>4. ASSUME NEW i, i = nextId, nextId' = nextId + 1 PROVE InQueue(i)'
    <3>1. Len(queue) + 1 \in DOMAIN queue' /\ cmd.id = i
      BY <1>1, <1>3, <1>4, <2>4
    <3> QED
      BY <1>4, <3>1 DEF InQueue
  <2> QED
    BY <1>1, <1>3, <1>5, <2>1, <2>2, <2>3, <2>4 DEF Placed, Books, CmdIds
<1>12. Wrote'
  BY <1>1, <1>2, <1>3, <1>4, <1>6 DEF Wrote, Books, Real
<1> QED
  BY <1>7, <1>9, <1>10, <1>11, <1>12 DEF Books

\* The command in flight is answered, or goes on waiting: the channel is as it was.
LEMMA FlightBooks ==
  ASSUME LinkTypeOK, Books, UNCHANGED <<nextId, queue, written>>,
         \/ answer' = answer /\ pending' = pending
         \/ answer' = answer /\ pending' # NoCmd /\ pending # NoCmd /\ pending'.cmd = pending.cmd
         \/ /\ pending # NoCmd /\ pending' = NoCmd
            /\ \E got : \E res \in {"ok", "timeout", "transport"} : answer' = Noted(pending.cmd, res, got)
  PROVE  Books'
<1>1. /\ answer \in [CmdIds -> Answers] /\ nextId \in Nat
      /\ pending # NoCmd => pending.cmd \in Command
  BY DEF LinkTypeOK, Answers
<1>2. Before' /\ Wrote'
  BY DEF Before, Wrote, Books, Real
<1>3. CASE answer' = answer /\ (pending' = pending \/ (pending' # NoCmd /\ pending # NoCmd /\ pending'.cmd = pending.cmd))
  <2>1. \A i : Answered(i)' <=> Answered(i)
    BY <1>3 DEF Answered
  <2>2. \A i : (InFlight(i)' <=> InFlight(i)) /\ (InQueue(i)' <=> InQueue(i))
    BY <1>3 DEF InFlight, InQueue
  <2>3. Waiting' /\ Submitted' /\ Placed'
    BY <2>1, <2>2 DEF Waiting, Submitted, Placed, Books, Real
  <2>4. Flying'
    BY <1>3, <2>1 DEF Flying, Books
  <2> QED
    BY <1>2, <2>3, <2>4 DEF Books
<1>4. CASE /\ pending # NoCmd /\ pending' = NoCmd
           /\ \E got : \E res \in {"ok", "timeout", "transport"} : answer' = Noted(pending.cmd, res, got)
  <2>1. \A i \in CmdIds : Answered(i)' <=> Answered(i) \/ i = pending.cmd.id
    BY <1>1, <1>4, NotedAnswers DEF Answered
  <2>2. Flying'
    BY <1>4 DEF Flying
  <2>3. Submitted'
    BY <1>1, <1>4, <2>1 DEF Submitted, Flying, Books, Command, CmdIds
  <2>4. Waiting'
    <3> SUFFICES ASSUME NEW k \in DOMAIN queue, Real(k) PROVE queue[k].id < nextId /\ ~Answered(queue[k].id)'
      BY DEF Waiting, Real
    <3>1. queue[k] \in Command
      BY DEF LinkTypeOK
    <3>2. queue[k].id \in CmdIds /\ queue[k].id # pending.cmd.id
      BY <1>4, <3>1 DEF Real, Command, Flying, Books
    <3> QED
      BY <2>1, <3>2 DEF Waiting, Books
  <2>5. Placed'
    BY <1>4, <2>1 DEF Placed, Books, InFlight, InQueue
  <2> QED
    BY <1>2, <2>2, <2>3, <2>4, <2>5 DEF Books
<1> QED
  BY <1>3, <1>4

\* The oldest command leaves the channel: for the radio, or to be told that it could
\* not be sent.
LEMMA HeadBooks ==
  ASSUME LinkTypeOK, Books, NEW cmd, cmd = Head(queue),
         pending = NoCmd, queue # <<>>, queue' = Tail(queue), nextId' = nextId,
         \/ answer' = answer /\ pending' # NoCmd /\ pending'.cmd = cmd
         \/ /\ pending' = NoCmd
            /\ \E got : \E res \in {"ok", "timeout", "transport"} : answer' = Noted(cmd, res, got),
         \/ written' = written
         \/ cmd.id # 0 /\ written' = Append(written, cmd.id)
  PROVE  Books'
<1>1. /\ answer \in [CmdIds -> Answers] /\ nextId \in Nat /\ written \in Seq(CmdIds)
      /\ queue \in Seq(Command)
  BY DEF LinkTypeOK, Answers
<1>2. /\ DOMAIN queue' = 1 .. Len(queue) - 1 /\ DOMAIN queue = 1 .. Len(queue)
      /\ Len(queue) \in Nat \ {0} /\ cmd = queue[1] /\ 1 \in DOMAIN queue
      /\ \A k \in DOMAIN queue' : k + 1 \in DOMAIN queue /\ queue'[k] = queue[k + 1]
  BY <1>1
<1>3. \A k \in DOMAIN queue : queue[k] \in Command /\ queue[k].id \in CmdIds \cup {0} /\ queue[k].id \in Nat
  <2>1. \A k \in DOMAIN queue : queue[k] \in Command
    BY <1>1
  <2> QED
    BY <2>1 DEF Command, CmdIds
<1>4. \A k \in DOMAIN queue' : Real(k)' <=> Real(k + 1)
  BY <1>2 DEF Real
<1>5. \A k \in DOMAIN queue' : cmd.id # 0 /\ Real(k)' => cmd.id < queue'[k].id
  BY <1>2, <1>4 DEF Books, Before, Real
<1>6. \A i \in CmdIds : /\ Answered(i) => Answered(i)'
                        /\ Answered(i)' => Answered(i) \/ (i = cmd.id /\ pending' = NoCmd)
                        /\ i = cmd.id => Answered(i)' \/ InFlight(i)'
  <2>1. CASE answer' = answer /\ pending' # NoCmd /\ pending'.cmd = cmd
    BY <2>1 DEF Answered, InFlight
  <2>2. CASE /\ pending' = NoCmd
             /\ \E got : \E res \in {"ok", "timeout", "transport"} : answer' = Noted(cmd, res, got)
    BY <1>1, <1>2, <1>3, <2>2, NotedAnswers DEF Answered
  <2> QED
    BY <2>1, <2>2
<1>7. Before'
  BY <1>2, <1>4 DEF Before, Books
<1>8. Waiting'
  <2> SUFFICES ASSUME NEW k \in DOMAIN queue', Real(k)'
               PROVE  queue'[k].id < nextId' /\ answer'[queue'[k].id].res = "none"
    BY DEF Waiting, Answered
  <2>1. queue'[k] = queue[k + 1] /\ k + 1 \in DOMAIN queue /\ Real(k + 1) /\ queue'[k].id \in CmdIds
    BY <1>2, <1>3, <1>4 DEF Real
  <2>2. queue[k + 1].id < nextId /\ ~Answered(queue[k + 1].id)
    BY <2>1 DEF Books, Waiting
  <2>3. queue'[k].id # cmd.id
    BY <1>2, <1>3, <1>5, <2>1 DEF CmdIds
  <2>4. \A i : i = queue[k + 1].id => ~Answered(i)'
    BY <1>6, <2>1, <2>2, <2>3
  <2> QED
    BY <2>1, <2>2, <2>4 DEF Answered
<1>9. Flying'
  <2> SUFFICES ASSUME pending' # NoCmd, cmd.id # 0, pending'.cmd = cmd, answer' = answer
               PROVE  /\ cmd.id < nextId /\ ~Answered(cmd.id)
                      /\ \A k \in DOMAIN queue' : queue'[k].id # cmd.id
    BY DEF Flying, Answered
  <2>1. cmd.id < nextId /\ ~Answered(cmd.id)
    BY <1>2 DEF Books, Waiting, Real
  <2>2. \A k \in DOMAIN queue' : queue'[k].id # cmd.id
    BY <1>2, <1>3, <1>5 DEF Real
  <2> QED
    BY <2>1, <2>2
<1>10. Submitted'
  <2>1. cmd.id \in CmdIds => cmd.id < nextId
    BY <1>2 DEF Books, Waiting, Real, CmdIds
  <2> QED
    BY <1>6, <2>1 DEF Submitted, Books
<1>11. Placed'
  <2> SUFFICES ASSUME NEW i \in CmdIds, i < nextId PROVE InQueue(i)' \/ InFlight(i)' \/ Answered(i)'
    BY DEF Placed
  <2>1. CASE i = cmd.id \/ Answered(i)
    BY <1>6, <2>1
  <2>2. CASE i # cmd.id /\ InQueue(i)
    <3>1. PICK k \in DOMAIN queue : queue[k].id = i
      BY <2>2 DEF InQueue
    <3>2. k # 1 /\ k - 1 \in DOMAIN queue' /\ queue'[k - 1].id = i
      BY <1>2, <2>2, <3>1
    <3> QED
      BY <3>2 DEF InQueue
  <2> QED
    BY <2>1, <2>2 DEF Placed, Books, InFlight
<1>12. Wrote'
  <2>1. CASE written' = written
    BY <1>2, <1>4, <2>1 DEF Wrote, Books
  <2>2. CASE cmd.id # 0 /\ written' = Append(written, cmd.id)
    <3>1. /\ DOMAIN written' = 1 .. Len(written) + 1 /\ DOMAIN written = 1 .. Len(written) /\ Len(written) \in Nat
          /\ \A k \in DOMAIN written : written'[k] = written[k]
          /\ written'[Len(written) + 1] = cmd.id
      BY <1>1, <2>2
    <3>2. \A k \in DOMAIN written : written[k] < cmd.id
      BY <1>2, <2>2 DEF Wrote, Books, Real
    <3>3. \A k, l \in DOMAIN written' : k < l => written'[k] < written'[l]
      <4> SUFFICES ASSUME NEW k \in DOMAIN written', NEW l \in DOMAIN written', k < l
                   PROVE  written'[k] < written'[l]
        OBVIOUS
      <4>1. k \in DOMAIN written /\ (l \in DOMAIN written \/ l = Len(written) + 1)
        <5>1. k \in 1 .. Len(written) + 1 /\ l \in 1 .. Len(written) + 1 /\ Len(written) \in Nat
          BY <3>1
        <5>2. k \in 1 .. Len(written) /\ (l \in 1 .. Len(written) \/ l = Len(written) + 1)
          BY <5>1
        <5> QED
          BY <3>1, <5>2
      <4>2. CASE l \in DOMAIN written
        BY <3>1, <4>1, <4>2 DEF Wrote, Books
      <4>3. CASE l = Len(written) + 1
        BY <3>1, <3>2, <4>1, <4>3
      <4> QED
        BY <4>1, <4>2, <4>3
    <3>4. cmd.id < nextId
      BY <1>2, <2>2 DEF Books, Waiting, Real
    <3>5. \A k \in DOMAIN written' :
            written'[k] < nextId /\ \A l \in DOMAIN queue' : Real(l)' => written'[k] < queue'[l].id
      <4> SUFFICES ASSUME NEW k \in DOMAIN written'
                   PROVE  /\ written'[k] < nextId
                          /\ \A l \in DOMAIN queue' : Real(l)' => written'[k] < queue'[l].id
        OBVIOUS
      <4>1. CASE k \in DOMAIN written
        <5>1. PICK n : n = written[k] /\ n = written'[k]
          BY <3>1, <4>1
        <5>2. n < nextId /\ \A l \in DOMAIN queue : Real(l) => n < queue[l].id
          BY <4>1, <5>1 DEF Wrote, Books
        <5>3. ASSUME NEW l \in DOMAIN queue', Real(l)' PROVE n < queue'[l].id
          <6>1. l + 1 \in DOMAIN queue /\ Real(l + 1) /\ queue'[l] = queue[l + 1]
            BY <1>2, <1>4, <5>3
          <6> QED
            BY <5>2, <6>1
        <5> QED
          BY <5>1, <5>2, <5>3
      <4>2. CASE k = Len(written) + 1
        <5>1. written'[k] = cmd.id
          BY <3>1, <4>2
        <5>2. \A l \in DOMAIN queue' : Real(l)' => cmd.id < queue'[l].id
          BY <1>5, <2>2, Zenon
        <5> QED
          BY <3>4, <5>1, <5>2, Zenon
      <4> QED
        BY <3>1, <4>1, <4>2
    <3> QED
      BY <3>3, <3>5 DEF Wrote
  <2> QED
    BY <2>1, <2>2
<1> QED
  BY <1>7, <1>8, <1>9, <1>10, <1>11, <1>12 DEF Books

\* No step breaks the books.
LEMMA NextBooks == LinkTypeOK /\ Books /\ [Next]_vars => Books'
<1> SUFFICES ASSUME LinkTypeOK, Books, [Next]_vars PROVE Books'
  OBVIOUS
<1>1. ASSUME UNCHANGED <<nextId, queue, pending, written, answer>> PROVE Books'
  BY <1>1, FlightBooks
<1>2. CASE UNCHANGED vars
  BY <1>1, <1>2 DEF vars
<1>3. CASE \/ \E c \in Callers, k \in {"get", "set"}, v \in Verbs \cup {"none"} : Submit(c, k, v)
           \/ SubmitArm
  BY <1>3, SubmitBooks
<1>4. CASE Write
  <2>1. PICK cmd : cmd = Head(queue)
    OBVIOUS
  <2>2. pending = NoCmd /\ queue # <<>> /\ queue' = Tail(queue) /\ nextId' = nextId
    BY <1>4 DEF Write
  <2>3. \/ written' = written
        \/ cmd.id # 0 /\ written' = Append(written, cmd.id)
    BY <1>4, <2>1 DEF Write
  <2>4. cmd \in Command
    BY <2>1, <2>2 DEF LinkTypeOK
  <2>5. CASE Expected(cmd) = 0
    <3>1. answer' = Noted(cmd, "ok", <<>>) /\ pending' = NoCmd
      BY <1>4, <2>1, <2>2, <2>5 DEF Write, AnswerOf
    <3> QED
      BY <2>1, <2>2, <2>3, <3>1, HeadBooks
  <2>6. CASE Expected(cmd) # 0
    <3> DEFINE flight == [cmd |-> cmd, left |-> Expected(cmd), got |-> <<>>]
    <3>1. answer' = answer /\ pending' = flight
      BY <1>4, <2>1, <2>6 DEF Write
    <3>2. Expected(cmd) \in 1 .. 2 /\ <<>> \in Seq(Frame)
      <4>1. style \in {"verbs", "lines"}
        BY DEF LinkTypeOK
      <4> QED
        BY <2>6, <4>1 DEF Expected
    <3>3. flight \in InFlightType /\ flight.cmd = cmd
      BY <2>4, <3>2 DEF InFlightType
    <3>4. pending' # NoCmd /\ pending'.cmd = cmd
      BY <3>1, <3>3 DEF InFlightType
    <3> QED
      BY <2>1, <2>2, <2>3, <3>1, <3>4, HeadBooks
  <2> QED
    BY <2>5, <2>6
<1>5. CASE WriteFails
  <2>1. PICK cmd : cmd = Head(queue)
    OBVIOUS
  <2>2. /\ pending = NoCmd /\ queue # <<>> /\ queue' = Tail(queue) /\ nextId' = nextId
        /\ pending' = NoCmd /\ written' = written
    BY <1>5 DEF WriteFails
  <2>3. answer' = Noted(cmd, "transport", <<>>)
    BY <1>5, <2>1 DEF WriteFails, AnswerOf
  <2> QED
    BY <2>1, <2>2, <2>3, HeadBooks
<1>6. CASE ReadIdle
  BY <1>1, <1>6 DEF ReadIdle
<1>7. CASE ReadPending
  <2>1. pending # NoCmd /\ UNCHANGED <<nextId, queue, written>>
    BY <1>7 DEF ReadPending
  <2>2. PICK got : got = Append(pending.got, Head(wire))
    OBVIOUS
  <2>3. pending \in InFlightType /\ Head(wire) \in Frame
    BY <1>7, <2>1 DEF LinkTypeOK, InFlightType, ReadPending
  <2>4. \/ UNCHANGED <<pending, answer>>
        \/ answer' = Noted(pending.cmd, "ok", got) /\ pending' = NoCmd
        \/ /\ answer' = answer /\ pending.left # 1
           /\ pending' = [cmd |-> pending.cmd, left |-> pending.left - 1, got |-> got]
    BY <1>7, <2>2 DEF ReadPending, AnswerOf, Completes
  <2>5. pending.left # 1 => [cmd |-> pending.cmd, left |-> pending.left - 1, got |-> got] \in InFlightType
    <3>1. got \in Seq(Frame) /\ (pending.left # 1 => pending.left - 1 \in 1 .. 2)
      BY <2>2, <2>3 DEF InFlightType
    <3> QED
      BY <2>3, <3>1 DEF InFlightType
  <2>6. CASE UNCHANGED <<pending, answer>>
    BY <2>1, <2>6, FlightBooks
  <2>7. CASE answer' = Noted(pending.cmd, "ok", got) /\ pending' = NoCmd
    BY <2>1, <2>7, FlightBooks
  <2>8. CASE /\ answer' = answer /\ pending.left # 1
             /\ pending' = [cmd |-> pending.cmd, left |-> pending.left - 1, got |-> got]
    <3>1. pending' # NoCmd /\ pending'.cmd = pending.cmd
      BY <2>5, <2>8 DEF InFlightType
    <3> QED
      BY <2>1, <2>8, <3>1, FlightBooks
  <2> QED
    BY <2>4, <2>6, <2>7, <2>8
<1>8. CASE Timeout
  <2>1. /\ pending # NoCmd /\ pending' = NoCmd /\ UNCHANGED <<nextId, queue, written>>
        /\ answer' = Noted(pending.cmd, "timeout", <<>>)
    BY <1>8 DEF Timeout, AnswerOf
  <2> QED
    BY <2>1, FlightBooks
<1>9. CASE Eof
  <2>1. UNCHANGED <<nextId, queue, written>> /\ pending' = NoCmd
    BY <1>9 DEF Eof
  <2>2. CASE pending = NoCmd
    BY <1>1, <1>9, <2>2 DEF Eof
  <2>3. CASE pending # NoCmd
    <3>1. answer' = Noted(pending.cmd, "transport", <<>>)
      BY <1>9, <2>3 DEF Eof, AnswerOf
    <3> QED
      BY <2>1, <2>3, <3>1, FlightBooks
  <2> QED
    BY <2>2, <2>3
<1>10. CASE Shutdown \/ Reopen \/ ReopenFails
  BY <1>1, <1>10 DEF Shutdown, Reopen, ReopenFails
<1>11. CASE (\E err \in BOOLEAN : RadioObeys(err)) \/ (\E v \in Verbs : RadioPushes(v)) \/ Drop
  BY <1>1, <1>11 DEF RadioObeys, RadioPushes, Drop
<1> QED
  BY <1>2, <1>3, <1>4, <1>5, <1>6, <1>7, <1>8, <1>9, <1>10, <1>11 DEF Next

\* run_transport and its supervisor, for any callers, verbs and bounds: a command that
\* was submitted waits, is in flight or has been answered, and only one of these; it is
\* written to the radio at most once, in the order of submission, whatever is lost,
\* times out or reconnects.
THEOREM LinkKeepsBooks == Spec => []LinkInv
<1>1. Init => LinkTypeOK /\ Books
  BY InitTyped, InitBooks
<1>2. (LinkTypeOK /\ Books) /\ [Next]_vars => (LinkTypeOK /\ Books)'
  BY NextTyped, NextBooks
<1>3. LinkTypeOK /\ Books => LinkInv
  BY BooksSuffice DEF LinkInv
<1> QED
  BY <1>1, <1>2, <1>3, PTL DEF Spec

------------------------------------------------------------------------------
\* The first d elements of t are gone, and perhaps some of the last.
Part(s, t, d) == \A k \in DOMAIN s : k + d \in DOMAIN t /\ s[k] = t[k + d]
\* x was put behind t.
Grown(s, t, x) ==
  /\ DOMAIN s = 1 .. Len(t) + 1 /\ DOMAIN t = 1 .. Len(t) /\ Len(t) \in Nat
  /\ \A k \in DOMAIN t : k \in DOMAIN s /\ s[k] = t[k]
  /\ Len(t) + 1 \in DOMAIN s /\ s[Len(t) + 1] = x

\* Without its oldest element a sequence is part of what it was.
LEMMA TailPart ==
  ASSUME NEW S, NEW s \in Seq(S), s # <<>>
  PROVE  /\ Part(Tail(s), s, 1) /\ 1 \in DOMAIN s /\ Head(s) = s[1] /\ Head(s) \in S
         /\ DOMAIN Tail(s) = 1 .. Len(s) - 1 /\ DOMAIN s = 1 .. Len(s) /\ Len(s) \in Nat \ {0}
         /\ Len(Tail(s)) = Len(s) - 1
  BY DEF Part

\* Append puts one element behind the others.
LEMMA AppendGrown ==
  ASSUME NEW S, NEW s \in Seq(S), NEW x
  PROVE  Grown(Append(s, x), s, x)
  BY DEF Grown

\* Where the commands of the channel, of the radio and in flight come from.
LEMMA Origins ==
  ASSUME LinkTypeOK, [Next]_vars
  PROVE  /\ style' = style
         /\ \A k \in DOMAIN queue' :
              \/ \E l \in DOMAIN queue : queue'[k] = queue[l]
              \/ queue'[k].id = nextId /\ queue'[k].kind \in {"get", "set"}
              \/ queue'[k].id = 0 /\ queue'[k].kind = "arm" /\ arming > 0
         /\ \A k \in DOMAIN inbox' :
              \/ \E l \in DOMAIN inbox : inbox'[k] = inbox[l]
              \/ 1 \in DOMAIN queue /\ inbox'[k] = queue[1]
         /\ pending' # NoCmd =>
              \/ pending # NoCmd /\ pending'.cmd = pending.cmd
              \/ 1 \in DOMAIN queue /\ pending'.cmd = queue[1]
<1> DEFINE Q(k) == \/ \E l \in DOMAIN queue : queue'[k] = queue[l]
                   \/ queue'[k].id = nextId /\ queue'[k].kind \in {"get", "set"}
                   \/ queue'[k].id = 0 /\ queue'[k].kind = "arm" /\ arming > 0
           B(k) == \/ \E l \in DOMAIN inbox : inbox'[k] = inbox[l]
                   \/ 1 \in DOMAIN queue /\ inbox'[k] = queue[1]
           P == pending' # NoCmd =>
                  \/ pending # NoCmd /\ pending'.cmd = pending.cmd
                  \/ 1 \in DOMAIN queue /\ pending'.cmd = queue[1]
<1>1. style' = style
  BY DEF Next, vars, Submit, SubmitArm, Write, WriteFails, ReadIdle, ReadPending, Timeout, Eof,
         Shutdown, Reopen, ReopenFails, RadioObeys, RadioPushes, Drop
<1>2. queue \in Seq(Command) /\ inbox \in Seq(Command) /\ LinkTypeOK'
  BY NextTyped DEF LinkTypeOK
<1>3. ASSUME UNCHANGED queue PROVE \A k \in DOMAIN queue' : Q(k)
  BY <1>3
<1>4. ASSUME UNCHANGED inbox \/ inbox' = <<>> PROVE \A k \in DOMAIN inbox' : B(k)
  BY <1>4
<1>5. ASSUME queue # <<>>, queue' = Tail(queue) PROVE \A k \in DOMAIN queue' : Q(k)
  BY <1>2, <1>5, TailPart DEF Part
<1>6. ASSUME UNCHANGED pending \/ pending' = NoCmd PROVE P
  BY <1>6
<1>7. CASE UNCHANGED vars
  BY <1>1, <1>3, <1>4, <1>6, <1>7 DEF vars, radioVars
<1>8. ASSUME NEW c, NEW k, NEW v, Submit(c, k, v), k \in {"get", "set"}
      PROVE  (\A i \in DOMAIN queue' : Q(i)) /\ (\A i \in DOMAIN inbox' : B(i)) /\ P
  <2>1. queue' = Append(queue, [id |-> nextId, from |-> c, kind |-> k, verb |-> v])
    BY <1>8 DEF Submit
  <2>2. Grown(queue', queue, [id |-> nextId, from |-> c, kind |-> k, verb |-> v])
    BY <1>2, <2>1, AppendGrown
  <2>3. \A i \in DOMAIN queue' : i \in DOMAIN queue \/ i = Len(queue) + 1
    BY <2>2 DEF Grown
  <2>4. \A i \in DOMAIN queue' : Q(i)
    BY <1>8, <2>2, <2>3 DEF Grown
  <2>5. UNCHANGED <<inbox, pending>>
    BY <1>8 DEF Submit, radioVars
  <2> QED
    BY <1>4, <1>6, <2>4, <2>5
<1>9. CASE SubmitArm
  <2>1. queue' = Append(queue, [id |-> 0, from |-> "armer", kind |-> "arm", verb |-> "none"]) /\ arming > 0
    BY <1>9 DEF SubmitArm
  <2>2. Grown(queue', queue, [id |-> 0, from |-> "armer", kind |-> "arm", verb |-> "none"])
    BY <1>2, <2>1, AppendGrown
  <2>3. \A i \in DOMAIN queue' : i \in DOMAIN queue \/ i = Len(queue) + 1
    BY <2>2 DEF Grown
  <2>4. \A i \in DOMAIN queue' : Q(i)
    BY <2>1, <2>2, <2>3 DEF Grown
  <2>5. UNCHANGED <<inbox, pending>>
    BY <1>9 DEF SubmitArm, radioVars
  <2> QED
    BY <1>1, <1>4, <1>6, <2>4, <2>5
<1>10. CASE Write
  <2>1. queue # <<>> /\ queue' = Tail(queue) /\ pending = NoCmd
    BY <1>10 DEF Write
  <2>2. 1 \in DOMAIN queue /\ Head(queue) = queue[1]
    BY <1>2, <2>1, TailPart
  <2>3. inbox' = inbox \/ inbox' = Append(inbox, queue[1])
    BY <1>10, <2>2 DEF Write
  <2>4. \A i \in DOMAIN inbox' : B(i)
    <3>1. CASE inbox' = Append(inbox, queue[1])
      <4>1. Grown(inbox', inbox, queue[1])
        BY <1>2, <3>1, AppendGrown
      <4>2. \A i \in DOMAIN inbox' : i \in DOMAIN inbox \/ i = Len(inbox) + 1
        BY <4>1 DEF Grown
      <4> QED
        BY <2>2, <4>1, <4>2 DEF Grown
    <3> QED
      BY <1>4, <2>3, <3>1
  <2>5. \/ pending' = pending
        \/ pending' = [cmd |-> queue[1], left |-> Expected(queue[1]), got |-> <<>>]
    BY <1>10, <2>2 DEF Write
  <2>6. P
    BY <1>6, <2>2, <2>5
  <2> QED
    BY <1>1, <1>5, <2>1, <2>4, <2>6
<1>11. CASE WriteFails
  BY <1>1, <1>4, <1>5, <1>6, <1>11 DEF WriteFails, Leave
<1>12. CASE ReadIdle \/ Timeout \/ Shutdown \/ Reopen \/ ReopenFails
  BY <1>1, <1>3, <1>4, <1>6, <1>12 DEF ReadIdle, Timeout, Shutdown, Reopen, ReopenFails, radioVars
<1>13. CASE ReadPending
  <2>1. UNCHANGED <<queue, inbox>>
    BY <1>13 DEF ReadPending
  <2>2. \/ UNCHANGED pending \/ pending' = NoCmd
        \/ pending' = [cmd |-> pending.cmd, left |-> pending.left - 1, got |-> Append(pending.got, Head(wire))]
    BY <1>13 DEF ReadPending
  <2>3. P
    BY <1>6, <1>13, <2>2 DEF ReadPending
  <2> QED
    BY <1>1, <1>3, <1>4, <2>1, <2>3
<1>14. CASE Eof
  BY <1>1, <1>3, <1>4, <1>6, <1>14 DEF Eof, Leave
<1>15. ASSUME NEW err \in BOOLEAN, RadioObeys(err)
       PROVE  (\A i \in DOMAIN queue' : Q(i)) /\ (\A i \in DOMAIN inbox' : B(i)) /\ P
  <2>1. inbox # <<>> /\ inbox' = Tail(inbox) /\ UNCHANGED <<queue, pending>>
    BY <1>15 DEF RadioObeys
  <2>2. \A i \in DOMAIN inbox' : B(i)
    BY <1>2, <2>1, TailPart DEF Part
  <2> QED
    BY <1>3, <1>6, <2>1, <2>2
<1>16. CASE (\E v \in Verbs : RadioPushes(v)) \/ Drop
  BY <1>1, <1>3, <1>4, <1>6, <1>16 DEF RadioPushes, Drop
<1> QED
  BY <1>1, <1>7, <1>8, <1>9, <1>10, <1>11, <1>12, <1>13, <1>14, <1>15, <1>16 DEF Next

\* No step leaves a transport up without its push stream.
LEMMA NextRearmed == LinkTypeOK /\ Rearmed /\ [Next]_vars => Rearmed'
<1> SUFFICES ASSUME LinkTypeOK, Rearmed, [Next]_vars, style' = "verbs", conn' = "up", ~cut'
             PROVE  \/ armed' \/ refused' \/ arming' > 0
                    \/ \E k \in DOMAIN queue' : IsArm(queue'[k])
                    \/ \E k \in DOMAIN inbox' : IsArm(inbox'[k])
  BY DEF Rearmed, IsArm
<1>1. style = "verbs" /\ arming \in Nat /\ queue \in Seq(Command) /\ inbox \in Seq(Command)
  BY Origins DEF LinkTypeOK
<1> USE DEF supVars, radioVars
<1>2. CASE UNCHANGED <<conn, cut, armed, refused, arming, queue, inbox>>
  BY <1>1, <1>2 DEF Rearmed, IsArm
<1>3. ASSUME NEW cmd, queue' = Append(queue, cmd), UNCHANGED <<conn, cut, armed, refused, inbox>>,
             arming' = arming \/ IsArm(cmd)
      PROVE  \/ armed' \/ refused' \/ arming' > 0
             \/ \E k \in DOMAIN queue' : IsArm(queue'[k])
             \/ \E k \in DOMAIN inbox' : IsArm(inbox'[k])
  <2>1. Grown(queue', queue, cmd)
    BY <1>1, <1>3, AppendGrown
  <2> QED
    BY <1>1, <1>3, <2>1 DEF Rearmed, IsArm, Grown
<1>4. CASE Write
  <2>1. queue # <<>> /\ queue' = Tail(queue) /\ UNCHANGED <<conn, cut, armed, refused, arming>>
        /\ inbox' = Append(inbox, Head(queue))
    BY <1>4 DEF Write
  <2>2. Grown(inbox', inbox, queue[1])
    BY <1>1, <2>1, AppendGrown, TailPart
  <2>3. \A k \in DOMAIN queue : k = 1 \/ (k - 1 \in DOMAIN queue' /\ queue'[k - 1] = queue[k])
    BY <1>1, <2>1, TailPart
  <2>4. CASE \E k \in DOMAIN queue : IsArm(queue[k])
    <3>1. PICK k \in DOMAIN queue : IsArm(queue[k])
      BY <2>4
    <3>2. CASE k = 1
      BY <2>2, <3>1, <3>2 DEF Grown
    <3>3. CASE k # 1
      BY <2>3, <3>1, <3>3
    <3> QED
      BY <3>2, <3>3
  <2>5. CASE \E k \in DOMAIN inbox : IsArm(inbox[k])
    BY <2>2, <2>5 DEF Grown
  <2> QED
    BY <1>1, <2>1, <2>4, <2>5 DEF Rearmed
<1>5. CASE Reopen
  BY <1>1, <1>5 DEF Reopen, ArmingTasks
<1>6. ASSUME NEW err \in BOOLEAN, RadioObeys(err)
      PROVE  \/ armed' \/ refused' \/ arming' > 0
             \/ \E k \in DOMAIN queue' : IsArm(queue'[k])
             \/ \E k \in DOMAIN inbox' : IsArm(inbox'[k])
  <2>1. /\ inbox # <<>> /\ inbox' = Tail(inbox) /\ UNCHANGED <<conn, cut, arming, queue>>
        /\ armed' \/ refused' <=> armed \/ refused \/ IsArm(Head(inbox))
    BY <1>6 DEF RadioObeys
  <2>2. \A k \in DOMAIN inbox : k = 1 \/ (k - 1 \in DOMAIN inbox' /\ inbox'[k - 1] = inbox[k])
    BY <1>1, <2>1
  <2>3. Head(inbox) = inbox[1]
    BY <1>1, <2>1, TailPart
  <2>4. CASE \E k \in DOMAIN inbox : IsArm(inbox[k])
    <3>1. PICK k \in DOMAIN inbox : IsArm(inbox[k])
      BY <2>4
    <3>2. CASE k = 1
      BY <2>1, <2>3, <3>1, <3>2 DEF IsArm
    <3>3. CASE k # 1
      BY <2>2, <3>1, <3>3
    <3> QED
      BY <3>2, <3>3
  <2> QED
    BY <1>1, <2>1, <2>4 DEF Rearmed
<1>7. ASSUME NEW c, NEW k, NEW v, Submit(c, k, v)
      PROVE  \/ armed' \/ refused' \/ arming' > 0
             \/ \E i \in DOMAIN queue' : IsArm(queue'[i])
             \/ \E i \in DOMAIN inbox' : IsArm(inbox'[i])
  BY <1>3, <1>7 DEF Submit
<1>8. CASE SubmitArm
  BY <1>3, <1>8 DEF SubmitArm, IsArm
<1>9. CASE UNCHANGED vars \/ ReadIdle \/ ReadPending \/ Timeout
  BY <1>2, <1>9 DEF vars, ReadIdle, ReadPending, Timeout
<1>10. CASE WriteFails \/ Eof \/ Shutdown \/ ReopenFails \/ Drop
  BY <1>10 DEF WriteFails, Eof, Leave, Shutdown, ReopenFails, Drop
<1>11. CASE \E v \in Verbs : RadioPushes(v)
  BY <1>2, <1>11 DEF RadioPushes
<1> QED
  BY <1>4, <1>5, <1>6, <1>7, <1>8, <1>9, <1>10, <1>11 DEF Next

\* enable_native_push of run_transport_supervised, for any bounds: whenever a transport of
\* a radio that pushes is up, the radio pushes or a command that makes it do so is on its
\* way, however often the transport closed or the radio was switched off; unless it
\* answered that command with an error, which the hub does not look at.
THEOREM LinkRearmed == Spec => []Rearmed
<1>1. Init => LinkTypeOK /\ Rearmed
  BY InitTyped DEF Init, Rearmed, ArmingTasks
<1>2. (LinkTypeOK /\ Rearmed) /\ [Next]_vars => (LinkTypeOK /\ Rearmed)'
  BY NextTyped, NextRearmed
<1> QED
  BY <1>1, <1>2, PTL DEF Spec

------------------------------------------------------------------------------
\* What is noted is noted of a command that was not answered yet: the one in flight,
\* or the oldest of the channel.
LEMMA Settled ==
  ASSUME LinkTypeOK, Books, [Next]_vars, NEW i \in CmdIds
  PROVE  \/ answer'[i] = answer[i]
         \/ /\ answer[i].res = "none" /\ answer'[i].res # "none"
            /\ pending = NoCmd \/ (pending.cmd.id = i /\ pending' = NoCmd)
<1> DEFINE Goal == \/ answer'[i] = answer[i]
                   \/ /\ answer[i].res = "none" /\ answer'[i].res # "none"
                      /\ pending = NoCmd \/ (pending.cmd.id = i /\ pending' = NoCmd)
<1>1. answer \in [CmdIds -> Answers] /\ queue \in Seq(Command) /\ i # 0
  BY DEF LinkTypeOK, Answers, CmdIds
<1>2. ASSUME NEW cmd \in Command, NEW got, NEW res \in {"ok", "timeout", "transport"},
             answer' = Noted(cmd, res, got),
             cmd.id = i => ~Answered(i) /\ (pending = NoCmd \/ (pending.cmd.id = i /\ pending' = NoCmd))
      PROVE  Goal
  <2>1. cmd.id # i => answer'[i] = answer[i]
    BY <1>1, <1>2 DEF Noted
  <2>2. cmd.id = i => answer'[i].res # "none"
    BY <1>1, <1>2, NotedAnswers
  <2> QED
    BY <1>2, <2>1, <2>2 DEF Answered
<1>3. ASSUME answer' = answer PROVE Goal
  BY <1>3
<1>4. ASSUME queue # <<>>
      PROVE  Head(queue) \in Command /\ (Head(queue).id = i => ~Answered(i))
  <2>1. 1 \in DOMAIN queue /\ Head(queue) = queue[1] /\ Head(queue) \in Command
    BY <1>1, <1>4
  <2> QED
    BY <1>1, <2>1 DEF Books, Waiting, Real
<1>5. ASSUME pending # NoCmd
      PROVE  pending.cmd \in Command /\ (pending.cmd.id = i => ~Answered(i))
  <2>1. pending.cmd \in Command
    BY <1>5 DEF LinkTypeOK
  <2> QED
    BY <1>1, <1>5, <2>1 DEF Books, Flying
<1>6. CASE Write
  <2>1. pending = NoCmd /\ queue # <<>> /\ (answer' = answer \/ answer' = Noted(Head(queue), "ok", <<>>))
    BY <1>6 DEF Write, AnswerOf
  <2> QED
    BY <1>2, <1>3, <1>4, <2>1
<1>7. CASE WriteFails
  <2>1. pending = NoCmd /\ queue # <<>> /\ answer' = Noted(Head(queue), "transport", <<>>)
    BY <1>7 DEF WriteFails, AnswerOf
  <2> QED
    BY <1>2, <1>4, <2>1
<1>8. CASE ReadPending
  <2>1. /\ pending # NoCmd
        /\ \/ answer' = answer
           \/ answer' = Noted(pending.cmd, "ok", Append(pending.got, Head(wire))) /\ pending' = NoCmd
    BY <1>8 DEF ReadPending, AnswerOf
  <2> QED
    BY <1>2, <1>3, <1>5, <2>1
<1>9. CASE Timeout
  <2>1. pending # NoCmd /\ answer' = Noted(pending.cmd, "timeout", <<>>) /\ pending' = NoCmd
    BY <1>9 DEF Timeout, AnswerOf
  <2> QED
    BY <1>2, <1>5, <2>1
<1>10. CASE Eof
  <2>1. \/ answer' = answer
        \/ pending # NoCmd /\ answer' = Noted(pending.cmd, "transport", <<>>) /\ pending' = NoCmd
    BY <1>10 DEF Eof, AnswerOf
  <2> QED
    BY <1>2, <1>3, <1>5, <2>1
<1>11. CASE \/ UNCHANGED vars \/ SubmitArm \/ ReadIdle \/ Shutdown \/ Reopen \/ ReopenFails \/ Drop
            \/ \E c \in Callers, k \in {"get", "set"}, v \in Verbs \cup {"none"} : Submit(c, k, v)
            \/ \E err \in BOOLEAN : RadioObeys(err)
            \/ \E v \in Verbs : RadioPushes(v)
  BY <1>3, <1>11 DEF vars, SubmitArm, ReadIdle, Shutdown, Reopen, ReopenFails, Drop, Submit, RadioObeys, RadioPushes
<1> QED
  BY <1>6, <1>7, <1>8, <1>9, <1>10, <1>11 DEF Next

\* Nothing came of a command that is not answered.
Blank == \A i \in CmdIds : answer[i].res = "none" => answer[i].got = <<>>

\* Only what is answered is given frames.
LEMMA NextBlank == LinkTypeOK /\ Books /\ Blank /\ [Next]_vars => Blank'
<1> SUFFICES ASSUME LinkTypeOK, Books, Blank, [Next]_vars, NEW i \in CmdIds, answer'[i].res = "none"
             PROVE  answer'[i].got = <<>>
  BY DEF Blank
<1> QED
  BY Settled DEF Blank

\* What was given up stays given up, and what was answered keeps its answer.
LEMMA StaysDisplaced ==
  ASSUME LinkTypeOK, Books, Blank, [Next]_vars, NEW i \in CmdIds
  PROVE  /\ Displaced(i) => Displaced(i)'
         /\ answer[i].got # <<>> => answer'[i] = answer[i]
<1>1. answer[i].res = "none" => answer[i].got = <<>>
  BY DEF Blank
<1>2. Displaced(i) => answer[i].res # "none"
  BY <1>1 DEF Displaced
<1> QED
  BY <1>1, <1>2, Settled DEF Displaced

\* Only the arming command has no id.
IdOf(cmd) == cmd.id = 0 <=> IsArm(cmd)
Kinds ==
  /\ \A k \in DOMAIN queue : IdOf(queue[k])
  /\ \A k \in DOMAIN inbox : IdOf(inbox[k])
  /\ pending # NoCmd => IdOf(pending.cmd)

\* No step gives the arming command an id, or takes that of another.
LEMMA NextKinds == LinkTypeOK /\ Kinds /\ [Next]_vars => Kinds'
<1> SUFFICES ASSUME LinkTypeOK, Kinds, [Next]_vars PROVE Kinds'
  OBVIOUS
<1>1. nextId # 0
  BY DEF LinkTypeOK
<1>2. \A k \in DOMAIN queue' : IdOf(queue'[k])
  BY <1>1, Origins DEF Kinds, IdOf, IsArm
<1>3. \A k \in DOMAIN inbox' : IdOf(inbox'[k])
  BY Origins DEF Kinds
<1>4. pending' # NoCmd => IdOf(pending'.cmd)
  BY Origins DEF Kinds
<1> QED
  BY <1>2, <1>3, <1>4 DEF Kinds, IdOf, IsArm

\* Where the frames on the line come from.
LEMMA WireOrigins ==
  ASSUME LinkTypeOK, [Next]_vars
  PROVE  \A k \in DOMAIN wire' :
           \/ \E l \in DOMAIN wire : wire'[k] = wire[l]
           \/ 1 \in DOMAIN inbox /\ wire'[k].of = inbox[1].id /\ wire'[k].push = 0
           \/ armed /\ wire'[k].of = 0
<1> DEFINE W(k) == \/ \E l \in DOMAIN wire : wire'[k] = wire[l]
                   \/ 1 \in DOMAIN inbox /\ wire'[k].of = inbox[1].id /\ wire'[k].push = 0
                   \/ armed /\ wire'[k].of = 0
<1>1. wire \in Seq(Frame) /\ inbox \in Seq(Command) /\ style \in {"verbs", "lines"}
  BY DEF LinkTypeOK
<1>2. ASSUME UNCHANGED wire \/ wire' = <<>> PROVE \A k \in DOMAIN wire' : W(k)
  BY <1>2
<1>3. CASE ReadIdle \/ ReadPending
  <2>1. wire # <<>> /\ wire' = Tail(wire)
    BY <1>3 DEF ReadIdle, ReadPending
  <2> QED
    BY <1>1, <2>1, TailPart DEF Part
<1>4. ASSUME NEW err \in BOOLEAN, RadioObeys(err)
      PROVE  \A k \in DOMAIN wire' : W(k)
  <2> DEFINE cmd == Head(inbox)
             new == LinesOf(cmd, err)
  <2>1. inbox # <<>> /\ (wire' = wire \/ wire' = wire \o new)
    BY <1>4 DEF RadioObeys
  <2>2. cmd = inbox[1] /\ 1 \in DOMAIN inbox /\ cmd \in Command
    BY <1>1, <2>1, TailPart
  <2>3. new \in Seq(Frame)
    BY <1>1, <2>2, LinesTyped
  <2>4. \A k \in DOMAIN new : new[k].of = cmd.id /\ new[k].push = 0
    <3>1. cmd.kind \in {"get", "set", "arm"}
      BY <2>2 DEF Command
    <3>2. CASE style = "verbs"
      BY <3>1, <3>2 DEF LinesOf
    <3>3. CASE style = "lines" /\ (err \/ cmd.kind # "get")
      BY <3>3 DEF LinesOf
    <3>4. CASE style = "lines" /\ ~err /\ cmd.kind = "get"
      BY <3>4 DEF LinesOf
    <3> QED
      BY <1>1, <3>2, <3>3, <3>4
  <2>5. CASE wire' = wire \o new
    <3> SUFFICES ASSUME NEW k \in DOMAIN wire' PROVE W(k)
      OBVIOUS
    <3> HIDE DEF new
    <3>1. k \in DOMAIN wire \/ (k - Len(wire) \in DOMAIN new /\ wire'[k] = new[k - Len(wire)])
      BY <1>1, <2>3, <2>5
    <3>2. k \in DOMAIN wire => wire'[k] = wire[k]
      BY <1>1, <2>3, <2>5
    <3> QED
      BY <2>2, <2>4, <3>1, <3>2
  <2> QED
    BY <1>2, <2>1, <2>5
<1>5. ASSUME NEW v \in Verbs, RadioPushes(v)
      PROVE  \A k \in DOMAIN wire' : W(k)
  <2>1. armed /\ wire' = Append(wire, [verb |-> v, of |-> 0, push |-> pushes + 1])
    BY <1>5 DEF RadioPushes
  <2>2. Grown(wire', wire, [verb |-> v, of |-> 0, push |-> pushes + 1])
    BY <1>1, <2>1, AppendGrown
  <2>3. \A k \in DOMAIN wire' : k \in DOMAIN wire \/ k = Len(wire) + 1
    BY <2>2 DEF Grown
  <2> QED
    BY <2>1, <2>2, <2>3 DEF Grown
<1>6. CASE Drop
  <2>1. PICK n \in 0 .. Len(wire) : wire' = SubSeq(wire, 1, n)
    BY <1>6 DEF Drop
  <2> QED
    BY <1>1, <2>1
<1>7. CASE WriteFails \/ Eof
  BY <1>2, <1>7 DEF WriteFails, Eof, Leave
<1>8. CASE \/ UNCHANGED vars \/ SubmitArm \/ Write \/ Timeout \/ Shutdown \/ Reopen \/ ReopenFails
           \/ \E c \in Callers, k \in {"get", "set"}, v \in Verbs \cup {"none"} : Submit(c, k, v)
  BY <1>2, <1>8 DEF vars, radioVars, SubmitArm, Write, Timeout, Shutdown, Reopen, ReopenFails, Submit
<1> QED
  BY <1>3, <1>4, <1>5, <1>6, <1>7, <1>8 DEF Next

\* A rigctld is sent no arming command and pushes nothing.
Silent ==
  style = "lines" =>
    /\ arming = 0 /\ ~armed /\ pushes = 0
    /\ \A k \in DOMAIN queue : ~IsArm(queue[k])
    /\ \A k \in DOMAIN inbox : ~IsArm(inbox[k])
    /\ \A k \in DOMAIN wire : wire[k].of # 0

\* Nothing arms a rigctld.
LEMMA NextSilent == LinkTypeOK /\ Kinds /\ Silent /\ [Next]_vars => Silent'
<1> SUFFICES ASSUME LinkTypeOK, Kinds, Silent, [Next]_vars, style = "lines"
             PROVE  /\ arming' = 0 /\ ~armed' /\ pushes' = 0
                    /\ \A k \in DOMAIN queue' : queue'[k].kind # "arm"
                    /\ \A k \in DOMAIN inbox' : inbox'[k].kind # "arm"
                    /\ \A k \in DOMAIN wire' : wire'[k].of # 0
  BY Origins DEF Silent, IsArm
<1>1. /\ arming = 0 /\ ~armed /\ pushes = 0
      /\ \A k \in DOMAIN queue : queue[k].kind # "arm"
      /\ \A k \in DOMAIN inbox : inbox[k].kind # "arm" /\ inbox[k].id # 0
      /\ \A k \in DOMAIN wire : wire[k].of # 0
  BY DEF Silent, Kinds, IsArm, IdOf
<1>2. \A k \in DOMAIN queue' : queue'[k].kind # "arm"
  BY <1>1, Origins
<1>3. \A k \in DOMAIN inbox' : inbox'[k].kind # "arm"
  BY <1>1, Origins
<1>4. \A k \in DOMAIN wire' : wire'[k].of # 0
  BY <1>1, WireOrigins
<1>5. arming' = 0
  <2>1. ArmingTasks = 0
    BY DEF ArmingTasks
  <2>2. UNCHANGED arming \/ arming' = arming + ArmingTasks
    <3>1. ~SubmitArm
      BY <1>1 DEF SubmitArm
    <3> QED
      BY <3>1 DEF Next, vars, Submit, Write, WriteFails, ReadIdle, ReadPending, Timeout, Eof,
             Shutdown, Reopen, ReopenFails, RadioObeys, RadioPushes, Drop
  <2> QED
    BY <1>1, <2>1, <2>2
<1>6. ~armed' /\ UNCHANGED pushes
  <2>1. ASSUME NEW err \in BOOLEAN, RadioObeys(err) PROVE ~armed' /\ UNCHANGED pushes
    <3>1. Head(inbox) = inbox[1] /\ 1 \in DOMAIN inbox
      BY <2>1, TailPart DEF RadioObeys, LinkTypeOK
    <3>2. Head(inbox).kind # "arm"
      BY <1>1, <3>1
    <3>3. armed' => armed \/ Head(inbox).kind = "arm"
      BY <2>1 DEF RadioObeys, IsArm
    <3>4. UNCHANGED pushes
      BY <2>1 DEF RadioObeys
    <3> QED
      BY <1>1, <3>2, <3>3, <3>4, Zenon
  <2>2. ASSUME NEW v \in Verbs, RadioPushes(v) PROVE FALSE
    BY <1>1, <2>2 DEF RadioPushes
  <2>3. CASE Drop
    <3>1. armed' \in {armed, FALSE} /\ UNCHANGED pushes /\ armed \in BOOLEAN
      BY <2>3 DEF Drop, LinkTypeOK
    <3>2. armed = FALSE
      BY <1>1, <3>1
    <3>3. armed' = FALSE
      BY <3>1, <3>2
    <3> QED
      BY <3>1, <3>3
  <2>4. ASSUME UNCHANGED <<armed, pushes>> PROVE ~armed' /\ UNCHANGED pushes
    BY <1>1, <2>4
  <2>5. CASE \/ UNCHANGED vars \/ SubmitArm \/ Write \/ WriteFails \/ ReadIdle \/ ReadPending \/ Timeout
             \/ Eof \/ Shutdown \/ Reopen \/ ReopenFails
             \/ \E c \in Callers, k \in {"get", "set"}, v \in Verbs \cup {"none"} : Submit(c, k, v)
    BY <2>4, <2>5 DEF vars, radioVars, SubmitArm, Write, WriteFails, ReadIdle, ReadPending, Timeout, Eof,
           Shutdown, Reopen, ReopenFails, Submit
  <2> QED
    BY <2>1, <2>2, <2>3, <2>5 DEF Next
<1> QED
  BY <1>1, <1>2, <1>3, <1>4, <1>5, <1>6

\* A transport that is left, or about to be, was closed at the far end.
Closed == (cut => drops > 0) /\ (conn = "down" => cut)

\* No step leaves a transport that is not closed.
LEMMA NextClosed == LinkTypeOK /\ Closed /\ [Next]_vars => Closed'
<1> SUFFICES ASSUME LinkTypeOK, Closed, [Next]_vars PROVE Closed'
  OBVIOUS
<1>1. drops \in Nat
  BY DEF LinkTypeOK
<1>2. CASE UNCHANGED vars
  BY <1>2 DEF vars, supVars, Closed
<1>3. ASSUME UNCHANGED <<conn, cut, drops>> PROVE Closed'
  BY <1>3 DEF Closed
<1>4. CASE \/ SubmitArm \/ Write \/ ReadIdle \/ ReadPending \/ Timeout \/ ReopenFails
           \/ \E c \in Callers, k \in {"get", "set"}, v \in Verbs \cup {"none"} : Submit(c, k, v)
           \/ \E err \in BOOLEAN : RadioObeys(err)
           \/ \E v \in Verbs : RadioPushes(v)
  BY <1>3, <1>4 DEF SubmitArm, Write, ReadIdle, ReadPending, Timeout, ReopenFails, Submit, RadioObeys, RadioPushes, supVars
<1>5. CASE WriteFails \/ Eof
  BY <1>5 DEF WriteFails, Eof, Leave, Closed
<1>6. CASE Shutdown \/ Reopen
  BY <1>6 DEF Shutdown, Reopen, Closed
<1>7. CASE Drop
  BY <1>1, <1>7 DEF Drop, Closed
<1> QED
  BY <1>2, <1>4, <1>5, <1>6, <1>7 DEF Next

\* What is on the line, or at the radio, was submitted before all that waits in the
\* channel.
Older ==
  /\ \A k \in DOMAIN wire : wire[k].of < nextId /\ \A l \in DOMAIN queue : Real(l) => wire[k].of < queue[l].id
  /\ \A k \in DOMAIN inbox : inbox[k].id < nextId /\ \A l \in DOMAIN queue : Real(l) => inbox[k].id < queue[l].id

\* Also of an id x that is older than the channel: it stays so.
LEMMA StaysOlder ==
  ASSUME LinkTypeOK, [Next]_vars, NEW x \in Nat, x < nextId,
         \A l \in DOMAIN queue : Real(l) => x < queue[l].id
  PROVE  x < nextId' /\ \A l \in DOMAIN queue' : Real(l)' => x < queue'[l].id
<1>1. nextId' = nextId \/ nextId' = nextId + 1
  BY DEF Next, vars, Submit, SubmitArm, Write, WriteFails, ReadIdle, ReadPending, Timeout, Eof,
         Shutdown, Reopen, ReopenFails, RadioObeys, RadioPushes, Drop
<1>2. nextId \in Nat
  BY DEF LinkTypeOK
<1>3. \A l \in DOMAIN queue' : Real(l)' => x < queue'[l].id
  BY Origins DEF Real
<1> QED
  BY <1>1, <1>2, <1>3

\* No step puts a younger command on the line while an older one waits.
LEMMA NextOlder == LinkTypeOK /\ Books /\ Older /\ [Next]_vars => Older'
<1> SUFFICES ASSUME LinkTypeOK, Books, Older, [Next]_vars PROVE Older'
  OBVIOUS
<1> DEFINE Old(x) == x < nextId /\ \A l \in DOMAIN queue : Real(l) => x < queue[l].id
           OldNext(x) == x < nextId' /\ \A l \in DOMAIN queue' : Real(l)' => x < queue'[l].id
<1>1. /\ queue \in Seq(Command) /\ wire \in Seq(Frame) /\ inbox \in Seq(Command)
      /\ queue' \in Seq(Command) /\ nextId \in Nat \ {0}
  BY NextTyped DEF LinkTypeOK
<1>2. /\ \A k \in DOMAIN wire : Old(wire[k].of) /\ wire[k].of \in Nat
      /\ \A k \in DOMAIN inbox : Old(inbox[k].id) /\ inbox[k].id \in Nat
  <2>1. /\ \A k \in DOMAIN wire : wire[k] \in Frame
        /\ \A k \in DOMAIN inbox : inbox[k] \in Command
    BY <1>1
  <2> QED
    BY <2>1 DEF Older, Frame, Command, CmdIds
<1>3. \A x \in Nat : Old(x) => OldNext(x)
  BY StaysOlder
<1>4. Old(0)
  <2>1. \A l \in DOMAIN queue : queue[l] \in Command
    BY <1>1
  <2> QED
    BY <1>1, <2>1 DEF Real, Command, CmdIds
<1>5. \A k \in DOMAIN wire' : OldNext(wire'[k].of)
  <2>1. \A k \in DOMAIN wire' :
          \/ \E l \in DOMAIN wire : wire'[k] = wire[l]
          \/ 1 \in DOMAIN inbox /\ wire'[k].of = inbox[1].id
          \/ wire'[k].of = 0
    BY WireOrigins
  <2> QED
    BY <1>2, <1>3, <1>4, <2>1
<1>6. \A k \in DOMAIN inbox' : OldNext(inbox'[k].id)
  <2> SUFFICES ASSUME NEW k \in DOMAIN inbox' PROVE OldNext(inbox'[k].id)
    OBVIOUS
  <2>1. CASE \E l \in DOMAIN inbox : inbox'[k] = inbox[l]
    BY <1>2, <1>3, <2>1
  <2>2. CASE Write /\ queue # <<>> /\ inbox'[k] = queue[1]
    <3>1. /\ queue' = Tail(queue) /\ nextId' = nextId /\ queue[1] \in Command /\ 1 \in DOMAIN queue
      BY <1>1, <2>2 DEF Write
    <3>2. queue[1].id \in Nat /\ (queue[1].id = 0 \/ Real(1))
      BY <3>1 DEF Command, CmdIds, Real
    <3>3. \A l \in DOMAIN queue' : l + 1 \in DOMAIN queue /\ queue'[l] = queue[l + 1] /\ l + 1 > 1
      BY <1>1, <2>2, <3>1
    <3>4. queue[1].id < nextId
      BY <1>1, <3>1, <3>2 DEF Books, Waiting
    <3>5. \A l \in DOMAIN queue' : Real(l)' => queue[1].id < queue'[l].id
      <4> SUFFICES ASSUME NEW l \in DOMAIN queue', Real(l)' PROVE queue[1].id < queue'[l].id
        OBVIOUS
      <4>1. Real(l + 1) /\ queue'[l] \in Command
        BY <1>1, <3>3 DEF Real
      <4>2. queue'[l].id \in Nat /\ queue'[l].id # 0
        BY <4>1 DEF Command, CmdIds, Real
      <4> QED
        BY <3>1, <3>2, <3>3, <4>1, <4>2 DEF Books, Before
    <3> QED
      BY <2>2, <3>1, <3>4, <3>5
  <2>3. (\E l \in DOMAIN inbox : inbox'[k] = inbox[l]) \/ (Write /\ queue # <<>> /\ inbox'[k] = queue[1])
    <3>1. CASE Write
      <4>1. queue # <<>>
        BY <3>1 DEF Write
      <4> QED
        BY <3>1, <4>1, Origins
    <3>2. CASE \E err \in BOOLEAN : RadioObeys(err)
      <4>1. inbox # <<>> /\ inbox' = Tail(inbox)
        BY <3>2 DEF RadioObeys
      <4> QED
        BY <1>1, <4>1, TailPart DEF Part
    <3>3. CASE WriteFails \/ Eof \/ Drop
      <4>1. inbox' = <<>>
        BY <3>3 DEF WriteFails, Eof, Drop, Leave
      <4> QED
        BY <4>1
    <3>4. CASE \/ UNCHANGED vars \/ SubmitArm \/ ReadIdle \/ ReadPending \/ Timeout \/ Shutdown \/ Reopen \/ ReopenFails
               \/ \E c \in Callers, i \in {"get", "set"}, v \in Verbs \cup {"none"} : Submit(c, i, v)
               \/ \E v \in Verbs : RadioPushes(v)
      <4>1. inbox' = inbox
        BY <3>4 DEF vars, radioVars, SubmitArm, ReadIdle, ReadPending, Timeout, Shutdown, Reopen, ReopenFails, Submit, RadioPushes
      <4> QED
        BY <4>1
    <3> QED
      BY <3>1, <3>2, <3>3, <3>4 DEF Next
  <2> QED
    BY <2>1, <2>2, <2>3
<1> QED
  BY <1>5, <1>6 DEF Older, Real

------------------------------------------------------------------------------
\* A Kenwood answers with one frame: the command in flight waits for that one.
Single ==
  style = "verbs" /\ pending # NoCmd => pending.got = <<>> /\ pending.left = 1 /\ pending.cmd.kind = "get"

\* In the verbs style no second frame is awaited.
LEMMA NextSingle == LinkTypeOK /\ Single /\ [Next]_vars => Single'
<1> SUFFICES ASSUME LinkTypeOK, Single, [Next]_vars, style = "verbs", pending' # NoCmd
             PROVE  pending'.got = <<>> /\ pending'.left = 1 /\ pending'.cmd.kind = "get"
  BY Origins DEF Single
<1>1. ASSUME UNCHANGED pending PROVE pending'.got = <<>> /\ pending'.left = 1 /\ pending'.cmd.kind = "get"
  BY <1>1 DEF Single
<1>2. CASE Write
  <2>1. \/ UNCHANGED pending
        \/ /\ Expected(Head(queue)) # 0
           /\ pending' = [cmd |-> Head(queue), left |-> Expected(Head(queue)), got |-> <<>>]
    BY <1>2 DEF Write
  <2>2. Expected(Head(queue)) # 0 => Expected(Head(queue)) = 1 /\ Head(queue).kind = "get"
    BY DEF Expected
  <2> QED
    BY <1>1, <2>1, <2>2
<1>3. CASE ReadPending
  BY <1>1, <1>3 DEF ReadPending, Completes, Single
<1>4. CASE WriteFails \/ Timeout \/ Eof
  BY <1>1, <1>4 DEF WriteFails, Timeout, Eof
<1>5. CASE \/ UNCHANGED vars \/ SubmitArm \/ ReadIdle \/ Shutdown \/ Reopen \/ ReopenFails \/ Drop
           \/ \E c \in Callers, i \in {"get", "set"}, v \in Verbs \cup {"none"} : Submit(c, i, v)
           \/ \E err \in BOOLEAN : RadioObeys(err)
           \/ \E v \in Verbs : RadioPushes(v)
  BY <1>1, <1>5 DEF vars, SubmitArm, ReadIdle, Shutdown, Reopen, ReopenFails, Drop, Submit, RadioObeys, RadioPushes
<1> QED
  BY <1>2, <1>3, <1>4, <1>5 DEF Next

\* Pushed frames are on the line in the order they were pushed, behind those that
\* were routed.
Numbers ==
  /\ \A k, l \in DOMAIN wire : k < l /\ wire[k].push # 0 /\ wire[l].push # 0 => wire[k].push < wire[l].push
  /\ \A k \in DOMAIN routed : \A l \in DOMAIN wire : wire[l].push # 0 => routed[k] < wire[l].push
  /\ \A k, l \in DOMAIN routed : k < l => routed[k] < routed[l]
  /\ \A l \in DOMAIN wire : wire[l].push <= pushes
  /\ \A l \in DOMAIN routed : routed[l] <= pushes

\* What a step does to the pushed frames: nothing, but that some may be lost; the oldest
\* is routed; an answer goes behind them; or another is pushed.
LEMMA WireSteps ==
  ASSUME LinkTypeOK, [Next]_vars
  PROVE  \/ UNCHANGED <<pushes, routed>> /\ \E d \in {0, 1} : Part(wire', wire, d)
         \/ /\ wire # <<>> /\ wire' = Tail(wire) /\ UNCHANGED pushes
            /\ wire[1].push # 0 /\ routed' = Append(routed, wire[1].push)
         \/ /\ UNCHANGED <<pushes, routed>>
            /\ \A k \in DOMAIN wire' : (k \in DOMAIN wire /\ wire'[k] = wire[k]) \/ wire'[k].push = 0
         \/ /\ UNCHANGED routed /\ pushes' = pushes + 1
            /\ \E f : f.push = pushes + 1 /\ Grown(wire', wire, f)
<1>1. wire \in Seq(Frame) /\ inbox \in Seq(Command) /\ style \in {"verbs", "lines"} /\ DOMAIN wire \subseteq Nat
  BY DEF LinkTypeOK
<1>2. ASSUME UNCHANGED wire \/ wire' = <<>> PROVE Part(wire', wire, 0)
  <2>1. \A k \in DOMAIN wire : k + 0 = k
    BY <1>1
  <2> QED
    BY <1>2, <2>1 DEF Part
<1>3. CASE ReadIdle \/ ReadPending
  <2>1. wire # <<>> /\ wire' = Tail(wire) /\ UNCHANGED pushes
    BY <1>3 DEF ReadIdle, ReadPending
  <2>2. Part(wire', wire, 1) /\ Head(wire) = wire[1]
    BY <1>1, <2>1, TailPart
  <2>3. UNCHANGED routed \/ RouteEvent(wire[1])
    BY <1>3, <2>2 DEF ReadIdle, ReadPending
  <2>4. UNCHANGED routed \/ (wire[1].push # 0 /\ routed' = Append(routed, wire[1].push))
    BY <2>3 DEF RouteEvent
  <2> QED
    BY <2>1, <2>2, <2>4
<1>4. ASSUME NEW err \in BOOLEAN, RadioObeys(err)
      PROVE  /\ UNCHANGED <<pushes, routed>>
             /\ \A k \in DOMAIN wire' : (k \in DOMAIN wire /\ wire'[k] = wire[k]) \/ wire'[k].push = 0
  <2> DEFINE cmd == Head(inbox)
             new == LinesOf(cmd, err)
  <2>1. inbox # <<>> /\ (wire' = wire \/ wire' = wire \o new) /\ UNCHANGED <<pushes, routed>>
    BY <1>4 DEF RadioObeys
  <2>2. cmd = inbox[1] /\ 1 \in DOMAIN inbox /\ cmd \in Command
    BY <1>1, <2>1, TailPart
  <2>3. new \in Seq(Frame)
    BY <1>1, <2>2, LinesTyped
  <2>4. \A k \in DOMAIN new : new[k].push = 0
    <3>1. cmd.kind \in {"get", "set", "arm"}
      BY <2>2 DEF Command
    <3>2. CASE style = "verbs"
      BY <3>1, <3>2 DEF LinesOf
    <3>3. CASE style = "lines" /\ (err \/ cmd.kind # "get")
      BY <3>3 DEF LinesOf
    <3>4. CASE style = "lines" /\ ~err /\ cmd.kind = "get"
      BY <3>4 DEF LinesOf
    <3> QED
      BY <1>1, <3>2, <3>3, <3>4
  <2>5. CASE wire' = wire \o new
    <3> SUFFICES ASSUME NEW k \in DOMAIN wire' PROVE (k \in DOMAIN wire /\ wire'[k] = wire[k]) \/ wire'[k].push = 0
      BY <2>1
    <3> HIDE DEF new
    <3>1. k \in DOMAIN wire \/ (k - Len(wire) \in DOMAIN new /\ wire'[k] = new[k - Len(wire)])
      BY <1>1, <2>3, <2>5
    <3>2. k \in DOMAIN wire => wire'[k] = wire[k]
      BY <1>1, <2>3, <2>5
    <3> QED
      BY <2>4, <3>1, <3>2
  <2> QED
    BY <2>1, <2>5
<1>5. ASSUME NEW v \in Verbs, RadioPushes(v)
      PROVE  /\ UNCHANGED routed /\ pushes' = pushes + 1
             /\ \E f : f.push = pushes + 1 /\ Grown(wire', wire, f)
  <2>1. /\ UNCHANGED routed /\ pushes' = pushes + 1
        /\ wire' = Append(wire, [verb |-> v, of |-> 0, push |-> pushes + 1])
    BY <1>5 DEF RadioPushes
  <2>2. Grown(wire', wire, [verb |-> v, of |-> 0, push |-> pushes + 1])
    BY <1>1, <2>1, AppendGrown
  <2> QED
    BY <2>1, <2>2
<1>6. CASE Drop
  <2>1. PICK n \in 0 .. Len(wire) : wire' = SubSeq(wire, 1, n)
    BY <1>6 DEF Drop
  <2>2. Part(wire', wire, 0)
    BY <1>1, <2>1 DEF Part
  <2> QED
    BY <1>6, <2>2 DEF Drop
<1>7. CASE WriteFails \/ Eof
  BY <1>2, <1>7 DEF WriteFails, Eof, Leave
<1>8. CASE \/ UNCHANGED vars \/ SubmitArm \/ Write \/ Timeout \/ Shutdown \/ Reopen \/ ReopenFails
           \/ \E c \in Callers, k \in {"get", "set"}, v \in Verbs \cup {"none"} : Submit(c, k, v)
  BY <1>2, <1>8 DEF vars, radioVars, SubmitArm, Write, Timeout, Shutdown, Reopen, ReopenFails, Submit
<1> QED
  BY <1>3, <1>4, <1>5, <1>6, <1>7, <1>8 DEF Next

\* No step changes the order of the pushed frames.
LEMMA NextNumbers == LinkTypeOK /\ Numbers /\ [Next]_vars => Numbers'
<1> SUFFICES ASSUME LinkTypeOK, Numbers, [Next]_vars PROVE Numbers'
  OBVIOUS
<1>1. /\ wire \in Seq(Frame) /\ routed \in Seq(1 .. MaxPush) /\ pushes \in Nat
      /\ wire' \in Seq(Frame) /\ routed' \in Seq(1 .. MaxPush)
  BY NextTyped DEF LinkTypeOK
<1>2. /\ \A k \in DOMAIN wire : wire[k] \in Frame
      /\ \A k \in DOMAIN wire' : wire'[k] \in Frame
      /\ \A k \in DOMAIN routed : routed[k] \in Nat
      /\ DOMAIN wire \subseteq Nat /\ DOMAIN wire' \subseteq Nat /\ DOMAIN routed \subseteq Nat
  BY <1>1
<1>3. /\ \A k \in DOMAIN wire : wire[k].push \in Nat
      /\ \A k \in DOMAIN wire' : wire'[k].push \in Nat
  BY <1>2 DEF Frame
<1> DEFINE N1 == \A k, l \in DOMAIN wire : k < l /\ wire[k].push # 0 /\ wire[l].push # 0 => wire[k].push < wire[l].push
           N2 == \A k \in DOMAIN routed : \A l \in DOMAIN wire : wire[l].push # 0 => routed[k] < wire[l].push
           N3 == \A k, l \in DOMAIN routed : k < l => routed[k] < routed[l]
           N4 == \A l \in DOMAIN wire : wire[l].push <= pushes
           N5 == \A l \in DOMAIN routed : routed[l] <= pushes
<1>8. N1 /\ N2 /\ N3 /\ N4 /\ N5
  BY DEF Numbers
<1>9. N1' /\ N2' /\ N3' /\ N4' /\ N5' => Numbers'
  BY DEF Numbers
<1>4. ASSUME NEW d \in {0, 1}, Part(wire', wire, d), UNCHANGED <<pushes, routed>> PROVE Numbers'
  <2>1. \A k \in DOMAIN wire' : k + d \in DOMAIN wire /\ wire'[k] = wire[k + d]
    BY <1>4 DEF Part
  <2>2. N1'
    <3> SUFFICES ASSUME NEW k \in DOMAIN wire', NEW l \in DOMAIN wire', k < l, wire'[k].push # 0, wire'[l].push # 0
                 PROVE  wire'[k].push < wire'[l].push
      OBVIOUS
    <3>1. k + d < l + d
      BY <1>2
    <3>2. wire[k + d].push < wire[l + d].push
      BY <1>8, <2>1, <3>1
    <3> QED
      BY <2>1, <3>2
  <2>3. N2' /\ N4'
    BY <1>4, <1>8, <2>1
  <2> QED
    BY <1>4, <1>8, <1>9, <2>2, <2>3
<1>5. CASE /\ wire # <<>> /\ wire' = Tail(wire) /\ UNCHANGED pushes
           /\ wire[1].push # 0 /\ routed' = Append(routed, wire[1].push)
  <2>1. \A k \in DOMAIN wire' : k + 1 \in DOMAIN wire /\ wire'[k] = wire[k + 1] /\ 1 < k + 1
    BY <1>1, <1>5
  <2>2. 1 \in DOMAIN wire
    BY <1>1, <1>5, TailPart
  <2>3. N1'
    <3> SUFFICES ASSUME NEW k \in DOMAIN wire', NEW l \in DOMAIN wire', k < l, wire'[k].push # 0, wire'[l].push # 0
                 PROVE  wire'[k].push < wire'[l].push
      OBVIOUS
    <3>1. k + 1 < l + 1
      BY <1>2
    <3>2. wire[k + 1].push < wire[l + 1].push
      BY <1>8, <2>1, <3>1
    <3> QED
      BY <2>1, <3>2
  <2>4. Grown(routed', routed, wire[1].push)
    BY <1>1, <1>5, AppendGrown
  <2>5. \A k \in DOMAIN routed' : (k \in DOMAIN routed /\ routed'[k] = routed[k]) \/ (k = Len(routed) + 1 /\ routed'[k] = wire[1].push)
    BY <2>4 DEF Grown
  <2>6. \A l \in DOMAIN wire' : wire'[l].push # 0 => wire[1].push < wire'[l].push
    BY <1>5, <1>8, <2>1, <2>2
  <2>7. N2'
    <3> SUFFICES ASSUME NEW k \in DOMAIN routed', NEW l \in DOMAIN wire', wire'[l].push # 0
                 PROVE  routed'[k] < wire'[l].push
      OBVIOUS
    <3>1. CASE k \in DOMAIN routed /\ routed'[k] = routed[k]
      <4>1. routed[k] < wire[l + 1].push
        BY <1>8, <2>1, <3>1
      <4> QED
        BY <2>1, <3>1, <4>1
    <3>2. CASE routed'[k] = wire[1].push
      BY <2>6, <3>2
    <3> QED
      BY <2>5, <3>1, <3>2
  <2>8. \A k \in DOMAIN routed : k < Len(routed) + 1 /\ ~(Len(routed) + 1 < k) /\ routed[k] < wire[1].push
    BY <1>1, <1>5, <1>8, <2>2
  <2>9. N3'
    <3> SUFFICES ASSUME NEW k \in DOMAIN routed', NEW l \in DOMAIN routed', k < l
                 PROVE  routed'[k] < routed'[l]
      OBVIOUS
    <3>1. k \in DOMAIN routed /\ routed'[k] = routed[k]
      <4>1. Len(routed) \in Nat
        BY <1>1
      <4> QED
        BY <2>5, <2>8, <4>1
    <3>2. CASE l \in DOMAIN routed /\ routed'[l] = routed[l]
      BY <1>8, <3>1, <3>2
    <3>3. CASE routed'[l] = wire[1].push
      BY <2>8, <3>1, <3>3
    <3> QED
      BY <2>5, <3>2, <3>3
  <2>10. N4' /\ N5'
    BY <1>5, <1>8, <2>1, <2>2, <2>5
  <2> QED
    BY <1>9, <2>3, <2>7, <2>9, <2>10
<1>6. CASE /\ UNCHANGED <<pushes, routed>>
           /\ \A k \in DOMAIN wire' : (k \in DOMAIN wire /\ wire'[k] = wire[k]) \/ wire'[k].push = 0
  BY <1>1, <1>6, <1>8, <1>9
<1>7. ASSUME UNCHANGED routed, pushes' = pushes + 1, NEW f, f.push = pushes + 1, Grown(wire', wire, f)
      PROVE  Numbers'
  <2>1. \A k \in DOMAIN wire' : (k \in DOMAIN wire /\ wire'[k] = wire[k]) \/ (k = Len(wire) + 1 /\ wire'[k].push = pushes + 1)
    BY <1>7 DEF Grown
  <2>2. \A k \in DOMAIN wire : ~(Len(wire) + 1 < k) /\ wire[k].push < pushes + 1
    BY <1>1, <1>3, <1>8
  <2>3. N1'
    <3> SUFFICES ASSUME NEW k \in DOMAIN wire', NEW l \in DOMAIN wire', k < l, wire'[k].push # 0, wire'[l].push # 0
                 PROVE  wire'[k].push < wire'[l].push
      OBVIOUS
    <3>1. k \in DOMAIN wire /\ wire'[k] = wire[k]
      <4>1. Len(wire) \in Nat
        BY <1>1
      <4> QED
        BY <2>1, <2>2, <4>1
    <3>2. CASE l \in DOMAIN wire /\ wire'[l] = wire[l]
      BY <1>8, <3>1, <3>2
    <3>3. CASE wire'[l].push = pushes + 1
      BY <2>2, <3>1, <3>3
    <3> QED
      BY <2>1, <3>2, <3>3
  <2>4. \A l \in DOMAIN routed : routed[l] < pushes + 1
    BY <1>1, <1>2, <1>8
  <2>5. N2'
    BY <1>7, <1>8, <2>1, <2>4
  <2>6. ASSUME NEW l \in DOMAIN wire' PROVE wire'[l].push <= pushes'
    <3>1. CASE l \in DOMAIN wire /\ wire'[l] = wire[l]
      <4>1. wire[l].push \in Nat /\ wire[l].push < pushes + 1
        BY <1>3, <2>2, <3>1
      <4> QED
        BY <1>1, <1>7, <3>1, <4>1
    <3>2. CASE wire'[l].push = pushes + 1
      BY <1>1, <1>7, <3>2
    <3> QED
      BY <2>1, <3>1, <3>2
  <2>7. N3' /\ N5'
    BY <1>1, <1>2, <1>7, <1>8
  <2> QED
    BY <1>9, <2>3, <2>5, <2>6, <2>7
<1> QED
  BY <1>4, <1>5, <1>6, <1>7, WireSteps

\* The part of PushesKept about frames that are neither lost nor waiting.
Kept(p) ==
  \/ p \in Range(routed)
  \/ \E k \in DOMAIN wire : wire[k].push = p
  \/ \E i \in CmdIds : \E k \in DOMAIN answer[i].got : answer[i].got[k].push = p

\* While no transport closed, no step loses a pushed frame.
LEMMA NextKept ==
  ASSUME LinkTypeOK, Books, Blank, Kinds, Silent, Closed, Single, [Next]_vars, drops' = 0,
         drops = 0 => \A p \in 1 .. pushes : Kept(p)
  PROVE  \A p \in 1 .. pushes' : Kept(p)'
<1>1. drops = 0 /\ ~cut /\ conn # "down" /\ ~Drop
  <2>1. drops \in Nat
    BY DEF LinkTypeOK
  <2>2. drops' = drops \/ drops' = drops + 1
    BY DEF Next, vars, supVars, Submit, SubmitArm, Write, WriteFails, ReadIdle, ReadPending, Timeout, Eof,
         Shutdown, Reopen, ReopenFails, RadioObeys, RadioPushes, Drop
  <2>3. drops = 0
    BY <2>1, <2>2
  <2> QED
    BY <2>1, <2>3 DEF Closed, Drop
<1>2. /\ wire \in Seq(Frame) /\ routed \in Seq(1 .. MaxPush) /\ pushes \in Nat /\ style \in {"verbs", "lines"}
      /\ answer \in [CmdIds -> Answers]
  BY DEF LinkTypeOK, Answers
<1>3. ASSUME NEW p, p \in Range(routed) PROVE p \in Range(routed')
  <2>1. routed' = routed \/ \E f : routed' = Append(routed, f)
    BY DEF Next, vars, Submit, SubmitArm, Write, WriteFails, ReadIdle, ReadPending, Timeout, Eof, RouteEvent,
         Shutdown, Reopen, ReopenFails, RadioObeys, RadioPushes, Drop
  <2>2. CASE routed' = routed
    BY <1>3, <2>2
  <2>3. ASSUME NEW f, routed' = Append(routed, f) PROVE p \in Range(routed')
    <3>1. Grown(routed', routed, f)
      BY <1>2, <2>3, AppendGrown
    <3>2. PICK k \in DOMAIN routed : routed[k] = p
      BY <1>3 DEF Range
    <3>3. k \in DOMAIN routed' /\ routed'[k] = p
      BY <3>1, <3>2 DEF Grown
    <3> QED
      BY <3>3 DEF Range
  <2> QED
    BY <2>1, <2>2, <2>3
<1>4. ASSUME NEW p, NEW i \in CmdIds, NEW k \in DOMAIN answer[i].got, answer[i].got[k].push = p
      PROVE  \E j \in CmdIds : \E l \in DOMAIN answer'[j].got : answer'[j].got[l].push = p
  <2>1. answer'[i] = answer[i]
    BY StaysDisplaced
  <2> QED
    BY <1>4, <2>1
<1>5. ASSUME NEW p \in 1 .. pushes, NEW k \in DOMAIN wire, wire[k].push = p PROVE Kept(p)'
  <2>1. CASE ReadIdle
    <3>1. wire # <<>> /\ wire' = Tail(wire) /\ RouteEvent(wire[1])
      BY <1>2, <2>1, TailPart DEF ReadIdle
    <3>2. CASE k = 1
      <4>1. routed' = Append(routed, wire[1].push)
        BY <1>5, <3>1, <3>2 DEF RouteEvent
      <4>2. Grown(routed', routed, wire[1].push)
        BY <1>2, <4>1, AppendGrown
      <4> QED
        BY <1>5, <3>2, <4>2 DEF Grown, Range, Kept
    <3>3. CASE k # 1
      <4>1. k - 1 \in DOMAIN wire' /\ wire'[k - 1] = wire[k]
        BY <1>2, <3>1, <3>3
      <4> QED
        BY <1>5, <4>1 DEF Kept
    <3> QED
      BY <3>2, <3>3
  <2>2. CASE ReadPending
    <3>1. wire # <<>> /\ wire' = Tail(wire) /\ pending # NoCmd /\ Head(wire) = wire[1]
      BY <1>2, <2>2, TailPart DEF ReadPending
    <3>2. CASE k = 1
      <4>1. style = "verbs"
        BY <1>2, <1>5 DEF Silent
      <4>2. pending.got = <<>> /\ pending.left = 1 /\ pending.cmd.kind = "get" /\ pending.cmd \in Command
        BY <3>1, <4>1 DEF Single, LinkTypeOK
      <4>3. pending.cmd.id \in CmdIds
        BY <3>1, <4>2 DEF Kinds, IdOf, IsArm, Command
      <4>4. CASE ~Matches(pending.cmd, wire[1])
        <5>1. routed' = Append(routed, wire[1].push)
          BY <1>5, <2>2, <3>1, <3>2, <4>4 DEF ReadPending, RouteEvent
        <5>2. Grown(routed', routed, wire[1].push)
          BY <1>2, <5>1, AppendGrown
        <5> QED
          BY <1>5, <3>2, <5>2 DEF Grown, Range, Kept
      <4>5. CASE Matches(pending.cmd, wire[1])
        <5>1. answer' = Noted(pending.cmd, "ok", Append(pending.got, wire[1]))
          BY <2>2, <3>1, <4>2, <4>5 DEF ReadPending, Completes, AnswerOf
        <5>2. answer'[pending.cmd.id].got = <<wire[1]>>
          BY <1>2, <4>2, <4>3, <5>1 DEF Noted, CmdIds
        <5>3. 1 \in DOMAIN answer'[pending.cmd.id].got /\ answer'[pending.cmd.id].got[1] = wire[1]
          BY <5>2
        <5> QED
          BY <1>5, <3>2, <4>3, <5>3 DEF Kept
      <4> QED
        BY <4>4, <4>5
    <3>3. CASE k # 1
      <4>1. k - 1 \in DOMAIN wire' /\ wire'[k - 1] = wire[k]
        BY <1>2, <3>1, <3>3
      <4> QED
        BY <1>5, <4>1 DEF Kept
    <3> QED
      BY <3>2, <3>3
  <2>3. ASSUME k \in DOMAIN wire', wire'[k] = wire[k] PROVE Kept(p)'
    BY <1>5, <2>3 DEF Kept
  <2>4. ASSUME NEW err \in BOOLEAN, RadioObeys(err) PROVE Kept(p)'
    <3>1. inbox # <<>> /\ Head(inbox) \in Command
      <4>1. PICK b \in Seq(Command) : b = inbox
        BY DEF LinkTypeOK
      <4>2. b # <<>>
        BY <2>4, <4>1 DEF RadioObeys
      <4> QED
        BY <4>1, <4>2
    <3>2. LinesOf(Head(inbox), err) \in Seq(Frame)
      BY <1>2, <3>1, LinesTyped
    <3>3. PICK new \in Seq(Frame) : wire' = wire \/ wire' = wire \o new
      BY <2>4, <3>2 DEF RadioObeys
    <3>4. k \in DOMAIN wire' /\ wire'[k] = wire[k]
      <4>1. wire \in Seq(Frame) /\ k \in 1 .. Len(wire)
        BY <1>2
      <4>2. CASE wire' = wire \o new
        BY <4>1, <4>2
      <4> QED
        BY <3>3, <4>2
    <3> QED
      BY <2>3, <3>4
  <2>5. ASSUME NEW v \in Verbs, RadioPushes(v) PROVE Kept(p)'
    <3>1. Grown(wire', wire, [verb |-> v, of |-> 0, push |-> pushes + 1])
      BY <1>2, <2>5, AppendGrown DEF RadioPushes
    <3> QED
      BY <2>3, <3>1 DEF Grown
  <2>6. ~WriteFails /\ ~Eof /\ ~Drop
    BY <1>1 DEF WriteFails, Eof
  <2>7. CASE \/ UNCHANGED vars \/ SubmitArm \/ Write \/ Timeout \/ Shutdown \/ Reopen \/ ReopenFails
             \/ \E c \in Callers, i \in {"get", "set"}, v \in Verbs \cup {"none"} : Submit(c, i, v)
    BY <2>3, <2>7 DEF vars, radioVars, SubmitArm, Write, Timeout, Shutdown, Reopen, ReopenFails, Submit
  <2> QED
    BY <2>1, <2>2, <2>4, <2>5, <2>6, <2>7 DEF Next
<1>6. ASSUME NEW p \in 1 .. pushes PROVE Kept(p)'
  <2>1. Kept(p)
    BY <1>1
  <2>2. CASE p \in Range(routed)
    BY <1>3, <2>2 DEF Kept
  <2>3. CASE \E k \in DOMAIN wire : wire[k].push = p
    BY <1>5, <2>3
  <2>4. CASE \E i \in CmdIds : \E k \in DOMAIN answer[i].got : answer[i].got[k].push = p
    BY <1>4, <2>4 DEF Kept
  <2> QED
    BY <2>1, <2>2, <2>3, <2>4 DEF Kept
<1>7. ASSUME NEW p \in 1 .. pushes', p \notin 1 .. pushes PROVE Kept(p)'
  <2>1. PICK f : pushes' = pushes + 1 /\ f.push = pushes + 1 /\ Grown(wire', wire, f)
    BY <1>7, WireSteps
  <2>2. p = pushes + 1
    BY <1>2, <1>7, <2>1
  <2> QED
    BY <2>1, <2>2 DEF Grown, Kept
<1> QED
  BY <1>6, <1>7

------------------------------------------------------------------------------
\* What is on its way of a command that is in flight no more was given up: the command
\* timed out, or was given the frame of another.
Due(i) == InFlight(i) \/ Displaced(i)

\* The steps by what they do to the line and to the command in flight.
Still ==
  /\ UNCHANGED <<pending, answer>>
  /\ \E d \in {0, 1} : Part(wire', wire, d)
  /\ \E e \in {0, 1} : Part(inbox', inbox, e)
Emptied == wire' = <<>> /\ inbox' = <<>> /\ pending' = NoCmd

LEMMA LineSteps ==
  ASSUME LinkTypeOK, [Next]_vars
  PROVE  \/ Still \/ Emptied \/ Write \/ Timeout
         \/ ReadPending /\ Matches(pending.cmd, Head(wire))
         \/ \E err \in BOOLEAN : /\ RadioObeys(err)
                                 /\ style = "verbs" => ~err /\ Head(inbox).kind = "get"
         \/ \E v \in Verbs : RadioPushes(v)
<1>1. /\ wire \in Seq(Frame) /\ inbox \in Seq(Command) /\ style \in {"verbs", "lines"}
      /\ DOMAIN wire \subseteq Nat /\ DOMAIN inbox \subseteq Nat
  BY DEF LinkTypeOK
<1>2. Part(wire, wire, 0) /\ Part(inbox, inbox, 0) /\ Part(<<>>, inbox, 0)
  BY <1>1 DEF Part
<1>3. ASSUME UNCHANGED <<pending, answer, wire, inbox>> PROVE Still
  BY <1>2, <1>3 DEF Still
<1>4. ASSUME UNCHANGED <<pending, answer, inbox>>, wire # <<>>, wire' = Tail(wire) PROVE Still
  <2>1. Part(wire', wire, 1)
    BY <1>1, <1>4, TailPart
  <2> QED
    BY <1>2, <1>4, <2>1 DEF Still
<1>5. ASSUME NEW err \in BOOLEAN, RadioObeys(err), ~(style = "verbs" => ~err /\ Head(inbox).kind = "get")
      PROVE  Still
  <2>1. UNCHANGED <<pending, answer>> /\ inbox # <<>> /\ inbox' = Tail(inbox)
    BY <1>5 DEF RadioObeys
  <2>2. wire' = wire
    <3>1. wire' = wire \/ (Head(inbox).kind # "get" /\ wire' = wire \o LinesOf(Head(inbox), err))
      BY <1>5 DEF RadioObeys
    <3>2. Head(inbox).kind # "get" => LinesOf(Head(inbox), err) = <<>>
      BY <1>5 DEF LinesOf
    <3>3. wire \o <<>> = wire
      BY <1>1
    <3> QED
      BY <3>1, <3>2, <3>3
  <2>3. Part(inbox', inbox, 1)
    BY <1>1, <2>1, TailPart
  <2> QED
    BY <1>2, <2>1, <2>2, <2>3 DEF Still
<1>6. CASE Drop
  <2>1. PICK n \in 0 .. Len(wire) : wire' = SubSeq(wire, 1, n)
    BY <1>6 DEF Drop
  <2>2. Part(wire', wire, 0)
    BY <1>1, <2>1 DEF Part
  <2>3. UNCHANGED <<pending, answer>> /\ inbox' = <<>>
    BY <1>6 DEF Drop
  <2> QED
    BY <1>2, <2>2, <2>3 DEF Still
<1>7. CASE ReadIdle
  BY <1>4, <1>7 DEF ReadIdle
<1>8. CASE ReadPending /\ ~Matches(pending.cmd, Head(wire))
  BY <1>4, <1>8 DEF ReadPending
<1>9. CASE WriteFails \/ Eof
  BY <1>9 DEF WriteFails, Eof, Leave, Emptied
<1>10. CASE \/ UNCHANGED vars \/ SubmitArm \/ Shutdown \/ Reopen \/ ReopenFails
            \/ \E c \in Callers, i \in {"get", "set"}, v \in Verbs \cup {"none"} : Submit(c, i, v)
  BY <1>3, <1>10 DEF vars, radioVars, SubmitArm, Shutdown, Reopen, ReopenFails, Submit
<1> QED
  BY <1>5, <1>6, <1>7, <1>8, <1>9, <1>10 DEF Next

\* A command that was answered, or is still in flight, stays due.
LEMMA StaysDue ==
  ASSUME LinkTypeOK, Books, Blank, [Next]_vars, NEW i \in CmdIds, Due(i),
         pending = NoCmd \/ UNCHANGED pending \/ pending.cmd.id # i
         \/ (pending' # NoCmd /\ pending'.cmd = pending.cmd)
  PROVE  Due(i)'
<1>1. CASE Displaced(i)
  BY <1>1, StaysDisplaced DEF Due
<1>2. CASE ~Displaced(i)
  BY <1>2 DEF Due, InFlight
<1> QED
  BY <1>1, <1>2

\* What times out was given up.
LEMMA TimeoutDue ==
  ASSUME LinkTypeOK, Books, Blank, Timeout, NEW i \in CmdIds, Due(i)
  PROVE  Due(i)'
<1>1. CASE pending.cmd.id # i
  <2>1. Next
    BY DEF Next
  <2> QED
    BY <1>1, <2>1, StaysDue
<1>2. CASE pending.cmd.id = i
  <2>1. answer' = Noted(pending.cmd, "timeout", <<>>) /\ answer \in [CmdIds -> Answers] /\ i # 0
    BY DEF Timeout, AnswerOf, LinkTypeOK, Answers, CmdIds
  <2>2. answer'[i].res = "timeout"
    BY <1>2, <2>1 DEF Noted
  <2> QED
    BY <2>2 DEF Due, Displaced
<1> QED
  BY <1>1, <1>2

Asks(k) == inbox[k].kind = "get"
\* A Kenwood answers a query at most once: the frame, the query not answered yet and
\* the command in flight of one id are never two of these.
VerbsLine ==
  style = "verbs" =>
    /\ \A k \in DOMAIN wire : wire[k].of # 0 => Due(wire[k].of)
    /\ \A k \in DOMAIN inbox : Asks(k) => Due(inbox[k].id)
    /\ \A k, l \in DOMAIN wire : k # l /\ wire[k].of # 0 => wire[k].of # wire[l].of
    /\ \A k, l \in DOMAIN inbox : k # l /\ Asks(k) /\ Asks(l) => inbox[k].id # inbox[l].id
    /\ \A k \in DOMAIN wire : \A l \in DOMAIN inbox : Asks(l) => wire[k].of # inbox[l].id

\* No step makes two frames, or a frame and a query, of one id.
LEMMA NextVerbsLine ==
  LinkTypeOK /\ Books /\ Blank /\ Kinds /\ Older /\ Single /\ VerbsLine /\ [Next]_vars => VerbsLine'
<1> SUFFICES ASSUME LinkTypeOK, Books, Blank, Kinds, Older, Single, VerbsLine, [Next]_vars, style = "verbs"
             PROVE  VerbsLine'
  BY Origins DEF VerbsLine
<1> DEFINE V1 == \A k \in DOMAIN wire : wire[k].of # 0 => Due(wire[k].of)
           V2 == \A k \in DOMAIN inbox : Asks(k) => Due(inbox[k].id)
           V3 == \A k, l \in DOMAIN wire : k # l /\ wire[k].of # 0 => wire[k].of # wire[l].of
           V4 == \A k, l \in DOMAIN inbox : k # l /\ Asks(k) /\ Asks(l) => inbox[k].id # inbox[l].id
           V5 == \A k \in DOMAIN wire : \A l \in DOMAIN inbox : Asks(l) => wire[k].of # inbox[l].id
<1>1. V1 /\ V2 /\ V3 /\ V4 /\ V5
  BY DEF VerbsLine
<1>2. V1' /\ V2' /\ V3' /\ V4' /\ V5' => VerbsLine'
  BY DEF VerbsLine
<1> HIDE DEF V1, V2, V3, V4, V5
<1>3. /\ wire \in Seq(Frame) /\ inbox \in Seq(Command) /\ queue \in Seq(Command)
      /\ answer \in [CmdIds -> Answers]
  BY DEF LinkTypeOK, Answers
<1>4. /\ \A k \in DOMAIN wire : wire[k] \in Frame
      /\ \A k \in DOMAIN inbox : inbox[k] \in Command
      /\ DOMAIN wire = 1 .. Len(wire) /\ DOMAIN inbox = 1 .. Len(inbox) /\ Len(wire) \in Nat /\ Len(inbox) \in Nat
  BY <1>3
<1>5. /\ \A k \in DOMAIN wire : wire[k].of # 0 => wire[k].of \in CmdIds
      /\ \A k \in DOMAIN inbox : Asks(k) => inbox[k].id \in CmdIds /\ inbox[k].id # 0
  BY <1>4 DEF Frame, Command, Kinds, IdOf, IsArm, Asks, CmdIds
<1>6. ASSUME UNCHANGED pending \/ pending = NoCmd \/ Timeout, NEW i \in CmdIds, Due(i) PROVE Due(i)'
  BY <1>6, StaysDue, TimeoutDue
\* Nothing was put on the line.
<1>7. ASSUME NEW d \in {0, 1}, NEW e \in {0, 1}, Part(wire', wire, d), Part(inbox', inbox, e),
             LinkTypeOK'
      PROVE  V3' /\ V4' /\ V5'
  <2>1. /\ \A k \in DOMAIN wire' : k + d \in DOMAIN wire /\ wire'[k] = wire[k + d] /\ k \in Nat
        /\ \A k \in DOMAIN inbox' : /\ k + e \in DOMAIN inbox /\ inbox'[k] = inbox[k + e] /\ k \in Nat
                                    /\ (Asks(k)' <=> Asks(k + e))
    <3>1. DOMAIN wire' \subseteq Nat /\ DOMAIN inbox' \subseteq Nat
      <4>1. wire' \in Seq(Frame) /\ inbox' \in Seq(Command)
        BY <1>7 DEF LinkTypeOK
      <4> QED
        BY <4>1
    <3>2. \A k \in DOMAIN wire' : k + d \in DOMAIN wire /\ wire'[k] = wire[k + d]
      BY <1>7 DEF Part
    <3>3. \A k \in DOMAIN inbox' : k + e \in DOMAIN inbox /\ inbox'[k] = inbox[k + e]
      BY <1>7 DEF Part
    <3> QED
      BY <3>1, <3>2, <3>3 DEF Asks
  <2>2. V3'
    <3> SUFFICES ASSUME NEW k \in DOMAIN wire', NEW l \in DOMAIN wire', k # l, wire'[k].of # 0
                 PROVE  wire'[k].of # wire'[l].of
      BY DEF V3
    <3>1. k + d # l + d
      BY <2>1
    <3> QED
      BY <1>1, <2>1, <3>1 DEF V3
  <2>3. V4'
    <3> SUFFICES ASSUME NEW k \in DOMAIN inbox', NEW l \in DOMAIN inbox', k # l, Asks(k)', Asks(l)'
                 PROVE  inbox'[k].id # inbox'[l].id
      BY DEF V4
    <3>1. k + e # l + e
      BY <2>1
    <3> QED
      BY <1>1, <2>1, <3>1 DEF V4
  <2>4. V5'
    <3> SUFFICES ASSUME NEW k \in DOMAIN wire', NEW l \in DOMAIN inbox', Asks(l)'
                 PROVE  wire'[k].of # inbox'[l].id
      BY DEF V5
    <3> QED
      BY <1>1, <2>1 DEF V5
  <2> QED
    BY <2>2, <2>3, <2>4
<1>8. CASE Still \/ Timeout
  <2>1. PICK d \in {0, 1}, e \in {0, 1} : Part(wire', wire, d) /\ Part(inbox', inbox, e)
    <3>1. CASE Still
      BY <3>1 DEF Still
    <3>2. CASE Timeout
      <4>1. UNCHANGED <<wire, inbox>>
        BY <3>2 DEF Timeout, radioVars
      <4>2. Part(wire, wire, 0) /\ Part(inbox, inbox, 0)
        BY <1>4 DEF Part
      <4> QED
        BY <4>1, <4>2
    <3> QED
      BY <1>8, <3>1, <3>2
  <2>2. V3' /\ V4' /\ V5'
    BY <1>7, <2>1, NextTyped
  <2>3. \A i \in CmdIds : Due(i) => Due(i)'
    BY <1>6, <1>8 DEF Still
  <2>4. V1'
    <3> SUFFICES ASSUME NEW k \in DOMAIN wire', wire'[k].of # 0 PROVE Due(wire[k].of)'
      BY DEF V1
    <3>1. k + d \in DOMAIN wire /\ wire'[k] = wire[k + d]
      BY <2>1 DEF Part
    <3>2. PICK i : i = wire'[k].of
      OBVIOUS
    <3>3. Due(i)'
      BY <1>1, <1>5, <2>3, <3>1, <3>2 DEF V1
    <3> QED
      BY <3>2, <3>3
  <2>5. V2'
    <3> SUFFICES ASSUME NEW k \in DOMAIN inbox', Asks(k)' PROVE Due(inbox[k].id)'
      BY DEF V2
    <3>1. k + e \in DOMAIN inbox /\ inbox'[k] = inbox[k + e] /\ Asks(k + e)
      BY <2>1 DEF Part, Asks
    <3>2. PICK i : i = inbox'[k].id
      OBVIOUS
    <3>3. Due(i)'
      BY <1>1, <1>5, <2>3, <3>1, <3>2 DEF V2
    <3> QED
      BY <3>2, <3>3
  <2> QED
    BY <1>2, <2>2, <2>4, <2>5
<1>9. CASE Emptied
  BY <1>2, <1>9 DEF Emptied, V1, V2, V3, V4, V5
<1>10. CASE Write
  <2>1. PICK cmd : cmd = Head(queue)
    OBVIOUS
  <2>2. /\ queue # <<>> /\ pending = NoCmd /\ UNCHANGED wire
        /\ inbox' = inbox \/ inbox' = Append(inbox, cmd)
    BY <1>10, <2>1 DEF Write
  <2>3. cmd = queue[1] /\ 1 \in DOMAIN queue /\ cmd \in Command
    BY <1>3, <2>1, <2>2, TailPart
  <2>4. V1' /\ V3'
    BY <1>1, <1>5, <1>6, <2>2 DEF V1, V3
  <2>5. CASE inbox' = inbox
    <3>1. V2' /\ V4' /\ V5'
      BY <1>1, <1>5, <1>6, <2>2, <2>5 DEF V2, V4, V5, Asks
    <3> QED
      BY <1>2, <2>4, <3>1
  <2>6. CASE inbox' = Append(inbox, cmd)
    <3>1. Grown(inbox', inbox, cmd)
      BY <1>3, <2>6, AppendGrown
    <3>2. \A k \in DOMAIN inbox' : (k \in DOMAIN inbox /\ inbox'[k] = inbox[k]) \/ (k = Len(inbox) + 1 /\ inbox'[k] = cmd)
      BY <3>1 DEF Grown
    <3>3. ASSUME cmd.kind = "get"
          PROVE  /\ cmd.id \in CmdIds
                 /\ \A k \in DOMAIN wire : wire[k].of # cmd.id
                 /\ \A k \in DOMAIN inbox : inbox[k].id # cmd.id
      <4>1. cmd.id # 0 /\ cmd.id \in CmdIds
        BY <2>3, <3>3 DEF Kinds, IdOf, IsArm, Command
      <4>2. /\ \A k \in DOMAIN wire : wire[k].of \in Nat
            /\ \A k \in DOMAIN inbox : inbox[k].id \in Nat
            /\ cmd.id \in Nat
        BY <1>4, <4>1 DEF Frame, Command, CmdIds
      <4>3. /\ \A k \in DOMAIN wire : wire[k].of < cmd.id
            /\ \A k \in DOMAIN inbox : inbox[k].id < cmd.id
        BY <2>3, <4>1 DEF Older, Real
      <4> QED
        BY <4>1, <4>2, <4>3
    <3>4. ASSUME cmd.kind = "get" PROVE Due(cmd.id)'
      <4>1. Expected(cmd) = 1
        BY <3>4 DEF Expected
      <4>2. pending' = [cmd |-> cmd, left |-> 1, got |-> <<>>]
        BY <1>10, <2>1, <4>1 DEF Write
      <4>3. [cmd |-> cmd, left |-> 1, got |-> <<>>] \in InFlightType
        BY <2>3 DEF InFlightType
      <4> QED
        BY <4>2, <4>3 DEF Due, InFlight, InFlightType
    <3>5. V2'
      <4> SUFFICES ASSUME NEW k \in DOMAIN inbox', Asks(k)' PROVE Due(inbox[k].id)'
        BY DEF V2
      <4>1. PICK i : i = inbox'[k].id
        OBVIOUS
      <4>2. CASE k \in DOMAIN inbox /\ inbox'[k] = inbox[k]
        <5>1. Due(i) /\ i \in CmdIds
          BY <1>1, <1>5, <4>1, <4>2 DEF V2, Asks
        <5> QED
          BY <1>6, <2>2, <4>1, <5>1
      <4>3. CASE inbox'[k] = cmd
        BY <3>4, <4>1, <4>3 DEF Asks
      <4> QED
        BY <3>2, <4>2, <4>3
    <3>6. V4' /\ V5'
      BY <1>1, <2>2, <3>2, <3>3 DEF V4, V5, Asks
    <3> QED
      BY <1>2, <2>4, <3>5, <3>6
  <2> QED
    BY <2>2, <2>5, <2>6
<1>11. CASE ReadPending /\ Matches(pending.cmd, Head(wire))
  <2>1. PICK f : f = Head(wire)
    OBVIOUS
  <2>2. /\ pending # NoCmd /\ wire # <<>> /\ wire' = Tail(wire) /\ UNCHANGED inbox
        /\ pending.got = <<>> /\ pending.left = 1 /\ pending.cmd.kind = "get" /\ pending.cmd \in Command
    BY <1>11 DEF ReadPending, Single, LinkTypeOK
  <2>3. f = wire[1] /\ 1 \in DOMAIN wire /\ \A k \in DOMAIN wire' : k + 1 \in DOMAIN wire /\ wire'[k] = wire[k + 1] /\ k + 1 # 1
    BY <1>3, <2>1, <2>2
  <2>4. pending' = NoCmd /\ answer' = Noted(pending.cmd, "ok", <<f>>)
    BY <1>11, <2>1, <2>2 DEF ReadPending, Completes, AnswerOf
  <2>5. PICK c : c = pending.cmd.id
    OBVIOUS
  <2>6. c \in CmdIds /\ c # 0
    BY <2>2, <2>5 DEF Kinds, IdOf, IsArm, Command, CmdIds
  <2>7. f.of # c => Due(c)'
    <3>1. answer'[c].got = <<f>>
      BY <1>3, <2>4, <2>5, <2>6 DEF Noted
    <3>2. 1 \in DOMAIN answer'[c].got /\ answer'[c].got[1] = f
      BY <3>1
    <3> QED
      BY <3>2 DEF Due, Displaced
  <2>8. \A i \in CmdIds : Due(i) /\ (i = c => f.of # c) => Due(i)'
    BY <2>5, <2>7, StaysDue
  <2>9. V1'
    <3> SUFFICES ASSUME NEW k \in DOMAIN wire', wire'[k].of # 0 PROVE Due(wire[k].of)'
      BY DEF V1
    <3>1. PICK i : i = wire'[k].of
      OBVIOUS
    <3>2. i \in CmdIds /\ Due(i) /\ i # f.of
      BY <1>1, <1>5, <2>3, <3>1 DEF V1, V3
    <3> QED
      BY <2>8, <3>1, <3>2
  <2>10. V2'
    <3> SUFFICES ASSUME NEW k \in DOMAIN inbox', Asks(k)' PROVE Due(inbox[k].id)'
      BY DEF V2
    <3>1. PICK i : i = inbox'[k].id
      OBVIOUS
    <3>2. i \in CmdIds /\ Due(i) /\ i # f.of
      BY <1>1, <1>5, <2>2, <2>3, <3>1 DEF V2, V5, Asks
    <3> QED
      BY <2>8, <3>1, <3>2
  <2>11. Part(wire', wire, 1) /\ Part(inbox', inbox, 0)
    BY <1>4, <2>2, <2>3 DEF Part
  <2>12. V3' /\ V4' /\ V5'
    BY <1>7, <2>11, NextTyped
  <2> QED
    BY <1>2, <2>9, <2>10, <2>12
<1>12. ASSUME NEW err \in BOOLEAN, RadioObeys(err), ~err, Head(inbox).kind = "get" PROVE VerbsLine'
  <2>1. PICK cmd : cmd = Head(inbox)
    OBVIOUS
  <2>2. PICK f : f = [verb |-> cmd.verb, of |-> cmd.id, push |-> 0]
    OBVIOUS
  <2>3. inbox # <<>> /\ inbox' = Tail(inbox) /\ UNCHANGED <<pending, answer>> /\ wire' = wire \o <<f>>
    BY <1>12, <2>1, <2>2 DEF RadioObeys, LinesOf
  <2>4. /\ cmd = inbox[1] /\ 1 \in DOMAIN inbox /\ Asks(1)
        /\ \A k \in DOMAIN inbox' : k + 1 \in DOMAIN inbox /\ inbox'[k] = inbox[k + 1] /\ k + 1 # 1
    BY <1>3, <1>12, <2>1, <2>3 DEF Asks
  <2>5. \A k \in DOMAIN wire' : (k \in DOMAIN wire /\ wire'[k] = wire[k]) \/ (k = Len(wire) + 1 /\ wire'[k] = f)
    BY <1>3, <2>3
  <2>6. f.of = cmd.id /\ cmd.id \in CmdIds /\ Due(cmd.id)
    BY <1>1, <1>5, <2>2, <2>4 DEF V2
  <2>7. \A i \in CmdIds : Due(i) => Due(i)'
    BY <1>6, <2>3
  <2>8. V1'
    <3> SUFFICES ASSUME NEW k \in DOMAIN wire', wire'[k].of # 0 PROVE Due(wire[k].of)'
      BY DEF V1
    <3>1. PICK i : i = wire'[k].of
      OBVIOUS
    <3>2. i \in CmdIds /\ Due(i)
      BY <1>1, <1>5, <2>5, <2>6, <3>1 DEF V1
    <3> QED
      BY <2>7, <3>1, <3>2
  <2>9. V2'
    <3> SUFFICES ASSUME NEW k \in DOMAIN inbox', Asks(k)' PROVE Due(inbox[k].id)'
      BY DEF V2
    <3>1. PICK i : i = inbox'[k].id
      OBVIOUS
    <3>2. i \in CmdIds /\ Due(i)
      BY <1>1, <1>5, <2>4, <3>1 DEF V2, Asks
    <3> QED
      BY <2>7, <3>1, <3>2
  <2>10. V3'
    BY <1>1, <2>4, <2>5, <2>6 DEF V3, V5
  <2>11. V4'
    <3> SUFFICES ASSUME NEW k \in DOMAIN inbox', NEW l \in DOMAIN inbox', k # l, Asks(k)', Asks(l)'
                 PROVE  inbox'[k].id # inbox'[l].id
      BY DEF V4
    <3>1. k + 1 # l + 1
      BY <1>3, <2>3
    <3> QED
      BY <1>1, <2>4, <3>1 DEF V4, Asks
  <2>12. V5'
    BY <1>1, <2>4, <2>5, <2>6 DEF V4, V5, Asks
  <2> QED
    BY <1>2, <2>8, <2>9, <2>10, <2>11, <2>12
<1>13. ASSUME NEW v \in Verbs, RadioPushes(v) PROVE VerbsLine'
  <2>1. PICK f : f = [verb |-> v, of |-> 0, push |-> pushes + 1]
    OBVIOUS
  <2>2. f.of = 0 /\ wire' = Append(wire, f) /\ UNCHANGED <<pending, answer, inbox>>
    BY <1>13, <2>1 DEF RadioPushes
  <2>3. \A k \in DOMAIN wire' : (k \in DOMAIN wire /\ wire'[k] = wire[k]) \/ (k = Len(wire) + 1 /\ wire'[k] = f)
    BY <1>3, <2>2
  <2>4. \A i \in CmdIds : Due(i) => Due(i)'
    BY <1>6, <2>2
  <2>5. V1' /\ V2'
    BY <1>1, <1>5, <2>2, <2>3, <2>4 DEF V1, V2, Asks
  <2>6. V3' /\ V4' /\ V5'
    BY <1>1, <1>5, <2>2, <2>3 DEF V3, V4, V5, Asks
  <2> QED
    BY <1>2, <2>5, <2>6
<1> QED
  BY <1>8, <1>9, <1>10, <1>11, <1>12, <1>13, LineSteps

------------------------------------------------------------------------------
\* A rigctld deals with its commands in their order, so that the lines it owes are read
\* in that order too: those of a command given up come before those of the command in
\* flight, and who was given only lines of his own was given them from the first.
Foreign(i, f) == f.of = i \/ (f.of \in 1 .. i - 1 /\ Displaced(f.of))
OwnOnly == \A k \in DOMAIN pending.got : pending.got[k].of = pending.cmd.id
LinesInOrder ==
  /\ \A k \in DOMAIN wire : Due(wire[k].of)
  /\ \A k \in DOMAIN inbox : Due(inbox[k].id)
  /\ \A k, l \in DOMAIN wire : k < l => wire[k].of <= wire[l].of
  /\ \A k, l \in DOMAIN inbox : k < l => inbox[k].id < inbox[l].id
  /\ \A k \in DOMAIN wire : \A l \in DOMAIN inbox : wire[k].of < inbox[l].id
LinesInFlight ==
  /\ \A k \in DOMAIN wire : wire[k].of <= pending.cmd.id
  /\ \A k \in DOMAIN inbox : inbox[k].id <= pending.cmd.id
  /\ \A k \in DOMAIN inbox : inbox[k].id = pending.cmd.id => inbox[k] = pending.cmd
  /\ \A k \in DOMAIN pending.got : Foreign(pending.cmd.id, pending.got[k])
  /\ OwnOnly =>
       /\ \A k \in DOMAIN inbox : inbox[k].id = pending.cmd.id => pending.left = Expected(pending.cmd)
       /\ \A k \in DOMAIN wire : wire[k].of = pending.cmd.id =>
            k + pending.left > Len(wire) /\ (wire[k].verb = "error" => k = Len(wire))
LinesLine == style = "lines" => LinesInOrder /\ (pending # NoCmd => LinesInFlight)

\* The lines a rigctld answers with are those of the command, and as many as are
\* awaited; fewer only if the first is an error line.
LEMMA LinesCount ==
  ASSUME LinkTypeOK, style = "lines", NEW cmd \in Command, NEW err \in BOOLEAN, cmd.kind # "arm"
  PROVE  \E new :
           /\ new \in Seq(Frame) /\ new = LinesOf(cmd, err)
           /\ Len(new) \in 1 .. Expected(cmd)
           /\ \A k \in DOMAIN new : new[k].of = cmd.id /\ (new[k].verb = "error" => Len(new) = 1)
<1>1. cmd.kind \in {"get", "set"} /\ cmd.verb # "error"
  BY DEF Command
<1>2. LinesOf(cmd, err) \in Seq(Frame)
  BY LinesTyped
<1>3. CASE err \/ cmd.kind # "get"
  <2>1. LinesOf(cmd, err) = <<[verb |-> "error", of |-> cmd.id, push |-> 0]>>
    BY <1>3 DEF LinesOf
  <2>2. Expected(cmd) \in 1 .. 2
    BY <1>1 DEF Expected
  <2> DEFINE f == [verb |-> "error", of |-> cmd.id, push |-> 0]
  <2>3. f.of = cmd.id
    OBVIOUS
  <2> HIDE DEF f
  <2>4. /\ Len(<<f>>) = 1
        /\ \A k \in DOMAIN <<f>> : <<f>>[k] = f
    OBVIOUS
  <2> WITNESS LinesOf(cmd, err)
  <2> QED
    BY <1>2, <2>1, <2>2, <2>3, <2>4 DEF f
<1>4. CASE ~err /\ cmd.kind = "get"
  <2> DEFINE f == [verb |-> cmd.verb, of |-> cmd.id, push |-> 0]
  <2>1. LinesOf(cmd, err) = <<f, f>>
    BY <1>4 DEF LinesOf
  <2>2. Expected(cmd) = 2 /\ f.verb # "error" /\ f.of = cmd.id
    BY <1>1, <1>4 DEF Expected
  <2> HIDE DEF f
  <2>3. /\ Len(<<f, f>>) = 2
        /\ \A k \in DOMAIN <<f, f>> : <<f, f>>[k] = f
    OBVIOUS
  <2> WITNESS LinesOf(cmd, err)
  <2> QED
    BY <1>2, <2>1, <2>2, <2>3
<1> QED
  BY <1>3, <1>4

\* No step changes the order of what a rigctld owes.
LEMMA NextLinesLine ==
  LinkTypeOK /\ Books /\ Blank /\ Kinds /\ Silent /\ Older /\ LinesLine /\ [Next]_vars => LinesLine'
<1> SUFFICES ASSUME LinkTypeOK, Books, Blank, Kinds, Silent, Older, LinesLine, [Next]_vars, style = "lines"
             PROVE  LinesInOrder' /\ (pending' # NoCmd => LinesInFlight')
  BY Origins DEF LinesLine
<1> DEFINE O1 == \A k \in DOMAIN wire : Due(wire[k].of)
           O2 == \A k \in DOMAIN inbox : Due(inbox[k].id)
           O3 == \A k, l \in DOMAIN wire : k < l => wire[k].of <= wire[l].of
           O4 == \A k, l \in DOMAIN inbox : k < l => inbox[k].id < inbox[l].id
           O5 == \A k \in DOMAIN wire : \A l \in DOMAIN inbox : wire[k].of < inbox[l].id
           F1 == \A k \in DOMAIN wire : wire[k].of <= pending.cmd.id
           F2 == \A k \in DOMAIN inbox : inbox[k].id <= pending.cmd.id
           F3 == \A k \in DOMAIN inbox : inbox[k].id = pending.cmd.id => inbox[k] = pending.cmd
           F4 == \A k \in DOMAIN pending.got : Foreign(pending.cmd.id, pending.got[k])
           F5 == \A k \in DOMAIN inbox : inbox[k].id = pending.cmd.id => pending.left = Expected(pending.cmd)
           F6 == \A k \in DOMAIN wire : wire[k].of = pending.cmd.id =>
                   k + pending.left > Len(wire) /\ (wire[k].verb = "error" => k = Len(wire))
           Goal == LinesInOrder' /\ (pending' # NoCmd => LinesInFlight')
<1>1. /\ O1 /\ O2 /\ O3 /\ O4 /\ O5
      /\ pending # NoCmd => F1 /\ F2 /\ F3 /\ F4 /\ (OwnOnly => F5 /\ F6)
  BY DEF LinesLine, LinesInOrder, LinesInFlight
<1>2. /\ O1' /\ O2' /\ O3' /\ O4' /\ O5' => LinesInOrder'
      /\ F1' /\ F2' /\ F3' /\ F4' /\ (OwnOnly' => F5' /\ F6') => LinesInFlight'
  BY DEF LinesInOrder, LinesInFlight
<1> HIDE DEF O1, O2, O3, O4, O5, F1, F2, F3, F4, F5, F6
<1>3. /\ wire \in Seq(Frame) /\ inbox \in Seq(Command) /\ queue \in Seq(Command)
      /\ answer \in [CmdIds -> Answers] /\ style' = "lines"
      /\ wire' \in Seq(Frame) /\ inbox' \in Seq(Command)
  BY Origins, NextTyped DEF LinkTypeOK, Answers
<1>4. /\ \A k \in DOMAIN wire : wire[k] \in Frame
      /\ \A k \in DOMAIN inbox : inbox[k] \in Command
      /\ DOMAIN wire = 1 .. Len(wire) /\ DOMAIN inbox = 1 .. Len(inbox) /\ Len(wire) \in Nat /\ Len(inbox) \in Nat
      /\ DOMAIN wire' = 1 .. Len(wire') /\ DOMAIN inbox' = 1 .. Len(inbox') /\ Len(wire') \in Nat /\ Len(inbox') \in Nat
  BY <1>3
<1>5. /\ \A k \in DOMAIN wire : wire[k].of \in CmdIds /\ wire[k].of \in Nat
      /\ \A k \in DOMAIN inbox : inbox[k].id \in CmdIds /\ inbox[k].id \in Nat /\ inbox[k].kind # "arm"
  BY <1>4 DEF Frame, Command, Kinds, Silent, IdOf, IsArm, CmdIds
<1>6. ASSUME UNCHANGED pending \/ pending = NoCmd \/ Timeout \/ (pending' # NoCmd /\ pending'.cmd = pending.cmd),
             NEW i \in CmdIds, Due(i)
      PROVE  Due(i)'
  BY <1>6, StaysDue, TimeoutDue
\* Nothing was put on the line.
<1>7. ASSUME NEW d \in {0, 1}, NEW e \in {0, 1}, Part(wire', wire, d), Part(inbox', inbox, e),
             \A i \in CmdIds : Due(i) => Due(i)'
      PROVE  /\ LinesInOrder'
             /\ \A k \in DOMAIN wire' : k + d \in DOMAIN wire /\ wire'[k] = wire[k + d]
             /\ \A k \in DOMAIN inbox' : k + e \in DOMAIN inbox /\ inbox'[k] = inbox[k + e]
  <2>1. /\ \A k \in DOMAIN wire' : k + d \in DOMAIN wire /\ wire'[k] = wire[k + d] /\ k \in Nat
        /\ \A k \in DOMAIN inbox' : k + e \in DOMAIN inbox /\ inbox'[k] = inbox[k + e] /\ k \in Nat
    BY <1>4, <1>7 DEF Part
  <2>2. O1'
    <3> SUFFICES ASSUME NEW k \in DOMAIN wire' PROVE Due(wire[k].of)'
      BY DEF O1
    <3>1. PICK i : i = wire'[k].of
      OBVIOUS
    <3>2. i \in CmdIds /\ Due(i)
      BY <1>1, <1>5, <2>1, <3>1 DEF O1
    <3> QED
      BY <1>7, <3>1, <3>2
  <2>3. O2'
    <3> SUFFICES ASSUME NEW k \in DOMAIN inbox' PROVE Due(inbox[k].id)'
      BY DEF O2
    <3>1. PICK i : i = inbox'[k].id
      OBVIOUS
    <3>2. i \in CmdIds /\ Due(i)
      BY <1>1, <1>5, <2>1, <3>1 DEF O2
    <3> QED
      BY <1>7, <3>1, <3>2
  <2>4. O3'
    <3> SUFFICES ASSUME NEW k \in DOMAIN wire', NEW l \in DOMAIN wire', k < l PROVE wire'[k].of <= wire'[l].of
      BY DEF O3
    <3>1. k + d < l + d
      BY <2>1
    <3> QED
      BY <1>1, <2>1, <3>1 DEF O3
  <2>5. O4'
    <3> SUFFICES ASSUME NEW k \in DOMAIN inbox', NEW l \in DOMAIN inbox', k < l PROVE inbox'[k].id < inbox'[l].id
      BY DEF O4
    <3>1. k + e < l + e
      BY <2>1
    <3> QED
      BY <1>1, <2>1, <3>1 DEF O4
  <2>6. O5'
    BY <1>1, <2>1 DEF O5
  <2> QED
    BY <1>2, <2>1, <2>2, <2>3, <2>4, <2>5, <2>6
<1>8. CASE Still
  <2>1. PICK d \in {0, 1}, e \in {0, 1} : Part(wire', wire, d) /\ Part(inbox', inbox, e)
    BY <1>8 DEF Still
  <2>2. UNCHANGED <<pending, answer>>
    BY <1>8 DEF Still
  <2>3. /\ LinesInOrder'
        /\ \A k \in DOMAIN wire' : k + d \in DOMAIN wire /\ wire'[k] = wire[k + d]
        /\ \A k \in DOMAIN inbox' : k + e \in DOMAIN inbox /\ inbox'[k] = inbox[k + e]
    BY <1>6, <1>7, <2>1, <2>2
  <2>4. ASSUME pending # NoCmd PROVE LinesInFlight'
    <3>1. F1' /\ F2' /\ F3'
      BY <1>1, <2>2, <2>3, <2>4 DEF F1, F2, F3
    <3>2. F4'
      BY <1>1, <2>2, <2>4 DEF F4, Foreign, Displaced
    <3>3. OwnOnly' => OwnOnly /\ F5 /\ F6
      BY <1>1, <2>2, <2>4 DEF OwnOnly
    <3>4. Expected(pending.cmd)' = Expected(pending.cmd)
      BY <1>3, <2>2 DEF Expected
    <3>5. F5 => F5'
      BY <2>2, <2>3, <3>4 DEF F5
    <3>6. ASSUME F6 PROVE F6'
      <4> SUFFICES ASSUME NEW k \in DOMAIN wire', wire'[k].of = pending.cmd.id
                   PROVE  k + pending.left > Len(wire') /\ (wire'[k].verb = "error" => k = Len(wire'))
        BY <2>2 DEF F6
      <4>1. pending.left \in Nat
        BY <2>4 DEF LinkTypeOK
      <4>2. Len(wire') \in DOMAIN wire' /\ k \in Nat /\ k <= Len(wire')
        BY <1>4
      <4>3. Len(wire') + d <= Len(wire)
        <5>1. Len(wire') + d \in DOMAIN wire
          BY <2>3, <4>2
        <5>2. DOMAIN wire = 1 .. Len(wire) /\ Len(wire) \in Nat
          BY <1>4
        <5> QED
          BY <5>1, <5>2
      <4>4. (k + d) + pending.left > Len(wire) /\ (wire'[k].verb = "error" => k + d = Len(wire))
        BY <2>3, <3>6 DEF F6
      <4>5. k + pending.left > Len(wire')
        BY <1>4, <4>1, <4>2, <4>3, <4>4
      <4>6. wire'[k].verb = "error" => k = Len(wire')
        BY <1>4, <4>2, <4>3, <4>4
      <4> QED
        BY <4>5, <4>6
    <3> QED
      BY <1>2, <3>1, <3>2, <3>3, <3>5, <3>6
  <2> QED
    BY <2>2, <2>3, <2>4
<1>9. CASE Emptied
  BY <1>2, <1>9 DEF Emptied, O1, O2, O3, O4, O5
<1>10. CASE Timeout
  <2>1. UNCHANGED <<wire, inbox>> /\ pending' = NoCmd
    BY <1>10 DEF Timeout, radioVars
  <2>2. Part(wire, wire, 0) /\ Part(inbox, inbox, 0)
    BY <1>4 DEF Part
  <2> QED
    BY <1>6, <1>7, <1>10, <2>1, <2>2
<1>11. CASE Write
  <2>1. PICK cmd : cmd = Head(queue)
    OBVIOUS
  <2>2. /\ queue # <<>> /\ pending = NoCmd /\ UNCHANGED <<wire>>
        /\ inbox' = inbox \/ inbox' = Append(inbox, cmd)
    BY <1>11, <2>1 DEF Write
  <2>3. cmd = queue[1] /\ 1 \in DOMAIN queue /\ cmd \in Command
    BY <1>3, <2>1, <2>2, TailPart
  <2>4. cmd.id \in CmdIds /\ cmd.id \in Nat /\ Real(1)
    BY <2>3 DEF Kinds, Silent, IdOf, IsArm, Command, Real, CmdIds
  <2>5. /\ \A k \in DOMAIN wire : wire[k].of < cmd.id
        /\ \A k \in DOMAIN inbox : inbox[k].id < cmd.id
    BY <2>3, <2>4 DEF Older
  <2>6. Expected(cmd) \in 1 .. 2
    BY <2>3 DEF Expected
  <2>7. pending' = [cmd |-> cmd, left |-> Expected(cmd), got |-> <<>>] /\ UNCHANGED answer
    BY <1>11, <2>1, <2>6 DEF Write
  <2>8. pending' # NoCmd
    <3>1. [cmd |-> cmd, left |-> Expected(cmd), got |-> <<>>] \in InFlightType
      BY <2>3, <2>6 DEF InFlightType
    <3> QED
      BY <2>7, <3>1 DEF InFlightType
  <2>9. \A k \in DOMAIN inbox' : (k \in DOMAIN inbox /\ inbox'[k] = inbox[k]) \/ (k = Len(inbox) + 1 /\ inbox'[k] = cmd)
    <3>1. CASE inbox' = inbox
      BY <3>1
    <3>2. CASE inbox' = Append(inbox, cmd)
      <4>1. Grown(inbox', inbox, cmd)
        BY <1>3, <3>2, AppendGrown
      <4> QED
        BY <4>1 DEF Grown
    <3> QED
      BY <2>2, <3>1, <3>2
  <2>10. O1'
    BY <1>1, <1>5, <1>6, <2>2 DEF O1
  <2>11. O2'
    <3> SUFFICES ASSUME NEW k \in DOMAIN inbox' PROVE Due(inbox[k].id)'
      BY DEF O2
    <3>1. PICK i : i = inbox'[k].id
      OBVIOUS
    <3>2. CASE k \in DOMAIN inbox /\ inbox'[k] = inbox[k]
      <4>1. Due(i) /\ i \in CmdIds
        BY <1>1, <1>5, <3>1, <3>2 DEF O2
      <4> QED
        BY <1>6, <2>2, <3>1, <4>1
    <3>3. CASE inbox'[k] = cmd
      BY <2>7, <2>8, <3>3 DEF Due, InFlight
    <3> QED
      BY <2>9, <3>2, <3>3
  <2>12. O3'
    BY <1>1, <2>2 DEF O3
  <2>13. O4'
    <3> SUFFICES ASSUME NEW k \in DOMAIN inbox', NEW l \in DOMAIN inbox', k < l PROVE inbox'[k].id < inbox'[l].id
      BY DEF O4
    <3>1. k \in DOMAIN inbox /\ inbox'[k] = inbox[k]
      BY <1>4, <2>9
    <3> QED
      BY <1>1, <2>5, <2>9, <3>1 DEF O4
  <2>14. O5'
    BY <1>1, <2>2, <2>5, <2>9 DEF O5
  <2>15. F1' /\ F2' /\ F3' /\ F4' /\ F5' /\ F6'
    <3>1. F1' /\ F2'
      BY <1>5, <2>2, <2>4, <2>5, <2>7, <2>9 DEF F1, F2
    <3>2. F3'
      BY <1>5, <2>4, <2>5, <2>7, <2>9 DEF F3
    <3>3. F4'
      BY <2>7 DEF F4
    <3>4. F5'
      <4>1. Expected(cmd)' = Expected(cmd) /\ pending'.cmd = cmd /\ pending'.left = Expected(cmd)
        BY <1>3, <2>7 DEF Expected
      <4> QED
        BY <1>3, <2>7, <4>1 DEF F5, Expected
    <3>5. F6'
      BY <1>5, <2>2, <2>4, <2>5, <2>7 DEF F6
    <3> QED
      BY <3>1, <3>2, <3>3, <3>4, <3>5
  <2> QED
    BY <1>2, <2>10, <2>11, <2>12, <2>13, <2>14, <2>15
<1>12. CASE ReadPending
  <2>1. PICK f : f = Head(wire)
    OBVIOUS
  <2>2. PICK got : got = Append(pending.got, f)
    OBVIOUS
  <2>3. PICK c : c = pending.cmd.id
    OBVIOUS
  <2>4. /\ pending # NoCmd /\ wire # <<>> /\ wire' = Tail(wire) /\ UNCHANGED inbox
        /\ pending.cmd \in Command /\ pending.got \in Seq(Frame) /\ pending.left \in 1 .. 2
    BY <1>12 DEF ReadPending, LinkTypeOK
  <2>5. /\ f = wire[1] /\ 1 \in DOMAIN wire /\ Len(wire') = Len(wire) - 1
        /\ \A k \in DOMAIN wire' : k + 1 \in DOMAIN wire /\ wire'[k] = wire[k + 1]
    BY <1>3, <2>1, <2>4
  <2>6. F1 /\ F2 /\ F3 /\ F4 /\ (OwnOnly => F5 /\ F6)
    BY <1>1, <2>4
  <2>7. c \in CmdIds /\ c # 0 /\ c \in Nat /\ f.of \in CmdIds /\ f.of \in 1 .. c /\ Due(f.of)
    <3>1. f.of \in CmdIds /\ f.of <= c /\ Due(f.of)
      BY <1>1, <1>5, <2>3, <2>5, <2>6 DEF F1, O1
    <3> QED
      BY <2>3, <2>4, <3>1 DEF Command, CmdIds
  <2>8. DOMAIN got = 1 .. Len(pending.got) + 1 /\ DOMAIN pending.got = 1 .. Len(pending.got) /\ Len(pending.got) \in Nat
        /\ (\A k \in DOMAIN pending.got : got[k] = pending.got[k]) /\ got[Len(pending.got) + 1] = f
    BY <2>2, <2>4
  <2>9. \A k \in DOMAIN got : got[k] = f \/ (k \in DOMAIN pending.got /\ got[k] = pending.got[k])
    BY <2>8
  <2>10. Part(wire', wire, 1) /\ Part(inbox', inbox, 0)
    BY <1>4, <2>4, <2>5 DEF Part
  <2>11. CASE Completes(f)
    <3>1. pending' = NoCmd /\ answer' = Noted(pending.cmd, "ok", got)
      BY <1>12, <2>1, <2>2, <2>11 DEF ReadPending, Matches, AnswerOf
    <3>2. answer'[c].got = got
      BY <1>3, <2>3, <2>7, <3>1 DEF Noted
    <3>3. CASE OwnOnly /\ f.of = c
      <4>1. Len(wire) = 1
        <5>1. 1 + pending.left > Len(wire) /\ (f.verb = "error" => 1 = Len(wire))
          BY <2>3, <2>5, <2>6, <3>3 DEF F6
        <5> QED
          BY <1>4, <2>4, <2>5, <2>11, <5>1 DEF Completes
      <4>2. wire' = <<>>
        BY <1>3, <2>4, <4>1
      <4>3. \A k \in DOMAIN inbox : c < inbox[k].id
        BY <1>1, <2>5, <3>3 DEF O5
      <4>4. \A k \in DOMAIN inbox : inbox[k].id <= c
        BY <2>3, <2>6 DEF F2
      <4>5. \A k \in DOMAIN inbox' : FALSE
        BY <1>5, <2>4, <2>7, <4>3, <4>4
      <4> QED
        BY <1>2, <3>1, <4>2, <4>5 DEF O1, O2, O3, O4, O5
    <3>4. CASE ~(OwnOnly /\ f.of = c)
      <4>1. \E k \in DOMAIN got : got[k].of # c
        <5>1. CASE f.of # c
          BY <2>8, <5>1
        <5>2. CASE ~OwnOnly
          <6>1. PICK k \in DOMAIN pending.got : pending.got[k].of # c
            BY <2>3, <5>2 DEF OwnOnly
          <6> QED
            BY <2>8, <6>1
        <5> QED
          BY <3>4, <5>1, <5>2
      <4>2. Due(c)'
        BY <3>2, <4>1 DEF Due, Displaced
      <4>3. \A i \in CmdIds : Due(i) => Due(i)'
        BY <2>3, <4>2, StaysDue
      <4> QED
        BY <1>7, <2>10, <3>1, <4>3
    <3> QED
      BY <3>3, <3>4
  <2>12. CASE ~Completes(f)
    <3>1. /\ pending' = [cmd |-> pending.cmd, left |-> pending.left - 1, got |-> got] /\ UNCHANGED answer
          /\ pending.left = 2 /\ f.verb # "error"
      BY <1>12, <2>1, <2>2, <2>4, <2>12 DEF ReadPending, Matches, Completes
    <3>2. pending' # NoCmd
      <4>1. got \in Seq(Frame)
        BY <1>3, <2>2, <2>4, <2>5
      <4>2. [cmd |-> pending.cmd, left |-> pending.left - 1, got |-> got] \in InFlightType
        BY <2>4, <3>1, <4>1 DEF InFlightType
      <4> QED
        BY <3>1, <4>2 DEF InFlightType
    <3>3. \A i \in CmdIds : Due(i) => Due(i)'
      BY <1>6, <3>1, <3>2
    <3>4. LinesInOrder'
      BY <1>7, <2>10, <3>3
    <3>5. F1' /\ F2' /\ F3'
      BY <2>4, <2>5, <2>6, <3>1 DEF F1, F2, F3
    <3>6. F4'
      <4> SUFFICES ASSUME NEW k \in DOMAIN got PROVE Foreign(c, got[k])'
        BY <2>3, <3>1 DEF F4
      <4>1. CASE got[k] = f
        <5>1. f.of = c \/ (f.of \in 1 .. c - 1 /\ Displaced(f.of))
          <6>1. InFlight(f.of) => f.of = c
            BY <2>3 DEF InFlight
          <6>2. f.of = c \/ f.of \in 1 .. c - 1
            BY <2>7
          <6> QED
            BY <2>7, <6>1, <6>2 DEF Due
        <5> QED
          BY <3>1, <4>1, <5>1 DEF Foreign, Displaced
      <4>2. CASE k \in DOMAIN pending.got /\ got[k] = pending.got[k]
        BY <2>3, <2>6, <3>1, <4>2 DEF F4, Foreign, Displaced
      <4> QED
        BY <2>9, <4>1, <4>2
    <3>7. ASSUME OwnOnly' PROVE F5' /\ F6'
      <4>1. OwnOnly /\ f.of = c
        BY <2>3, <2>8, <3>1, <3>7 DEF OwnOnly
      <4>2. F5'
        <5>1. \A k \in DOMAIN inbox : c < inbox[k].id
          BY <1>1, <2>5, <4>1 DEF O5
        <5>2. \A k \in DOMAIN inbox : inbox[k].id # c
          BY <1>5, <2>7, <5>1
        <5> QED
          BY <2>3, <2>4, <3>1, <5>2 DEF F5
      <4>3. 1 + 2 > Len(wire)
        BY <2>3, <2>5, <2>6, <3>1, <4>1 DEF F6
      <4>4. F6'
        <5> SUFFICES ASSUME NEW k \in DOMAIN wire', wire'[k].of = c
                     PROVE  k + 1 > Len(wire') /\ (wire'[k].verb = "error" => k = Len(wire'))
          BY <2>3, <3>1 DEF F6
        <5>1. k \in Nat \ {0} /\ k <= Len(wire')
          BY <1>4
        <5>2. Len(wire') <= 1
          BY <1>4, <2>5, <4>3
        <5> QED
          BY <1>4, <5>1, <5>2
      <4> QED
        BY <4>2, <4>4
    <3> QED
      BY <1>2, <3>4, <3>5, <3>6, <3>7
  <2> QED
    BY <2>11, <2>12
<1>13. ASSUME NEW err \in BOOLEAN, RadioObeys(err) PROVE Goal
  <2>1. PICK cmd : cmd = Head(inbox)
    OBVIOUS
  <2>2. /\ inbox # <<>> /\ inbox' = Tail(inbox) /\ UNCHANGED <<pending, answer>>
        /\ wire' = wire \o LinesOf(cmd, err)
    BY <1>13, <2>1 DEF RadioObeys
  <2>3. /\ cmd = inbox[1] /\ 1 \in DOMAIN inbox /\ cmd \in Command
        /\ \A k \in DOMAIN inbox' : k + 1 \in DOMAIN inbox /\ inbox'[k] = inbox[k + 1] /\ 1 < k + 1
    BY <1>3, <2>1, <2>2
  <2>4. cmd.kind # "arm" /\ cmd.id \in CmdIds /\ cmd.id \in Nat /\ Due(cmd.id)
    BY <1>1, <1>5, <2>3 DEF O2
  <2>5. PICK new \in Seq(Frame) :
          /\ wire' = wire \o new
          /\ Len(new) \in 1 .. Expected(cmd)
          /\ \A k \in DOMAIN new : new[k].of = cmd.id /\ (new[k].verb = "error" => Len(new) = 1)
    <3>1. \E new : /\ new \in Seq(Frame) /\ new = LinesOf(cmd, err)
                   /\ Len(new) \in 1 .. Expected(cmd)
                   /\ \A k \in DOMAIN new : new[k].of = cmd.id /\ (new[k].verb = "error" => Len(new) = 1)
      BY <2>3, <2>4, LinesCount
    <3> QED
      BY <2>2, <3>1
  <2>6. Len(wire') = Len(wire) + Len(new) /\ Len(new) \in Nat
    BY <1>3, <2>5
  <2>7. \A k \in DOMAIN wire' :
          \/ k \in DOMAIN wire /\ wire'[k] = wire[k]
          \/ k \notin DOMAIN wire /\ wire'[k].of = cmd.id /\ (wire'[k].verb = "error" => Len(new) = 1)
    <3> SUFFICES ASSUME NEW k \in DOMAIN wire', k \notin DOMAIN wire
                 PROVE  k - Len(wire) \in DOMAIN new /\ wire'[k] = new[k - Len(wire)]
      <4>1. \A k \in DOMAIN wire : wire'[k] = wire[k]
        BY <1>3, <2>5
      <4> QED
        BY <2>5, <4>1
    <3> QED
      BY <1>3, <2>5
  <2>8. \A i \in CmdIds : Due(i) => Due(i)'
    BY <1>6, <2>2
  <2>9. O1'
    <3> SUFFICES ASSUME NEW k \in DOMAIN wire' PROVE Due(wire[k].of)'
      BY DEF O1
    <3>1. PICK i : i = wire'[k].of
      OBVIOUS
    <3>2. i \in CmdIds /\ Due(i)
      BY <1>1, <1>5, <2>4, <2>7, <3>1 DEF O1
    <3> QED
      BY <2>8, <3>1, <3>2
  <2>10. O2'
    <3> SUFFICES ASSUME NEW k \in DOMAIN inbox' PROVE Due(inbox[k].id)'
      BY DEF O2
    <3>1. PICK i : i = inbox'[k].id
      OBVIOUS
    <3>2. i \in CmdIds /\ Due(i)
      BY <1>1, <1>5, <2>3, <3>1 DEF O2
    <3> QED
      BY <2>8, <3>1, <3>2
  <2>11. O3'
    <3> SUFFICES ASSUME NEW k \in DOMAIN wire', NEW l \in DOMAIN wire', k < l PROVE wire'[k].of <= wire'[l].of
      BY DEF O3
    <3>1. \A i \in DOMAIN wire : wire[i].of < cmd.id
      BY <1>1, <2>3 DEF O5
    <3>2. l \in DOMAIN wire => k \in DOMAIN wire
      BY <1>4
    <3> QED
      BY <1>1, <1>5, <2>4, <2>7, <3>1, <3>2 DEF O3
  <2>12. O4'
    <3> SUFFICES ASSUME NEW k \in DOMAIN inbox', NEW l \in DOMAIN inbox', k < l PROVE inbox'[k].id < inbox'[l].id
      BY DEF O4
    <3>1. k + 1 < l + 1
      BY <1>4
    <3> QED
      BY <1>1, <2>3, <3>1 DEF O4
  <2>13. O5'
    BY <1>1, <2>3, <2>7 DEF O4, O5
  <2>14. ASSUME pending # NoCmd PROVE LinesInFlight'
    <3>1. PICK c : c = pending.cmd.id
      OBVIOUS
    <3>2. F1 /\ F2 /\ F3 /\ F4 /\ (OwnOnly => F5 /\ F6)
      BY <1>1, <2>14
    <3>3. cmd.id <= c /\ \A k \in DOMAIN wire : wire[k].of < cmd.id
      BY <1>1, <2>3, <3>1, <3>2 DEF F2, O5
    <3>4. F1' /\ F2' /\ F3'
      <4>1. F1'
        BY <2>2, <2>3, <2>7, <3>1, <3>2, <3>3 DEF F1
      <4>2. F2'
        BY <2>2, <2>3, <2>7, <3>1, <3>2 DEF F2
      <4>3. F3'
        BY <2>2, <2>3, <2>7, <3>1, <3>2 DEF F3
      <4> QED
        BY <4>1, <4>2, <4>3
    <3>5. F4'
      BY <2>2, <3>2 DEF F4, Foreign, Displaced
    <3>6. OwnOnly' => OwnOnly
      BY <2>2 DEF OwnOnly
    <3>7. ASSUME OwnOnly PROVE F5' /\ F6'
      <4>1. Expected(pending.cmd)' = Expected(pending.cmd)
        BY <1>3, <2>2 DEF Expected
      <4>2. F5'
        BY <2>2, <2>3, <3>2, <3>7, <4>1 DEF F5
      <4>3. F6'
        <5> SUFFICES ASSUME NEW k \in DOMAIN wire', wire'[k].of = c
                     PROVE  k + pending.left > Len(wire') /\ (wire'[k].verb = "error" => k = Len(wire'))
          BY <2>2, <3>1 DEF F6
        <5>1. c \in Nat
          BY <2>14, <3>1 DEF LinkTypeOK, Command, CmdIds
        <5>2. k \notin DOMAIN wire
          BY <1>5, <2>4, <2>7, <3>3, <5>1
        <5>3. cmd = pending.cmd /\ pending.left = Expected(cmd)
          <6>1. cmd.id = c
            BY <2>7, <5>2
          <6> QED
            BY <2>3, <3>1, <3>2, <3>7, <6>1 DEF F3, F5
        <5>4. k > Len(wire) /\ k <= Len(wire') /\ k \in Nat
          BY <1>4, <5>2
        <5>5. Len(new) <= pending.left /\ pending.left \in Nat
          BY <2>5, <2>14, <5>3 DEF LinkTypeOK
        <5>6. wire'[k].verb = "error" => Len(new) = 1
          BY <2>7, <5>2
        <5>7. k + pending.left > Len(wire')
          BY <1>4, <2>6, <5>4, <5>5
        <5>8. ASSUME wire'[k].verb = "error" PROVE k = Len(wire')
          <6>1. Len(new) = 1
            BY <5>6, <5>8
          <6>2. Len(wire) \in Nat /\ Len(wire') = Len(wire) + 1
            BY <1>4, <2>6, <6>1
          <6> QED
            BY <5>4, <6>2
        <5> QED
          BY <5>7, <5>8
      <4> QED
        BY <4>2, <4>3
    <3> QED
      BY <1>2, <3>2, <3>4, <3>5, <3>6, <3>7
  <2> QED
    BY <1>2, <2>2, <2>9, <2>10, <2>11, <2>12, <2>13, <2>14
<1>14. ASSUME NEW v \in Verbs, RadioPushes(v) PROVE FALSE
  BY <1>14 DEF RadioPushes, Silent
<1> QED
  BY <1>8, <1>9, <1>10, <1>11, <1>12, <1>13, <1>14, LineSteps

\* No step gives a command the frame of another that is still owed it.
LEMMA NextOwnReply ==
  LinkTypeOK /\ Books /\ Blank /\ Kinds /\ Silent /\ Single /\ VerbsLine /\ LinesLine /\ OwnReply /\ [Next]_vars
    => OwnReply'
<1> DEFINE Fits(i, f) ==
      \/ f.of = i
      \/ style = "verbs" /\ f.verb = answer[i].verb /\ f.of = 0
      \/ style = "verbs" /\ f.verb = answer[i].verb /\ Displaced(f.of)
      \/ style = "lines" /\ f.of \in 1 .. i - 1 /\ Displaced(f.of)
<1> SUFFICES ASSUME LinkTypeOK, Books, Blank, Kinds, Silent, Single, VerbsLine, LinesLine, OwnReply, [Next]_vars,
                    NEW i \in CmdIds, NEW k \in DOMAIN answer'[i].got,
                    NEW f, f = answer'[i].got[k]
             PROVE  Fits(i, f)'
  BY DEF OwnReply
<1>1. /\ answer \in [CmdIds -> Answers] /\ answer' \in [CmdIds -> Answers] /\ style' = style
      /\ style \in {"verbs", "lines"}
  BY NextTyped, Origins DEF LinkTypeOK, Answers
<1>2. f \in Frame
  <2>1. answer'[i].got \in Seq(Frame)
    BY <1>1 DEF Answers
  <2> QED
    BY <2>1
<1>3. f.of \in CmdIds \cup {0}
  BY <1>2 DEF Frame
<1>4. \A j \in CmdIds : Displaced(j) => Displaced(j)'
  BY StaysDisplaced
<1>5. CASE answer'[i] = answer[i]
  <2>1. Fits(i, f)
    <3>1. k \in DOMAIN answer[i].got /\ f = answer[i].got[k]
      BY <1>5, Zenon
    <3> QED
      BY <3>1 DEF OwnReply
  <2>2. f.of = 0 \/ (Displaced(f.of) => Displaced(f.of)')
    <3>1. PICK j : j = f.of
      OBVIOUS
    <3> QED
      BY <1>3, <1>4, <3>1 DEF Displaced
  <2>3. 0 \notin 1 .. i - 1
    BY DEF CmdIds
  <2> QED
    BY <1>1, <1>5, <2>1, <2>2, <2>3
<1>6. CASE ReadPending /\ answer'[i] # answer[i]
  <2>1. PICK g : g = Head(wire)
    OBVIOUS
  <2>2. PICK got : got = Append(pending.got, g)
    OBVIOUS
  <2>3. /\ pending # NoCmd /\ wire # <<>> /\ pending.cmd \in Command /\ pending.got \in Seq(Frame)
    BY <1>6 DEF ReadPending, LinkTypeOK
  <2>4. answer' = Noted(pending.cmd, "ok", got) /\ Matches(pending.cmd, g)
    BY <1>6, <2>1, <2>2 DEF ReadPending, AnswerOf
  <2>5. i = pending.cmd.id /\ i # 0
    <3>1. i # 0
      BY DEF CmdIds
    <3>2. pending.cmd.id # i => answer'[i] = answer[i]
      BY <1>1, <2>4 DEF Noted
    <3> QED
      BY <1>6, <3>1, <3>2
  <2>6. answer'[i].got = got /\ answer'[i].verb = pending.cmd.verb
    BY <1>1, <2>4, <2>5 DEF Noted
  <2>7. g = wire[1] /\ 1 \in DOMAIN wire
    BY <2>1, <2>3, TailPart DEF LinkTypeOK
  <2>8. f = g \/ \E l \in DOMAIN pending.got : f = pending.got[l]
    <3>1. Grown(got, pending.got, g)
      BY <2>2, <2>3, AppendGrown
    <3>2. k \in DOMAIN got /\ f = got[k]
      BY <2>6
    <3>3. k \in DOMAIN pending.got \/ k = Len(pending.got) + 1
      <4>1. PICK n \in Nat : n = Len(pending.got) /\ DOMAIN got = 1 .. n + 1 /\ DOMAIN pending.got = 1 .. n
        BY <3>1 DEF Grown
      <4>2. k \in 1 .. n + 1
        BY <3>2, <4>1, Zenon
      <4>3. k \in 1 .. n \/ k = n + 1
        BY <4>2
      <4> QED
        BY <4>1, <4>3, Zenon
    <3> QED
      BY <3>1, <3>2, <3>3 DEF Grown
  <2>9. f.of # 0 /\ Displaced(f.of) => Displaced(f.of)'
    <3>1. PICK j : j = f.of
      OBVIOUS
    <3> QED
      BY <1>3, <1>4, <3>1, Zenon DEF Displaced
  <2>10. CASE style = "verbs"
    <3>1. f = g
      BY <2>3, <2>8, <2>10 DEF Single
    <3>2. f.verb = answer'[i].verb
      BY <2>4, <2>6, <2>10, <3>1 DEF Matches
    <3>3. f.of = 0 \/ f.of = i \/ Displaced(f.of)
      BY <2>5, <2>7, <2>10, <3>1 DEF VerbsLine, Due, InFlight
    <3> QED
      BY <1>1, <2>9, <2>10, <3>2, <3>3
  <2>11. CASE style = "lines"
    <3>1. LinesInOrder /\ LinesInFlight
      BY <2>3, <2>11 DEF LinesLine
    <3>2. Foreign(i, f)
      <4>1. CASE f = g
        <5>1. Due(f.of) /\ f.of <= i /\ f.of # 0
          BY <2>5, <2>7, <2>11, <3>1, <4>1 DEF LinesInOrder, LinesInFlight, Silent
        <5>2. InFlight(f.of) => f.of = i
          BY <2>5 DEF InFlight
        <5>3. f.of = i \/ f.of \in 1 .. i - 1
          BY <1>3, <5>1 DEF CmdIds
        <5> QED
          BY <5>1, <5>2, <5>3 DEF Foreign, Due
      <4>2. CASE \E l \in DOMAIN pending.got : f = pending.got[l]
        BY <2>5, <3>1, <4>2 DEF LinesInFlight
      <4> QED
        BY <2>8, <4>1, <4>2
    <3>3. 0 \notin 1 .. i - 1
      BY DEF CmdIds
    <3> QED
      BY <1>1, <2>9, <2>11, <3>2, <3>3 DEF Foreign
  <2> QED
    BY <1>1, <2>10, <2>11
<1>7. CASE ~ReadPending /\ answer'[i] # answer[i]
  <2>1. \/ answer' = answer
        \/ \E cmd, res : answer' = Noted(cmd, res, <<>>)
    BY <1>7 DEF Next, vars, Submit, SubmitArm, Write, WriteFails, ReadIdle, Timeout, Eof, AnswerOf,
         Shutdown, Reopen, ReopenFails, RadioObeys, RadioPushes, Drop
  <2>2. PICK cmd, res : answer' = Noted(cmd, res, <<>>)
    BY <1>7, <2>1
  <2>3. answer'[i].got = <<>>
    BY <1>1, <1>7, <2>2 DEF Noted
  <2> QED
    BY <2>3
<1> QED
  BY <1>5, <1>6, <1>7

\* The inductive invariant of what is on the line, at the radio and in flight.
LinkLine ==
  /\ Blank /\ Kinds /\ Silent /\ Closed /\ Single
  /\ Numbers /\ Older /\ VerbsLine /\ LinesLine

\* At the start there is nothing on the line.
LEMMA InitLine == Init => LinkLine /\ OwnReply /\ PushesKept
<1> SUFFICES ASSUME Init PROVE LinkLine /\ OwnReply /\ PushesKept
  OBVIOUS
<1>1. /\ queue = <<>> /\ inbox = <<>> /\ wire = <<>> /\ routed = <<>> /\ pending = NoCmd
      /\ conn = "up" /\ cut = FALSE /\ armed = FALSE /\ pushes = 0
      /\ style = "lines" => arming = 0
  BY DEF Init, ArmingTasks
<1>2. \A i \in CmdIds : answer[i].got = <<>>
  BY DEF Init, Unanswered
<1>3. Blank /\ OwnReply
  BY <1>2 DEF Blank, OwnReply
<1>4. Kinds /\ Silent /\ Closed /\ Single /\ Numbers /\ Older /\ VerbsLine /\ LinesLine
  BY <1>1 DEF Kinds, Silent, Closed, Single, Numbers, Older, VerbsLine, LinesLine, LinesInOrder
<1>5. PushesKept
  BY <1>1 DEF PushesKept
<1> QED
  BY <1>3, <1>4, <1>5 DEF LinkLine

\* No step breaks the invariant of the line.
LEMMA NextLine ==
  LinkTypeOK /\ Books /\ LinkLine /\ OwnReply /\ PushesKept /\ [Next]_vars => (LinkLine /\ OwnReply /\ PushesKept)'
<1> SUFFICES ASSUME LinkTypeOK, Books, LinkLine, OwnReply, PushesKept, [Next]_vars
             PROVE  (LinkLine /\ OwnReply /\ PushesKept)'
  OBVIOUS
<1>1. Blank /\ Kinds /\ Silent /\ Closed /\ Single /\ Numbers /\ Older /\ VerbsLine /\ LinesLine
  BY DEF LinkLine
<1>2. LinkLine'
  BY <1>1, NextBlank, NextKinds, NextSilent, NextClosed, NextSingle, NextNumbers, NextOlder, NextVerbsLine,
     NextLinesLine DEF LinkLine
<1>3. OwnReply'
  BY <1>1, NextOwnReply
<1>4. PushesKept'
  <2>1. drops = 0 => \A p \in 1 .. pushes : Kept(p)
    BY DEF PushesKept, Kept
  <2>2. drops' = 0 => \A p \in 1 .. pushes' : Kept(p)'
    BY <1>1, <2>1, NextKept
  <2> QED
    BY <1>2, <2>2 DEF LinkLine, Numbers, PushesKept, Kept
<1> QED
  BY <1>2, <1>3, <1>4

\* The types, the books and the line together are inductive.
LEMMA LineInvariant == Spec => [](LinkTypeOK /\ Books /\ LinkLine /\ OwnReply /\ PushesKept)
<1>1. Init => LinkTypeOK /\ Books /\ LinkLine /\ OwnReply /\ PushesKept
  BY InitTyped, InitBooks, InitLine
<1>2. (LinkTypeOK /\ Books /\ LinkLine /\ OwnReply /\ PushesKept) /\ [Next]_vars
        => (LinkTypeOK /\ Books /\ LinkLine /\ OwnReply /\ PushesKept)'
  BY NextTyped, NextBooks, NextLine
<1> QED
  BY <1>1, <1>2, PTL DEF Spec

\* run_transport's matching of frames to the command in flight, for any number of
\* commands: a caller is given the answer to another command only if that one timed out
\* or was itself given a wrong one: replies that are shifted go back to a timeout.
THEOREM LinkAnswersItsOwn == Spec => []OwnReply
<1> QED
  BY LineInvariant, PTL

\* route_event and the frames taken for replies, for any number of pushes: until a
\* transport closes no pushed frame is lost, and those that reach the state do so in the
\* order in which the radio sent them.
THEOREM LinkKeepsPushes == Spec => []PushesKept
<1> QED
  BY LineInvariant, PTL
================================================================================

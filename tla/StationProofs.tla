---------------------------- MODULE StationProofs ----------------------------
(***************************************************************************)
(* The promise of the operation scheduler, for any number of sessions and  *)
(* submitting tasks: every submit is owed exactly one answer, and no       *)
(* operation is dropped or doubled on its way to it.  On it rests that the *)
(* transmit lease covers the key: for any number of sessions, with and     *)
(* without the ptt permission, and any operation outcomes.                 *)
(***************************************************************************)
EXTENDS Station, TLAPS

FifoInv == FifoTypeOK /\ ExactlyOneInFlight

\* Operation op is queued or executing.
Flying(op) ==
  \/ running # NoOp /\ op = running
  \/ \E s \in SessionIds : \E i \in 1 .. Len(pending[s]) : op = pending[s][i]

\* An operation of actor t runs before one of actor a in t's own session.
Ahead(t, a) ==
  \/ running # NoOp /\ running.from = t
  \/ \E i, j \in 1 .. Len(pending[t]) :
       i < j /\ pending[t][i].from = t /\ pending[t][j].from = a

USE FifoAssumption

\* An operation is tagged with a session and has a submitter.
LEMMA OperationFields ==
  ASSUME NEW op \in Operation
  PROVE  op.session \in SessionIds /\ op.from \in Actors /\ op.prio \in 0 .. 3
BY DEF Operation, Priority, Ptt, Poll

\* Appending leaves the earlier positions alone.
LEMMA AppendAt ==
  ASSUME NEW S, NEW q \in Seq(S), NEW e \in S
  PROVE  /\ Append(q, e) \in Seq(S)
         /\ Len(q) \in Nat /\ Len(Append(q, e)) = Len(q) + 1
         /\ Append(q, e)[Len(q) + 1] = e
         /\ \A i \in 1 .. Len(q) : Append(q, e)[i] = q[i]
OBVIOUS

\* Taking the head moves every other position down by one.
LEMMA TailAt ==
  ASSUME NEW S, NEW q \in Seq(S), q # <<>>
  PROVE  /\ Tail(q) \in Seq(S) /\ Head(q) = q[1] /\ Head(q) \in S
         /\ Len(q) \in Nat \ {0} /\ Len(Tail(q)) = Len(q) - 1
         /\ \A i \in 1 .. Len(Tail(q)) : Tail(q)[i] = q[i + 1]
OBVIOUS

\* The scheduler starts with nothing in flight and nobody waiting.
LEMMA FifoInitInv == FifoInit => FifoInv
BY DEF FifoInit, FifoInv, FifoTypeOK, ExactlyOneInFlight, SessionTagged,
       AwaitedInFlight, OnePerActor, NoneLost, SubmitCall

\* Where the operations of each backlog stand after a submit.
LEMMA SubmitPositions ==
  ASSUME FifoInv, NEW op \in Operation, Submit(op)
  PROVE  /\ Len(pending[op.session]) \in Nat
         /\ Len(pending[op.session]) + 1 \in 1 .. Len(pending'[op.session])
         /\ pending'[op.session][Len(pending[op.session]) + 1] = op
         /\ \A s \in SessionIds : \A i \in 1 .. Len(pending'[s]) :
              \/ i \in 1 .. Len(pending[s]) /\ pending'[s][i] = pending[s][i]
              \/ /\ s = op.session /\ i = Len(pending[s]) + 1
                 /\ pending'[s][i] = op
         /\ \A s \in SessionIds : \A i \in 1 .. Len(pending[s]) :
              i \in 1 .. Len(pending'[s]) /\ pending'[s][i] = pending[s][i]
<1>1. /\ op.session \in SessionIds
      /\ pending \in [SessionIds -> Seq(Operation)]
      /\ pending' = [pending EXCEPT ![op.session] = Append(pending[op.session], op)]
  BY OperationFields DEF Submit, FifoInv, FifoTypeOK
<1>2. /\ \A s \in SessionIds \ {op.session} : pending'[s] = pending[s]
      /\ pending'[op.session] = Append(pending[op.session], op)
      /\ pending[op.session] \in Seq(Operation)
  BY <1>1
<1>3. /\ Len(pending[op.session]) \in Nat
      /\ Len(pending'[op.session]) = Len(pending[op.session]) + 1
      /\ pending'[op.session][Len(pending[op.session]) + 1] = op
      /\ \A i \in 1 .. Len(pending[op.session]) :
           pending'[op.session][i] = pending[op.session][i]
  BY <1>2, AppendAt
<1>4. ASSUME NEW s \in SessionIds, NEW i \in 1 .. Len(pending'[s])
      PROVE  \/ i \in 1 .. Len(pending[s]) /\ pending'[s][i] = pending[s][i]
             \/ /\ s = op.session /\ i = Len(pending[s]) + 1
                /\ pending'[s][i] = op
  <2>1. CASE s = op.session
    BY <2>1, <1>3
  <2>2. CASE s # op.session
    BY <2>2, <1>2
  <2> QED
    BY <2>1, <2>2
<1>5. ASSUME NEW s \in SessionIds, NEW i \in 1 .. Len(pending[s])
      PROVE  i \in 1 .. Len(pending'[s]) /\ pending'[s][i] = pending[s][i]
  <2>1. CASE s = op.session
    BY <2>1, <1>3
  <2>2. CASE s # op.session
    BY <2>2, <1>2
  <2> QED
    BY <2>1, <2>2
<1>6. Len(pending[op.session]) + 1 \in 1 .. Len(pending'[op.session])
  BY <1>3
<1> QED
  BY <1>3, <1>4, <1>5, <1>6

\* Where they stand after the head of session s has started.
LEMMA StartPositions ==
  ASSUME FifoInv, NEW s \in SessionIds, Start(s)
  PROVE  /\ running = NoOp /\ running' # NoOp /\ running' = pending[s][1]
         /\ 1 \in 1 .. Len(pending[s])
         /\ \A t \in SessionIds \ {s} : pending'[t] = pending[t]
         /\ \A i \in 1 .. Len(pending'[s]) :
              i + 1 \in 1 .. Len(pending[s]) /\ pending'[s][i] = pending[s][i + 1]
         /\ \A j \in 1 .. Len(pending[s]) \ {1} :
              j - 1 \in 1 .. Len(pending'[s]) /\ pending'[s][j - 1] = pending[s][j]
<1>1. /\ pending[s] \in Seq(Operation) /\ pending[s] # <<>>
      /\ running = NoOp /\ running' = Head(pending[s])
      /\ pending'[s] = Tail(pending[s])
      /\ \A t \in SessionIds \ {s} : pending'[t] = pending[t]
  BY DEF Start, FifoInv, FifoTypeOK
<1>2. /\ Head(pending[s]) = pending[s][1] /\ Head(pending[s]) \in Operation
      /\ Len(pending[s]) \in Nat \ {0}
      /\ Len(pending'[s]) = Len(pending[s]) - 1
      /\ \A i \in 1 .. Len(pending'[s]) : pending'[s][i] = pending[s][i + 1]
  BY <1>1, TailAt
<1>3. \A j \in 1 .. Len(pending[s]) \ {1} :
        j - 1 \in 1 .. Len(pending'[s]) /\ pending'[s][j - 1] = pending[s][j]
  BY <1>2
<1> QED
  BY <1>1, <1>2, <1>3

\* A submit by an actor that awaits nothing adds its one operation.
LEMMA SubmitInv ==
  ASSUME FifoInv, NEW op \in Operation, Submit(op)
  PROVE  FifoInv'
<1>a. op.session \in SessionIds /\ op.from \in Actors
  BY OperationFields
<1>b. pending \in [SessionIds -> Seq(Operation)] /\ await \in [Actors -> SubmitCall]
  BY DEF FifoInv, FifoTypeOK
<1>2. /\ \A s \in SessionIds \ {op.session} : pending'[s] = pending[s]
      /\ pending'[op.session] = Append(pending[op.session], op)
      /\ running' = running
      /\ await' = [await EXCEPT ![op.from] = "waiting"]
      /\ await[op.from] = "idle"
  BY <1>a, <1>b DEF Submit
<1>1. FifoTypeOK'
  <2>1. Append(pending[op.session], op) \in Seq(Operation)
    BY <1>a, <1>b, AppendAt
  <2>2. pending' \in [SessionIds -> Seq(Operation)]
    BY <2>1, <1>b DEF Submit
  <2>3. await' \in [Actors -> SubmitCall]
    BY <1>b, <1>2 DEF SubmitCall
  <2> QED
    BY <2>2, <2>3, <1>2 DEF FifoTypeOK, FifoInv
<1>3. \A s \in SessionIds : \A i \in 1 .. Len(pending[s]) :
        pending[s][i] \in Operation /\ pending[s][i].from # op.from
  BY <1>2, <1>b DEF FifoInv, ExactlyOneInFlight, AwaitedInFlight
<1>3r. running # NoOp => running.from # op.from /\ running.from \in Actors
  BY <1>2, OperationFields DEF FifoInv, FifoTypeOK, ExactlyOneInFlight, AwaitedInFlight
<1>4. \A s \in SessionIds : \A i \in 1 .. Len(pending'[s]) :
        \/ i \in 1 .. Len(pending[s]) /\ pending'[s][i] = pending[s][i]
        \/ s = op.session /\ i = Len(pending[s]) + 1 /\ pending'[s][i] = op
  BY SubmitPositions
<1>5. \A s \in SessionIds : \A i \in 1 .. Len(pending[s]) :
        i \in 1 .. Len(pending'[s]) /\ pending'[s][i] = pending[s][i]
  BY SubmitPositions
<1>5n. \E i \in 1 .. Len(pending'[op.session]) : pending'[op.session][i] = op
  BY SubmitPositions
<1>6. SessionTagged'
  BY <1>4 DEF FifoInv, ExactlyOneInFlight, SessionTagged
<1>7. AwaitedInFlight'
  <2>1. \A a \in Actors : a # op.from => await'[a] = await[a]
    BY <1>2, <1>b
  <2>2. await'[op.from] = "waiting"
    BY <1>2, <1>a, <1>b
  <2>3. \A s \in SessionIds : \A i \in 1 .. Len(pending[s]) :
          await'[pending[s][i].from] = "waiting"
    BY <1>3, <2>1, OperationFields
       DEF FifoInv, ExactlyOneInFlight, AwaitedInFlight
  <2>4. running' # NoOp => await'[running'.from] = "waiting"
    BY <1>2, <1>3r, <2>1 DEF FifoInv, ExactlyOneInFlight, AwaitedInFlight
  <2> QED
    BY <1>4, <2>2, <2>3, <2>4 DEF AwaitedInFlight
<1>8. OnePerActor'
  <2>1. ASSUME NEW s \in SessionIds, NEW t \in SessionIds,
               NEW i \in 1 .. Len(pending'[s]), NEW j \in 1 .. Len(pending'[t]),
               pending'[s][i].from = pending'[t][j].from
        PROVE  s = t /\ i = j
    <3>1. CASE i \in 1 .. Len(pending[s]) /\ j \in 1 .. Len(pending[t])
               /\ pending'[s][i] = pending[s][i] /\ pending'[t][j] = pending[t][j]
      BY <2>1, <3>1 DEF FifoInv, ExactlyOneInFlight, OnePerActor
    <3>2. CASE s = op.session /\ i = Len(pending[s]) + 1 /\ pending'[s][i] = op
               /\ t = op.session /\ j = Len(pending[t]) + 1 /\ pending'[t][j] = op
      BY <3>2
    <3>3. ~ (pending'[s][i] = op /\ j \in 1 .. Len(pending[t])
               /\ pending'[t][j] = pending[t][j])
      BY <2>1, <1>3
    <3>4. ~ (pending'[t][j] = op /\ i \in 1 .. Len(pending[s])
               /\ pending'[s][i] = pending[s][i])
      BY <2>1, <1>3
    <3> QED
      BY <1>4, <3>1, <3>2, <3>3, <3>4
  <2>2. running' # NoOp => \A s \in SessionIds : \A i \in 1 .. Len(pending'[s]) :
          pending'[s][i].from # running'.from
    BY <1>2, <1>3r, <1>4 DEF FifoInv, ExactlyOneInFlight, OnePerActor
  <2> QED
    BY <2>1, <2>2 DEF OnePerActor
<1>9. NoneLost'
  <2> SUFFICES ASSUME NEW a \in Actors, await'[a] = "waiting"
               PROVE  InFlight(a)'
    BY DEF NoneLost
  <2>1. CASE a = op.from
    BY <2>1, <1>a, <1>5n DEF InFlight
  <2>2. CASE a # op.from
    <3>1. InFlight(a)
      BY <2>2, <1>2, <1>b DEF FifoInv, ExactlyOneInFlight, NoneLost
    <3> QED
      BY <3>1, <1>2, <1>5 DEF InFlight
  <2> QED
    BY <2>1, <2>2
<1> QED
  BY <1>1, <1>6, <1>7, <1>8, <1>9 DEF FifoInv, ExactlyOneInFlight

\* Starting an operation moves it from the head of its backlog to running.
LEMMA StartInv ==
  ASSUME FifoInv, NEW s \in SessionIds, Start(s)
  PROVE  FifoInv'
<1>a. /\ pending \in [SessionIds -> Seq(Operation)]
      /\ await \in [Actors -> SubmitCall]
  BY DEF FifoInv, FifoTypeOK
<1>b. /\ running = NoOp /\ running' = Head(pending[s]) /\ await' = await
      /\ pending[s] # <<>>
      /\ pending' = [pending EXCEPT ![s] = Tail(pending[s])]
  BY DEF Start
<1>c. /\ Tail(pending[s]) \in Seq(Operation)
      /\ Head(pending[s]) = pending[s][1] /\ Head(pending[s]) \in Operation
      /\ Len(pending[s]) \in Nat \ {0}
      /\ Len(Tail(pending[s])) = Len(pending[s]) - 1
      /\ \A i \in 1 .. Len(Tail(pending[s])) :
           Tail(pending[s])[i] = pending[s][i + 1]
  BY <1>a, <1>b, TailAt
<1>1. FifoTypeOK'
  BY <1>a, <1>b, <1>c DEF FifoTypeOK
<1>3. /\ running' # NoOp /\ running' = pending[s][1]
      /\ 1 \in 1 .. Len(pending[s])
  BY StartPositions
\* Where each remaining operation stood.
<1> DEFINE was(t, i) == IF t = s THEN i + 1 ELSE i
<1>4. \A t \in SessionIds : \A i \in 1 .. Len(pending'[t]) :
        /\ was(t, i) \in 1 .. Len(pending[t])
        /\ pending'[t][i] = pending[t][was(t, i)]
        /\ t = s => was(t, i) # 1
  BY StartPositions
<1>5. \A t \in SessionIds : \A j \in 1 .. Len(pending[t]) :
        \/ t = s /\ j = 1
        \/ \E i \in 1 .. Len(pending'[t]) : pending'[t][i] = pending[t][j]
  BY StartPositions
<1> HIDE DEF was
<1>6. SessionTagged'
  BY <1>4 DEF FifoInv, ExactlyOneInFlight, SessionTagged
<1>7. AwaitedInFlight'
  BY <1>b, <1>3, <1>4 DEF FifoInv, ExactlyOneInFlight, AwaitedInFlight
<1>8. OnePerActor'
  <2>1. ASSUME NEW t \in SessionIds, NEW u \in SessionIds,
               NEW i \in 1 .. Len(pending'[t]), NEW j \in 1 .. Len(pending'[u]),
               pending'[t][i].from = pending'[u][j].from
        PROVE  t = u /\ i = j
    <3>1. /\ was(t, i) \in 1 .. Len(pending[t]) /\ was(u, j) \in 1 .. Len(pending[u])
          /\ pending[t][was(t, i)].from = pending[u][was(u, j)].from
      BY <2>1, <1>4
    <3>2. t = u /\ was(t, i) = was(u, j)
      BY <3>1 DEF FifoInv, ExactlyOneInFlight, OnePerActor
    <3> QED
      BY <3>2 DEF was
  <2>2. ASSUME NEW t \in SessionIds, NEW i \in 1 .. Len(pending'[t])
        PROVE  pending'[t][i].from # running'.from
    BY <1>3, <1>4 DEF FifoInv, ExactlyOneInFlight, OnePerActor
  <2> QED
    BY <2>1, <2>2 DEF OnePerActor
<1>9. NoneLost'
  <2> SUFFICES ASSUME NEW a \in Actors, await'[a] = "waiting"
               PROVE  InFlight(a)'
    BY DEF NoneLost
  <2>0. PICK t \in SessionIds : \E j \in 1 .. Len(pending[t]) : pending[t][j].from = a
    BY <1>b DEF FifoInv, ExactlyOneInFlight, NoneLost, InFlight
  <2>1. PICK j \in 1 .. Len(pending[t]) : pending[t][j].from = a
    BY <2>0
  <2>2. CASE t = s /\ j = 1
    BY <2>1, <2>2, <1>3 DEF InFlight
  <2>3. CASE ~(t = s /\ j = 1)
    <3>1. \E i \in 1 .. Len(pending'[t]) : pending'[t][i] = pending[t][j]
      BY <2>3, <1>5
    <3> QED
      BY <2>1, <3>1 DEF InFlight
  <2> QED
    BY <2>2, <2>3
<1> QED
  BY <1>1, <1>6, <1>7, <1>8, <1>9 DEF FifoInv, ExactlyOneInFlight

\* An answer reaches the one actor that waits for the running operation.
LEMMA AnswerInv ==
  ASSUME FifoInv, NEW r \in Result, Answer(r)
  PROVE  FifoInv'
<1>a. /\ pending \in [SessionIds -> Seq(Operation)]
      /\ await \in [Actors -> SubmitCall]
      /\ running # NoOp /\ running.from \in Actors
  BY OperationFields DEF FifoInv, FifoTypeOK, Answer
<1>b. /\ running' = NoOp /\ pending' = pending
      /\ await[running.from] = "waiting"
      /\ await' = [await EXCEPT ![running.from] = r]
  BY <1>a DEF Answer, FifoInv, ExactlyOneInFlight, AwaitedInFlight
<1>c. \A s \in SessionIds : \A i \in 1 .. Len(pending[s]) :
        pending[s][i].from \in Actors /\ pending[s][i].from # running.from
  BY <1>a, OperationFields DEF FifoInv, ExactlyOneInFlight, OnePerActor
<1>1. FifoTypeOK'
  BY <1>a, <1>b DEF FifoTypeOK, SubmitCall, Result
<1>2. SessionTagged'
  BY <1>b DEF FifoInv, ExactlyOneInFlight, SessionTagged
<1>3. AwaitedInFlight'
  BY <1>a, <1>b, <1>c DEF FifoInv, ExactlyOneInFlight, AwaitedInFlight
<1>4. OnePerActor'
  BY <1>b DEF FifoInv, ExactlyOneInFlight, OnePerActor
<1>5. NoneLost'
  <2> SUFFICES ASSUME NEW a \in Actors, await'[a] = "waiting"
               PROVE  InFlight(a)'
    BY DEF NoneLost
  <2>1. a # running.from /\ await[a] = "waiting"
    BY <1>a, <1>b DEF Result
  <2> QED
    BY <2>1, <1>b DEF FifoInv, ExactlyOneInFlight, NoneLost, InFlight
<1> QED
  BY <1>1, <1>2, <1>3, <1>4, <1>5 DEF FifoInv, ExactlyOneInFlight

\* Only an actor with nothing in flight takes its answer and goes on.
LEMMA ResumeInv ==
  ASSUME FifoInv, NEW a \in Actors, Resume(a)
  PROVE  FifoInv'
<1>a. /\ pending \in [SessionIds -> Seq(Operation)]
      /\ await \in [Actors -> SubmitCall]
      /\ running \in Operation \cup {NoOp}
  BY DEF FifoInv, FifoTypeOK
<1>b. /\ running' = running /\ pending' = pending
      /\ await[a] # "waiting" /\ await' = [await EXCEPT ![a] = "idle"]
  BY DEF Resume, Result
<1>c. /\ \A s \in SessionIds : \A i \in 1 .. Len(pending[s]) :
           pending[s][i].from \in Actors
      /\ running # NoOp => running.from \in Actors
  BY <1>a, OperationFields
<1>1. FifoTypeOK'
  BY <1>a, <1>b DEF FifoTypeOK, SubmitCall
<1>2. SessionTagged'
  BY <1>b DEF FifoInv, ExactlyOneInFlight, SessionTagged
<1>3. AwaitedInFlight'
  BY <1>a, <1>b, <1>c DEF FifoInv, ExactlyOneInFlight, AwaitedInFlight
<1>4. OnePerActor'
  BY <1>b DEF FifoInv, ExactlyOneInFlight, OnePerActor
<1>5. NoneLost'
  BY <1>a, <1>b DEF FifoInv, ExactlyOneInFlight, NoneLost, InFlight
<1> QED
  BY <1>1, <1>2, <1>3, <1>4, <1>5 DEF FifoInv, ExactlyOneInFlight

\* Whoever has an operation in flight awaits it, and awaits no other.
LEMMA FlyingAwaited ==
  ASSUME FifoInv, NEW op, Flying(op)
  PROVE  /\ op \in Operation /\ op.from \in Actors /\ op.session \in SessionIds
         /\ await[op.from] = "waiting"
<1>1. op \in Operation /\ await[op.from] = "waiting"
  BY DEF FifoInv, FifoTypeOK, ExactlyOneInFlight, AwaitedInFlight, Flying
<1> QED
  BY <1>1, OperationFields

\* What an actor awaits is in flight.
LEMMA AwaitedFlies ==
  ASSUME FifoInv, NEW a \in Actors, await[a] = "waiting"
  PROVE  \E op : Flying(op) /\ op.from = a
BY DEF FifoInv, ExactlyOneInFlight, NoneLost, InFlight, Flying

\* An actor has one operation in flight.
LEMMA FlyingUnique ==
  ASSUME FifoInv, NEW p, NEW q, Flying(p), Flying(q), p.from = q.from
  PROVE  p = q
<1>1. CASE running # NoOp /\ p = running
  BY <1>1 DEF FifoInv, ExactlyOneInFlight, OnePerActor, Flying
<1>2. CASE running # NoOp /\ q = running
  BY <1>2 DEF FifoInv, ExactlyOneInFlight, OnePerActor, Flying
<1>3. ASSUME NEW s \in SessionIds, NEW i \in 1 .. Len(pending[s]), p = pending[s][i],
             NEW t \in SessionIds, NEW j \in 1 .. Len(pending[t]), q = pending[t][j]
      PROVE  p = q
  BY <1>3 DEF FifoInv, ExactlyOneInFlight, OnePerActor
<1> QED
  BY <1>1, <1>2, <1>3 DEF Flying

\* A submit puts one more operation in flight, behind those in its session.
LEMMA SubmitFlying ==
  ASSUME FifoInv, NEW op \in Operation, Submit(op)
  PROVE  /\ \A o : Flying(o)' => Flying(o) \/ o = op
         /\ \A t \in SessionIds : \A a : Ahead(t, a) => Ahead(t, a)'
         /\ \A o : /\ Flying(o) /\ o.from = op.session /\ o.session = op.session
                  => Ahead(op.session, op.from)'
<1>1. running' = running
  BY DEF Submit
<1>2. \A s \in SessionIds : \A i \in 1 .. Len(pending'[s]) :
        \/ i \in 1 .. Len(pending[s]) /\ pending'[s][i] = pending[s][i]
        \/ pending'[s][i] = op
  BY SubmitPositions
<1>3. \A s \in SessionIds : \A i \in 1 .. Len(pending[s]) :
        i \in 1 .. Len(pending'[s]) /\ pending'[s][i] = pending[s][i]
  BY SubmitPositions
<1>4. op.session \in SessionIds /\ op.from \in Actors
  BY OperationFields
<1>5. /\ Len(pending[op.session]) \in Nat
      /\ Len(pending[op.session]) + 1 \in 1 .. Len(pending'[op.session])
      /\ pending'[op.session][Len(pending[op.session]) + 1] = op
  BY SubmitPositions, <1>4
<1>6. ASSUME NEW o, Flying(o)' PROVE Flying(o) \/ o = op
  BY <1>1, <1>2, <1>6 DEF Flying
<1>7. ASSUME NEW t \in SessionIds, NEW a, Ahead(t, a) PROVE Ahead(t, a)'
  BY <1>1, <1>3, <1>7 DEF Ahead
<1>8. ASSUME NEW o, Flying(o), o.from = op.session, o.session = op.session
      PROVE  Ahead(op.session, op.from)'
  <2>1. CASE running # NoOp /\ o = running
    BY <1>1, <1>8, <2>1 DEF Ahead
  <2>2. ASSUME NEW s \in SessionIds, NEW i \in 1 .. Len(pending[s]), o = pending[s][i]
        PROVE  Ahead(op.session, op.from)'
    <3>1. s = op.session
      BY <1>8, <2>2 DEF FifoInv, ExactlyOneInFlight, SessionTagged
    <3>2. /\ i \in 1 .. Len(pending'[op.session]) /\ i < Len(pending[op.session]) + 1
          /\ pending'[op.session][i].from = op.session
      BY <1>3, <1>5, <1>8, <2>2, <3>1
    <3> QED
      BY <1>5, <3>2 DEF Ahead
  <2> QED
    BY <1>8, <2>1, <2>2 DEF Flying
<1> QED
  BY <1>6, <1>7, <1>8

\* Starting an operation leaves the same operations in flight, in order.
LEMMA StartFlying ==
  ASSUME FifoInv, NEW s \in SessionIds, Start(s)
  PROVE  /\ \A o : Flying(o)' => Flying(o)
         /\ \A t \in SessionIds : \A a : Ahead(t, a) => Ahead(t, a)'
<1>1. /\ running = NoOp /\ running' # NoOp /\ running' = pending[s][1]
      /\ 1 \in 1 .. Len(pending[s])
  BY StartPositions
<1>2. ASSUME NEW o, Flying(o)' PROVE Flying(o)
  <2>1. CASE o = running'
    BY <1>1, <2>1 DEF Flying
  <2>2. ASSUME NEW t \in SessionIds, NEW i \in 1 .. Len(pending'[t]),
               o = pending'[t][i]
        PROVE  Flying(o)
    <3>1. CASE t = s
      <4>1. i + 1 \in 1 .. Len(pending[t]) /\ o = pending[t][i + 1]
        BY <2>2, <3>1, StartPositions
      <4> QED
        BY <4>1 DEF Flying
    <3>2. CASE t # s
      BY <2>2, <3>2, StartPositions DEF Flying
    <3> QED
      BY <3>1, <3>2
  <2> QED
    BY <1>2, <2>1, <2>2 DEF Flying
<1>3. ASSUME NEW t \in SessionIds, NEW a, Ahead(t, a) PROVE Ahead(t, a)'
  <2>1. PICK i \in 1 .. Len(pending[t]), j \in 1 .. Len(pending[t]) :
          i < j /\ pending[t][i].from = t /\ pending[t][j].from = a
    BY <1>1, <1>3 DEF Ahead
  <2>2. CASE t # s
    BY <2>1, <2>2, StartPositions DEF Ahead
  <2>3. CASE t = s /\ i = 1
    BY <1>1, <2>1, <2>3 DEF Ahead
  <2>4. CASE t = s /\ i # 1
    <3>1. /\ i - 1 \in 1 .. Len(pending'[t]) /\ j - 1 \in 1 .. Len(pending'[t])
          /\ i - 1 < j - 1
          /\ pending'[t][i - 1] = pending[t][i] /\ pending'[t][j - 1] = pending[t][j]
      BY <2>1, <2>4, StartPositions
    <3> QED
      BY <2>1, <3>1 DEF Ahead
  <2> QED
    BY <2>2, <2>3, <2>4
<1> QED
  BY <1>2, <1>3

\* An answer takes the running operation, and no other, out of flight.
LEMMA AnswerFlying ==
  ASSUME FifoInv, NEW r \in Result, Answer(r)
  PROVE  /\ Flying(running) /\ running \in Operation
         /\ \A o : Flying(o)' => Flying(o) /\ o.from # running.from
         /\ \A t \in SessionIds : \A a :
              /\ Ahead(t, a) /\ running.from # t => Ahead(t, a)'
              /\ Ahead(t, a) /\ running.from = a => a = t
<1>1. /\ running # NoOp /\ running' = NoOp /\ pending' = pending
      /\ running \in Operation
  BY DEF Answer, FifoInv, FifoTypeOK
<1>2. \A s \in SessionIds : \A i \in 1 .. Len(pending[s]) :
        pending[s][i].from # running.from
  BY <1>1 DEF FifoInv, ExactlyOneInFlight, OnePerActor
<1>3. \A o : Flying(o)' => Flying(o) /\ o.from # running.from
  BY <1>1, <1>2 DEF Flying
<1>4. ASSUME NEW t \in SessionIds, NEW a, Ahead(t, a)
      PROVE  /\ running.from # t => Ahead(t, a)'
             /\ running.from = a => a = t
  BY <1>1, <1>2, <1>4 DEF Ahead
<1> QED
  BY <1>1, <1>3, <1>4 DEF Flying

\* Taking an answer, or leaving the scheduler alone, changes nothing in flight.
LEMMA QuietFlying ==
  ASSUME running' = running, pending' = pending
  PROVE  /\ \A o : Flying(o)' => Flying(o)
         /\ \A t, a : Ahead(t, a) => Ahead(t, a)'
BY DEF Flying, Ahead

\* Every step of the scheduler's promise keeps the invariant.
LEMMA FifoStepInv == FifoInv /\ [FifoNext]_fifoVars => FifoInv'
<1> SUFFICES ASSUME FifoInv, [FifoNext]_fifoVars PROVE FifoInv'
  OBVIOUS
<1>1. ASSUME NEW op \in Operation, Submit(op) PROVE FifoInv'
  BY <1>1, SubmitInv
<1>2. ASSUME NEW s \in SessionIds, Start(s) PROVE FifoInv'
  BY <1>2, StartInv
<1>3. ASSUME NEW r \in Result, Answer(r) PROVE FifoInv'
  BY <1>3, AnswerInv
<1>4. ASSUME NEW a \in Actors, Resume(a) PROVE FifoInv'
  BY <1>4, ResumeInv
<1>5. CASE UNCHANGED fifoVars
  BY <1>5 DEF fifoVars, FifoInv, FifoTypeOK, ExactlyOneInFlight, SessionTagged,
              AwaitedInFlight, OnePerActor, NoneLost, InFlight
<1> QED
  BY <1>1, <1>2, <1>3, <1>4, <1>5 DEF FifoNext

\* RadioHandle::submit answers each operation once, and its own submitter.
THEOREM FifoAnswersOnce == FifoSpec => []ExactlyOneInFlight
<1>1. FifoInv => ExactlyOneInFlight
  BY DEF FifoInv
<1> QED
  BY FifoInitInv, FifoStepInv, <1>1, PTL DEF FifoSpec

------------------------------------------------------------------------------
\* An operation in flight tells where its submitter stands.
WellFormed(op) ==
  /\ op.from \in Clients =>
       /\ op.session = op.from
       /\ phase[op.from] \in {"keyWait", "unkeyWait", "otherWait", "closeWait"}
       /\ op.kind = "tx" <=> phase[op.from] = "keyWait"
       /\ op.kind = "rx" <=> phase[op.from] \in {"unkeyWait", "closeWait"}
  /\ op.from = Watchdog =>
       op.kind = "rx" /\ op.session = wdTarget /\ wdPhase = "rxWait"
  /\ op.from = MainTask =>
       /\ op.kind = "rx" /\ op.session = mainTarget
       /\ mainPhase \in {"rxWait", "exited"}
  /\ op.from = Poller => op.kind = "poll"

OpsWellFormed == \A op \in Operation : Flying(op) => WellFormed(op)

\* Only a capable session is on the transmit path.
OnlyCapable ==
  \A c \in Clients :
    phase[c] \in {"keyHold", "keyWait", "unkeyWait", "closing", "closeWait"} =>
      c \in PttClients

\* The watchdog and the shutdown release capable sessions.
TargetsKnown ==
  /\ wdPhase # "sleep" => wdTarget \in PttClients
  /\ mainPhase \in {"stopping", "rxWait"} => mainTarget \in PttClients

\* No time passes between try_key and submit: a session that is there and has
\* the lease is not expired.
FreshKey == \A c \in Clients : phase[c] = "keyHold" /\ owner = c => age = 0

\* A session between try_key and submit while its lease is being released has
\* crossed with the release.
CrossingNoted ==
  \A c \in PttClients :
    /\ phase[c] = "keyHold"
    /\ \/ wdPhase # "sleep" /\ wdTarget = c
       \/ mainPhase = "rxWait" /\ mainTarget = c
    => c \in unsure

\* Session c awaits the answer to a TX.
KeySent(c) == phase[c] = "keyWait" /\ await[c] = "waiting"

\* The RX that actor a sends for session t runs after the TX of t, and once it
\* is answered t is not keyed.
RunsLast(a, t) ==
  t \notin unsure =>
    /\ await[a] = "waiting" /\ KeySent(t) => Ahead(t, a)
    /\ await[a] \in Result => ~KeySent(t) /\ keyedBy # t

ReleaseRunsLast ==
  /\ wdPhase = "rxWait" => RunsLast(Watchdog, wdTarget)
  /\ mainPhase = "rxWait" => RunsLast(MainTask, mainTarget)

\* A session whose TX failed, or whose RX was answered, does not transmit.
AnsweredUnkeyed ==
  \A c \in PttClients \ unsure :
    \/ phase[c] = "keyWait" /\ await[c] = "err"
    \/ phase[c] \in {"unkeyWait", "closeWait"} /\ await[c] \in Result
    => keyedBy # c

\* A session that is gone holds no lease.
ClosedFree == \A c \in Clients : phase[c] = "closed" => owner # c

\* Until a late TX acquires the lease, it is the one the shutdown found.
ShutdownOwns ==
  mainPhase \in {"stopping", "rxWait"} /\ ~lateKey =>
    owner \in {mainTarget, Nobody}

StationInv ==
  /\ StationTypeOK
  /\ ExactlyOneInFlight
  /\ OpsWellFormed
  /\ OnlyCapable
  /\ TargetsKnown
  /\ FreshKey
  /\ CrossingNoted
  /\ ReleaseRunsLast
  /\ AnsweredUnkeyed
  /\ ClosedFree
  /\ LeaseCoversKey
  /\ ShutdownOwns
  /\ CleanExit

USE StationAssumption

\* The tasks and sessions are distinct.
LEMMA Distinct ==
  /\ PttClients \subseteq Clients /\ Clients \subseteq SessionIds
  /\ Clients \subseteq Actors /\ Nobody \notin Clients
  /\ Watchdog \in Actors \ Clients /\ MainTask \in Actors \ Clients
  /\ Poller \in Actors \ Clients /\ Poller \in SessionIds
  /\ Watchdog # MainTask /\ Watchdog # Poller /\ MainTask # Poller
  /\ OtherPrio \subseteq {Write, Read} /\ MaxTx \in Nat \ {0}
OBVIOUS

\* Op builds an operation with the fields it is given.
LEMMA OpFields ==
  ASSUME NEW s \in SessionIds, NEW a \in Actors, NEW p \in Priority,
         NEW k \in {"tx", "rx", "other", "poll"}
  PROVE  /\ Op(s, a, p, k) \in Operation
         /\ Op(s, a, p, k).session = s /\ Op(s, a, p, k).from = a
         /\ Op(s, a, p, k).kind = k
BY DEF Op, Operation

\* The scheduler's part of the invariant.
LEMMA StationFifoInv == StationInv => FifoInv
BY DEF StationInv, StationTypeOK, FifoInv

USE Distinct

------------------------------------------------------------------------------
(***************************************************************************)
(* Steps of the client sessions                                            *)
(***************************************************************************)

\* A client that submits an operation: KeySubmit, UnkeySubmit, OtherSubmit and
\* DisconnectSubmit.
LEMMA ClientSubmitInv ==
  ASSUME StationInv, mainPhase # "exited",
         NEW c \in Clients, NEW from \in Phase, NEW to \in Phase, NEW op \in Operation,
         MoveClient(c, from, to), Submit(op), op.from = c, op.session = c,
         op.kind = "tx" <=> to = "keyWait",
         op.kind = "rx" <=> to \in {"unkeyWait", "closeWait"},
         to \in {"keyWait", "unkeyWait", "otherWait", "closeWait"},
         to = "keyWait" => from = "keyHold",
         to # "otherWait" => c \in PttClients,
         UNCHANGED <<leaseVars, keyedBy, wdVars, mainVars, ghostVars>>
  PROVE  StationInv'
<1>1. FifoInv /\ FifoInv'
  BY StationFifoInv, SubmitInv
<1>2. /\ phase \in [Clients -> Phase] /\ phase[c] = from
      /\ phase' = [phase EXCEPT ![c] = to]
      /\ await \in [Actors -> SubmitCall] /\ await[c] = "idle"
      /\ await' = [await EXCEPT ![c] = "waiting"]
  BY DEF StationInv, StationTypeOK, FifoTypeOK, MoveClient, Submit
<1>3. /\ UNCHANGED <<owner, age, keyedBy, wdPhase, wdTarget, mainPhase, mainTarget>>
      /\ UNCHANGED <<unsure, lateKey>>
  BY DEF leaseVars, wdVars, mainVars, ghostVars
<1>4. StationTypeOK' /\ ExactlyOneInFlight'
  BY <1>1, <1>2, <1>3 DEF StationInv, StationTypeOK, FifoInv
<1>5. OpsWellFormed'
  <2> SUFFICES ASSUME NEW o \in Operation, Flying(o)' PROVE WellFormed(o)'
    BY DEF OpsWellFormed
  <2>1. CASE o = op
    BY <2>1, <1>2 DEF WellFormed
  <2>2. CASE o # op
    <3>1. Flying(o) /\ WellFormed(o)
      BY <1>1, <2>2, SubmitFlying DEF StationInv, OpsWellFormed
    <3>2. o.from # c
      BY <1>1, <1>2, <3>1, FlyingAwaited
    <3> QED
      BY <1>2, <1>3, <3>1, <3>2 DEF WellFormed
  <2> QED
    BY <2>1, <2>2
<1>6. OnlyCapable' /\ TargetsKnown' /\ FreshKey' /\ CrossingNoted' /\ ClosedFree'
  BY <1>2, <1>3 DEF StationInv, OnlyCapable, TargetsKnown, FreshKey, CrossingNoted,
     ClosedFree
<1>7. ReleaseRunsLast'
  <2>1. ASSUME NEW a \in Actors \ Clients, NEW t \in PttClients, RunsLast(a, t),
               phase[t] = "keyHold" => t \in unsure
        PROVE  RunsLast(a, t)'
    <3>1. Ahead(t, a) => Ahead(t, a)'
      BY <1>1, SubmitFlying
    <3> QED
      BY <1>2, <1>3, <2>1, <3>1 DEF RunsLast, KeySent, Result
  <2> QED
    BY <1>3, <2>1 DEF StationInv, ReleaseRunsLast, TargetsKnown, CrossingNoted
<1>8. AnsweredUnkeyed'
  BY <1>2, <1>3 DEF StationInv, AnsweredUnkeyed, Result
<1>9. LeaseCoversKey'
  BY <1>2, <1>3 DEF StationInv, LeaseCoversKey, Claim
<1>10. ShutdownOwns' /\ CleanExit'
  BY <1>3 DEF StationInv, ShutdownOwns, CleanExit
<1> QED
  BY <1>4, <1>5, <1>6, <1>7, <1>8, <1>9, <1>10 DEF StationInv

\* A client that takes its answer: KeyDone, KeyFailed, UnkeyDone, OtherDone and
\* DisconnectDone.  A lease is given back only by a session that is not keyed.
LEMMA ClientAnswerInv ==
  ASSUME StationInv, mainPhase # "exited",
         NEW c \in Clients, NEW from \in Phase, NEW to \in {"idle", "closed"},
         MoveClient(c, from, to), Resume(c),
         \/ UNCHANGED leaseVars /\ to = "idle"
         \/ Unkey(c) /\ (c \in PttClients \ unsure => keyedBy # c),
         from = "keyWait" => await[c] \in Result,
         UNCHANGED <<keyedBy, wdVars, mainVars, ghostVars>>
  PROVE  StationInv'
<1>1. FifoInv /\ FifoInv'
  BY StationFifoInv, ResumeInv
<1>2. /\ phase \in [Clients -> Phase] /\ phase[c] = from
      /\ phase' = [phase EXCEPT ![c] = to]
      /\ await \in [Actors -> SubmitCall] /\ await[c] \in Result
      /\ await' = [await EXCEPT ![c] = "idle"]
      /\ running' = running /\ pending' = pending
  BY DEF StationInv, StationTypeOK, FifoTypeOK, MoveClient, Resume
<1>3. /\ UNCHANGED <<keyedBy, wdPhase, wdTarget, mainPhase, mainTarget>>
      /\ UNCHANGED <<unsure, lateKey>>
  BY DEF wdVars, mainVars, ghostVars
<1>4. /\ \/ UNCHANGED <<owner, age>> /\ to = "idle"
         \/ owner' = Nobody /\ age' = 0 /\ owner = c /\ keyedBy # c
         \/ owner' = Nobody /\ age' = 0 /\ owner = c /\ c \in unsure
         \/ UNCHANGED <<owner, age>> /\ owner # c
      /\ owner \in PttClients \cup {Nobody} /\ age \in 0 .. MaxTx
  BY DEF leaseVars, Unkey, StationInv, StationTypeOK
<1>5. StationTypeOK' /\ ExactlyOneInFlight'
  BY <1>1, <1>2, <1>3, <1>4 DEF StationInv, StationTypeOK, FifoInv, Phase
<1>6. OpsWellFormed'
  <2> SUFFICES ASSUME NEW o \in Operation, Flying(o)' PROVE WellFormed(o)'
    BY DEF OpsWellFormed
  <2>1. Flying(o) /\ WellFormed(o)
    BY <1>2, QuietFlying DEF StationInv, OpsWellFormed
  <2>2. o.from # c
    BY <1>1, <1>2, <2>1, FlyingAwaited DEF Result
  <2> QED
    BY <1>2, <1>3, <2>1, <2>2 DEF WellFormed
<1>7. OnlyCapable' /\ TargetsKnown' /\ FreshKey' /\ CrossingNoted' /\ ClosedFree'
  BY <1>2, <1>3, <1>4 DEF StationInv, OnlyCapable, TargetsKnown, FreshKey,
     CrossingNoted, ClosedFree
<1>8. ReleaseRunsLast'
  <2>1. ASSUME NEW a \in Actors \ Clients, NEW t \in PttClients, RunsLast(a, t)
        PROVE  RunsLast(a, t)'
    <3>1. Ahead(t, a) => Ahead(t, a)'
      BY <1>2, QuietFlying
    <3> QED
      BY <1>2, <1>3, <2>1, <3>1 DEF RunsLast, KeySent, Result
  <2> QED
    BY <1>3, <2>1 DEF StationInv, ReleaseRunsLast, TargetsKnown
<1>9. AnsweredUnkeyed'
  BY <1>2, <1>3 DEF StationInv, AnsweredUnkeyed, Result
<1>10. LeaseCoversKey'
  BY <1>2, <1>3, <1>4 DEF StationInv, LeaseCoversKey, Claim
<1>11. ShutdownOwns' /\ CleanExit'
  BY <1>3, <1>4 DEF StationInv, ShutdownOwns, CleanExit
<1> QED
  BY <1>5, <1>6, <1>7, <1>8, <1>9, <1>10, <1>11 DEF StationInv

\* A step that leaves the scheduler, the watchdog and the shutdown alone and
\* moves a client with nothing in flight keeps what is in flight well formed.
LEMMA IdleMoveInv ==
  ASSUME StationInv, NEW c \in Clients, NEW to \in Phase,
         MoveClient(c, "idle", to), UNCHANGED <<fifoVars, wdVars, mainVars>>
  PROVE  ExactlyOneInFlight' /\ OpsWellFormed' /\ FifoTypeOK'
<1>1. FifoInv /\ FifoInv'
  BY StationFifoInv, FifoStepInv
<1>2. /\ phase \in [Clients -> Phase] /\ phase[c] = "idle"
      /\ phase' = [phase EXCEPT ![c] = to]
      /\ running' = running /\ pending' = pending
  BY DEF StationInv, StationTypeOK, MoveClient, fifoVars
<1>3. UNCHANGED <<wdPhase, wdTarget, mainPhase, mainTarget>>
  BY DEF wdVars, mainVars
<1>4. ASSUME NEW o \in Operation, Flying(o)' PROVE WellFormed(o)'
  <2>1. Flying(o) /\ WellFormed(o)
    BY <1>2, <1>4, QuietFlying DEF StationInv, OpsWellFormed
  <2>2. o.from # c
    BY <1>2, <2>1 DEF WellFormed
  <2> QED
    BY <1>2, <1>3, <2>1, <2>2 DEF WellFormed
<1> QED
  BY <1>1, <1>4 DEF OpsWellFormed, FifoInv

\* try_key: the lease was free or the session's own, and a session whose lease
\* is being released is noted.
LEMMA KeyAcquireInv ==
  ASSUME StationInv, mainPhase # "exited", NEW c \in Clients, KeyAcquire(c)
  PROVE  StationInv'
<1>1. ExactlyOneInFlight' /\ OpsWellFormed' /\ FifoTypeOK'
  BY IdleMoveInv DEF KeyAcquire, Phase
<1>2. /\ phase \in [Clients -> Phase] /\ phase[c] = "idle" /\ c \in PttClients
      /\ phase' = [phase EXCEPT ![c] = "keyHold"]
      /\ running' = running /\ pending' = pending /\ await' = await
  BY DEF StationInv, StationTypeOK, MoveClient, fifoVars, KeyAcquire
<1>3. UNCHANGED <<keyedBy, wdPhase, wdTarget, mainPhase, mainTarget>>
  BY DEF KeyAcquire, wdVars, mainVars
<1>4. /\ owner \in {Nobody, c} /\ owner' = c /\ age' = 0
      /\ unsure' = IF Releasing(c) THEN unsure \cup {c} ELSE unsure \ {c}
      /\ lateKey' = (lateKey \/ mainPhase # "running")
      /\ unsure \subseteq PttClients /\ lateKey \in BOOLEAN
  BY DEF KeyAcquire, TryKey, StationInv, StationTypeOK
<1>5. StationTypeOK'
  <2>1. lateKey' \in BOOLEAN
    BY <1>4
  <2> QED
    BY <1>1, <1>2, <1>3, <1>4, <2>1 DEF StationInv, StationTypeOK, Phase
<1>6. OnlyCapable' /\ TargetsKnown' /\ FreshKey' /\ ClosedFree'
  BY <1>2, <1>3, <1>4 DEF StationInv, OnlyCapable, TargetsKnown, FreshKey, ClosedFree
<1>7. CrossingNoted'
  BY <1>2, <1>3, <1>4 DEF StationInv, CrossingNoted, Releasing
<1>8. ReleaseRunsLast'
  <2>1. ASSUME NEW a \in Actors \ Clients, NEW t \in PttClients, RunsLast(a, t),
               t = c => Releasing(c)
        PROVE  RunsLast(a, t)'
    <3>1. Ahead(t, a) => Ahead(t, a)'
      BY <1>2, QuietFlying
    <3> QED
      BY <1>2, <1>3, <1>4, <2>1, <3>1 DEF RunsLast, KeySent
  <2> QED
    BY <1>3, <2>1 DEF StationInv, ReleaseRunsLast, TargetsKnown, Releasing
<1>9. AnsweredUnkeyed'
  BY <1>2, <1>3, <1>4 DEF StationInv, AnsweredUnkeyed
<1>10. LeaseCoversKey'
  BY <1>2, <1>3, <1>4 DEF StationInv, LeaseCoversKey, Claim
<1>11. ShutdownOwns'
  <2>1. mainPhase' # "running" => lateKey'
    BY <1>3, <1>4
  <2> QED
    BY <2>1 DEF ShutdownOwns
<1>12. CleanExit'
  BY <1>3 DEF CleanExit
<1> QED
  BY <1>1, <1>5, <1>6, <1>7, <1>8, <1>9, <1>10, <1>11, <1>12 DEF StationInv

\* The transport closed: the owner goes on to release, another is gone.
LEMMA DisconnectInv ==
  ASSUME StationInv, mainPhase # "exited", NEW c \in Clients, Disconnect(c)
  PROVE  StationInv'
<1> DEFINE to == IF owner = c THEN "closing" ELSE "closed"
<1>1. ExactlyOneInFlight' /\ OpsWellFormed' /\ FifoTypeOK'
  <2>1. to \in Phase
    BY DEF Phase
  <2> QED
    BY <2>1, IdleMoveInv DEF Disconnect
<1>2. /\ phase \in [Clients -> Phase] /\ phase[c] = "idle"
      /\ phase' = [phase EXCEPT ![c] = to]
      /\ running' = running /\ pending' = pending /\ await' = await
  BY DEF StationInv, StationTypeOK, MoveClient, fifoVars, Disconnect
<1>3. /\ UNCHANGED <<owner, age, keyedBy, wdPhase, wdTarget, mainPhase, mainTarget>>
      /\ UNCHANGED <<unsure, lateKey>>
      /\ owner \in PttClients \cup {Nobody}
  BY DEF Disconnect, leaseVars, wdVars, mainVars, ghostVars, StationInv, StationTypeOK
<1>4. StationTypeOK'
  BY <1>1, <1>2, <1>3 DEF StationInv, StationTypeOK, Phase
<1>5. OnlyCapable' /\ TargetsKnown' /\ FreshKey' /\ CrossingNoted' /\ ClosedFree'
  BY <1>2, <1>3 DEF StationInv, OnlyCapable, TargetsKnown, FreshKey, CrossingNoted,
     ClosedFree
<1>6. ReleaseRunsLast'
  <2>1. ASSUME NEW a \in Actors \ Clients, NEW t \in PttClients, RunsLast(a, t)
        PROVE  RunsLast(a, t)'
    <3>1. Ahead(t, a) => Ahead(t, a)'
      BY <1>2, QuietFlying
    <3> QED
      BY <1>2, <1>3, <2>1, <3>1 DEF RunsLast, KeySent
  <2> QED
    BY <1>3, <2>1 DEF StationInv, ReleaseRunsLast, TargetsKnown
<1>7. AnsweredUnkeyed'
  BY <1>2, <1>3 DEF StationInv, AnsweredUnkeyed
<1>8. LeaseCoversKey'
  BY <1>2, <1>3 DEF StationInv, LeaseCoversKey, Claim
<1>9. ShutdownOwns' /\ CleanExit'
  BY <1>3 DEF StationInv, ShutdownOwns, CleanExit
<1> QED
  BY <1>1, <1>4, <1>5, <1>6, <1>7, <1>8, <1>9 DEF StationInv

------------------------------------------------------------------------------
(***************************************************************************)
(* Steps of the watchdog and the poller                                    *)
(***************************************************************************)

\* expired_owner() named a session, which is not between try_key and submit.
LEMMA WatchdogExpireInv ==
  ASSUME StationInv, mainPhase # "exited", WatchdogExpire
  PROVE  StationInv'
<1>1. FifoInv /\ FifoInv'
  BY StationFifoInv, FifoStepInv DEF WatchdogExpire
<1>2. /\ wdPhase = "sleep" /\ wdPhase' = "expired" /\ wdTarget' = owner
      /\ owner # Nobody /\ age >= MaxTx
      /\ owner \in PttClients \cup {Nobody} /\ age \in 0 .. MaxTx
      /\ running' = running /\ pending' = pending /\ await' = await
      /\ UNCHANGED <<owner, age, phase, keyedBy, mainPhase, mainTarget>>
      /\ UNCHANGED <<unsure, lateKey>>
  BY DEF WatchdogExpire, Expired, fifoVars, leaseVars, mainVars, ghostVars,
     StationInv, StationTypeOK
<1>3. StationTypeOK' /\ ExactlyOneInFlight'
  BY <1>1, <1>2 DEF StationInv, StationTypeOK, FifoInv
<1>4. OpsWellFormed'
  <2>1. ASSUME NEW o \in Operation, Flying(o)' PROVE WellFormed(o)'
    <3>1. Flying(o) /\ WellFormed(o)
      BY <1>2, <2>1, QuietFlying DEF StationInv, OpsWellFormed
    <3> QED
      BY <1>2, <3>1 DEF WellFormed
  <2> QED
    BY <2>1 DEF OpsWellFormed
<1>5. OnlyCapable' /\ TargetsKnown' /\ FreshKey' /\ ClosedFree'
  BY <1>2 DEF StationInv, OnlyCapable, TargetsKnown, FreshKey, ClosedFree
<1>6. CrossingNoted'
  <2>1. phase[owner] # "keyHold"
    BY <1>2 DEF StationInv, FreshKey
  <2> QED
    BY <1>2, <2>1 DEF StationInv, CrossingNoted
<1>7. ReleaseRunsLast'
  <2>1. mainPhase = "rxWait" /\ RunsLast(MainTask, mainTarget)
          => RunsLast(MainTask, mainTarget)'
    <3>1. Ahead(mainTarget, MainTask) => Ahead(mainTarget, MainTask)'
      BY <1>2 DEF Ahead
    <3> QED
      BY <1>2, <3>1 DEF RunsLast, KeySent
  <2> QED
    BY <1>2, <2>1 DEF StationInv, ReleaseRunsLast
<1>8. AnsweredUnkeyed' /\ LeaseCoversKey' /\ ShutdownOwns' /\ CleanExit'
  BY <1>2 DEF StationInv, AnsweredUnkeyed, LeaseCoversKey, Claim, ShutdownOwns, CleanExit
<1> QED
  BY <1>3, <1>4, <1>5, <1>6, <1>7, <1>8 DEF StationInv

\* The watchdog's RX goes behind a TX its owner has in flight.
LEMMA WatchdogSubmitInv ==
  ASSUME StationInv, mainPhase # "exited", WatchdogSubmit
  PROVE  StationInv'
<1> DEFINE op == Unkeying(wdTarget, Watchdog)
<1>1. /\ wdPhase = "expired" /\ wdPhase' = "rxWait" /\ Submit(op)
      /\ wdTarget \in PttClients
      /\ UNCHANGED <<owner, age, phase, keyedBy, wdTarget, mainPhase, mainTarget>>
      /\ UNCHANGED <<unsure, lateKey>>
  BY DEF WatchdogSubmit, leaseVars, mainVars, ghostVars, StationInv, TargetsKnown
<1>2. /\ op \in Operation /\ op.session = wdTarget /\ op.from = Watchdog
      /\ op.kind = "rx"
  BY <1>1, OpFields DEF Unkeying, Ptt, Priority, Poll
<1> HIDE DEF op
<1>3. FifoInv /\ FifoInv'
  BY <1>1, <1>2, StationFifoInv, SubmitInv
<1>4. /\ await \in [Actors -> SubmitCall] /\ await[Watchdog] = "idle"
      /\ await' = [await EXCEPT ![Watchdog] = "waiting"]
  BY <1>1, <1>2 DEF Submit, StationInv, StationTypeOK, FifoTypeOK
<1>5. StationTypeOK' /\ ExactlyOneInFlight'
  BY <1>1, <1>3 DEF StationInv, StationTypeOK, FifoInv
<1>6. OpsWellFormed'
  <2> SUFFICES ASSUME NEW o \in Operation, Flying(o)' PROVE WellFormed(o)'
    BY DEF OpsWellFormed
  <2>1. CASE o = op
    BY <2>1, <1>1, <1>2 DEF WellFormed
  <2>2. CASE o # op
    <3>1. Flying(o) /\ WellFormed(o)
      BY <1>1, <1>2, <1>3, <2>2, SubmitFlying DEF StationInv, OpsWellFormed
    <3>2. o.from # Watchdog
      BY <1>3, <1>4, <3>1, FlyingAwaited
    <3> QED
      BY <1>1, <3>1, <3>2 DEF WellFormed
  <2> QED
    BY <2>1, <2>2
<1>7. OnlyCapable' /\ TargetsKnown' /\ FreshKey' /\ CrossingNoted' /\ ClosedFree'
  BY <1>1 DEF StationInv, OnlyCapable, TargetsKnown, FreshKey, CrossingNoted, ClosedFree
<1>8. ReleaseRunsLast'
  <2>1. RunsLast(Watchdog, wdTarget)'
    <3>1. ASSUME KeySent(wdTarget) PROVE Ahead(wdTarget, Watchdog)'
      <4>1. PICK o : Flying(o) /\ o.from = wdTarget
        BY <1>1, <1>3, <3>1, AwaitedFlies DEF KeySent
      <4>2. o.session = wdTarget
        BY <1>1, <1>3, <4>1, FlyingAwaited DEF StationInv, OpsWellFormed, WellFormed
      <4> QED
        BY <1>1, <1>2, <1>3, <4>1, <4>2, SubmitFlying
    <3> QED
      BY <1>1, <1>4, <3>1 DEF RunsLast, KeySent, Result
  <2>2. mainPhase = "rxWait" => RunsLast(MainTask, mainTarget)'
    <3>1. mainPhase = "rxWait" /\ Ahead(mainTarget, MainTask)
            => Ahead(mainTarget, MainTask)'
      BY <1>1, <1>2, <1>3, SubmitFlying DEF StationInv, TargetsKnown
    <3> QED
      BY <1>1, <1>4, <3>1
         DEF StationInv, ReleaseRunsLast, TargetsKnown, RunsLast, KeySent
  <2> QED
    BY <1>1, <2>1, <2>2 DEF ReleaseRunsLast
<1>9. AnsweredUnkeyed' /\ LeaseCoversKey' /\ ShutdownOwns' /\ CleanExit'
  BY <1>1, <1>4 DEF StationInv, AnsweredUnkeyed, LeaseCoversKey, Claim, ShutdownOwns,
     CleanExit
<1> QED
  BY <1>5, <1>6, <1>7, <1>8, <1>9 DEF StationInv

\* The watchdog frees the lease of a session that no longer transmits.
LEMMA WatchdogReleaseInv ==
  ASSUME StationInv, mainPhase # "exited", WatchdogRelease
  PROVE  StationInv'
<1>1. FifoInv /\ FifoInv'
  BY StationFifoInv, ResumeInv DEF WatchdogRelease
<1>2. /\ wdPhase = "rxWait" /\ wdPhase' = "sleep" /\ wdTarget \in PttClients
      /\ await \in [Actors -> SubmitCall] /\ await[Watchdog] \in Result
      /\ await' = [await EXCEPT ![Watchdog] = "idle"]
      /\ running' = running /\ pending' = pending
      /\ UNCHANGED <<phase, keyedBy, wdTarget, mainPhase, mainTarget>>
      /\ UNCHANGED <<unsure, lateKey>>
  BY DEF WatchdogRelease, Resume, mainVars, ghostVars, StationInv, StationTypeOK,
     FifoTypeOK, TargetsKnown
<1>3. /\ \/ owner = wdTarget /\ owner' = Nobody /\ age' = 0
         \/ owner # wdTarget /\ UNCHANGED <<owner, age>>
      /\ owner \in PttClients \cup {Nobody} /\ age \in 0 .. MaxTx
  BY DEF WatchdogRelease, Unkey, StationInv, StationTypeOK
<1>4. StationTypeOK' /\ ExactlyOneInFlight'
  BY <1>1, <1>2, <1>3 DEF StationInv, StationTypeOK, FifoInv
<1>5. OpsWellFormed'
  <2> SUFFICES ASSUME NEW o \in Operation, Flying(o)' PROVE WellFormed(o)'
    BY DEF OpsWellFormed
  <2>1. Flying(o) /\ WellFormed(o)
    BY <1>2, QuietFlying DEF StationInv, OpsWellFormed
  <2>2. o.from # Watchdog
    BY <1>1, <1>2, <2>1, FlyingAwaited DEF Result
  <2> QED
    BY <1>2, <2>1, <2>2 DEF WellFormed
<1>6. OnlyCapable' /\ TargetsKnown' /\ FreshKey' /\ CrossingNoted' /\ ClosedFree'
  BY <1>2, <1>3 DEF StationInv, OnlyCapable, TargetsKnown, FreshKey, CrossingNoted,
     ClosedFree
<1>7. ReleaseRunsLast'
  <2>1. Ahead(mainTarget, MainTask) => Ahead(mainTarget, MainTask)'
    BY <1>2 DEF Ahead
  <2> QED
    BY <1>2, <2>1 DEF StationInv, ReleaseRunsLast, TargetsKnown, RunsLast, KeySent
<1>8. AnsweredUnkeyed' /\ ShutdownOwns' /\ CleanExit'
  BY <1>2, <1>3 DEF StationInv, AnsweredUnkeyed, ShutdownOwns, CleanExit
<1>9. LeaseCoversKey'
  <2>1. wdTarget \in unsure \/ ~Claim(wdTarget)
    BY <1>2 DEF StationInv, ReleaseRunsLast, RunsLast, CrossingNoted, KeySent, Claim
  <2> QED
    BY <1>2, <1>3, <2>1 DEF StationInv, LeaseCoversKey, Claim
<1> QED
  BY <1>4, <1>5, <1>6, <1>7, <1>8, <1>9 DEF StationInv

\* The poller submits a poll.
LEMMA PollSubmitInv ==
  ASSUME StationInv, mainPhase # "exited", PollSubmit
  PROVE  StationInv'
<1> DEFINE op == Op(Poller, Poller, Poll, "poll")
<1>1. /\ Submit(op)
      /\ UNCHANGED <<owner, age, phase, keyedBy, wdPhase, wdTarget>>
      /\ UNCHANGED <<mainPhase, mainTarget, unsure, lateKey>>
  BY DEF PollSubmit, leaseVars, wdVars, mainVars, ghostVars
<1>2. /\ op \in Operation /\ op.session = Poller /\ op.from = Poller
      /\ op.kind = "poll"
  BY OpFields DEF Ptt, Priority, Poll
<1> HIDE DEF op
<1>3. FifoInv /\ FifoInv'
  BY <1>1, <1>2, StationFifoInv, SubmitInv
<1>4. /\ await \in [Actors -> SubmitCall] /\ await[Poller] = "idle"
      /\ await' = [await EXCEPT ![Poller] = "waiting"]
  BY <1>1, <1>2 DEF Submit, StationInv, StationTypeOK, FifoTypeOK
<1>5. StationTypeOK' /\ ExactlyOneInFlight'
  BY <1>1, <1>3 DEF StationInv, StationTypeOK, FifoInv
<1>6. OpsWellFormed'
  <2> SUFFICES ASSUME NEW o \in Operation, Flying(o)' PROVE WellFormed(o)'
    BY DEF OpsWellFormed
  <2>1. CASE o = op
    BY <2>1, <1>1, <1>2 DEF WellFormed
  <2>2. CASE o # op
    <3>1. Flying(o) /\ WellFormed(o)
      BY <1>1, <1>2, <1>3, <2>2, SubmitFlying DEF StationInv, OpsWellFormed
    <3> QED
      BY <1>1, <3>1 DEF WellFormed
  <2> QED
    BY <2>1, <2>2
<1>7. OnlyCapable' /\ TargetsKnown' /\ FreshKey' /\ CrossingNoted' /\ ClosedFree'
  BY <1>1 DEF StationInv, OnlyCapable, TargetsKnown, FreshKey, CrossingNoted, ClosedFree
<1>8. ReleaseRunsLast'
  <2>1. ASSUME NEW a \in {Watchdog, MainTask}, NEW t \in PttClients, RunsLast(a, t)
        PROVE  RunsLast(a, t)'
    <3>1. Ahead(t, a) => Ahead(t, a)'
      BY <1>1, <1>2, <1>3, SubmitFlying
    <3> QED
      BY <1>1, <1>4, <2>1, <3>1 DEF RunsLast, KeySent
  <2> QED
    BY <1>1, <2>1 DEF StationInv, ReleaseRunsLast, TargetsKnown
<1>9. AnsweredUnkeyed' /\ LeaseCoversKey' /\ ShutdownOwns' /\ CleanExit'
  BY <1>1, <1>4 DEF StationInv, AnsweredUnkeyed, LeaseCoversKey, Claim, ShutdownOwns,
     CleanExit
<1> QED
  BY <1>5, <1>6, <1>7, <1>8, <1>9 DEF StationInv

\* The poller takes its answer.
LEMMA PollDoneInv ==
  ASSUME StationInv, mainPhase # "exited", PollDone
  PROVE  StationInv'
<1>1. FifoInv /\ FifoInv'
  BY StationFifoInv, ResumeInv DEF PollDone
<1>2. /\ await \in [Actors -> SubmitCall]
      /\ await' = [await EXCEPT ![Poller] = "idle"]
      /\ running' = running /\ pending' = pending
      /\ UNCHANGED <<owner, age, phase, keyedBy, wdPhase, wdTarget>>
      /\ UNCHANGED <<mainPhase, mainTarget, unsure, lateKey>>
  BY DEF PollDone, Resume, leaseVars, wdVars, mainVars, ghostVars, StationInv,
     StationTypeOK, FifoTypeOK
<1>3. StationTypeOK' /\ ExactlyOneInFlight'
  BY <1>1, <1>2 DEF StationInv, StationTypeOK, FifoInv
<1>4. OpsWellFormed'
  <2>1. ASSUME NEW o \in Operation, Flying(o)' PROVE WellFormed(o)'
    BY <1>2, <2>1, QuietFlying DEF StationInv, OpsWellFormed, WellFormed
  <2> QED
    BY <2>1 DEF OpsWellFormed
<1>5. OnlyCapable' /\ TargetsKnown' /\ FreshKey' /\ CrossingNoted' /\ ClosedFree'
  BY <1>2 DEF StationInv, OnlyCapable, TargetsKnown, FreshKey, CrossingNoted, ClosedFree
<1>6. ReleaseRunsLast'
  <2>1. ASSUME NEW a \in {Watchdog, MainTask}, NEW t \in PttClients, RunsLast(a, t)
        PROVE  RunsLast(a, t)'
    <3>1. Ahead(t, a) => Ahead(t, a)'
      BY <1>2, QuietFlying
    <3> QED
      BY <1>2, <2>1, <3>1 DEF RunsLast, KeySent
  <2> QED
    BY <1>2, <2>1 DEF StationInv, ReleaseRunsLast, TargetsKnown
<1>7. AnsweredUnkeyed' /\ LeaseCoversKey' /\ ShutdownOwns' /\ CleanExit'
  BY <1>2 DEF StationInv, AnsweredUnkeyed, LeaseCoversKey, Claim, ShutdownOwns, CleanExit
<1> QED
  BY <1>3, <1>4, <1>5, <1>6, <1>7 DEF StationInv

------------------------------------------------------------------------------
(***************************************************************************)
(* Steps of the shutdown                                                   *)
(***************************************************************************)

\* run() reads the owner; with none, no session transmits.
LEMMA ShutdownInv ==
  ASSUME StationInv, mainPhase # "exited", Shutdown
  PROVE  StationInv'
<1>1. FifoInv /\ FifoInv'
  BY StationFifoInv, FifoStepInv DEF Shutdown
<1>2. /\ mainPhase = "running" /\ mainTarget' = owner
      /\ mainPhase' = IF owner = Nobody THEN "exited" ELSE "stopping"
      /\ owner \in PttClients \cup {Nobody} /\ keyedBy \in PttClients \cup {Nobody}
      /\ running' = running /\ pending' = pending /\ await' = await
      /\ UNCHANGED <<owner, age, phase, keyedBy, wdPhase, wdTarget, unsure, lateKey>>
  BY DEF Shutdown, fifoVars, leaseVars, wdVars, ghostVars, StationInv, StationTypeOK
<1>3. StationTypeOK' /\ ExactlyOneInFlight'
  BY <1>1, <1>2 DEF StationInv, StationTypeOK, FifoInv
<1>4. OpsWellFormed'
  <2>1. ASSUME NEW o \in Operation, Flying(o)' PROVE WellFormed(o)'
    <3>1. Flying(o) /\ WellFormed(o)
      BY <1>2, <2>1, QuietFlying DEF StationInv, OpsWellFormed
    <3> QED
      BY <1>2, <3>1 DEF WellFormed
  <2> QED
    BY <2>1 DEF OpsWellFormed
<1>5. OnlyCapable' /\ TargetsKnown' /\ FreshKey' /\ CrossingNoted' /\ ClosedFree'
  BY <1>2 DEF StationInv, OnlyCapable, TargetsKnown, FreshKey, CrossingNoted, ClosedFree
<1>6. ReleaseRunsLast'
  <2>1. Ahead(wdTarget, Watchdog) => Ahead(wdTarget, Watchdog)'
    BY <1>2 DEF Ahead
  <2> QED
    BY <1>2, <2>1 DEF StationInv, ReleaseRunsLast, RunsLast, KeySent
<1>7. AnsweredUnkeyed' /\ LeaseCoversKey' /\ ShutdownOwns'
  BY <1>2 DEF StationInv, AnsweredUnkeyed, LeaseCoversKey, Claim, ShutdownOwns
<1>8. CleanExit'
  BY <1>2 DEF StationInv, LeaseCoversKey, Claim, CleanExit
<1> QED
  BY <1>3, <1>4, <1>5, <1>6, <1>7, <1>8 DEF StationInv

\* The shutdown's RX goes behind a TX the owner has in flight; an owner between
\* try_key and submit is noted.
LEMMA ShutdownSubmitInv ==
  ASSUME StationInv, mainPhase # "exited", ShutdownSubmit
  PROVE  StationInv'
<1> DEFINE op == Unkeying(mainTarget, MainTask)
<1>1. /\ mainPhase = "stopping" /\ mainPhase' = "rxWait" /\ Submit(op)
      /\ mainTarget \in PttClients
      /\ UNCHANGED <<owner, age, phase, keyedBy, wdPhase, wdTarget, mainTarget, lateKey>>
      /\ unsure' = IF phase[mainTarget] = "keyHold" THEN unsure \cup {mainTarget}
                   ELSE unsure
  BY DEF ShutdownSubmit, leaseVars, wdVars, StationInv, TargetsKnown
<1>2. /\ op \in Operation /\ op.session = mainTarget /\ op.from = MainTask
      /\ op.kind = "rx"
  BY <1>1, OpFields DEF Unkeying, Ptt, Priority, Poll
<1> HIDE DEF op
<1>3. FifoInv /\ FifoInv'
  BY <1>1, <1>2, StationFifoInv, SubmitInv
<1>4. /\ await \in [Actors -> SubmitCall] /\ await[MainTask] = "idle"
      /\ await' = [await EXCEPT ![MainTask] = "waiting"]
  BY <1>1, <1>2 DEF Submit, StationInv, StationTypeOK, FifoTypeOK
<1>5. StationTypeOK' /\ ExactlyOneInFlight'
  BY <1>1, <1>3 DEF StationInv, StationTypeOK, FifoInv
<1>6. OpsWellFormed'
  <2> SUFFICES ASSUME NEW o \in Operation, Flying(o)' PROVE WellFormed(o)'
    BY DEF OpsWellFormed
  <2>1. CASE o = op
    BY <2>1, <1>1, <1>2 DEF WellFormed
  <2>2. CASE o # op
    <3>1. Flying(o) /\ WellFormed(o)
      BY <1>1, <1>2, <1>3, <2>2, SubmitFlying DEF StationInv, OpsWellFormed
    <3>2. o.from # MainTask
      BY <1>3, <1>4, <3>1, FlyingAwaited
    <3> QED
      BY <1>1, <3>1, <3>2 DEF WellFormed
  <2> QED
    BY <2>1, <2>2
<1>7. OnlyCapable' /\ TargetsKnown' /\ FreshKey' /\ CrossingNoted' /\ ClosedFree'
  BY <1>1 DEF StationInv, OnlyCapable, TargetsKnown, FreshKey, CrossingNoted, ClosedFree
<1>8. ReleaseRunsLast'
  <2>1. RunsLast(MainTask, mainTarget)'
    <3>1. ASSUME KeySent(mainTarget) PROVE Ahead(mainTarget, MainTask)'
      <4>1. PICK o : Flying(o) /\ o.from = mainTarget
        BY <1>1, <1>3, <3>1, AwaitedFlies DEF KeySent
      <4>2. o.session = mainTarget
        BY <1>1, <1>3, <4>1, FlyingAwaited DEF StationInv, OpsWellFormed, WellFormed
      <4> QED
        BY <1>1, <1>2, <1>3, <4>1, <4>2, SubmitFlying
    <3> QED
      BY <1>1, <1>4, <3>1 DEF RunsLast, KeySent, Result
  <2>2. wdPhase = "rxWait" => RunsLast(Watchdog, wdTarget)'
    <3>1. wdPhase = "rxWait" /\ Ahead(wdTarget, Watchdog)
            => Ahead(wdTarget, Watchdog)'
      BY <1>1, <1>2, <1>3, SubmitFlying DEF StationInv, TargetsKnown
    <3> QED
      BY <1>1, <1>4, <3>1
         DEF StationInv, ReleaseRunsLast, TargetsKnown, RunsLast, KeySent
  <2> QED
    BY <1>1, <2>1, <2>2 DEF ReleaseRunsLast
<1>9. AnsweredUnkeyed' /\ LeaseCoversKey' /\ ShutdownOwns' /\ CleanExit'
  BY <1>1, <1>4 DEF StationInv, AnsweredUnkeyed, LeaseCoversKey, Claim, ShutdownOwns,
     CleanExit
<1> QED
  BY <1>5, <1>6, <1>7, <1>8, <1>9 DEF StationInv

\* run() returns: with its answer in hand the session it found does not
\* transmit, and without a late TX no other one does.
LEMMA ShutdownExitInv ==
  ASSUME StationInv, mainPhase # "exited", ShutdownDone \/ ShutdownTimeout
  PROVE  StationInv'
<1>1. FifoInv /\ FifoInv'
  BY StationFifoInv, ResumeInv, FifoStepInv DEF ShutdownDone, ShutdownTimeout
<1>2. /\ mainPhase = "rxWait" /\ mainPhase' = "exited" /\ mainTarget \in PttClients
      /\ await \in [Actors -> SubmitCall]
      /\ \/ await' = await /\ await[MainTask] = "waiting"
         \/ await' = [await EXCEPT ![MainTask] = "idle"] /\ await[MainTask] \in Result
      /\ running' = running /\ pending' = pending
      /\ UNCHANGED <<phase, keyedBy, wdPhase, wdTarget, mainTarget, unsure, lateKey>>
  BY DEF ShutdownDone, ShutdownTimeout, Resume, fifoVars, wdVars, ghostVars,
     StationInv, StationTypeOK, FifoTypeOK, TargetsKnown
<1>3. /\ \/ owner = mainTarget /\ owner' = Nobody /\ age' = 0
         \/ owner # mainTarget /\ UNCHANGED <<owner, age>>
      /\ owner \in PttClients \cup {Nobody} /\ age \in 0 .. MaxTx
  BY DEF ShutdownDone, ShutdownTimeout, Unkey, StationInv, StationTypeOK
<1>4. StationTypeOK' /\ ExactlyOneInFlight'
  BY <1>1, <1>2, <1>3 DEF StationInv, StationTypeOK, FifoInv
<1>5. OpsWellFormed'
  <2>1. ASSUME NEW o \in Operation, Flying(o)' PROVE WellFormed(o)'
    <3>1. Flying(o) /\ WellFormed(o)
      BY <1>2, <2>1, QuietFlying DEF StationInv, OpsWellFormed
    <3> QED
      BY <1>2, <3>1 DEF WellFormed
  <2> QED
    BY <2>1 DEF OpsWellFormed
<1>6. OnlyCapable' /\ TargetsKnown' /\ FreshKey' /\ CrossingNoted' /\ ClosedFree'
  BY <1>2, <1>3 DEF StationInv, OnlyCapable, TargetsKnown, FreshKey, CrossingNoted,
     ClosedFree
<1>7. ReleaseRunsLast'
  <2>1. Ahead(wdTarget, Watchdog) => Ahead(wdTarget, Watchdog)'
    BY <1>2 DEF Ahead
  <2> QED
    BY <1>2, <2>1 DEF StationInv, ReleaseRunsLast, TargetsKnown, RunsLast, KeySent
<1>8. AnsweredUnkeyed' /\ LeaseCoversKey' /\ ShutdownOwns'
  BY <1>2 DEF StationInv, AnsweredUnkeyed, LeaseCoversKey, ShutdownOwns
<1>9. CleanExit'
  <2>1. CASE await[MainTask] = "waiting"
    BY <1>2, <2>1 DEF CleanExit, Result
  <2>2. CASE await[MainTask] \in Result /\ ~lateKey
    <3>1. keyedBy # mainTarget \/ mainTarget \in unsure
      BY <1>2, <2>2 DEF StationInv, ReleaseRunsLast, RunsLast
    <3>2. owner \in {mainTarget, Nobody}
      BY <1>2, <2>2 DEF StationInv, ShutdownOwns
    <3>3. keyedBy \in PttClients => keyedBy \in unsure \/ owner = keyedBy
      BY <1>2 DEF StationInv, LeaseCoversKey, Claim
    <3>4. keyedBy \in PttClients \cup {Nobody}
      BY DEF StationInv, StationTypeOK
    <3> QED
      BY <1>2, <3>1, <3>2, <3>3, <3>4 DEF CleanExit
  <2> QED
    BY <1>2, <2>1, <2>2 DEF CleanExit
<1> QED
  BY <1>4, <1>5, <1>6, <1>7, <1>8, <1>9 DEF StationInv

------------------------------------------------------------------------------
(***************************************************************************)
(* Steps of the scheduler, the radio and the clock                         *)
(***************************************************************************)

\* An operation that starts stays in flight and in order.
LEMMA StartNextInv ==
  ASSUME StationInv, mainPhase # "exited", StartNext
  PROVE  StationInv'
<1>1. PICK s \in SessionIds : Start(s)
  BY DEF StartNext
<1>2. FifoInv /\ FifoInv'
  BY <1>1, StationFifoInv, StartInv
<1>3. /\ await' = await
      /\ UNCHANGED <<owner, age, phase, keyedBy, wdPhase, wdTarget>>
      /\ UNCHANGED <<mainPhase, mainTarget, unsure, lateKey>>
  BY <1>1 DEF StartNext, Start, leaseVars, wdVars, mainVars, ghostVars
<1>4. StationTypeOK' /\ ExactlyOneInFlight'
  BY <1>2, <1>3 DEF StationInv, StationTypeOK, FifoInv
<1>5. OpsWellFormed'
  <2>1. ASSUME NEW o \in Operation, Flying(o)' PROVE WellFormed(o)'
    BY <1>1, <1>2, <1>3, <2>1, StartFlying DEF StationInv, OpsWellFormed, WellFormed
  <2> QED
    BY <2>1 DEF OpsWellFormed
<1>6. OnlyCapable' /\ TargetsKnown' /\ FreshKey' /\ CrossingNoted' /\ ClosedFree'
  BY <1>3 DEF StationInv, OnlyCapable, TargetsKnown, FreshKey, CrossingNoted, ClosedFree
<1>7. ReleaseRunsLast'
  <2>1. ASSUME NEW a \in {Watchdog, MainTask}, NEW t \in PttClients, RunsLast(a, t)
        PROVE  RunsLast(a, t)'
    <3>1. Ahead(t, a) => Ahead(t, a)'
      BY <1>1, <1>2, StartFlying
    <3> QED
      BY <1>3, <2>1, <3>1 DEF RunsLast, KeySent
  <2> QED
    BY <1>3, <2>1 DEF StationInv, ReleaseRunsLast, TargetsKnown
<1>8. AnsweredUnkeyed' /\ LeaseCoversKey' /\ ShutdownOwns' /\ CleanExit'
  BY <1>3 DEF StationInv, AnsweredUnkeyed, LeaseCoversKey, Claim, ShutdownOwns, CleanExit
<1> QED
  BY <1>4, <1>5, <1>6, <1>7, <1>8 DEF StationInv

\* The radio changes hands only to the session whose TX it executes, and an RX
\* or a failed TX that leaves a session keyed is noted.
LEMMA ExecuteEffect ==
  ASSUME StationInv, mainPhase # "exited", NEW outcome \in Outcomes, Execute(outcome)
  PROVE  /\ \A d \in PttClients : keyedBy' = d =>
              keyedBy = d \/ (running.kind = "tx" /\ running.from = d /\ KeySent(d))
         /\ keyedBy' \in PttClients \cup {Nobody}
         /\ unsure \subseteq unsure' /\ unsure' \subseteq PttClients
         /\ keyedBy' = running.session /\ running.kind = "rx"
              => running.session \in unsure'
         /\ keyedBy' = running.session /\ running.kind = "tx" /\ await'[running.from] = "err"
              => running.session \in unsure'
<1>1. FifoInv
  BY StationFifoInv
<1>2. /\ running \in Operation /\ Flying(running) /\ running.from \in Actors
      /\ await[running.from] = "waiting" /\ WellFormed(running)
      /\ running.kind \in {"tx", "rx", "other", "poll"}
  <2>1. running \in Operation /\ running # NoOp
    BY <1>1 DEF Execute, Answer, FifoInv, FifoTypeOK
  <2>2. Flying(running)
    BY <2>1 DEF Flying
  <2>3. running.kind \in {"tx", "rx", "other", "poll"}
    BY <2>1 DEF Operation
  <2> QED
    BY <1>1, <2>1, <2>2, <2>3, FlyingAwaited DEF StationInv, OpsWellFormed
<1>3. running.kind = "tx" =>
        /\ running.from \in PttClients /\ running.session = running.from
        /\ KeySent(running.from)
  BY <1>2 DEF WellFormed, KeySent, StationInv, OnlyCapable
<1>4. running.kind = "rx" => running.session \in PttClients
  BY <1>2 DEF WellFormed, StationInv, OnlyCapable, TargetsKnown
<1>5. /\ \/ keyedBy' = keyedBy
         \/ running.kind = "tx" /\ keyedBy' = running.session
         \/ running.kind = "rx" /\ keyedBy' = Nobody
      /\ keyedBy \in PttClients \cup {Nobody} /\ unsure \subseteq PttClients
  BY <1>2 DEF Execute, Effect, StationInv, StationTypeOK
<1>6. await'[running.from] = IF outcome \in {"done", "lost"} THEN "ok" ELSE "err"
  BY <1>2 DEF Execute, Answer, StationInv, StationTypeOK, FifoTypeOK
<1>7. unsure' = IF /\ keyedBy' = running.session
                   /\ \/ running.kind = "rx"
                      \/ running.kind = "tx" /\ outcome \notin {"done", "lost"}
                THEN unsure \cup {running.session} ELSE unsure
  BY DEF Execute
<1> QED
  BY <1>3, <1>4, <1>5, <1>6, <1>7

\* The backend returned.
LEMMA ExecuteInv ==
  ASSUME StationInv, mainPhase # "exited", NEW outcome \in Outcomes, Execute(outcome)
  PROVE  StationInv'
<1>1. PICK r \in Result : Answer(r)
  BY DEF Execute, Result
<1>2. FifoInv /\ FifoInv'
  BY <1>1, StationFifoInv, AnswerInv
<1>3. /\ UNCHANGED <<owner, age, phase, wdPhase, wdTarget>>
      /\ UNCHANGED <<mainPhase, mainTarget, lateKey>>
  BY DEF Execute, leaseVars, wdVars, mainVars
<1>4. /\ Flying(running) /\ running \in Operation /\ running.from \in Actors
      /\ WellFormed(running)
      /\ await \in [Actors -> SubmitCall] /\ await[running.from] = "waiting"
      /\ await' = [await EXCEPT ![running.from] = r]
  BY <1>1, <1>2, AnswerFlying, FlyingAwaited
     DEF Answer, FifoInv, FifoTypeOK, StationInv, OpsWellFormed
<1>5. /\ \A o : Flying(o)' => Flying(o) /\ o.from # running.from
      /\ \A t \in SessionIds : \A a :
           /\ Ahead(t, a) /\ running.from # t => Ahead(t, a)'
           /\ Ahead(t, a) /\ running.from = a => a = t
  BY <1>1, <1>2, AnswerFlying
<1>6. StationTypeOK' /\ ExactlyOneInFlight'
  BY <1>2, <1>3, ExecuteEffect DEF StationInv, StationTypeOK, FifoInv
<1>7. OpsWellFormed'
  <2>1. ASSUME NEW o \in Operation, Flying(o)' PROVE WellFormed(o)'
    BY <1>3, <1>5, <2>1 DEF StationInv, OpsWellFormed, WellFormed
  <2> QED
    BY <2>1 DEF OpsWellFormed
<1>8. OnlyCapable' /\ TargetsKnown' /\ FreshKey' /\ ClosedFree'
  BY <1>3 DEF StationInv, OnlyCapable, TargetsKnown, FreshKey, ClosedFree
<1>9. CrossingNoted'
  BY <1>3, ExecuteEffect DEF StationInv, CrossingNoted
<1>10. ReleaseRunsLast'
  <2>1. ASSUME NEW a \in {Watchdog, MainTask}, NEW t \in PttClients, RunsLast(a, t),
               running.from = a => running.kind = "rx" /\ running.session = t
        PROVE  RunsLast(a, t)'
    <3> SUFFICES ASSUME t \notin unsure'
                 PROVE  /\ await'[a] = "waiting" /\ KeySent(t)' => Ahead(t, a)'
                        /\ await'[a] \in Result => ~KeySent(t)' /\ keyedBy' # t
      BY DEF RunsLast
    <3>1. t \notin unsure
      BY ExecuteEffect
    <3>2. KeySent(t)' => KeySent(t) /\ running.from # t
      BY <1>3, <1>4 DEF KeySent, Result
    <3>3. CASE running.from = a
      <4>1. await[a] = "waiting" /\ await'[a] \in Result
        BY <1>4, <3>3
      <4>2. ~KeySent(t)'
        BY <1>5, <2>1, <3>1, <3>2, <3>3, <4>1 DEF RunsLast
      <4>3. keyedBy' # t
        BY <2>1, <3>3, ExecuteEffect
      <4> QED
        BY <4>1, <4>2, <4>3 DEF Result
    <3>4. CASE running.from # a
      <4>1. await'[a] = await[a]
        BY <1>4, <3>4
      <4>2. await[a] \in Result => keyedBy' # t
        BY <2>1, <3>1, ExecuteEffect DEF RunsLast
      <4> QED
        BY <1>5, <2>1, <3>1, <3>2, <4>1, <4>2 DEF RunsLast
    <3> QED
      BY <3>3, <3>4
  <2>2. wdPhase = "rxWait" => RunsLast(Watchdog, wdTarget)'
    BY <1>3, <1>4, <2>1 DEF StationInv, ReleaseRunsLast, TargetsKnown, WellFormed
  <2>3. mainPhase = "rxWait" => RunsLast(MainTask, mainTarget)'
    BY <1>3, <1>4, <2>1 DEF StationInv, ReleaseRunsLast, TargetsKnown, WellFormed
  <2> QED
    BY <1>3, <2>2, <2>3 DEF ReleaseRunsLast
<1>11. AnsweredUnkeyed'
  <2> SUFFICES ASSUME NEW c \in PttClients \ unsure', keyedBy' = c,
                      \/ phase[c] = "keyWait" /\ await'[c] = "err"
                      \/ /\ phase[c] \in {"unkeyWait", "closeWait"}
                         /\ await'[c] \in Result
               PROVE  FALSE
    BY <1>3 DEF AnsweredUnkeyed
  <2>1. CASE running.from = c
    BY <1>4, <2>1, ExecuteEffect DEF WellFormed
  <2>2. CASE running.from # c
    <3>1. await'[c] = await[c] /\ keyedBy = c /\ c \notin unsure
      BY <1>4, <2>2, ExecuteEffect
    <3> QED
      BY <3>1 DEF StationInv, AnsweredUnkeyed
  <2> QED
    BY <2>1, <2>2
<1>12. LeaseCoversKey'
  <2>1. ASSUME NEW d \in PttClients \ unsure', Claim(d)' PROVE owner = d
    <3>1. d \notin unsure /\ Claim(d)
      BY <1>3, <1>4, <2>1, ExecuteEffect DEF Claim, KeySent, Result
    <3> QED
      BY <3>1 DEF StationInv, LeaseCoversKey
  <2> QED
    BY <1>3, <2>1 DEF LeaseCoversKey
<1>13. ShutdownOwns' /\ CleanExit'
  BY <1>3 DEF StationInv, ShutdownOwns, CleanExit
<1> QED
  BY <1>6, <1>7, <1>8, <1>9, <1>10, <1>11, <1>12, <1>13 DEF StationInv

\* The clock runs while nobody is between try_key and submit.
LEMMA TickInv ==
  ASSUME StationInv, mainPhase # "exited", Tick
  PROVE  StationInv'
<1>1. FifoInv /\ FifoInv'
  BY StationFifoInv, FifoStepInv DEF Tick
<1>2. /\ age' = age + 1 /\ age < MaxTx /\ age \in 0 .. MaxTx
      /\ \A c \in Clients : phase[c] # "keyHold"
      /\ running' = running /\ pending' = pending /\ await' = await
      /\ UNCHANGED <<owner, phase, keyedBy, wdPhase, wdTarget>>
      /\ UNCHANGED <<mainPhase, mainTarget, unsure, lateKey>>
  BY DEF Tick, fifoVars, wdVars, mainVars, ghostVars, StationInv, StationTypeOK
<1>3. StationTypeOK' /\ ExactlyOneInFlight'
  BY <1>1, <1>2 DEF StationInv, StationTypeOK, FifoInv
<1>4. OpsWellFormed'
  <2>1. ASSUME NEW o \in Operation, Flying(o)' PROVE WellFormed(o)'
    BY <1>2, <2>1, QuietFlying DEF StationInv, OpsWellFormed, WellFormed
  <2> QED
    BY <2>1 DEF OpsWellFormed
<1>5. OnlyCapable' /\ TargetsKnown' /\ FreshKey' /\ CrossingNoted' /\ ClosedFree'
  BY <1>2 DEF StationInv, OnlyCapable, TargetsKnown, FreshKey, CrossingNoted, ClosedFree
<1>6. ReleaseRunsLast'
  <2>1. ASSUME NEW a \in {Watchdog, MainTask}, NEW t \in PttClients, RunsLast(a, t)
        PROVE  RunsLast(a, t)'
    <3>1. Ahead(t, a) => Ahead(t, a)'
      BY <1>2, QuietFlying
    <3> QED
      BY <1>2, <2>1, <3>1 DEF RunsLast, KeySent
  <2> QED
    BY <1>2, <2>1 DEF StationInv, ReleaseRunsLast, TargetsKnown
<1>7. AnsweredUnkeyed' /\ LeaseCoversKey' /\ ShutdownOwns' /\ CleanExit'
  BY <1>2 DEF StationInv, AnsweredUnkeyed, LeaseCoversKey, Claim, ShutdownOwns, CleanExit
<1> QED
  BY <1>3, <1>4, <1>5, <1>6, <1>7 DEF StationInv

------------------------------------------------------------------------------
(***************************************************************************)
(* The invariant and what follows from it                                  *)
(***************************************************************************)

\* Nothing is in flight, nobody transmits and nobody holds the lease.
LEMMA StationInitInv == Init => StationInv
<1> SUFFICES ASSUME Init PROVE StationInv
  OBVIOUS
<1>1. FifoInv
  BY FifoInitInv DEF Init
<1>2. /\ running = NoOp /\ pending = [s \in SessionIds |-> <<>>]
      /\ owner = Nobody /\ age = 0 /\ phase = [c \in Clients |-> "idle"]
      /\ keyedBy = Nobody /\ wdPhase = "sleep" /\ wdTarget = Nobody
      /\ mainPhase = "running" /\ mainTarget = Nobody /\ unsure = {} /\ lateKey = FALSE
  BY DEF Init, FifoInit
<1>3. StationTypeOK /\ ExactlyOneInFlight
  <2>1. 0 \in 0 .. MaxTx
    OBVIOUS
  <2>2. phase \in [Clients -> Phase]
    BY <1>2 DEF Phase
  <2> QED
    BY <1>1, <1>2, <2>1, <2>2 DEF FifoInv, StationTypeOK
<1>4. OpsWellFormed
  BY <1>2 DEF OpsWellFormed, Flying
<1> QED
  BY <1>2, <1>3, <1>4 DEF StationInv, OnlyCapable, TargetsKnown, FreshKey, CrossingNoted,
     ReleaseRunsLast, AnsweredUnkeyed, ClosedFree, LeaseCoversKey, Claim, ShutdownOwns,
     CleanExit

\* Every step of a client session keeps the invariant.
LEMMA ClientStepInv ==
  ASSUME StationInv, mainPhase # "exited", NEW c \in Clients, ClientStep(c)
  PROVE  StationInv'
<1>1. /\ \A p \in Priority, k \in {"tx", "rx", "other"} :
           /\ Op(c, c, p, k) \in Operation
           /\ Op(c, c, p, k).session = c /\ Op(c, c, p, k).from = c
           /\ Op(c, c, p, k).kind = k
      /\ Ptt \in Priority /\ OtherPrio \subseteq Priority
  BY OpFields DEF Priority, Ptt, Poll, Write, Read
<1>2. CASE KeyAcquire(c)
  BY <1>2, KeyAcquireInv
<1>3. CASE KeySubmit(c)
  <2>1. c \in PttClients
    BY <1>3 DEF KeySubmit, MoveClient, StationInv, OnlyCapable
  <2> QED
    BY <1>1, <1>3, <2>1, ClientSubmitInv DEF KeySubmit, Phase
<1>4. CASE KeyDone(c)
  BY <1>4, ClientAnswerInv DEF KeyDone, Phase, Result
<1>5. CASE KeyFailed(c)
  <2>1. c \in PttClients \ unsure => keyedBy # c
    BY <1>5 DEF KeyFailed, MoveClient, StationInv, AnsweredUnkeyed
  <2> QED
    BY <1>5, <2>1, ClientAnswerInv DEF KeyFailed, Phase, Result
<1>6. CASE UnkeySubmit(c)
  BY <1>1, <1>6, ClientSubmitInv DEF UnkeySubmit, Unkeying, Phase
<1>7. CASE UnkeyDone(c)
  <2>1. c \in PttClients \ unsure => keyedBy # c
    BY <1>7 DEF UnkeyDone, MoveClient, Resume, StationInv, AnsweredUnkeyed
  <2> QED
    BY <1>7, <2>1, ClientAnswerInv DEF UnkeyDone, Phase
<1>8. CASE OtherSubmit(c)
  <2>1. PICK p \in OtherPrio : Submit(Op(c, c, p, "other"))
    BY <1>8 DEF OtherSubmit
  <2> QED
    BY <1>1, <1>8, <2>1, ClientSubmitInv DEF OtherSubmit, Phase
<1>9. CASE OtherDone(c)
  BY <1>9, ClientAnswerInv DEF OtherDone, Phase
<1>10. CASE Disconnect(c)
  BY <1>10, DisconnectInv
<1>11. CASE DisconnectSubmit(c)
  <2>1. c \in PttClients
    BY <1>11 DEF DisconnectSubmit, MoveClient, StationInv, OnlyCapable
  <2> QED
    BY <1>1, <1>11, <2>1, ClientSubmitInv DEF DisconnectSubmit, Unkeying, Phase
<1>12. CASE DisconnectDone(c)
  <2>1. c \in PttClients \ unsure => keyedBy # c
    BY <1>12 DEF DisconnectDone, MoveClient, Resume, StationInv, AnsweredUnkeyed
  <2> QED
    BY <1>12, <2>1, ClientAnswerInv DEF DisconnectDone, Phase
<1> QED
  BY <1>2, <1>3, <1>4, <1>5, <1>6, <1>7, <1>8, <1>9, <1>10, <1>11, <1>12 DEF ClientStep

\* Every step of the station keeps the invariant.
LEMMA StationStepInv == StationInv /\ [Next]_vars => StationInv'
<1> SUFFICES ASSUME StationInv, [Next]_vars PROVE StationInv'
  OBVIOUS
<1>1. CASE UNCHANGED vars
  <2>1. /\ running' = running /\ pending' = pending /\ await' = await
        /\ UNCHANGED <<owner, age, phase, keyedBy, wdPhase, wdTarget>>
        /\ UNCHANGED <<mainPhase, mainTarget, unsure, lateKey>>
    BY <1>1 DEF vars, fifoVars, leaseVars, wdVars, mainVars, ghostVars
  <2>2. FifoInv'
    BY <2>1, StationFifoInv, FifoStepInv DEF fifoVars
  <2>3. OpsWellFormed'
    BY <2>1, QuietFlying DEF StationInv, OpsWellFormed, WellFormed
  <2>4. ReleaseRunsLast'
    BY <2>1 DEF StationInv, ReleaseRunsLast, RunsLast, KeySent, Ahead
  <2> QED
    BY <2>1, <2>2, <2>3, <2>4
       DEF StationInv, FifoInv, StationTypeOK, OnlyCapable, TargetsKnown, FreshKey,
           CrossingNoted, AnsweredUnkeyed, ClosedFree, LeaseCoversKey, Claim,
           ShutdownOwns, CleanExit
<1>2. CASE mainPhase # "exited" /\ \E c \in Clients : ClientStep(c)
  BY <1>2, ClientStepInv
<1>3. CASE mainPhase # "exited" /\ WatchdogStep
  BY <1>3, WatchdogExpireInv, WatchdogSubmitInv, WatchdogReleaseInv DEF WatchdogStep
<1>4. CASE mainPhase # "exited" /\ (PollSubmit \/ PollDone)
  BY <1>4, PollSubmitInv, PollDoneInv
<1>5. CASE mainPhase # "exited" /\ MainStep
  BY <1>5, ShutdownInv, ShutdownSubmitInv, ShutdownExitInv DEF MainStep
<1>6. CASE mainPhase # "exited" /\ StartNext
  BY <1>6, StartNextInv
<1>7. CASE mainPhase # "exited" /\ \E o \in Outcomes : Execute(o)
  BY <1>7, ExecuteInv
<1>8. CASE mainPhase # "exited" /\ Tick
  BY <1>8, TickInv
<1> QED
  BY <1>1, <1>2, <1>3, <1>4, <1>5, <1>6, <1>7, <1>8 DEF Next, Exited

\* The invariant that the theorems below rest on.
THEOREM StationInvariant == Spec => []StationInv
BY StationInitInv, StationStepInv, PTL DEF Spec

\* The state keeps its types: only capable sessions own the lease or transmit.
THEOREM StationTyped == Spec => []StationTypeOK
<1>1. StationInv => StationTypeOK
  BY DEF StationInv
<1> QED
  BY StationInvariant, <1>1, PTL

\* A submit of any task of the daemon is owed exactly one answer, its own.
THEOREM StationAnswersOnce == Spec => []ExactlyOneInFlight
<1>1. StationInv => ExactlyOneInFlight
  BY DEF StationInv
<1> QED
  BY StationInvariant, <1>1, PTL

\* try_key and unkey: a session that transmits, or is about to, has the lease,
\* unless an operation failed or crossed a release.
THEOREM LeaseIsSafe == Spec => []LeaseCoversKey
<1>1. StationInv => LeaseCoversKey
  BY DEF StationInv
<1> QED
  BY StationInvariant, <1>1, PTL

\* release_ptt_on_disconnect: a session that is gone neither holds the lease
\* nor transmits.
THEOREM DisconnectIsSafe == Spec => []DisconnectDropsTx
<1>1. StationInv => DisconnectDropsTx
  BY DEF StationInv, ClosedFree, LeaseCoversKey, Claim, DisconnectDropsTx
<1> QED
  BY StationInvariant, <1>1, PTL

\* The orderly stop of run() leaves the radio unkeyed.
THEOREM ShutdownIsClean == Spec => []CleanExit
<1>1. StationInv => CleanExit
  BY DEF StationInv
<1> QED
  BY StationInvariant, <1>1, PTL

\* The radio goes from one session's transmission to another's only when one
\* of them has an operation that failed or crossed.
THEOREM NobodyTakesOver == Spec => NoTakeover
<1> DEFINE Safe == \A c, d \in PttClients :
             keyedBy = c /\ keyedBy' = d /\ c # d => {c, d} \cap unsure # {}
<1>1. ASSUME StationInv, mainPhase # "exited", NEW o \in Outcomes, Execute(o)
      PROVE  Safe
  BY <1>1, ExecuteEffect DEF StationInv, LeaseCoversKey, Claim, KeySent
<1>2. ASSUME StationInv, Next, keyedBy' # keyedBy
      PROVE  mainPhase # "exited" /\ \E o \in Outcomes : Execute(o)
  BY <1>2
     DEF Next, ClientStep, KeyAcquire, KeySubmit, KeyDone, KeyFailed, UnkeySubmit,
         UnkeyDone, OtherSubmit, OtherDone, Disconnect, DisconnectSubmit,
         DisconnectDone, WatchdogStep, WatchdogExpire, WatchdogSubmit,
         WatchdogRelease, PollSubmit, PollDone, MainStep, Shutdown, ShutdownSubmit,
         ShutdownDone, ShutdownTimeout, StartNext, Tick, Exited, vars
<1>3. StationInv /\ [Next]_vars => [Safe]_vars
  BY <1>1, <1>2
<1> QED
  BY StationInvariant, <1>3, PTL DEF Spec, NoTakeover
==============================================================================

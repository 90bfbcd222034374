---------------------------- MODULE SchedulerProofs ----------------------------
(***************************************************************************)
(* What holds of the scheduler as it is coded, for any sessions, tasks,    *)
(* operations and any capacity of its channel.                             *)
(***************************************************************************)
EXTENDS Scheduler, WellFoundedInduction, TLAPS

------------------------------------------------------------------------------
(***************************************************************************)
(* What is selected from a sequence                                        *)
(***************************************************************************)

\* Numbers that are not all without a property have a least one that has it.
LEMMA Least ==
  ASSUME NEW T \in SUBSET Nat, T # {}
  PROVE  \E n \in T : \A k \in T : n <= k
<1>1. \E n \in T : \A k \in T : ~ (<<k, n>> \in OpToRel(<, Nat))
  BY WFMin, NatLessThanWellFounded
<1>2. PICK n \in T : \A k \in T : ~ (<<k, n>> \in OpToRel(<, Nat))
  BY <1>1
<1>3. \A k \in T : ~(k < n)
  BY <1>2 DEF OpToRel
<1> QED
  BY <1>3

\* What is kept of the first n, as the function says that computes it.
Kept(s, S, n, g) ==
  /\ DOMAIN g = 0 .. n /\ g[0] = <<>>
  /\ \A i \in 1 .. n : g[i] = IF s[i] \in S THEN Append(g[i - 1], s[i]) ELSE g[i - 1]

\* There is such a function ...
LEMMA KeptExists ==
  ASSUME NEW s, NEW S, NEW n \in Nat
  PROVE  \E g : Kept(s, S, n, g)
<1> DEFINE Bad == {k \in Nat : ~\E g : Kept(s, S, k, g)}
<1> SUFFICES ASSUME Bad # {} PROVE FALSE
  OBVIOUS
<1>1. PICK m \in Bad : \A k \in Bad : m <= k
  BY Least
<1>2. CASE m = 0
  <2>1. Kept(s, S, 0, [i \in 0 .. 0 |-> <<>>])
    BY DEF Kept
  <2> QED
    BY <1>1, <1>2, <2>1
<1>3. CASE m > 0
  <2>1. m - 1 \in Nat /\ m - 1 \notin Bad
    BY <1>1, <1>3
  <2>2. PICK g : Kept(s, S, m - 1, g)
    BY <2>1
  <2> DEFINE h == [i \in 0 .. m |->
                     IF i = m THEN IF s[m] \in S THEN Append(g[m - 1], s[m]) ELSE g[m - 1]
                     ELSE g[i]]
  <2>3. \A i \in 0 .. m - 1 : h[i] = g[i]
    BY <1>1
  <2>4. Kept(s, S, m, h)
    <3>1. DOMAIN h = 0 .. m /\ h[0] = <<>>
      BY <1>1, <1>3, <2>2 DEF Kept
    <3>2. \A i \in 1 .. m - 1 : h[i] = IF s[i] \in S THEN Append(h[i - 1], s[i]) ELSE h[i - 1]
      BY <1>1, <2>2, <2>3 DEF Kept
    <3>3. h[m] = IF s[m] \in S THEN Append(h[m - 1], s[m]) ELSE h[m - 1]
      BY <1>1, <1>3, <2>3
    <3> HIDE DEF h
    <3>4. \A i \in 1 .. m : i \in 1 .. m - 1 \/ i = m
      BY <1>1
    <3>5. \A i \in 1 .. m : h[i] = IF s[i] \in S THEN Append(h[i - 1], s[i]) ELSE h[i - 1]
      BY <3>2, <3>3, <3>4
    <3> QED
      BY <3>1, <3>5 DEF Kept
  <2> QED
    BY <1>1, <2>4
<1> QED
  BY <1>1, <1>2, <1>3

\* ... and one only, for equal beginnings.
Alike(s, t, first, n) == \A i \in first .. n : s[i] = t[i]
LEMMA KeptUnique ==
  ASSUME NEW s, NEW t, NEW S, NEW n \in Nat, NEW m \in Nat,
         NEW g, Kept(s, S, n, g), NEW h, Kept(t, S, m, h),
         n <= m, Alike(s, t, 1, n)
  PROVE  Alike(g, h, 0, n)
<1> USE DEF Alike
<1> DEFINE Bad == {i \in 0 .. n : g[i] # h[i]}
<1> SUFFICES ASSUME Bad # {} PROVE FALSE
  OBVIOUS
<1>0. Bad \subseteq Nat
  OBVIOUS
<1>1. PICK i \in Bad : \A j \in Bad : i <= j
  <2> HIDE DEF Bad
  <2> QED
    BY <1>0, Least
<1>2. CASE i = 0
  BY <1>1, <1>2 DEF Kept
<1>3. CASE i > 0
  <2>1. i - 1 \in 0 .. n /\ i - 1 \notin Bad /\ i \in 1 .. n
    BY <1>1, <1>3
  <2>2. g[i - 1] = h[i - 1]
    BY <2>1
  <2> QED
    BY <1>1, <2>1, <2>2 DEF Kept
<1> QED
  BY <1>1, <1>2, <1>3

\* Selection is what is kept of all.
LEMMA SelectionKept ==
  ASSUME NEW s, Len(s) \in Nat, NEW S
  PROVE  \E g : Kept(s, S, Len(s), g) /\ Selection(s, S) = g[Len(s)]
<1> DEFINE kept == CHOOSE f : f = [i \in 0 .. Len(s) |->
                     IF i = 0 THEN <<>> ELSE IF s[i] \in S THEN Append(f[i - 1], s[i]) ELSE f[i - 1]]
<1>1. PICK g : Kept(s, S, Len(s), g)
  BY KeptExists, Zenon
<1> DEFINE h == [i \in 0 .. Len(s) |-> g[i]]
<1>2. h = [i \in 0 .. Len(s) |->
             IF i = 0 THEN <<>> ELSE IF s[i] \in S THEN Append(h[i - 1], s[i]) ELSE h[i - 1]]
  <2>1. \A i \in 0 .. Len(s) :
          g[i] = IF i = 0 THEN <<>> ELSE IF s[i] \in S THEN Append(g[i - 1], s[i]) ELSE g[i - 1]
    <3>1. \A i \in 0 .. Len(s) : i = 0 \/ i \in 1 .. Len(s)
      OBVIOUS
    <3> QED
      BY <1>1, <3>1, Zenon DEF Kept
  <2>2. \A i \in 0 .. Len(s) : i # 0 => h[i - 1] = g[i - 1]
    OBVIOUS
  <2>3. \A i \in 0 .. Len(s) :
          g[i] = IF i = 0 THEN <<>> ELSE IF s[i] \in S THEN Append(h[i - 1], s[i]) ELSE h[i - 1]
    BY <2>1, <2>2, Zenon
  <2> QED
    BY <2>3
<1>3. kept = [i \in 0 .. Len(s) |->
                IF i = 0 THEN <<>> ELSE IF s[i] \in S THEN Append(kept[i - 1], s[i]) ELSE kept[i - 1]]
  <2> HIDE DEF h
  <2> QED
    BY <1>2, Zenon
<1>4. Selection(s, S) = kept[Len(s)]
  BY DEF Selection
<1> HIDE DEF kept
<1>5. Kept(s, S, Len(s), kept)
  <2>1. DOMAIN kept = 0 .. Len(s)
    BY <1>3
  <2>2. kept[0] = <<>>
    BY <1>3
  <2>3. ASSUME NEW i \in 1 .. Len(s)
        PROVE  kept[i] = IF s[i] \in S THEN Append(kept[i - 1], s[i]) ELSE kept[i - 1]
    <3>1. i \in 0 .. Len(s) /\ i # 0
      OBVIOUS
    <3> QED
      BY <1>3, <3>1
  <2> QED
    BY <2>1, <2>2, <2>3 DEF Kept
<1> QED
  BY <1>4, <1>5

\* Nothing is selected from nothing.
LEMMA SelectionEmpty == ASSUME NEW S PROVE Selection(<<>>, S) = <<>>
<1>1. PICK g : Kept(<<>>, S, Len(<<>>), g) /\ Selection(<<>>, S) = g[Len(<<>>)]
  BY SelectionKept
<1> QED
  BY <1>1 DEF Kept

\* What is appended comes last, if it is selected.
LEMMA SelectionAppend ==
  ASSUME NEW T, NEW s \in Seq(T), NEW x \in T, NEW S
  PROVE  Selection(Append(s, x), S) = IF x \in S THEN Append(Selection(s, S), x) ELSE Selection(s, S)
<1>1. PICK t \in Seq(T) : t = Append(s, x)
  <2>1. Append(s, x) \in Seq(T)
    OBVIOUS
  <2> QED
    BY <2>1
<1>2. /\ Len(s) \in Nat /\ Len(t) = Len(s) + 1 /\ t[Len(t)] = x
      /\ \A i \in 1 .. Len(s) : t[i] = s[i]
  BY <1>1
<1>3. PICK g : Kept(s, S, Len(s), g) /\ Selection(s, S) = g[Len(s)]
  BY <1>2, SelectionKept
<1>4. PICK h : Kept(t, S, Len(t), h) /\ Selection(t, S) = h[Len(t)]
  BY <1>2, SelectionKept
<1>5. \A i \in 0 .. Len(s) : g[i] = h[i]
  <2>1. PICK n \in Nat, m \in Nat : n = Len(s) /\ m = Len(t) /\ n <= m
    BY <1>2
  <2>2. Alike(s, t, 1, n)
    BY <1>2, <2>1 DEF Alike
  <2>3. Kept(s, S, n, g) /\ Kept(t, S, m, h)
    BY <1>3, <1>4, <2>1
  <2>4. Alike(g, h, 0, n)
    BY <2>1, <2>2, <2>3, KeptUnique
  <2> QED
    BY <2>1, <2>4 DEF Alike
<1>6. h[Len(t)] = IF t[Len(t)] \in S THEN Append(h[Len(t) - 1], t[Len(t)]) ELSE h[Len(t) - 1]
  <2>1. Len(t) \in 1 .. Len(t)
    BY <1>2
  <2> QED
    BY <1>4, <2>1 DEF Kept
<1>7. Len(t) - 1 = Len(s) /\ Len(s) \in 0 .. Len(s)
  BY <1>2
<1> QED
  BY <1>1, <1>2, <1>3, <1>4, <1>5, <1>6, <1>7

\* The elements selected are the sequence's that are in the set, and no more than it has.
LEMMA SelectionTyped ==
  ASSUME NEW T, NEW s \in Seq(T), NEW S
  PROVE  Selection(s, S) \in Seq(T \cap S) /\ Len(Selection(s, S)) <= Len(s)
<1>1. Len(s) \in Nat /\ DOMAIN s = 1 .. Len(s)
  OBVIOUS
<1>2. PICK g : Kept(s, S, Len(s), g) /\ Selection(s, S) = g[Len(s)]
  BY <1>1, SelectionKept
<1> DEFINE Bad == {i \in 0 .. Len(s) : ~(g[i] \in Seq(T \cap S) /\ Len(g[i]) <= i)}
<1>3. Bad \subseteq Nat
  OBVIOUS
<1>4. CASE Bad # {}
  <2>1. PICK i \in Bad : \A j \in Bad : i <= j
    <3> HIDE DEF Bad
    <3> QED
      BY <1>3, <1>4, Least
  <2>2. i \in 0 .. Len(s) /\ ~(g[i] \in Seq(T \cap S) /\ Len(g[i]) <= i)
    BY <2>1
  <2>3. i # 0
    <3>1. g[0] = <<>>
      BY <1>2 DEF Kept
    <3>2. <<>> \in Seq(T \cap S) /\ Len(<<>>) <= 0
      OBVIOUS
    <3> QED
      BY <2>2, <3>1, <3>2
  <2>4. i \in 1 .. Len(s) /\ i - 1 \in 0 .. Len(s) /\ i - 1 \notin Bad
    BY <2>1, <2>2, <2>3
  <2>5. g[i - 1] \in Seq(T \cap S) /\ Len(g[i - 1]) <= i - 1
    BY <2>4
  <2>6. g[i] = IF s[i] \in S THEN Append(g[i - 1], s[i]) ELSE g[i - 1]
    BY <1>2, <2>4 DEF Kept
  <2>7. s[i] \in T /\ i \in Nat
    BY <1>1, <2>4
  <2>8. PICK u \in Seq(T \cap S) : u = g[i - 1] /\ Len(u) <= i - 1 /\ Len(u) \in Nat
    BY <2>5
  <2>9. CASE s[i] \in S
    <3>1. Append(u, s[i]) \in Seq(T \cap S) /\ Len(Append(u, s[i])) = Len(u) + 1
      BY <2>7, <2>9
    <3> QED
      BY <2>2, <2>6, <2>7, <2>8, <2>9, <3>1
  <2>10. CASE s[i] \notin S
    BY <2>2, <2>6, <2>7, <2>8, <2>10
  <2> QED
    BY <2>9, <2>10
<1>5. CASE Bad = {}
  <2>1. Len(s) \in 0 .. Len(s)
    BY <1>1
  <2> QED
    BY <1>2, <1>5, <2>1
<1> QED
  BY <1>4, <1>5

\* What no longer comes first, if it is selected, came first.
LEMMA SelectionCons ==
  ASSUME NEW T, NEW s \in Seq(T), s # <<>>, NEW S
  PROVE  Selection(s, S) = IF Head(s) \in S THEN <<Head(s)>> \o Selection(Tail(s), S)
                           ELSE Selection(Tail(s), S)
<1>1. PICK t \in Seq(T) : t = Tail(s)
  <2>1. Tail(s) \in Seq(T)
    OBVIOUS
  <2> QED
    BY <2>1
<1>2. PICK x \in T : x = Head(s)
  OBVIOUS
<1>3. /\ Len(t) \in Nat /\ Len(s) = Len(t) + 1 /\ s[1] = x
      /\ \A i \in 1 .. Len(t) : t[i] = s[i + 1] /\ t[i] \in T
  BY <1>1, <1>2
<1>4. PICK g : Kept(s, S, Len(s), g) /\ Selection(s, S) = g[Len(s)]
  BY <1>3, SelectionKept
<1>5. PICK h : Kept(t, S, Len(t), h) /\ Selection(t, S) = h[Len(t)]
  BY <1>3, SelectionKept
<1>6. PICK b \in Seq(T) : b = IF x \in S THEN <<x>> ELSE <<>>
  <2>1. <<x>> \in Seq(T) /\ <<>> \in Seq(T)
    OBVIOUS
  <2> QED
    BY <2>1
<1> DEFINE Bad == {i \in 0 .. Len(t) : ~(h[i] \in Seq(T) /\ g[i + 1] = b \o h[i])}
<1>7. Bad \subseteq Nat
  OBVIOUS
<1>8. CASE Bad # {}
  <2>1. PICK i \in Bad : \A j \in Bad : i <= j
    <3> HIDE DEF Bad
    <3> QED
      BY <1>7, <1>8, Least
  <2>2. i \in 0 .. Len(t) /\ ~(h[i] \in Seq(T) /\ g[i + 1] = b \o h[i])
    BY <2>1
  <2>3. CASE i = 0
    <3>1. g[0] = <<>> /\ h[0] = <<>>
      BY <1>4, <1>5 DEF Kept
    <3>2. g[1] = IF s[1] \in S THEN Append(g[0], s[1]) ELSE g[0]
      <4>1. 1 \in 1 .. Len(s) /\ 1 - 1 = 0
        BY <1>3
      <4> QED
        BY <1>4, <4>1 DEF Kept
    <3>3. g[1] = b
      BY <1>3, <1>6, <3>1, <3>2
    <3>4. b \o <<>> = b /\ <<>> \in Seq(T)
      OBVIOUS
    <3> QED
      BY <2>2, <2>3, <3>1, <3>3, <3>4
  <2>4. CASE i # 0
    <3>1. /\ i \in 1 .. Len(t) /\ i \in Nat /\ i - 1 \in 0 .. Len(t) /\ i - 1 \notin Bad
          /\ i + 1 \in 1 .. Len(s) /\ (i - 1) + 1 = i /\ (i + 1) - 1 = i
      <4>1. PICK n \in Nat, k \in Nat : n = Len(t) /\ Len(s) = n + 1 /\ k = i /\ k \in 1 .. n
        BY <1>3, <2>2, <2>4
      <4>2. /\ k - 1 \in 0 .. n /\ ~(k <= k - 1)
            /\ k + 1 \in 1 .. n + 1 /\ (k - 1) + 1 = k /\ (k + 1) - 1 = k
        BY <4>1
      <4>3. k - 1 \notin Bad
        <5> HIDE DEF Bad
        <5> QED
          BY <2>1, <4>1, <4>2
      <4> HIDE DEF Bad
      <4> QED
        BY <4>1, <4>2, <4>3
    <3>2. PICK u \in Seq(T) : u = h[i - 1] /\ g[i] = b \o u
      BY <3>1
    <3>3. h[i] = IF t[i] \in S THEN Append(u, t[i]) ELSE u
      BY <1>5, <3>1, <3>2 DEF Kept
    <3>4. g[i + 1] = IF t[i] \in S THEN Append(b \o u, t[i]) ELSE b \o u
      BY <1>3, <1>4, <3>1, <3>2 DEF Kept
    <3>5. t[i] \in T
      BY <1>3, <3>1
    <3>6. PICK e \in T : e = t[i]
      BY <3>5
    <3>7. b \o Append(u, e) = Append(b \o u, e)
      BY SMTT(40)
    <3>8. Append(u, e) \in Seq(T)
      OBVIOUS
    <3> QED
      BY <2>2, <3>2, <3>3, <3>4, <3>6, <3>7, <3>8
  <2> QED
    BY <2>3, <2>4
<1>9. CASE Bad = {}
  <2>1. Len(t) \in 0 .. Len(t) /\ Len(t) + 1 = Len(s)
    BY <1>3
  <2>2. h[Len(t)] \in Seq(T) /\ g[Len(s)] = b \o h[Len(t)]
    BY <1>9, <2>1
  <2>3. PICK u \in Seq(T) : u = h[Len(t)]
    BY <2>2
  <2>4. <<>> \o u = u
    OBVIOUS
  <2> QED
    BY <1>1, <1>2, <1>4, <1>5, <1>6, <2>2, <2>3, <2>4
<1> QED
  BY <1>8, <1>9

------------------------------------------------------------------------------
(***************************************************************************)
(* The scheduler as it is coded                                            *)
(***************************************************************************)


\* Sessions are listed in the Vec; the types of the rest are TypeOK's.
Listed == order \in Seq(SessionIds)
SchedulerInv == SubmitsKept /\ Listed
Op == Fifo!Operation

\* An operation is tagged with a session and has a submitter.
LEMMA Tagged ==
  ASSUME NEW op \in Op
  PROVE  op.session \in SessionIds /\ op.from \in Actors
BY DEF Op, Fifo!Operation

\* An operation at the end of others.
LEMMA AtTheEnd ==
  ASSUME NEW q \in Seq(Op), NEW op \in Op
  PROVE  /\ Append(q, op) \in Seq(Op) /\ Len(Append(q, op)) = Len(q) + 1
         /\ \A a : Holds(Append(q, op), a) <=> Holds(q, a) \/ op.from = a
         /\ Apart(q) /\ ~Holds(q, op.from) => Apart(Append(q, op))
<1> DEFINE new == Append(q, op)
<1>1. /\ new \in Seq(Op) /\ Len(q) \in Nat /\ Len(new) = Len(q) + 1
      /\ DOMAIN q = 1 .. Len(q) /\ DOMAIN new = 1 .. Len(q) + 1
      /\ new[Len(q) + 1] = op /\ \A i \in 1 .. Len(q) : new[i] = q[i]
  OBVIOUS
<1> HIDE DEF new
<1>2. \A a : Holds(new, a) <=> Holds(q, a) \/ op.from = a
  BY <1>1 DEF Holds
<1>3. Apart(q) /\ ~Holds(q, op.from) => Apart(new)
  BY <1>1 DEF Apart, Holds
<1> QED
  BY <1>1, <1>2, <1>3 DEF new

\* The first of operations, and the others.
LEMMA AtTheFront ==
  ASSUME NEW q \in Seq(Op), q # <<>>
  PROVE  /\ Tail(q) \in Seq(Op) /\ Len(Tail(q)) < Len(q) /\ Head(q) \in Op
         /\ \A a : Holds(q, a) <=> Holds(Tail(q), a) \/ Head(q).from = a
         /\ Apart(q) => Apart(Tail(q)) /\ ~Holds(Tail(q), Head(q).from)
<1> DEFINE rest == Tail(q)
           first == Head(q)
<1>1. /\ rest \in Seq(Op) /\ Len(q) \in Nat \ {0} /\ Len(rest) = Len(q) - 1
      /\ DOMAIN q = 1 .. Len(q) /\ DOMAIN rest = 1 .. Len(q) - 1
      /\ first \in Op /\ first = q[1] /\ \A i \in 1 .. Len(q) - 1 : rest[i] = q[i + 1]
  OBVIOUS
<1> HIDE DEF rest, first
<1>2. \A i \in 1 .. Len(q) : i = 1 \/ (i - 1 \in DOMAIN rest /\ rest[i - 1] = q[i])
  BY <1>1
<1>3. \A a : Holds(q, a) <=> Holds(rest, a) \/ first.from = a
  <2>1. \A i \in DOMAIN rest : i + 1 \in DOMAIN q /\ i + 1 # 1
    BY <1>1
  <2>2. 1 \in DOMAIN q
    BY <1>1
  <2> QED
    BY <1>1, <1>2, <2>1, <2>2 DEF Holds
<1>4. ASSUME Apart(q) PROVE Apart(rest) /\ ~Holds(rest, first.from)
  <2>1. \A i \in DOMAIN rest : i \in Nat \ {0} /\ i + 1 \in DOMAIN q /\ rest[i] = q[i + 1]
    BY <1>1
  <2>2. Apart(rest)
    <3> SUFFICES ASSUME NEW i \in DOMAIN rest, NEW j \in DOMAIN rest, rest[i].from = rest[j].from
                 PROVE  i = j
      BY DEF Apart
    <3>1. i + 1 = j + 1
      BY <1>4, <2>1 DEF Apart
    <3> QED
      BY <2>1, <3>1
  <2>3. ~Holds(rest, first.from)
    <3> SUFFICES ASSUME NEW i \in DOMAIN rest, rest[i].from = first.from PROVE FALSE
      BY DEF Holds
    <3>1. 1 \in DOMAIN q /\ q[1] = first
      BY <1>1
    <3>2. i + 1 = 1
      BY <1>4, <2>1, <3>1 DEF Apart
    <3> QED
      BY <2>1, <3>2
  <2> QED
    BY <2>2, <2>3
<1>5. rest \in Seq(Op) /\ Len(rest) < Len(q) /\ first \in Op
  BY <1>1
<1> QED
  BY <1>3, <1>4, <1>5, Zenon DEF rest, first

\* A session's queue is another one.
LEMMA OneQueue ==
  ASSUME queues \in [SessionIds -> Seq(Op)], NEW s \in SessionIds, NEW q \in Seq(Op),
         queues' = [queues EXCEPT ![s] = q]
  PROVE  /\ queues' \in [SessionIds -> Seq(Op)]
         /\ \A t \in SessionIds : queues'[t] = IF t = s THEN q ELSE queues[t]
OBVIOUS

\* A task's submit is another one's matter.
LEMMA OneAwait ==
  ASSUME await \in [Actors -> Fifo!SubmitCall], NEW a \in Actors, NEW st \in Fifo!SubmitCall,
         await' = [await EXCEPT ![a] = st]
  PROVE  /\ await' \in [Actors -> Fifo!SubmitCall]
         /\ \A b \in Actors : await'[b] = IF b = a THEN st ELSE await[b]
OBVIOUS

------------------------------------------------------------------------------
\* RadioHandle::submit.
LEMMA SubmitKeeps ==
  ASSUME SchedulerInv, NEW op \in Requests, SubmitOp(op)
  PROVE  SchedulerInv'
<1>1. /\ op \in Op /\ op.from \in Actors /\ channel \in Seq(Op) /\ ChannelCap \in Nat
      /\ await \in [Actors -> Fifo!SubmitCall]
  BY Tagged, SchedulerAssumption DEF Op, SchedulerInv, SubmitsKept, TypeOK
<1>2. /\ await[op.from] = "idle" /\ Len(channel) < ChannelCap
      /\ channel' = Append(channel, op) /\ await' = [await EXCEPT ![op.from] = "waiting"]
      /\ UNCHANGED <<queues, order, running>>
  BY DEF SubmitOp
<1>3. \A b \in Actors : await'[b] = IF b = op.from THEN "waiting" ELSE await[b]
  BY <1>1, <1>2
<1>4. /\ ~Holds(channel, op.from) /\ ~Executing(op.from)
      /\ \A s \in SessionIds : ~Holds(queues[s], op.from)
  BY <1>1, <1>2 DEF SchedulerInv, SubmitsKept, Owed
<1>5. /\ channel' \in Seq(Op) /\ Len(channel') = Len(channel) + 1 /\ Len(channel) \in Nat
      /\ \A a : Holds(channel', a) <=> Holds(channel, a) \/ op.from = a
      /\ Apart(channel')
  BY <1>1, <1>2, <1>4, AtTheEnd DEF SchedulerInv, SubmitsKept, Single
<1>6. await' \in [Actors -> Fifo!SubmitCall]
  BY <1>1, <1>2 DEF Fifo!SubmitCall
<1>7. TypeOK' /\ Listed'
  BY <1>1, <1>2, <1>5, <1>6 DEF SchedulerInv, SubmitsKept, TypeOK, Op, Listed
<1>8. \A a : Executing(a)' <=> Executing(a)
  BY <1>2 DEF Executing
<1>9. Owed'
  BY <1>2, <1>3, <1>4, <1>5, <1>8 DEF SchedulerInv, SubmitsKept, Owed
<1>10. Single'
  BY <1>2, <1>4, <1>5, <1>8 DEF SchedulerInv, SubmitsKept, Single
<1> QED
  BY <1>7, <1>9, <1>10 DEF SchedulerInv, SubmitsKept

\* One recv of the scheduler task, with enqueue.
LEMMA DrainKeeps ==
  ASSUME SchedulerInv, Drain
  PROVE  SchedulerInv'
<1> DEFINE op == Head(channel)
           s == op.session
<1>1. /\ channel \in Seq(Op) /\ channel # <<>> /\ queues \in [SessionIds -> Seq(Op)]
      /\ ChannelCap \in Nat /\ Len(channel) <= ChannelCap /\ running = NoOp
  BY SchedulerAssumption DEF Op, SchedulerInv, SubmitsKept, TypeOK, Drain
<1>2. /\ Tail(channel) \in Seq(Op) /\ Len(Tail(channel)) < Len(channel) /\ op \in Op
      /\ \A a : Holds(channel, a) <=> Holds(Tail(channel), a) \/ op.from = a
      /\ Apart(Tail(channel)) /\ ~Holds(Tail(channel), op.from)
  BY <1>1, AtTheFront DEF SchedulerInv, SubmitsKept, Single
<1>3. s \in SessionIds /\ op.from \in Actors
  BY <1>2, Tagged
<1>4. /\ queues' = [queues EXCEPT ![s] = Append(queues[s], op)] /\ channel' = Tail(channel)
      /\ order' = IF Contains(order, s) THEN order ELSE Append(order, s)
      /\ UNCHANGED <<running, await>>
  BY DEF Drain, Enqueue
<1> HIDE DEF op, s
<1>5. \A t \in SessionIds : ~Holds(queues[t], op.from)
  BY <1>2, <1>3 DEF SchedulerInv, SubmitsKept, Single
<1>6. /\ Append(queues[s], op) \in Seq(Op)
      /\ \A a : Holds(Append(queues[s], op), a) <=> Holds(queues[s], a) \/ op.from = a
      /\ Apart(Append(queues[s], op))
  BY <1>1, <1>2, <1>3, <1>5, AtTheEnd DEF SchedulerInv, SubmitsKept, Single
<1>7. /\ queues' \in [SessionIds -> Seq(Op)]
      /\ \A t \in SessionIds : queues'[t] = IF t = s THEN Append(queues[s], op) ELSE queues[t]
  BY <1>1, <1>3, <1>4, <1>6, OneQueue
<1>8. /\ order' \in Seq(SessionIds) /\ IsInjective(order')
      /\ \A t \in SessionIds : queues'[t] # <<>> => Contains(order', t)
  <2>1. order \in Seq(SessionIds) /\ IsInjective(order)
        /\ \A t \in SessionIds : queues[t] # <<>> => Contains(order, t)
    BY DEF SchedulerInv, SubmitsKept, TypeOK, Listed
  <2>2. CASE Contains(order, s)
    BY <1>4, <1>7, <2>1, <2>2
  <2>3. CASE ~Contains(order, s)
    <3>1. /\ order' = Append(order, s) /\ order' \in Seq(SessionIds) /\ Len(order) \in Nat
          /\ Len(order') = Len(order) + 1 /\ DOMAIN order = 1 .. Len(order)
          /\ DOMAIN order' = 1 .. Len(order) + 1
          /\ order'[Len(order) + 1] = s /\ \A i \in 1 .. Len(order) : order'[i] = order[i]
      BY <1>3, <1>4, <2>1, <2>3
    <3>2. \A t : Contains(order, t) => Contains(order', t)
      BY <3>1 DEF Contains
    <3>3. Contains(order', s)
      BY <3>1 DEF Contains
    <3>4. \A i \in 1 .. Len(order) : order[i] # s
      BY <2>3 DEF Contains
    <3>5. IsInjective(order')
      BY <2>1, <3>1, <3>4 DEF IsInjective
    <3> QED
      BY <1>7, <2>1, <3>1, <3>2, <3>3, <3>5
  <2> QED
    BY <2>2, <2>3
<1>9. TypeOK' /\ Listed'
  <2>1. Len(channel') <= ChannelCap
    BY <1>1, <1>2, <1>4
  <2> QED
    BY <1>2, <1>4, <1>7, <1>8, <2>1 DEF SchedulerInv, SubmitsKept, TypeOK, Op, Listed
<1>10. \A a : ~Executing(a)' /\ ~Executing(a)
  BY <1>1, <1>4 DEF Executing
<1>11. Owed'
  BY <1>2, <1>3, <1>4, <1>6, <1>7, <1>10 DEF SchedulerInv, SubmitsKept, Owed
<1>12. Single'
  BY <1>2, <1>3, <1>4, <1>5, <1>6, <1>7, <1>10 DEF SchedulerInv, SubmitsKept, Single
<1> QED
  BY <1>9, <1>11, <1>12 DEF SchedulerInv, SubmitsKept

\* select_next.
LEMMA SelectKeeps ==
  ASSUME SchedulerInv, Select
  PROVE  SchedulerInv'
<1>1. PICK i \in DOMAIN order :
        /\ queues[order[i]] # <<>> /\ running' = Head(queues[order[i]])
        /\ queues' = [queues EXCEPT ![order[i]] = Tail(queues[order[i]])]
  BY DEF Select, Best
<1> DEFINE s == order[i]
           op == Head(queues[s])
<1>2. /\ s \in SessionIds /\ queues \in [SessionIds -> Seq(Op)] /\ channel = <<>> /\ running = NoOp
      /\ UNCHANGED <<channel, order, await>>
  BY DEF SchedulerInv, SubmitsKept, TypeOK, Op, Listed, Select
<1>3. queues[s] # <<>> /\ running' = op /\ queues' = [queues EXCEPT ![s] = Tail(queues[s])]
  BY <1>1
<1> HIDE DEF s
<1>4. /\ Tail(queues[s]) \in Seq(Op) /\ op \in Op
      /\ \A a : Holds(queues[s], a) <=> Holds(Tail(queues[s]), a) \/ op.from = a
      /\ Apart(Tail(queues[s])) /\ ~Holds(Tail(queues[s]), op.from)
  BY <1>2, <1>3, AtTheFront DEF SchedulerInv, SubmitsKept, Single
<1> HIDE DEF op
<1>5. /\ queues' \in [SessionIds -> Seq(Op)]
      /\ \A t \in SessionIds : queues'[t] = IF t = s THEN Tail(queues[s]) ELSE queues[t]
  BY <1>2, <1>3, <1>4, OneQueue
<1>6. op # NoOp /\ op.from \in Actors
  BY <1>4, Tagged, SchedulerAssumption DEF Op
<1>7. TypeOK' /\ Listed'
  <2>1. \A t \in SessionIds : queues'[t] # <<>> => queues[t] # <<>>
    BY <1>3, <1>5
  <2> QED
    BY <1>2, <1>3, <1>4, <1>5, <2>1 DEF SchedulerInv, SubmitsKept, TypeOK, Op, Listed
<1>8. \A a : (Executing(a)' <=> op.from = a) /\ ~Executing(a) /\ ~Holds(channel, a)
  BY <1>2, <1>3, <1>6 DEF Executing, Holds
<1>9. \A t \in SessionIds \ {s} : ~Holds(queues[t], op.from)
  BY <1>2, <1>4, <1>6 DEF SchedulerInv, SubmitsKept, Single
<1>10. Owed'
  BY <1>2, <1>4, <1>5, <1>8 DEF SchedulerInv, SubmitsKept, Owed
<1>11. Single'
  BY <1>2, <1>4, <1>5, <1>8, <1>9 DEF SchedulerInv, SubmitsKept, Single
<1> QED
  BY <1>7, <1>10, <1>11 DEF SchedulerInv, SubmitsKept

\* execute returned, and the submitter has its answer.
LEMMA CompleteKeeps ==
  ASSUME SchedulerInv, NEW r \in Fifo!Result, Complete(r)
  PROVE  SchedulerInv'
<1>1. /\ running \in Op /\ running # NoOp /\ running' = NoOp
      /\ await' = [await EXCEPT ![running.from] = r] /\ UNCHANGED <<channel, queues, order>>
      /\ await \in [Actors -> Fifo!SubmitCall]
  BY DEF SchedulerInv, SubmitsKept, TypeOK, Op, Complete
<1>2. running.from \in Actors /\ r # "waiting" /\ r \in Fifo!SubmitCall
  BY <1>1, Tagged DEF Fifo!Result, Fifo!SubmitCall
<1>3. /\ await' \in [Actors -> Fifo!SubmitCall]
      /\ \A b \in Actors : await'[b] = IF b = running.from THEN r ELSE await[b]
  BY <1>1, <1>2, OneAwait
<1>4. TypeOK' /\ Listed'
  BY <1>1, <1>3 DEF SchedulerInv, SubmitsKept, TypeOK, Listed
<1>5. \A a : ~Executing(a)' /\ (Executing(a) <=> running.from = a)
  BY <1>1 DEF Executing
<1>6. Owed' /\ Single'
  BY <1>1, <1>2, <1>3, <1>5 DEF SchedulerInv, SubmitsKept, Owed, Single
<1> QED
  BY <1>4, <1>6 DEF SchedulerInv, SubmitsKept

\* The submitter goes on.
LEMMA ResumeKeeps ==
  ASSUME SchedulerInv, NEW a \in Actors, Resume(a)
  PROVE  SchedulerInv'
<1>1. /\ await[a] # "waiting" /\ await' = [await EXCEPT ![a] = "idle"]
      /\ UNCHANGED <<channel, queues, order, running>>
      /\ await \in [Actors -> Fifo!SubmitCall] /\ "idle" \in Fifo!SubmitCall
  BY DEF SchedulerInv, SubmitsKept, TypeOK, Resume, Fifo!Result, Fifo!SubmitCall
<1>2. /\ await' \in [Actors -> Fifo!SubmitCall]
      /\ \A b \in Actors : await'[b] = IF b = a THEN "idle" ELSE await[b]
  BY <1>1, OneAwait
<1>3. TypeOK' /\ Listed'
  BY <1>1, <1>2 DEF SchedulerInv, SubmitsKept, TypeOK, Listed
<1>4. Owed' /\ Single'
  BY <1>1, <1>2 DEF SchedulerInv, SubmitsKept, Owed, Single, Executing
<1> QED
  BY <1>3, <1>4 DEF SchedulerInv, SubmitsKept

\* Nothing is submitted at first.
LEMMA InitScheduler == Init => SchedulerInv
<1> SUFFICES ASSUME Init PROVE SchedulerInv
  OBVIOUS
<1>1. TypeOK /\ Listed
  BY SchedulerAssumption DEF Init, TypeOK, IsInjective, Listed, Fifo!SubmitCall
<1>2. Owed /\ Single
  BY DEF Init, Owed, Single, Holds, Apart, Executing
<1> QED
  BY <1>1, <1>2 DEF SchedulerInv, SubmitsKept

\* Every step keeps what is owed.
LEMMA NextScheduler == SchedulerInv /\ [Next]_vars => SchedulerInv'
<1> SUFFICES ASSUME SchedulerInv, [Next]_vars PROVE SchedulerInv'
  OBVIOUS
<1>1. CASE \E op \in Requests : SubmitOp(op)
  BY <1>1, SubmitKeeps
<1>2. CASE Drain
  BY <1>2, DrainKeeps
<1>3. CASE Select
  BY <1>3, SelectKeeps
<1>4. CASE \E r \in Fifo!Result : Complete(r)
  BY <1>4, CompleteKeeps
<1>5. CASE \E a \in Actors : Resume(a)
  BY <1>5, ResumeKeeps
<1>6. CASE UNCHANGED vars
  BY <1>6 DEF vars, SchedulerInv, SubmitsKept, Listed, TypeOK, Owed, Single, Executing
<1> QED
  BY <1>1, <1>2, <1>3, <1>4, <1>5, <1>6 DEF Next, Idle

\* For any sessions, tasks, operations and capacity, each submit that awaits its answer
\* has one operation in the scheduler, and every session with operations is listed once.
THEOREM SchedulerAnswersOnce == Spec => []SubmitsKept
<1>1. SchedulerInv => SubmitsKept
  BY DEF SchedulerInv
<1> QED
  BY <1>1, InitScheduler, NextScheduler, PTL DEF Spec
------------------------------------------------------------------------------
\* What the refinement needs besides: the channel holds what was submitted.
Submitted == channel \in Seq(Requests)
RefInv == SchedulerInv /\ Submitted
Backlogs == [s \in SessionIds |-> Backlog(s)]

\* The state on which the backlogs are computed has its types.
LEMMA BacklogTypes ==
  ASSUME RefInv
  PROVE  /\ channel \in Seq(Requests) /\ Requests \subseteq Op
         /\ queues \in [SessionIds -> Seq(Op)]
         /\ \A s \in SessionIds : queues[s] \in Seq(Op)
         /\ \A op \in Requests : op \in Op /\ op.session \in SessionIds
         /\ \A s, op : op \in Requests => (op \in Of(s) <=> op.session = s)
BY SchedulerAssumption, Tagged DEF RefInv, Submitted, SchedulerInv, SubmitsKept, TypeOK, Op, Of

\* A submitted operation is the last of its session's backlog.
LEMMA SubmitBacklogs ==
  ASSUME RefInv, NEW op \in Requests, SubmitOp(op)
  PROVE  Backlogs' = [Backlogs EXCEPT ![op.session] = Append(@, op)] /\ Submitted'
<1>1. channel' = Append(channel, op) /\ queues' = queues /\ op.session \in SessionIds /\ op \in Op
  BY BacklogTypes DEF SubmitOp
<1>2. PICK c \in Seq(Requests) : c = channel
  BY BacklogTypes
<1>3. channel' \in Seq(Requests)
  BY <1>1, <1>2
<1>4. ASSUME NEW s \in SessionIds
      PROVE  Backlog(s)' = IF s = op.session THEN Append(Backlog(s), op) ELSE Backlog(s)
  <2>1. PICK q \in Seq(Op) : q = queues[s]
    BY BacklogTypes
  <2>2. Selection(c, Of(s)) \in Seq(Requests \cap Of(s))
    BY SelectionTyped
  <2>3. PICK u \in Seq(Op) : u = Selection(c, Of(s))
    <3>1. Requests \cap Of(s) \subseteq Op
      BY BacklogTypes
    <3> HIDE DEF Of
    <3>2. Seq(Requests \cap Of(s)) \subseteq Seq(Op)
      BY <3>1
    <3> QED
      BY <2>2, <3>2
  <2>4. Selection(Append(c, op), Of(s)) = IF op \in Of(s) THEN Append(u, op) ELSE u
    BY <2>3, SelectionAppend
  <2>5. q \o Append(u, op) = Append(q \o u, op)
    BY <1>1
  <2>6. Backlog(s) = q \o u /\ Backlog(s)' = q \o Selection(Append(c, op), Of(s))
    BY <1>1, <1>2, <2>1, <2>3 DEF Backlog
  <2> QED
    BY <2>4, <2>5, <2>6, BacklogTypes, SMTT(40)
<1>5. Backlogs' = [s \in SessionIds |-> Backlog(s)']
  BY DEF Backlogs
<1> QED
  BY <1>1, <1>3, <1>4, <1>5 DEF Backlogs, Submitted

\* Moving an operation from the channel to its queue leaves every backlog as it is.
LEMMA DrainBacklogs ==
  ASSUME RefInv, Drain
  PROVE  Backlogs' = Backlogs /\ Submitted'
<1>1. PICK c \in Seq(Requests) : c = channel
  BY BacklogTypes
<1>2. c # <<>> /\ channel' = Tail(c)
  BY <1>1 DEF Drain
<1>3. PICK op \in Requests : op = Head(c)
  BY <1>2
<1>4. PICK t \in Seq(Requests) : t = Tail(c)
  BY <1>2
<1>5. op \in Op /\ op.session \in SessionIds
  BY BacklogTypes
<1>6. queues' = [queues EXCEPT ![op.session] = Append(queues[op.session], op)]
  BY <1>1, <1>3 DEF Drain, Enqueue
<1>7. ASSUME NEW s \in SessionIds
      PROVE  Backlog(s)' = Backlog(s)
  <2>1. PICK q \in Seq(Op) : q = queues[s]
    BY BacklogTypes
  <2>2. Selection(t, Of(s)) \in Seq(Requests \cap Of(s))
    BY SelectionTyped
  <2>3. PICK u \in Seq(Op) : u = Selection(t, Of(s))
    <3>1. Requests \cap Of(s) \subseteq Op
      BY BacklogTypes
    <3> HIDE DEF Of
    <3>2. Seq(Requests \cap Of(s)) \subseteq Seq(Op)
      BY <3>1
    <3> QED
      BY <2>2, <3>2
  <2>4. Selection(c, Of(s)) = IF op \in Of(s) THEN <<op>> \o u ELSE u
    BY <1>2, <1>3, <1>4, <2>3, SelectionCons
  <2>5. Append(q, op) \o u = q \o (<<op>> \o u)
    BY <1>5, SMTT(40)
  <2>6. Backlog(s) = q \o Selection(c, Of(s)) /\ Backlog(s)' = queues'[s] \o u
    BY <1>1, <1>2, <1>4, <2>1, <2>3 DEF Backlog
  <2>7. queues'[s] = IF s = op.session THEN Append(q, op) ELSE q
    BY <1>5, <1>6, <2>1, BacklogTypes
  <2>8. op \in Of(s) <=> op.session = s
    BY BacklogTypes
  <2> QED
    BY <2>4, <2>5, <2>6, <2>7, <2>8
<1>8. Backlogs' = [s \in SessionIds |-> Backlog(s)']
  BY DEF Backlogs
<1> QED
  BY <1>2, <1>4, <1>7, <1>8 DEF Backlogs, Submitted

\* With the channel empty the backlogs are the queues.
LEMMA QueuesOnly ==
  ASSUME RefInv, channel = <<>>
  PROVE  \A s \in SessionIds : Backlog(s) = queues[s]
<1> SUFFICES ASSUME NEW s \in SessionIds PROVE Backlog(s) = queues[s]
  OBVIOUS
<1>1. Selection(channel, Of(s)) = <<>>
  BY SelectionEmpty
<1>2. PICK q \in Seq(Op) : q = queues[s]
  BY BacklogTypes
<1>3. q \o <<>> = q
  OBVIOUS
<1> QED
  BY <1>1, <1>2, <1>3 DEF Backlog

\* The operation that starts is the oldest of a session, and none of the others' oldest
\* is better.
LEMMA SelectStarts ==
  ASSUME RefInv, Select
  PROVE  (\E s \in SessionIds : Fifo!Start(s)) /\ Submitted'
<1>1. PICK i \in DOMAIN order :
        /\ Best(i) /\ running' = Head(queues[order[i]])
        /\ queues' = [queues EXCEPT ![order[i]] = Tail(@)]
  BY DEF Select
<1>2. channel = <<>> /\ channel' = <<>> /\ running = NoOp /\ UNCHANGED await /\ order \in Seq(SessionIds)
  BY DEF Select, RefInv, SchedulerInv, Listed
<1>3. PICK s \in SessionIds : s = order[i]
  BY <1>2
<1>4. \A t \in SessionIds : Backlog(t) = queues[t]
  BY <1>2, QueuesOnly
<1>5. \A t \in SessionIds : Backlog(t)' = queues'[t]
  <2> SUFFICES ASSUME NEW t \in SessionIds PROVE Backlog(t)' = queues'[t]
    OBVIOUS
  <2>1. Selection(<<>>, Of(t)) = <<>>
    BY SelectionEmpty
  <2>2. queues'[t] \in Seq(Op)
    <3>1. queues[t] \in Seq(Op) /\ queues[s] \in Seq(Op) /\ queues[s] # <<>>
      BY <1>1, <1>3, BacklogTypes DEF Best
    <3>2. Tail(queues[s]) \in Seq(Op)
      BY <3>1
    <3>3. queues' = [queues EXCEPT ![s] = Tail(queues[s])]
      BY <1>1, <1>3
    <3> QED
      BY <3>1, <3>2, <3>3, BacklogTypes
  <2>3. PICK q \in Seq(Op) : q = queues'[t]
    BY <2>2
  <2>4. q \o <<>> = q
    OBVIOUS
  <2> QED
    BY <1>2, <2>1, <2>3, <2>4 DEF Backlog
<1>6. ASSUME NEW t \in SessionIds, queues[t] # <<>>
      PROVE  Head(queues[s]).prio <= Head(queues[t]).prio
  <2>1. PICK j \in DOMAIN order : order[j] = t
    <3>1. Contains(order, t)
      BY <1>6 DEF RefInv, SchedulerInv, SubmitsKept, TypeOK
    <3> QED
      BY <1>2, <3>1 DEF Contains
  <2>2. Head(queues[s]).prio \in Nat /\ Head(queues[t]).prio \in Nat
    <3>1. queues[t] \in Seq(Op) /\ queues[s] \in Seq(Op) /\ queues[s] # <<>>
      BY <1>1, <1>3, BacklogTypes DEF Best
    <3>2. Head(queues[s]) \in Op /\ Head(queues[t]) \in Op
      BY <1>6, <3>1
    <3>3. \A op \in Op : op.prio \in Nat
      BY DEF Op, Fifo!Operation, Fifo!Priority, Fifo!Ptt, Fifo!Poll
    <3> QED
      BY <3>2, <3>3
  <2> QED
    BY <1>1, <1>3, <1>6, <2>1, <2>2 DEF Best
<1>7. /\ Backlogs[s] # <<>> /\ running' = Head(Backlogs[s])
      /\ \A t \in SessionIds : Backlogs[t] # <<>> => Head(Backlogs[s]).prio <= Head(Backlogs[t]).prio
  BY <1>1, <1>3, <1>4, <1>6 DEF Best, Backlogs
<1>8. Backlogs' = [Backlogs EXCEPT ![s] = Tail(@)]
  <2>1. queues \in [SessionIds -> Seq(Op)]
    BY BacklogTypes
  <2>2. \A t \in SessionIds : queues'[t] = IF t = s THEN Tail(queues[t]) ELSE queues[t]
    BY <1>1, <1>3, <2>1
  <2>3. Backlogs' = [t \in SessionIds |-> Backlog(t)']
    BY DEF Backlogs
  <2> QED
    BY <1>4, <1>5, <2>2, <2>3 DEF Backlogs
<1>9. Submitted'
  BY <1>2 DEF Submitted
<1> QED
  BY <1>2, <1>7, <1>8, <1>9 DEF Fifo!Start, Backlogs

\* Every step of the scheduler is one of its promise, or none of its concern.
LEMMA StepRefines ==
  ASSUME RefInv, [Next]_vars
  PROVE  [Fifo!FifoNext]_Fifo!fifoVars /\ Submitted'
<1>1. ASSUME NEW op \in Requests, SubmitOp(op)
      PROVE  Fifo!FifoNext /\ Submitted'
  <2>1. Backlogs' = [Backlogs EXCEPT ![op.session] = Append(@, op)] /\ Submitted'
    BY <1>1, SubmitBacklogs
  <2>2. Fifo!Submit(op)
    BY <1>1, <2>1 DEF SubmitOp, Fifo!Submit, Backlogs
  <2>3. op \in Fifo!Operation
    BY BacklogTypes DEF Op
  <2> QED
    BY <2>1, <2>2, <2>3 DEF Fifo!FifoNext
<1>2. CASE Drain
  <2>1. Backlogs' = Backlogs /\ Submitted' /\ UNCHANGED <<running, await>>
    BY <1>2, DrainBacklogs DEF Drain
  <2> QED
    BY <2>1 DEF Fifo!fifoVars, Backlogs
<1>3. CASE Select
  BY <1>3, SelectStarts DEF Fifo!FifoNext
<1>4. ASSUME UNCHANGED <<channel, queues>>
      PROVE  Backlogs' = Backlogs /\ Submitted'
  <2>1. \A s \in SessionIds : Backlog(s)' = Backlog(s)
    BY <1>4 DEF Backlog
  <2>2. Backlogs' = [s \in SessionIds |-> Backlog(s)']
    BY DEF Backlogs
  <2> QED
    BY <1>4, <2>1, <2>2 DEF Backlogs, RefInv, Submitted
<1>5. ASSUME NEW r \in Fifo!Result, Complete(r)
      PROVE  Fifo!FifoNext /\ Submitted'
  <2>1. Backlogs' = Backlogs /\ Submitted'
    BY <1>4, <1>5 DEF Complete
  <2>2. await[running.from] = "waiting"
    <3>1. running \in Op /\ running # NoOp
      BY <1>5 DEF Complete, RefInv, SchedulerInv, SubmitsKept, TypeOK, Op
    <3>2. running.from \in Actors /\ Executing(running.from)
      BY <3>1, Tagged DEF Executing
    <3> QED
      BY <3>2 DEF RefInv, SchedulerInv, SubmitsKept, Owed
  <2>3. Fifo!Answer(r)
    BY <1>5, <2>1, <2>2 DEF Complete, Fifo!Answer, Backlogs
  <2> QED
    BY <2>1, <2>3 DEF Fifo!FifoNext
<1>6. ASSUME NEW a \in Actors, Resume(a)
      PROVE  Fifo!FifoNext /\ Submitted'
  <2>1. Backlogs' = Backlogs /\ Submitted'
    BY <1>4, <1>6 DEF Resume
  <2>2. Fifo!Resume(a)
    BY <1>6, <2>1 DEF Resume, Fifo!Resume, Backlogs
  <2> QED
    BY <2>1, <2>2 DEF Fifo!FifoNext
<1>7. CASE Idle \/ UNCHANGED vars
  <2>1. UNCHANGED vars
    BY <1>7 DEF Idle
  <2>2. Backlogs' = Backlogs /\ Submitted' /\ UNCHANGED <<running, await>>
    BY <1>4, <2>1 DEF vars
  <2> QED
    BY <2>2 DEF Fifo!fifoVars, Backlogs
<1> QED
  BY <1>1, <1>2, <1>3, <1>5, <1>6, <1>7 DEF Next

\* The channel and the queues together are per-session FIFOs with strict priority over
\* their oldest operations, for any capacity of the channel: submit, enqueue and
\* select_next implement what SessionFifo promises.
THEOREM SchedulerImplementsFifo == Spec => ImplementsFifo
<1>1. Init => Fifo!FifoInit /\ Submitted
  <2> SUFFICES ASSUME Init PROVE Fifo!FifoInit /\ Submitted
    OBVIOUS
  <2>1. \A s \in SessionIds : Backlog(s) = <<>>
    <3>1. \A s : Selection(<<>>, Of(s)) = <<>>
      BY SelectionEmpty
    <3>2. <<>> \o <<>> = <<>>
      OBVIOUS
    <3> QED
      BY <3>1, <3>2 DEF Init, Backlog
  <2>2. <<>> \in Seq(Requests)
    OBVIOUS
  <2> QED
    BY <2>1, <2>2 DEF Init, Fifo!FifoInit, Submitted
<1>2. Init => SchedulerInv
  BY InitScheduler
<1>3. SchedulerInv /\ [Next]_vars => SchedulerInv'
  BY NextScheduler
<1>4. RefInv /\ [Next]_vars => [Fifo!FifoNext]_Fifo!fifoVars /\ Submitted'
  BY StepRefines
<1> QED
  BY <1>1, <1>2, <1>3, <1>4, PTL DEF Spec, ImplementsFifo, Fifo!FifoSpec, RefInv
================================================================================

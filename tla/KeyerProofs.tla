------------------------------ MODULE KeyerProofs ------------------------------
(***************************************************************************)
(* What holds of the keyer for any clients, profiles and bounds.           *)
(***************************************************************************)
EXTENDS Keyer, WellFoundedInduction, SequenceTheorems, FiniteSetTheorems, TLAPS

------------------------------------------------------------------------------
(***************************************************************************)
(* What is selected from a sequence                                        *)
(***************************************************************************)

\* Numbers that are not all without a property have a least one that has it.
LEMMA Least ==
  ASSUME NEW T \in SUBSET Nat, T # {}
  PROVE  \E n \in T : \A k \in T : n <= k
<1>1. \E n \in T : \A k \in T : ~ (<<k, n>> \in OpToRel(<, Nat))
  BY WFMin, NatLessThanWellFounded
<1>2. PICK n \in T : \A k \in T : ~ (<<k, n>> \in OpToRel(<, Nat))
  BY <1>1
<1>3. \A k \in T : ~(k < n)
  BY <1>2 DEF OpToRel
<1> QED
  BY <1>3

\* What is kept of the first n, as the function says that computes it.
Kept(s, S, n, g) ==
  /\ DOMAIN g = 0 .. n /\ g[0] = <<>>
  /\ \A i \in 1 .. n : g[i] = IF s[i] \in S THEN Append(g[i - 1], s[i]) ELSE g[i - 1]

\* There is such a function ...
LEMMA KeptExists ==
  ASSUME NEW s, NEW S, NEW n \in Nat
  PROVE  \E g : Kept(s, S, n, g)
<1> DEFINE Bad == {k \in Nat : ~\E g : Kept(s, S, k, g)}
<1> SUFFICES ASSUME Bad # {} PROVE FALSE
  OBVIOUS
<1>1. PICK m \in Bad : \A k \in Bad : m <= k
  BY Least
<1>2. CASE m = 0
  <2>1. Kept(s, S, 0, [i \in 0 .. 0 |-> <<>>])
    BY DEF Kept
  <2> QED
    BY <1>1, <1>2, <2>1
<1>3. CASE m > 0
  <2>1. m - 1 \in Nat /\ m - 1 \notin Bad
    BY <1>1, <1>3
  <2>2. PICK g : Kept(s, S, m - 1, g)
    BY <2>1
  <2> DEFINE h == [i \in 0 .. m |->
                     IF i = m THEN IF s[m] \in S THEN Append(g[m - 1], s[m]) ELSE g[m - 1]
                     ELSE g[i]]
  <2>3. \A i \in 0 .. m - 1 : h[i] = g[i]
    BY <1>1
  <2>4. Kept(s, S, m, h)
    <3>1. DOMAIN h = 0 .. m /\ h[0] = <<>>
      BY <1>1, <1>3, <2>2 DEF Kept
    <3>2. \A i \in 1 .. m - 1 : h[i] = IF s[i] \in S THEN Append(h[i - 1], s[i]) ELSE h[i - 1]
      BY <1>1, <2>2, <2>3 DEF Kept
    <3>3. h[m] = IF s[m] \in S THEN Append(h[m - 1], s[m]) ELSE h[m - 1]
      BY <1>1, <1>3, <2>3
    <3> HIDE DEF h
    <3>4. \A i \in 1 .. m : i \in 1 .. m - 1 \/ i = m
      BY <1>1
    <3>5. \A i \in 1 .. m : h[i] = IF s[i] \in S THEN Append(h[i - 1], s[i]) ELSE h[i - 1]
      BY <3>2, <3>3, <3>4
    <3> QED
      BY <3>1, <3>5 DEF Kept
  <2> QED
    BY <1>1, <2>4
<1> QED
  BY <1>1, <1>2, <1>3

\* Selection is what is kept of all.
LEMMA SelectionKept ==
  ASSUME NEW s, Len(s) \in Nat, NEW S
  PROVE  \E g : Kept(s, S, Len(s), g) /\ Selection(s, S) = g[Len(s)]
<1> DEFINE kept == CHOOSE f : f = [i \in 0 .. Len(s) |->
                     IF i = 0 THEN <<>> ELSE IF s[i] \in S THEN Append(f[i - 1], s[i]) ELSE f[i - 1]]
<1>1. PICK g : Kept(s, S, Len(s), g)
  BY KeptExists, Zenon
<1> DEFINE h == [i \in 0 .. Len(s) |-> g[i]]
<1>2. h = [i \in 0 .. Len(s) |->
             IF i = 0 THEN <<>> ELSE IF s[i] \in S THEN Append(h[i - 1], s[i]) ELSE h[i - 1]]
  <2>1. \A i \in 0 .. Len(s) :
          g[i] = IF i = 0 THEN <<>> ELSE IF s[i] \in S THEN Append(g[i - 1], s[i]) ELSE g[i - 1]
    <3>1. \A i \in 0 .. Len(s) : i = 0 \/ i \in 1 .. Len(s)
      OBVIOUS
    <3> QED
      BY <1>1, <3>1, Zenon DEF Kept
  <2>2. \A i \in 0 .. Len(s) : i # 0 => h[i - 1] = g[i - 1]
    OBVIOUS
  <2>3. \A i \in 0 .. Len(s) :
          g[i] = IF i = 0 THEN <<>> ELSE IF s[i] \in S THEN Append(h[i - 1], s[i]) ELSE h[i - 1]
    BY <2>1, <2>2, Zenon
  <2> QED
    BY <2>3
<1>3. kept = [i \in 0 .. Len(s) |->
                IF i = 0 THEN <<>> ELSE IF s[i] \in S THEN Append(kept[i - 1], s[i]) ELSE kept[i - 1]]
  <2> HIDE DEF h
  <2> QED
    BY <1>2, Zenon
<1>4. Selection(s, S) = kept[Len(s)]
  BY DEF Selection
<1> HIDE DEF kept
<1>5. Kept(s, S, Len(s), kept)
  <2>1. DOMAIN kept = 0 .. Len(s)
    BY <1>3
  <2>2. kept[0] = <<>>
    BY <1>3
  <2>3. ASSUME NEW i \in 1 .. Len(s)
        PROVE  kept[i] = IF s[i] \in S THEN Append(kept[i - 1], s[i]) ELSE kept[i - 1]
    <3>1. i \in 0 .. Len(s) /\ i # 0
      OBVIOUS
    <3> QED
      BY <1>3, <3>1
  <2> QED
    BY <2>1, <2>2, <2>3 DEF Kept
<1> QED
  BY <1>4, <1>5

\* Nothing is selected from nothing.
LEMMA SelectionEmpty == ASSUME NEW S PROVE Selection(<<>>, S) = <<>>
<1>1. PICK g : Kept(<<>>, S, Len(<<>>), g) /\ Selection(<<>>, S) = g[Len(<<>>)]
  BY SelectionKept
<1> QED
  BY <1>1 DEF Kept

\* The elements selected are the sequence's that are in the set, and no more than it has.
LEMMA SelectionTyped ==
  ASSUME NEW T, NEW s \in Seq(T), NEW S
  PROVE  Selection(s, S) \in Seq(T \cap S) /\ Len(Selection(s, S)) <= Len(s)
<1>1. Len(s) \in Nat /\ DOMAIN s = 1 .. Len(s)
  OBVIOUS
<1>2. PICK g : Kept(s, S, Len(s), g) /\ Selection(s, S) = g[Len(s)]
  BY <1>1, SelectionKept
<1> DEFINE Bad == {i \in 0 .. Len(s) : ~(g[i] \in Seq(T \cap S) /\ Len(g[i]) <= i)}
<1>3. Bad \subseteq Nat
  OBVIOUS
<1>4. CASE Bad # {}
  <2>1. PICK i \in Bad : \A j \in Bad : i <= j
    <3> HIDE DEF Bad
    <3> QED
      BY <1>3, <1>4, Least
  <2>2. i \in 0 .. Len(s) /\ ~(g[i] \in Seq(T \cap S) /\ Len(g[i]) <= i)
    BY <2>1
  <2>3. i # 0
    <3>1. g[0] = <<>>
      BY <1>2 DEF Kept
    <3>2. <<>> \in Seq(T \cap S) /\ Len(<<>>) <= 0
      OBVIOUS
    <3> QED
      BY <2>2, <3>1, <3>2
  <2>4. i \in 1 .. Len(s) /\ i - 1 \in 0 .. Len(s) /\ i - 1 \notin Bad
    BY <2>1, <2>2, <2>3
  <2>5. g[i - 1] \in Seq(T \cap S) /\ Len(g[i - 1]) <= i - 1
    BY <2>4
  <2>6. g[i] = IF s[i] \in S THEN Append(g[i - 1], s[i]) ELSE g[i - 1]
    BY <1>2, <2>4 DEF Kept
  <2>7. s[i] \in T /\ i \in Nat
    BY <1>1, <2>4
  <2>8. PICK u \in Seq(T \cap S) : u = g[i - 1] /\ Len(u) <= i - 1 /\ Len(u) \in Nat
    BY <2>5
  <2>9. CASE s[i] \in S
    <3>1. Append(u, s[i]) \in Seq(T \cap S) /\ Len(Append(u, s[i])) = Len(u) + 1
      BY <2>7, <2>9
    <3> QED
      BY <2>2, <2>6, <2>7, <2>8, <2>9, <3>1
  <2>10. CASE s[i] \notin S
    BY <2>2, <2>6, <2>7, <2>8, <2>10
  <2> QED
    BY <2>9, <2>10
<1>5. CASE Bad = {}
  <2>1. Len(s) \in 0 .. Len(s)
    BY <1>1
  <2> QED
    BY <1>2, <1>5, <2>1
<1> QED
  BY <1>4, <1>5


------------------------------------------------------------------------------
(***************************************************************************)
(* A list of writes, one after the other                                   *)
(***************************************************************************)

\* What the keyer has become after the first n writes, as the function says that
\* computes it.
Obeyed(d, writes, n, g) ==
  /\ DOMAIN g = 0 .. n /\ g[0] = d
  /\ \A i \in 1 .. n : g[i] = Obey(g[i - 1], writes[i])

\* There is such a function ...
LEMMA ObeyedExists ==
  ASSUME NEW d, NEW ws, NEW n \in Nat
  PROVE  \E g : Obeyed(d, ws, n, g)
<1> DEFINE Bad == {k \in Nat : ~\E g : Obeyed(d, ws, k, g)}
<1> SUFFICES ASSUME Bad # {} PROVE FALSE
  OBVIOUS
<1>1. PICK m \in Bad : \A k \in Bad : m <= k
  BY Least
<1>2. CASE m = 0
  <2>1. Obeyed(d, ws, 0, [i \in 0 .. 0 |-> d])
    BY DEF Obeyed
  <2> QED
    BY <1>1, <1>2, <2>1
<1>3. CASE m > 0
  <2>1. m - 1 \in Nat /\ m - 1 \notin Bad
    BY <1>1, <1>3
  <2>2. PICK g : Obeyed(d, ws, m - 1, g)
    BY <2>1
  <2> DEFINE h == [i \in 0 .. m |-> IF i = m THEN Obey(g[m - 1], ws[m]) ELSE g[i]]
  <2>3. \A i \in 0 .. m - 1 : h[i] = g[i]
    BY <1>1
  <2>4. DOMAIN h = 0 .. m /\ h[0] = d
    BY <1>1, <1>3, <2>2 DEF Obeyed
  <2>5. \A i \in 1 .. m - 1 : h[i] = Obey(h[i - 1], ws[i])
    <3>1. \A i \in 1 .. m - 1 : i \in 0 .. m - 1 /\ i - 1 \in 0 .. m - 1
      BY <1>1
    <3>2. \A i \in 1 .. m - 1 : g[i] = Obey(g[i - 1], ws[i])
      BY <2>2 DEF Obeyed
    <3> HIDE DEF h
    <3> QED
      BY <2>3, <3>1, <3>2
  <2>6. h[m] = Obey(h[m - 1], ws[m])
    BY <1>1, <1>3, <2>3
  <2> HIDE DEF h
  <2>7. \A i \in 1 .. m : i \in 1 .. m - 1 \/ i = m
    BY <1>1
  <2>8. Obeyed(d, ws, m, h)
    BY <2>4, <2>5, <2>6, <2>7 DEF Obeyed
  <2> QED
    BY <1>1, <2>8
<1> QED
  BY <1>1, <1>2, <1>3

\* ... and one only, for equal beginnings.
Alike(s, t, first, n) == \A i \in first .. n : s[i] = t[i]
LEMMA ObeyedUnique ==
  ASSUME NEW d, NEW s, NEW t, NEW n \in Nat, NEW m \in Nat,
         NEW g, Obeyed(d, s, n, g), NEW h, Obeyed(d, t, m, h),
         n <= m, Alike(s, t, 1, n)
  PROVE  Alike(g, h, 0, n)
<1> USE DEF Alike
<1> DEFINE Bad == {i \in 0 .. n : g[i] # h[i]}
<1> SUFFICES ASSUME Bad # {} PROVE FALSE
  OBVIOUS
<1>0. Bad \subseteq Nat
  OBVIOUS
<1>1. PICK i \in Bad : \A j \in Bad : i <= j
  <2> HIDE DEF Bad
  <2> QED
    BY <1>0, Least
<1>2. CASE i = 0
  BY <1>1, <1>2 DEF Obeyed
<1>3. CASE i > 0
  <2>1. i - 1 \in 0 .. n /\ i - 1 \notin Bad /\ i \in 1 .. n /\ i \in 1 .. m
    BY <1>1, <1>3
  <2>2. g[i - 1] = h[i - 1] /\ s[i] = t[i]
    BY <2>1
  <2>3. g[i] = Obey(g[i - 1], s[i]) /\ h[i] = Obey(h[i - 1], t[i])
    BY <2>1 DEF Obeyed
  <2> QED
    BY <1>1, <2>2, <2>3
<1> QED
  BY <1>1, <1>2, <1>3

\* ObeyAll is what the keyer becomes after all.
LEMMA ObeyAllObeyed ==
  ASSUME NEW d, NEW ws, Len(ws) \in Nat
  PROVE  \E g : Obeyed(d, ws, Len(ws), g) /\ ObeyAll(d, ws) = g[Len(ws)]
<1> DEFINE after == CHOOSE f : f = [i \in 0 .. Len(ws) |->
                      IF i = 0 THEN d ELSE Obey(f[i - 1], ws[i])]
<1>1. PICK g : Obeyed(d, ws, Len(ws), g)
  BY ObeyedExists
<1> DEFINE h == [i \in 0 .. Len(ws) |-> g[i]]
<1>2. h = [i \in 0 .. Len(ws) |-> IF i = 0 THEN d ELSE Obey(h[i - 1], ws[i])]
  <2>1. \A i \in 0 .. Len(ws) : g[i] = IF i = 0 THEN d ELSE Obey(g[i - 1], ws[i])
    <3>1. \A i \in 0 .. Len(ws) : i = 0 \/ i \in 1 .. Len(ws)
      OBVIOUS
    <3> QED
      BY <1>1, <3>1 DEF Obeyed
  <2>2. \A i \in 0 .. Len(ws) : i # 0 => h[i - 1] = g[i - 1]
    OBVIOUS
  <2>3. \A i \in 0 .. Len(ws) : g[i] = IF i = 0 THEN d ELSE Obey(h[i - 1], ws[i])
    BY <2>1, <2>2
  <2> QED
    BY <2>3
<1>3. after = [i \in 0 .. Len(ws) |-> IF i = 0 THEN d ELSE Obey(after[i - 1], ws[i])]
  <2> HIDE DEF h
  <2> QED
    BY <1>2
<1>4. ObeyAll(d, ws) = after[Len(ws)]
  BY DEF ObeyAll
<1> HIDE DEF after
<1>5. Obeyed(d, ws, Len(ws), after)
  <2>1. DOMAIN after = 0 .. Len(ws) /\ after[0] = d
    BY <1>3
  <2>2. ASSUME NEW i \in 1 .. Len(ws) PROVE after[i] = Obey(after[i - 1], ws[i])
    <3>1. i \in 0 .. Len(ws) /\ i # 0
      OBVIOUS
    <3> QED
      BY <1>3, <3>1
  <2> QED
    BY <2>1, <2>2 DEF Obeyed
<1> QED
  BY <1>4, <1>5

\* The same function says what the keyer becomes after the first of the writes.
LEMMA ObeyPrefix ==
  ASSUME NEW d, NEW T, NEW ws \in Seq(T)
  PROVE  \E g : /\ Obeyed(d, ws, Len(ws), g)
                /\ g[Len(ws)] = ObeyAll(d, ws)
                /\ \A n \in 0 .. Len(ws) : g[n] = ObeyAll(d, SubSeq(ws, 1, n))
<1>0. Len(ws) \in Nat
  OBVIOUS
<1>1. PICK g : Obeyed(d, ws, Len(ws), g) /\ ObeyAll(d, ws) = g[Len(ws)]
  BY <1>0, ObeyAllObeyed
<1>2. ASSUME NEW n \in 0 .. Len(ws) PROVE g[n] = ObeyAll(d, SubSeq(ws, 1, n))
  <2>1. PICK s \in Seq(T) : s = SubSeq(ws, 1, n)
    <3>1. SubSeq(ws, 1, n) \in Seq(T)
      BY <1>0
    <3> QED
      BY <3>1
  <2>2. Len(s) = n /\ Alike(s, ws, 1, n)
    BY <1>0, <2>1 DEF Alike
  <2>3. PICK h : Obeyed(d, s, n, h) /\ ObeyAll(d, s) = h[n]
    BY <1>0, <2>2, ObeyAllObeyed
  <2>4. PICK k \in Nat, m \in Nat : k = n /\ m = Len(ws) /\ k <= m
    BY <1>0
  <2>5. Alike(h, g, 0, k)
    BY <1>1, <2>2, <2>3, <2>4, ObeyedUnique
  <2>6. h[n] = g[n]
    BY <2>4, <2>5 DEF Alike
  <2> QED
    BY <2>1, <2>3, <2>6
<1> QED
  BY <1>1, <1>2

\* What each write keeps from the k-th on, all of them keep.
LEMMA StepsKeep ==
  ASSUME NEW d, NEW T, NEW ws \in Seq(T), NEW k \in 0 .. Len(ws), NEW D, NEW W,
         ObeyAll(d, SubSeq(ws, 1, k)) \in D,
         \A i \in k + 1 .. Len(ws) : ws[i] \in W,
         \A e \in D, w \in W : Obey(e, w) \in D
  PROVE  /\ \A n \in k .. Len(ws) : ObeyAll(d, SubSeq(ws, 1, n)) \in D
         /\ ObeyAll(d, ws) \in D
<1>0. Len(ws) \in Nat /\ k \in Nat
  OBVIOUS
<1>1. PICK g : /\ Obeyed(d, ws, Len(ws), g)
               /\ g[Len(ws)] = ObeyAll(d, ws)
               /\ \A n \in 0 .. Len(ws) : g[n] = ObeyAll(d, SubSeq(ws, 1, n))
  BY ObeyPrefix
<1> DEFINE Bad == {i \in k .. Len(ws) : g[i] \notin D}
<1>2. Bad = {}
  <2> SUFFICES ASSUME Bad # {} PROVE FALSE
    OBVIOUS
  <2>0. Bad \subseteq Nat
    BY <1>0
  <2>1. PICK i \in Bad : \A j \in Bad : i <= j
    <3> HIDE DEF Bad
    <3> QED
      BY <2>0, Least
  <2>2. i # k
    BY <1>1, <2>1
  <2>3. i - 1 \in k .. Len(ws) /\ i - 1 \notin Bad /\ i \in k + 1 .. Len(ws) /\ i \in 1 .. Len(ws)
    BY <1>0, <2>1, <2>2
  <2>4. g[i - 1] \in D /\ ws[i] \in W
    BY <2>3
  <2>5. g[i] = Obey(g[i - 1], ws[i])
    BY <1>1, <2>3 DEF Obeyed
  <2> QED
    BY <2>1, <2>4, <2>5
<1>3. \A n \in k .. Len(ws) : g[n] \in D /\ n \in 0 .. Len(ws)
  BY <1>0, <1>2
<1>4. Len(ws) \in k .. Len(ws)
  BY <1>0
<1> QED
  BY <1>1, <1>3, <1>4

\* Before any write, and after the first.
LEMMA ObeyFirst ==
  ASSUME NEW d, NEW T, NEW ws \in Seq(T)
  PROVE  /\ ObeyAll(d, SubSeq(ws, 1, 0)) = d
         /\ ws = <<>> => ObeyAll(d, ws) = d
         /\ Len(ws) >= 1 => ObeyAll(d, SubSeq(ws, 1, 1)) = Obey(d, ws[1])
<1>0. Len(ws) \in Nat
  OBVIOUS
<1>1. PICK g : /\ Obeyed(d, ws, Len(ws), g)
               /\ g[Len(ws)] = ObeyAll(d, ws)
               /\ \A n \in 0 .. Len(ws) : g[n] = ObeyAll(d, SubSeq(ws, 1, n))
  BY ObeyPrefix
<1>2. g[0] = d /\ 0 \in 0 .. Len(ws)
  BY <1>0, <1>1 DEF Obeyed
<1>3. CASE Len(ws) >= 1
  <2>1. 1 \in 1 .. Len(ws) /\ 1 \in 0 .. Len(ws) /\ 1 - 1 = 0
    BY <1>0, <1>3
  <2>2. g[1] = Obey(g[0], ws[1])
    BY <1>1, <2>1 DEF Obeyed
  <2> QED
    BY <1>1, <1>2, <1>3, <2>1, <2>2
<1>4. CASE ~(Len(ws) >= 1)
  <2>1. Len(ws) = 0
    BY <1>0, <1>4
  <2> QED
    BY <1>1, <1>2, <1>4, <2>1
<1> QED
  BY <1>3, <1>4

\* A single write.
LEMMA ObeyOne ==
  ASSUME NEW d, NEW T, NEW w, <<w>> \in Seq(T)
  PROVE  ObeyAll(d, <<w>>) = Obey(d, w)
<1>1. PICK ws \in Seq(T) : ws = <<w>>
  <2>1. \E ws \in Seq(T) : ws = <<w>>
    OBVIOUS
  <2> QED
    BY <2>1
<1>2. Len(<<w>>) = 1 /\ <<w>>[1] = w
  OBVIOUS
<1>3. Len(ws) = 1 /\ ws[1] = w
  BY <1>1, <1>2
<1>4. SubSeq(ws, 1, Len(ws)) = ws
  BY SubSeqFull
<1>5. ObeyAll(d, SubSeq(ws, 1, 1)) = Obey(d, ws[1])
  <2>1. Len(ws) >= 1
    BY <1>3
  <2> QED
    BY <2>1, ObeyFirst
<1>6. ObeyAll(d, SubSeq(ws, 1, 1)) = ObeyAll(d, ws)
  BY <1>3, <1>4, Zenon
<1>7. ObeyAll(d, ws) = Obey(d, w)
  BY <1>3, <1>5, <1>6, Zenon
<1> QED
  BY <1>1, <1>7, Zenon

\* What each of the writes keeps, all of them keep.
LEMMA AllKeep ==
  ASSUME NEW D, NEW d \in D, NEW W, NEW ws \in Seq(W),
         \A e \in D, w \in W : Obey(e, w) \in D
  PROVE  /\ \A n \in 0 .. Len(ws) : ObeyAll(d, SubSeq(ws, 1, n)) \in D
         /\ ObeyAll(d, ws) \in D
<1>1. /\ Len(ws) \in Nat /\ \A i \in 1 .. Len(ws) : ws[i] \in W
  OBVIOUS
<1>2. PICK k \in 0 .. Len(ws) : k = 0 /\ \A i \in k + 1 .. Len(ws) : ws[i] \in W
  BY <1>1
<1>3. ObeyAll(d, SubSeq(ws, 1, k)) \in D
  BY <1>2, ObeyFirst
<1>4. /\ \A n \in k .. Len(ws) : ObeyAll(d, SubSeq(ws, 1, n)) \in D
      /\ ObeyAll(d, ws) \in D
  BY <1>2, <1>3, StepsKeep
<1> QED
  BY <1>2, <1>4

\* The same after a first write that does not keep it.
LEMMA RestKeep ==
  ASSUME NEW d, NEW T, NEW ws \in Seq(T), Len(ws) >= 1, NEW D, NEW W,
         Obey(d, ws[1]) \in D,
         \A i \in 2 .. Len(ws) : ws[i] \in W,
         \A e \in D, w \in W : Obey(e, w) \in D
  PROVE  /\ \A n \in 1 .. Len(ws) : ObeyAll(d, SubSeq(ws, 1, n)) \in D
         /\ ObeyAll(d, ws) \in D
<1>1. Len(ws) \in Nat
  OBVIOUS
<1>2. PICK k \in 0 .. Len(ws) : k = 1 /\ \A i \in k + 1 .. Len(ws) : ws[i] \in W
  BY <1>1
<1>3. ObeyAll(d, SubSeq(ws, 1, k)) \in D
  BY <1>2, ObeyFirst
<1>4. /\ \A n \in k .. Len(ws) : ObeyAll(d, SubSeq(ws, 1, n)) \in D
      /\ ObeyAll(d, ws) \in D
  BY <1>2, <1>3, StepsKeep
<1> QED
  BY <1>2, <1>4

------------------------------------------------------------------------------
(***************************************************************************)
(* The keyer and what is written to it                                     *)
(***************************************************************************)

Piece == [job : JobIds, client : Clients]

Device ==
  [open : BOOLEAN, text : Seq(Piece), key : BOOLEAN, paddle : BOOLEAN,
   regs : [Regs -> Vals \cup {Unset}], speed : Speeds,
   said : Statuses \cup {"nothing"}, up : Seq(Bytes)]

\* What leaves the text, the registers and the speed of a keyer in host mode alone,
\* and leaves it there.
Harmless ==
  {Clear, KeyUp, KeyDown, HostOpen, StatusRequest}
  \cup {Completed(j) : j \in JobIds} \cup {Canceled(j) : j \in JobIds}
Settings == {SetReg(r, v) : r \in Regs, v \in Vals \cup {Unset}} \cup {SetWpm(s) : s \in Speeds}
Texts == {Text(j, c) : j \in JobIds, c \in Clients}

\* What is written in a session ...
Mild == Harmless \cup Settings \cup Texts
\* ... and to enter maintenance or to stop for good.
Written == Mild \cup {HostClose, Admin}
\* All but the texts.
Quiet == Harmless \cup Settings \cup {HostClose, Admin}

\* What a write does, by its kind.
LEMMA DeviceFields ==
  ASSUME NEW d \in Device
  PROVE  /\ d.open \in BOOLEAN /\ d.text \in Seq(Piece) /\ d.key \in BOOLEAN
         /\ d.paddle \in BOOLEAN /\ d.regs \in [Regs -> Vals \cup {Unset}]
         /\ d.speed \in Speeds /\ d.said \in Statuses \cup {"nothing"} /\ d.up \in Seq(Bytes)
BY DEF Device

\* With one of its fields changed it is still a keyer, and the others are as before.
LEMMA WithOpen ==
  ASSUME NEW d \in Device, NEW x \in BOOLEAN, NEW e, e = [d EXCEPT !.open = x]
  PROVE  /\ e \in Device /\ e.open = x
         /\ e.text = d.text /\ e.regs = d.regs /\ e.speed = d.speed /\ e.up = d.up
<1>1. e \in Device
  BY DEF Device
<1> QED
  BY <1>1 DEF Device

\* A keyer with another input FIFO ...
LEMMA WithText ==
  ASSUME NEW d \in Device, NEW x \in Seq(Piece), NEW e, e = [d EXCEPT !.text = x]
  PROVE  /\ e \in Device /\ e.text = x
         /\ e.open = d.open /\ e.regs = d.regs /\ e.speed = d.speed /\ e.up = d.up
<1>1. e \in Device
  BY DEF Device
<1> QED
  BY <1>1 DEF Device

\* ... another key ...
LEMMA WithKey ==
  ASSUME NEW d \in Device, NEW x \in BOOLEAN, NEW e, e = [d EXCEPT !.key = x]
  PROVE  /\ e \in Device /\ e.key = x
         /\ e.open = d.open /\ e.text = d.text /\ e.regs = d.regs /\ e.speed = d.speed /\ e.up = d.up
<1>1. e \in Device
  BY DEF Device
<1> QED
  BY <1>1 DEF Device

\* ... other registers ...
LEMMA WithRegs ==
  ASSUME NEW d \in Device, NEW x \in [Regs -> Vals \cup {Unset}], NEW e, e = [d EXCEPT !.regs = x]
  PROVE  /\ e \in Device /\ e.regs = x
         /\ e.open = d.open /\ e.text = d.text /\ e.speed = d.speed /\ e.up = d.up
<1>1. e \in Device
  BY DEF Device
<1> QED
  BY <1>1 DEF Device

\* ... another speed ...
LEMMA WithSpeed ==
  ASSUME NEW d \in Device, NEW x \in Speeds, NEW e, e = [d EXCEPT !.speed = x]
  PROVE  /\ e \in Device /\ e.speed = x
         /\ e.open = d.open /\ e.text = d.text /\ e.regs = d.regs /\ e.up = d.up
<1>1. e \in Device
  BY DEF Device
<1> QED
  BY <1>1 DEF Device

\* ... another status said ...
LEMMA WithSaid ==
  ASSUME NEW d \in Device, NEW x \in Statuses \cup {"nothing"}, NEW e, e = [d EXCEPT !.said = x]
  PROVE  /\ e \in Device /\ e.said = x
         /\ e.open = d.open /\ e.text = d.text /\ e.regs = d.regs /\ e.speed = d.speed /\ e.up = d.up
<1>1. e \in Device
  BY DEF Device
<1> QED
  BY <1>1 DEF Device

\* ... or other bytes under way is a keyer still.
LEMMA WithUp ==
  ASSUME NEW d \in Device, NEW x \in Seq(Bytes), NEW e, e = [d EXCEPT !.up = x]
  PROVE  /\ e \in Device /\ e.up = x
         /\ e.open = d.open /\ e.text = d.text /\ e.regs = d.regs /\ e.speed = d.speed
<1>1. e \in Device
  BY DEF Device
<1> QED
  BY <1>1 DEF Device

\* A status byte is one of the three.
LEMMA DeviceStatusTyped == ASSUME NEW d PROVE DeviceStatus(d) \in Statuses
BY DEF DeviceStatus, Statuses

\* A status on its way changes nothing else.
Kept4(d, e) == e.open = d.open /\ e.text = d.text /\ e.regs = d.regs /\ e.speed = d.speed

\* A byte the keyer sends goes behind those under way.
LEMMA SendTyped ==
  ASSUME NEW d \in Device, NEW b \in Bytes
  PROVE  Send(d, b) \in Device /\ Kept4(d, Send(d, b))
<1>1. PICK u \in Seq(Bytes) : u = Append(d.up, b)
  <2>1. PICK v \in Seq(Bytes) : v = d.up
    BY DeviceFields
  <2>2. Append(v, b) \in Seq(Bytes)
    OBVIOUS
  <2> QED
    BY <2>1, <2>2
<1>2. PICK e : e = [d EXCEPT !.up = u]
  OBVIOUS
<1>3. Send(d, b) = e
  BY <1>1, <1>2 DEF Send, Device
<1> QED
  BY <1>2, <1>3, WithUp DEF Kept4

\* A report changes nothing the broker set up.
LEMMA ReportedKept ==
  ASSUME NEW d \in Device
  PROVE  Reported(d) \in Device /\ Kept4(d, Reported(d))
<1>1. PICK b \in Statuses : b = DeviceStatus(d)
  BY DeviceStatusTyped
<1>2. PICK e : e = [d EXCEPT !.said = b]
  OBVIOUS
<1>3. e \in Device /\ Kept4(d, e)
  BY <1>2, WithSaid DEF Kept4
<1>4. Reported(d) = Send(e, b)
  BY <1>1, <1>2 DEF Reported
<1>5. Send(e, b) \in Device /\ Kept4(e, Send(e, b))
  BY <1>3, SendTyped DEF Bytes
<1> QED
  BY <1>3, <1>4, <1>5 DEF Kept4

\* Nor does one that comes with a command.
LEMMA ToldTyped ==
  ASSUME NEW d \in Device
  PROVE  Told(d) \in Device /\ Kept4(d, Told(d))
BY ReportedKept DEF Told, Kept4

\* The harmless ones.
HarmlessDone(d, w) ==
  /\ Obey(d, w) \in Device
  /\ Obey(d, w).text \in {d.text, <<>>}
  /\ Obey(d, w).regs = d.regs /\ Obey(d, w).speed = d.speed
  /\ d.open \/ w = HostOpen => Obey(d, w).open

\* One that keeps what the broker set up, in host mode, and does nothing out of it.
LEMMA KeptHarmless ==
  ASSUME NEW d \in Device, NEW x \in Device, NEW w, w # HostOpen,
         Kept4(d, x), Obey(d, w) = IF d.open THEN x ELSE d
  PROVE  HarmlessDone(d, w)
<1>1. d.open = FALSE \/ d.open = TRUE
  BY DeviceFields
<1>2. CASE d.open = TRUE
  <2>1. Obey(d, w) = x
    BY <1>2
  <2> QED
    BY <1>2, <2>1 DEF Kept4, HarmlessDone
<1>3. CASE d.open = FALSE
  <2>1. Obey(d, w) = d
    BY <1>3
  <2> QED
    BY <1>3, <2>1 DEF HarmlessDone
<1> QED
  BY <1>1, <1>2, <1>3

\* A command that sets nothing up ...
LEMMA HarmlessObeyed ==
  ASSUME NEW d \in Device, NEW w \in Harmless
  PROVE  HarmlessDone(d, w)
<1>1. CASE w = Clear
  <2>1. PICK t \in Seq(Piece) : t = <<>>
    <3>1. <<>> \in Seq(Piece)
      OBVIOUS
    <3> QED
      BY <3>1, Zenon
  <2>2. PICK e : e = [d EXCEPT !.text = t]
    OBVIOUS
  <2>3. e \in Device /\ e.open = d.open /\ e.text = <<>> /\ e.regs = d.regs /\ e.speed = d.speed
    <3>1. e \in Device
      BY <2>2 DEF Device
    <3>2. e.text = t /\ e.open = d.open /\ e.regs = d.regs /\ e.speed = d.speed
      BY <2>2 DEF Device
    <3> QED
      BY <2>1, <3>1, <3>2, Zenon
  <2>4. PICK x : x = Told(e)
    OBVIOUS
  <2>5. x \in Device /\ Kept4(e, x)
    BY <2>3, <2>4, ToldTyped, Zenon
  <2>6. w # HostOpen /\ Obey(d, w) = IF d.open THEN x ELSE d
    BY <1>1, <2>1, <2>2, <2>4 DEF Clear, HostOpen, Obey, ObeyOpen, ObeyClosed
  <2>7. d.open = FALSE \/ d.open = TRUE
    BY DeviceFields
  <2>8. CASE d.open = TRUE
    <3>1. Obey(d, w) = x
      BY <2>6, <2>8
    <3>2. x.text = <<>> /\ x.open = d.open /\ x.regs = d.regs /\ x.speed = d.speed
      BY <2>3, <2>5 DEF Kept4
    <3> QED
      BY <2>5, <2>8, <3>1, <3>2 DEF HarmlessDone
  <2>9. CASE d.open = FALSE
    BY <2>6, <2>9 DEF HarmlessDone
  <2> QED
    BY <2>7, <2>8, <2>9
<1>2. CASE w = KeyUp
  <2>1. PICK e : e = [d EXCEPT !.key = FALSE]
    OBVIOUS
  <2>2. e \in Device /\ Kept4(d, e)
    BY <2>1 DEF Kept4, Device
  <2>3. PICK x : x = Told(e)
    OBVIOUS
  <2>4. x \in Device /\ Kept4(e, x)
    BY <2>2, <2>3, ToldTyped, Zenon
  <2>5. w # HostOpen /\ Obey(d, w) = IF d.open THEN x ELSE d
    BY <1>2, <2>1, <2>3 DEF KeyUp, HostOpen, Obey, ObeyOpen, ObeyClosed
  <2>6. Kept4(d, x)
    BY <2>2, <2>4 DEF Kept4
  <2> QED
    BY <2>4, <2>5, <2>6, KeptHarmless, SMT
<1>3. CASE w = KeyDown
  <2>1. PICK x : x = [d EXCEPT !.key = TRUE]
    OBVIOUS
  <2>2. x \in Device /\ Kept4(d, x)
    BY <2>1 DEF Kept4, Device
  <2>3. w # HostOpen /\ Obey(d, w) = IF d.open THEN x ELSE d
    BY <1>3, <2>1 DEF KeyDown, HostOpen, Obey, ObeyOpen, ObeyClosed
  <2> QED
    BY <2>2, <2>3, KeptHarmless
<1>4. CASE w = HostOpen
  <2>1. PICK b \in Bytes : b = "revision"
    BY DEF Bytes
  <2>2. CASE d.open
    <3>1. PICK e : e = [d EXCEPT !.said = "nothing"]
      OBVIOUS
    <3>2. e \in Device /\ Kept4(d, e)
      BY <3>1 DEF Kept4, Device
    <3>3. PICK x : x = Send(e, b)
      OBVIOUS
    <3>4. Obey(d, w) = x
      BY <1>4, <2>1, <2>2, <3>1, <3>3 DEF HostOpen, Obey, ObeyOpen
    <3>5. x \in Device /\ Kept4(e, x)
      BY <2>1, <3>2, <3>3, SendTyped, Zenon
    <3>6. x.text = d.text /\ x.regs = d.regs /\ x.speed = d.speed /\ x.open = d.open
      BY <3>2, <3>5 DEF Kept4
    <3> QED
      BY <2>2, <3>4, <3>5, <3>6 DEF HarmlessDone
  <2>3. CASE ~d.open
    <3>1. PICK f : f = [d EXCEPT !.open = TRUE]
      OBVIOUS
    <3>2. f \in Device /\ f.open /\ f.text = d.text /\ f.regs = d.regs /\ f.speed = d.speed
      BY <3>1, WithOpen
    <3>3. PICK e : e = [f EXCEPT !.said = "nothing"]
      OBVIOUS
    <3>4. e \in Device /\ Kept4(f, e)
      BY <3>2, <3>3 DEF Kept4, Device
    <3>5. e = [d EXCEPT !.open = TRUE, !.said = "nothing"]
      BY <3>1, <3>3
    <3>6. PICK x : x = Send(e, b)
      OBVIOUS
    <3>7. Obey(d, w) = x
      BY <1>4, <2>1, <2>3, <3>5, <3>6 DEF HostOpen, Obey, ObeyClosed
    <3>8. x \in Device /\ Kept4(e, x)
      BY <2>1, <3>4, <3>6, SendTyped, Zenon
    <3>9. x.text = d.text /\ x.regs = d.regs /\ x.speed = d.speed /\ x.open
      BY <3>2, <3>4, <3>8 DEF Kept4
    <3> QED
      BY <3>7, <3>8, <3>9 DEF HarmlessDone
  <2> QED
    BY <2>2, <2>3
<1>5. CASE w = StatusRequest
  <2>1. PICK x : x = [d EXCEPT !.said = "nothing"]
    OBVIOUS
  <2>2. x \in Device /\ Kept4(d, x)
    BY <2>1 DEF Kept4, Device
  <2>3. w # HostOpen /\ Obey(d, w) = IF d.open THEN x ELSE d
    BY <1>5, <2>1 DEF StatusRequest, HostOpen, Obey, ObeyOpen, ObeyClosed
  <2> QED
    BY <2>2, <2>3, KeptHarmless
<1>6. CASE \E j \in JobIds : w = Completed(j) \/ w = Canceled(j)
  <2>1. w.do = "completed" \/ w.do = "canceled"
    BY <1>6 DEF Completed, Canceled
  <2>2. Obey(d, w) = d
    BY <2>1 DEF Obey, ObeyOpen, ObeyClosed
  <2>3. w # HostOpen
    BY <2>1 DEF HostOpen
  <2> QED
    BY <2>2, <2>3 DEF HarmlessDone
<1> QED
  BY <1>1, <1>2, <1>3, <1>4, <1>5, <1>6 DEF Harmless

\* The settings.
RegDone(d, r, v) ==
  LET e == Obey(d, SetReg(r, v)) IN
  /\ e \in Device /\ e.open = d.open /\ e.text = d.text /\ e.speed = d.speed
  /\ e.regs = IF d.open THEN [d.regs EXCEPT ![r] = v] ELSE d.regs

SpeedDone(d, s) ==
  LET e == Obey(d, SetWpm(s)) IN
  /\ e \in Device /\ e.open = d.open /\ e.text = d.text /\ e.regs = d.regs
  /\ e.speed = IF d.open THEN s ELSE d.speed

\* ... a register that is set ...
LEMMA RegObeyed ==
  ASSUME NEW d \in Device, NEW r \in Regs, NEW v \in Vals \cup {Unset}
  PROVE  RegDone(d, r, v)
<1>1. PICK w : w = SetReg(r, v)
  OBVIOUS
<1>2. w.do = "reg" /\ w.reg = r /\ w.val = v
  BY <1>1 DEF SetReg
<1>3. Obey(d, w) = IF d.open THEN [d EXCEPT !.regs[w.reg] = w.val] ELSE d
  BY <1>2 DEF Obey, ObeyOpen, ObeyClosed
<1>4. PICK x \in [Regs -> Vals \cup {Unset}] : x = [d.regs EXCEPT ![r] = v]
  BY DeviceFields
<1>5. PICK e : e = [d EXCEPT !.regs = x]
  OBVIOUS
<1>6. Obey(d, w) = IF d.open THEN e ELSE d
  BY <1>2, <1>3, <1>4, <1>5
<1>7. e \in Device /\ e.regs = x /\ e.open = d.open /\ e.text = d.text /\ e.speed = d.speed
  BY <1>5, WithRegs
<1> QED
  BY <1>1, <1>4, <1>6, <1>7 DEF RegDone

\* ... a speed that is set ...
LEMMA SpeedObeyed ==
  ASSUME NEW d \in Device, NEW s \in Speeds
  PROVE  SpeedDone(d, s)
<1>1. PICK w : w = SetWpm(s)
  OBVIOUS
<1>2. w.do = "speed" /\ w.speed = s
  BY <1>1 DEF SetWpm
<1>3. PICK e : e = [d EXCEPT !.speed = s]
  OBVIOUS
<1>4. Obey(d, w) = IF d.open THEN e ELSE d
  BY <1>2, <1>3 DEF Obey, ObeyOpen, ObeyClosed
<1>5. e \in Device /\ e.speed = s /\ e.open = d.open /\ e.text = d.text /\ e.regs = d.regs
  BY <1>3, WithSpeed
<1> QED
  BY <1>1, <1>4, <1>5 DEF SpeedDone

\* The texts.
TextDone(d, j, c) ==
  LET e == Obey(d, Text(j, c)) IN
  /\ e \in Device /\ e.open = d.open /\ e.regs = d.regs /\ e.speed = d.speed
  /\ e.text = IF d.open THEN Append(d.text, [job |-> j, client |-> c]) ELSE d.text

\* ... and a piece of text do what they say, in host mode only.
LEMMA TextObeyed ==
  ASSUME NEW d \in Device, NEW j \in JobIds, NEW c \in Clients
  PROVE  TextDone(d, j, c)
<1>1. PICK w : w = Text(j, c)
  OBVIOUS
<1>2. w.do = "text" /\ w.job = j /\ w.client = c
  BY <1>1 DEF Text
<1>3. PICK p \in Piece : p = [job |-> j, client |-> c]
  BY DEF Piece
<1>4. PICK x \in Seq(Piece) : x = Append(d.text, p)
  <2>1. PICK v \in Seq(Piece) : v = d.text
    BY DeviceFields
  <2>2. Append(v, p) \in Seq(Piece)
    OBVIOUS
  <2> QED
    BY <2>1, <2>2
<1>5. PICK e : e = [d EXCEPT !.text = x]
  OBVIOUS
<1>6. Obey(d, w) = IF d.open THEN e ELSE d
  <2>1. Obey(d, w) = IF d.open THEN [d EXCEPT !.text = Append(@, [job |-> w.job, client |-> w.client])] ELSE d
    BY <1>2 DEF Obey, ObeyOpen, ObeyClosed
  <2> QED
    BY <1>2, <1>3, <1>4, <1>5, <2>1
<1>7. e \in Device /\ e.text = x /\ e.open = d.open /\ e.regs = d.regs /\ e.speed = d.speed
  BY <1>5, WithText
<1> QED
  BY <1>1, <1>3, <1>4, <1>6, <1>7 DEF TextDone

\* What leaves host mode, or happens out of it.
LEMMA CloseObeyed ==
  ASSUME NEW d \in Device
  PROVE  Obey(d, HostClose) \in Device /\ Obey(d, HostClose).text = d.text
<1>1. PICK e : e = [d EXCEPT !.open = FALSE]
  OBVIOUS
<1>2. Obey(d, HostClose) = IF d.open THEN e ELSE d
  BY <1>1 DEF Obey, ObeyOpen, ObeyClosed, HostClose
<1>3. e \in Device /\ e.text = d.text
  BY <1>1, WithOpen
<1> QED
  BY <1>2, <1>3

\* A maintenance command may reset the registers out of host mode.
LEMMA AdminObeyed ==
  ASSUME NEW d \in Device
  PROVE  Obey(d, Admin) \in Device /\ Obey(d, Admin).text = d.text
<1>1. PICK x \in [Regs -> Vals \cup {Unset}] : x = [r \in Regs |-> Unset]
  OBVIOUS
<1>2. PICK e : e = [d EXCEPT !.regs = x]
  OBVIOUS
<1>3. PICK b \in Bytes : b = "reply"
  BY DEF Bytes
<1>4. Obey(d, Admin) = IF d.open THEN d ELSE Send(e, b)
  BY <1>1, <1>2, <1>3 DEF Obey, ObeyOpen, ObeyClosed, Admin
<1>5. e \in Device /\ e.text = d.text
  BY <1>2, WithRegs
<1> QED
  BY <1>4, <1>5, SendTyped DEF Kept4

\* The host takes a byte.
LEMMA ReadObeyed ==
  ASSUME NEW d \in Device, d.up # <<>>
  PROVE  /\ Obey(d, ByteRead) \in Device /\ Kept4(d, Obey(d, ByteRead))
         /\ Obey(d, ByteRead).up = Tail(d.up)
<1>1. PICK x \in Seq(Bytes) : x = Tail(d.up)
  <2>1. PICK v \in Seq(Bytes) : v = d.up
    BY DeviceFields
  <2>2. Tail(v) \in Seq(Bytes)
    BY <2>1
  <2> QED
    BY <2>1, <2>2
<1>2. PICK e : e = [d EXCEPT !.up = x]
  OBVIOUS
<1>3. Obey(d, ByteRead) = e
  BY <1>1, <1>2 DEF Obey, ByteRead
<1>4. e \in Device /\ e.up = x /\ Kept4(d, e)
  BY <1>2, WithUp DEF Kept4
<1> QED
  BY <1>1, <1>3, <1>4

\* Whatever is written leaves the keyer a keyer, and what is written in a session
\* leaves it in host mode.
LEMMA MildObeyed ==
  ASSUME NEW d \in Device, NEW w \in Mild
  PROVE  Obey(d, w) \in Device /\ (d.open => Obey(d, w).open)
<1>1. CASE w \in Harmless
  BY <1>1, HarmlessObeyed DEF HarmlessDone
<1>2. CASE w \in Settings
  <2>1. CASE \E r \in Regs, v \in Vals \cup {Unset} : w = SetReg(r, v)
    <3>1. PICK r \in Regs, v \in Vals \cup {Unset} : w = SetReg(r, v)
      BY <2>1
    <3>2. RegDone(d, r, v)
      BY RegObeyed
    <3> QED
      BY <3>1, <3>2 DEF RegDone
  <2>2. CASE \E s \in Speeds : w = SetWpm(s)
    <3>1. PICK x \in Speeds : w = SetWpm(x)
      BY <2>2
    <3>2. SpeedDone(d, x)
      BY SpeedObeyed
    <3> QED
      BY <3>1, <3>2 DEF SpeedDone
  <2> QED
    BY <1>2, <2>1, <2>2 DEF Settings
<1>3. CASE w \in Texts
  <2>1. PICK j \in JobIds, c \in Clients : w = Text(j, c)
    BY <1>3 DEF Texts
  <2>2. TextDone(d, j, c)
    BY TextObeyed
  <2> QED
    BY <2>1, <2>2 DEF TextDone
<1> QED
  BY <1>1, <1>2, <1>3 DEF Mild

\* Whatever is written, the keyer is a keyer afterwards.
LEMMA WrittenTyped ==
  \A d \in Device, w \in Written : Obey(d, w) \in Device
BY MildObeyed, CloseObeyed, AdminObeyed DEF Written

------------------------------------------------------------------------------
(***************************************************************************)
(* What a step writes                                                      *)
(***************************************************************************)

\* Writes of W, the first of which may be the taking of a byte.
Leads(acts, W) ==
  /\ acts \in Seq(W \cup {ByteRead})
  /\ \A i \in 2 .. Len(acts) : acts[i] \in W
  /\ acts # <<>> /\ acts[1] = ByteRead => dev.up # <<>>

\* The host's reading of a byte is no command.
LEMMA NoRead ==
  /\ ByteRead \notin Written /\ Mild \subseteq Written
  /\ ByteRead \notin Quiet /\ Quiet \subseteq Written /\ Harmless \subseteq Quiet /\ Settings \subseteq Quiet
<1>1. ByteRead.do = "read"
  BY DEF ByteRead
<1>2. \A w \in Written : w.do # "read"
  BY DEF Written, Mild, Harmless, Settings, Texts, Clear, KeyUp, KeyDown, HostOpen, StatusRequest,
         HostClose, Admin, SetReg, SetWpm, Text, Completed, Canceled
<1>3. Quiet \subseteq Written /\ Mild \subseteq Written
  BY DEF Quiet, Written, Mild
<1>4. Harmless \subseteq Quiet /\ Settings \subseteq Quiet
  BY DEF Quiet
<1> QED
  BY <1>1, <1>2, <1>3, <1>4

\* Commands alone, ...
LEMMA LeadsAll ==
  ASSUME NEW W, ByteRead \notin W, NEW s \in Seq(W)
  PROVE  Leads(s, W)
BY DEF Leads

\* ... commands after the byte that was read, ...
LEMMA LeadsRead ==
  ASSUME NEW W, dev.up # <<>>
  PROVE  Leads(<<ByteRead>>, W)
BY DEF Leads

\* ... and those with more commands behind them.
LEMMA LeadsOn ==
  ASSUME NEW W, ByteRead \notin W, NEW s, Leads(s, W), NEW t \in Seq(W)
  PROVE  Leads(s \o t, W)
<1>1. PICK u \in Seq(W \cup {ByteRead}) : u = s
  BY DEF Leads
<1>2. t \in Seq(W \cup {ByteRead}) /\ Len(t) \in Nat /\ Len(u) \in Nat
  <2>1. Leads(t, W)
    BY LeadsAll
  <2>2. t \in Seq(W \cup {ByteRead})
    BY <2>1 DEF Leads
  <2>3. Len(t) \in Nat
    OBVIOUS
  <2>4. Len(u) \in Nat
    OBVIOUS
  <2> QED
    BY <2>2, <2>3, <2>4
<1>3. PICK v \in Seq(W \cup {ByteRead}) : v = u \o t
  BY <1>2, ConcatProperties
<1>4. Len(v) = Len(u) + Len(t)
  BY <1>2, <1>3
<1>5. \A i \in 1 .. Len(v) : v[i] = IF i <= Len(u) THEN u[i] ELSE t[i - Len(u)]
  BY <1>2, <1>3
<1>6. \A i \in 2 .. Len(v) : v[i] \in W
  <2> SUFFICES ASSUME NEW i \in 2 .. Len(v) PROVE v[i] \in W
    OBVIOUS
  <2>1. CASE i <= Len(u)
    BY <1>1, <1>2, <1>4, <1>5, <2>1 DEF Leads
  <2>2. CASE ~(i <= Len(u))
    <3>1. i - Len(u) \in 1 .. Len(t)
      BY <1>2, <1>4, <2>2
    <3>2. v[i] = t[i - Len(u)]
      BY <1>2, <1>5, <2>2
    <3> QED
      BY <3>1, <3>2
  <2> QED
    BY <2>1, <2>2
<1>7. ASSUME v # <<>>, v[1] = ByteRead PROVE dev.up # <<>>
  <2>1. Len(v) >= 1
    BY <1>2, <1>3, <1>7
  <2>2. CASE Len(u) >= 1
    <3>1. v[1] = u[1] /\ u # <<>>
      BY <1>2, <1>4, <1>5, <2>1, <2>2
    <3> QED
      BY <1>1, <1>7, <3>1 DEF Leads
  <2>3. CASE ~(Len(u) >= 1)
    <3>1. Len(u) = 0 /\ 1 \in 1 .. Len(t) /\ 1 \in 1 .. Len(v) /\ ~(1 <= Len(u))
      BY <1>2, <1>4, <2>1, <2>3
    <3>2. v[1] = t[1 - Len(u)] /\ 1 - Len(u) = 1
      BY <1>5, <3>1
    <3> QED
      BY <1>7, <3>1, <3>2
  <2> QED
    BY <2>2, <2>3
<1> QED
  BY <1>1, <1>3, <1>6, <1>7 DEF Leads

\* What each write keeps, a step keeps.
LEMMA LeadsKeep ==
  ASSUME NEW W, NEW acts, Leads(acts, W), NEW D, dev \in D,
         \A e \in D, w \in W : Obey(e, w) \in D,
         \A e \in D : e.up # <<>> => Obey(e, ByteRead) \in D
  PROVE  /\ \A n \in 0 .. Len(acts) : ObeyAll(dev, SubSeq(acts, 1, n)) \in D
         /\ ObeyAll(dev, acts) \in D
<1>1. PICK u \in Seq(W \cup {ByteRead}) : u = acts
  BY DEF Leads
<1>2. Len(u) \in Nat
  OBVIOUS
<1>3. CASE u # <<>> /\ u[1] = ByteRead
  <2>1. Len(u) >= 1 /\ Obey(dev, u[1]) \in D /\ \A i \in 2 .. Len(u) : u[i] \in W
    BY <1>1, <1>2, <1>3 DEF Leads
  <2>2. /\ \A n \in 1 .. Len(u) : ObeyAll(dev, SubSeq(u, 1, n)) \in D
        /\ ObeyAll(dev, u) \in D
    BY <2>1, RestKeep
  <2>3. ObeyAll(dev, SubSeq(u, 1, 0)) \in D
    BY ObeyFirst
  <2>4. \A n \in 0 .. Len(u) : n = 0 \/ n \in 1 .. Len(u)
    OBVIOUS
  <2> QED
    BY <1>1, <2>2, <2>3, <2>4
<1>4. CASE ~(u # <<>> /\ u[1] = ByteRead)
  <2>1. \A i \in 1 .. Len(u) : u[i] \in W
    <3>1. \A i \in 1 .. Len(u) : i \in 2 .. Len(u) \/ i = 1
      BY <1>2
    <3>2. \A i \in 1 .. Len(u) : u # <<>> /\ u[i] \in W \cup {ByteRead}
      BY <1>2
    <3>3. \A i \in 2 .. Len(u) : u[i] \in W
      BY <1>1 DEF Leads
    <3> QED
      BY <1>4, <3>1, <3>2, <3>3
  <2>2. u \in Seq(W)
    <3>1. u = [i \in 1 .. Len(u) |-> u[i]]
      OBVIOUS
    <3> QED
      BY <1>2, <2>1, <3>1
  <2> QED
    BY <1>1, <2>2, AllKeep
<1> QED
  BY <1>3, <1>4

\* apply_actions keeps what each of the actions keeps, wherever a write fails.
LEMMA PerformKeep ==
  ASSUME NEW W, NEW acts, Leads(acts, W), NEW D, dev \in D,
         \A e \in D, w \in W : Obey(e, w) \in D,
         \A e \in D : e.up # <<>> => Obey(e, ByteRead) \in D,
         Perform(acts)
  PROVE  dev' \in D
<1>1. \A n \in 0 .. Len(acts) : ObeyAll(dev, SubSeq(acts, 1, n)) \in D
  BY LeadsKeep
<1> QED
  BY <1>1 DEF Perform, Deliver

\* The ends that are told are those of jobs, and counted to two.
LEMMA EndsFinite ==
  ASSUME NEW T, NEW acts \in Seq(T)
  PROVE  IsFiniteSet(Ends(acts))
<1> DEFINE I == {k \in DOMAIN acts : IsEvent(acts[k])}
<1> DEFINE f == [i \in I |-> acts[i]]
<1>1. DOMAIN acts = 1 .. Len(acts) /\ Len(acts) \in Nat
  OBVIOUS
<1>2. IsFiniteSet(1 .. Len(acts))
  BY <1>1, FS_Interval
<1>3. IsFiniteSet(I)
  BY <1>1, <1>2, FS_Subset
<1>4. f \in Surjection(I, Ends(acts))
  BY DEF Ends, Surjection
<1> QED
  BY <1>3, <1>4, FS_Surjection

\* The count of the ends a client was told stops at two.
LEMMA MinTwo ==
  ASSUME NEW n \in Nat
  PROVE  Min({2, n}) = IF n < 2 THEN n ELSE 2
<1>1. PICK m : m = Min({2, n})
  OBVIOUS
<1>2. m = CHOOSE x \in {2, n} : \A y \in {2, n} : x <= y
  BY <1>1 DEF Min
<1>3. \E x \in {2, n} : \A y \in {2, n} : x <= y
  OBVIOUS
<1>4. m \in {2, n} /\ \A y \in {2, n} : m <= y
  BY <1>2, <1>3
<1> QED
  BY <1>1, <1>4

\* The events of a step leave the history of its type.
LEMMA TellTyped ==
  ASSUME told \in [JobIds -> 0 .. 2], NEW T, NEW acts \in Seq(T), Tell(acts)
  PROVE  told' \in [JobIds -> 0 .. 2]
<1>1. ASSUME NEW j \in JobIds
      PROVE  Min({2, told[j] + Cardinality({e \in Ends(acts) : e.job = j})}) \in 0 .. 2
  <2>1. IsFiniteSet({e \in Ends(acts) : e.job = j})
    BY EndsFinite, FS_Subset
  <2>2. PICK n \in Nat : n = told[j] + Cardinality({e \in Ends(acts) : e.job = j})
    <3>1. PICK m \in Nat : m = Cardinality({e \in Ends(acts) : e.job = j})
      BY <2>1, FS_CardinalityType
    <3>2. told[j] + m \in Nat
      OBVIOUS
    <3> QED
      BY <3>1, <3>2
  <2>3. Min({2, n}) \in 0 .. 2
    BY MinTwo
  <2> QED
    BY <2>2, <2>3
<1> QED
  BY <1>1 DEF Tell

\* An enumeration has every element, of a set of registers.
LEMMA Enumerated ==
  ASSUME NEW S \in SUBSET Regs
  PROVE  /\ SetToSeq(S) \in Seq(S)
         /\ \A r \in S : \E i \in DOMAIN SetToSeq(S) : SetToSeq(S)[i] = r
<1>1. IsFiniteSet(S)
  BY KeyerAssumption, FS_Subset
<1>2. PICK n \in Nat : n = Cardinality(S) /\ ExistsBijection(1 .. n, S)
  BY <1>1, FS_CardinalityType
<1>3. IsFiniteSet(1 .. n) /\ Cardinality(1 .. n) = n
  BY FS_Interval
<1>4. \E f \in [1 .. n -> S] : IsInjective(f)
  BY <1>2 DEF ExistsBijection, Bijection, Injection, IsInjective
<1>5. PICK f : f = CHOOSE g \in [1 .. n -> S] : IsInjective(g)
  OBVIOUS
<1>6. f \in [1 .. n -> S] /\ IsInjective(f)
  BY <1>4, <1>5
<1>7. SetToSeq(S) = f
  BY <1>2, <1>5 DEF SetToSeq
<1>8. f \in Injection(1 .. n, S)
  BY <1>6 DEF Injection, IsInjective
<1>9. f \in Surjection(1 .. n, S)
  BY <1>1, <1>2, <1>3, <1>8, FS_Injection
<1>10. \A r \in S : \E i \in 1 .. n : f[i] = r
  BY <1>9 DEF Surjection
<1>11. f \in Seq(S) /\ DOMAIN f = 1 .. n
  BY <1>6
<1> QED
  BY <1>7, <1>10, <1>11

ProfilesOK == profile \in [Clients -> [Regs -> Vals \cup {Unset}]] /\ desired \in [Clients -> Speeds]

\* What a profile holds is what is written of it, and all of it.
LEMMA ReplayTyped ==
  ASSUME ProfilesOK, NEW c \in Clients
  PROVE  /\ Replay(c) \in Seq({SetReg(r, profile[c][r]) : r \in Regs})
         /\ Replay(c) \in Seq(Settings)
         /\ \A r \in Regs : profile[c][r] # Unset =>
              \E i \in 1 .. Len(Replay(c)) : Replay(c)[i] = SetReg(r, profile[c][r])
<1> DEFINE S == {r \in Regs : profile[c][r] # Unset}
<1>1. PICK regs \in Seq(S) : regs = SetToSeq(S) /\ \A r \in S : \E i \in DOMAIN regs : regs[i] = r
  BY Enumerated
<1>2. Replay(c) = [i \in DOMAIN regs |-> SetReg(regs[i], profile[c][regs[i]])]
  BY <1>1 DEF Replay
<1>3. DOMAIN regs = 1 .. Len(regs) /\ Len(regs) \in Nat /\ \A i \in 1 .. Len(regs) : regs[i] \in Regs
  OBVIOUS
<1>4. \A i \in 1 .. Len(regs) : Replay(c)[i] = SetReg(regs[i], profile[c][regs[i]])
  BY <1>2, <1>3
<1>5. PICK rp : rp = Replay(c)
  OBVIOUS
<1>6. DOMAIN rp = 1 .. Len(regs) /\ rp = [i \in 1 .. Len(regs) |-> rp[i]]
  BY <1>2, <1>3, <1>5
<1>7. \A i \in 1 .. Len(regs) : rp[i] \in {SetReg(r, profile[c][r]) : r \in Regs}
  BY <1>3, <1>4, <1>5
<1>8. rp \in Seq({SetReg(r, profile[c][r]) : r \in Regs}) /\ Len(rp) = Len(regs)
  BY <1>3, <1>6, <1>7
<1>9. \A i \in 1 .. Len(regs) : rp[i] \in Settings
  <2>1. \A r \in Regs : profile[c][r] \in Vals \cup {Unset}
    BY DEF ProfilesOK
  <2> QED
    BY <1>7, <2>1 DEF Settings
<1>10. rp \in Seq(Settings)
  BY <1>3, <1>6, <1>9
<1>11. \A r \in S : \E i \in 1 .. Len(rp) : rp[i] = SetReg(r, profile[c][r])
  <2> SUFFICES ASSUME NEW r \in S PROVE \E i \in 1 .. Len(rp) : rp[i] = SetReg(r, profile[c][r])
    OBVIOUS
  <2>1. PICK i \in 1 .. Len(regs) : regs[i] = r
    BY <1>1, <1>3
  <2>2. rp[i] = SetReg(r, profile[c][r])
    BY <1>4, <1>5, <2>1
  <2> QED
    BY <1>8, <2>2
<1> QED
  BY <1>5, <1>8, <1>10, <1>11

\* The foreground is a registered primary, if there is one.
LEMMA ForegroundTyped ==
  ASSUME NEW registered
  PROVE  /\ Foreground(registered) # NoClient => Foreground(registered) \in Primaries \cap registered
         /\ Foreground(registered) = NoClient => Primaries \cap registered = {}
<1>1. Primaries \cap registered # {} =>
        (CHOOSE c \in Primaries \cap registered : TRUE) \in Primaries \cap registered
  OBVIOUS
<1>2. NoClient \notin Primaries
  BY KeyerAssumption
<1> QED
  BY <1>1, <1>2 DEF Foreground

\* SetSpeed writes one setting.
LEMMA SpeedTyped == ASSUME NEW s \in Speeds PROVE <<SetWpm(s)>> \in Seq(Settings)
<1>1. SetWpm(s) \in Settings
  BY DEF Settings
<1> QED
  BY <1>1

\* restore_foreground_speed writes settings only.
LEMMA RestoreTyped ==
  ASSUME ProfilesOK, NEW fg \in Clients \cup {NoClient}, NEW seen
  PROVE  RestoreWrites(fg, seen) \in Seq(Settings)
<1>1. PICK a \in Seq(Settings) : a = IF fg \in {NoClient, seen} THEN <<>> ELSE Replay(fg)
  <2>1. <<>> \in Seq(Settings)
    OBVIOUS
  <2>2. fg # NoClient => Replay(fg) \in Seq(Settings)
    BY ReplayTyped
  <2> QED
    BY <2>1, <2>2
<1>2. PICK s \in Speeds : s = IF fg = NoClient THEN "pot" ELSE desired[fg]
  BY KeyerAssumption DEF ProfilesOK
<1>3. PICK b \in Seq(Settings) : b = <<SetWpm(s)>>
  BY SpeedTyped
<1>4. a \o b \in Seq(Settings)
  BY ConcatProperties
<1> QED
  BY <1>1, <1>2, <1>3, <1>4 DEF RestoreWrites

\* Sequences that are typed closer.
LEMMA SeqWider ==
  ASSUME NEW S, NEW T, S \subseteq T, NEW s \in Seq(S)
  PROVE  s \in Seq(T)
OBVIOUS

\* What is performed, in the session, up to a write that fails.
Sent(acts) ==
  \/ link # "up" /\ dev' = dev /\ link' = link
  \/ link = "up" /\ link' = "up" /\ dev' = ObeyAll(dev, acts)
  \/ /\ link = "up" /\ link' = "failed"
     /\ \E n \in 0 .. Len(acts) : dev' = ObeyAll(dev, SubSeq(acts, 1, n))

\* Without a failure the keyer gets all of it.
LEMMA PerformSent ==
  ASSUME NEW T, NEW acts \in Seq(T), Perform(acts)
  PROVE  Sent(acts)
<1>1. Len(acts) \in Nat /\ SubSeq(acts, 1, Len(acts)) = acts
  OBVIOUS
<1>2. CASE link # "up"
  BY <1>2 DEF Perform, Sent
<1>3. CASE link = "up"
  <2>1. PICK n \in 0 .. Len(acts) :
          /\ link' = IF n < Len(acts) THEN "failed" ELSE link
          /\ dev' = ObeyAll(dev, SubSeq(acts, 1, n))
    BY <1>3 DEF Perform, Deliver
  <2>2. CASE n < Len(acts)
    BY <1>3, <2>1, <2>2 DEF Sent
  <2>3. CASE ~(n < Len(acts))
    <3>1. n = Len(acts)
      <4>1. PICK m \in Nat : m = Len(acts)
        OBVIOUS
      <4>2. n \in 0 .. m
        BY <2>1, <4>1
      <4> QED
        BY <2>3, <4>1, <4>2
    <3> QED
      BY <1>1, <1>3, <2>1, <3>1 DEF Sent
  <2> QED
    BY <2>2, <2>3
<1> QED
  BY <1>2, <1>3

------------------------------------------------------------------------------
(***************************************************************************)
(* The types of all variables                                              *)
(***************************************************************************)

TypesInv == KeyerTypeOK /\ dev \in Device

\* Events are of jobs.
LEMMA EventJob ==
  ASSUME NEW w \in Written \cup {ByteRead}, IsEvent(w)
  PROVE  w.job \in JobIds /\ (w = Completed(w.job) \/ w = Canceled(w.job))
BY DEF IsEvent, Written, Mild, Harmless, Settings, Texts, Clear, KeyUp, KeyDown, HostOpen,
       StatusRequest, HostClose, Admin, SetReg, SetWpm, Text, Completed, Canceled, ByteRead

\* What a step that performs has of the types.
Performed ==
  /\ dev' \in Device
  /\ told' \in [JobIds -> 0 .. 2]
  /\ untold' \subseteq JobIds

\* The ends a list tells: all of them, or those before the write that fails.
TellsUpTo(acts) ==
  IF link # "up" THEN Tell(acts) /\ untold' = untold
  ELSE \E n \in 0 .. Len(acts) : Applied(acts, n)

\* The actions that are performed tell theirs.
LEMMA PerformTells ==
  ASSUME NEW acts, Perform(acts)
  PROVE  TellsUpTo(acts) /\ link' \in {link, "failed"}
BY DEF Perform, TellsUpTo

\* What was told keeps its types.
LEMMA TellsTyped ==
  ASSUME TypesInv, NEW acts, Leads(acts, Written), TellsUpTo(acts)
  PROVE  told' \in [JobIds -> 0 .. 2] /\ untold' \subseteq JobIds
<1>2. PICK T : T = Written \cup {ByteRead}
  OBVIOUS
<1>3. acts \in Seq(T)
  BY <1>2 DEF Leads
<1>4. told \in [JobIds -> 0 .. 2] /\ untold \subseteq JobIds
  BY DEF TypesInv, KeyerTypeOK
<1>5. Len(acts) \in Nat
  BY <1>3
<1>6. CASE link # "up"
  <2>1. Tell(acts) /\ untold' = untold
    BY <1>6 DEF TellsUpTo
  <2> QED
    BY <1>3, <1>4, <2>1, TellTyped
<1>7. CASE link = "up"
  <2>1. PICK n \in 0 .. Len(acts) :
          /\ Tell(SubSeq(acts, 1, n))
          /\ untold' = untold \cup {e.job : e \in Ends(SubSeq(acts, n + 1, Len(acts)))}
    BY <1>7 DEF TellsUpTo, Applied
  <2>2. SubSeq(acts, 1, n) \in Seq(T)
    BY <1>3, <1>5
  <2>3. told' \in [JobIds -> 0 .. 2]
    BY <1>4, <2>1, <2>2, TellTyped
  <2>4. PICK rest \in Seq(T) : rest = SubSeq(acts, n + 1, Len(acts))
    <3>1. n + 1 \in Int /\ Len(acts) \in Int /\ n + 1 >= 1
      BY <1>5
    <3>2. SubSeq(acts, n + 1, Len(acts)) \in Seq(T)
      BY <1>3, <1>5, <3>1
    <3> QED
      BY <3>2
  <2>5. \A e \in Ends(rest) : e.job \in JobIds
    <3>1. \A i \in DOMAIN rest : rest[i] \in T
      OBVIOUS
    <3> QED
      BY <1>2, <3>1, EventJob DEF Ends
  <2>6. untold' \subseteq JobIds
    BY <1>4, <2>1, <2>4, <2>5
  <2> QED
    BY <2>3, <2>6
<1> QED
  BY <1>6, <1>7

\* apply_actions keeps the types.
LEMMA PerformTyped ==
  ASSUME TypesInv, NEW acts, Leads(acts, Written),
         Perform(acts)
  PROVE  Performed /\ link' \in {link, "failed"}
<1>1. dev' \in Device
  <2>1. dev \in Device
    BY DEF TypesInv
  <2>2. \A e \in Device : e.up # <<>> => Obey(e, ByteRead) \in Device
    BY ReadObeyed
  <2> QED
    BY <2>1, <2>2, WrittenTyped, PerformKeep
<1> QED
  BY <1>1, PerformTells, TellsTyped DEF Performed

\* A keyer that keys nothing of the host's, and one that may key only in host mode.
Silent(d) == d.text = <<>> /\ ~d.key
Shut(d) == d.open \/ Silent(d)

\* e keys no more than d.
Quieter(d, e) == (d.text = <<>> => e.text = <<>>) /\ (~d.key => ~e.key)

\* What the keyer sends changes nothing of that.
LEMMA SendQuieter ==
  ASSUME NEW d \in Device, NEW b
  PROVE  Send(d, b).text = d.text /\ Send(d, b).key = d.key /\ Send(d, b).open = d.open
<1>1. PICK u : u = Append(d.up, b)
  OBVIOUS
<1>2. Send(d, b) = [d EXCEPT !.up = u]
  BY <1>1 DEF Send
<1> QED
  BY <1>2 DEF Device

LEMMA ToldQuieter ==
  ASSUME NEW d \in Device
  PROVE  Told(d).text = d.text /\ Told(d).key = d.key
<1>1. PICK b \in Statuses : b = DeviceStatus(d)
  BY DeviceStatusTyped
<1>2. PICK e : e = [d EXCEPT !.said = b]
  OBVIOUS
<1>3. e \in Device /\ e.text = d.text /\ e.key = d.key
  BY <1>2 DEF Device
<1>4. Reported(d) = Send(e, b)
  BY <1>1, <1>2 DEF Reported
<1>5. Told(d) \in {Send(e, b), d}
  BY <1>4 DEF Told
<1> QED
  BY <1>3, <1>5, SendQuieter

\* Only text and Key Immediate make the keyer key, and only in host mode.
LEMMA WrittenQuieter ==
  ASSUME NEW d \in Device, NEW w \in Written,
         d.open => w # KeyDown /\ w \notin Texts
  PROVE  Quieter(d, Obey(d, w))
<1> USE DEF Quieter
<1>1. d.open \in BOOLEAN
  BY DeviceFields
<1>2. w.do # "read"
  BY DEF Written, Mild, Harmless, Settings, Texts, Clear, KeyUp, KeyDown, HostOpen, StatusRequest,
         HostClose, Admin, SetReg, SetWpm, Text, Completed, Canceled
<1>3. Obey(d, w) = IF d.open THEN ObeyOpen(d, w) ELSE ObeyClosed(d, w)
  BY <1>2 DEF Obey
<1>4. CASE d.open
  <2>1. CASE w = Clear
    <3>0. PICK t \in Seq(Piece) : t = <<>>
      <4>1. <<>> \in Seq(Piece)
        OBVIOUS
      <4> QED
        BY <4>1, Zenon
    <3>1. PICK e : e = [d EXCEPT !.text = t]
      OBVIOUS
    <3>2. e \in Device /\ e.text = t /\ e.key = d.key
      BY <3>1 DEF Device
    <3>3. Obey(d, w) = Told(e)
      BY <1>3, <1>4, <2>1, <3>0, <3>1 DEF ObeyOpen, Clear
    <3> QED
      BY <3>0, <3>2, <3>3, ToldQuieter
  <2>2. CASE w = KeyUp
    <3>1. PICK e : e = [d EXCEPT !.key = FALSE]
      OBVIOUS
    <3>2. e \in Device /\ e.text = d.text /\ e.key = FALSE
      BY <3>1 DEF Device
    <3>3. Obey(d, w) = Told(e)
      BY <1>3, <1>4, <2>2, <3>1 DEF ObeyOpen, KeyUp
    <3> QED
      BY <3>2, <3>3, ToldQuieter
  <2>3. CASE w = HostOpen
    <3>1. PICK e : e = [d EXCEPT !.said = "nothing"]
      OBVIOUS
    <3>2. e \in Device /\ e.text = d.text /\ e.key = d.key
      BY <3>1 DEF Device
    <3>3. Obey(d, w) = Send(e, "revision")
      BY <1>3, <1>4, <2>3, <3>1 DEF ObeyOpen, HostOpen
    <3> QED
      BY <3>2, <3>3, SendQuieter
  <2>4. CASE w = HostClose
    <3>1. Obey(d, w) = [d EXCEPT !.open = FALSE]
      BY <1>3, <1>4, <2>4 DEF ObeyOpen, HostClose
    <3> QED
      BY <3>1 DEF Device
  <2>5. CASE w = StatusRequest
    <3>1. Obey(d, w) = [d EXCEPT !.said = "nothing"]
      BY <1>3, <1>4, <2>5 DEF ObeyOpen, StatusRequest
    <3> QED
      BY <3>1 DEF Device
  <2>6. CASE w = Admin \/ \E j \in JobIds : w = Completed(j) \/ w = Canceled(j)
    <3>1. w.do \in {"admin", "completed", "canceled"}
      BY <2>6 DEF Admin, Completed, Canceled
    <3>2. Obey(d, w) = d
      BY <1>3, <1>4, <3>1 DEF ObeyOpen
    <3> QED
      BY <3>2
  <2>7. CASE w \in Settings
    <3>1. ASSUME NEW r \in Regs, NEW v \in Vals \cup {Unset}, w = SetReg(r, v) PROVE Quieter(d, Obey(d, w))
      <4>1. Obey(d, w) = [d EXCEPT !.regs[r] = v]
        BY <1>3, <1>4, <3>1 DEF ObeyOpen, SetReg
      <4> QED
        BY <4>1 DEF Device
    <3>2. ASSUME NEW x \in Speeds, w = SetWpm(x) PROVE Quieter(d, Obey(d, w))
      <4>1. Obey(d, w) = [d EXCEPT !.speed = x]
        BY <1>3, <1>4, <3>2 DEF ObeyOpen, SetWpm
      <4> QED
        BY <4>1 DEF Device
    <3> QED
      BY <2>7, <3>1, <3>2 DEF Settings
  <2> QED
    BY <1>4, <2>1, <2>2, <2>3, <2>4, <2>5, <2>6, <2>7 DEF Written, Mild, Harmless
<1>5. CASE ~d.open
  <2>1. CASE w.do = "hostOpen"
    <3>1. PICK e : e = [d EXCEPT !.open = TRUE, !.said = "nothing"]
      OBVIOUS
    <3>2. e \in Device /\ e.text = d.text /\ e.key = d.key
      BY <3>1 DEF Device
    <3>3. Obey(d, w) = Send(e, "revision")
      BY <1>3, <1>5, <2>1, <3>1 DEF ObeyClosed
    <3> QED
      BY <3>2, <3>3, SendQuieter
  <2>2. CASE w.do = "admin"
    <3>1. PICK x : x = [r \in Regs |-> Unset]
      OBVIOUS
    <3>2. PICK e : e = [d EXCEPT !.regs = x]
      OBVIOUS
    <3>3. e \in Device /\ e.text = d.text /\ e.key = d.key
      BY <3>1, <3>2 DEF Device
    <3>4. Obey(d, w) = Send(e, "reply")
      BY <1>3, <1>5, <2>2, <3>1, <3>2 DEF ObeyClosed
    <3> QED
      BY <3>3, <3>4, SendQuieter
  <2>3. CASE ~(w.do = "hostOpen" \/ w.do = "admin")
    BY <1>3, <1>5, <2>3 DEF ObeyClosed
  <2> QED
    BY <2>1, <2>2, <2>3
<1> QED
  BY <1>4, <1>5

\* Clear and key-up silence a keyer in host mode.
LEMMA Silenced ==
  ASSUME NEW d \in Device, d.open
  PROVE  Obey(d, Clear).text = <<>> /\ ~Obey(d, KeyUp).key
<1>0. PICK t \in Seq(Piece) : t = <<>>
  <2>1. <<>> \in Seq(Piece)
    OBVIOUS
  <2> QED
    BY <2>1, Zenon
<1>1. PICK e : e = [d EXCEPT !.text = t]
  OBVIOUS
<1>2. e \in Device /\ e.text = t
  BY <1>1 DEF Device
<1>3. Obey(d, Clear) = Told(e)
  BY <1>0, <1>1 DEF Obey, ObeyOpen, Clear
<1>4. PICK f : f = [d EXCEPT !.key = FALSE]
  OBVIOUS
<1>5. f \in Device /\ f.key = FALSE
  BY <1>4 DEF Device
<1>6. Obey(d, KeyUp) = Told(f)
  BY <1>4 DEF Obey, ObeyOpen, KeyUp
<1> QED
  BY <1>0, <1>2, <1>3, <1>5, <1>6, ToldQuieter

\* A byte that is read changes nothing of that either.
LEMMA ReadQuieter ==
  ASSUME NEW d \in Device
  PROVE  LET e == Obey(d, ByteRead) IN e.text = d.text /\ e.key = d.key /\ e.open = d.open
<1>1. PICK u : u = Tail(d.up)
  OBVIOUS
<1>2. Obey(d, ByteRead) = [d EXCEPT !.up = u]
  BY <1>1 DEF Obey, ByteRead
<1> QED
  BY <1>2 DEF Device

\* What is written in a session leaves a keyer silent out of host mode.
LEMMA ShutPerformed ==
  ASSUME dev \in Device, NEW acts, Leads(acts, Mild), Perform(acts)
  PROVE  Shut(dev) => Shut(dev')
<1> SUFFICES ASSUME Shut(dev) PROVE Shut(dev')
  OBVIOUS
<1> DEFINE D == {d \in Device : Shut(d)}
<1>1. dev \in D
  OBVIOUS
<1>2. ASSUME NEW e \in D, NEW w \in Mild PROVE Obey(e, w) \in D
  <2>1. Obey(e, w) \in Device /\ (e.open => Obey(e, w).open)
    BY MildObeyed
  <2>2. CASE e.open
    BY <2>1, <2>2 DEF Shut
  <2>3. CASE ~e.open
    <3>1. Quieter(e, Obey(e, w))
      BY <2>3, NoRead, WrittenQuieter
    <3> QED
      BY <2>1, <2>3, <3>1 DEF Shut, Silent, Quieter
  <2> QED
    BY <2>2, <2>3
<1>3. ASSUME NEW e \in D, e.up # <<>> PROVE Obey(e, ByteRead) \in D
  BY <1>3, ReadObeyed, ReadQuieter DEF Shut, Silent
<1> HIDE DEF D
<1>4. dev' \in D
  BY <1>1, <1>2, <1>3, PerformKeep
<1> QED
  BY <1>4 DEF D

\* A silent keyer stays silent without text and Key Immediate.
Still == Written \ (Texts \cup {KeyDown})

LEMMA StillPerformed ==
  ASSUME dev \in Device, NEW acts, Leads(acts, Still), Perform(acts)
  PROVE  Silent(dev) => Silent(dev')
<1> SUFFICES ASSUME Silent(dev) PROVE Silent(dev')
  OBVIOUS
<1> DEFINE D == {d \in Device : Silent(d)}
<1>1. dev \in D
  OBVIOUS
<1>2. ASSUME NEW e \in D, NEW w \in Still PROVE Obey(e, w) \in D
  <2>1. w \in Written /\ w # KeyDown /\ w \notin Texts
    BY DEF Still
  <2>2. Obey(e, w) \in Device
    BY <2>1, WrittenTyped
  <2>3. Quieter(e, Obey(e, w))
    BY <2>1, WrittenQuieter
  <2> QED
    BY <2>2, <2>3 DEF Silent, Quieter
<1>3. ASSUME NEW e \in D, e.up # <<>> PROVE Obey(e, ByteRead) \in D
  BY <1>3, ReadObeyed, ReadQuieter DEF Silent
<1> HIDE DEF D
<1>4. dev' \in D
  BY <1>1, <1>2, <1>3, PerformKeep
<1> QED
  BY <1>4 DEF D

\* A session that goes on keeps the keyer in host mode, and silent out of it.
OpenKept ==
  link' = "up" =>
    link = "up" /\ (dev.open => dev'.open) /\ (Shut(dev) => Shut(dev'))

\* It keeps the keyer in host mode unless Host Close is among the writes.
LEMMA OpenPerformed ==
  ASSUME dev \in Device, NEW acts, Leads(acts, Mild), Perform(acts)
  PROVE  dev.open => dev'.open
<1> SUFFICES ASSUME dev.open PROVE dev'.open
  OBVIOUS
<1> DEFINE D == {d \in Device : d.open}
<1>1. dev \in D
  OBVIOUS
<1>2. \A e \in D, w \in Mild : Obey(e, w) \in D
  BY MildObeyed
<1>3. \A e \in D : e.up # <<>> => Obey(e, ByteRead) \in D
  BY ReadObeyed DEF Kept4
<1> HIDE DEF D
<1>4. dev' \in D
  BY <1>1, <1>2, <1>3, PerformKeep
<1> QED
  BY <1>4 DEF D

\* A session may lose the transport at any write.
LEMMA PerformOn ==
  ASSUME TypesInv, NEW acts, Leads(acts, Mild), Perform(acts)
  PROVE  Performed /\ link' \in {link, "failed"} /\ OpenKept
<1>1. Leads(acts, Written)
  <2>1. acts \in Seq(Mild \cup {ByteRead}) /\ Mild \cup {ByteRead} \subseteq Written \cup {ByteRead}
    BY NoRead DEF Leads
  <2>2. acts \in Seq(Written \cup {ByteRead})
    BY <2>1, SeqWider
  <2>3. \A i \in 2 .. Len(acts) : acts[i] \in Written
    BY NoRead DEF Leads
  <2> QED
    BY <2>2, <2>3 DEF Leads
<1>2. Performed /\ link' \in {link, "failed"}
  BY <1>1, PerformTyped
<1>3. OpenKept
  BY <1>2, OpenPerformed, ShutPerformed DEF TypesInv, OpenKept
<1> QED
  BY <1>2, <1>3

\* What is begun by starting a job.
StartWrites(q, seen, before) ==
  LET job == Head(q) IN
  before \o (IF seen = job.client THEN <<>> ELSE Replay(job.client))
         \o (IF job.speed = "own" THEN <<>> ELSE <<SetWpm(job.speed)>>)
         \o <<Text(job.id, job.client), StatusRequest>>

\* What a job and a running job are made of.
LEMMA JobFields ==
  ASSUME NEW job \in Job
  PROVE  /\ job.id \in JobIds /\ job.client \in Clients /\ job.speed \in Speeds \cup {"own"}
         /\ job.stream \in BOOLEAN /\ job.size \in 1 .. MaxSize
BY DEF Job

\* What the start of a job writes: settings, the job's text and a status request.
LEMMA StartLeadsIn ==
  ASSUME ProfilesOK, NEW q \in Seq(Job), q # <<>>, NEW seen, NEW before,
         NEW W, ByteRead \notin W, Settings \subseteq W, StatusRequest \in W,
         Text(Head(q).id, Head(q).client) \in W, Leads(before, W)
  PROVE  Leads(StartWrites(q, seen, before), W)
<1>1. PICK job \in Job : job = Head(q)
  OBVIOUS
<1>3. PICK a \in Seq(W) : a = IF seen = job.client THEN <<>> ELSE Replay(job.client)
  <2>1. Replay(job.client) \in Seq(Settings)
    BY JobFields, ReplayTyped
  <2>2. Replay(job.client) \in Seq(W)
    BY <2>1, SeqWider
  <2>3. <<>> \in Seq(W)
    OBVIOUS
  <2> QED
    BY <2>2, <2>3
<1>4. PICK b \in Seq(W) : b = IF job.speed = "own" THEN <<>> ELSE <<SetWpm(job.speed)>>
  <2>1. job.speed # "own" => <<SetWpm(job.speed)>> \in Seq(Settings)
    BY JobFields, SpeedTyped
  <2>2. job.speed # "own" => <<SetWpm(job.speed)>> \in Seq(W)
    BY <2>1, SeqWider
  <2>3. <<>> \in Seq(W)
    OBVIOUS
  <2> QED
    BY <2>2, <2>3
<1>5. PICK t \in Seq(W) : t = <<Text(job.id, job.client), StatusRequest>>
  <2>1. PICK w \in W : w = Text(job.id, job.client)
    BY <1>1
  <2>2. PICK z \in W : z = StatusRequest
    OBVIOUS
  <2>3. <<w, z>> \in Seq(W)
    OBVIOUS
  <2> QED
    BY <2>1, <2>2, <2>3
<1>6. Leads(before \o a, W)
  BY LeadsOn
<1>7. Leads((before \o a) \o b, W)
  BY <1>6, LeadsOn
<1>8. Leads(((before \o a) \o b) \o t, W)
  BY <1>7, LeadsOn
<1> QED
  BY <1>1, <1>3, <1>4, <1>5, <1>8 DEF StartWrites

\* A job's text and its status request do not leave host mode.
LEMMA MildTexts ==
  ASSUME NEW j \in JobIds, NEW c \in Clients
  PROVE  Text(j, c) \in Mild /\ StatusRequest \in Mild /\ <<Text(j, c)>> \in Seq(Mild)
<1>1. Text(j, c) \in Mild /\ StatusRequest \in Mild
  BY DEF Mild, Texts, Harmless
<1> QED
  BY <1>1

\* Nor do its settings.
LEMMA StartLeads ==
  ASSUME ProfilesOK, NEW q \in Seq(Job), q # <<>>, NEW seen, NEW before, Leads(before, Mild)
  PROVE  Leads(StartWrites(q, seen, before), Mild)
<1>1. Settings \subseteq Mild /\ ByteRead \notin Mild
  BY NoRead DEF Mild
<1>2. PICK job \in Job : job = Head(q)
  OBVIOUS
<1>3. Text(job.id, job.client) \in Mild /\ StatusRequest \in Mild
  BY JobFields, MildTexts
<1> QED
  BY <1>1, <1>2, <1>3, StartLeadsIn

\* What is begun by starting the next job, or none.
NextWrites(registered, q, seen, before) ==
  IF q # <<>> THEN StartWrites(q, seen, before)
  ELSE before \o RestoreWrites(Foreground(registered), seen)

\* What a restore writes: settings.
LEMMA RestoreLeadsIn ==
  ASSUME ProfilesOK, NEW registered \in SUBSET Clients, NEW seen, NEW before,
         NEW W, ByteRead \notin W, Settings \subseteq W, Leads(before, W)
  PROVE  Leads(before \o RestoreWrites(Foreground(registered), seen), W)
<1>1. Foreground(registered) \in Clients \cup {NoClient}
  BY ForegroundTyped
<1>2. RestoreWrites(Foreground(registered), seen) \in Seq(Settings)
  BY <1>1, RestoreTyped
<1>3. RestoreWrites(Foreground(registered), seen) \in Seq(W)
  BY <1>2, SeqWider
<1> QED
  BY <1>3, LeadsOn

\* They do not leave host mode.
LEMMA RestoreLeads ==
  ASSUME ProfilesOK, NEW registered \in SUBSET Clients, NEW seen, NEW before, Leads(before, Mild)
  PROVE  Leads(before \o RestoreWrites(Foreground(registered), seen), Mild)
<1>1. Settings \subseteq Mild /\ ByteRead \notin Mild
  BY NoRead DEF Mild
<1> QED
  BY <1>1, RestoreLeadsIn

\* The step itself: what it sends, and what becomes of the job.
Begun(job) == [job |-> job, sawBusy |-> FALSE, observed |-> FALSE]

\* start_next_or_restore starts the oldest job or restores the foreground.
LEMMA NextBegun ==
  ASSUME NEW registered, NEW q, NEW seen, NEW before,
         StartNextOrRestore(registered, q, seen, before)
  PROVE  /\ Perform(NextWrites(registered, q, seen, before))
         /\ queue' = IF q # <<>> THEN Tail(q) ELSE q
         /\ active' = IF q # <<>> THEN Begun(Head(q)) ELSE NoJob
         /\ applied' = IF q # <<>> THEN Head(q).client ELSE Restored(Foreground(registered), seen)
BY DEF StartNextOrRestore, Start, RestoreForeground, NextWrites, StartWrites, Begun

\* A job that starts runs.
LEMMA BegunTyped == ASSUME NEW job \in Job PROVE Begun(job) \in Running
BY DEF Begun, Running

\* The profile taken for applied is a client's, or none.
LEMMA RestoredTyped ==
  ASSUME NEW registered \in SUBSET Clients, NEW seen \in Clients \cup {NoClient}
  PROVE  Restored(Foreground(registered), seen) \in Clients \cup {NoClient}
BY ForegroundTyped DEF Restored

\* start_next_or_restore keeps the types, whatever was done before.
LEMMA NextTyped ==
  ASSUME TypesInv, NEW registered \in SUBSET Clients, NEW q \in Seq(Job),
         NEW seen \in Clients \cup {NoClient}, NEW before, Leads(before, Mild),
         StartNextOrRestore(registered, q, seen, before)
  PROVE  /\ Performed /\ link' \in {link, "failed"} /\ OpenKept
         /\ queue' \in Seq(Job) /\ (q # <<>> => Len(queue') = Len(q) - 1) /\ (q = <<>> => queue' = <<>>)
         /\ active' \in Running \cup {NoJob}
         /\ applied' \in Clients \cup {NoClient}
<1>1. /\ Perform(NextWrites(registered, q, seen, before))
      /\ queue' = IF q # <<>> THEN Tail(q) ELSE q
      /\ active' = IF q # <<>> THEN Begun(Head(q)) ELSE NoJob
      /\ applied' = IF q # <<>> THEN Head(q).client ELSE Restored(Foreground(registered), seen)
  BY NextBegun
<1>2. ProfilesOK
  BY DEF TypesInv, KeyerTypeOK, ProfilesOK
<1>3. Leads(NextWrites(registered, q, seen, before), Mild)
  BY <1>2, StartLeads, RestoreLeads DEF NextWrites
<1>4. Performed /\ link' \in {link, "failed"} /\ OpenKept
  BY <1>1, <1>3, PerformOn
<1>5. CASE q # <<>>
  <2>1. Head(q) \in Job /\ Tail(q) \in Seq(Job) /\ Len(Tail(q)) = Len(q) - 1
    BY <1>5, HeadTailProperties
  <2>2. Begun(Head(q)) \in Running /\ Head(q).client \in Clients
    BY <2>1, BegunTyped, JobFields
  <2> QED
    BY <1>1, <1>4, <1>5, <2>1, <2>2
<1>6. CASE q = <<>>
  BY <1>1, <1>4, <1>6, RestoredTyped
<1> QED
  BY <1>5, <1>6

\* The parts of the type invariant, for a step that leaves most of them alone.
BrokerTypes ==
  /\ clients \subseteq Clients /\ gone \subseteq Clients
  /\ desired \in [Clients -> Speeds]
  /\ profile \in [Clients -> [Regs -> Vals \cup {Unset}]]
  /\ nextJob \in 1 .. MaxJobs + 1
  /\ status \in Statuses
JobTypes ==
  /\ applied \in Clients \cup {NoClient}
  /\ queue \in Seq(Job) /\ Len(queue) <= MaxQueue
  /\ active \in Running \cup {NoJob}
StationTypes ==
  /\ link \in {"up", "failed", "down", "off"}
  /\ maint \in Clients \cup {NoClient}
  /\ reopening \in BOOLEAN
  /\ lease \in {"nobody", "keyer", "cat"}
  /\ strayed \in BOOLEAN /\ expired \in BOOLEAN

\* The types, in parts.
LEMMA TypesParts ==
  TypesInv <=> /\ BrokerTypes /\ JobTypes /\ StationTypes
               /\ dev \in Device /\ told \in [JobIds -> 0 .. 2] /\ untold \subseteq JobIds
BY DEF TypesInv, KeyerTypeOK, BrokerTypes, JobTypes, StationTypes

\* The same after a step.
LEMMA TypesPartsThen ==
  ASSUME BrokerTypes', JobTypes', StationTypes', Performed
  PROVE  TypesInv'
BY DEF TypesInv, KeyerTypeOK, BrokerTypes, JobTypes, StationTypes, Performed

\* The lease, as each step leaves it.
LEMMA LeaseTyped ==
  ASSUME NEW owner \in {"nobody", "keyer", "cat"}
  PROVE  /\ Settled(owner) \in {"nobody", "keyer", "cat"}
         /\ Leased(owner) \in {"nobody", "keyer", "cat"}
BY DEF Settled, Leased

\* The cancellations of jobs are events.
LEMMA CancelsTyped ==
  ASSUME NEW s \in Seq(Job)
  PROVE  /\ Cancels(s) \in Seq(Harmless)
         /\ Len(Cancels(s)) = Len(s)
         /\ \A i \in 1 .. Len(s) : Cancels(s)[i] = Canceled(s[i].id)
<1>1. DOMAIN s = 1 .. Len(s) /\ Len(s) \in Nat /\ \A i \in 1 .. Len(s) : s[i] \in Job
  OBVIOUS
<1>2. PICK c : c = Cancels(s)
  OBVIOUS
<1>3. c = [i \in 1 .. Len(s) |-> Canceled(s[i].id)]
  BY <1>1, <1>2 DEF Cancels
<1>4. \A i \in 1 .. Len(s) : Canceled(s[i].id) \in Harmless
  BY <1>1, JobFields DEF Harmless
<1>5. c \in Seq(Harmless) /\ Len(c) = Len(s)
  BY <1>1, <1>3, <1>4
<1> QED
  BY <1>2, <1>3, <1>5

\* Writes that set nothing up do not leave host mode.
LEMMA HarmlessMild ==
  ASSUME NEW s \in Seq(Harmless)
  PROVE  s \in Seq(Mild)
<1>1. Harmless \subseteq Mild
  BY DEF Mild
<1> QED
  BY <1>1, SeqWider

\* Jobs taken from the queue are jobs, and no more than there were.
LEMMA SelectedTyped ==
  ASSUME NEW s \in Seq(Job), NEW S
  PROVE  Selection(s, S) \in Seq(Job) /\ Len(Selection(s, S)) <= Len(s) /\ Len(Selection(s, S)) \in Nat
<1>1. PICK t \in Seq(Job \cap S) : t = Selection(s, S) /\ Len(t) <= Len(s)
  BY SelectionTyped
<1>2. t \in Seq(Job)
  BY SeqWider
<1> QED
  BY <1>1, <1>2

\* Requests that write a short list.
LEMMA ShortLists ==
  /\ <<>> \in Seq(Mild) /\ <<HostOpen>> \in Seq(Mild) /\ <<StatusRequest>> \in Seq(Mild)
  /\ <<KeyDown>> \in Seq(Mild) /\ <<KeyUp>> \in Seq(Mild) /\ <<Clear>> \in Seq(Harmless)
  /\ <<HostOpen>> \in Seq(Harmless) /\ <<>> \in Seq(Harmless) /\ <<Clear, KeyUp>> \in Seq(Harmless)
  /\ \A s \in Speeds : <<SetWpm(s)>> \in Seq(Mild)
  /\ \A r \in Regs, v \in Vals : <<SetReg(r, v)>> \in Seq(Mild)
  /\ \A j \in JobIds : <<Canceled(j)>> \in Seq(Harmless) /\ <<Completed(j)>> \in Seq(Harmless)
                       /\ <<Clear, Canceled(j)>> \in Seq(Harmless)
<1> USE DEF Mild, Harmless, Settings
<1>1. /\ HostOpen \in Mild /\ StatusRequest \in Mild /\ KeyDown \in Mild /\ KeyUp \in Mild
      /\ Clear \in Harmless /\ HostOpen \in Harmless /\ KeyUp \in Harmless
  OBVIOUS
<1>2. \A s \in Speeds : SetWpm(s) \in Mild
  OBVIOUS
<1>3. \A r \in Regs, v \in Vals : SetReg(r, v) \in Mild
  OBVIOUS
<1>4. \A j \in JobIds : Canceled(j) \in Harmless /\ Completed(j) \in Harmless
  OBVIOUS
<1> QED
  BY <1>1, <1>2, <1>3, <1>4

\* A step that performs a list of its own and leaves the jobs to it.
LEMMA PlainTyped ==
  ASSUME TypesInv, NEW acts \in Seq(Mild), Perform(acts)
  PROVE  Performed /\ link' \in {link, "failed"} /\ OpenKept
BY NoRead, LeadsAll, PerformOn

\* Requests, one by one.
LEMMA RegisterTyped ==
  ASSUME TypesInv, NEW c \in Clients, Register(c)
  PROVE  TypesInv' /\ OpenKept
<1>1. BrokerTypes /\ JobTypes /\ StationTypes
  BY TypesParts
<1>2. Performed /\ link' \in {link, "failed"} /\ OpenKept
  BY ShortLists, PlainTyped DEF Register
<1>3. BrokerTypes'
  <2>1. "pot" \in Speeds
    BY KeyerAssumption
  <2> QED
    BY <1>1, <2>1 DEF Register, BrokerTypes
<1>4. JobTypes'
  BY <1>1 DEF Register, JobTypes
<1>5. StationTypes'
  BY <1>1, <1>2, LeaseTyped DEF Register, Release, StationTypes
<1> QED
  BY <1>2, <1>3, <1>4, <1>5, TypesPartsThen

\* What an unregistering client leaves, and what is written of it first.
LeftOf(c) == Selection(queue, Job \ JobsOf(c))
TakenOf(c) == Cancels(Selection(queue, JobsOf(c)))
UnregisterWrites(c) == (IF maint = c THEN <<HostOpen>> ELSE <<>>) \o TakenOf(c)

\* What an unregister or a cancel takes from the queue, and leaves.
LEMMA TakenTyped ==
  ASSUME queue \in Seq(Job), NEW c
  PROVE  /\ LeftOf(c) \in Seq(Job) /\ Len(LeftOf(c)) <= Len(queue)
         /\ TakenOf(c) \in Seq(Harmless)
         /\ UnregisterWrites(c) \in Seq(Harmless)
<1>1. LeftOf(c) \in Seq(Job) /\ Len(LeftOf(c)) <= Len(queue)
  BY SelectedTyped DEF LeftOf
<1>2. TakenOf(c) \in Seq(Harmless)
  BY SelectedTyped, CancelsTyped DEF TakenOf
<1>3. PICK a \in Seq(Harmless) : a = IF maint = c THEN <<HostOpen>> ELSE <<>>
  BY ShortLists
<1>4. a \o TakenOf(c) \in Seq(Harmless)
  BY <1>2, ConcatProperties
<1> QED
  BY <1>1, <1>2, <1>3, <1>4 DEF UnregisterWrites

\* What the client whose job runs has written then.
EndedWrites(before, j) == before \o <<Clear, Canceled(j)>>

\* What ends the running job.
LEMMA EndedTyped ==
  ASSUME NEW before \in Seq(Harmless), NEW j \in JobIds
  PROVE  EndedWrites(before, j) \in Seq(Harmless)
BY ShortLists, ConcatProperties DEF EndedWrites

\* The running job is a job.
LEMMA RunningFields ==
  ASSUME NEW run \in Running
  PROVE  run.job \in Job /\ run.job.id \in JobIds /\ run.job.client \in Clients
BY JobFields DEF Running

\* The end of an endpoint session keeps the types.
LEMMA UnregisterTyped ==
  ASSUME TypesInv, NEW c \in Clients, Unregister(c)
  PROVE  TypesInv' /\ OpenKept
<1>1. BrokerTypes /\ JobTypes /\ StationTypes
  BY TypesParts
<1>2. PICK seen \in Clients \cup {NoClient} : seen = IF applied = c THEN NoClient ELSE applied
  BY <1>1 DEF JobTypes
<1>3. UnregisterWrites(c) \in Seq(Harmless) /\ LeftOf(c) \in Seq(Job) /\ Len(LeftOf(c)) <= Len(queue)
  BY <1>1, TakenTyped DEF JobTypes
<1>4. /\ Performed /\ link' \in {link, "failed"} /\ OpenKept
      /\ JobTypes'
  <2>1. CASE Owns(c)
    <3>1. StartNextOrRestore(clients', LeftOf(c), seen, EndedWrites(UnregisterWrites(c), active.job.id))
      BY <1>2, <2>1 DEF Unregister, LeftOf, UnregisterWrites, TakenOf, EndedWrites
    <3>2. active.job.id \in JobIds
      BY <1>1, <2>1, RunningFields DEF JobTypes, Owns
    <3>3. EndedWrites(UnregisterWrites(c), active.job.id) \in Seq(Mild)
      BY <1>3, <3>2, EndedTyped, HarmlessMild
    <3>4. Leads(EndedWrites(UnregisterWrites(c), active.job.id), Mild)
      BY <3>3, NoRead, LeadsAll
    <3>5. clients' \in SUBSET Clients
      BY <1>1 DEF BrokerTypes, Unregister
    <3>6. /\ Performed /\ link' \in {link, "failed"} /\ OpenKept
          /\ queue' \in Seq(Job)
          /\ (LeftOf(c) # <<>> => Len(queue') = Len(LeftOf(c)) - 1) /\ (LeftOf(c) = <<>> => queue' = <<>>)
          /\ active' \in Running \cup {NoJob}
          /\ applied' \in Clients \cup {NoClient}
      BY <1>3, <3>1, <3>4, <3>5, NextTyped
    <3>7. Len(queue') <= MaxQueue
      BY <1>1, <1>3, <3>6, KeyerAssumption DEF JobTypes
    <3> QED
      BY <3>6, <3>7 DEF JobTypes
  <2>2. CASE ~Owns(c)
    <3>1. /\ queue' = LeftOf(c) /\ applied' = seen /\ active' = active
          /\ Perform(UnregisterWrites(c))
      BY <1>2, <2>2 DEF Unregister, LeftOf, UnregisterWrites, TakenOf
    <3>2. Performed /\ link' \in {link, "failed"} /\ OpenKept
      BY <1>3, <3>1, HarmlessMild, PlainTyped
    <3>3. JobTypes'
      <4>1. Len(LeftOf(c)) <= MaxQueue
        BY <1>1, <1>3, KeyerAssumption DEF JobTypes
      <4> QED
        BY <1>1, <1>3, <3>1, <4>1 DEF JobTypes
    <3> QED
      BY <3>2, <3>3
  <2> QED
    BY <2>1, <2>2
<1>5. BrokerTypes'
  BY <1>1 DEF Unregister, BrokerTypes
<1>6. StationTypes'
  BY <1>1, <1>4, LeaseTyped DEF Unregister, Release, StationTypes
<1> QED
  BY <1>4, <1>5, <1>6, TypesPartsThen

\* So does a speed, ...
LEMMA SetSpeedTyped ==
  ASSUME TypesInv, NEW c \in Clients, NEW s \in Speeds, SetSpeed(c, s)
  PROVE  TypesInv' /\ OpenKept
<1>1. BrokerTypes /\ JobTypes /\ StationTypes
  BY TypesParts
<1>2. PICK acts \in Seq(Mild) : acts = IF AtOnce(c) THEN <<SetWpm(s)>> ELSE <<>>
  BY ShortLists
<1>3. Performed /\ link' \in {link, "failed"} /\ OpenKept
  BY <1>2, PlainTyped DEF SetSpeed
<1>4. BrokerTypes'
  BY <1>1 DEF SetSpeed, BrokerTypes
<1>5. JobTypes'
  BY <1>1 DEF SetSpeed, JobTypes
<1>6. StationTypes'
  BY <1>1, <1>3, LeaseTyped DEF SetSpeed, Release, StationTypes
<1> QED
  BY <1>3, <1>4, <1>5, <1>6, TypesPartsThen

\* ... a register, ...
LEMMA ConfigureTyped ==
  ASSUME TypesInv, NEW c \in Clients, NEW r \in Regs, NEW v \in Vals, Configure(c, r, v)
  PROVE  TypesInv' /\ OpenKept
<1>1. BrokerTypes /\ JobTypes /\ StationTypes
  BY TypesParts
<1>2. PICK acts \in Seq(Mild) : acts = IF AtOnce(c) THEN <<SetReg(r, v)>> ELSE <<>>
  BY ShortLists
<1>3. Performed /\ link' \in {link, "failed"} /\ OpenKept
  BY <1>2, PlainTyped DEF Configure
<1>4. BrokerTypes'
  BY <1>1 DEF Configure, BrokerTypes
<1>5. JobTypes'
  BY <1>1 DEF Configure, JobTypes
<1>6. StationTypes'
  BY <1>1, <1>3, LeaseTyped DEF Configure, Release, StationTypes
<1> QED
  BY <1>3, <1>4, <1>5, <1>6, TypesPartsThen

\* ... Key Immediate, ...
LEMMA KeyImmediateTyped ==
  ASSUME TypesInv, NEW c \in Clients, NEW w \in {KeyDown, KeyUp}, KeyImmediate(c, w)
  PROVE  TypesInv' /\ OpenKept
<1>1. BrokerTypes /\ JobTypes /\ StationTypes
  BY TypesParts
<1>2. Performed /\ link' \in {link, "failed"} /\ OpenKept
  BY ShortLists, PlainTyped DEF KeyImmediate
<1>3. BrokerTypes' /\ JobTypes'
  BY <1>1 DEF KeyImmediate, BrokerTypes, JobTypes, coreVars, clientVars
<1>4. StationTypes'
  BY <1>1, <1>2, LeaseTyped DEF KeyImmediate, Release, StationTypes
<1> QED
  BY <1>2, <1>3, <1>4, TypesPartsThen

\* A job that grows by a piece is a job.
LEMMA GrownTyped ==
  ASSUME NEW job \in Job, job.size < MaxSize
  PROVE  [job EXCEPT !.size = @ + 1] \in Job
<1>1. job.size + 1 \in 1 .. MaxSize
  BY JobFields, KeyerAssumption
<1> QED
  BY <1>1 DEF Job

\* ... a stream that goes on, running ...
LEMMA StreamOnTyped ==
  ASSUME TypesInv, NEW c \in Clients, StreamOn(c)
  PROVE  TypesInv' /\ OpenKept
<1>1. BrokerTypes /\ JobTypes /\ StationTypes
  BY TypesParts
<1>2. PICK run \in Running : run = active
  BY <1>1 DEF StreamOn, JobTypes
<1>3. Performed /\ link' \in {link, "failed"} /\ OpenKept
  <2>1. <<Text(active.job.id, c)>> \in Seq(Mild)
    BY <1>2, RunningFields, MildTexts
  <2> QED
    BY <2>1, PlainTyped DEF StreamOn
<1>4. active' \in Running
  <2>1. run.job.size < MaxSize /\ active' = [run EXCEPT !.job.size = @ + 1]
    BY <1>2 DEF StreamOn
  <2>2. PICK job \in Job : job = [run.job EXCEPT !.size = @ + 1]
    BY <2>1, RunningFields, GrownTyped
  <2>3. active' = [run EXCEPT !.job = job]
    BY <2>1, <2>2
  <2> QED
    BY <2>3 DEF Running
<1>5. BrokerTypes' /\ JobTypes'
  BY <1>1, <1>4 DEF StreamOn, BrokerTypes, JobTypes, clientVars
<1>6. StationTypes'
  BY <1>1, <1>3, LeaseTyped DEF StreamOn, Release, StationTypes
<1> QED
  BY <1>3, <1>5, <1>6, TypesPartsThen

\* ... or queued.
LEMMA StreamQueuedTyped ==
  ASSUME TypesInv, NEW c \in Clients, StreamQueued(c)
  PROVE  TypesInv' /\ OpenKept
<1>1. BrokerTypes /\ JobTypes /\ StationTypes
  BY TypesParts
<1>2. Performed /\ link' \in {link, "failed"} /\ OpenKept
  BY ShortLists, PlainTyped DEF StreamQueued
<1>3. queue' \in Seq(Job) /\ Len(queue') = Len(queue)
  <2>1. PICK q \in Seq(Job) : q = queue /\ q # <<>>
    BY <1>1 DEF JobTypes, StreamQueued
  <2>2. Len(q) \in 1 .. Len(q) /\ q[Len(q)] \in Job
    BY <2>1
  <2>3. PICK job \in Job : job = [q[Len(q)] EXCEPT !.size = @ + 1]
    BY <2>1, <2>2, GrownTyped DEF StreamQueued, Last
  <2>4. queue' = [q EXCEPT ![Len(q)] = job]
    BY <2>1, <2>3 DEF StreamQueued
  <2>5. [q EXCEPT ![Len(q)] = job] \in Seq(Job) /\ Len([q EXCEPT ![Len(q)] = job]) = Len(q)
    BY <2>2, ExceptSeq
  <2> QED
    BY <2>1, <2>4, <2>5
<1>4. BrokerTypes' /\ JobTypes'
  BY <1>1, <1>3 DEF StreamQueued, BrokerTypes, JobTypes, clientVars
<1>5. StationTypes'
  BY <1>1, <1>2, LeaseTyped DEF StreamQueued, Release, StationTypes
<1> QED
  BY <1>2, <1>4, <1>5, TypesPartsThen

NewJob(c, speed, stream) ==
  [id |-> nextJob, client |-> c, speed |-> speed, stream |-> stream, size |-> 1]

\* The job of a request.
LEMMA NewJobTyped ==
  ASSUME nextJob \in 1 .. MaxJobs + 1, nextJob <= MaxJobs,
         NEW c \in Clients, NEW speed \in Speeds \cup {"own"}, NEW stream \in BOOLEAN
  PROVE  NewJob(c, speed, stream) \in Job
<1>1. nextJob \in JobIds /\ 1 \in 1 .. MaxSize
  BY KeyerAssumption DEF JobIds
<1> QED
  BY <1>1 DEF NewJob, Job

\* A new job at the end of the queue.
LEMMA BehindTyped ==
  ASSUME queue \in Seq(Job), NEW job \in Job
  PROVE  Behind(job) \in Seq(Job) /\ Behind(job) # <<>> /\ Len(Behind(job)) = Len(queue) + 1
BY AppendProperties DEF Behind

\* A job admitted keeps the types, ...
LEMMA EnqueueTyped ==
  ASSUME TypesInv, NEW c \in Clients, NEW speed \in Speeds \cup {"own"}, NEW stream \in BOOLEAN,
         Enqueue(c, speed, stream)
  PROVE  TypesInv' /\ OpenKept
<1>1. BrokerTypes /\ JobTypes /\ StationTypes
  BY TypesParts
<1>2. PICK job \in Job : job = NewJob(c, speed, stream)
  BY <1>1, NewJobTyped DEF Enqueue, BrokerTypes
<1>3. PICK q \in Seq(Job) : q = Behind(job) /\ q # <<>> /\ Len(q) = Len(queue) + 1
  BY <1>1, BehindTyped DEF JobTypes
<1>4. Len(queue) \in Nat /\ MaxQueue \in Nat /\ Len(queue) < MaxQueue
  BY <1>1, KeyerAssumption DEF JobTypes, Enqueue, Room
<1>5. Performed /\ link' \in {link, "failed"} /\ OpenKept /\ JobTypes'
  <2>1. CASE active = NoJob
    <3>1. StartNextOrRestore(clients, q, applied, <<>>)
      BY <1>2, <1>3, <2>1 DEF Enqueue, NewJob
    <3>2. Leads(<<>>, Mild)
      BY ShortLists, NoRead, LeadsAll
    <3>3. clients \in SUBSET Clients /\ applied \in Clients \cup {NoClient}
      BY <1>1 DEF BrokerTypes, JobTypes
    <3>4. /\ Performed /\ link' \in {link, "failed"} /\ OpenKept
          /\ queue' \in Seq(Job) /\ (q # <<>> => Len(queue') = Len(q) - 1)
          /\ active' \in Running \cup {NoJob}
          /\ applied' \in Clients \cup {NoClient}
      BY <3>1, <3>2, <3>3, NextTyped
    <3>5. Len(queue') <= MaxQueue
      BY <1>3, <1>4, <3>4
    <3> QED
      BY <3>4, <3>5 DEF JobTypes
  <2>2. CASE active # NoJob
    <3>1. queue' = q /\ active' = active /\ applied' = applied /\ Perform(<<>>)
      BY <1>2, <1>3, <2>2 DEF Enqueue, NewJob
    <3>2. Performed /\ link' \in {link, "failed"} /\ OpenKept
      BY <3>1, ShortLists, PlainTyped
    <3>3. Len(q) <= MaxQueue
      BY <1>3, <1>4
    <3> QED
      BY <1>1, <3>1, <3>2, <3>3 DEF JobTypes
  <2> QED
    BY <2>1, <2>2
<1>6. BrokerTypes'
  <2>1. nextJob' \in 1 .. MaxJobs + 1
    BY <1>1, KeyerAssumption DEF Enqueue, BrokerTypes
  <2> QED
    BY <1>1, <2>1 DEF Enqueue, BrokerTypes, clientVars
<1>7. StationTypes'
  <2>1. lease' \in {"nobody", "keyer", "cat"}
    <3>1. PICK owner \in {"nobody", "keyer", "cat"} : owner = IF active = NoJob THEN Leased(lease) ELSE lease
      BY <1>1, LeaseTyped DEF StationTypes
    <3> QED
      BY <3>1, LeaseTyped DEF Enqueue
  <2> QED
    BY <1>1, <1>5, <2>1 DEF Enqueue, StationTypes
<1> QED
  BY <1>5, <1>6, <1>7, TypesPartsThen

\* A step that leaves the keyer and the account alone.
LEMMA QuietTyped ==
  ASSUME TypesInv, BrokerTypes', JobTypes', StationTypes', UNCHANGED <<dev, told, untold>>
  PROVE  TypesInv'
<1>1. Performed
  BY DEF Performed, TypesInv, KeyerTypeOK
<1> QED
  BY <1>1, TypesPartsThen

\* ... and so does one refused after the lease was taken.
LEMMA EnqueueUnconnectedTyped ==
  ASSUME TypesInv, NEW c \in Clients, EnqueueUnconnected(c)
  PROVE  TypesInv'
<1>1. BrokerTypes /\ JobTypes /\ StationTypes
  BY TypesParts
<1>2. BrokerTypes' /\ JobTypes'
  BY <1>1 DEF EnqueueUnconnected, BrokerTypes, JobTypes, coreVars, clientVars
<1>3. StationTypes' /\ UNCHANGED <<dev, told, untold>>
  BY <1>1, LeaseTyped DEF EnqueueUnconnected, StationTypes, ghostVars
<1> QED
  BY <1>2, <1>3, QuietTyped

\* What a cancel writes.
CancelWrites(c) == <<Clear>> \o TakenOf(c) \o <<Canceled(active.job.id)>>
CancelIdleWrites(c) == (IF AtOnce(c) THEN <<Clear>> ELSE <<>>) \o TakenOf(c)

\* What a cancel writes.
LEMMA CancelWritesTyped ==
  ASSUME queue \in Seq(Job), NEW c
  PROVE  /\ active \in Running => CancelWrites(c) \in Seq(Harmless)
         /\ CancelIdleWrites(c) \in Seq(Harmless)
<1>1. PICK t \in Seq(Harmless) : t = TakenOf(c)
  BY TakenTyped
<1>2. ASSUME active \in Running PROVE CancelWrites(c) \in Seq(Harmless)
  <2>1. PICK e \in Seq(Harmless) : e = <<Canceled(active.job.id)>>
    BY <1>2, RunningFields, ShortLists
  <2>2. PICK a \in Seq(Harmless) : a = <<Clear>>
    BY ShortLists
  <2>3. PICK b \in Seq(Harmless) : b = a \o t
    BY ConcatProperties
  <2>4. b \o e \in Seq(Harmless)
    BY ConcatProperties
  <2> QED
    BY <1>1, <2>1, <2>2, <2>3, <2>4 DEF CancelWrites
<1>3. CancelIdleWrites(c) \in Seq(Harmless)
  <2>1. PICK a \in Seq(Harmless) : a = IF AtOnce(c) THEN <<Clear>> ELSE <<>>
    BY ShortLists
  <2>2. a \o t \in Seq(Harmless)
    BY ConcatProperties
  <2> QED
    BY <1>1, <2>1, <2>2 DEF CancelIdleWrites
<1> QED
  BY <1>2, <1>3

\* The types after the running job has ended and the next one was begun.
LEMMA EndTyped ==
  ASSUME TypesInv, NEW registered \in SUBSET Clients, NEW q \in Seq(Job), Len(q) <= MaxQueue,
         NEW seen \in Clients \cup {NoClient}, NEW before, Leads(before, Mild),
         StartNextOrRestore(registered, q, seen, before)
  PROVE  Performed /\ link' \in {link, "failed"} /\ OpenKept /\ JobTypes'
<1>1. /\ Performed /\ link' \in {link, "failed"} /\ OpenKept
      /\ queue' \in Seq(Job) /\ (q # <<>> => Len(queue') = Len(q) - 1) /\ (q = <<>> => queue' = <<>>)
      /\ active' \in Running \cup {NoJob}
      /\ applied' \in Clients \cup {NoClient}
  BY NextTyped
<1>2. Len(queue') <= MaxQueue
  <2>1. Len(q) \in Nat /\ MaxQueue \in Nat
    BY KeyerAssumption
  <2>2. CASE q = <<>>
    BY <1>1, <2>1, <2>2
  <2>3. CASE q # <<>>
    BY <1>1, <2>1, <2>3
  <2> QED
    BY <2>2, <2>3
<1> QED
  BY <1>1, <1>2 DEF JobTypes

\* A cancel of all jobs of a client keeps the types, ...
LEMMA CancelTyped ==
  ASSUME TypesInv, NEW c \in Clients, Cancel(c)
  PROVE  TypesInv' /\ OpenKept
<1>1. BrokerTypes /\ JobTypes /\ StationTypes
  BY TypesParts
<1>2. queue \in Seq(Job) /\ Len(queue) <= MaxQueue /\ Len(queue) \in Nat /\ MaxQueue \in Nat
  BY <1>1, KeyerAssumption DEF JobTypes
<1>3. LeftOf(c) \in Seq(Job) /\ Len(LeftOf(c)) <= MaxQueue
  <2>1. LeftOf(c) \in Seq(Job) /\ Len(LeftOf(c)) <= Len(queue)
    BY <1>2, TakenTyped
  <2>2. Len(LeftOf(c)) \in Nat
    BY <2>1
  <2> QED
    BY <1>2, <2>1, <2>2
<1>4. Performed /\ link' \in {link, "failed"} /\ OpenKept /\ JobTypes'
  <2>1. CASE Owns(c)
    <3>1. StartNextOrRestore(clients, LeftOf(c), applied, CancelWrites(c))
      BY <2>1 DEF Cancel, LeftOf, TakenOf, CancelWrites
    <3>2. active \in Running
      BY <1>1, <2>1 DEF JobTypes, Owns
    <3>3. Leads(CancelWrites(c), Mild)
      BY <1>2, <3>2, CancelWritesTyped, HarmlessMild, NoRead, LeadsAll
    <3>4. clients \in SUBSET Clients /\ applied \in Clients \cup {NoClient}
      BY <1>1 DEF BrokerTypes, JobTypes
    <3> QED
      BY <1>3, <3>1, <3>3, <3>4, EndTyped
  <2>2. CASE ~Owns(c)
    <3>1. queue' = LeftOf(c) /\ active' = active /\ applied' = applied /\ Perform(CancelIdleWrites(c))
      BY <2>2 DEF Cancel, LeftOf, TakenOf, CancelIdleWrites
    <3>2. Performed /\ link' \in {link, "failed"} /\ OpenKept
      BY <1>2, <3>1, CancelWritesTyped, HarmlessMild, PlainTyped
    <3> QED
      BY <1>1, <1>3, <3>1, <3>2 DEF JobTypes
  <2> QED
    BY <2>1, <2>2
<1>5. BrokerTypes'
  BY <1>1 DEF Cancel, BrokerTypes, clientVars
<1>6. StationTypes'
  BY <1>1, <1>4, LeaseTyped DEF Cancel, Release, StationTypes
<1> QED
  BY <1>4, <1>5, <1>6, TypesPartsThen

Named(c, j) == {job \in JobsOf(c) : job.id = j}

\* ... and so does that of one job.
LEMMA CancelJobTyped ==
  ASSUME TypesInv, NEW c \in Clients, NEW j \in JobIds, CancelJob(c, j)
  PROVE  TypesInv' /\ OpenKept
<1>1. BrokerTypes /\ JobTypes /\ StationTypes
  BY TypesParts
<1>2. queue \in Seq(Job) /\ Len(queue) <= MaxQueue /\ Len(queue) \in Nat /\ MaxQueue \in Nat
  BY <1>1, KeyerAssumption DEF JobTypes
<1>3. Performed /\ link' \in {link, "failed"} /\ OpenKept /\ JobTypes'
  <2>1. CASE active # NoJob /\ active.job \in Named(c, j)
    <3>1. StartNextOrRestore(clients, queue, applied, <<Clear, Canceled(j)>>)
      BY <2>1 DEF CancelJob, Named
    <3>2. Leads(<<Clear, Canceled(j)>>, Mild)
      BY ShortLists, HarmlessMild, NoRead, LeadsAll
    <3>3. clients \in SUBSET Clients /\ applied \in Clients \cup {NoClient}
      BY <1>1 DEF BrokerTypes, JobTypes
    <3> QED
      BY <1>2, <3>1, <3>2, <3>3, EndTyped
  <2>2. CASE ~(active # NoJob /\ active.job \in Named(c, j))
    <3>1. /\ queue' = Selection(queue, Job \ Named(c, j))
          /\ active' = active /\ applied' = applied /\ Perform(Cancels(Selection(queue, Named(c, j))))
      BY <2>2 DEF CancelJob, Named
    <3>2. Performed /\ link' \in {link, "failed"} /\ OpenKept
      BY <1>2, <3>1, SelectedTyped, CancelsTyped, HarmlessMild, PlainTyped
    <3>3. queue' \in Seq(Job) /\ Len(queue') <= Len(queue) /\ Len(queue') \in Nat
      BY <1>2, <3>1, SelectedTyped
    <3>4. Len(queue') <= MaxQueue
      BY <1>2, <3>3
    <3> QED
      BY <1>1, <3>1, <3>2, <3>3, <3>4 DEF JobTypes
  <2> QED
    BY <2>1, <2>2
<1>4. BrokerTypes'
  BY <1>1 DEF CancelJob, BrokerTypes, clientVars
<1>5. StationTypes'
  BY <1>1, <1>3, LeaseTyped DEF CancelJob, Release, StationTypes
<1> QED
  BY <1>3, <1>4, <1>5, TypesPartsThen

\* What is pending, and what an emergency stop writes of it.
LEMMA PendingTyped ==
  ASSUME JobTypes
  PROVE  Pending \in Seq(Job)
<1>1. PICK a \in Seq(Job) : a = IF active = NoJob THEN <<>> ELSE <<active.job>>
  <2>1. active # NoJob => active.job \in Job
    BY RunningFields DEF JobTypes
  <2>2. active # NoJob => <<active.job>> \in Seq(Job)
    BY <2>1
  <2>3. <<>> \in Seq(Job)
    OBVIOUS
  <2> QED
    BY <2>2, <2>3
<1>2. a \o queue \in Seq(Job)
  BY ConcatProperties DEF JobTypes
<1> QED
  BY <1>1, <1>2 DEF Pending

StopWrites == <<Clear, KeyUp>> \o Cancels(Pending)

\* What an emergency stop writes.
LEMMA StopWritesTyped ==
  ASSUME JobTypes
  PROVE  StopWrites \in Seq(Harmless)
<1>1. Cancels(Pending) \in Seq(Harmless)
  BY PendingTyped, CancelsTyped
<1> QED
  BY <1>1, ShortLists, ConcatProperties DEF StopWrites

\* A step that restores the foreground, with no job left.
LEMMA RestoreStep ==
  ASSUME TypesInv, NEW seen \in Clients \cup {NoClient}, NEW before, Leads(before, Mild),
         RestoreForeground(clients, seen, before)
  PROVE  Performed /\ link' \in {link, "failed"} /\ OpenKept /\ applied' \in Clients \cup {NoClient}
<1>1. clients \in SUBSET Clients /\ ProfilesOK
  BY DEF TypesInv, KeyerTypeOK, ProfilesOK
<1>2. Perform(before \o RestoreWrites(Foreground(clients), seen))
  BY DEF RestoreForeground
<1>3. applied' \in Clients \cup {NoClient}
  BY <1>1, RestoredTyped DEF RestoreForeground
<1>4. Leads(before \o RestoreWrites(Foreground(clients), seen), Mild)
  BY <1>1, RestoreLeads
<1> QED
  BY <1>2, <1>3, <1>4, PerformOn

\* emergency_stop keeps the types.
LEMMA EmergencyStopTyped ==
  ASSUME TypesInv, EmergencyStop
  PROVE  Performed /\ link' \in {link, "failed"} /\ OpenKept /\ JobTypes'
<1>1. JobTypes
  BY TypesParts
<1>2. Leads(StopWrites, Mild)
  BY <1>1, StopWritesTyped, HarmlessMild, NoRead, LeadsAll
<1>3. RestoreForeground(clients, applied, StopWrites) /\ queue' = <<>> /\ active' = NoJob
  BY DEF EmergencyStop, StopWrites
<1>4. applied \in Clients \cup {NoClient}
  BY <1>1 DEF JobTypes
<1>5. Performed /\ link' \in {link, "failed"} /\ OpenKept /\ applied' \in Clients \cup {NoClient}
  BY <1>2, <1>3, <1>4, RestoreStep
<1>6. <<>> \in Seq(Job) /\ Len(<<>>) <= MaxQueue
  BY KeyerAssumption
<1> QED
  BY <1>3, <1>5, <1>6 DEF JobTypes

\* So does the request for one.
LEMMA StopTyped ==
  ASSUME TypesInv, Stop
  PROVE  TypesInv' /\ OpenKept
<1>1. BrokerTypes /\ JobTypes /\ StationTypes
  BY TypesParts
<1>2. Performed /\ link' \in {link, "failed"} /\ OpenKept /\ JobTypes'
  BY EmergencyStopTyped DEF Stop
<1>3. BrokerTypes'
  BY <1>1 DEF Stop, BrokerTypes, clientVars
<1>4. StationTypes'
  BY <1>1, <1>2, LeaseTyped DEF Stop, Release, StationTypes
<1> QED
  BY <1>2, <1>3, <1>4, TypesPartsThen

\* Maintenance.
MaintainWrites == (IF maint = NoClient THEN <<Clear, KeyUp, HostClose>> ELSE <<>>) \o <<Admin>>

\* What the maintenance commands write.
LEMMA MaintainWritesTyped == MaintainWrites \in Seq(Quiet)
<1>1. Clear \in Quiet /\ KeyUp \in Quiet /\ HostClose \in Quiet /\ Admin \in Quiet
  BY DEF Quiet, Harmless
<1>2. PICK a \in Seq(Quiet) : a = IF maint = NoClient THEN <<Clear, KeyUp, HostClose>> ELSE <<>>
  <2>1. <<>> \in Seq(Quiet) /\ <<Clear, KeyUp, HostClose>> \in Seq(Quiet)
    BY <1>1
  <2> QED
    BY <2>1
<1>3. <<Admin>> \in Seq(Quiet)
  BY <1>1
<1>4. a \o <<Admin>> \in Seq(Quiet)
  BY <1>3, ConcatProperties
<1> QED
  BY <1>2, <1>4 DEF MaintainWrites

\* Maintenance keeps the types, ...
LEMMA MaintainTyped ==
  ASSUME TypesInv, NEW c \in Clients, Maintain(c)
  PROVE  TypesInv'
<1>1. BrokerTypes /\ JobTypes /\ StationTypes
  BY TypesParts
<1>2. Perform(MaintainWrites)
  BY DEF Maintain, MaintainWrites
<1>3. Performed /\ link' \in {link, "failed"}
  BY <1>2, MaintainWritesTyped, NoRead, LeadsAll, PerformTyped
<1>4. BrokerTypes' /\ JobTypes'
  BY <1>1 DEF Maintain, BrokerTypes, JobTypes, coreVars, clientVars
<1>5. StationTypes'
  BY <1>1, <1>3, LeaseTyped DEF Maintain, Release, StationTypes
<1> QED
  BY <1>3, <1>4, <1>5, TypesPartsThen

\* ... and so does its end.
LEMMA ReleaseMaintenanceTyped ==
  ASSUME TypesInv, NEW c \in Clients, ReleaseMaintenance(c)
  PROVE  TypesInv' /\ OpenKept
<1>1. BrokerTypes /\ JobTypes /\ StationTypes
  BY TypesParts
<1>2. Performed /\ link' \in {link, "failed"} /\ OpenKept
  BY ShortLists, PlainTyped DEF ReleaseMaintenance
<1>3. BrokerTypes' /\ JobTypes'
  BY <1>1 DEF ReleaseMaintenance, BrokerTypes, JobTypes, coreVars, clientVars
<1>4. StationTypes'
  BY <1>1, <1>2, LeaseTyped DEF ReleaseMaintenance, Release, StationTypes
<1> QED
  BY <1>2, <1>3, <1>4, TypesPartsThen

\* Bytes of the keyer.
FirmwareWrites == <<ByteRead, Clear, KeyUp, SetWpm("pot"), StatusRequest>>

\* What the actor writes when the keyer answered Host Open.
LEMMA FirmwareLeads ==
  ASSUME dev.up # <<>>
  PROVE  Leads(FirmwareWrites, Mild) /\ Leads(FirmwareWrites, Quiet)
<1>1. SetWpm("pot") \in Mild /\ Clear \in Mild /\ KeyUp \in Mild /\ StatusRequest \in Mild
  BY KeyerAssumption DEF Mild, Settings, Harmless
<1>2. SetWpm("pot") \in Quiet /\ Clear \in Quiet /\ KeyUp \in Quiet /\ StatusRequest \in Quiet
  BY KeyerAssumption DEF Quiet, Settings, Harmless
<1>3. Leads(FirmwareWrites, Mild)
  BY <1>1 DEF Leads, FirmwareWrites
<1>4. Leads(FirmwareWrites, Quiet)
  BY <1>2 DEF Leads, FirmwareWrites
<1> QED
  BY <1>3, <1>4

\* The firmware revision keeps the types, ...
LEMMA ReadFirmwareTyped ==
  ASSUME TypesInv, ReadFirmware
  PROVE  TypesInv' /\ OpenKept
<1>1. BrokerTypes /\ JobTypes /\ StationTypes
  BY TypesParts
<1>2. RestoreForeground(clients, NoClient, FirmwareWrites)
  BY DEF ReadFirmware, FirmwareWrites
<1>3. Performed /\ link' \in {link, "failed"} /\ OpenKept /\ applied' \in Clients \cup {NoClient}
  BY <1>2, FirmwareLeads, RestoreStep DEF ReadFirmware, Reading
<1>4. BrokerTypes' /\ JobTypes'
  BY <1>1, <1>3 DEF ReadFirmware, BrokerTypes, JobTypes, clientVars
<1>5. StationTypes'
  BY <1>1, <1>3 DEF ReadFirmware, StationTypes
<1> QED
  BY <1>3, <1>4, <1>5, TypesPartsThen

\* ... and so does a byte for the maintenance owner ...
LEMMA ReadMaintenanceTyped ==
  ASSUME TypesInv, ReadMaintenance
  PROVE  TypesInv' /\ OpenKept
<1>1. BrokerTypes /\ JobTypes /\ StationTypes
  BY TypesParts
<1>2. Performed /\ link' \in {link, "failed"} /\ OpenKept
  BY LeadsRead, PerformOn DEF ReadMaintenance, Reading
<1>3. BrokerTypes' /\ JobTypes'
  BY <1>1 DEF ReadMaintenance, BrokerTypes, JobTypes, coreVars, clientVars
<1>4. StationTypes'
  BY <1>1, <1>2 DEF ReadMaintenance, StationTypes
<1> QED
  BY <1>2, <1>3, <1>4, TypesPartsThen

\* ... or an echo.
LEMMA ReadEchoTyped ==
  ASSUME TypesInv, ReadEcho
  PROVE  TypesInv' /\ OpenKept
<1>1. BrokerTypes /\ JobTypes /\ StationTypes
  BY TypesParts
<1>2. Performed /\ link' \in {link, "failed"} /\ OpenKept
  BY LeadsRead, PerformOn DEF ReadEcho, InSession, Reading
<1>3. BrokerTypes' /\ JobTypes'
  BY <1>1 DEF ReadEcho, BrokerTypes, JobTypes, coreVars, clientVars
<1>4. StationTypes'
  BY <1>1, <1>2, LeaseTyped DEF ReadEcho, Release, StationTypes
<1> QED
  BY <1>2, <1>3, <1>4, TypesPartsThen

\* A job that is complete.
CompleteWrites(before) == before \o <<Completed(active.job.id)>>

\* complete_active keeps the types.
LEMMA CompleteTyped ==
  ASSUME TypesInv, active \in Running, NEW before, Leads(before, Mild), Complete(before)
  PROVE  Performed /\ link' \in {link, "failed"} /\ OpenKept /\ JobTypes'
<1>1. BrokerTypes /\ JobTypes
  BY TypesParts
<1>2. <<Completed(active.job.id)>> \in Seq(Mild)
  BY RunningFields, ShortLists, HarmlessMild
<1>3. Leads(CompleteWrites(before), Mild)
  BY <1>2, NoRead, LeadsOn DEF CompleteWrites
<1>4. StartNextOrRestore(clients, queue, applied, CompleteWrites(before))
  BY DEF Complete, CompleteWrites
<1>5. /\ clients \in SUBSET Clients /\ applied \in Clients \cup {NoClient}
      /\ queue \in Seq(Job) /\ Len(queue) <= MaxQueue
  BY <1>1 DEF BrokerTypes, JobTypes
<1> QED
  BY <1>3, <1>4, <1>5, EndTyped

ObservedJob(byte) == [active EXCEPT !.observed = TRUE, !.sawBusy = (@ \/ byte = "sending")]

\* So does a status, which may complete the running job.
LEMMA ReadStatusTyped ==
  ASSUME TypesInv, ReadStatus
  PROVE  TypesInv' /\ OpenKept
<1>1. BrokerTypes /\ JobTypes /\ StationTypes
  BY TypesParts
<1>2. Leads(<<ByteRead>>, Mild)
  BY LeadsRead DEF ReadStatus, InSession, Reading
<1>3. Performed /\ link' \in {link, "failed"} /\ OpenKept /\ JobTypes'
  <2>1. CASE active # NoJob /\ NextByte # "sending" /\ active.sawBusy
    <3>1. active \in Running /\ Complete(<<ByteRead>>)
      BY <1>1, <2>1 DEF ReadStatus, JobTypes
    <3> QED
      BY <1>2, <3>1, CompleteTyped
  <2>2. CASE ~(active # NoJob /\ NextByte # "sending" /\ active.sawBusy)
    <3>1. /\ active' = IF active = NoJob THEN NoJob ELSE ObservedJob(NextByte)
          /\ queue' = queue /\ applied' = applied /\ Perform(<<ByteRead>>)
      BY <2>2 DEF ReadStatus, ObservedJob
    <3>2. active # NoJob => ObservedJob(NextByte) \in Running
      BY <1>1 DEF JobTypes, Running, ObservedJob
    <3>3. Performed /\ link' \in {link, "failed"} /\ OpenKept
      BY <1>2, <3>1, PerformOn
    <3> QED
      BY <1>1, <3>1, <3>2, <3>3 DEF JobTypes
  <2> QED
    BY <2>1, <2>2
<1>4. BrokerTypes'
  BY <1>1 DEF ReadStatus, BrokerTypes, clientVars
<1>5. StationTypes'
  <2>1. lease' \in {"nobody", "keyer", "cat"}
    <3>1. PICK owner \in {"nobody", "keyer", "cat"} : owner = Paddled(NextByte)
      BY <1>1, LeaseTyped DEF StationTypes, Paddled
    <3> QED
      BY <3>1, LeaseTyped DEF ReadStatus
  <2> QED
    BY <1>1, <1>3, <2>1 DEF ReadStatus, StationTypes
<1> QED
  BY <1>3, <1>4, <1>5, TypesPartsThen

\* Ticks.
LEMMA WatchdogTyped ==
  ASSUME TypesInv, Watchdog
  PROVE  TypesInv' /\ OpenKept
<1>1. BrokerTypes /\ JobTypes /\ StationTypes
  BY TypesParts
<1>2. Performed /\ link' \in {link, "failed"} /\ OpenKept /\ JobTypes'
  BY EmergencyStopTyped DEF Watchdog
<1>3. BrokerTypes'
  BY <1>1 DEF Watchdog, BrokerTypes, clientVars
<1>4. StationTypes'
  BY <1>1, <1>2, LeaseTyped DEF Watchdog, Release, StationTypes
<1> QED
  BY <1>2, <1>3, <1>4, TypesPartsThen

\* So does a job found idle after the settle time, ...
LEMMA SettleTyped ==
  ASSUME TypesInv, Settle
  PROVE  TypesInv' /\ OpenKept
<1>1. BrokerTypes /\ JobTypes /\ StationTypes
  BY TypesParts
<1>2. Leads(<<>>, Mild) /\ active \in Running
  BY <1>1, ShortLists, NoRead, LeadsAll DEF Settle, JobTypes
<1>3. Performed /\ link' \in {link, "failed"} /\ OpenKept /\ JobTypes'
  BY <1>2, CompleteTyped DEF Settle
<1>4. BrokerTypes'
  BY <1>1 DEF Settle, BrokerTypes, clientVars
<1>5. StationTypes'
  BY <1>1, <1>3, LeaseTyped DEF Settle, Release, StationTypes
<1> QED
  BY <1>3, <1>4, <1>5, TypesPartsThen

\* ... a status poll, ...
LEMMA PollTyped ==
  ASSUME TypesInv, Poll
  PROVE  TypesInv' /\ OpenKept
<1>1. BrokerTypes /\ JobTypes /\ StationTypes
  BY TypesParts
<1>2. Performed /\ link' \in {link, "failed"} /\ OpenKept
  BY ShortLists, PlainTyped DEF Poll
<1>3. BrokerTypes' /\ JobTypes'
  BY <1>1 DEF Poll, BrokerTypes, JobTypes, coreVars, clientVars
<1>4. StationTypes'
  BY <1>1, <1>2, LeaseTyped DEF Poll, Release, StationTypes
<1> QED
  BY <1>2, <1>3, <1>4, TypesPartsThen

\* ... and a tick.
LEMMA TickTyped ==
  ASSUME TypesInv, Tick
  PROVE  TypesInv'
<1>1. BrokerTypes /\ JobTypes /\ StationTypes
  BY TypesParts
<1>2. BrokerTypes' /\ JobTypes'
  BY <1>1 DEF Tick, BrokerTypes, JobTypes, coreVars, clientVars
<1>3. StationTypes' /\ UNCHANGED <<dev, told, untold>>
  BY <1>1, LeaseTyped DEF Tick, Release, StationTypes, ghostVars
<1> QED
  BY <1>2, <1>3, QuietTyped

\* The transport.
LEMMA LinkLostTyped ==
  ASSUME TypesInv, LinkLost
  PROVE  TypesInv'
<1>1. BrokerTypes /\ JobTypes /\ StationTypes
  BY TypesParts
<1>2. BrokerTypes' /\ JobTypes'
  BY <1>1 DEF LinkLost, BrokerTypes, JobTypes, coreVars, clientVars
<1>3. StationTypes' /\ UNCHANGED <<dev, told, untold>>
  BY <1>1 DEF LinkLost, StationTypes, ghostVars
<1> QED
  BY <1>2, <1>3, QuietTyped

\* physical_error keeps the types.
LEMMA SessionErrorTyped ==
  ASSUME TypesInv, SessionError
  PROVE  TypesInv'
<1>1. /\ BrokerTypes /\ JobTypes /\ StationTypes
      /\ dev \in Device /\ told \in [JobIds -> 0 .. 2] /\ untold \subseteq JobIds
  BY TypesParts
<1>2. Performed
  <2>1. Cancels(Pending) \in Seq(Harmless)
    BY <1>1, PendingTyped, CancelsTyped
  <2>2. told' \in [JobIds -> 0 .. 2]
    BY <1>1, <2>1, TellTyped DEF SessionError
  <2>3. PICK u \in Seq(Bytes) : u = <<>>
    <3>1. <<>> \in Seq(Bytes)
      OBVIOUS
    <3> QED
      BY <3>1
  <2>4. dev' \in Device
    BY <1>1, <2>3, WithUp DEF SessionError
  <2> QED
    BY <1>1, <2>2, <2>4 DEF SessionError, Performed
<1>3. BrokerTypes'
  BY <1>1 DEF SessionError, BrokerTypes, clientVars
<1>4. JobTypes'
  <2>1. <<>> \in Seq(Job) /\ Len(<<>>) <= MaxQueue
    BY KeyerAssumption
  <2> QED
    BY <2>1 DEF SessionError, JobTypes
<1>5. StationTypes'
  BY <1>1 DEF SessionError, StationTypes
<1> QED
  BY <1>2, <1>3, <1>4, <1>5, TypesPartsThen

\* The keyer as it is initialised.
LEMMA InitialisedTyped ==
  ASSUME NEW d \in Device
  PROVE  /\ Initialised(d) \in Device /\ Initialised(d).open /\ Initialised(d).text = <<>>
         /\ Initialised(d).regs = d.regs /\ Initialised(d).speed = "pot"
<1>1. PICK t \in Seq(Piece), u \in Seq(Bytes) : t = <<>> /\ u = <<>>
  <2>1. <<>> \in Seq(Piece) /\ <<>> \in Seq(Bytes)
    OBVIOUS
  <2> QED
    BY <2>1
<1>2. Initialised(d) = [d EXCEPT !.open = TRUE, !.text = t, !.key = FALSE, !.speed = "pot",
                                 !.said = "nothing", !.up = u]
  BY <1>1 DEF Initialised
<1>3. "pot" \in Speeds
  BY KeyerAssumption
<1>4. Initialised(d) \in Device
  BY <1>2, <1>3 DEF Device
<1> QED
  BY <1>1, <1>2, <1>3, <1>4 DEF Device

\* So does a reconnection ...
LEMMA ReconnectTyped ==
  ASSUME TypesInv, Reconnect
  PROVE  TypesInv'
<1>1. /\ BrokerTypes /\ JobTypes /\ StationTypes
      /\ dev \in Device /\ told \in [JobIds -> 0 .. 2] /\ untold \subseteq JobIds
  BY TypesParts
<1>2. clients \in SUBSET Clients /\ ProfilesOK
  BY <1>1 DEF BrokerTypes, ProfilesOK
<1>3. RestoreWrites(Foreground(clients), NoClient) \in Seq(Written)
  <2>1. RestoreWrites(Foreground(clients), NoClient) \in Seq(Settings)
    BY <1>2, ForegroundTyped, RestoreTyped
  <2>2. Settings \subseteq Written
    BY DEF Written, Mild
  <2> QED
    BY <2>1, <2>2, SeqWider
<1>4. dev' \in Device
  <2>1. Initialised(dev) \in Device
    BY <1>1, InitialisedTyped
  <2>2. ObeyAll(Initialised(dev), RestoreWrites(Foreground(clients), NoClient)) \in Device
    BY <1>3, <2>1, WrittenTyped, AllKeep
  <2> QED
    BY <2>2 DEF Reconnect
<1>5. Performed
  BY <1>1, <1>4 DEF Performed, Reconnect
<1>6. applied' \in Clients \cup {NoClient}
  BY <1>2, RestoredTyped DEF Reconnect
<1>7. BrokerTypes' /\ JobTypes' /\ StationTypes'
  BY <1>1, <1>6 DEF Reconnect, BrokerTypes, JobTypes, StationTypes, clientVars
<1> QED
  BY <1>5, <1>7, TypesPartsThen

\* ... that fails or not.
LEMMA ReconnectFailedTyped ==
  ASSUME TypesInv, ReconnectFailed
  PROVE  TypesInv'
<1>1. /\ BrokerTypes /\ JobTypes /\ StationTypes
      /\ dev \in Device /\ told \in [JobIds -> 0 .. 2] /\ untold \subseteq JobIds
  BY TypesParts
<1>2. Performed
  BY <1>1, InitialisedTyped DEF ReconnectFailed, Performed, ghostVars
<1>3. BrokerTypes' /\ JobTypes' /\ StationTypes'
  BY <1>1 DEF ReconnectFailed, BrokerTypes, JobTypes, StationTypes, clientVars, ghostVars
<1> QED
  BY <1>2, <1>3, TypesPartsThen

\* The emergency stop a shutdown begins with.
ShutdownWrites ==
  <<Clear, KeyUp>> \o Cancels(Pending) \o RestoreWrites(Foreground(clients), applied)

\* What the shutdown writes.
LEMMA ShutdownWritesTyped ==
  ASSUME TypesInv
  PROVE  ShutdownWrites \in Seq(Quiet) /\ Farewell \in Seq(Quiet)
<1>1. BrokerTypes /\ JobTypes
  BY TypesParts
<1>2. Harmless \subseteq Quiet /\ Settings \subseteq Quiet /\ HostClose \in Quiet
  BY DEF Quiet
<1>3. PICK a \in Seq(Quiet) : a = StopWrites
  BY <1>1, <1>2, StopWritesTyped, SeqWider
<1>4. PICK b \in Seq(Quiet) : b = RestoreWrites(Foreground(clients), applied)
  <2>1. clients \in SUBSET Clients /\ ProfilesOK
    BY <1>1 DEF BrokerTypes, ProfilesOK
  <2>2. RestoreWrites(Foreground(clients), applied) \in Seq(Settings)
    BY <2>1, ForegroundTyped, RestoreTyped
  <2> QED
    BY <1>2, <2>2, SeqWider
<1>5. Farewell \in Seq(Quiet)
  <2>1. Clear \in Quiet /\ KeyUp \in Quiet
    BY <1>2 DEF Harmless
  <2>2. <<Clear, KeyUp, HostClose>> \in Seq(Quiet)
    BY <1>2, <2>1
  <2> QED
    BY <2>2 DEF Farewell
<1>6. a \o b \in Seq(Quiet)
  BY ConcatProperties
<1> QED
  BY <1>3, <1>4, <1>5, <1>6 DEF ShutdownWrites, StopWrites

\* The shutdown keeps what each of its writes keeps, wherever the stop and the
\* farewell break off.
LEMMA ShutdownKeep ==
  ASSUME TypesInv, Shutdown, NEW D, dev \in D,
         \A e \in D, w \in Quiet : Obey(e, w) \in D
  PROVE  dev' \in D
<1>1. PICK s \in Seq(Quiet) : s = ShutdownWrites
  BY ShutdownWritesTyped
<1>2. PICK f \in Seq(Quiet) : f = Farewell
  BY ShutdownWritesTyped
<1>3. CASE link # "up"
  BY <1>3 DEF Shutdown
<1>4. CASE link = "up"
  <2>1. PICK n \in 0 .. Len(s), m \in 0 .. Len(f) :
          dev' = ObeyAll(dev, SubSeq(s, 1, n) \o SubSeq(f, 1, m))
    BY <1>1, <1>2, <1>4 DEF Shutdown, ShutdownWrites, Deliver
  <2>2. PICK a \in Seq(Quiet) : a = SubSeq(s, 1, n)
    <3>1. SubSeq(s, 1, n) \in Seq(Quiet)
      BY Len(s) \in Nat
    <3> QED
      BY <3>1
  <2>3. PICK b \in Seq(Quiet) : b = SubSeq(f, 1, m)
    <3>1. SubSeq(f, 1, m) \in Seq(Quiet)
      BY Len(f) \in Nat
    <3> QED
      BY <3>1
  <2>4. a \o b \in Seq(Quiet)
    BY ConcatProperties
  <2>5. ObeyAll(dev, a \o b) \in D
    BY <2>4, AllKeep
  <2> QED
    BY <2>1, <2>2, <2>3, <2>5
<1> QED
  BY <1>3, <1>4

\* It tells the ends the stop reaches.
LEMMA ShutdownTells ==
  ASSUME Shutdown
  PROVE  TellsUpTo(ShutdownWrites) /\ link' = "off"
BY DEF Shutdown, ShutdownWrites, TellsUpTo

\* The shutdown keeps the types.
LEMMA ShutdownTyped ==
  ASSUME TypesInv, Shutdown
  PROVE  TypesInv'
<1>1. BrokerTypes /\ JobTypes /\ StationTypes
  BY TypesParts
<1>2. dev' \in Device
  <2>1. dev \in Device /\ \A e \in Device, w \in Quiet : Obey(e, w) \in Device
    BY NoRead, WrittenTyped DEF TypesInv
  <2> QED
    BY <2>1, ShutdownKeep
<1>3. Performed /\ link' = "off"
  <2>1. Leads(ShutdownWrites, Quiet)
    BY ShutdownWritesTyped, NoRead, LeadsAll
  <2>2. Leads(ShutdownWrites, Written)
    <3>1. ShutdownWrites \in Seq(Written)
      BY ShutdownWritesTyped, NoRead, SeqWider
    <3> QED
      BY <3>1, NoRead, LeadsAll
  <2> QED
    BY <1>2, <2>2, ShutdownTells, TellsTyped DEF Performed
<1>4. BrokerTypes'
  BY <1>1 DEF Shutdown, BrokerTypes, clientVars
<1>5. JobTypes'
  <2>1. <<>> \in Seq(Job) /\ Len(<<>>) <= MaxQueue
    BY KeyerAssumption
  <2>2. applied' \in Clients \cup {NoClient}
    BY <1>1, RestoredTyped DEF Shutdown, BrokerTypes, JobTypes
  <2> QED
    BY <2>1, <2>2 DEF Shutdown, JobTypes
<1>6. StationTypes'
  BY <1>1, <1>3 DEF Shutdown, StationTypes
<1> QED
  BY <1>3, <1>4, <1>5, <1>6, TypesPartsThen

\* The keyer itself, and the station.
LEMMA DeviceTyped ==
  ASSUME TypesInv, DeviceReport \/ DeviceKeys \/ Paddle
  PROVE  TypesInv'
<1>1. /\ BrokerTypes /\ JobTypes /\ StationTypes
      /\ dev \in Device /\ told \in [JobIds -> 0 .. 2] /\ untold \subseteq JobIds
  BY TypesParts
<1>2. PICK d : DeviceStep(d) /\ d \in Device
  <2>1. CASE DeviceReport
    <3>1. PICK b \in Statuses : b = DeviceStatus(dev)
      BY DeviceStatusTyped
    <3>2. PICK e : e = [dev EXCEPT !.said = b]
      OBVIOUS
    <3>3. e \in Device /\ b \in Bytes
      BY <1>1, <3>2, WithSaid DEF Bytes
    <3>4. Reported(dev) = Send(e, b)
      BY <3>1, <3>2 DEF Reported
    <3>5. Send(e, b) \in Device
      BY <3>3, SendTyped
    <3> QED
      BY <2>1, <3>4, <3>5 DEF DeviceReport
  <2>2. CASE DeviceKeys
    <3>1. PICK t \in Seq(Piece) : t = dev.text /\ t # <<>>
      BY <1>1, <2>2, DeviceFields DEF DeviceKeys
    <3>2. PICK s \in Seq(Piece) : s = Tail(t)
      <4>1. Tail(t) \in Seq(Piece)
        BY <3>1
      <4> QED
        BY <4>1
    <3>3. PICK e : e = [dev EXCEPT !.text = s]
      OBVIOUS
    <3>4. Keyed(dev) = e
      BY <3>1, <3>2, <3>3 DEF Keyed
    <3>5. e \in Device
      BY <1>1, <3>3, WithText
    <3> QED
      BY <2>2, <3>4, <3>5 DEF DeviceKeys
  <2>3. CASE Paddle
    <3>1. PICK p \in BOOLEAN : p = ~dev.paddle
      OBVIOUS
    <3>2. PICK e : e = [dev EXCEPT !.paddle = p]
      OBVIOUS
    <3>3. e \in Device
      BY <1>1, <3>2 DEF Device
    <3>4. DeviceStep(e)
      BY <2>3, <3>1, <3>2 DEF Paddle
    <3> QED
      BY <3>3, <3>4
  <2> QED
    BY <2>1, <2>2, <2>3
<1>3. Performed
  BY <1>1, <1>2 DEF DeviceStep, Performed, ghostVars
<1>4. BrokerTypes' /\ JobTypes'
  BY <1>1, <1>2 DEF DeviceStep, BrokerTypes, JobTypes, coreVars, clientVars
<1>5. StationTypes'
  BY <1>1, <1>2 DEF DeviceStep, StationTypes, ghostVars
<1> QED
  BY <1>3, <1>4, <1>5, TypesPartsThen

\* So do the CAT sessions and the PTT watchdog.
LEMMA StationTyped ==
  ASSUME TypesInv, CatLease \/ LeaseExpiry
  PROVE  TypesInv'
<1>1. BrokerTypes /\ JobTypes /\ StationTypes
  BY TypesParts
<1>2. BrokerTypes' /\ JobTypes'
  BY <1>1 DEF CatLease, LeaseExpiry, BrokerTypes, JobTypes, coreVars, clientVars
<1>3. StationTypes' /\ UNCHANGED <<dev, told, untold>>
  BY <1>1 DEF CatLease, LeaseExpiry, StationTypes, ghostVars
<1> QED
  BY <1>2, <1>3, QuietTyped

\* At the start.
LEMMA FreshTyped ==
  FreshDevice \in Device
<1>1. "pot" \in Speeds /\ <<>> \in Seq(Piece) /\ <<>> \in Seq(Bytes)
  BY KeyerAssumption
<1>2. [r \in Regs |-> Unset] \in [Regs -> Vals \cup {Unset}]
  OBVIOUS
<1> QED
  BY <1>1, <1>2 DEF FreshDevice, Device

\* The keyer is connected and set up with the defaults.
LEMMA InitTyped == Init => TypesInv
<1> SUFFICES ASSUME Init PROVE TypesInv
  OBVIOUS
<1>1. BrokerTypes
  <2>1. "pot" \in Speeds /\ 1 \in 1 .. MaxJobs + 1 /\ "idle" \in Statuses
    BY KeyerAssumption DEF Statuses
  <2> QED
    BY <2>1 DEF Init, BrokerTypes
<1>2. JobTypes
  <2>1. <<>> \in Seq(Job) /\ Len(<<>>) <= MaxQueue
    BY KeyerAssumption
  <2> QED
    BY <2>1 DEF Init, JobTypes
<1>3. StationTypes
  BY DEF Init, StationTypes
<1>4. dev \in Device /\ told \in [JobIds -> 0 .. 2] /\ untold \subseteq JobIds
  BY FreshTyped, InitialisedTyped DEF Init
<1> QED
  BY <1>1, <1>2, <1>3, <1>4, TypesParts

\* Every step.
LEMMA RequestTyped ==
  ASSUME TypesInv, NEW c \in Clients, ClientRequest(c)
  PROVE  TypesInv'
<1>1. \A j \in 1 .. nextJob - 1 : j \in JobIds
  <2>1. nextJob \in 1 .. MaxJobs + 1 /\ MaxJobs \in Nat
    BY KeyerAssumption DEF TypesInv, KeyerTypeOK
  <2> QED
    BY <2>1 DEF JobIds
<1>2. desired[c] \in Speeds
  BY DEF TypesInv, KeyerTypeOK
<1>3. ASSUME NEW j \in 1 .. nextJob - 1, CancelJob(c, j) PROVE TypesInv'
  BY <1>1, <1>3, CancelJobTyped
<1>4. ASSUME NEW s \in Speeds, Enqueue(c, s, FALSE) PROVE TypesInv'
  BY <1>4, EnqueueTyped
<1>5. ASSUME NEW s \in {desired[c], "own"}, Enqueue(c, s, TRUE) PROVE TypesInv'
  BY <1>2, <1>5, EnqueueTyped
<1>6. ASSUME NEW s \in Speeds, SetSpeed(c, s) PROVE TypesInv'
  BY <1>6, SetSpeedTyped
<1>7. ASSUME NEW r \in Regs, NEW v \in Vals, Configure(c, r, v) PROVE TypesInv'
  BY <1>7, ConfigureTyped
<1>8. ASSUME NEW w \in {KeyDown, KeyUp}, KeyImmediate(c, w) PROVE TypesInv'
  BY <1>8, KeyImmediateTyped
<1> QED
  BY <1>3, <1>4, <1>5, <1>6, <1>7, <1>8, RegisterTyped, UnregisterTyped, StreamOnTyped,
     StreamQueuedTyped, EnqueueUnconnectedTyped, CancelTyped, MaintainTyped, ReleaseMaintenanceTyped
  DEF ClientRequest

\* No step breaks the types.
LEMMA NextTypes == TypesInv /\ [Next]_vars => TypesInv'
<1> SUFFICES ASSUME TypesInv, [Next]_vars PROVE TypesInv'
  OBVIOUS
<1>1. CASE UNCHANGED vars
  <2>1. BrokerTypes /\ JobTypes /\ StationTypes
    BY TypesParts
  <2>2. BrokerTypes' /\ JobTypes' /\ StationTypes' /\ UNCHANGED <<dev, told, untold>>
    BY <1>1, <2>1 DEF vars, coreVars, clientVars, ghostVars, BrokerTypes, JobTypes, StationTypes
  <2> QED
    BY <2>2, QuietTyped
<1>2. CASE Next
  BY <1>1, <1>2, RequestTyped, StopTyped, ReadFirmwareTyped, ReadMaintenanceTyped, ReadEchoTyped,
     ReadStatusTyped, WatchdogTyped, SettleTyped, PollTyped, TickTyped, LinkLostTyped,
     SessionErrorTyped, ReconnectTyped, ReconnectFailedTyped, ShutdownTyped, DeviceTyped, StationTyped
  DEF Next, Read
<1> QED
  BY <1>1, <1>2

------------------------------------------------------------------------------
(***************************************************************************)
(* Maintenance and host mode                                               *)
(***************************************************************************)

\* The keyer is out of host mode in maintenance only, until it has answered the Host
\* Open that ends it, and after an emergency stop in between.
HostInv ==
  /\ MaintenanceWaits
  /\ link = "up" /\ maint = NoClient /\ (reopening \/ ~strayed) => dev.open

\* At the start it is in host mode.
LEMMA InitHost == Init => HostInv
<1> SUFFICES ASSUME Init PROVE HostInv
  OBVIOUS
<1>1. MaintenanceWaits
  BY DEF Init, MaintenanceWaits
<1>2. dev.open
  BY FreshTyped, InitialisedTyped DEF Init
<1> QED
  BY <1>1, <1>2 DEF HostInv

\* A step that leaves maintenance alone.
LEMMA CalmHost ==
  ASSUME HostInv, OpenKept, UNCHANGED <<maint, reopening, strayed>>,
         maint # NoClient \/ reopening => UNCHANGED <<queue, active>>
  PROVE  HostInv'
BY DEF HostInv, MaintenanceWaits, OpenKept

\* A client that comes ...
LEMMA RegisterHost ==
  ASSUME TypesInv, HostInv, NEW c \in Clients, Register(c)
  PROVE  HostInv'
BY RegisterTyped, CalmHost DEF Register

\* ... or goes: the end of the maintenance owner's session opens the keyer.
LEMMA UnregisterHost ==
  ASSUME TypesInv, HostInv, NEW c \in Clients, Unregister(c)
  PROVE  HostInv'
<1>1. OpenKept
  BY UnregisterTyped
<1>2. maint # NoClient \/ reopening => active = NoJob /\ queue = <<>>
  BY DEF HostInv, MaintenanceWaits
<1>3. CASE maint = c
  <2>1. maint # NoClient /\ active = NoJob /\ queue = <<>>
    BY <1>2, <1>3, KeyerAssumption
  <2>2. /\ queue' = Selection(<<>>, Job \ JobsOf(c)) /\ active' = NoJob
        /\ Perform(<<HostOpen>> \o Cancels(Selection(<<>>, JobsOf(c))))
        /\ maint' = NoClient
    BY <1>3, <2>1 DEF Unregister, Owns
  <2>3. queue' = <<>> /\ active' = NoJob
    BY <2>2, SelectionEmpty
  <2>4. Perform(<<HostOpen>>)
    <3>1. Cancels(<<>>) = <<>>
      BY DEF Cancels
    <3>2. <<HostOpen>> \o <<>> = <<HostOpen>>
      OBVIOUS
    <3> QED
      BY <2>2, <3>1, <3>2, SelectionEmpty
  <2>5. link' = "up" => dev'.open
    <3>1. Sent(<<HostOpen>>)
      BY <2>4, ShortLists, PerformSent
    <3>2. link' = "up" => dev' = ObeyAll(dev, <<HostOpen>>)
      BY <3>1, <1>1 DEF Sent, OpenKept
    <3>3. ObeyAll(dev, <<HostOpen>>) = Obey(dev, HostOpen)
      BY ShortLists, ObeyOne
    <3>4. Obey(dev, HostOpen).open
      BY HarmlessObeyed DEF TypesInv, Harmless, HarmlessDone
    <3> QED
      BY <3>2, <3>3, <3>4
  <2> QED
    BY <2>2, <2>3, <2>5 DEF HostInv, MaintenanceWaits
<1>4. CASE maint # c
  <2>1. UNCHANGED <<maint, reopening, strayed>>
    BY <1>4 DEF Unregister, TypesInv, KeyerTypeOK
  <2>2. maint # NoClient \/ reopening => UNCHANGED <<queue, active>>
    <3> SUFFICES ASSUME maint # NoClient \/ reopening PROVE UNCHANGED <<queue, active>>
      OBVIOUS
    <3>1. active = NoJob /\ queue = <<>>
      BY <1>2
    <3>2. queue' = Selection(<<>>, Job \ JobsOf(c)) /\ active' = active
      BY <3>1 DEF Unregister, Owns
    <3> QED
      BY <3>1, <3>2, SelectionEmpty
  <2> QED
    BY <1>1, <2>1, <2>2, CalmHost
<1> QED
  BY <1>3, <1>4

\* Settings and Key Immediate do not leave host mode.
LEMMA SettingsHost ==
  ASSUME TypesInv, HostInv, NEW c \in Clients,
         \/ \E s \in Speeds : SetSpeed(c, s)
         \/ \E r \in Regs, v \in Vals : Configure(c, r, v)
         \/ \E w \in {KeyDown, KeyUp} : KeyImmediate(c, w)
  PROVE  HostInv'
<1>1. ASSUME NEW s \in Speeds, SetSpeed(c, s) PROVE HostInv'
  BY <1>1, SetSpeedTyped, CalmHost DEF SetSpeed
<1>2. ASSUME NEW r \in Regs, NEW v \in Vals, Configure(c, r, v) PROVE HostInv'
  BY <1>2, ConfigureTyped, CalmHost DEF Configure
<1>3. ASSUME NEW w \in {KeyDown, KeyUp}, KeyImmediate(c, w) PROVE HostInv'
  BY <1>3, KeyImmediateTyped, CalmHost DEF KeyImmediate, coreVars
<1> QED
  BY <1>1, <1>2, <1>3

\* No job is admitted in maintenance.
LEMMA AdmitHost ==
  ASSUME TypesInv, HostInv, NEW c \in Clients,
         \/ StreamOn(c) \/ StreamQueued(c)
         \/ \E speed \in Speeds \cup {"own"}, stream \in BOOLEAN : Enqueue(c, speed, stream)
  PROVE  HostInv'
<1>1. CASE StreamOn(c)
  BY <1>1, StreamOnTyped, CalmHost DEF StreamOn, MayEnqueue
<1>2. CASE StreamQueued(c)
  BY <1>2, StreamQueuedTyped, CalmHost DEF StreamQueued, MayEnqueue
<1>3. ASSUME NEW speed \in Speeds \cup {"own"}, NEW stream \in BOOLEAN, Enqueue(c, speed, stream)
      PROVE  HostInv'
  BY <1>3, EnqueueTyped, CalmHost DEF Enqueue, MayEnqueue
<1> QED
  BY <1>1, <1>2, <1>3

\* There is nothing to cancel in maintenance.
LEMMA CancelHost ==
  ASSUME TypesInv, HostInv, NEW c \in Clients,
         Cancel(c) \/ \E j \in JobIds : CancelJob(c, j)
  PROVE  HostInv'
<1>1. maint # NoClient \/ reopening => active = NoJob /\ queue = <<>>
  BY DEF HostInv, MaintenanceWaits
<1>2. CASE Cancel(c)
  <2>1. maint # NoClient \/ reopening => UNCHANGED <<queue, active>>
    BY <1>1, <1>2, SelectionEmpty DEF Cancel, Owns
  <2> QED
    BY <1>2, <2>1, CancelTyped, CalmHost DEF Cancel
<1>3. ASSUME NEW j \in JobIds, CancelJob(c, j) PROVE HostInv'
  <2>1. maint # NoClient \/ reopening => UNCHANGED <<queue, active>>
    BY <1>1, <1>3, SelectionEmpty DEF CancelJob
  <2> QED
    BY <1>3, <2>1, CancelJobTyped, CalmHost DEF CancelJob
<1> QED
  BY <1>2, <1>3

\* An emergency stop leaves no job.
LEMMA StopHost ==
  ASSUME TypesInv, HostInv, Stop
  PROVE  HostInv'
<1>1. OpenKept
  BY StopTyped
<1>2. MaintenanceWaits'
  BY DEF Stop, MaintenanceWaits
<1>3. link' = "up" /\ ~strayed' => dev'.open
  BY <1>1 DEF Stop, HostInv, OpenKept
<1> QED
  BY <1>2, <1>3 DEF HostInv, Stop

\* Maintenance begins without jobs.
LEMMA MaintainHost ==
  ASSUME TypesInv, HostInv, NEW c \in Clients, Maintain(c)
  PROVE  HostInv'
<1>1. c # NoClient
  BY KeyerAssumption
<1> QED
  BY <1>1 DEF Maintain, HostInv, MaintenanceWaits, coreVars

\* It ends with Host Open.
LEMMA ReleaseMaintenanceHost ==
  ASSUME TypesInv, HostInv, NEW c \in Clients, ReleaseMaintenance(c)
  PROVE  HostInv'
<1>1. MaintenanceWaits'
  BY KeyerAssumption DEF ReleaseMaintenance, HostInv, MaintenanceWaits, coreVars
<1>2. link' = "up" => dev'.open
  <2>1. Sent(<<HostOpen>>)
    BY ShortLists, PerformSent DEF ReleaseMaintenance
  <2>2. link' = "up" => dev' = ObeyAll(dev, <<HostOpen>>)
    BY <2>1 DEF Sent
  <2>3. ObeyAll(dev, <<HostOpen>>) = Obey(dev, HostOpen)
    BY ShortLists, ObeyOne
  <2>4. Obey(dev, HostOpen).open
    BY HarmlessObeyed DEF TypesInv, Harmless, HarmlessDone
  <2> QED
    BY <2>2, <2>3, <2>4
<1> QED
  BY <1>1, <1>2 DEF HostInv

\* A byte of the keyer, by who is waiting for it.
LEMMA ReadHost ==
  ASSUME TypesInv, HostInv, Read
  PROVE  HostInv'
<1>1. CASE ReadFirmware
  <2>1. MaintenanceWaits'
    BY <1>1 DEF ReadFirmware, HostInv, MaintenanceWaits
  <2>2. OpenKept
    BY <1>1, ReadFirmwareTyped
  <2> QED
    BY <1>1, <2>1, <2>2 DEF HostInv, ReadFirmware, OpenKept
<1>2. CASE ReadMaintenance
  BY <1>2, ReadMaintenanceTyped, CalmHost DEF ReadMaintenance, coreVars
<1>3. CASE ReadEcho
  BY <1>3, ReadEchoTyped, CalmHost DEF ReadEcho, coreVars
<1>4. CASE ReadStatus
  BY <1>4, ReadStatusTyped, CalmHost DEF ReadStatus, InSession
<1> QED
  BY <1>1, <1>2, <1>3, <1>4 DEF Read

\* Ticks find no job in maintenance.
LEMMA TickHost ==
  ASSUME TypesInv, HostInv, Watchdog \/ Settle \/ Poll \/ Tick
  PROVE  HostInv'
<1>1. maint # NoClient \/ reopening => active = NoJob
  BY DEF HostInv, MaintenanceWaits
<1>2. CASE Watchdog
  BY <1>1, <1>2, WatchdogTyped, CalmHost DEF Watchdog
<1>3. CASE Settle
  BY <1>1, <1>3, SettleTyped, CalmHost DEF Settle
<1>4. CASE Poll
  BY <1>4, PollTyped, CalmHost DEF Poll, coreVars
<1>5. CASE Tick
  BY <1>5 DEF Tick, HostInv, MaintenanceWaits, coreVars, ghostVars
<1> QED
  BY <1>2, <1>3, <1>4, <1>5

\* Every session begins in host mode.
LEMMA TransportHost ==
  ASSUME TypesInv, HostInv,
         LinkLost \/ SessionError \/ Reconnect \/ ReconnectFailed \/ Shutdown
  PROVE  HostInv'
<1>1. CASE LinkLost
  BY <1>1 DEF LinkLost, HostInv, MaintenanceWaits, coreVars
<1>2. CASE SessionError
  BY <1>2 DEF SessionError, HostInv, MaintenanceWaits
<1>3. CASE Reconnect
  <2>1. MaintenanceWaits'
    BY <1>3 DEF Reconnect, HostInv, MaintenanceWaits
  <2>2. dev'.open
    <3> DEFINE D == {d \in Device : d.open}
    <3>1. Initialised(dev) \in D
      BY InitialisedTyped DEF TypesInv
    <3>2. PICK ws \in Seq(Settings) : ws = RestoreWrites(Foreground(clients), NoClient)
      <4>1. ProfilesOK
        BY DEF TypesInv, KeyerTypeOK, ProfilesOK
      <4>2. clients \subseteq Clients
        BY DEF TypesInv, KeyerTypeOK
      <4>3. Foreground(clients) \in Clients \cup {NoClient}
        BY <4>2, ForegroundTyped
      <4>4. RestoreWrites(Foreground(clients), NoClient) \in Seq(Settings)
        BY <4>1, <4>3, RestoreTyped
      <4> QED
        BY <4>4
    <3>3. \A e \in D, w \in Settings : Obey(e, w) \in D
      BY MildObeyed DEF Mild
    <3> HIDE DEF D
    <3>4. ObeyAll(Initialised(dev), ws) \in D
      BY <3>1, <3>3, AllKeep
    <3>5. dev' \in D
      BY <1>3, <3>2, <3>4 DEF Reconnect
    <3> QED
      BY <3>5 DEF D
  <2> QED
    BY <2>1, <2>2 DEF HostInv
<1>4. CASE ReconnectFailed
  BY <1>4 DEF ReconnectFailed, HostInv, MaintenanceWaits
<1>5. CASE Shutdown
  <2>1. link' = "off"
    BY <1>5, ShutdownTells
  <2> QED
    BY <1>5, <2>1 DEF Shutdown, HostInv, MaintenanceWaits
<1> QED
  BY <1>1, <1>2, <1>3, <1>4, <1>5

\* The keyer by itself does not leave host mode.
LEMMA DeviceHost ==
  ASSUME TypesInv, HostInv, DeviceReport \/ DeviceKeys \/ Paddle
  PROVE  HostInv'
<1>1. PICK d : DeviceStep(d) /\ (dev.open => d.open)
  <2>1. CASE DeviceReport
    <3>0. dev \in Device
      BY DEF TypesInv
    <3>1. Reported(dev).open = dev.open
      BY <3>0, ReportedKept DEF Kept4
    <3> QED
      BY <2>1, <3>1 DEF DeviceReport
  <2>2. CASE DeviceKeys
    <3>1. PICK x : x = Tail(dev.text)
      OBVIOUS
    <3>2. Keyed(dev) = [dev EXCEPT !.text = x]
      BY <3>1 DEF Keyed
    <3>3. Keyed(dev).open = dev.open
      BY <3>2 DEF TypesInv, Device
    <3> QED
      BY <2>2, <3>3 DEF DeviceKeys
  <2>3. CASE Paddle
    <3>1. [dev EXCEPT !.paddle = ~@].open = dev.open
      BY DEF TypesInv, Device
    <3> QED
      BY <2>3, <3>1 DEF Paddle
  <2> QED
    BY <2>1, <2>2, <2>3
<1> QED
  BY <1>1 DEF DeviceStep, HostInv, MaintenanceWaits, coreVars, ghostVars

\* The reconnect loop refuses jobs.
LEMMA EnvironmentHost ==
  ASSUME TypesInv, HostInv, NEW c \in Clients, EnqueueUnconnected(c)
  PROVE  HostInv'
BY DEF EnqueueUnconnected, HostInv, MaintenanceWaits, coreVars, ghostVars

\* Requests about a client, its jobs and maintenance.
LEMMA RequestHost ==
  ASSUME TypesInv, HostInv, NEW c \in Clients, ClientRequest(c)
  PROVE  HostInv'
<1>1. \A j \in 1 .. nextJob - 1 : j \in JobIds
  <2>1. nextJob \in 1 .. MaxJobs + 1 /\ MaxJobs \in Nat
    BY KeyerAssumption DEF TypesInv, KeyerTypeOK
  <2> QED
    BY <2>1 DEF JobIds
<1>2. desired[c] \in Speeds
  BY DEF TypesInv, KeyerTypeOK
<1>3. ASSUME NEW j \in 1 .. nextJob - 1, CancelJob(c, j) PROVE HostInv'
  BY <1>1, <1>3, CancelHost
<1>4. ASSUME NEW s \in Speeds, Enqueue(c, s, FALSE) PROVE HostInv'
  BY <1>4, AdmitHost
<1>5. ASSUME NEW s \in {desired[c], "own"}, Enqueue(c, s, TRUE) PROVE HostInv'
  BY <1>2, <1>5, AdmitHost
<1>6. CASE StreamOn(c) \/ StreamQueued(c)
  BY <1>6, AdmitHost
<1>7. CASE \/ \E s \in Speeds : SetSpeed(c, s)
           \/ \E r \in Regs, v \in Vals : Configure(c, r, v)
           \/ \E w \in {KeyDown, KeyUp} : KeyImmediate(c, w)
  BY <1>7, SettingsHost
<1>8. CASE Register(c) \/ Unregister(c)
  BY <1>8, RegisterHost, UnregisterHost
<1>9. CASE EnqueueUnconnected(c)
  BY <1>9, EnvironmentHost
<1>10. CASE Cancel(c)
  BY <1>10, CancelHost
<1>11. CASE Maintain(c) \/ ReleaseMaintenance(c)
  BY <1>11, MaintainHost, ReleaseMaintenanceHost
<1> QED
  BY <1>3, <1>4, <1>5, <1>6, <1>7, <1>8, <1>9, <1>10, <1>11 DEF ClientRequest

\* No step breaks the invariant.
LEMMA NextHost == TypesInv /\ HostInv /\ [Next]_vars => HostInv'
<1> SUFFICES ASSUME TypesInv, HostInv, [Next]_vars PROVE HostInv'
  OBVIOUS
<1>1. CASE UNCHANGED vars
  BY <1>1 DEF vars, coreVars, clientVars, ghostVars, HostInv, MaintenanceWaits
<1>2. ASSUME NEW c \in Clients, ClientRequest(c) PROVE HostInv'
  BY <1>2, RequestHost
<1>3. CASE Stop
  BY <1>3, StopHost
<1>4. CASE Read
  BY <1>4, ReadHost
<1>5. CASE Watchdog \/ Settle \/ Poll \/ Tick
  BY <1>5, TickHost
<1>6. CASE LinkLost \/ SessionError \/ Reconnect \/ ReconnectFailed \/ Shutdown
  BY <1>6, TransportHost
<1>7. CASE DeviceReport \/ DeviceKeys \/ Paddle \/ CatLease \/ LeaseExpiry
  <2>1. CASE DeviceReport \/ DeviceKeys \/ Paddle
    BY <2>1, DeviceHost
  <2>2. CASE CatLease \/ LeaseExpiry
    BY <2>2 DEF CatLease, LeaseExpiry, HostInv, MaintenanceWaits, coreVars, ghostVars
  <2> QED
    BY <1>7, <2>1, <2>2
<1> QED
  BY <1>1, <1>2, <1>3, <1>4, <1>5, <1>6, <1>7 DEF Next

\* "After virtual Host Close or client loss, CatHub sends physical Host Open": for
\* any clients, profiles and bounds the connected keyer that no client maintains
\* is in host mode, until an emergency stop throws an unanswered Host Open away.
THEOREM KeyerIsInHostMode == Spec => []HostMode
<1>1. Init => TypesInv /\ HostInv
  BY InitTyped, InitHost
<1>2. TypesInv /\ HostInv /\ [Next]_vars => TypesInv' /\ HostInv'
  BY NextTypes, NextHost
<1>3. TypesInv /\ HostInv => HostMode
  BY DEF HostInv, HostMode
<1> QED
  BY <1>1, <1>2, <1>3, PTL DEF Spec

------------------------------------------------------------------------------
(***************************************************************************)
(* Maintenance keys nothing                                                *)
(***************************************************************************)

\* The keyer is silent out of host mode, through all of maintenance, and after it
\* until the broker goes on.
SilentInv ==
  link = "up" => Shut(dev) /\ (maint # NoClient \/ reopening => Silent(dev))

\* A keyer that was set up anew is silent.
LEMMA InitialisedSilent ==
  ASSUME NEW d \in Device
  PROVE  Initialised(d) \in Device /\ Silent(Initialised(d)) /\ Initialised(d).open
<1>1. Initialised(d).key = FALSE
  <2>1. PICK t : t = <<>>
    OBVIOUS
  <2>2. Initialised(d) = [d EXCEPT !.open = TRUE, !.text = t, !.key = FALSE, !.speed = "pot",
                                   !.said = "nothing", !.up = t]
    BY <2>1 DEF Initialised
  <2> QED
    BY <2>2 DEF Device
<1> QED
  BY <1>1, InitialisedTyped DEF Silent

\* So it begins.
LEMMA InitSilent == Init => SilentInv
<1> SUFFICES ASSUME Init PROVE SilentInv
  OBVIOUS
<1>1. Silent(dev)
  BY FreshTyped, InitialisedSilent DEF Init
<1> QED
  BY <1>1 DEF SilentInv, Shut

\* A step that leaves maintenance alone, and in it neither keys nor sends.
LEMMA CalmSilent ==
  ASSUME SilentInv, OpenKept, UNCHANGED <<maint, reopening>>,
         maint # NoClient \/ reopening => (Silent(dev) => Silent(dev'))
  PROVE  SilentInv'
BY DEF SilentInv, OpenKept

\* A step that begins or ends no maintenance and is refused in it.
LEMMA RefusedSilent ==
  ASSUME SilentInv, OpenKept, UNCHANGED <<maint, reopening>>,
         maint = NoClient /\ ~reopening
  PROVE  SilentInv'
BY DEF SilentInv, OpenKept

\* What is written in maintenance.
LEMMA StillLists ==
  /\ Leads(<<>>, Still) /\ Leads(<<HostOpen>>, Still) /\ Leads(<<StatusRequest>>, Still)
  /\ Leads(<<Clear>>, Still)
  /\ \A x \in Speeds : Leads(<<SetWpm(x)>>, Still)
  /\ \A r \in Regs, v \in Vals : Leads(<<SetReg(r, v)>>, Still)
  /\ Settings \subseteq Still /\ {Clear, KeyUp, HostOpen, HostClose, StatusRequest, Admin} \subseteq Still
  /\ ByteRead \notin Still
<1>1. \A w \in Texts : w.do = "text"
  BY DEF Texts, Text
<1>2. KeyDown.do = "keyDown"
  BY DEF KeyDown
<1>3. \A w \in Settings : w.do \in {"reg", "speed"}
  BY DEF Settings, SetReg, SetWpm
<1>4. \A w \in {Clear, KeyUp, HostOpen, HostClose, StatusRequest, Admin} : w.do \notin {"text", "keyDown"}
  BY DEF Clear, KeyUp, HostOpen, HostClose, StatusRequest, Admin
<1>5. Settings \subseteq Written /\ {Clear, KeyUp, HostOpen, HostClose, StatusRequest, Admin} \subseteq Written
  BY DEF Written, Mild, Harmless
<1>6. Settings \subseteq Still
  BY <1>1, <1>2, <1>3, <1>5 DEF Still
<1>7. {Clear, KeyUp, HostOpen, HostClose, StatusRequest, Admin} \subseteq Still
  BY <1>1, <1>2, <1>4, <1>5 DEF Still
<1>8. ByteRead \notin Still
  BY NoRead DEF Still
<1>9. PICK W : W = Still
  OBVIOUS
<1>10. \A w \in W : <<w>> \in Seq(W)
  OBVIOUS
<1>11. <<>> \in Seq(W)
  OBVIOUS
<1>12. \A w \in W : Leads(<<w>>, W)
  BY <1>8, <1>9, <1>10, LeadsAll
<1>13. Leads(<<>>, W)
  BY <1>8, <1>9, <1>11, LeadsAll
<1>14. \A x \in Speeds : SetWpm(x) \in W
  BY <1>6, <1>9 DEF Settings
<1>15. \A r \in Regs, v \in Vals : SetReg(r, v) \in W
  BY <1>6, <1>9 DEF Settings
<1>16. HostOpen \in W /\ StatusRequest \in W /\ Clear \in W
  BY <1>7, <1>9
<1> QED
  BY <1>6, <1>7, <1>8, <1>9, <1>12, <1>13, <1>14, <1>15, <1>16

\* In maintenance there is nothing to cancel.
LEMMA NothingQueued ==
  ASSUME HostInv, maint # NoClient \/ reopening
  PROVE  /\ active = NoJob /\ queue = <<>>
         /\ \A S : Selection(queue, S) = <<>> /\ Cancels(Selection(queue, S)) = <<>>
<1>1. active = NoJob /\ queue = <<>>
  BY DEF HostInv, MaintenanceWaits
<1>2. \A S : Selection(queue, S) = <<>>
  BY <1>1, SelectionEmpty
<1>3. Cancels(<<>>) = <<>>
  BY DEF Cancels
<1> QED
  BY <1>1, <1>2, <1>3

\* The requests of a client, except those about maintenance and its end.
LEMMA RequestSilent ==
  ASSUME TypesInv, HostInv, SilentInv, NEW c \in Clients,
         \/ Register(c)
         \/ \E x \in Speeds : SetSpeed(c, x)
         \/ \E r \in Regs, v \in Vals : Configure(c, r, v)
         \/ \E w \in {KeyDown, KeyUp} : KeyImmediate(c, w)
         \/ StreamOn(c) \/ StreamQueued(c)
         \/ \E speed \in Speeds \cup {"own"}, stream \in BOOLEAN : Enqueue(c, speed, stream)
         \/ EnqueueUnconnected(c)
         \/ Cancel(c) \/ \E j \in JobIds : CancelJob(c, j)
  PROVE  SilentInv'
<1>1. dev \in Device
  BY DEF TypesInv
<1>2. CASE Register(c)
  <2>1. OpenKept /\ Perform(<<>>)
    BY <1>2, RegisterTyped DEF Register
  <2> QED
    BY <1>1, <1>2, <2>1, StillLists, StillPerformed, CalmSilent DEF Register
<1>3. ASSUME NEW x \in Speeds, SetSpeed(c, x) PROVE SilentInv'
  <2>1. OpenKept /\ (Perform(<<SetWpm(x)>>) \/ Perform(<<>>))
    BY <1>3, SetSpeedTyped DEF SetSpeed
  <2>2. Silent(dev) => Silent(dev')
    BY <1>1, <2>1, StillLists, StillPerformed
  <2> QED
    BY <1>3, <2>1, <2>2, CalmSilent DEF SetSpeed
<1>4. ASSUME NEW r \in Regs, NEW v \in Vals, Configure(c, r, v) PROVE SilentInv'
  <2>1. OpenKept /\ (Perform(<<SetReg(r, v)>>) \/ Perform(<<>>))
    BY <1>4, ConfigureTyped DEF Configure
  <2>2. Silent(dev) => Silent(dev')
    BY <1>1, <2>1, StillLists, StillPerformed
  <2> QED
    BY <1>4, <2>1, <2>2, CalmSilent DEF Configure
<1>5. ASSUME NEW w \in {KeyDown, KeyUp}, KeyImmediate(c, w) PROVE SilentInv'
  BY <1>5, KeyImmediateTyped, RefusedSilent DEF KeyImmediate
<1>6. CASE StreamOn(c)
  BY <1>6, StreamOnTyped, RefusedSilent DEF StreamOn, MayEnqueue
<1>7. CASE StreamQueued(c)
  BY <1>7, StreamQueuedTyped, RefusedSilent DEF StreamQueued, MayEnqueue
<1>8. ASSUME NEW speed \in Speeds \cup {"own"}, NEW stream \in BOOLEAN, Enqueue(c, speed, stream)
      PROVE SilentInv'
  BY <1>8, EnqueueTyped, RefusedSilent DEF Enqueue, MayEnqueue
<1>9. CASE EnqueueUnconnected(c)
  BY <1>9 DEF EnqueueUnconnected, SilentInv
<1>10. CASE Cancel(c)
  <2>1. OpenKept /\ UNCHANGED <<maint, reopening>>
    BY <1>10, CancelTyped DEF Cancel
  <2>2. ASSUME maint # NoClient \/ reopening, Silent(dev) PROVE Silent(dev')
    <3>1. ~Owns(c) /\ Cancels(Selection(queue, JobsOf(c))) = <<>>
      BY <2>2, NothingQueued DEF Owns
    <3>2. Perform((IF AtOnce(c) THEN <<Clear>> ELSE <<>>) \o <<>>)
      BY <1>10, <3>1 DEF Cancel
    <3>3. <<Clear>> \o <<>> = <<Clear>> /\ <<>> \o <<>> = <<>>
      OBVIOUS
    <3>4. Perform(<<Clear>>) \/ Perform(<<>>)
      BY <3>2, <3>3
    <3> QED
      BY <1>1, <2>2, <3>4, StillLists, StillPerformed
  <2> QED
    BY <2>1, <2>2, CalmSilent
<1>11. ASSUME NEW j \in JobIds, CancelJob(c, j) PROVE SilentInv'
  <2>1. OpenKept /\ UNCHANGED <<maint, reopening>>
    BY <1>11, CancelJobTyped DEF CancelJob
  <2>2. ASSUME maint # NoClient \/ reopening, Silent(dev) PROVE Silent(dev')
    <3>1. Perform(<<>>)
      BY <1>11, <2>2, NothingQueued DEF CancelJob
    <3> QED
      BY <1>1, <2>2, <3>1, StillLists, StillPerformed
  <2> QED
    BY <2>1, <2>2, CalmSilent
<1> QED
  BY <1>2, <1>3, <1>4, <1>5, <1>6, <1>7, <1>8, <1>9, <1>10, <1>11

\* A client that goes, also in its maintenance.
LEMMA UnregisterSilent ==
  ASSUME TypesInv, HostInv, SilentInv, NEW c \in Clients, Unregister(c)
  PROVE  SilentInv'
<1>1. dev \in Device /\ c # NoClient
  BY KeyerAssumption DEF TypesInv
<1>2. OpenKept
  BY UnregisterTyped
<1>3. CASE maint # NoClient \/ reopening
  <2>1. ~Owns(c) /\ Cancels(Selection(queue, JobsOf(c))) = <<>>
    BY <1>3, NothingQueued DEF Owns
  <2>2. Perform((IF maint = c THEN <<HostOpen>> ELSE <<>>) \o <<>>)
    BY <2>1 DEF Unregister
  <2>3. <<HostOpen>> \o <<>> = <<HostOpen>> /\ <<>> \o <<>> = <<>>
    OBVIOUS
  <2>4. Perform(<<HostOpen>>) \/ Perform(<<>>)
    BY <2>2, <2>3
  <2>5. Silent(dev) => Silent(dev')
    BY <1>1, <2>4, StillLists, StillPerformed
  <2> QED
    BY <1>2, <1>3, <2>5 DEF SilentInv, OpenKept, Shut
<1>4. CASE maint = NoClient /\ ~reopening
  <2>1. UNCHANGED <<maint, reopening>>
    BY <1>1, <1>4 DEF Unregister, TypesInv, KeyerTypeOK
  <2> QED
    BY <1>2, <1>4, <2>1, RefusedSilent
<1> QED
  BY <1>3, <1>4

\* Maintenance silences the keyer before it takes it out of host mode, ...
LEMMA MaintainSilent ==
  ASSUME TypesInv, HostInv, SilentInv, NEW c \in Clients, Maintain(c)
  PROVE  SilentInv'
<1> SUFFICES ASSUME link' = "up" PROVE Silent(dev')
  BY DEF SilentInv, Shut
<1>1. dev \in Device /\ Shut(dev)
  BY DEF TypesInv, SilentInv, Maintain
<1>2. PICK ws \in Seq(Quiet) : ws = MaintainWrites
  BY MaintainWritesTyped
<1>3. Perform(ws)
  BY <1>2 DEF Maintain, MaintainWrites
<1>4. dev' = ObeyAll(dev, ws)
  BY <1>3, PerformSent DEF Sent, Maintain
<1>5. {Clear, KeyUp, HostClose, Admin} \subseteq Still
  BY StillLists
<1>6. CASE maint # NoClient
  <2>1. ws = <<>> \o <<Admin>>
    BY <1>2, <1>6 DEF MaintainWrites
  <2>2. ws = <<Admin>>
    BY <2>1
  <2>3. <<Admin>> \in Seq(Still)
    BY <1>5
  <2>4. Leads(ws, Still)
    BY <2>2, <2>3, StillLists, LeadsAll
  <2>5. Silent(dev)
    BY <1>6 DEF SilentInv, Maintain
  <2> QED
    BY <1>1, <1>3, <2>4, <2>5, StillPerformed
<1>7. CASE maint = NoClient
  <2>1. ws = <<Clear, KeyUp, HostClose>> \o <<Admin>>
    BY <1>2, <1>7 DEF MaintainWrites
  <2>2. Len(ws) = 4 /\ ws[1] = Clear /\ ws[2] = KeyUp /\ ws[3] = HostClose /\ ws[4] = Admin
    <3>1. Clear \in Quiet /\ KeyUp \in Quiet /\ HostClose \in Quiet /\ Admin \in Quiet
      BY DEF Quiet, Harmless
    <3>2. PICK u \in Seq(Quiet) : u = <<Clear, KeyUp, HostClose>>
      <4>1. <<Clear, KeyUp, HostClose>> \in Seq(Quiet)
        BY <3>1
      <4> QED
        BY <4>1
    <3>3. PICK v \in Seq(Quiet) : v = <<Admin>>
      <4>1. <<Admin>> \in Seq(Quiet)
        BY <3>1
      <4> QED
        BY <4>1
    <3>4. Len(u) = 3 /\ u[1] = Clear /\ u[2] = KeyUp /\ u[3] = HostClose
      BY <3>2
    <3>5. Len(v) = 1 /\ v[1] = Admin
      BY <3>3
    <3>6. ws = u \o v
      BY <2>1, <3>2, <3>3
    <3>7. /\ Len(ws) = Len(u) + Len(v)
          /\ \A i \in 1 .. Len(u) + Len(v) : ws[i] = IF i <= Len(u) THEN u[i] ELSE v[i - Len(u)]
      BY <3>6
    <3>8. \A i \in 1 .. 4 : ws[i] = IF i <= 3 THEN u[i] ELSE v[i - 3]
      BY <3>4, <3>5, <3>7
    <3>9. ws[1] = u[1] /\ ws[2] = u[2] /\ ws[3] = u[3] /\ ws[4] = v[1]
      BY <3>8
    <3>10. Len(ws) = 4
      BY <3>4, <3>5, <3>7
    <3>11. ws[1] = Clear /\ ws[2] = KeyUp /\ ws[3] = HostClose
      BY <3>4, <3>9
    <3>12. ws[4] = Admin
      BY <3>5, <3>9
    <3> QED
      BY <3>10, <3>11, <3>12
  <2>3. PICK g : Obeyed(dev, ws, Len(ws), g) /\ g[Len(ws)] = ObeyAll(dev, ws)
    BY ObeyPrefix
  <2>4. /\ g[0] = dev /\ g[1] = Obey(dev, Clear) /\ g[2] = Obey(g[1], KeyUp)
        /\ g[3] = Obey(g[2], HostClose) /\ g[4] = Obey(g[3], Admin)
    BY <2>2, <2>3 DEF Obeyed
  <2>5. {Clear, KeyUp, HostClose, Admin} \subseteq Written
    BY <1>5 DEF Still
  <2>6. \A d \in Device, w \in {Clear, KeyUp, HostClose, Admin} :
          Obey(d, w) \in Device /\ Quieter(d, Obey(d, w))
    <3> SUFFICES ASSUME NEW d \in Device, NEW w \in {Clear, KeyUp, HostClose, Admin}
                 PROVE  Obey(d, w) \in Device /\ Quieter(d, Obey(d, w))
      OBVIOUS
    <3>1. w \in Written /\ w # KeyDown /\ w \notin Texts
      BY <1>5 DEF Still
    <3> QED
      BY <3>1, WrittenTyped, WrittenQuieter
  <2>7. g[1] \in Device /\ g[1].text = <<>> /\ Shut(g[1])
    <3>1. g[1] \in Device /\ Quieter(dev, g[1]) /\ (dev.open => g[1].open)
      BY <1>1, <2>4, <2>6, MildObeyed DEF Mild, Harmless
    <3>2. CASE dev.open
      BY <1>1, <2>4, <3>1, <3>2, Silenced DEF Shut
    <3>3. CASE ~dev.open
      BY <1>1, <3>1, <3>3 DEF Shut, Silent, Quieter
    <3> QED
      BY <3>2, <3>3
  <2>8. g[2] \in Device /\ Silent(g[2])
    <3>1. g[2] \in Device /\ Quieter(g[1], g[2])
      BY <2>4, <2>6, <2>7
    <3>2. CASE g[1].open
      BY <2>4, <2>7, <3>1, <3>2, Silenced DEF Silent, Quieter
    <3>3. CASE ~g[1].open
      BY <2>7, <3>1, <3>3 DEF Shut, Silent, Quieter
    <3> QED
      BY <3>2, <3>3
  <2>9. g[3] \in Device /\ Silent(g[3])
    BY <2>4, <2>6, <2>8 DEF Silent, Quieter
  <2>10. Silent(g[4])
    BY <2>4, <2>6, <2>9 DEF Silent, Quieter
  <2> QED
    BY <1>4, <2>2, <2>3, <2>10
<1> QED
  BY <1>6, <1>7

\* ... and its end does not make it key.
LEMMA ReleaseMaintenanceSilent ==
  ASSUME TypesInv, SilentInv, NEW c \in Clients, ReleaseMaintenance(c)
  PROVE  SilentInv'
<1>1. dev \in Device /\ maint # NoClient
  BY KeyerAssumption DEF TypesInv, ReleaseMaintenance
<1>2. OpenKept /\ Perform(<<HostOpen>>)
  BY ReleaseMaintenanceTyped DEF ReleaseMaintenance
<1>3. Silent(dev) => Silent(dev')
  BY <1>1, <1>2, StillLists, StillPerformed
<1> QED
  BY <1>1, <1>2, <1>3 DEF SilentInv, OpenKept, Shut

\* Bytes of the keyer.
LEMMA ReadSilent ==
  ASSUME TypesInv, HostInv, SilentInv, Read
  PROVE  SilentInv'
<1>1. dev \in Device
  BY DEF TypesInv
<1>2. CASE ReadFirmware
  <2>1. OpenKept
    BY <1>2, ReadFirmwareTyped
  <2>2. dev.up # <<>> /\ reopening /\ ~reopening' /\ maint' = maint
    BY <1>2 DEF ReadFirmware, Reading
  <2>3. Leads(FirmwareWrites, Still)
    <3>1. SetWpm("pot") \in Still /\ {Clear, KeyUp, StatusRequest} \subseteq Still
      BY StillLists, KeyerAssumption DEF Settings
    <3> QED
      BY <2>2, <3>1 DEF Leads, FirmwareWrites
  <2>4. PICK ws \in Seq(Still) : ws = RestoreWrites(Foreground(clients), NoClient)
    <3>1. ProfilesOK /\ clients \subseteq Clients
      BY DEF TypesInv, KeyerTypeOK, ProfilesOK
    <3>2. Foreground(clients) \in Clients \cup {NoClient}
      BY <3>1, ForegroundTyped
    <3>3. RestoreWrites(Foreground(clients), NoClient) \in Seq(Settings)
      BY <3>1, <3>2, RestoreTyped
    <3>4. RestoreWrites(Foreground(clients), NoClient) \in Seq(Still)
      BY <3>3, StillLists, SeqWider
    <3> QED
      BY <3>4
  <2>5. Leads(FirmwareWrites \o ws, Still)
    BY <2>3, StillLists, LeadsOn
  <2>6. Perform(FirmwareWrites \o ws)
    BY <1>2, <2>4 DEF ReadFirmware, RestoreForeground, FirmwareWrites
  <2>7. Silent(dev) => Silent(dev')
    BY <1>1, <2>5, <2>6, StillPerformed
  <2> QED
    BY <2>1, <2>2, <2>7 DEF SilentInv, OpenKept
<1>3. CASE ReadMaintenance
  <2>1. OpenKept /\ Perform(<<ByteRead>>) /\ dev.up # <<>>
    BY <1>3, ReadMaintenanceTyped DEF ReadMaintenance, Reading
  <2>2. Leads(<<ByteRead>>, Still)
    BY <2>1, LeadsRead
  <2>3. Silent(dev) => Silent(dev')
    BY <1>1, <2>1, <2>2, StillPerformed
  <2> QED
    BY <1>3, <2>1, <2>3, CalmSilent DEF ReadMaintenance
<1>4. CASE ReadEcho
  BY <1>4, ReadEchoTyped, RefusedSilent DEF ReadEcho, InSession
<1>5. CASE ReadStatus
  BY <1>5, ReadStatusTyped, RefusedSilent DEF ReadStatus, InSession
<1> QED
  BY <1>2, <1>3, <1>4, <1>5 DEF Read

\* Ticks, and an emergency stop, which ends maintenance.
LEMMA TickSilent ==
  ASSUME TypesInv, HostInv, SilentInv, Stop \/ Watchdog \/ Settle \/ Poll \/ Tick
  PROVE  SilentInv'
<1>1. dev \in Device
  BY DEF TypesInv
<1>2. maint # NoClient \/ reopening => active = NoJob
  BY DEF HostInv, MaintenanceWaits
<1>3. CASE Stop
  BY <1>3, StopTyped DEF Stop, SilentInv, OpenKept
<1>4. CASE Watchdog
  BY <1>2, <1>4, WatchdogTyped, RefusedSilent DEF Watchdog
<1>5. CASE Settle
  BY <1>2, <1>5, SettleTyped, RefusedSilent DEF Settle
<1>6. CASE Poll
  <2>1. OpenKept /\ Perform(<<StatusRequest>>)
    BY <1>6, PollTyped DEF Poll
  <2>2. Silent(dev) => Silent(dev')
    BY <1>1, <2>1, StillLists, StillPerformed
  <2> QED
    BY <1>6, <2>1, <2>2, CalmSilent DEF Poll
<1>7. CASE Tick
  BY <1>7 DEF Tick, SilentInv
<1> QED
  BY <1>3, <1>4, <1>5, <1>6, <1>7

\* A session begins with a keyer that was set up anew.
LEMMA TransportSilent ==
  ASSUME TypesInv, SilentInv,
         LinkLost \/ SessionError \/ Reconnect \/ ReconnectFailed \/ Shutdown
  PROVE  SilentInv'
<1>1. CASE LinkLost \/ SessionError \/ ReconnectFailed
  BY <1>1 DEF LinkLost, SessionError, ReconnectFailed, SilentInv
<1>2. CASE Shutdown
  BY <1>2, ShutdownTells DEF SilentInv
<1>3. CASE Reconnect
  <2> DEFINE D == {d \in Device : Silent(d)}
  <2>1. Initialised(dev) \in D
    BY InitialisedSilent DEF TypesInv
  <2>2. PICK ws \in Seq(Settings) : ws = RestoreWrites(Foreground(clients), NoClient)
    <3>1. ProfilesOK /\ clients \subseteq Clients
      BY DEF TypesInv, KeyerTypeOK, ProfilesOK
    <3>2. Foreground(clients) \in Clients \cup {NoClient}
      BY <3>1, ForegroundTyped
    <3>3. RestoreWrites(Foreground(clients), NoClient) \in Seq(Settings)
      BY <3>1, <3>2, RestoreTyped
    <3> QED
      BY <3>3
  <2>3. ASSUME NEW d \in D, NEW w \in Settings PROVE Obey(d, w) \in D
    <3>1. w \in Written /\ w # KeyDown /\ w \notin Texts
      BY StillLists DEF Still
    <3> QED
      BY <3>1, WrittenTyped, WrittenQuieter DEF Silent, Quieter
  <2> HIDE DEF D
  <2>4. ObeyAll(Initialised(dev), ws) \in D
    BY <2>1, <2>3, AllKeep
  <2>5. dev' \in D
    BY <1>3, <2>2, <2>4 DEF Reconnect
  <2> QED
    BY <2>5 DEF D, SilentInv, Shut
<1> QED
  BY <1>1, <1>2, <1>3

\* The keyer by itself keys its text only.
LEMMA DeviceSilent ==
  ASSUME TypesInv, SilentInv, DeviceReport \/ DeviceKeys \/ Paddle
  PROVE  SilentInv'
<1>1. dev \in Device
  BY DEF TypesInv
<1>2. PICK d : DeviceStep(d) /\ (dev.open => d.open) /\ (Silent(dev) => Silent(d))
  <2>1. CASE DeviceReport
    <3>1. PICK b \in Statuses : b = DeviceStatus(dev)
      BY DeviceStatusTyped
    <3>2. PICK e : e = [dev EXCEPT !.said = b]
      OBVIOUS
    <3>3. e \in Device /\ e.text = dev.text /\ e.key = dev.key /\ e.open = dev.open
      BY <1>1, <3>2 DEF Device
    <3>4. Reported(dev) = Send(e, b)
      BY <3>1, <3>2 DEF Reported
    <3>5. (dev.open => Reported(dev).open) /\ (Silent(dev) => Silent(Reported(dev)))
      BY <3>3, <3>4, SendQuieter DEF Silent
    <3> QED
      BY <2>1, <3>5 DEF DeviceReport
  <2>2. CASE DeviceKeys
    <3>1. PICK x : x = Tail(dev.text)
      OBVIOUS
    <3>2. Keyed(dev) = [dev EXCEPT !.text = x]
      BY <3>1 DEF Keyed
    <3>3. Keyed(dev).open = dev.open
      BY <1>1, <3>2 DEF Device
    <3>4. ~Silent(dev)
      BY <2>2 DEF DeviceKeys, Silent
    <3> QED
      BY <2>2, <3>3, <3>4 DEF DeviceKeys
  <2>3. CASE Paddle
    <3>1. PICK e : e = [dev EXCEPT !.paddle = ~@]
      OBVIOUS
    <3>2. e.open = dev.open /\ e.text = dev.text /\ e.key = dev.key
      BY <1>1, <3>1 DEF Device
    <3> QED
      BY <2>3, <3>1, <3>2 DEF Paddle, Silent
  <2> QED
    BY <2>1, <2>2, <2>3
<1> QED
  BY <1>2 DEF DeviceStep, SilentInv, Shut

\* No step breaks the invariant.
LEMMA NextSilent == TypesInv /\ HostInv /\ SilentInv /\ [Next]_vars => SilentInv'
<1> SUFFICES ASSUME TypesInv, HostInv, SilentInv, [Next]_vars PROVE SilentInv'
  OBVIOUS
<1>1. CASE UNCHANGED vars
  BY <1>1 DEF vars, SilentInv
<1>2. ASSUME NEW c \in Clients, ClientRequest(c) PROVE SilentInv'
  <2>1. \A j \in 1 .. nextJob - 1 : j \in JobIds
    <3>1. nextJob \in 1 .. MaxJobs + 1 /\ MaxJobs \in Nat
      BY KeyerAssumption DEF TypesInv, KeyerTypeOK
    <3> QED
      BY <3>1 DEF JobIds
  <2>2. desired[c] \in Speeds
    BY DEF TypesInv, KeyerTypeOK
  <2>3. ASSUME NEW j \in 1 .. nextJob - 1, CancelJob(c, j) PROVE SilentInv'
    BY <2>1, <2>3, RequestSilent
  <2>4. ASSUME NEW x \in Speeds, Enqueue(c, x, FALSE) PROVE SilentInv'
    BY <2>4, RequestSilent
  <2>5. ASSUME NEW x \in {desired[c], "own"}, Enqueue(c, x, TRUE) PROVE SilentInv'
    BY <2>2, <2>5, RequestSilent
  <2>6. CASE StreamOn(c) \/ StreamQueued(c) \/ EnqueueUnconnected(c) \/ Cancel(c) \/ Register(c)
    BY <2>6, RequestSilent
  <2>7. CASE \/ \E x \in Speeds : SetSpeed(c, x)
             \/ \E r \in Regs, v \in Vals : Configure(c, r, v)
             \/ \E w \in {KeyDown, KeyUp} : KeyImmediate(c, w)
    BY <2>7, RequestSilent
  <2>8. CASE Unregister(c)
    BY <2>8, UnregisterSilent
  <2>9. CASE Maintain(c) \/ ReleaseMaintenance(c)
    BY <2>9, MaintainSilent, ReleaseMaintenanceSilent
  <2> QED
    BY <1>2, <2>3, <2>4, <2>5, <2>6, <2>7, <2>8, <2>9 DEF ClientRequest
<1>3. CASE Stop \/ Watchdog \/ Settle \/ Poll \/ Tick
  BY <1>3, TickSilent
<1>4. CASE Read
  BY <1>4, ReadSilent
<1>5. CASE LinkLost \/ SessionError \/ Reconnect \/ ReconnectFailed \/ Shutdown
  BY <1>5, TransportSilent
<1>6. CASE DeviceReport \/ DeviceKeys \/ Paddle
  BY <1>6, DeviceSilent
<1>7. CASE CatLease \/ LeaseExpiry
  BY <1>7 DEF CatLease, LeaseExpiry, SilentInv
<1> QED
  BY <1>1, <1>2, <1>3, <1>4, <1>5, <1>6, <1>7 DEF Next

\* "It clears the buffer and removes keying": for any clients, profiles and bounds,
\* also when a transmission by hand was under way, a keyer in maintenance, or not
\* yet restored after it, has no text to key and no key held down by a client, and no
\* job runs or waits.
THEOREM MaintenanceIsSilent == Spec => []MaintenanceSilent
<1>1. Init => TypesInv /\ HostInv /\ SilentInv
  BY InitTyped, InitHost, InitSilent
<1>2. TypesInv /\ HostInv /\ SilentInv /\ [Next]_vars => TypesInv' /\ HostInv' /\ SilentInv'
  BY NextTypes, NextHost, NextSilent
<1>3. TypesInv /\ HostInv /\ SilentInv => MaintenanceSilent
  BY DEF HostInv, SilentInv, Silent, MaintenanceSilent
<1> QED
  BY <1>1, <1>2, <1>3, PTL DEF Spec

\* For any clients, profiles and bounds every variable of the broker, the actor and
\* the keyer has its type, the job counter its bound and the queue jobs only.
THEOREM KeyerTyped == Spec => []KeyerTypeOK
<1>1. TypesInv => KeyerTypeOK
  BY DEF TypesInv
<1> QED
  BY <1>1, InitTyped, NextTypes, PTL DEF Spec

------------------------------------------------------------------------------
(***************************************************************************)
(* Arrival order                                                           *)
(***************************************************************************)

Ascending(q) == \A i, k \in 1 .. Len(q) : i < k => q[i].id < q[k].id

\* The jobs of t are those of the first n of s that are in S, in their order.
Thinned(t, s, n, S) ==
  /\ t \in Seq(Job) /\ Ascending(t)
  /\ \A i \in 1 .. Len(t) : \E k \in 1 .. n : t[i] = s[k] /\ s[k] \in S
  /\ \A k \in 1 .. n : s[k] \in S => \E i \in 1 .. Len(t) : t[i] = s[k]

\* One more job behind them.
LEMMA ThinnedOn ==
  ASSUME NEW s \in Seq(Job), Ascending(s), NEW S, NEW m \in 1 .. Len(s), NEW t, Thinned(t, s, m - 1, S)
  PROVE  Thinned(IF s[m] \in S THEN Append(t, s[m]) ELSE t, s, m, S)
<1>1. /\ Len(s) \in Nat /\ m \in Nat /\ s[m] \in Job /\ \A k \in 1 .. m - 1 : k \in 1 .. Len(s) /\ k < m
      /\ \A k \in 1 .. m : k \in 1 .. m - 1 \/ k = m
      /\ \A k \in 1 .. m - 1 : k \in 1 .. m
  OBVIOUS
<1>2. PICK u \in Seq(Job) : u = t /\ Len(u) \in Nat
  BY DEF Thinned
<1>3. /\ Ascending(u)
      /\ \A i \in 1 .. Len(u) : \E k \in 1 .. m - 1 : u[i] = s[k] /\ s[k] \in S
      /\ \A k \in 1 .. m - 1 : s[k] \in S => \E i \in 1 .. Len(u) : u[i] = s[k]
  BY <1>2 DEF Thinned
<1>4. CASE s[m] \notin S
  <2>1. \A k \in 1 .. m : s[k] \in S => \E i \in 1 .. Len(u) : u[i] = s[k]
    BY <1>1, <1>3, <1>4
  <2>2. \A i \in 1 .. Len(u) : \E k \in 1 .. m : u[i] = s[k] /\ s[k] \in S
    BY <1>1, <1>3
  <2> QED
    BY <1>2, <1>3, <1>4, <2>1, <2>2 DEF Thinned
<1>5. CASE s[m] \in S
  <2>1. PICK v \in Seq(Job) : v = Append(u, s[m]) /\ Len(v) = Len(u) + 1
    <3>1. Append(u, s[m]) \in Seq(Job) /\ Len(Append(u, s[m])) = Len(u) + 1
      BY <1>1
    <3> QED
      BY <3>1
  <2>2. /\ v[Len(v)] = s[m] /\ \A i \in 1 .. Len(u) : v[i] = u[i]
    BY <1>1, <1>2, <2>1
  <2>3. \A i \in 1 .. Len(v) : i \in 1 .. Len(u) \/ i = Len(v)
    BY <1>2, <2>1
  <2>4. \A i \in 1 .. Len(u) : u[i].id < s[m].id
    BY <1>1, <1>3 DEF Ascending
  <2>5. Ascending(v)
    <3> SUFFICES ASSUME NEW i \in 1 .. Len(v), NEW k \in 1 .. Len(v), i < k
                 PROVE  v[i].id < v[k].id
      BY DEF Ascending
    <3>1. i \in 1 .. Len(u)
      BY <1>2, <2>1
    <3>2. CASE k = Len(v)
      BY <2>2, <2>4, <3>1, <3>2
    <3>3. CASE k \in 1 .. Len(u)
      BY <1>3, <2>2, <3>1, <3>3 DEF Ascending
    <3> QED
      BY <2>3, <3>2, <3>3
  <2>6. \A i \in 1 .. Len(v) : \E k \in 1 .. m : v[i] = s[k] /\ s[k] \in S
    <3>1. m \in 1 .. m
      BY <1>1
    <3> QED
      BY <1>1, <1>3, <1>5, <2>2, <2>3, <3>1
  <2>7. \A k \in 1 .. m : s[k] \in S => \E i \in 1 .. Len(v) : v[i] = s[k]
    <3>1. Len(v) \in 1 .. Len(v) /\ \A i \in 1 .. Len(u) : i \in 1 .. Len(v)
      BY <1>2, <2>1
    <3> QED
      BY <1>1, <1>3, <2>2, <3>1
  <2> QED
    BY <1>2, <1>5, <2>1, <2>5, <2>6, <2>7 DEF Thinned
<1> QED
  BY <1>4, <1>5

\* Taking jobs from the queue does not change the order of the others.
LEMMA SelectionThinned ==
  ASSUME NEW s \in Seq(Job), Ascending(s), NEW S
  PROVE  Thinned(Selection(s, S), s, Len(s), S)
<1>1. Len(s) \in Nat
  OBVIOUS
<1>2. PICK g : Kept(s, S, Len(s), g) /\ Selection(s, S) = g[Len(s)]
  BY <1>1, SelectionKept
<1> DEFINE Bad == {i \in 0 .. Len(s) : ~Thinned(g[i], s, i, S)}
<1>3. Bad \subseteq Nat
  OBVIOUS
<1>4. CASE Bad # {}
  <2>1. PICK i \in Bad : \A j \in Bad : i <= j
    <3> HIDE DEF Bad
    <3> QED
      BY <1>3, <1>4, Least
  <2>2. i \in 0 .. Len(s) /\ ~Thinned(g[i], s, i, S)
    BY <2>1
  <2>3. i # 0
    <3>1. g[0] = <<>>
      BY <1>2 DEF Kept
    <3>2. <<>> \in Seq(Job) /\ Len(<<>>) = 0
      OBVIOUS
    <3>3. Thinned(<<>>, s, 0, S)
      BY <3>2 DEF Thinned, Ascending
    <3> QED
      BY <2>2, <3>1, <3>3
  <2>4. i \in 1 .. Len(s) /\ i - 1 \in 0 .. Len(s) /\ i - 1 \notin Bad
    BY <2>1, <2>2, <2>3
  <2>5. Thinned(g[i - 1], s, i - 1, S)
    BY <2>4
  <2>6. g[i] = IF s[i] \in S THEN Append(g[i - 1], s[i]) ELSE g[i - 1]
    BY <1>2, <2>4 DEF Kept
  <2> HIDE DEF Bad
  <2> QED
    BY <2>2, <2>4, <2>5, <2>6, ThinnedOn
<1>5. CASE Bad = {}
  <2>1. Len(s) \in 0 .. Len(s)
    BY <1>1
  <2> QED
    BY <1>2, <1>5, <2>1
<1> QED
  BY <1>4, <1>5

\* The first job leaves the others in their order.
LEMMA TailAscends ==
  ASSUME NEW q \in Seq(Job), q # <<>>, Ascending(q)
  PROVE  /\ Ascending(Tail(q))
         /\ \A k \in 1 .. Len(Tail(q)) : Head(q).id < Tail(q)[k].id /\ Tail(q)[k] = q[k + 1] /\ k + 1 \in 1 .. Len(q)
         /\ Head(q) = q[1] /\ 1 \in 1 .. Len(q)
<1>1. PICK t \in Seq(Job) : t = Tail(q) /\ Len(t) = Len(q) - 1 /\ \A k \in 1 .. Len(t) : t[k] = q[k + 1]
  BY HeadTailProperties
<1>2. Len(q) \in Nat /\ Len(q) >= 1 /\ Head(q) = q[1]
  OBVIOUS
<1>3. \A k \in 1 .. Len(t) : k + 1 \in 1 .. Len(q) /\ 1 < k + 1
  BY <1>1, <1>2
<1>4. 1 \in 1 .. Len(q)
  BY <1>2
<1>5. \A i, k \in 1 .. Len(t) : i < k => t[i].id < t[k].id
  BY <1>1, <1>3 DEF Ascending
<1>6. \A k \in 1 .. Len(t) : q[1].id < t[k].id
  BY <1>1, <1>3, <1>4 DEF Ascending
<1> QED
  BY <1>1, <1>2, <1>3, <1>4, <1>5, <1>6 DEF Ascending

\* What is written with the text of one job.
Spoken(j, c) == Quiet \cup {Text(j, c)}

Ordered(t) == \A i, k \in 1 .. Len(t) : i < k => t[i].job < t[k].job \/ t[i] = t[k]

\* The keyer while job j of client c, or none, is at the end of its FIFO.
Follows(j, c) ==
  {d \in Device :
     /\ Ordered(d.text)
     /\ \A i \in 1 .. Len(d.text) :
          d.text[i].job <= j /\ (d.text[i].job = j => d.text[i].client = c)}

\* Writes besides texts leave the FIFO alone or clear it.
LEMMA QuietObeyed ==
  ASSUME NEW d \in Device, NEW w \in Quiet
  PROVE  Obey(d, w) \in Device /\ Obey(d, w).text \in {d.text, <<>>}
<1>1. CASE w \in Harmless
  BY <1>1, HarmlessObeyed DEF HarmlessDone
<1>2. CASE \E r \in Regs, v \in Vals \cup {Unset} : w = SetReg(r, v)
  <2>1. PICK r \in Regs, v \in Vals \cup {Unset} : w = SetReg(r, v)
    BY <1>2
  <2>2. RegDone(d, r, v)
    BY RegObeyed
  <2> QED
    BY <2>1, <2>2 DEF RegDone
<1>3. CASE \E s \in Speeds : w = SetWpm(s)
  <2>1. PICK x \in Speeds : w = SetWpm(x)
    BY <1>3
  <2>2. SpeedDone(d, x)
    BY SpeedObeyed
  <2> QED
    BY <2>1, <2>2 DEF SpeedDone
<1>4. CASE w \in {HostClose, Admin}
  BY <1>4, CloseObeyed, AdminObeyed
<1> QED
  BY <1>1, <1>2, <1>3, <1>4 DEF Quiet, Settings

\* So they keep its order, ...
LEMMA FollowsQuiet ==
  ASSUME NEW j \in Nat, NEW c, NEW d \in Follows(j, c), NEW w \in Quiet
  PROVE  Obey(d, w) \in Follows(j, c)
<1>1. d \in Device
  BY DEF Follows
<1>2. Obey(d, w) \in Device /\ Obey(d, w).text \in {d.text, <<>>}
  BY <1>1, QuietObeyed
<1>3. Len(<<>>) = 0
  OBVIOUS
<1>4. CASE Obey(d, w).text = <<>>
  BY <1>2, <1>3, <1>4 DEF Follows, Ordered
<1>5. CASE Obey(d, w).text = d.text
  BY <1>2, <1>5 DEF Follows
<1> QED
  BY <1>2, <1>4, <1>5

\* ... the host's reading of a byte keeps it ...
LEMMA FollowsRead ==
  ASSUME NEW j, NEW c, NEW d \in Follows(j, c), d.up # <<>>
  PROVE  Obey(d, ByteRead) \in Follows(j, c)
BY ReadObeyed DEF Follows, Kept4

\* ... and more text of the job goes behind it.
LEMMA FollowsText ==
  ASSUME NEW j \in JobIds, NEW c \in Clients, NEW d \in Follows(j, c)
  PROVE  Obey(d, Text(j, c)) \in Follows(j, c)
<1>1. d \in Device
  BY DEF Follows
<1>2. PICK e \in Device : /\ e = Obey(d, Text(j, c))
                          /\ e.text = IF d.open THEN Append(d.text, [job |-> j, client |-> c]) ELSE d.text
  BY <1>1, TextObeyed DEF TextDone
<1>3. CASE ~d.open
  BY <1>2, <1>3 DEF Follows
<1>4. CASE d.open
  <2>1. PICK p \in Piece : p = [job |-> j, client |-> c]
    BY DEF Piece
  <2>2. PICK t \in Seq(Piece) : t = d.text /\ Len(t) \in Nat
    <3>1. d.text \in Seq(Piece)
      BY <1>1, DeviceFields
    <3> QED
      BY <3>1
  <2>3. PICK u \in Seq(Piece) : u = Append(t, p) /\ Len(u) = Len(t) + 1
    <3>1. Append(t, p) \in Seq(Piece) /\ Len(Append(t, p)) = Len(t) + 1
      OBVIOUS
    <3> QED
      BY <3>1
  <2>4. e.text = u
    BY <1>2, <1>4, <2>1, <2>2, <2>3
  <2>5. u[Len(u)] = p /\ \A i \in 1 .. Len(t) : u[i] = t[i] /\ t[i] \in Piece
    BY <2>2, <2>3
  <2>6. \A i \in 1 .. Len(u) : i \in 1 .. Len(t) \/ i = Len(u)
    BY <2>2, <2>3
  <2>7. p.job = j /\ p.client = c /\ j \in Nat
    BY <2>1 DEF JobIds
  <2>8. \A i \in 1 .. Len(t) : t[i].job <= j /\ (t[i].job = j => t[i].client = c)
    BY <2>2 DEF Follows
  <2>9. \A i \in 1 .. Len(t) : t[i].job \in Nat /\ (t[i].job < j \/ t[i] = p)
    <3>1. \A x \in Piece : x.job \in Nat /\ x = [job |-> x.job, client |-> x.client]
      BY DEF Piece, JobIds
    <3> QED
      BY <2>1, <2>5, <2>7, <2>8, <3>1
  <2>10. \A i \in 1 .. Len(u) : u[i].job <= j /\ (u[i].job = j => u[i].client = c)
    BY <2>5, <2>6, <2>7, <2>8
  <2>11. Ordered(u)
    <3> SUFFICES ASSUME NEW i \in 1 .. Len(u), NEW k \in 1 .. Len(u), i < k
                 PROVE  u[i].job < u[k].job \/ u[i] = u[k]
      BY DEF Ordered
    <3>1. i \in 1 .. Len(t)
      BY <2>2, <2>3
    <3>2. CASE k = Len(u)
      BY <2>5, <2>7, <2>9, <3>1, <3>2
    <3>3. CASE k \in 1 .. Len(t)
      <4>1. Ordered(t)
        BY <2>2 DEF Follows
      <4> QED
        BY <2>5, <3>1, <3>3, <4>1 DEF Ordered
    <3> QED
      BY <2>6, <3>2, <3>3
  <2> QED
    BY <1>2, <2>4, <2>10, <2>11 DEF Follows
<1> QED
  BY <1>2, <1>3, <1>4

\* A later job may follow.
LEMMA FollowsOn ==
  ASSUME NEW j \in Nat, NEW k \in Nat, j < k, NEW c, NEW e, NEW d \in Follows(j, c)
  PROVE  d \in Follows(k, e)
<1>1. PICK t \in Seq(Piece) : t = d.text
  <2>1. d.text \in Seq(Piece)
    BY DeviceFields DEF Follows
  <2> QED
    BY <2>1
<1>2. \A i \in 1 .. Len(t) : t[i].job \in Nat /\ t[i].job <= j
  <2>1. \A x \in Piece : x.job \in Nat
    BY DEF Piece, JobIds
  <2> QED
    BY <1>1, <2>1 DEF Follows
<1>3. \A i \in 1 .. Len(t) : t[i].job <= k /\ t[i].job # k
  BY <1>2
<1> QED
  BY <1>1, <1>3 DEF Follows

\* A step that writes no text.
LEMMA PerformQuiet ==
  ASSUME NEW acts, Leads(acts, Quiet), NEW j \in Nat, NEW c, dev \in Follows(j, c),
         Perform(acts)
  PROVE  dev' \in Follows(j, c)
<1>1. PICK D : D = Follows(j, c)
  OBVIOUS
<1>2. \A d \in D, w \in Quiet : Obey(d, w) \in D
  BY <1>1, FollowsQuiet
<1>3. \A d \in D : d.up # <<>> => Obey(d, ByteRead) \in D
  BY <1>1, FollowsRead
<1>4. dev' \in D
  BY <1>1, <1>2, <1>3, PerformKeep
<1> QED
  BY <1>1, <1>4

\* A step that writes text of the job at the end.
LEMMA PerformSpoken ==
  ASSUME NEW j \in JobIds, NEW c \in Clients, NEW acts, Leads(acts, Spoken(j, c)), dev \in Follows(j, c),
         Perform(acts)
  PROVE  dev' \in Follows(j, c)
<1>1. PICK D : D = Follows(j, c)
  OBVIOUS
<1>2. \A d \in D, w \in Spoken(j, c) : Obey(d, w) \in D
  <2>1. j \in Nat
    BY DEF JobIds
  <2> QED
    BY <1>1, <2>1, FollowsQuiet, FollowsText DEF Spoken
<1>3. \A d \in D : d.up # <<>> => Obey(d, ByteRead) \in D
  BY <1>1, FollowsRead
<1>4. PICK W : W = Spoken(j, c)
  OBVIOUS
<1>5. dev' \in D
  BY <1>1, <1>2, <1>3, <1>4, PerformKeep
<1> QED
  BY <1>1, <1>5

\* Job j of client c, or none, is the last that was started: what waits is later.
Reached(j, c) ==
  /\ dev \in Follows(j, c) /\ j < nextJob
  /\ \A k \in 1 .. Len(queue) : j < queue[k].id
  /\ active # NoJob => active.job.id = j /\ active.job.client = c

\* Ids are given in order, the queue keeps them in order, and so does the keyer's
\* FIFO, which the next job to start follows.
OrderInv ==
  /\ Ascending(queue) /\ \A k \in 1 .. Len(queue) : queue[k].id < nextJob
  /\ \E j \in 0 .. MaxJobs, c \in Clients \cup {NoClient} : Reached(j, c)

\* What follows for the jobs pending.
LEMMA OrderKept ==
  ASSUME TypesInv, OrderInv
  PROVE  JobsInOrder
<1>1. PICK j \in 0 .. MaxJobs, c \in Clients \cup {NoClient} : Reached(j, c)
  BY DEF OrderInv
<1>2. NeverInterleaved
  <2>1. PICK t \in Seq(Piece) : t = dev.text
    <3>1. dev.text \in Seq(Piece)
      BY DeviceFields DEF TypesInv
    <3> QED
      BY <3>1
  <2>2. Ordered(t) /\ DOMAIN t = 1 .. Len(t)
    BY <1>1, <2>1 DEF Reached, Follows
  <2> QED
    BY <2>1, <2>2 DEF Ordered, NeverInterleaved
<1>3. PICK q \in Seq(Job) : q = queue /\ Len(q) \in Nat
  BY DEF TypesInv, KeyerTypeOK
<1>4. Ascending(q) /\ \A k \in 1 .. Len(q) : j < q[k].id
  BY <1>1, <1>3 DEF OrderInv, Reached
<1>5. CASE active = NoJob
  <2>1. <<>> \o q = q
    BY ConcatEmptySeq
  <2>2. Pending = q /\ DOMAIN q = 1 .. Len(q)
    BY <1>3, <1>5, <2>1 DEF Pending
  <2> QED
    BY <1>2, <1>4, <2>2 DEF Ascending, ArrivalOrder, JobsInOrder
<1>6. CASE active # NoJob
  <2>1. active \in Running
    BY <1>6 DEF TypesInv, KeyerTypeOK
  <2>2. PICK job \in Job : job = active.job
    BY <2>1, RunningFields
  <2>3. job.id = j
    BY <1>1, <1>6, <2>2 DEF Reached
  <2>4. PICK p \in Seq(Job) : p = <<job>> \o q /\ Len(p) = 1 + Len(q)
    <3>1. <<job>> \in Seq(Job) /\ Len(<<job>>) = 1
      OBVIOUS
    <3>2. <<job>> \o q \in Seq(Job) /\ Len(<<job>> \o q) = 1 + Len(q)
      BY <3>1, ConcatProperties
    <3> QED
      BY <3>2
  <2>5. p[1] = job /\ \A i \in 2 .. Len(p) : p[i] = q[i - 1] /\ i - 1 \in 1 .. Len(q)
    BY <1>3, <2>4
  <2>6. Pending = p /\ DOMAIN p = 1 .. Len(p) /\ Len(p) \in Nat
    BY <1>3, <1>6, <2>2, <2>4 DEF Pending
  <2>7. ArrivalOrder
    <3> SUFFICES ASSUME NEW i \in 1 .. Len(p), NEW k \in 1 .. Len(p), i < k
                 PROVE  p[i].id < p[k].id
      BY <2>6 DEF ArrivalOrder
    <3>1. k \in 2 .. Len(p)
      OBVIOUS
    <3>2. p[k] = q[k - 1] /\ k - 1 \in 1 .. Len(q)
      BY <2>5, <3>1
    <3>3. CASE i = 1
      BY <1>4, <2>3, <2>5, <3>2, <3>3
    <3>4. CASE i # 1
      <4>1. i \in 2 .. Len(p) /\ i - 1 < k - 1
        BY <3>4
      <4>2. p[i] = q[i - 1] /\ i - 1 \in 1 .. Len(q)
        BY <2>5, <4>1
      <4> QED
        BY <1>4, <3>2, <4>1, <4>2 DEF Ascending
    <3> QED
      BY <3>3, <3>4
  <2> QED
    BY <1>2, <2>7 DEF JobsInOrder
<1> QED
  BY <1>5, <1>6

\* The queue has no job it did not have, and those it has in their order.
QueueThinned ==
  /\ Ascending(queue')
  /\ \A i \in 1 .. Len(queue') : \E k \in 1 .. Len(queue) : queue'[i].id = queue[k].id

\* A step that starts no job, nor says anything.
LEMMA CalmOrder ==
  ASSUME TypesInv, OrderInv, QueueThinned, nextJob' = nextJob,
         active' = NoJob \/ (active # NoJob /\ active'.job.id = active.job.id
                                            /\ active'.job.client = active.job.client),
         \A j \in Nat, c \in Clients \cup {NoClient} : dev \in Follows(j, c) => dev' \in Follows(j, c)
  PROVE  OrderInv'
<1>1. PICK j \in 0 .. MaxJobs, c \in Clients \cup {NoClient} : Reached(j, c)
  BY DEF OrderInv
<1>2. j \in Nat
  BY KeyerAssumption
<1>3. dev' \in Follows(j, c)
  BY <1>1, <1>2 DEF Reached
<1>4. \A k \in 1 .. Len(queue') : j < queue'[k].id /\ queue'[k].id < nextJob
  BY <1>1 DEF QueueThinned, Reached, OrderInv
<1>5. Reached(j, c)'
  BY <1>1, <1>3, <1>4 DEF Reached
<1> QED
  BY <1>4, <1>5 DEF OrderInv, QueueThinned

\* A step that performs a list without texts.
LEMMA PlainOrder ==
  ASSUME TypesInv, OrderInv, QueueThinned, nextJob' = nextJob,
         active' = NoJob \/ (active # NoJob /\ active'.job.id = active.job.id
                                            /\ active'.job.client = active.job.client),
         NEW acts, Leads(acts, Quiet), Perform(acts)
  PROVE  OrderInv'
<1>1. \A j \in Nat, c \in Clients \cup {NoClient} : dev \in Follows(j, c) => dev' \in Follows(j, c)
  BY PerformQuiet
<1> QED
  BY <1>1, CalmOrder

\* start_next_or_restore, with the queue q.
LEMMA NextOrder ==
  ASSUME TypesInv, OrderInv, NEW registered \in SUBSET Clients, NEW q \in Seq(Job), NEW seen, NEW before,
         Leads(before, Quiet), StartNextOrRestore(registered, q, seen, before),
         Ascending(q), nextJob' \in Nat, nextJob <= nextJob',
         \A k \in 1 .. Len(q) : q[k].id < nextJob',
         \A j \in 0 .. MaxJobs, c \in Clients \cup {NoClient} :
           Reached(j, c) => \A k \in 1 .. Len(q) : j < q[k].id
  PROVE  OrderInv'
<1>1. PICK j \in 0 .. MaxJobs, c \in Clients \cup {NoClient} : Reached(j, c)
  BY DEF OrderInv
<1>2. /\ Perform(NextWrites(registered, q, seen, before))
      /\ queue' = IF q # <<>> THEN Tail(q) ELSE q
      /\ active' = IF q # <<>> THEN Begun(Head(q)) ELSE NoJob
  BY NextBegun
<1>3. ProfilesOK /\ nextJob \in Nat /\ j \in Nat
  BY KeyerAssumption DEF TypesInv, KeyerTypeOK, ProfilesOK
<1>4. Settings \subseteq Quiet /\ StatusRequest \in Quiet /\ ByteRead \notin Quiet
  BY NoRead DEF Quiet, Harmless, Written, Mild
<1>5. CASE q = <<>>
  <2>1. Perform(before \o RestoreWrites(Foreground(registered), seen))
    BY <1>2, <1>5 DEF NextWrites
  <2>2. Leads(before \o RestoreWrites(Foreground(registered), seen), Quiet)
    BY <1>3, <1>4, RestoreLeadsIn
  <2>3. dev' \in Follows(j, c)
    BY <1>1, <1>3, <2>1, <2>2, PerformQuiet DEF Reached
  <2>4. queue' = <<>> /\ active' = NoJob /\ Len(<<>>) = 0
    BY <1>2, <1>5
  <2>5. Reached(j, c)'
    BY <1>1, <1>3, <2>3, <2>4 DEF Reached
  <2> QED
    BY <2>4, <2>5 DEF OrderInv, Ascending
<1>6. CASE q # <<>>
  <2>1. PICK job \in Job : job = Head(q)
    BY <1>6
  <2>2. /\ Ascending(Tail(q)) /\ Head(q) = q[1] /\ 1 \in 1 .. Len(q)
        /\ \A k \in 1 .. Len(Tail(q)) : Head(q).id < Tail(q)[k].id /\ Tail(q)[k] = q[k + 1] /\ k + 1 \in 1 .. Len(q)
    BY <1>6, TailAscends
  <2>3. j < job.id /\ job.id < nextJob' /\ job.id \in JobIds /\ job.client \in Clients /\ job.id \in Nat
    BY <1>1, <2>1, <2>2, JobFields DEF JobIds
  <2>4. dev \in Follows(job.id, job.client)
    BY <1>1, <1>3, <2>3, FollowsOn DEF Reached
  <2>5. PICK W : W = Spoken(job.id, job.client)
    OBVIOUS
  <2>6. /\ Settings \subseteq W /\ StatusRequest \in W /\ Text(job.id, job.client) \in W
        /\ ByteRead \notin W /\ Quiet \subseteq W
    <3>1. Text(job.id, job.client) \in Written
      BY <2>3 DEF Written, Mild, Texts
    <3> QED
      BY <1>4, <2>5, <3>1, NoRead DEF Spoken
  <2>7. Leads(before, W)
    <3>1. PICK u \in Seq(Quiet \cup {ByteRead}) : u = before
      BY DEF Leads
    <3>2. u \in Seq(W \cup {ByteRead})
      BY <2>6, SeqWider
    <3> QED
      BY <2>6, <3>1, <3>2 DEF Leads
  <2>8. Leads(StartWrites(q, seen, before), W)
    BY <1>3, <1>6, <2>1, <2>6, <2>7, StartLeadsIn
  <2>9. Perform(StartWrites(q, seen, before))
    BY <1>2, <1>6 DEF NextWrites
  <2>10. dev' \in Follows(job.id, job.client)
    <3>1. PICK acts : acts = StartWrites(q, seen, before)
      OBVIOUS
    <3>2. Leads(acts, Spoken(job.id, job.client)) /\ Perform(acts)
      BY <2>5, <2>8, <2>9, <3>1
    <3> QED
      BY <2>3, <2>4, <3>2, PerformSpoken
  <2>11. queue' = Tail(q) /\ active' = Begun(job)
    BY <1>2, <1>6, <2>1
  <2>12. active'.job.id = job.id /\ active'.job.client = job.client
    BY <2>11 DEF Begun
  <2>13. Reached(job.id, job.client)'
    BY <2>1, <2>2, <2>3, <2>10, <2>11, <2>12 DEF Reached
  <2>14. \A k \in 1 .. Len(queue') : queue'[k].id < nextJob'
    BY <2>2, <2>11
  <2>15. job.id \in 0 .. MaxJobs
    BY <2>3, KeyerAssumption DEF JobIds
  <2> QED
    BY <2>2, <2>3, <2>11, <2>13, <2>14, <2>15 DEF OrderInv
<1> QED
  BY <1>5, <1>6

\* Lists without texts.
LEMMA QuietLists ==
  /\ <<>> \in Seq(Quiet)
  /\ \A s \in Speeds : <<SetWpm(s)>> \in Seq(Quiet)
  /\ \A r \in Regs, v \in Vals : <<SetReg(r, v)>> \in Seq(Quiet)
  /\ \A w \in {KeyDown, KeyUp, HostOpen, StatusRequest} : <<w>> \in Seq(Quiet)
<1>1. \A s \in Speeds : SetWpm(s) \in Quiet
  BY DEF Quiet, Settings
<1>2. \A r \in Regs, v \in Vals : SetReg(r, v) \in Quiet
  BY DEF Quiet, Settings
<1>3. \A w \in {KeyDown, KeyUp, HostOpen, StatusRequest} : w \in Quiet
  BY DEF Quiet, Harmless
<1> QED
  BY <1>1, <1>2, <1>3

\* Events and what clears the keyer are no texts.
LEMMA HarmlessQuiet ==
  ASSUME NEW s \in Seq(Harmless)
  PROVE  Leads(s, Quiet)
<1>1. s \in Seq(Quiet)
  BY NoRead, SeqWider
<1> QED
  BY <1>1, NoRead, LeadsAll

\* The queue as it was, emptied, or without some jobs.
LEMMA ThinnedQueue ==
  ASSUME TypesInv, OrderInv
  PROVE  /\ queue' = queue => QueueThinned
         /\ queue' = <<>> => QueueThinned
         /\ \A S : queue' = Selection(queue, S) => QueueThinned
<1>1. queue \in Seq(Job) /\ Ascending(queue)
  BY DEF TypesInv, KeyerTypeOK, OrderInv
<1>2. queue' = queue => QueueThinned
  BY <1>1 DEF QueueThinned, Ascending
<1>3. queue' = <<>> => QueueThinned
  <2>1. Len(<<>>) = 0
    OBVIOUS
  <2> QED
    BY <2>1 DEF QueueThinned, Ascending
<1>4. ASSUME NEW S, queue' = Selection(queue, S) PROVE QueueThinned
  <2>1. Thinned(queue', queue, Len(queue), S)
    BY <1>1, <1>4, SelectionThinned
  <2> QED
    BY <2>1 DEF Thinned, QueueThinned
<1> QED
  BY <1>2, <1>3, <1>4

\* A step that leaves the jobs alone and performs a list without texts.
LEMMA SameOrder ==
  ASSUME TypesInv, OrderInv, UNCHANGED <<queue, nextJob>>,
         active' = active \/ (active # NoJob /\ active'.job.id = active.job.id
                                             /\ active'.job.client = active.job.client),
         NEW acts, Leads(acts, Quiet), Perform(acts)
  PROVE  OrderInv'
<1>1. QueueThinned
  BY ThinnedQueue
<1>2. active' = NoJob \/ (active # NoJob /\ active'.job.id = active.job.id
                                         /\ active'.job.client = active.job.client)
  OBVIOUS
<1> QED
  BY <1>1, <1>2, PlainOrder

\* Requests that leave the jobs alone.
LEMMA SettingsOrder ==
  ASSUME TypesInv, OrderInv, NEW c \in Clients,
         \/ Register(c)
         \/ \E s \in Speeds : SetSpeed(c, s)
         \/ \E r \in Regs, v \in Vals : Configure(c, r, v)
         \/ \E w \in {KeyDown, KeyUp} : KeyImmediate(c, w)
         \/ Maintain(c) \/ ReleaseMaintenance(c)
  PROVE  OrderInv'
<1>1. CASE Register(c)
  <2>1. Leads(<<>>, Quiet) /\ Perform(<<>>) /\ UNCHANGED <<queue, nextJob, active>>
    BY <1>1, QuietLists, NoRead, LeadsAll DEF Register
  <2> QED
    BY <2>1, SameOrder
<1>2. ASSUME NEW s \in Speeds, SetSpeed(c, s) PROVE OrderInv'
  <2>1. PICK acts \in Seq(Quiet) : acts = IF AtOnce(c) THEN <<SetWpm(s)>> ELSE <<>>
    BY QuietLists
  <2>2. Leads(acts, Quiet) /\ Perform(acts) /\ UNCHANGED <<queue, nextJob, active>>
    BY <1>2, <2>1, NoRead, LeadsAll DEF SetSpeed
  <2> QED
    BY <2>2, SameOrder
<1>3. ASSUME NEW r \in Regs, NEW v \in Vals, Configure(c, r, v) PROVE OrderInv'
  <2>1. PICK acts \in Seq(Quiet) : acts = IF AtOnce(c) THEN <<SetReg(r, v)>> ELSE <<>>
    BY QuietLists
  <2>2. Leads(acts, Quiet) /\ Perform(acts) /\ UNCHANGED <<queue, nextJob, active>>
    BY <1>3, <2>1, NoRead, LeadsAll DEF Configure
  <2> QED
    BY <2>2, SameOrder
<1>4. ASSUME NEW w \in {KeyDown, KeyUp}, KeyImmediate(c, w) PROVE OrderInv'
  <2>1. <<w>> \in Seq(Quiet)
    BY QuietLists
  <2>2. Leads(<<w>>, Quiet) /\ Perform(<<w>>) /\ UNCHANGED <<queue, nextJob, active>>
    BY <1>4, <2>1, NoRead, LeadsAll DEF KeyImmediate, coreVars
  <2> QED
    BY <2>2, SameOrder
<1>5. CASE Maintain(c)
  <2>1. Leads(MaintainWrites, Quiet) /\ Perform(MaintainWrites) /\ UNCHANGED <<queue, nextJob, active>>
    BY <1>5, MaintainWritesTyped, NoRead, LeadsAll DEF Maintain, MaintainWrites, coreVars
  <2> QED
    BY <2>1, SameOrder
<1>6. CASE ReleaseMaintenance(c)
  <2>1. Leads(<<HostOpen>>, Quiet) /\ Perform(<<HostOpen>>) /\ UNCHANGED <<queue, nextJob, active>>
    BY <1>6, QuietLists, NoRead, LeadsAll DEF ReleaseMaintenance, coreVars
  <2> QED
    BY <2>1, SameOrder
<1> QED
  BY <1>1, <1>2, <1>3, <1>4, <1>5, <1>6

\* What is left of the queue still follows what was started.
LEMMA LeftOrder ==
  ASSUME TypesInv, OrderInv, NEW S
  PROVE  LET q == Selection(queue, S) IN
         /\ q \in Seq(Job) /\ Ascending(q)
         /\ \A k \in 1 .. Len(q) : q[k].id < nextJob
         /\ \A j \in 0 .. MaxJobs, c \in Clients \cup {NoClient} :
              Reached(j, c) => \A k \in 1 .. Len(q) : j < q[k].id
<1>1. queue \in Seq(Job) /\ Ascending(queue)
  BY DEF TypesInv, KeyerTypeOK, OrderInv
<1>2. PICK q \in Seq(Job) : q = Selection(queue, S) /\ Thinned(q, queue, Len(queue), S)
  BY <1>1, SelectionThinned DEF Thinned
<1>3. \A i \in 1 .. Len(q) : \E k \in 1 .. Len(queue) : q[i] = queue[k]
  BY <1>2 DEF Thinned
<1>4. \A k \in 1 .. Len(q) : q[k].id < nextJob
  BY <1>3 DEF OrderInv
<1>5. ASSUME NEW j \in 0 .. MaxJobs, NEW c \in Clients \cup {NoClient}, Reached(j, c)
      PROVE  \A k \in 1 .. Len(q) : j < q[k].id
  BY <1>3, <1>5 DEF Reached
<1> QED
  BY <1>2, <1>4, <1>5 DEF Thinned

\* start_next_or_restore with what is left.
LEMMA EndOrder ==
  ASSUME TypesInv, OrderInv, NEW registered \in SUBSET Clients, NEW S, NEW seen, NEW before,
         Leads(before, Quiet), nextJob' = nextJob,
         StartNextOrRestore(registered, Selection(queue, S), seen, before)
  PROVE  OrderInv'
<1>1. PICK q : q = Selection(queue, S)
  OBVIOUS
<1>2. /\ q \in Seq(Job) /\ Ascending(q)
      /\ \A k \in 1 .. Len(q) : q[k].id < nextJob
      /\ \A j \in 0 .. MaxJobs, c \in Clients \cup {NoClient} :
           Reached(j, c) => \A k \in 1 .. Len(q) : j < q[k].id
  BY <1>1, LeftOrder
<1>3. nextJob \in Nat /\ nextJob' \in Nat /\ nextJob <= nextJob'
  BY KeyerAssumption DEF TypesInv, KeyerTypeOK
<1>4. \A k \in 1 .. Len(q) : q[k].id < nextJob'
  BY <1>2
<1>5. StartNextOrRestore(registered, q, seen, before)
  BY <1>1
<1> QED
  BY <1>2, <1>3, <1>4, <1>5, NextOrder

\* The same with the whole queue.
LEMMA WholeOrder ==
  ASSUME TypesInv, OrderInv, NEW seen, NEW before,
         Leads(before, Quiet), nextJob' = nextJob, StartNextOrRestore(clients, queue, seen, before)
  PROVE  OrderInv'
<1>1. queue \in Seq(Job) /\ clients \in SUBSET Clients
  BY DEF TypesInv, KeyerTypeOK
<1>2. /\ Ascending(queue)
      /\ \A k \in 1 .. Len(queue) : queue[k].id < nextJob
      /\ \A j \in 0 .. MaxJobs, c \in Clients \cup {NoClient} :
           Reached(j, c) => \A k \in 1 .. Len(queue) : j < queue[k].id
  BY DEF OrderInv, Reached
<1>3. nextJob \in Nat /\ nextJob' \in Nat /\ nextJob <= nextJob'
  BY KeyerAssumption DEF TypesInv, KeyerTypeOK
<1>4. \A k \in 1 .. Len(queue) : queue[k].id < nextJob'
  BY <1>2
<1> QED
  BY <1>1, <1>2, <1>3, <1>4, NextOrder

\* A client that goes, and one that cancels.
LEMMA UnregisterOrder ==
  ASSUME TypesInv, OrderInv, NEW c \in Clients, Unregister(c)
  PROVE  OrderInv'
<1>1. BrokerTypes /\ JobTypes
  BY TypesParts
<1>2. PICK seen : seen = IF applied = c THEN NoClient ELSE applied
  OBVIOUS
<1>3. UnregisterWrites(c) \in Seq(Harmless) /\ nextJob' = nextJob
  BY <1>1, TakenTyped DEF JobTypes, Unregister
<1>4. CASE Owns(c)
  <2>1. StartNextOrRestore(clients', LeftOf(c), seen, EndedWrites(UnregisterWrites(c), active.job.id))
    BY <1>2, <1>4 DEF Unregister, LeftOf, UnregisterWrites, TakenOf, EndedWrites
  <2>2. active.job.id \in JobIds
    BY <1>1, <1>4, RunningFields DEF JobTypes, Owns
  <2>3. Leads(EndedWrites(UnregisterWrites(c), active.job.id), Quiet)
    BY <1>3, <2>2, EndedTyped, HarmlessQuiet
  <2>4. clients' \in SUBSET Clients
    BY <1>1 DEF BrokerTypes, Unregister
  <2> QED
    BY <1>3, <2>1, <2>3, <2>4, EndOrder DEF LeftOf
<1>5. CASE ~Owns(c)
  <2>1. queue' = LeftOf(c) /\ active' = active /\ Perform(UnregisterWrites(c))
    BY <1>5 DEF Unregister, LeftOf, UnregisterWrites, TakenOf
  <2>2. QueueThinned
    BY <2>1, ThinnedQueue DEF LeftOf
  <2>3. Leads(UnregisterWrites(c), Quiet)
    BY <1>3, HarmlessQuiet
  <2>4. active' = NoJob \/ (active # NoJob /\ active'.job.id = active.job.id
                                           /\ active'.job.client = active.job.client)
    BY <2>1
  <2> QED
    BY <1>3, <2>1, <2>2, <2>3, <2>4, PlainOrder
<1> QED
  BY <1>4, <1>5

\* A client's jobs are canceled, or one of them.
LEMMA CancelOrder ==
  ASSUME TypesInv, OrderInv, NEW c \in Clients, Cancel(c)
  PROVE  OrderInv'
<1>1. BrokerTypes /\ JobTypes
  BY TypesParts
<1>2. nextJob' = nextJob /\ clients \in SUBSET Clients /\ queue \in Seq(Job)
  BY <1>1 DEF Cancel, BrokerTypes, JobTypes
<1>3. CASE Owns(c)
  <2>1. StartNextOrRestore(clients, LeftOf(c), applied, CancelWrites(c))
    BY <1>3 DEF Cancel, LeftOf, TakenOf, CancelWrites
  <2>2. active \in Running
    BY <1>1, <1>3 DEF JobTypes, Owns
  <2>3. Leads(CancelWrites(c), Quiet)
    BY <1>2, <2>2, CancelWritesTyped, HarmlessQuiet
  <2> QED
    BY <1>2, <2>1, <2>3, EndOrder DEF LeftOf
<1>4. CASE ~Owns(c)
  <2>1. queue' = LeftOf(c) /\ active' = active /\ Perform(CancelIdleWrites(c))
    BY <1>4 DEF Cancel, LeftOf, TakenOf, CancelIdleWrites
  <2>2. QueueThinned
    BY <2>1, ThinnedQueue DEF LeftOf
  <2>3. Leads(CancelIdleWrites(c), Quiet)
    BY <1>2, CancelWritesTyped, HarmlessQuiet
  <2>4. active' = NoJob \/ (active # NoJob /\ active'.job.id = active.job.id
                                           /\ active'.job.client = active.job.client)
    BY <2>1
  <2> QED
    BY <1>2, <2>1, <2>2, <2>3, <2>4, PlainOrder
<1> QED
  BY <1>3, <1>4

\* CancelJob drops one job, running or not.
LEMMA CancelJobOrder ==
  ASSUME TypesInv, OrderInv, NEW c \in Clients, NEW j \in JobIds, CancelJob(c, j)
  PROVE  OrderInv'
<1>1. JobTypes /\ nextJob' = nextJob /\ queue \in Seq(Job)
  BY TypesParts DEF CancelJob, JobTypes
<1>2. CASE active # NoJob /\ active.job \in Named(c, j)
  <2>1. StartNextOrRestore(clients, queue, applied, <<Clear, Canceled(j)>>)
    BY <1>2 DEF CancelJob, Named
  <2>2. Leads(<<Clear, Canceled(j)>>, Quiet)
    BY ShortLists, HarmlessQuiet
  <2> QED
    BY <1>1, <2>1, <2>2, WholeOrder
<1>3. CASE ~(active # NoJob /\ active.job \in Named(c, j))
  <2>1. /\ queue' = Selection(queue, Job \ Named(c, j))
        /\ active' = active /\ Perform(Cancels(Selection(queue, Named(c, j))))
    BY <1>3 DEF CancelJob, Named
  <2>2. QueueThinned
    BY <2>1, ThinnedQueue
  <2>3. Leads(Cancels(Selection(queue, Named(c, j))), Quiet)
    BY <1>1, SelectedTyped, CancelsTyped, HarmlessQuiet
  <2>4. active' = NoJob \/ (active # NoJob /\ active'.job.id = active.job.id
                                           /\ active'.job.client = active.job.client)
    BY <2>1
  <2> QED
    BY <1>1, <2>1, <2>2, <2>3, <2>4, PlainOrder
<1> QED
  BY <1>2, <1>3

\* More text of the running stream follows what it has said.
LEMMA StreamOnOrder ==
  ASSUME TypesInv, OrderInv, NEW c \in Clients, StreamOn(c)
  PROVE  OrderInv'
<1>1. PICK j \in 0 .. MaxJobs, e \in Clients \cup {NoClient} : Reached(j, e)
  BY DEF OrderInv
<1>2. PICK run \in Running : run = active
  BY DEF TypesInv, KeyerTypeOK, StreamOn
<1>3. run.job.id = j /\ run.job.client = e /\ run.job.client = c /\ j \in JobIds /\ active # NoJob
  BY <1>1, <1>2, RunningFields DEF Reached, StreamOn, OwnStream
<1>4. Perform(<<Text(j, c)>>)
  BY <1>2, <1>3 DEF StreamOn
<1>5. PICK W : W = Spoken(j, c)
  OBVIOUS
<1>6. Leads(<<Text(j, c)>>, W)
  <2>1. Text(j, c) \in Written /\ Text(j, c) \in W
    BY <1>3, <1>5 DEF Written, Mild, Texts, Spoken
  <2>2. ByteRead \notin W
    BY <1>3, <1>5, <2>1, NoRead DEF Spoken
  <2>3. <<Text(j, c)>> \in Seq(W)
    BY <2>1
  <2> QED
    BY <2>2, <2>3, LeadsAll
<1>7. dev' \in Follows(j, c)
  BY <1>1, <1>3, <1>4, <1>5, <1>6, PerformSpoken DEF Reached
<1>8. active'.job.id = j /\ active'.job.client = c
  <2>1. PICK job \in Job : job = run.job
    BY RunningFields
  <2>2. PICK grown : grown = [job EXCEPT !.size = @ + 1]
    OBVIOUS
  <2>3. grown.id = job.id /\ grown.client = job.client
    BY <2>2 DEF Job
  <2>4. active' = [run EXCEPT !.job = grown]
    BY <1>2, <2>1, <2>2 DEF StreamOn
  <2>5. active'.job = grown
    BY <2>4 DEF Running
  <2> QED
    BY <1>3, <2>1, <2>3, <2>5
<1>9. UNCHANGED <<queue, nextJob>>
  BY DEF StreamOn
<1>10. Reached(j, e)'
  BY <1>1, <1>3, <1>7, <1>8, <1>9 DEF Reached
<1> QED
  BY <1>1, <1>9, <1>10 DEF OrderInv, Ascending

\* A job that grows keeps its place, and every place its id.
LEMMA SameIds ==
  ASSUME NEW q \in Seq(Job), NEW n \in 1 .. Len(q), NEW job, job.id = q[n].id,
         NEW t, t = [q EXCEPT ![n] = job]
  PROVE  Len(t) = Len(q) /\ \A i \in 1 .. Len(q) : t[i].id = q[i].id
<1>1. Len(t) = Len(q)
  OBVIOUS
<1>2. \A i \in 1 .. Len(q) : t[i] = IF i = n THEN job ELSE q[i]
  OBVIOUS
<1> QED
  BY <1>1, <1>2

\* A stream that grows in the queue stays where it is.
LEMMA StreamQueuedOrder ==
  ASSUME TypesInv, OrderInv, NEW c \in Clients, StreamQueued(c)
  PROVE  OrderInv'
<1>1. PICK q \in Seq(Job) : q = queue /\ q # <<>> /\ Len(q) \in Nat
  BY DEF TypesInv, KeyerTypeOK, StreamQueued
<1>2. \A i \in 1 .. Len(q) : q[i] \in Job
  OBVIOUS
<1>3. Len(q) \in 1 .. Len(q)
  BY <1>1
<1>4. PICK job : job = [q[Len(q)] EXCEPT !.size = @ + 1]
  OBVIOUS
<1>5. job.id = q[Len(q)].id
  BY <1>2, <1>3, <1>4 DEF Job
<1>6. queue' = [q EXCEPT ![Len(q)] = job]
  BY <1>1, <1>4 DEF StreamQueued
<1>7. PICK t : t = [q EXCEPT ![Len(q)] = job]
  OBVIOUS
<1>8. Len(t) = Len(q) /\ \A i \in 1 .. Len(q) : t[i].id = q[i].id
  <2>1. PICK n \in 1 .. Len(q) : n = Len(q)
    BY <1>3, Zenon
  <2>2. job.id = q[n].id /\ t = [q EXCEPT ![n] = job]
    BY <1>5, <1>7, <2>1, ZenonT(40)
  <2> QED
    BY <2>2, SameIds
<1>9. QueueThinned
  <2>1. Ascending(q)
    BY <1>1 DEF OrderInv
  <2>2. Ascending(t)
    BY <1>8, <2>1 DEF Ascending
  <2> QED
    BY <1>1, <1>6, <1>7, <1>8, <2>2 DEF QueueThinned
<1>10. Leads(<<>>, Quiet)
  BY QuietLists, NoRead, LeadsAll
<1>11. Perform(<<>>) /\ nextJob' = nextJob /\ active' = active
  BY DEF StreamQueued
<1>12. active' = NoJob \/ (active # NoJob /\ active'.job.id = active.job.id
                                          /\ active'.job.client = active.job.client)
  BY <1>11
<1> QED
  BY <1>9, <1>10, <1>11, <1>12, PlainOrder

\* A new job goes behind all others.
LEMMA EnqueueOrder ==
  ASSUME TypesInv, OrderInv, NEW c \in Clients, NEW speed \in Speeds \cup {"own"}, NEW stream \in BOOLEAN,
         Enqueue(c, speed, stream)
  PROVE  OrderInv'
<1>1. BrokerTypes /\ JobTypes
  BY TypesParts
<1>2. PICK job \in Job : job = NewJob(c, speed, stream)
  BY <1>1, NewJobTyped DEF Enqueue, BrokerTypes
<1>3. job.id = nextJob /\ nextJob \in Nat /\ nextJob' = nextJob + 1
  BY <1>1, <1>2, KeyerAssumption DEF NewJob, Enqueue, BrokerTypes
<1>4. PICK u \in Seq(Job) : u = queue /\ Len(u) \in Nat
  BY <1>1 DEF JobTypes
<1>5. PICK q \in Seq(Job) : q = Append(u, job) /\ Len(q) = Len(u) + 1
  <2>1. Append(u, job) \in Seq(Job) /\ Len(Append(u, job)) = Len(u) + 1
    OBVIOUS
  <2> QED
    BY <2>1
<1>6. q[Len(q)] = job /\ \A i \in 1 .. Len(u) : q[i] = u[i]
  BY <1>4, <1>5
<1>7. \A i \in 1 .. Len(q) : i \in 1 .. Len(u) \/ i = Len(q)
  BY <1>4, <1>5
<1>8. \A i \in 1 .. Len(u) : u[i].id < job.id /\ u[i] \in Job
  BY <1>3, <1>4 DEF OrderInv
<1>9. Ascending(q)
  <2> SUFFICES ASSUME NEW i \in 1 .. Len(q), NEW k \in 1 .. Len(q), i < k
               PROVE  q[i].id < q[k].id
    BY DEF Ascending
  <2>1. i \in 1 .. Len(u)
    BY <1>4, <1>5
  <2>2. CASE k = Len(q)
    BY <1>6, <1>8, <2>1, <2>2
  <2>3. CASE k \in 1 .. Len(u)
    <3>1. Ascending(u)
      BY <1>4 DEF OrderInv
    <3> QED
      BY <1>6, <2>1, <2>3, <3>1 DEF Ascending
  <2> QED
    BY <1>7, <2>2, <2>3
<1>10. \A k \in 1 .. Len(q) : q[k].id < nextJob'
  <2>1. \A i \in 1 .. Len(u) : u[i].id \in Nat
    BY <1>8, JobFields DEF JobIds
  <2> QED
    BY <1>3, <1>6, <1>7, <1>8, <2>1
<1>11. ASSUME NEW j \in 0 .. MaxJobs, NEW e \in Clients \cup {NoClient}, Reached(j, e)
       PROVE  \A k \in 1 .. Len(q) : j < q[k].id
  <2>1. j < nextJob /\ \A k \in 1 .. Len(u) : j < u[k].id
    BY <1>4, <1>11 DEF Reached
  <2> QED
    BY <1>3, <1>6, <1>7, <2>1
<1>12. q = Behind(job)
  BY <1>4, <1>5 DEF Behind
<1>13. Leads(<<>>, Quiet)
  BY QuietLists, NoRead, LeadsAll
<1>14. CASE active = NoJob
  <2>1. StartNextOrRestore(clients, q, applied, <<>>)
    BY <1>2, <1>12, <1>14 DEF Enqueue, NewJob
  <2>2. clients \in SUBSET Clients /\ nextJob' \in Nat /\ nextJob <= nextJob'
    BY <1>1, <1>3 DEF BrokerTypes
  <2> QED
    BY <1>9, <1>10, <1>11, <1>13, <2>1, <2>2, NextOrder
<1>15. CASE active # NoJob
  <2>1. queue' = q /\ active' = active /\ Perform(<<>>)
    BY <1>2, <1>12, <1>15 DEF Enqueue, NewJob
  <2>2. PICK j \in 0 .. MaxJobs, e \in Clients \cup {NoClient} : Reached(j, e)
    BY DEF OrderInv
  <2>3. j \in Nat
    BY KeyerAssumption
  <2>4. dev' \in Follows(j, e)
    BY <1>13, <2>1, <2>2, <2>3, PerformQuiet DEF Reached
  <2>5. j < nextJob'
    BY <1>3, <2>2, <2>3 DEF Reached
  <2>6. \A k \in 1 .. Len(q) : j < q[k].id
    BY <1>11, <2>2
  <2>7. Reached(j, e)'
    BY <2>1, <2>2, <2>4, <2>5, <2>6 DEF Reached
  <2> QED
    BY <1>9, <1>10, <2>1, <2>7 DEF OrderInv
<1> QED
  BY <1>14, <1>15

\* An emergency stop leaves nothing to be in order.
LEMMA StopOrder ==
  ASSUME TypesInv, OrderInv, EmergencyStop, nextJob' = nextJob
  PROVE  OrderInv'
<1>1. BrokerTypes /\ JobTypes
  BY TypesParts
<1>2. Leads(StopWrites, Quiet)
  BY <1>1, StopWritesTyped, HarmlessQuiet
<1>3. clients \in SUBSET Clients /\ ProfilesOK
  BY DEF TypesInv, KeyerTypeOK, ProfilesOK
<1>4. Leads(StopWrites \o RestoreWrites(Foreground(clients), applied), Quiet)
  BY <1>2, <1>3, NoRead, RestoreLeadsIn
<1>5. /\ Perform(StopWrites \o RestoreWrites(Foreground(clients), applied))
      /\ queue' = <<>> /\ active' = NoJob
  BY DEF EmergencyStop, StopWrites, RestoreForeground
<1>6. QueueThinned
  BY <1>5, ThinnedQueue
<1> QED
  BY <1>4, <1>5, <1>6, PlainOrder

\* A completed job is followed by the next.
LEMMA CompleteOrder ==
  ASSUME TypesInv, OrderInv, active \in Running, nextJob' = nextJob,
         NEW before, Leads(before, Quiet), Complete(before)
  PROVE  OrderInv'
<1>1. <<Completed(active.job.id)>> \in Seq(Quiet)
  <2>1. <<Completed(active.job.id)>> \in Seq(Harmless)
    BY RunningFields, ShortLists
  <2> QED
    BY <2>1, NoRead, SeqWider
<1>2. Leads(CompleteWrites(before), Quiet)
  BY <1>1, NoRead, LeadsOn DEF CompleteWrites
<1>3. StartNextOrRestore(clients, queue, applied, CompleteWrites(before))
  BY DEF Complete, CompleteWrites
<1> QED
  BY <1>2, <1>3, WholeOrder

\* Reading a byte may complete a job, and leaves the keyer's FIFO alone.
LEMMA ReadOrder ==
  ASSUME TypesInv, OrderInv, Read
  PROVE  OrderInv'
<1>1. dev.up # <<>>
  BY DEF Read, ReadFirmware, ReadMaintenance, ReadEcho, ReadStatus, InSession, Reading
<1>2. Leads(<<ByteRead>>, Quiet)
  BY <1>1, LeadsRead
<1>3. CASE ReadFirmware
  <2>1. clients \in SUBSET Clients /\ ProfilesOK
    BY DEF TypesInv, KeyerTypeOK, ProfilesOK
  <2>2. Leads(FirmwareWrites \o RestoreWrites(Foreground(clients), NoClient), Quiet)
    BY <1>1, <2>1, FirmwareLeads, NoRead, RestoreLeadsIn
  <2>3. /\ Perform(FirmwareWrites \o RestoreWrites(Foreground(clients), NoClient))
        /\ UNCHANGED <<queue, active, nextJob>>
    BY <1>3 DEF ReadFirmware, FirmwareWrites, RestoreForeground
  <2> QED
    BY <2>2, <2>3, SameOrder
<1>4. CASE ReadMaintenance \/ ReadEcho
  <2>1. Perform(<<ByteRead>>) /\ UNCHANGED <<queue, active, nextJob>>
    BY <1>4 DEF ReadMaintenance, ReadEcho, coreVars
  <2> QED
    BY <1>2, <2>1, SameOrder
<1>5. CASE ReadStatus
  <2>1. nextJob' = nextJob /\ active \in Running \cup {NoJob}
    BY <1>5 DEF ReadStatus, TypesInv, KeyerTypeOK
  <2>2. CASE active # NoJob /\ NextByte # "sending" /\ active.sawBusy
    <3>1. Complete(<<ByteRead>>)
      BY <1>5, <2>2 DEF ReadStatus
    <3> QED
      BY <1>2, <2>1, <2>2, <3>1, CompleteOrder
  <2>3. CASE ~(active # NoJob /\ NextByte # "sending" /\ active.sawBusy)
    <3>1. /\ active' = IF active = NoJob THEN NoJob ELSE ObservedJob(NextByte)
          /\ queue' = queue /\ Perform(<<ByteRead>>)
      BY <1>5, <2>3 DEF ReadStatus, ObservedJob
    <3>2. active # NoJob => ObservedJob(NextByte).job = active.job
      BY <2>1 DEF ObservedJob, Running
    <3>3. active' = active \/ (active # NoJob /\ active'.job.id = active.job.id
                                              /\ active'.job.client = active.job.client)
      BY <3>1, <3>2
    <3> QED
      BY <1>2, <2>1, <3>1, <3>3, SameOrder
  <2> QED
    BY <2>2, <2>3
<1> QED
  BY <1>3, <1>4, <1>5 DEF Read

\* The keyer's FIFO with less text, or none.
LEMMA FollowsLess ==
  ASSUME NEW j \in Nat, NEW c, NEW d \in Follows(j, c), NEW e \in Device,
         e.text \in {d.text, <<>>} \/ (d.text # <<>> /\ e.text = Tail(d.text))
  PROVE  e \in Follows(j, c)
<1>1. PICK t \in Seq(Piece) : t = d.text
  <2>1. d.text \in Seq(Piece)
    BY DeviceFields DEF Follows
  <2> QED
    BY <2>1
<1>2. Ordered(t) /\ \A i \in 1 .. Len(t) : t[i].job <= j /\ (t[i].job = j => t[i].client = c)
  BY <1>1 DEF Follows
<1>3. CASE e.text = d.text
  BY <1>1, <1>2, <1>3 DEF Follows
<1>4. CASE e.text = <<>>
  <2>1. Len(<<>>) = 0
    OBVIOUS
  <2> QED
    BY <1>4, <2>1 DEF Follows, Ordered
<1>5. CASE t # <<>> /\ e.text = Tail(t)
  <2>1. PICK u \in Seq(Piece) : u = Tail(t) /\ Len(u) = Len(t) - 1 /\ \A k \in 1 .. Len(u) : u[k] = t[k + 1]
    <3>1. Tail(t) \in Seq(Piece) /\ Len(Tail(t)) = Len(t) - 1
      BY <1>5
    <3>2. \A k \in 1 .. Len(Tail(t)) : Tail(t)[k] = t[k + 1]
      BY <1>5
    <3> QED
      BY <3>1, <3>2
  <2>2. \A k \in 1 .. Len(u) : k + 1 \in 1 .. Len(t)
    BY <2>1
  <2>3. Ordered(u)
    BY <1>2, <2>1, <2>2 DEF Ordered
  <2>4. \A i \in 1 .. Len(u) : u[i].job <= j /\ (u[i].job = j => u[i].client = c)
    BY <1>2, <2>1, <2>2
  <2> QED
    BY <1>5, <2>1, <2>3, <2>4 DEF Follows
<1> QED
  BY <1>1, <1>3, <1>4, <1>5

\* A step that leaves the jobs alone and adds nothing to the keyer's FIFO.
LEMMA StillOrder ==
  ASSUME TypesInv, OrderInv, UNCHANGED <<queue, active, nextJob>>, dev' \in Device,
         dev'.text \in {dev.text, <<>>} \/ (dev.text # <<>> /\ dev'.text = Tail(dev.text))
  PROVE  OrderInv'
<1>1. QueueThinned
  BY ThinnedQueue
<1>2. \A j \in Nat, c \in Clients \cup {NoClient} : dev \in Follows(j, c) => dev' \in Follows(j, c)
  BY FollowsLess
<1>3. nextJob' = nextJob /\ active' = active
  OBVIOUS
<1>4. active' = NoJob \/ (active # NoJob /\ active'.job.id = active.job.id
                                         /\ active'.job.client = active.job.client)
  BY <1>3
<1> QED
  BY <1>1, <1>2, <1>3, <1>4, CalmOrder

\* Ticks stop, complete or poll.
LEMMA TickOrder ==
  ASSUME TypesInv, OrderInv, Watchdog \/ Settle \/ Poll \/ Tick
  PROVE  OrderInv'
<1>1. CASE Watchdog
  BY <1>1, StopOrder DEF Watchdog
<1>2. CASE Settle
  <2>1. active \in Running /\ nextJob' = nextJob /\ Complete(<<>>)
    BY <1>2 DEF Settle, TypesInv, KeyerTypeOK
  <2>2. Leads(<<>>, Quiet)
    BY QuietLists, NoRead, LeadsAll
  <2> QED
    BY <2>1, <2>2, CompleteOrder
<1>3. CASE Poll
  <2>1. Leads(<<StatusRequest>>, Quiet) /\ Perform(<<StatusRequest>>) /\ UNCHANGED <<queue, active, nextJob>>
    BY <1>3, QuietLists, NoRead, LeadsAll DEF Poll, coreVars
  <2> QED
    BY <2>1, SameOrder
<1>4. CASE Tick
  <2>1. UNCHANGED <<queue, active, nextJob, dev>>
    BY <1>4 DEF Tick, coreVars
  <2>2. dev' \in Device /\ dev'.text = dev.text
    BY <2>1 DEF TypesInv
  <2> QED
    BY <2>1, <2>2, StillOrder
<1> QED
  BY <1>1, <1>2, <1>3, <1>4

\* The keyer reports, keys its text, and its paddles are pressed.
LEMMA DeviceOrder ==
  ASSUME TypesInv, OrderInv, DeviceReport \/ DeviceKeys \/ Paddle
  PROVE  OrderInv'
<1>1. dev \in Device
  BY DEF TypesInv
<1>2. UNCHANGED <<queue, active, nextJob>>
  BY DEF DeviceReport, DeviceKeys, Paddle, DeviceStep, coreVars
<1>3. CASE DeviceReport
  <2>1. dev' \in Device /\ dev'.text = dev.text
    BY <1>1, <1>3, ReportedKept DEF DeviceReport, DeviceStep, Kept4
  <2> QED
    BY <1>2, <2>1, StillOrder
<1>4. CASE DeviceKeys
  <2>1. PICK t \in Seq(Piece) : t = dev.text /\ t # <<>>
    BY <1>1, <1>4, DeviceFields DEF DeviceKeys
  <2>2. PICK s \in Seq(Piece) : s = Tail(t)
    <3>1. Tail(t) \in Seq(Piece)
      BY <2>1
    <3> QED
      BY <3>1
  <2>3. dev' = [dev EXCEPT !.text = s]
    BY <1>4, <2>1, <2>2 DEF DeviceKeys, DeviceStep, Keyed
  <2>4. dev' \in Device /\ dev'.text = s
    BY <1>1, <2>3, WithText
  <2>5. dev.text # <<>> /\ dev'.text = Tail(dev.text)
    BY <2>1, <2>2, <2>4
  <2> QED
    BY <1>2, <2>4, <2>5, StillOrder
<1>5. CASE Paddle
  <2>1. PICK p \in BOOLEAN : p = ~dev.paddle
    OBVIOUS
  <2>2. dev' = [dev EXCEPT !.paddle = p]
    BY <1>5, <2>1 DEF Paddle, DeviceStep
  <2>3. dev' \in Device /\ dev'.text = dev.text
    BY <1>1, <2>2 DEF Device
  <2> QED
    BY <1>2, <2>3, StillOrder
<1> QED
  BY <1>3, <1>4, <1>5

\* Steps that neither touch the jobs nor the keyer.
LEMMA AloneOrder ==
  ASSUME TypesInv, OrderInv, UNCHANGED <<queue, active, nextJob, dev>>
  PROVE  OrderInv'
<1>1. dev' \in Device /\ dev'.text = dev.text
  BY DEF TypesInv
<1> QED
  BY <1>1, StillOrder

\* The transport is lost: physical_error leaves nothing to be in order.
LEMMA LostOrder ==
  ASSUME TypesInv, OrderInv, LinkLost \/ SessionError
  PROVE  OrderInv'
<1>1. CASE LinkLost
  BY <1>1, AloneOrder DEF LinkLost, coreVars
<1>2. CASE SessionError
  <2>1. PICK u \in Seq(Bytes) : u = <<>>
    <3>1. <<>> \in Seq(Bytes)
      OBVIOUS
    <3> QED
      BY <3>1
  <2>2. dev' \in Device /\ dev'.text = dev.text
    <3>1. dev \in Device
      BY DEF TypesInv
    <3>2. dev' = [dev EXCEPT !.up = u]
      BY <1>2, <2>1 DEF SessionError
    <3> QED
      BY <3>1, <3>2 DEF Device
  <2>3. \A j \in Nat, c \in Clients \cup {NoClient} : dev \in Follows(j, c) => dev' \in Follows(j, c)
    BY <2>2, FollowsLess
  <2>4. QueueThinned /\ active' = NoJob /\ nextJob' = nextJob
    BY <1>2, ThinnedQueue DEF SessionError
  <2> QED
    BY <2>3, <2>4, CalmOrder
<1> QED
  BY <1>1, <1>2

\* A keyer that has been initialised has nothing to key.
LEMMA EmptyFollows ==
  ASSUME NEW d \in Device, NEW j, NEW c
  PROVE  Initialised(d) \in Follows(j, c)
<1>1. Initialised(d) \in Device /\ Initialised(d).text = <<>> /\ Len(<<>>) = 0
  BY InitialisedTyped
<1> QED
  BY <1>1 DEF Follows, Ordered

\* It is initialised again, and the foreground restored.
LEMMA ReconnectOrder ==
  ASSUME TypesInv, OrderInv, Reconnect \/ ReconnectFailed
  PROVE  OrderInv'
<1>1. dev \in Device /\ clients \in SUBSET Clients /\ ProfilesOK
  BY DEF TypesInv, KeyerTypeOK, ProfilesOK
<1>2. UNCHANGED <<queue, active, nextJob>>
  BY DEF Reconnect, ReconnectFailed
<1>3. PICK j \in 0 .. MaxJobs, c \in Clients \cup {NoClient} : Reached(j, c)
  BY DEF OrderInv
<1>4. j \in Nat /\ dev \in Follows(j, c)
  BY <1>3, KeyerAssumption DEF Reached
<1>5. Initialised(dev) \in Follows(j, c)
  BY <1>1, EmptyFollows
<1>6. dev' \in Follows(j, c)
  <2>1. CASE ReconnectFailed
    BY <1>4, <1>5, <2>1 DEF ReconnectFailed
  <2>2. CASE Reconnect
    <3>1. RestoreWrites(Foreground(clients), NoClient) \in Seq(Settings)
      BY <1>1, ForegroundTyped, RestoreTyped
    <3>2. RestoreWrites(Foreground(clients), NoClient) \in Seq(Quiet)
      BY <3>1, NoRead, SeqWider
    <3>3. PICK D : D = Follows(j, c)
      OBVIOUS
    <3>4. \A d \in D, w \in Quiet : Obey(d, w) \in D
      BY <1>4, <3>3, FollowsQuiet
    <3>5. ObeyAll(Initialised(dev), RestoreWrites(Foreground(clients), NoClient)) \in D
      BY <1>5, <3>2, <3>3, <3>4, AllKeep
    <3> QED
      BY <2>2, <3>3, <3>5 DEF Reconnect
  <2> QED
    BY <2>1, <2>2
<1>7. Reached(j, c)'
  BY <1>2, <1>3, <1>6 DEF Reached
<1> QED
  BY <1>2, <1>7 DEF OrderInv, Ascending

\* A shutdown is an emergency stop, and closes the port.
LEMMA ShutdownOrder ==
  ASSUME TypesInv, OrderInv, Shutdown
  PROVE  OrderInv'
<1>1. \A j \in Nat, c \in Clients \cup {NoClient} : dev \in Follows(j, c) => dev' \in Follows(j, c)
  <2> SUFFICES ASSUME NEW j \in Nat, NEW c \in Clients \cup {NoClient}, dev \in Follows(j, c)
               PROVE  dev' \in Follows(j, c)
    OBVIOUS
  <2>1. PICK D : D = Follows(j, c)
    OBVIOUS
  <2>2. \A d \in D, w \in Quiet : Obey(d, w) \in D
    BY <2>1, FollowsQuiet
  <2>3. dev' \in D
    BY <2>1, <2>2, ShutdownKeep
  <2> QED
    BY <2>1, <2>3
<1>2. QueueThinned /\ active' = NoJob /\ nextJob' = nextJob
  BY ThinnedQueue DEF Shutdown
<1> QED
  BY <1>1, <1>2, CalmOrder

\* No job has been given an id.
LEMMA InitOrder == Init => OrderInv
<1> SUFFICES ASSUME Init PROVE OrderInv
  OBVIOUS
<1>1. dev \in Follows(0, NoClient)
  BY FreshTyped, EmptyFollows DEF Init
<1>2. queue = <<>> /\ Len(<<>>) = 0 /\ active = NoJob /\ nextJob = 1
  BY DEF Init
<1>3. Reached(0, NoClient)
  BY <1>1, <1>2 DEF Reached
<1>4. 0 \in 0 .. MaxJobs
  BY KeyerAssumption
<1> QED
  BY <1>2, <1>3, <1>4 DEF OrderInv, Ascending

\* The requests of a client.
LEMMA RequestOrder ==
  ASSUME TypesInv, OrderInv, NEW c \in Clients, ClientRequest(c)
  PROVE  OrderInv'
<1>1. \A j \in 1 .. nextJob - 1 : j \in JobIds
  <2>1. nextJob \in 1 .. MaxJobs + 1 /\ MaxJobs \in Nat
    BY KeyerAssumption DEF TypesInv, KeyerTypeOK
  <2> QED
    BY <2>1 DEF JobIds
<1>2. desired[c] \in Speeds
  BY DEF TypesInv, KeyerTypeOK
<1>3. ASSUME NEW j \in 1 .. nextJob - 1, CancelJob(c, j) PROVE OrderInv'
  BY <1>1, <1>3, CancelJobOrder
<1>4. ASSUME NEW s \in Speeds, Enqueue(c, s, FALSE) PROVE OrderInv'
  BY <1>4, EnqueueOrder
<1>5. ASSUME NEW s \in {desired[c], "own"}, Enqueue(c, s, TRUE) PROVE OrderInv'
  BY <1>2, <1>5, EnqueueOrder
<1>6. CASE StreamOn(c) \/ StreamQueued(c)
  BY <1>6, StreamOnOrder, StreamQueuedOrder
<1>7. CASE \/ Register(c)
           \/ \E s \in Speeds : SetSpeed(c, s)
           \/ \E r \in Regs, v \in Vals : Configure(c, r, v)
           \/ \E w \in {KeyDown, KeyUp} : KeyImmediate(c, w)
           \/ Maintain(c) \/ ReleaseMaintenance(c)
  BY <1>7, SettingsOrder
<1>8. CASE Unregister(c)
  BY <1>8, UnregisterOrder
<1>9. CASE EnqueueUnconnected(c)
  BY <1>9, AloneOrder DEF EnqueueUnconnected, coreVars
<1>10. CASE Cancel(c)
  BY <1>10, CancelOrder
<1> QED
  BY <1>3, <1>4, <1>5, <1>6, <1>7, <1>8, <1>9, <1>10 DEF ClientRequest

\* Every step keeps the jobs in order.
LEMMA NextKeepsOrder == TypesInv /\ OrderInv /\ [Next]_vars => OrderInv'
<1> SUFFICES ASSUME TypesInv, OrderInv, [Next]_vars PROVE OrderInv'
  OBVIOUS
<1>1. CASE UNCHANGED vars
  BY <1>1, AloneOrder DEF vars, coreVars
<1>2. ASSUME NEW c \in Clients, ClientRequest(c) PROVE OrderInv'
  BY <1>2, RequestOrder
<1>3. CASE Stop
  BY <1>3, StopOrder DEF Stop
<1>4. CASE Read
  BY <1>4, ReadOrder
<1>5. CASE Watchdog \/ Settle \/ Poll \/ Tick
  BY <1>5, TickOrder
<1>6. CASE LinkLost \/ SessionError \/ Reconnect \/ ReconnectFailed \/ Shutdown
  BY <1>6, LostOrder, ReconnectOrder, ShutdownOrder
<1>7. CASE DeviceReport \/ DeviceKeys \/ Paddle
  BY <1>7, DeviceOrder
<1>8. CASE CatLease \/ LeaseExpiry
  BY <1>8, AloneOrder DEF CatLease, LeaseExpiry, coreVars
<1> QED
  BY <1>1, <1>2, <1>3, <1>4, <1>5, <1>6, <1>7, <1>8 DEF Next

\* "Jobs use one global arrival-order FIFO" and "CatHub does not put client bytes or
\* commands inside another job": for any clients and bounds, whatever is streamed,
\* canceled, stopped or lost with the transport, enqueue and start_next_or_restore
\* run the jobs in the order of their ids, and the texts in the keyer's own FIFO
\* follow each other in that order, those of one job all of its client.
THEOREM JobsRunInOrder == Spec => []JobsInOrder
<1>1. Init => TypesInv /\ OrderInv
  BY InitTyped, InitOrder
<1>2. TypesInv /\ OrderInv /\ [Next]_vars => TypesInv' /\ OrderInv'
  BY NextTypes, NextKeepsOrder
<1>3. TypesInv /\ OrderInv => JobsInOrder
  BY OrderKept
<1> QED
  BY <1>1, <1>2, <1>3, PTL DEF Spec

------------------------------------------------------------------------------
(***************************************************************************)
(* Every job ends once                                                     *)
(***************************************************************************)

\* Where a list tells the end of job j.
EventsOf(acts, j) == {i \in 1 .. Len(acts) : IsEvent(acts[i]) /\ acts[i].job = j}

\* The list tells the end of each of the jobs E once, and of no other.
Closing(acts, E) ==
  /\ acts \in Seq(Written \cup {ByteRead})
  /\ \A j \in JobIds :
       /\ j \notin E => EventsOf(acts, j) = {}
       /\ j \in E => \E i \in 1 .. Len(acts) : EventsOf(acts, j) = {i}

\* What tells no end.
Mute == {w \in Written \cup {ByteRead} : ~IsEvent(w)}

\* Settings, texts and commands do not.
LEMMA MuteWrites ==
  /\ Settings \subseteq Mute /\ Texts \subseteq Mute
  /\ {Clear, KeyUp, KeyDown, HostOpen, HostClose, StatusRequest, Admin, ByteRead} \subseteq Mute
<1> USE DEF Mute, IsEvent
<1>1. Settings \subseteq Mute
  BY DEF Settings, SetReg, SetWpm, Written, Mild
<1>2. Texts \subseteq Mute
  BY DEF Texts, Text, Written, Mild
<1>3. {Clear, KeyUp, KeyDown, HostOpen, HostClose, StatusRequest, Admin, ByteRead} \subseteq Mute
  BY DEF Written, Mild, Harmless, Clear, KeyUp, KeyDown, HostOpen, HostClose, StatusRequest, Admin, ByteRead
<1> QED
  BY <1>1, <1>2, <1>3

\* A list of them tells none.
LEMMA MuteCloses ==
  ASSUME NEW s \in Seq(Mute)
  PROVE  Closing(s, {})
<1>1. s \in Seq(Written \cup {ByteRead})
  BY SeqWider DEF Mute
<1>2. \A i \in 1 .. Len(s) : s[i] \in Mute
  OBVIOUS
<1> QED
  BY <1>1, <1>2 DEF Closing, EventsOf, Mute

\* An event tells one.
LEMMA OneCloses ==
  ASSUME NEW j \in JobIds, NEW e \in {Completed(j), Canceled(j)}
  PROVE  Closing(<<e>>, {j})
<1>1. IsEvent(e) /\ e.job = j
  BY DEF IsEvent, Completed, Canceled
<1>2. e \in Written
  BY DEF Written, Mild, Harmless
<1>3. PICK s \in Seq(Written \cup {ByteRead}) : s = <<e>>
  <2>1. PICK T : T = Written \cup {ByteRead}
    OBVIOUS
  <2>2. e \in T
    BY <1>2, <2>1
  <2>3. <<e>> \in Seq(T)
    BY <2>2
  <2> QED
    BY <2>1, <2>3
<1>4. Len(s) = 1 /\ s[1] = e
  BY <1>3
<1>5. EventsOf(s, j) = {1}
  BY <1>1, <1>4 DEF EventsOf
<1>6. \A k \in JobIds : k # j => EventsOf(s, k) = {}
  BY <1>1, <1>4 DEF EventsOf
<1> QED
  BY <1>3, <1>4, <1>5, <1>6 DEF Closing

\* One list behind another.
LEMMA ClosingOn ==
  ASSUME NEW s, NEW A, Closing(s, A), NEW t, NEW B, Closing(t, B), A \cap B = {}
  PROVE  Closing(s \o t, A \cup B)
<1> DEFINE T == Written \cup {ByteRead}
<1>1. PICK a \in Seq(T) : a = s /\ Len(a) \in Nat
  BY DEF Closing
<1>2. PICK b \in Seq(T) : b = t /\ Len(b) \in Nat
  BY DEF Closing
<1> HIDE DEF T
<1>3. PICK u \in Seq(T) : u = a \o b /\ Len(u) = Len(a) + Len(b)
  BY ConcatProperties
<1>4. /\ \A i \in 1 .. Len(a) : u[i] = a[i] /\ i \in 1 .. Len(u)
      /\ \A i \in 1 .. Len(b) : u[i + Len(a)] = b[i] /\ i + Len(a) \in 1 .. Len(u)
  BY <1>1, <1>2, <1>3
<1>5. \A i \in 1 .. Len(u) : i \in 1 .. Len(a) \/ (i - Len(a) \in 1 .. Len(b) /\ i = (i - Len(a)) + Len(a))
  BY <1>1, <1>2, <1>3
<1>6. \A j \in JobIds : EventsOf(u, j) = EventsOf(a, j) \cup {i + Len(a) : i \in EventsOf(b, j)}
  <2> SUFFICES ASSUME NEW j \in JobIds
               PROVE  EventsOf(u, j) = EventsOf(a, j) \cup {i + Len(a) : i \in EventsOf(b, j)}
    OBVIOUS
  <2>1. ASSUME NEW i \in EventsOf(u, j) PROVE i \in EventsOf(a, j) \cup {k + Len(a) : k \in EventsOf(b, j)}
    <3>1. i \in 1 .. Len(u) /\ IsEvent(u[i]) /\ u[i].job = j
      BY <2>1 DEF EventsOf
    <3>2. CASE i \in 1 .. Len(a)
      BY <1>4, <3>1, <3>2 DEF EventsOf
    <3>3. CASE i - Len(a) \in 1 .. Len(b) /\ i = (i - Len(a)) + Len(a)
      <4>1. PICK k \in 1 .. Len(b) : k = i - Len(a) /\ i = k + Len(a)
        BY <3>3
      <4>2. k \in EventsOf(b, j)
        BY <1>4, <3>1, <4>1 DEF EventsOf
      <4> QED
        BY <4>1, <4>2
    <3> QED
      BY <1>5, <3>1, <3>2, <3>3
  <2>2. ASSUME NEW i \in EventsOf(a, j) PROVE i \in EventsOf(u, j)
    BY <1>4, <2>2 DEF EventsOf
  <2>3. ASSUME NEW i \in EventsOf(b, j) PROVE i + Len(a) \in EventsOf(u, j)
    BY <1>4, <2>3 DEF EventsOf
  <2> QED
    BY <2>1, <2>2, <2>3
<1>7. ASSUME NEW j \in JobIds, j \notin A \cup B PROVE EventsOf(u, j) = {}
  BY <1>1, <1>2, <1>6, <1>7 DEF Closing
<1>8. ASSUME NEW j \in JobIds, j \in A \cup B PROVE \E i \in 1 .. Len(u) : EventsOf(u, j) = {i}
  <2>1. CASE j \in A
    <3>1. j \notin B
      BY <2>1
    <3>2. EventsOf(b, j) = {}
      BY <1>2, <3>1 DEF Closing
    <3>3. PICK i \in 1 .. Len(a) : EventsOf(a, j) = {i}
      BY <1>1, <2>1 DEF Closing
    <3> QED
      BY <1>4, <1>6, <3>2, <3>3
  <2>2. CASE j \in B
    <3>1. j \notin A
      BY <2>2
    <3>2. EventsOf(a, j) = {}
      BY <1>1, <3>1 DEF Closing
    <3>3. PICK i \in 1 .. Len(b) : EventsOf(b, j) = {i}
      BY <1>2, <2>2 DEF Closing
    <3>4. EventsOf(u, j) = {i + Len(a)}
      <4>1. PICK A1, B1, U : A1 = EventsOf(a, j) /\ B1 = EventsOf(b, j) /\ U = EventsOf(u, j)
        OBVIOUS
      <4>2. U = A1 \cup {k + Len(a) : k \in B1} /\ A1 = {} /\ B1 = {i}
        BY <1>6, <3>2, <3>3, <4>1
      <4>3. U = {i + Len(a)}
        BY <4>2
      <4> QED
        BY <4>1, <4>3
    <3> QED
      BY <1>4, <3>4
  <2> QED
    BY <1>8, <2>1, <2>2
<1> QED
  BY <1>1, <1>2, <1>3, <1>7, <1>8 DEF Closing, T

\* The same with a list that tells none, behind ...
LEMMA ClosingMute ==
  ASSUME NEW s, NEW E, Closing(s, E), NEW t \in Seq(Mute)
  PROVE  Closing(s \o t, E)
<1>1. Closing(t, {})
  BY MuteCloses
<1>2. Closing(s \o t, E \cup {})
  BY <1>1, ClosingOn
<1>3. E \cup {} = E
  OBVIOUS
<1> QED
  BY <1>2, <1>3

\* ... or before it.
LEMMA MuteClosing ==
  ASSUME NEW s \in Seq(Mute), NEW t, NEW E, Closing(t, E)
  PROVE  Closing(s \o t, E)
<1>1. Closing(s, {})
  BY MuteCloses
<1>2. Closing(s \o t, {} \cup E)
  BY <1>1, ClosingOn
<1>3. {} \cup E = E
  OBVIOUS
<1> QED
  BY <1>2, <1>3

\* The ids of jobs.
IdsOf(q) == {q[i].id : i \in 1 .. Len(q)}

\* The cancellations of jobs tell the end of each of them.
LEMMA CancelsClose ==
  ASSUME NEW s \in Seq(Job), Ascending(s)
  PROVE  Closing(Cancels(s), IdsOf(s))
<1>1. PICK c \in Seq(Harmless) : /\ c = Cancels(s) /\ Len(c) = Len(s)
                                 /\ \A i \in 1 .. Len(s) : c[i] = Canceled(s[i].id)
  BY CancelsTyped
<1>2. c \in Seq(Written \cup {ByteRead})
  <2>1. Harmless \subseteq Written \cup {ByteRead}
    BY NoRead
  <2> QED
    BY <2>1, SeqWider
<1>3. \A i \in 1 .. Len(c) : IsEvent(c[i]) /\ c[i].job = s[i].id
  <2>1. \A j : IsEvent(Canceled(j)) /\ Canceled(j).job = j
    BY DEF IsEvent, Canceled
  <2> QED
    BY <1>1, <2>1
<1>4. ASSUME NEW j \in JobIds, j \notin IdsOf(s) PROVE EventsOf(c, j) = {}
  BY <1>1, <1>3, <1>4 DEF EventsOf, IdsOf
<1>5. ASSUME NEW j \in JobIds, j \in IdsOf(s) PROVE \E i \in 1 .. Len(c) : EventsOf(c, j) = {i}
  <2>1. PICK i \in 1 .. Len(s) : j = s[i].id
    BY <1>5 DEF IdsOf
  <2>2. ASSUME NEW k \in 1 .. Len(s), s[k].id = j PROVE k = i
    <3>1. i < k \/ k < i \/ i = k
      OBVIOUS
    <3>2. j \in Nat
      BY DEF JobIds
    <3> QED
      BY <2>1, <2>2, <3>1, <3>2 DEF Ascending
  <2>3. EventsOf(c, j) = {i}
    BY <1>1, <1>3, <2>1, <2>2 DEF EventsOf
  <2> QED
    BY <1>1, <2>1, <2>3
<1> QED
  BY <1>1, <1>2, <1>4, <1>5 DEF Closing

\* Those that are taken and those that are left.
LEMMA IdsSplit ==
  ASSUME NEW s \in Seq(Job), Ascending(s), NEW S
  PROVE  /\ Selection(s, S) \in Seq(Job) /\ Ascending(Selection(s, S))
         /\ IdsOf(Selection(s, S)) \subseteq IdsOf(s)
         /\ IdsOf(Selection(s, Job \ S)) = IdsOf(s) \ IdsOf(Selection(s, S))
<1>1. PICK t \in Seq(Job) : t = Selection(s, S) /\ Thinned(t, s, Len(s), S)
  BY SelectionThinned DEF Thinned
<1>2. PICK u \in Seq(Job) : u = Selection(s, Job \ S) /\ Thinned(u, s, Len(s), Job \ S)
  <2>1. PICK R : R = Job \ S
    OBVIOUS
  <2>2. Thinned(Selection(s, R), s, Len(s), R)
    BY SelectionThinned, Zenon
  <2> QED
    BY <2>1, <2>2 DEF Thinned
<1>3. Len(s) \in Nat /\ \A k \in 1 .. Len(s) : s[k] \in Job /\ s[k].id \in Nat
  BY JobFields DEF JobIds
<1>4. \A i \in 1 .. Len(t) : \E k \in 1 .. Len(s) : t[i] = s[k] /\ s[k] \in S
  BY <1>1 DEF Thinned
<1>5. \A i \in 1 .. Len(u) : \E k \in 1 .. Len(s) : u[i] = s[k] /\ s[k] \in Job \ S
  BY <1>2 DEF Thinned
<1>6. ASSUME NEW i \in 1 .. Len(s), NEW k \in 1 .. Len(s), s[i].id = s[k].id PROVE i = k
  <2>1. s[i].id \in Nat /\ i \in Nat /\ k \in Nat
    BY <1>3
  <2>2. ~(i < k) /\ ~(k < i)
    BY <1>6, <2>1 DEF Ascending
  <2> QED
    BY <2>1, <2>2
<1>7. ASSUME NEW j \in IdsOf(t) PROVE j \in IdsOf(s)
  <2>1. PICK i \in 1 .. Len(t) : j = t[i].id
    BY DEF IdsOf
  <2>2. PICK k \in 1 .. Len(s) : t[i] = s[k]
    BY <1>4
  <2> QED
    BY <2>1, <2>2 DEF IdsOf
<1>8. ASSUME NEW j \in IdsOf(u) PROVE j \in IdsOf(s) \ IdsOf(t)
  <2>1. PICK k \in 1 .. Len(s) : j = s[k].id /\ s[k] \in Job \ S
    <3>1. PICK i \in 1 .. Len(u) : j = u[i].id
      BY <1>8 DEF IdsOf
    <3> QED
      BY <1>5, <3>1
  <2>2. ASSUME j \in IdsOf(t) PROVE FALSE
    <3>1. PICK i \in 1 .. Len(s) : j = s[i].id /\ s[i] \in S
      <4>1. PICK k1 \in 1 .. Len(t) : j = t[k1].id
        BY <2>2 DEF IdsOf
      <4> QED
        BY <1>4, <4>1
    <3>2. i = k
      BY <1>6, <2>1, <3>1
    <3> QED
      BY <2>1, <3>1, <3>2
  <2> QED
    BY <2>1, <2>2 DEF IdsOf
<1>9. ASSUME NEW j \in IdsOf(s) \ IdsOf(t) PROVE j \in IdsOf(u)
  <2>1. PICK k \in 1 .. Len(s) : j = s[k].id
    BY DEF IdsOf
  <2>2. s[k] \notin S
    <3>1. s[k] \in S => \E i \in 1 .. Len(t) : t[i] = s[k]
      BY <1>1 DEF Thinned
    <3> QED
      BY <2>1, <3>1 DEF IdsOf
  <2>3. PICK i \in 1 .. Len(u) : u[i] = s[k]
    <3>1. s[k] \in Job \ S
      BY <1>3, <2>2
    <3> QED
      BY <1>2, <3>1 DEF Thinned
  <2> QED
    BY <2>1, <2>3 DEF IdsOf
<1>10. IdsOf(u) = IdsOf(s) \ IdsOf(t)
  BY <1>8, <1>9
<1> QED
  BY <1>1, <1>2, <1>7, <1>10 DEF Thinned

\* The events of a list that are about one job.
LEMMA EndsOf ==
  ASSUME NEW T, NEW s \in Seq(T), NEW j
  PROVE  {e \in Ends(s) : e.job = j} = {s[i] : i \in EventsOf(s, j)}
<1>1. DOMAIN s = 1 .. Len(s)
  OBVIOUS
<1> QED
  BY <1>1 DEF Ends, EventsOf

\* How many the client is told.
LEMMA TellsNone ==
  ASSUME NEW T, NEW s \in Seq(T), NEW j \in JobIds, Tell(s), told \in [JobIds -> 0 .. 2],
         EventsOf(s, j) = {}
  PROVE  told'[j] = told[j]
<1>1. {e \in Ends(s) : e.job = j} = {}
  BY EndsOf
<1>2. told'[j] = Min({2, told[j] + Cardinality({e \in Ends(s) : e.job = j})})
  BY DEF Tell
<1>3. Cardinality({}) = 0
  BY FS_EmptySet
<1>4. told[j] \in 0 .. 2 /\ told[j] + 0 = told[j]
  OBVIOUS
<1>5. told'[j] = Min({2, told[j]})
  BY <1>1, <1>2, <1>3, <1>4
<1> QED
  BY <1>4, <1>5, MinTwo

\* One is one more.
LEMMA TellsOne ==
  ASSUME NEW T, NEW s \in Seq(T), NEW j \in JobIds, Tell(s), told[j] = 0,
         NEW i, EventsOf(s, j) = {i}
  PROVE  told'[j] = 1
<1>1. {e \in Ends(s) : e.job = j} = {s[i]}
  BY EndsOf
<1>2. told'[j] = Min({2, told[j] + Cardinality({e \in Ends(s) : e.job = j})})
  BY DEF Tell
<1>3. Cardinality({s[i]}) = 1
  BY FS_Singleton
<1>4. told'[j] = Min({2, 0 + 1})
  BY <1>1, <1>2, <1>3
<1>5. 0 + 1 = 1 /\ 1 \in Nat
  OBVIOUS
<1>6. Min({2, 1}) = 1
  BY MinTwo
<1> QED
  BY <1>4, <1>5, <1>6

\* The jobs E end, each told or lost once; the others do not.
EndsTold(E) ==
  \A j \in JobIds :
    /\ j \notin E => told'[j] = told[j] /\ (j \in untold' <=> j \in untold)
    /\ j \in E /\ told[j] = 0 =>
         \/ told'[j] = 1 /\ (j \in untold' <=> j \in untold)
         \/ told'[j] = 0 /\ j \in untold'

\* All events of a list are told, in the reconnect loop and without a transport.
LEMMA ToldCloses ==
  ASSUME TypesInv, NEW acts, NEW E, Closing(acts, E), Tell(acts), untold' = untold
  PROVE  EndsTold(E)
<1>1. acts \in Seq(Written \cup {ByteRead}) /\ told \in [JobIds -> 0 .. 2]
  BY DEF Closing, TypesInv, KeyerTypeOK
<1> SUFFICES ASSUME NEW j \in JobIds
             PROVE  /\ j \notin E => told'[j] = told[j]
                    /\ j \in E /\ told[j] = 0 => told'[j] = 1
  BY DEF EndsTold
<1>2. CASE j \notin E
  <2>1. EventsOf(acts, j) = {}
    BY <1>2 DEF Closing
  <2> QED
    BY <1>1, <1>2, <2>1, TellsNone
<1>3. CASE j \in E /\ told[j] = 0
  <2>1. PICK i : EventsOf(acts, j) = {i}
    BY <1>3 DEF Closing
  <2> QED
    BY <1>1, <1>3, <2>1, TellsOne
<1> QED
  BY <1>2, <1>3

\* Those before a failing write are told, the others are lost.
LEMMA TellsClose ==
  ASSUME TypesInv, NEW acts, NEW E, Closing(acts, E), TellsUpTo(acts)
  PROVE  EndsTold(E)
<1>1. CASE link # "up"
  BY <1>1, ToldCloses DEF TellsUpTo
<1>2. CASE link = "up"
  <2>1. PICK T : T = Written \cup {ByteRead}
    OBVIOUS
  <2>2. PICK s \in Seq(T) : s = acts /\ Len(s) \in Nat
    BY <2>1 DEF Closing
  <2>3. PICK n \in 0 .. Len(s) :
          /\ Tell(SubSeq(s, 1, n))
          /\ untold' = untold \cup {e.job : e \in Ends(SubSeq(s, n + 1, Len(s)))}
    BY <1>2, <2>2 DEF TellsUpTo, Applied
  <2>4. PICK a \in Seq(T) : a = SubSeq(s, 1, n) /\ Len(a) = n /\ \A i \in 1 .. n : a[i] = s[i]
    <3>1. SubSeq(s, 1, n) \in Seq(T) /\ Len(SubSeq(s, 1, n)) = n
      BY <2>2
    <3>2. \A i \in 1 .. n : SubSeq(s, 1, n)[i] = s[i]
      BY <2>2
    <3> QED
      BY <3>1, <3>2
  <2>5. PICK b \in Seq(T) : /\ b = SubSeq(s, n + 1, Len(s)) /\ Len(b) = Len(s) - n
                            /\ \A i \in 1 .. Len(s) - n : b[i] = s[n + i]
    <3>1. n + 1 \in Int /\ Len(s) \in Int /\ n + 1 >= 1 /\ n \in Nat
      BY <2>2
    <3>2. SubSeq(s, n + 1, Len(s)) \in Seq(T)
      BY <2>2, <3>1
    <3>3. Len(SubSeq(s, n + 1, Len(s))) = Len(s) - n
      BY <2>2, <3>1
    <3>4. \A i \in 1 .. Len(s) - n : SubSeq(s, n + 1, Len(s))[i] = s[n + i]
      BY <2>2, <3>1
    <3> QED
      BY <3>2, <3>3, <3>4
  <2>6. told \in [JobIds -> 0 .. 2]
    BY DEF TypesInv, KeyerTypeOK
  <2>7. n \in Nat /\ n <= Len(s)
    BY <2>2
  <2>8. \A j \in JobIds : EventsOf(a, j) = EventsOf(s, j) \cap (1 .. n)
    <3>1. \A i \in 1 .. n : i \in 1 .. Len(s)
      BY <2>2
    <3> QED
      BY <2>4, <3>1 DEF EventsOf
  <2>9. \A j \in JobIds : (\E e \in Ends(b) : e.job = j) <=> (\E i \in EventsOf(s, j) : i > n)
    <3> SUFFICES ASSUME NEW j \in JobIds
                 PROVE  (\E e \in Ends(b) : e.job = j) <=> (\E i \in EventsOf(s, j) : i > n)
      OBVIOUS
    <3>1. DOMAIN b = 1 .. Len(b)
      BY <2>5
    <3>2. ASSUME NEW e \in Ends(b), e.job = j PROVE \E i \in EventsOf(s, j) : i > n
      <4>1. PICK i \in 1 .. Len(b) : e = b[i] /\ IsEvent(b[i])
        BY <3>1, <3>2 DEF Ends
      <4>2. n + i \in 1 .. Len(s) /\ n + i > n /\ b[i] = s[n + i]
        BY <2>2, <2>5, <2>7, <4>1
      <4>3. n + i \in EventsOf(s, j)
        BY <3>2, <4>1, <4>2 DEF EventsOf
      <4> QED
        BY <4>2, <4>3
    <3>3. ASSUME NEW i \in EventsOf(s, j), i > n PROVE \E e \in Ends(b) : e.job = j
      <4>1. i \in 1 .. Len(s) /\ IsEvent(s[i]) /\ s[i].job = j
        BY <3>3 DEF EventsOf
      <4>2. PICK k \in 1 .. Len(b) : i = n + k
        <5>1. i - n \in 1 .. Len(b) /\ i = n + (i - n)
          BY <2>2, <2>5, <2>7, <3>3, <4>1
        <5> QED
          BY <5>1
      <4>3. b[k] = s[i]
        BY <2>5, <4>2
      <4>4. b[k] \in Ends(b)
        BY <3>1, <4>1, <4>2, <4>3 DEF Ends
      <4> QED
        BY <4>1, <4>3, <4>4
    <3> QED
      BY <3>2, <3>3
  <2>10. \A j \in JobIds : j \in untold' <=> j \in untold \/ \E i \in EventsOf(s, j) : i > n
    <3>1. \A j : j \in untold' <=> j \in untold \/ \E e \in Ends(b) : e.job = j
      BY <2>3, <2>5
    <3> QED
      BY <2>9, <3>1
  <2>11. Tell(a)
    BY <2>3, <2>4
  <2> SUFFICES ASSUME NEW j \in JobIds
               PROVE  /\ j \notin E => told'[j] = told[j] /\ (j \in untold' <=> j \in untold)
                      /\ j \in E /\ told[j] = 0 =>
                           \/ told'[j] = 1 /\ (j \in untold' <=> j \in untold)
                           \/ told'[j] = 0 /\ j \in untold'
    BY DEF EndsTold
  <2>12. CASE j \notin E
    <3>1. EventsOf(s, j) = {}
      BY <2>2, <2>12 DEF Closing
    <3>2. EventsOf(a, j) = {} /\ (j \in untold' <=> j \in untold)
      BY <2>8, <2>10, <3>1
    <3>3. told'[j] = told[j]
      BY <2>6, <2>11, <3>2, TellsNone
    <3> QED
      BY <2>12, <3>2, <3>3
  <2>13. CASE j \in E /\ told[j] = 0
    <3>1. PICK i \in 1 .. Len(s) : EventsOf(s, j) = {i}
      BY <2>2, <2>13 DEF Closing
    <3>2. CASE i <= n
      <4>1. EventsOf(a, j) = {i} /\ (j \in untold' <=> j \in untold)
        <5>1. i \in 1 .. n /\ ~(i > n)
          BY <2>7, <3>2
        <5> QED
          BY <2>8, <2>10, <3>1, <5>1
      <4>2. told'[j] = 1
        BY <2>11, <2>13, <4>1, TellsOne
      <4> QED
        BY <2>13, <4>1, <4>2
    <3>3. CASE i > n
      <4>1. i \notin 1 .. n
        BY <2>7, <3>3
      <4>2. EventsOf(a, j) = {} /\ j \in untold'
        BY <2>8, <2>10, <3>1, <3>3, <4>1
      <4>3. told'[j] = told[j]
        BY <2>6, <2>11, <4>2, TellsNone
      <4> QED
        BY <2>13, <4>2, <4>3
    <3>4. i <= n \/ i > n
      BY <2>7
    <3> QED
      BY <3>2, <3>3, <3>4
  <2> QED
    BY <2>12, <2>13
<1> QED
  BY <1>1, <1>2

\* So with the actions that are performed.
LEMMA PerformCloses ==
  ASSUME TypesInv, NEW acts, NEW E, Closing(acts, E), Perform(acts)
  PROVE  EndsTold(E)
BY PerformTells, TellsClose

\* The jobs that wait or run.
Waiting == IdsOf(queue) \cup (IF active = NoJob THEN {} ELSE {active.job.id})

\* A job waits or runs, or has been told one end, or its one end was lost.
KeptInv ==
  /\ \A j \in JobIds : /\ told[j] \in {0, 1}
                       /\ told[j] = 0 <=> j >= nextJob \/ j \in Waiting \cup untold
  /\ Waiting \cap untold = {}
  /\ \A j \in untold : j < nextJob

\* They are the jobs pending, each of them admitted.
LEMMA WaitingFacts ==
  ASSUME TypesInv, OrderInv
  PROVE  /\ Waiting = PendingIds
         /\ Waiting \subseteq JobIds /\ \A j \in Waiting : j < nextJob
         /\ active # NoJob => active.job.id \notin IdsOf(queue)
<1>1. PICK q \in Seq(Job) : q = queue /\ Len(q) \in Nat
  BY DEF TypesInv, KeyerTypeOK
<1>2. PICK j \in 0 .. MaxJobs, c \in Clients \cup {NoClient} : Reached(j, c)
  BY DEF OrderInv
<1>3. \A i \in 1 .. Len(q) : q[i].id \in JobIds /\ q[i].id < nextJob
  BY <1>1, JobFields DEF OrderInv
<1>4. CASE active = NoJob
  <2>1. <<>> \o q = q
    BY ConcatEmptySeq
  <2>2. Pending = q /\ DOMAIN q = 1 .. Len(q)
    BY <1>1, <1>4, <2>1 DEF Pending
  <2> QED
    BY <1>1, <1>3, <1>4, <2>2 DEF PendingIds, Waiting, IdsOf
<1>5. CASE active # NoJob
  <2>1. PICK job \in Job : job = active.job
    BY <1>5, RunningFields DEF TypesInv, KeyerTypeOK
  <2>2. job.id = j /\ job.id \in JobIds /\ j < nextJob
    BY <1>2, <1>5, <2>1, JobFields DEF Reached
  <2>3. PICK p \in Seq(Job) : p = <<job>> \o q /\ Len(p) = 1 + Len(q)
    <3>1. <<job>> \in Seq(Job) /\ Len(<<job>>) = 1
      OBVIOUS
    <3>2. <<job>> \o q \in Seq(Job) /\ Len(<<job>> \o q) = 1 + Len(q)
      BY <3>1, ConcatProperties
    <3> QED
      BY <3>2
  <2>4. p[1] = job /\ 1 \in 1 .. Len(p) /\ \A i \in 1 .. Len(q) : p[i + 1] = q[i] /\ i + 1 \in 1 .. Len(p)
    BY <1>1, <2>3
  <2>5. \A i \in 1 .. Len(p) : i = 1 \/ (i - 1 \in 1 .. Len(q) /\ (i - 1) + 1 = i)
    BY <1>1, <2>3
  <2>6. Pending = p /\ DOMAIN p = 1 .. Len(p)
    BY <1>1, <1>5, <2>1, <2>3 DEF Pending
  <2>7. PendingIds = {p[i].id : i \in 1 .. Len(p)}
    BY <2>6 DEF PendingIds
  <2>8. {p[i].id : i \in 1 .. Len(p)} = IdsOf(q) \cup {job.id}
    <3>1. \A i \in 1 .. Len(p) : p[i].id \in IdsOf(q) \cup {job.id}
      <4> SUFFICES ASSUME NEW i \in 1 .. Len(p) PROVE p[i].id \in IdsOf(q) \cup {job.id}
        OBVIOUS
      <4>1. CASE i = 1
        BY <2>4, <4>1
      <4>2. CASE i # 1
        <5>1. PICK k \in 1 .. Len(q) : k + 1 = i
          BY <2>5, <4>2
        <5>2. p[i] = q[k]
          BY <2>4, <5>1
        <5> QED
          BY <5>2 DEF IdsOf
      <4> QED
        BY <4>1, <4>2
    <3>2. \A i \in 1 .. Len(q) : \E k \in 1 .. Len(p) : p[k].id = q[i].id
      BY <2>4
    <3>3. \A x \in IdsOf(q) : \E k \in 1 .. Len(p) : p[k].id = x
      BY <3>2 DEF IdsOf
    <3> QED
      BY <2>4, <3>1, <3>3
  <2>9. Waiting = IdsOf(q) \cup {job.id}
    BY <1>1, <1>5, <2>1 DEF Waiting
  <2>10. job.id \notin IdsOf(q)
    <3>1. \A i \in 1 .. Len(q) : j < q[i].id
      BY <1>1, <1>2 DEF Reached
    <3>2. j \in Nat
      BY KeyerAssumption
    <3> QED
      BY <2>2, <3>1, <3>2 DEF IdsOf
  <2>11. \A k \in IdsOf(q) : k \in JobIds /\ k < nextJob
    BY <1>3 DEF IdsOf
  <2> QED
    BY <1>1, <2>1, <2>2, <2>7, <2>8, <2>9, <2>10, <2>11
<1> QED
  BY <1>4, <1>5

\* So no job admitted is forgotten, and none ends twice.
LEMMA KeptAccounted ==
  ASSUME TypesInv, OrderInv, KeptInv
  PROVE  JobsKept
<1>1. Waiting = PendingIds
  BY WaitingFacts
<1>2. \A j \in JobIds : told[j] < 2
  BY DEF KeptInv
<1> QED
  BY <1>1, <1>2 DEF KeptInv, JobsKept, JobsAccounted, TypesInv

\* A step that ends the jobs E keeps it, ...
LEMMA EndKept ==
  ASSUME TypesInv, OrderInv, KeptInv, TypesInv', NEW E, EndsTold(E), E \subseteq Waiting,
         Waiting' = Waiting \ E, nextJob' = nextJob
  PROVE  KeptInv'
<1>1. Waiting \subseteq JobIds /\ \A j \in Waiting : j < nextJob
  BY WaitingFacts
<1>2. nextJob \in Nat /\ untold' \subseteq JobIds /\ \A j \in JobIds : j \in Nat
  BY KeyerAssumption DEF TypesInv, KeyerTypeOK, JobIds
<1>3. ASSUME NEW j \in JobIds, j \notin E
      PROVE  told'[j] = told[j] /\ (j \in untold' <=> j \in untold) /\ (j \in Waiting' <=> j \in Waiting)
  BY <1>3 DEF EndsTold
<1>4. ASSUME NEW j \in E
      PROVE  /\ j \in JobIds /\ j \notin Waiting' /\ j < nextJob
             /\ \/ told'[j] = 1 /\ j \notin untold'
                \/ told'[j] = 0 /\ j \in untold'
  <2>1. j \in JobIds /\ j \in Waiting /\ j \notin untold /\ j < nextJob /\ told[j] = 0
    BY <1>1 DEF KeptInv
  <2>2. \/ told'[j] = 1 /\ (j \in untold' <=> j \in untold)
        \/ told'[j] = 0 /\ j \in untold'
    BY <2>1 DEF EndsTold
  <2>3. j \notin Waiting'
    BY <1>4
  <2> QED
    BY <2>1, <2>2, <2>3
<1>5. ASSUME NEW j \in JobIds
      PROVE  told'[j] \in {0, 1} /\ (told'[j] = 0 <=> j >= nextJob' \/ j \in Waiting' \cup untold')
  <2>1. CASE j \in E
    <3>1. ~(j >= nextJob)
      BY <1>2, <1>4, <2>1
    <3> QED
      BY <1>4, <2>1, <3>1
  <2>2. CASE j \notin E
    <3>1. told[j] \in {0, 1} /\ (told[j] = 0 <=> j >= nextJob \/ j \in Waiting \cup untold)
      BY DEF KeptInv
    <3> QED
      BY <1>3, <2>2, <3>1
  <2> QED
    BY <2>1, <2>2
<1>6. Waiting' \cap untold' = {}
  <2> SUFFICES ASSUME NEW j \in Waiting', j \in untold' PROVE FALSE
    OBVIOUS
  <2>1. j \in JobIds /\ j \notin E /\ j \in Waiting
    BY <1>1
  <2> QED
    BY <1>3, <2>1 DEF KeptInv
<1>7. ASSUME NEW j \in untold' PROVE j < nextJob'
  <2>1. CASE j \in E
    BY <1>4, <2>1
  <2>2. CASE j \notin E
    BY <1>2, <1>3, <1>7, <2>2 DEF KeptInv
  <2> QED
    BY <2>1, <2>2
<1> QED
  BY <1>5, <1>6, <1>7 DEF KeptInv

\* ... and one that admits a job.
LEMMA AdmitKept ==
  ASSUME TypesInv, OrderInv, KeptInv, TypesInv', EndsTold({}),
         Waiting' = Waiting \cup {nextJob}, nextJob' = nextJob + 1
  PROVE  KeptInv'
<1>1. Waiting \subseteq JobIds /\ \A j \in Waiting : j < nextJob
  BY WaitingFacts
<1>2. nextJob \in Nat /\ untold' \subseteq JobIds /\ \A j \in JobIds : j \in Nat
  BY KeyerAssumption DEF TypesInv, KeyerTypeOK, JobIds
<1>3. ASSUME NEW j \in JobIds PROVE told'[j] = told[j] /\ (j \in untold' <=> j \in untold)
  BY DEF EndsTold
<1>4. nextJob \notin untold /\ nextJob \notin Waiting
  BY <1>1, <1>2 DEF KeptInv
<1>5. ASSUME NEW j \in JobIds
      PROVE  told'[j] \in {0, 1} /\ (told'[j] = 0 <=> j >= nextJob' \/ j \in Waiting' \cup untold')
  <2>1. told[j] \in {0, 1} /\ (told[j] = 0 <=> j >= nextJob \/ j \in Waiting \cup untold)
    BY DEF KeptInv
  <2>2. j >= nextJob <=> j >= nextJob + 1 \/ j = nextJob
    BY <1>2
  <2> QED
    BY <1>3, <2>1, <2>2
<1>6. Waiting' \cap untold' = {}
  <2> SUFFICES ASSUME NEW j \in Waiting', j \in untold' PROVE FALSE
    OBVIOUS
  <2>1. j \in JobIds /\ j \in untold
    BY <1>2, <1>3
  <2> QED
    BY <1>4, <2>1 DEF KeptInv
<1>7. ASSUME NEW j \in untold' PROVE j < nextJob'
  <2>1. j \in untold /\ j \in Nat
    BY <1>2, <1>3, <1>7
  <2> QED
    BY <1>2, <2>1 DEF KeptInv
<1> QED
  BY <1>5, <1>6, <1>7 DEF KeptInv

\* What is written behind the end of a job tells no other's.
LEMMA NextCloses ==
  ASSUME ProfilesOK, NEW registered \in SUBSET Clients, NEW q \in Seq(Job), NEW seen, NEW before,
         NEW E, Closing(before, E)
  PROVE  Closing(NextWrites(registered, q, seen, before), E)
<1>1. CASE q = <<>>
  <2>1. RestoreWrites(Foreground(registered), seen) \in Seq(Settings)
    BY ForegroundTyped, RestoreTyped
  <2>2. RestoreWrites(Foreground(registered), seen) \in Seq(Mute)
    BY <2>1, MuteWrites, SeqWider
  <2> QED
    BY <1>1, <2>2, ClosingMute DEF NextWrites
<1>2. CASE q # <<>>
  <2>1. PICK job \in Job : job = Head(q)
    BY <1>2
  <2>2. PICK a \in Seq(Mute) : a = IF seen = job.client THEN <<>> ELSE Replay(job.client)
    <3>1. Replay(job.client) \in Seq(Settings)
      BY JobFields, ReplayTyped
    <3>2. Replay(job.client) \in Seq(Mute)
      BY <3>1, MuteWrites, SeqWider
    <3>3. <<>> \in Seq(Mute)
      OBVIOUS
    <3> QED
      BY <3>2, <3>3
  <2>3. PICK b \in Seq(Mute) : b = IF job.speed = "own" THEN <<>> ELSE <<SetWpm(job.speed)>>
    <3>1. job.speed # "own" => <<SetWpm(job.speed)>> \in Seq(Settings)
      BY JobFields, SpeedTyped
    <3>2. job.speed # "own" => <<SetWpm(job.speed)>> \in Seq(Mute)
      BY <3>1, MuteWrites, SeqWider
    <3>3. <<>> \in Seq(Mute)
      OBVIOUS
    <3> QED
      BY <3>2, <3>3
  <2>4. PICK t \in Seq(Mute) : t = <<Text(job.id, job.client), StatusRequest>>
    <3>1. Text(job.id, job.client) \in Texts
      BY JobFields DEF Texts
    <3>2. Text(job.id, job.client) \in Mute /\ StatusRequest \in Mute
      BY <3>1, MuteWrites
    <3>3. <<Text(job.id, job.client), StatusRequest>> \in Seq(Mute)
      BY <3>2
    <3> QED
      BY <3>3
  <2>5. Closing(before \o a, E)
    BY ClosingMute
  <2>6. Closing((before \o a) \o b, E)
    BY <2>5, ClosingMute
  <2>7. Closing(((before \o a) \o b) \o t, E)
    BY <2>6, ClosingMute
  <2> QED
    BY <1>2, <2>1, <2>2, <2>3, <2>4, <2>7 DEF NextWrites, StartWrites
<1> QED
  BY <1>1, <1>2

\* The jobs of q are those that wait or run after it.
LEMMA NextWaiting ==
  ASSUME NEW registered, NEW q \in Seq(Job), NEW seen, NEW before,
         StartNextOrRestore(registered, q, seen, before)
  PROVE  Waiting' = IdsOf(q)
<1>1. /\ queue' = IF q # <<>> THEN Tail(q) ELSE q
      /\ active' = IF q # <<>> THEN Begun(Head(q)) ELSE NoJob
  BY NextBegun
<1>2. CASE q = <<>>
  <2>1. Waiting' = IdsOf(q) \cup {}
    BY <1>1, <1>2 DEF Waiting
  <2> QED
    BY <2>1
<1>3. CASE q # <<>>
  <2>1. PICK job \in Job : job = Head(q)
    BY <1>3
  <2>2. PICK t \in Seq(Job) : t = Tail(q) /\ Len(t) = Len(q) - 1
    BY <1>3, HeadTailProperties
  <2>3. Len(q) \in Nat /\ Len(q) >= 1 /\ job = q[1] /\ \A k \in 1 .. Len(t) : t[k] = q[k + 1]
    BY <1>3, <2>1, <2>2
  <2>4. active' = Begun(job) /\ Begun(job) # NoJob /\ Begun(job).job = job
    <3>1. Begun(job) \in Running /\ NoJob \notin Running
      BY BegunTyped, KeyerAssumption
    <3> QED
      BY <1>1, <1>3, <2>1, <3>1 DEF Begun
  <2>5. Waiting' = IdsOf(t) \cup {job.id}
    BY <1>1, <1>3, <2>2, <2>4 DEF Waiting
  <2>6. ASSUME NEW j \in IdsOf(q) PROVE j \in IdsOf(t) \cup {job.id}
    <3>1. PICK k \in 1 .. Len(q) : j = q[k].id
      BY DEF IdsOf
    <3>2. CASE k = 1
      BY <2>3, <3>1, <3>2
    <3>3. CASE k # 1
      <4>1. PICK i \in 1 .. Len(t) : k = i + 1
        <5>1. k - 1 \in 1 .. Len(t) /\ k = (k - 1) + 1
          BY <2>2, <2>3, <3>3
        <5> QED
          BY <5>1
      <4>2. t[i] = q[k]
        BY <2>3, <4>1
      <4> QED
        BY <3>1, <4>2 DEF IdsOf
    <3> QED
      BY <3>2, <3>3
  <2>7. ASSUME NEW j \in IdsOf(t) PROVE j \in IdsOf(q)
    <3>1. PICK k \in 1 .. Len(t) : j = t[k].id
      BY DEF IdsOf
    <3>2. k + 1 \in 1 .. Len(q) /\ t[k] = q[k + 1]
      BY <2>2, <2>3
    <3> QED
      BY <3>1, <3>2 DEF IdsOf
  <2>8. job.id \in IdsOf(q)
    <3>1. 1 \in 1 .. Len(q)
      BY <2>3
    <3> QED
      BY <2>3, <3>1 DEF IdsOf
  <2> QED
    BY <2>5, <2>6, <2>7, <2>8
<1> QED
  BY <1>2, <1>3

\* start_next_or_restore with the jobs that are left.
LEMMA EndedKept ==
  ASSUME TypesInv, OrderInv, KeptInv, TypesInv', NEW registered \in SUBSET Clients, NEW q \in Seq(Job),
         NEW seen, NEW before, NEW E, Closing(before, E), E \subseteq Waiting, IdsOf(q) = Waiting \ E,
         StartNextOrRestore(registered, q, seen, before), nextJob' = nextJob
  PROVE  KeptInv'
<1>1. ProfilesOK
  BY DEF TypesInv, KeyerTypeOK, ProfilesOK
<1>2. PICK acts : acts = NextWrites(registered, q, seen, before)
  OBVIOUS
<1>3. Closing(acts, E) /\ Perform(acts)
  BY <1>1, <1>2, NextCloses, NextBegun
<1>4. EndsTold(E)
  BY <1>3, PerformCloses
<1>5. Waiting' = Waiting \ E
  BY NextWaiting
<1> QED
  BY <1>4, <1>5, EndKept

\* The running job, if one runs, goes on.
GoesOn == \/ active' = active
          \/ active # NoJob /\ active' # NoJob /\ active'.job.id = active.job.id

\* Jobs of the queue end.
LEMMA TakenKept ==
  ASSUME TypesInv, OrderInv, KeptInv, TypesInv', NEW acts, NEW E, Closing(acts, E), Perform(acts),
         E \subseteq IdsOf(queue), IdsOf(queue') = IdsOf(queue) \ E, GoesOn, nextJob' = nextJob
  PROVE  KeptInv'
<1>1. EndsTold(E)
  BY PerformCloses
<1>2. PICK A : A = IF active = NoJob THEN {} ELSE {active.job.id}
  OBVIOUS
<1>3. Waiting = IdsOf(queue) \cup A
  BY <1>2 DEF Waiting
<1>4. Waiting' = IdsOf(queue') \cup A
  BY <1>2 DEF Waiting, GoesOn
<1>5. A \cap IdsOf(queue) = {}
  BY <1>2, WaitingFacts
<1>6. E \subseteq Waiting /\ Waiting' = Waiting \ E
  BY <1>3, <1>4, <1>5
<1> QED
  BY <1>1, <1>6, EndKept

\* None ends.
LEMMA MuteKept ==
  ASSUME TypesInv, OrderInv, KeptInv, TypesInv', NEW acts \in Seq(Mute), Perform(acts),
         IdsOf(queue') = IdsOf(queue), GoesOn, nextJob' = nextJob
  PROVE  KeptInv'
<1>1. Closing(acts, {})
  BY MuteCloses
<1>2. {} \subseteq IdsOf(queue) /\ IdsOf(queue') = IdsOf(queue) \ {}
  OBVIOUS
<1> QED
  BY <1>1, <1>2, TakenKept

\* Nobody is told anything.
LEMMA CalmKept ==
  ASSUME TypesInv, OrderInv, KeptInv, TypesInv', UNCHANGED <<queue, active, nextJob, told, untold>>
  PROVE  KeptInv'
<1>1. EndsTold({})
  BY DEF EndsTold
<1>2. Waiting' = Waiting \ {} /\ {} \subseteq Waiting
  BY DEF Waiting
<1> QED
  BY <1>1, <1>2, EndKept

\* Short lists that tell nothing.
LEMMA MuteLists ==
  /\ <<>> \in Seq(Mute)
  /\ \A s \in Speeds : <<SetWpm(s)>> \in Seq(Mute)
  /\ \A r \in Regs, v \in Vals : <<SetReg(r, v)>> \in Seq(Mute)
  /\ \A w \in {Clear, KeyDown, KeyUp, HostOpen, StatusRequest, ByteRead} : <<w>> \in Seq(Mute)
  /\ \A j \in JobIds, c \in Clients : <<Text(j, c)>> \in Seq(Mute)
  /\ <<Clear, KeyUp>> \in Seq(Mute) /\ <<Clear, KeyUp, HostClose>> \in Seq(Mute) /\ <<Admin>> \in Seq(Mute)
<1>1. \A s \in Speeds : SetWpm(s) \in Mute
  BY MuteWrites DEF Settings
<1>2. \A r \in Regs, v \in Vals : SetReg(r, v) \in Mute
  BY MuteWrites DEF Settings
<1>3. \A w \in {Clear, KeyDown, KeyUp, HostOpen, HostClose, Admin, StatusRequest, ByteRead} : w \in Mute
  BY MuteWrites
<1>4. \A j \in JobIds, c \in Clients : Text(j, c) \in Mute
  BY MuteWrites DEF Texts
<1>5. /\ \A s \in Speeds : <<SetWpm(s)>> \in Seq(Mute)
      /\ \A r \in Regs, v \in Vals : <<SetReg(r, v)>> \in Seq(Mute)
      /\ \A j \in JobIds, c \in Clients : <<Text(j, c)>> \in Seq(Mute)
  BY <1>1, <1>2, <1>4
<1>6. \A w \in {Clear, KeyDown, KeyUp, HostOpen, StatusRequest, ByteRead} : <<w>> \in Seq(Mute)
  BY <1>3
<1>7. PICK x, y, z \in Mute : x = Clear /\ y = KeyUp /\ z = HostClose
  BY <1>3
<1>8. <<x, y>> \in Seq(Mute) /\ <<x, y, z>> \in Seq(Mute)
  OBVIOUS
<1>9. <<Admin>> \in Seq(Mute) /\ <<>> \in Seq(Mute)
  BY <1>3
<1> QED
  BY <1>5, <1>6, <1>7, <1>8, <1>9

\* Requests that admit and end nothing.
LEMMA SettingsKept ==
  ASSUME TypesInv, OrderInv, KeptInv, TypesInv', NEW c \in Clients,
         \/ Register(c)
         \/ \E s \in Speeds : SetSpeed(c, s)
         \/ \E r \in Regs, v \in Vals : Configure(c, r, v)
         \/ \E w \in {KeyDown, KeyUp} : KeyImmediate(c, w)
         \/ Maintain(c) \/ ReleaseMaintenance(c)
  PROVE  KeptInv'
<1>1. UNCHANGED <<queue, active, nextJob>> => IdsOf(queue') = IdsOf(queue) /\ GoesOn /\ nextJob' = nextJob
  BY DEF GoesOn
<1>2. ASSUME NEW acts \in Seq(Mute), Perform(acts), UNCHANGED <<queue, active, nextJob>> PROVE KeptInv'
  BY <1>1, <1>2, MuteKept
<1>3. CASE Register(c)
  <2>1. <<>> \in Seq(Mute) /\ Perform(<<>>) /\ UNCHANGED <<queue, nextJob, active>>
    BY <1>3, MuteLists DEF Register
  <2> QED
    BY <1>2, <2>1
<1>4. ASSUME NEW s \in Speeds, SetSpeed(c, s) PROVE KeptInv'
  <2>1. PICK acts \in Seq(Mute) : acts = IF AtOnce(c) THEN <<SetWpm(s)>> ELSE <<>>
    BY MuteLists
  <2>2. Perform(acts) /\ UNCHANGED <<queue, nextJob, active>>
    BY <1>4, <2>1 DEF SetSpeed
  <2> QED
    BY <1>2, <2>2
<1>5. ASSUME NEW r \in Regs, NEW v \in Vals, Configure(c, r, v) PROVE KeptInv'
  <2>1. PICK acts \in Seq(Mute) : acts = IF AtOnce(c) THEN <<SetReg(r, v)>> ELSE <<>>
    BY MuteLists
  <2>2. Perform(acts) /\ UNCHANGED <<queue, nextJob, active>>
    BY <1>5, <2>1 DEF Configure
  <2> QED
    BY <1>2, <2>2
<1>6. ASSUME NEW w \in {KeyDown, KeyUp}, KeyImmediate(c, w) PROVE KeptInv'
  <2>1. <<w>> \in Seq(Mute)
    BY MuteLists
  <2>2. Perform(<<w>>) /\ UNCHANGED <<queue, nextJob, active>>
    BY <1>6 DEF KeyImmediate, coreVars
  <2> QED
    BY <1>2, <2>1, <2>2
<1>7. CASE Maintain(c)
  <2>1. PICK a \in Seq(Mute) : a = IF maint = NoClient THEN <<Clear, KeyUp, HostClose>> ELSE <<>>
    BY MuteLists
  <2>2. PICK b \in Seq(Mute) : b = <<Admin>>
    BY MuteLists
  <2>3. a \o b \in Seq(Mute)
    BY ConcatProperties
  <2>4. Perform(a \o b) /\ UNCHANGED <<queue, nextJob, active>>
    BY <1>7, <2>1, <2>2 DEF Maintain, coreVars
  <2> QED
    BY <1>2, <2>3, <2>4
<1>8. CASE ReleaseMaintenance(c)
  <2>1. <<HostOpen>> \in Seq(Mute)
    BY MuteLists
  <2>2. Perform(<<HostOpen>>) /\ UNCHANGED <<queue, nextJob, active>>
    BY <1>8 DEF ReleaseMaintenance, coreVars
  <2> QED
    BY <1>2, <2>1, <2>2
<1> QED
  BY <1>3, <1>4, <1>5, <1>6, <1>7, <1>8

\* The jobs of one client, of the queue, end with its cancellation.
LEMMA TakenCloses ==
  ASSUME TypesInv, OrderInv, NEW S
  PROVE  LET t == Selection(queue, S) IN
         /\ Closing(Cancels(t), IdsOf(t)) /\ IdsOf(t) \subseteq IdsOf(queue)
         /\ Selection(queue, Job \ S) \in Seq(Job)
         /\ IdsOf(Selection(queue, Job \ S)) = IdsOf(queue) \ IdsOf(t)
<1>1. queue \in Seq(Job) /\ Ascending(queue)
  BY DEF TypesInv, KeyerTypeOK, OrderInv
<1>2. PICK t \in Seq(Job) : t = Selection(queue, S) /\ Ascending(t) /\ IdsOf(t) \subseteq IdsOf(queue)
  BY <1>1, IdsSplit
<1>3. Closing(Cancels(t), IdsOf(t))
  BY <1>2, CancelsClose
<1>4. Selection(queue, Job \ S) \in Seq(Job)
  BY <1>1, IdsSplit
<1>5. IdsOf(Selection(queue, Job \ S)) = IdsOf(queue) \ IdsOf(t)
  BY <1>1, <1>2, IdsSplit
<1> QED
  BY <1>2, <1>3, <1>4, <1>5

\* The running one ends with it.
LEMMA RunningCloses ==
  ASSUME TypesInv, OrderInv, active # NoJob, NEW S, NEW q, q = Selection(queue, Job \ S),
         NEW E, E = IdsOf(Selection(queue, S)) \cup {active.job.id}
  PROVE  E \subseteq Waiting /\ IdsOf(q) = Waiting \ E /\ IdsOf(Selection(queue, S)) \cap {active.job.id} = {}
<1>1. Waiting = IdsOf(queue) \cup {active.job.id} /\ active.job.id \notin IdsOf(queue)
  BY WaitingFacts DEF Waiting
<1>2. IdsOf(Selection(queue, S)) \subseteq IdsOf(queue) /\ IdsOf(q) = IdsOf(queue) \ IdsOf(Selection(queue, S))
  BY TakenCloses
<1> QED
  BY <1>1, <1>2

\* The running job is canceled: its text is cleared, and its client told.
LEMMA ClearCloses ==
  ASSUME NEW j \in JobIds
  PROVE  Closing(<<Clear, Canceled(j)>>, {j})
<1>1. PICK T : T = Written \cup {ByteRead}
  OBVIOUS
<1>2. PICK x \in T, y \in T : x = Clear /\ y = Canceled(j)
  BY <1>1 DEF Written, Mild, Harmless
<1>3. PICK s \in Seq(T) : s = <<x, y>> /\ Len(s) = 2 /\ s[1] = x /\ s[2] = y
  <2>1. <<x, y>> \in Seq(T)
    OBVIOUS
  <2>2. Len(<<x, y>>) = 2 /\ <<x, y>>[1] = x /\ <<x, y>>[2] = y
    OBVIOUS
  <2> QED
    BY <2>1, <2>2
<1>4. ~IsEvent(x) /\ IsEvent(y) /\ y.job = j
  BY <1>2 DEF IsEvent, Clear, Canceled
<1>5. EventsOf(s, j) = {2}
  BY <1>3, <1>4 DEF EventsOf
<1>6. \A k \in JobIds : k # j => EventsOf(s, k) = {}
  BY <1>3, <1>4 DEF EventsOf
<1>7. 2 \in 1 .. Len(s)
  BY <1>3
<1>8. Closing(s, {j})
  BY <1>1, <1>5, <1>6, <1>7 DEF Closing
<1> QED
  BY <1>2, <1>3, <1>8

\* A client that goes.
LEMMA UnregisterKept ==
  ASSUME TypesInv, OrderInv, KeptInv, TypesInv', NEW c \in Clients, Unregister(c)
  PROVE  KeptInv'
<1>1. BrokerTypes /\ JobTypes
  BY TypesParts
<1>2. PICK seen : seen = IF applied = c THEN NoClient ELSE applied
  OBVIOUS
<1>3. nextJob' = nextJob /\ clients' \in SUBSET Clients
  BY <1>1 DEF BrokerTypes, Unregister
<1>4. PICK T : T = IdsOf(Selection(queue, JobsOf(c)))
  OBVIOUS
<1>5. /\ Closing(TakenOf(c), T) /\ T \subseteq IdsOf(queue)
      /\ LeftOf(c) \in Seq(Job) /\ IdsOf(LeftOf(c)) = IdsOf(queue) \ T
  BY <1>4, TakenCloses DEF TakenOf, LeftOf
<1>6. Closing(UnregisterWrites(c), T)
  <2>1. PICK a \in Seq(Mute) : a = IF maint = c THEN <<HostOpen>> ELSE <<>>
    BY MuteLists
  <2> QED
    BY <1>5, <2>1, MuteClosing DEF UnregisterWrites
<1>7. CASE Owns(c)
  <2>1. StartNextOrRestore(clients', LeftOf(c), seen, EndedWrites(UnregisterWrites(c), active.job.id))
    BY <1>2, <1>7 DEF Unregister, LeftOf, UnregisterWrites, TakenOf, EndedWrites
  <2>2. active.job.id \in JobIds /\ active # NoJob
    BY <1>1, <1>7, RunningFields DEF JobTypes, Owns
  <2>3. PICK E : E = T \cup {active.job.id}
    OBVIOUS
  <2>4. E \subseteq Waiting /\ IdsOf(LeftOf(c)) = Waiting \ E /\ T \cap {active.job.id} = {}
    <3>1. PICK S, q : S = JobsOf(c) /\ q = LeftOf(c)
      OBVIOUS
    <3>2. q = Selection(queue, Job \ S) /\ T = IdsOf(Selection(queue, S))
      BY <1>4, <3>1 DEF LeftOf
    <3>3. E = IdsOf(Selection(queue, S)) \cup {active.job.id}
      BY <2>3, <3>2
    <3>4. E \subseteq Waiting /\ IdsOf(q) = Waiting \ E /\ IdsOf(Selection(queue, S)) \cap {active.job.id} = {}
      BY <2>2, <3>2, <3>3, RunningCloses
    <3> QED
      BY <3>1, <3>2, <3>4
  <2>5. Closing(<<Clear, Canceled(active.job.id)>>, {active.job.id})
    BY <2>2, ClearCloses
  <2>6. Closing(EndedWrites(UnregisterWrites(c), active.job.id), E)
    <3>1. PICK b, R : b = <<Clear, Canceled(active.job.id)>> /\ R = {active.job.id}
      OBVIOUS
    <3>2. Closing(b, R) /\ T \cap R = {}
      BY <2>4, <2>5, <3>1
    <3>3. Closing(UnregisterWrites(c) \o b, T \cup R)
      BY <1>6, <3>2, ClosingOn
    <3> QED
      BY <2>3, <3>1, <3>3 DEF EndedWrites
  <2> QED
    BY <1>3, <1>5, <2>1, <2>4, <2>6, EndedKept
<1>8. CASE ~Owns(c)
  <2>1. queue' = LeftOf(c) /\ active' = active /\ Perform(UnregisterWrites(c))
    BY <1>8 DEF Unregister, LeftOf, UnregisterWrites, TakenOf
  <2> QED
    BY <1>3, <1>5, <1>6, <2>1, TakenKept DEF GoesOn
<1> QED
  BY <1>7, <1>8

\* A client that cancels.
LEMMA CancelKept ==
  ASSUME TypesInv, OrderInv, KeptInv, TypesInv', NEW c \in Clients, Cancel(c)
  PROVE  KeptInv'
<1>1. BrokerTypes /\ JobTypes
  BY TypesParts
<1>2. nextJob' = nextJob /\ clients \in SUBSET Clients
  BY <1>1 DEF Cancel, BrokerTypes
<1>3. PICK T : T = IdsOf(Selection(queue, JobsOf(c)))
  OBVIOUS
<1>4. /\ Closing(TakenOf(c), T) /\ T \subseteq IdsOf(queue)
      /\ LeftOf(c) \in Seq(Job) /\ IdsOf(LeftOf(c)) = IdsOf(queue) \ T
  BY <1>3, TakenCloses DEF TakenOf, LeftOf
<1>5. CASE Owns(c)
  <2>1. StartNextOrRestore(clients, LeftOf(c), applied, CancelWrites(c))
    BY <1>5 DEF Cancel, LeftOf, TakenOf, CancelWrites
  <2>2. active.job.id \in JobIds /\ active # NoJob
    BY <1>1, <1>5, RunningFields DEF JobTypes, Owns
  <2>3. PICK E : E = T \cup {active.job.id}
    OBVIOUS
  <2>4. E \subseteq Waiting /\ IdsOf(LeftOf(c)) = Waiting \ E /\ T \cap {active.job.id} = {}
    <3>1. PICK S, q : S = JobsOf(c) /\ q = LeftOf(c)
      OBVIOUS
    <3>2. q = Selection(queue, Job \ S) /\ T = IdsOf(Selection(queue, S))
      BY <1>3, <3>1 DEF LeftOf
    <3>3. E = IdsOf(Selection(queue, S)) \cup {active.job.id}
      BY <2>3, <3>2
    <3>4. E \subseteq Waiting /\ IdsOf(q) = Waiting \ E /\ IdsOf(Selection(queue, S)) \cap {active.job.id} = {}
      BY <2>2, <3>2, <3>3, RunningCloses
    <3> QED
      BY <3>1, <3>2, <3>4
  <2>5. Closing(<<Clear>> \o TakenOf(c), T)
    <3>1. PICK a \in Seq(Mute) : a = <<Clear>>
      BY MuteLists
    <3> QED
      BY <1>4, <3>1, MuteClosing
  <2>6. Closing(<<Canceled(active.job.id)>>, {active.job.id})
    BY <2>2, OneCloses
  <2>7. Closing(CancelWrites(c), E)
    <3>1. PICK a, b, R : /\ a = <<Clear>> \o TakenOf(c)
                         /\ b = <<Canceled(active.job.id)>> /\ R = {active.job.id}
      OBVIOUS
    <3>2. Closing(a, T) /\ Closing(b, R) /\ T \cap R = {}
      BY <2>4, <2>5, <2>6, <3>1
    <3>3. Closing(a \o b, T \cup R)
      BY <3>2, ClosingOn
    <3> QED
      BY <2>3, <3>1, <3>3 DEF CancelWrites
  <2> QED
    BY <1>2, <1>4, <2>1, <2>4, <2>7, EndedKept
<1>6. CASE ~Owns(c)
  <2>1. queue' = LeftOf(c) /\ active' = active /\ Perform(CancelIdleWrites(c))
    BY <1>6 DEF Cancel, LeftOf, TakenOf, CancelIdleWrites
  <2>2. Closing(CancelIdleWrites(c), T)
    <3>1. PICK a \in Seq(Mute) : a = IF AtOnce(c) THEN <<Clear>> ELSE <<>>
      BY MuteLists
    <3> QED
      BY <1>4, <3>1, MuteClosing DEF CancelIdleWrites
  <2> QED
    BY <1>2, <1>4, <2>1, <2>2, TakenKept DEF GoesOn
<1> QED
  BY <1>5, <1>6

\* One job that is canceled.
LEMMA CancelJobKept ==
  ASSUME TypesInv, OrderInv, KeptInv, TypesInv', NEW c \in Clients, NEW j \in JobIds, CancelJob(c, j)
  PROVE  KeptInv'
<1>1. nextJob' = nextJob /\ queue \in Seq(Job) /\ clients \in SUBSET Clients
  BY DEF CancelJob, TypesInv, KeyerTypeOK
<1>2. CASE active # NoJob /\ active.job \in Named(c, j)
  <2>1. StartNextOrRestore(clients, queue, applied, <<Clear, Canceled(j)>>)
    BY <1>2 DEF CancelJob, Named
  <2>2. Closing(<<Clear, Canceled(j)>>, {j})
    BY ClearCloses
  <2>3. active.job.id = j
    BY <1>2 DEF Named
  <2>4. {j} \subseteq Waiting /\ IdsOf(queue) = Waiting \ {j}
    <3>1. Waiting = IdsOf(queue) \cup {j} /\ j \notin IdsOf(queue)
      BY <1>2, <2>3, WaitingFacts DEF Waiting
    <3> QED
      BY <3>1
  <2> QED
    BY <1>1, <2>1, <2>2, <2>4, EndedKept
<1>3. CASE ~(active # NoJob /\ active.job \in Named(c, j))
  <2>1. PICK S : S = Named(c, j)
    OBVIOUS
  <2>2. /\ queue' = Selection(queue, Job \ S) /\ GoesOn
        /\ Perform(Cancels(Selection(queue, S)))
    BY <1>3, <2>1 DEF CancelJob, Named, GoesOn
  <2>3. PICK E : E = IdsOf(Selection(queue, S))
    OBVIOUS
  <2>4. /\ Closing(Cancels(Selection(queue, S)), E) /\ E \subseteq IdsOf(queue)
        /\ IdsOf(queue') = IdsOf(queue) \ E
    BY <2>2, <2>3, TakenCloses
  <2> QED
    BY <1>1, <2>2, <2>4, TakenKept
<1> QED
  BY <1>2, <1>3

\* Streams grow.
LEMMA StreamKept ==
  ASSUME TypesInv, OrderInv, KeptInv, TypesInv', NEW c \in Clients, StreamOn(c) \/ StreamQueued(c)
  PROVE  KeptInv'
<1>1. nextJob' = nextJob
  BY DEF StreamOn, StreamQueued
<1>2. CASE StreamOn(c)
  <2>1. PICK run \in Running : run = active /\ active # NoJob
    BY <1>2 DEF TypesInv, KeyerTypeOK, StreamOn
  <2>2. PICK job \in Job : job = run.job /\ job.id \in JobIds
    BY RunningFields
  <2>3. PICK grown : grown = [job EXCEPT !.size = @ + 1]
    OBVIOUS
  <2>4. grown.id = job.id
    BY <2>3 DEF Job
  <2>5. active' = [run EXCEPT !.job = grown]
    BY <1>2, <2>1, <2>2, <2>3 DEF StreamOn
  <2>6. active'.job = grown
    BY <2>5 DEF Running
  <2>7. active' # NoJob
    <3>1. active' = [job |-> grown, sawBusy |-> run.sawBusy, observed |-> run.observed]
      BY <2>5 DEF Running
    <3>2. job.size < MaxSize
      BY <1>2, <2>1, <2>2 DEF StreamOn
    <3>3. grown \in Job
      BY <2>3, <3>2, GrownTyped
    <3>4. active' \in Running
      BY <3>1, <3>3 DEF Running
    <3> QED
      BY <3>4, KeyerAssumption
  <2>8. GoesOn /\ queue' = queue
    BY <1>2, <2>1, <2>2, <2>4, <2>6, <2>7 DEF GoesOn, StreamOn
  <2>9. PICK acts \in Seq(Mute) : acts = <<Text(job.id, c)>>
    BY <2>2, MuteLists
  <2>10. Perform(acts)
    BY <1>2, <2>1, <2>2, <2>9 DEF StreamOn
  <2> QED
    BY <1>1, <2>8, <2>10, MuteKept
<1>3. CASE StreamQueued(c)
  <2>1. PICK q \in Seq(Job) : q = queue /\ q # <<>> /\ Len(q) \in Nat
    BY <1>3 DEF TypesInv, KeyerTypeOK, StreamQueued
  <2>2. Len(q) \in 1 .. Len(q) /\ \A i \in 1 .. Len(q) : q[i] \in Job
    BY <2>1
  <2>3. PICK job : job = [q[Len(q)] EXCEPT !.size = @ + 1]
    OBVIOUS
  <2>4. job.id = q[Len(q)].id
    BY <2>2, <2>3 DEF Job
  <2>5. PICK t : t = [q EXCEPT ![Len(q)] = job] /\ t = queue'
    BY <1>3, <2>1, <2>3 DEF StreamQueued
  <2>6. Len(t) = Len(q) /\ \A i \in 1 .. Len(q) : t[i].id = q[i].id
    <3>1. DOMAIN t = 1 .. Len(q)
      BY <2>5
    <3>2. Len(t) = Len(q)
      BY <2>1, <3>1
    <3>3. \A i \in 1 .. Len(q) : t[i] = IF i = Len(q) THEN job ELSE q[i]
      BY <2>5
    <3> QED
      BY <2>4, <3>2, <3>3
  <2>7. IdsOf(queue') = IdsOf(queue)
    <3>1. \A x \in IdsOf(t) : x \in IdsOf(q)
      BY <2>6 DEF IdsOf
    <3>2. \A x \in IdsOf(q) : x \in IdsOf(t)
      BY <2>6 DEF IdsOf
    <3>3. IdsOf(t) = IdsOf(q)
      BY <3>1, <3>2
    <3> QED
      BY <2>1, <2>5, <3>3
  <2>8. PICK acts \in Seq(Mute) : acts = <<>>
    BY MuteLists
  <2>9. Perform(acts) /\ GoesOn
    BY <1>3, <2>8 DEF StreamQueued, GoesOn
  <2> QED
    BY <1>1, <2>7, <2>9, MuteKept
<1> QED
  BY <1>2, <1>3

\* A new job waits or runs.
LEMMA EnqueueKept ==
  ASSUME TypesInv, OrderInv, KeptInv, TypesInv', NEW c \in Clients,
         NEW speed \in Speeds \cup {"own"}, NEW stream \in BOOLEAN, Enqueue(c, speed, stream)
  PROVE  KeptInv'
<1>1. BrokerTypes /\ JobTypes
  BY TypesParts
<1>2. PICK job \in Job : job = NewJob(c, speed, stream)
  BY <1>1, NewJobTyped DEF Enqueue, BrokerTypes
<1>3. job.id = nextJob /\ nextJob' = nextJob + 1
  BY <1>1, <1>2 DEF NewJob, Enqueue
<1>4. PICK u \in Seq(Job) : u = queue /\ Len(u) \in Nat
  BY <1>1 DEF JobTypes
<1>5. PICK q \in Seq(Job) : q = Append(u, job) /\ Len(q) = Len(u) + 1
  <2>1. Append(u, job) \in Seq(Job) /\ Len(Append(u, job)) = Len(u) + 1
    OBVIOUS
  <2> QED
    BY <2>1
<1>6. q[Len(q)] = job /\ \A i \in 1 .. Len(u) : q[i] = u[i] /\ i \in 1 .. Len(q)
  BY <1>4, <1>5
<1>7. Len(q) \in 1 .. Len(q) /\ \A i \in 1 .. Len(q) : i \in 1 .. Len(u) \/ i = Len(q)
  BY <1>4, <1>5
<1>8. IdsOf(q) = IdsOf(queue) \cup {nextJob}
  <2>1. \A i \in 1 .. Len(q) : q[i].id \in IdsOf(u) \cup {nextJob}
    BY <1>3, <1>6, <1>7 DEF IdsOf
  <2>2. \A i \in 1 .. Len(u) : u[i].id \in IdsOf(q)
    BY <1>6 DEF IdsOf
  <2>3. nextJob \in IdsOf(q)
    BY <1>3, <1>6, <1>7 DEF IdsOf
  <2>4. \A x \in IdsOf(q) : x \in IdsOf(u) \cup {nextJob}
    BY <2>1 DEF IdsOf
  <2>5. \A x \in IdsOf(u) : x \in IdsOf(q)
    BY <2>2 DEF IdsOf
  <2> QED
    BY <1>4, <2>3, <2>4, <2>5
<1>9. q = Behind(job)
  BY <1>4, <1>5 DEF Behind
<1>10. Closing(<<>>, {})
  BY MuteLists, MuteCloses
<1>11. CASE active = NoJob
  <2>1. StartNextOrRestore(clients, q, applied, <<>>)
    BY <1>2, <1>9, <1>11 DEF Enqueue, NewJob
  <2>2. clients \in SUBSET Clients /\ ProfilesOK
    BY <1>1 DEF BrokerTypes, ProfilesOK
  <2>3. PICK acts : acts = NextWrites(clients, q, applied, <<>>)
    OBVIOUS
  <2>4. Closing(acts, {}) /\ Perform(acts)
    BY <1>10, <2>1, <2>2, <2>3, NextCloses, NextBegun
  <2>5. EndsTold({})
    BY <2>4, PerformCloses
  <2>6. Waiting' = IdsOf(q)
    BY <2>1, NextWaiting
  <2>7. Waiting = IdsOf(queue)
    BY <1>11 DEF Waiting
  <2> QED
    BY <1>3, <1>8, <2>5, <2>6, <2>7, AdmitKept
<1>12. CASE active # NoJob
  <2>1. queue' = q /\ active' = active /\ Perform(<<>>)
    BY <1>2, <1>9, <1>12 DEF Enqueue, NewJob
  <2>2. EndsTold({})
    BY <1>10, <2>1, PerformCloses
  <2>3. Waiting' = Waiting \cup {nextJob}
    BY <1>8, <2>1 DEF Waiting
  <2> QED
    BY <1>3, <2>2, <2>3, AdmitKept
<1> QED
  BY <1>11, <1>12

\* complete_active.
LEMMA CompleteKept ==
  ASSUME TypesInv, OrderInv, KeptInv, TypesInv', active \in Running, nextJob' = nextJob,
         NEW before \in Seq(Mute), Complete(before)
  PROVE  KeptInv'
<1>1. PICK j \in JobIds : j = active.job.id
  BY RunningFields
<1>2. Closing(before \o <<Completed(j)>>, {j})
  BY OneCloses, MuteClosing
<1>3. StartNextOrRestore(clients, queue, applied, before \o <<Completed(j)>>)
  BY <1>1 DEF Complete
<1>4. clients \in SUBSET Clients /\ queue \in Seq(Job) /\ active # NoJob
  BY KeyerAssumption DEF TypesInv, KeyerTypeOK
<1>5. {j} \subseteq Waiting /\ IdsOf(queue) = Waiting \ {j}
  <2>1. Waiting = IdsOf(queue) \cup {j} /\ j \notin IdsOf(queue)
    BY <1>1, <1>4, WaitingFacts DEF Waiting
  <2> QED
    BY <2>1
<1> QED
  BY <1>2, <1>3, <1>4, <1>5, EndedKept

\* The cancellations of all jobs, which a stop or an error tells.
LEMMA PendingCloses ==
  ASSUME TypesInv, OrderInv
  PROVE  Closing(Cancels(Pending), Waiting)
<1>1. PICK p \in Seq(Job) : p = Pending /\ DOMAIN p = 1 .. Len(p)
  <2>1. Pending \in Seq(Job)
    BY PendingTyped, TypesParts
  <2> QED
    BY <2>1
<1>2. Ascending(p)
  <2>1. ArrivalOrder
    BY OrderKept DEF JobsInOrder
  <2> QED
    BY <1>1, <2>1 DEF ArrivalOrder, Ascending
<1>3. IdsOf(p) = PendingIds
  BY <1>1 DEF IdsOf, PendingIds
<1>4. IdsOf(p) = Waiting
  BY <1>3, WaitingFacts
<1> QED
  BY <1>1, <1>2, <1>4, CancelsClose

\* What restores the foreground tells no end.
LEMMA RestoreMute ==
  ASSUME TypesInv, NEW seen
  PROVE  RestoreWrites(Foreground(clients), seen) \in Seq(Mute)
<1>1. ProfilesOK /\ clients \in SUBSET Clients
  BY DEF TypesInv, KeyerTypeOK, ProfilesOK
<1>2. RestoreWrites(Foreground(clients), seen) \in Seq(Settings)
  BY <1>1, ForegroundTyped, RestoreTyped
<1> QED
  BY <1>2, MuteWrites, SeqWider

\* A stop, with what is written behind its cancellations.
LEMMA StopCloses ==
  ASSUME TypesInv, OrderInv
  PROVE  /\ Closing(StopWrites \o RestoreWrites(Foreground(clients), applied), Waiting)
         /\ Closing(ShutdownWrites, Waiting)
<1>1. PICK a \in Seq(Mute) : a = <<Clear, KeyUp>>
  BY MuteLists
<1>2. PICK b \in Seq(Mute) : b = RestoreWrites(Foreground(clients), applied)
  BY RestoreMute
<1>4. Closing(a \o Cancels(Pending), Waiting)
  BY PendingCloses, MuteClosing
<1>5. Closing((a \o Cancels(Pending)) \o b, Waiting)
  BY <1>4, ClosingMute
<1> QED
  BY <1>1, <1>2, <1>5 DEF StopWrites, ShutdownWrites

\* Without a job there is none that waits.
LEMMA NoneWaiting ==
  ASSUME queue' = <<>>, active' = NoJob
  PROVE  Waiting' = Waiting \ Waiting
<1>1. PICK s : s = <<>>
  OBVIOUS
<1>2. IdsOf(s) = {}
  <2>1. Len(<<>>) = 0 /\ 1 .. 0 = {}
    OBVIOUS
  <2> QED
    BY <1>1, <2>1 DEF IdsOf
<1>3. Waiting' = IdsOf(s)
  BY <1>1 DEF Waiting
<1> QED
  BY <1>2, <1>3

\* An emergency stop tells every end.
LEMMA StopKept ==
  ASSUME TypesInv, OrderInv, KeptInv, TypesInv', EmergencyStop, nextJob' = nextJob
  PROVE  KeptInv'
<1>1. PICK acts : acts = StopWrites \o RestoreWrites(Foreground(clients), applied)
  OBVIOUS
<1>2. Perform(acts) /\ queue' = <<>> /\ active' = NoJob
  BY <1>1 DEF EmergencyStop, StopWrites, RestoreForeground
<1>3. Closing(acts, Waiting)
  BY <1>1, StopCloses
<1>4. EndsTold(Waiting)
  BY <1>2, <1>3, PerformCloses
<1>5. Waiting' = Waiting \ Waiting
  BY <1>2, NoneWaiting
<1> QED
  BY <1>4, <1>5, EndKept

\* So does the shutdown, ...
LEMMA ShutdownKept ==
  ASSUME TypesInv, OrderInv, KeptInv, TypesInv', Shutdown
  PROVE  KeptInv'
<1>2. EndsTold(Waiting)
  BY ShutdownTells, StopCloses, TellsClose
<1>3. Waiting' = Waiting \ Waiting /\ nextJob' = nextJob
  BY NoneWaiting DEF Shutdown
<1> QED
  BY <1>2, <1>3, EndKept

\* ... and physical_error, which loses none.
LEMMA LostKept ==
  ASSUME TypesInv, OrderInv, KeptInv, TypesInv', LinkLost \/ SessionError \/ Reconnect \/ ReconnectFailed
  PROVE  KeptInv'
<1>1. CASE SessionError
  <2>1. Tell(Cancels(Pending)) /\ untold' = untold
    BY <1>1 DEF SessionError
  <2>2. PICK acts : acts = Cancels(Pending) /\ Closing(acts, Waiting)
    BY PendingCloses
  <2>3. EndsTold(Waiting)
    BY <2>1, <2>2, ToldCloses
  <2>4. Waiting' = Waiting \ Waiting /\ nextJob' = nextJob
    BY <1>1, NoneWaiting DEF SessionError
  <2> QED
    BY <2>3, <2>4, EndKept
<1>2. CASE LinkLost \/ Reconnect \/ ReconnectFailed
  <2>1. UNCHANGED <<queue, active, nextJob, told, untold>>
    BY <1>2 DEF LinkLost, Reconnect, ReconnectFailed, coreVars, ghostVars
  <2> QED
    BY <2>1, CalmKept
<1> QED
  BY <1>1, <1>2

\* Reading a byte may complete the running job.
LEMMA ReadKept ==
  ASSUME TypesInv, OrderInv, KeptInv, TypesInv', Read
  PROVE  KeptInv'
<1>1. PICK one \in Seq(Mute) : one = <<ByteRead>>
  BY MuteLists
<1>2. CASE ReadFirmware
  <2>1. PICK f \in Seq(Mute) : f = FirmwareWrites
    <3>1. "pot" \in Speeds
      BY KeyerAssumption
    <3>2. SetWpm("pot") \in Mute
      BY <3>1, MuteWrites DEF Settings
    <3>3. {ByteRead, Clear, KeyUp, StatusRequest} \subseteq Mute
      BY MuteWrites
    <3>4. PICK v, w, x, y, z \in Mute : /\ v = ByteRead /\ w = Clear /\ x = KeyUp
                                       /\ y = SetWpm("pot") /\ z = StatusRequest
      BY <3>2, <3>3
    <3>5. <<v, w, x, y, z>> \in Seq(Mute)
      OBVIOUS
    <3> QED
      BY <3>4, <3>5 DEF FirmwareWrites
  <2>2. PICK r \in Seq(Mute) : r = RestoreWrites(Foreground(clients), NoClient)
    BY RestoreMute
  <2>3. PICK acts \in Seq(Mute) : acts = f \o r
    BY ConcatProperties
  <2>4. Perform(acts) /\ UNCHANGED <<queue, active, nextJob>>
    BY <1>2, <2>1, <2>2, <2>3 DEF ReadFirmware, FirmwareWrites, RestoreForeground
  <2> QED
    BY <2>4, MuteKept DEF GoesOn
<1>3. CASE ReadMaintenance \/ ReadEcho
  <2>1. Perform(one) /\ UNCHANGED <<queue, active, nextJob>>
    BY <1>1, <1>3 DEF ReadMaintenance, ReadEcho, coreVars
  <2> QED
    BY <2>1, MuteKept DEF GoesOn
<1>4. CASE ReadStatus
  <2>1. nextJob' = nextJob /\ active \in Running \cup {NoJob} /\ active' \in Running \cup {NoJob}
    BY <1>4 DEF ReadStatus, TypesInv, KeyerTypeOK
  <2>2. CASE active # NoJob /\ NextByte # "sending" /\ active.sawBusy
    <3>1. Complete(one)
      BY <1>1, <1>4, <2>2 DEF ReadStatus
    <3> QED
      BY <2>1, <2>2, <3>1, CompleteKept
  <2>3. CASE ~(active # NoJob /\ NextByte # "sending" /\ active.sawBusy)
    <3>1. /\ active' = IF active = NoJob THEN NoJob ELSE ObservedJob(NextByte)
          /\ queue' = queue /\ Perform(one)
      BY <1>1, <1>4, <2>3 DEF ReadStatus, ObservedJob
    <3>2. active # NoJob => /\ ObservedJob(NextByte) \in Running
                            /\ ObservedJob(NextByte).job = active.job
      BY <2>1 DEF ObservedJob, Running
    <3>3. GoesOn
      BY <3>1, <3>2, KeyerAssumption DEF GoesOn
    <3> QED
      BY <2>1, <3>1, <3>3, MuteKept
  <2> QED
    BY <2>2, <2>3
<1> QED
  BY <1>2, <1>3, <1>4 DEF Read

\* Ticks stop, complete or poll.
LEMMA TickKept ==
  ASSUME TypesInv, OrderInv, KeptInv, TypesInv', Watchdog \/ Settle \/ Poll \/ Tick
  PROVE  KeptInv'
<1>1. CASE Watchdog
  BY <1>1, StopKept DEF Watchdog
<1>2. CASE Settle
  <2>1. active \in Running /\ nextJob' = nextJob /\ Complete(<<>>)
    BY <1>2 DEF Settle, TypesInv, KeyerTypeOK
  <2>2. PICK acts \in Seq(Mute) : acts = <<>>
    BY MuteLists
  <2> QED
    BY <2>1, <2>2, CompleteKept
<1>3. CASE Poll
  <2>1. PICK acts \in Seq(Mute) : acts = <<StatusRequest>>
    BY MuteLists
  <2>2. Perform(acts) /\ UNCHANGED <<queue, active, nextJob>>
    BY <1>3, <2>1 DEF Poll, coreVars
  <2> QED
    BY <2>2, MuteKept DEF GoesOn
<1>4. CASE Tick
  <2>1. UNCHANGED <<queue, active, nextJob, told, untold>>
    BY <1>4 DEF Tick, coreVars, ghostVars
  <2> QED
    BY <2>1, CalmKept
<1> QED
  BY <1>1, <1>2, <1>3, <1>4

\* At first no job has been admitted.
LEMMA InitKept == Init => KeptInv
<1> SUFFICES ASSUME Init PROVE KeptInv
  OBVIOUS
<1>1. Waiting = {}
  <2>1. Len(<<>>) = 0 /\ 1 .. 0 = {}
    OBVIOUS
  <2>2. PICK s : s = <<>> /\ IdsOf(s) = {}
    BY <2>1 DEF IdsOf
  <2> QED
    BY <2>2 DEF Init, Waiting
<1>2. \A j \in JobIds : told[j] = 0 /\ j >= nextJob
  BY DEF Init, JobIds
<1>3. untold = {}
  BY DEF Init
<1> QED
  BY <1>1, <1>2, <1>3 DEF KeptInv

\* The requests of a client.
LEMMA RequestKept ==
  ASSUME TypesInv, OrderInv, KeptInv, TypesInv', NEW c \in Clients, ClientRequest(c)
  PROVE  KeptInv'
<1>1. \A j \in 1 .. nextJob - 1 : j \in JobIds
  <2>1. nextJob \in 1 .. MaxJobs + 1 /\ MaxJobs \in Nat
    BY KeyerAssumption DEF TypesInv, KeyerTypeOK
  <2> QED
    BY <2>1 DEF JobIds
<1>2. desired[c] \in Speeds
  BY DEF TypesInv, KeyerTypeOK
<1>3. ASSUME NEW j \in 1 .. nextJob - 1, CancelJob(c, j) PROVE KeptInv'
  BY <1>1, <1>3, CancelJobKept
<1>4. ASSUME NEW s \in Speeds, Enqueue(c, s, FALSE) PROVE KeptInv'
  BY <1>4, EnqueueKept
<1>5. ASSUME NEW s \in {desired[c], "own"}, Enqueue(c, s, TRUE) PROVE KeptInv'
  BY <1>2, <1>5, EnqueueKept
<1>6. CASE StreamOn(c) \/ StreamQueued(c)
  BY <1>6, StreamKept
<1>7. CASE \/ Register(c)
           \/ \E s \in Speeds : SetSpeed(c, s)
           \/ \E r \in Regs, v \in Vals : Configure(c, r, v)
           \/ \E w \in {KeyDown, KeyUp} : KeyImmediate(c, w)
           \/ Maintain(c) \/ ReleaseMaintenance(c)
  BY <1>7, SettingsKept
<1>8. CASE Unregister(c)
  BY <1>8, UnregisterKept
<1>9. CASE EnqueueUnconnected(c)
  <2>1. UNCHANGED <<queue, active, nextJob, told, untold>>
    BY <1>9 DEF EnqueueUnconnected, coreVars, ghostVars
  <2> QED
    BY <2>1, CalmKept
<1>10. CASE Cancel(c)
  BY <1>10, CancelKept
<1> QED
  BY <1>3, <1>4, <1>5, <1>6, <1>7, <1>8, <1>9, <1>10 DEF ClientRequest

\* Every step accounts for the jobs.
LEMMA NextKept == TypesInv /\ OrderInv /\ KeptInv /\ [Next]_vars => KeptInv'
<1> SUFFICES ASSUME TypesInv, OrderInv, KeptInv, [Next]_vars PROVE KeptInv'
  OBVIOUS
<1>1. TypesInv'
  BY NextTypes
<1>2. CASE UNCHANGED <<queue, active, nextJob, told, untold>>
  BY <1>1, <1>2, CalmKept
<1>3. ASSUME NEW c \in Clients, ClientRequest(c) PROVE KeptInv'
  BY <1>1, <1>3, RequestKept
<1>4. CASE Stop
  BY <1>1, <1>4, StopKept DEF Stop
<1>5. CASE Read
  BY <1>1, <1>5, ReadKept
<1>6. CASE Watchdog \/ Settle \/ Poll \/ Tick
  BY <1>1, <1>6, TickKept
<1>7. CASE LinkLost \/ SessionError \/ Reconnect \/ ReconnectFailed
  BY <1>1, <1>7, LostKept
<1>8. CASE Shutdown
  BY <1>1, <1>8, ShutdownKept
<1>9. CASE DeviceReport \/ DeviceKeys \/ Paddle \/ CatLease \/ LeaseExpiry \/ UNCHANGED vars
  BY <1>2, <1>9 DEF DeviceReport, DeviceKeys, Paddle, DeviceStep, CatLease, LeaseExpiry,
                    vars, coreVars, ghostVars
<1> QED
  BY <1>3, <1>4, <1>5, <1>6, <1>7, <1>8, <1>9 DEF Next

\* Completed and Canceled (broker.rs:46-49): for any clients and bounds, whatever is
\* streamed, canceled, stopped, completed or shut down, and wherever apply_actions fails,
\* each job that was admitted waits, runs, or has been told exactly one end; only a write
\* that fails within the step that ends it loses one, and physical_error, which cancels
\* what is left, tells no job twice.
THEOREM EveryJobIsKept == Spec => []JobsKept
<1>1. Init => TypesInv /\ OrderInv /\ KeptInv
  BY InitTyped, InitOrder, InitKept
<1>2. TypesInv /\ OrderInv /\ KeptInv /\ [Next]_vars => TypesInv' /\ OrderInv' /\ KeptInv'
  BY NextTypes, NextKeepsOrder, NextKept
<1>3. TypesInv /\ OrderInv /\ KeptInv => JobsKept
  BY KeptAccounted
<1> QED
  BY <1>1, <1>2, <1>3, PTL DEF Spec

------------------------------------------------------------------------------
(***************************************************************************)
(* The station lease                                                       *)
(***************************************************************************)

\* What LeaseSpansJobs needs to be inductive: only the three owners exist, and
\* the reconnect loop has no job, so that no session begins with one.
NoJobOffline == link = "down" => active = NoJob
LeaseOwners  == lease \in {"nobody", "keyer", "cat"}

LeaseInv == LeaseOwners /\ NoJobOffline /\ LeaseSpansJobs

USE DEF LeaseInv, LeaseOwners, NoJobOffline, LeaseSpansJobs

\* At the start the keyer is connected and has no job.
LEMMA InitLease == Init => LeaseInv
BY DEF Init

\* Requests about a client, its jobs and maintenance.
LEMMA RequestLease ==
  ASSUME NEW c \in Clients, LeaseInv, ClientRequest(c)
  PROVE  LeaseInv'
<1> USE DEF Release, Settled, Perform, Applied, Serving
<1>1. CASE Register(c)
  BY <1>1 DEF Register, coreVars, clientVars
<1>2. CASE Unregister(c)
  BY <1>2 DEF Unregister, Owns, StartNextOrRestore, Start, RestoreForeground
<1>3. ASSUME NEW s \in Speeds, SetSpeed(c, s)
      PROVE  LeaseInv'
  BY <1>3 DEF SetSpeed
<1>4. ASSUME NEW r \in Regs, NEW v \in Vals, Configure(c, r, v)
      PROVE  LeaseInv'
  BY <1>4 DEF Configure
<1>5. ASSUME NEW w \in {KeyDown, KeyUp}, KeyImmediate(c, w)
      PROVE  LeaseInv'
  BY <1>5 DEF KeyImmediate, coreVars
<1>6. CASE StreamOn(c)
  BY <1>6 DEF StreamOn
<1>7. CASE StreamQueued(c)
  BY <1>7 DEF StreamQueued
<1>8. ASSUME NEW s, NEW stream, Enqueue(c, s, stream)
      PROVE  LeaseInv'
  BY <1>8 DEF Enqueue, Leased, StartNextOrRestore, Start, RestoreForeground
<1>9. CASE EnqueueUnconnected(c)
  BY <1>9 DEF EnqueueUnconnected, Leased, coreVars, ghostVars
<1>10. CASE Cancel(c)
  BY <1>10 DEF Cancel, Owns, StartNextOrRestore, Start, RestoreForeground
<1>11. ASSUME NEW j, CancelJob(c, j)
       PROVE  LeaseInv'
  BY <1>11 DEF CancelJob, StartNextOrRestore, Start, RestoreForeground
<1>12. CASE Maintain(c)
  BY <1>12 DEF Maintain, coreVars
<1>13. CASE ReleaseMaintenance(c)
  BY <1>13 DEF ReleaseMaintenance, coreVars
<1> QED
  BY <1>1, <1>2, <1>3, <1>4, <1>5, <1>6, <1>7, <1>8, <1>9, <1>10, <1>11, <1>12, <1>13
  DEF ClientRequest

\* Bytes of the keyer, ticks, the transport, the shutdown and the environment.
LEMMA SessionLease ==
  ASSUME LeaseInv,
         \/ Stop \/ Read
         \/ Watchdog \/ Settle \/ Poll \/ Tick
         \/ LinkLost \/ SessionError \/ Reconnect \/ ReconnectFailed
         \/ Shutdown
         \/ DeviceReport \/ DeviceKeys \/ Paddle
         \/ CatLease \/ LeaseExpiry
  PROVE  LeaseInv'
<1> USE DEF Release, Settled, Perform, Applied, Serving, coreVars, clientVars,
            ghostVars
<1>1. CASE Stop
  BY <1>1 DEF Stop, EmergencyStop, RestoreForeground
<1>2. CASE ReadFirmware
  BY <1>2 DEF ReadFirmware, Reading, RestoreForeground
<1>3. CASE ReadMaintenance
  BY <1>3 DEF ReadMaintenance, Reading
<1>4. CASE ReadEcho
  BY <1>4 DEF ReadEcho, InSession, Reading
<1>5. CASE ReadStatus
  BY <1>5 DEF ReadStatus, InSession, Reading, Paddled, Leased, Complete,
              StartNextOrRestore, Start, RestoreForeground
<1>6. CASE Watchdog
  BY <1>6, SMTT(40) DEF Watchdog, EmergencyStop, RestoreForeground
<1>7. CASE Settle
  BY <1>7 DEF Settle, Complete, StartNextOrRestore, Start, RestoreForeground
<1>8. CASE Poll
  BY <1>8 DEF Poll
<1>9. CASE Tick
  BY <1>9 DEF Tick
<1>10. CASE LinkLost
  BY <1>10 DEF LinkLost
<1>11. CASE SessionError
  BY <1>11 DEF SessionError
<1>12. CASE Reconnect \/ ReconnectFailed
  BY <1>12 DEF Reconnect, ReconnectFailed
<1>13. CASE Shutdown
  BY <1>13 DEF Shutdown
<1>14. CASE DeviceReport \/ DeviceKeys \/ Paddle
  BY <1>14 DEF DeviceReport, DeviceKeys, Paddle, DeviceStep
<1>15. CASE CatLease
  BY <1>15 DEF CatLease
<1>16. CASE LeaseExpiry
  BY <1>16 DEF LeaseExpiry
<1> QED
  BY <1>1, <1>2, <1>3, <1>4, <1>5, <1>6, <1>7, <1>8, <1>9, <1>10, <1>11, <1>12,
     <1>13, <1>14, <1>15, <1>16
  DEF Read

\* No step breaks the invariant.
LEMMA NextLease == LeaseInv /\ [Next]_vars => LeaseInv'
<1> SUFFICES ASSUME LeaseInv, [Next]_vars PROVE LeaseInv'
  OBVIOUS
<1>1. CASE UNCHANGED vars
  BY <1>1 DEF vars, coreVars, ghostVars
<1>2. CASE Next
  BY <1>1, <1>2, RequestLease, SessionLease DEF Next
<1> QED
  BY <1>1, <1>2

\* "CAT PTT and WinKeyer transmit jobs acquire the same station lease": for any
\* clients and job bounds, whatever the order of requests, keyer bytes, ticks,
\* failing writes and CAT sessions, the keyer has the lease while a job runs,
\* unless the PTT watchdog took it.
THEOREM LeaseSpansEveryJob == Spec => []LeaseSpansJobs
<1>1. LeaseInv => LeaseSpansJobs
  OBVIOUS
<1> QED
  BY <1>1, InitLease, NextLease, PTL DEF Spec

HIDE DEF LeaseInv, LeaseOwners, NoJobOffline, LeaseSpansJobs

------------------------------------------------------------------------------
(***************************************************************************)
(* What the keyer is set up for                                            *)
(***************************************************************************)

\* One list of writes and then another.
LEMMA ObeyOn ==
  ASSUME NEW d, NEW T, NEW a \in Seq(T), NEW b \in Seq(T)
  PROVE  ObeyAll(d, a \o b) = ObeyAll(ObeyAll(d, a), b)
<1>1. PICK m \in Nat, n \in Nat : m = Len(a) /\ n = Len(b)
  OBVIOUS
<1>2. PICK u \in Seq(T) : u = a \o b /\ Len(u) = m + n
  BY <1>1, ConcatProperties
<1>3. /\ \A i \in 1 .. m : u[i] = a[i]
      /\ \A i \in 1 .. n : u[i + m] = b[i] /\ i + m \in 1 .. m + n
  BY <1>1, <1>2
<1>4. PICK g : Obeyed(d, u, m + n, g) /\ ObeyAll(d, u) = g[m + n]
  <2>1. PICK k \in Nat : k = m + n
    OBVIOUS
  <2>2. Len(u) = k
    BY <1>2, <2>1
  <2>3. \E g : Obeyed(d, u, Len(u), g) /\ ObeyAll(d, u) = g[Len(u)]
    BY <2>2, ObeyAllObeyed
  <2> QED
    BY <2>1, <2>2, <2>3, Zenon
<1>5. PICK ga : Obeyed(d, a, m, ga) /\ ObeyAll(d, a) = ga[m]
  BY <1>1, ObeyAllObeyed
<1>6. g[m] = ga[m]
  <2>1. Alike(a, u, 1, m)
    BY <1>3 DEF Alike
  <2>2. m <= m + n /\ m + n \in Nat
    OBVIOUS
  <2>3. Alike(ga, g, 0, m)
    BY <1>4, <1>5, <2>1, <2>2, ObeyedUnique
  <2>4. m \in 0 .. m
    OBVIOUS
  <2> QED
    BY <2>3, <2>4 DEF Alike
<1>7. PICK h : h = [i \in 0 .. n |-> g[i + m]]
  OBVIOUS
<1>8. Obeyed(g[m], b, n, h)
  <2>1. DOMAIN h = 0 .. n /\ h[0] = g[m]
    BY <1>7
  <2>2. ASSUME NEW i \in 1 .. n PROVE h[i] = Obey(h[i - 1], b[i])
    <3>1. h[i] = g[i + m] /\ h[i - 1] = g[(i - 1) + m]
      BY <1>7
    <3>2. i + m \in 1 .. m + n /\ (i + m) - 1 = (i - 1) + m
      OBVIOUS
    <3>3. g[i + m] = Obey(g[(i + m) - 1], u[i + m])
      BY <1>4, <3>2 DEF Obeyed
    <3>4. u[i + m] = b[i]
      BY <1>3
    <3> QED
      BY <3>1, <3>2, <3>3, <3>4
  <2> QED
    BY <2>1, <2>2 DEF Obeyed
<1>9. PICK hb : Obeyed(g[m], b, n, hb) /\ ObeyAll(g[m], b) = hb[n]
  BY <1>1, ObeyAllObeyed
<1>10. h[n] = hb[n]
  <2>1. Alike(b, b, 1, n) /\ n <= n
    BY DEF Alike
  <2>2. Alike(h, hb, 0, n)
    BY <1>8, <1>9, <2>1, ObeyedUnique
  <2>3. n \in 0 .. n
    OBVIOUS
  <2> QED
    BY <2>2, <2>3 DEF Alike
<1>11. h[n] = g[m + n]
  BY <1>7
<1> QED
  BY <1>2, <1>4, <1>5, <1>6, <1>9, <1>10, <1>11

\* The keyer in host mode, set up as d is.
Like(d) == {e \in Device : e.open /\ e.regs = d.regs /\ e.speed = d.speed}

\* What sets nothing up leaves it so, ...
LEMMA LikeKept ==
  ASSUME NEW d
  PROVE  /\ \A e \in Like(d), w \in Harmless \cup Texts : Obey(e, w) \in Like(d)
         /\ \A e \in Like(d) : e.up # <<>> => Obey(e, ByteRead) \in Like(d)
<1>1. ASSUME NEW e \in Like(d), NEW w \in Harmless PROVE Obey(e, w) \in Like(d)
  BY <1>1, HarmlessObeyed DEF Like, HarmlessDone
<1>2. ASSUME NEW e \in Like(d), NEW w \in Texts PROVE Obey(e, w) \in Like(d)
  <2>1. PICK j \in JobIds, c \in Clients : w = Text(j, c)
    BY <1>2 DEF Texts
  <2>2. TextDone(e, j, c)
    BY TextObeyed DEF Like
  <2> QED
    BY <2>1, <2>2 DEF Like, TextDone
<1>3. ASSUME NEW e \in Like(d), e.up # <<>> PROVE Obey(e, ByteRead) \in Like(d)
  BY <1>3, ReadObeyed DEF Like, Kept4
<1> QED
  BY <1>1, <1>2, <1>3

\* ... also a whole list of them.
LEMMA AllLike ==
  ASSUME NEW d \in Device, d.open, NEW s \in Seq(Harmless \cup Texts)
  PROVE  ObeyAll(d, s) \in Like(d)
<1>1. PICK D, W : D = Like(d) /\ W = Harmless \cup Texts
  OBVIOUS
<1>2. d \in D /\ s \in Seq(W) /\ \A e \in D, w \in W : Obey(e, w) \in D
  BY <1>1, LikeKept DEF Like
<1>3. ObeyAll(d, s) \in D
  BY <1>2, AllKeep
<1> QED
  BY <1>1, <1>3

\* The keyer d has what client c's profile asks for.
Loaded(d, c) == \A r \in Regs : profile[c][r] # Unset => d.regs[r] = profile[c][r]

\* A replay loads all of it, whatever was there.
LEMMA ReplayLoads ==
  ASSUME ProfilesOK, NEW c \in Clients, NEW d \in Device, d.open
  PROVE  LET e == ObeyAll(d, Replay(c)) IN
         e \in Device /\ e.open /\ e.speed = d.speed /\ Loaded(e, c)
<1>1. PICK W : W = {SetReg(r, profile[c][r]) : r \in Regs}
  OBVIOUS
<1>2. PICK ws \in Seq(W) : ws = Replay(c) /\ Len(ws) \in Nat
  <2>1. Replay(c) \in Seq(W)
    BY <1>1, ReplayTyped
  <2> QED
    BY <2>1
<1>3. PICK D : D = {e \in Device : e.open /\ e.speed = d.speed}
  OBVIOUS
<1>4. \A r \in Regs : profile[c][r] \in Vals \cup {Unset}
  BY DEF ProfilesOK
<1>5. ASSUME NEW e \in D, NEW r \in Regs
      PROVE  /\ Obey(e, SetReg(r, profile[c][r])) \in D
             /\ Obey(e, SetReg(r, profile[c][r])).regs = [e.regs EXCEPT ![r] = profile[c][r]]
  <2>1. RegDone(e, r, profile[c][r])
    BY <1>3, <1>4, RegObeyed
  <2> QED
    BY <1>3, <2>1 DEF RegDone
<1>6. \A e \in D, w \in W : Obey(e, w) \in D
  BY <1>1, <1>5
<1>7. d \in D
  BY <1>3
<1>8. (\A n \in 0 .. Len(ws) : ObeyAll(d, SubSeq(ws, 1, n)) \in D) /\ ObeyAll(d, ws) \in D
  BY <1>6, <1>7, AllKeep
<1>9. ASSUME NEW r \in Regs, profile[c][r] # Unset
      PROVE  ObeyAll(d, ws).regs[r] = profile[c][r]
  <2>1. PICK v : v = profile[c][r]
    OBVIOUS
  <2>2. PICK i \in 1 .. Len(ws) : ws[i] = SetReg(r, v)
    BY <1>2, <1>9, <2>1, ReplayTyped
  <2>3. PICK E : E = {e \in D : e.regs[r] = v}
    OBVIOUS
  <2>4. PICK g : /\ Obeyed(d, ws, Len(ws), g)
                 /\ g[Len(ws)] = ObeyAll(d, ws)
                 /\ \A n \in 0 .. Len(ws) : g[n] = ObeyAll(d, SubSeq(ws, 1, n))
    BY ObeyPrefix
  <2>5. i \in 0 .. Len(ws) /\ i - 1 \in 0 .. Len(ws)
    BY <1>2
  <2>6. g[i] = Obey(g[i - 1], SetReg(r, v)) /\ g[i - 1] \in D
    BY <1>8, <2>2, <2>4, <2>5 DEF Obeyed
  <2>7. ObeyAll(d, SubSeq(ws, 1, i)) \in E
    <3>1. g[i] \in D /\ g[i].regs = [g[i - 1].regs EXCEPT ![r] = v]
      <4>1. PICK h \in D : h = g[i - 1]
        BY <2>6, Zenon
      <4>2. Obey(h, SetReg(r, v)) \in D /\ Obey(h, SetReg(r, v)).regs = [h.regs EXCEPT ![r] = v]
        BY <1>5, <2>1, Zenon
      <4> QED
        BY <2>6, <4>1, <4>2, Zenon
    <3>2. g[i - 1].regs \in [Regs -> Vals \cup {Unset}]
      <4>1. g[i - 1] \in Device
        BY <1>3, <2>6
      <4> QED
        BY <4>1, DeviceFields, Zenon
    <3>3. g[i].regs[r] = v
      BY <3>1, <3>2
    <3> QED
      BY <2>3, <2>4, <2>5, <3>1, <3>3
  <2>8. ASSUME NEW e \in E, NEW w \in W PROVE Obey(e, w) \in E
    <3>1. PICK k \in Regs : w = SetReg(k, profile[c][k])
      BY <1>1
    <3>2. e \in D /\ e.regs[r] = v
      BY <2>3
    <3>3. Obey(e, w) \in D /\ Obey(e, w).regs = [e.regs EXCEPT ![k] = profile[c][k]]
      BY <1>5, <3>1, <3>2
    <3>4. e.regs \in [Regs -> Vals \cup {Unset}]
      BY <1>3, <3>2, DeviceFields
    <3>5. Obey(e, w).regs[r] = v
      BY <2>1, <3>2, <3>3, <3>4
    <3> QED
      BY <2>3, <3>3, <3>5
  <2>9. \A k \in i + 1 .. Len(ws) : ws[k] \in W
    BY <1>2
  <2>10. ObeyAll(d, ws) \in E
    BY <2>5, <2>7, <2>8, <2>9, StepsKeep
  <2> QED
    BY <2>1, <2>3, <2>10
<1> QED
  BY <1>2, <1>3, <1>8, <1>9 DEF Loaded

\* A speed is that speed.
LEMMA SpeedSets ==
  ASSUME NEW d \in Device, d.open, NEW s \in Speeds
  PROVE  LET e == ObeyAll(d, <<SetWpm(s)>>) IN
         e \in Device /\ e.open /\ e.speed = s /\ e.regs = d.regs
<1>1. ObeyAll(d, <<SetWpm(s)>>) = Obey(d, SetWpm(s))
  BY SpeedTyped, ObeyOne
<1>2. SpeedDone(d, s)
  BY SpeedObeyed
<1> QED
  BY <1>1, <1>2 DEF SpeedDone

\* The keyer in host mode with the registers of d, and what leaves them alone.
Same(d) == {e \in Device : e.open /\ e.regs = d.regs}
Tuning == Harmless \cup {SetWpm(s) : s \in Speeds}

\* Speeds and texts touch no register, ...
LEMMA SameKept ==
  ASSUME NEW d
  PROVE  /\ \A e \in Same(d), w \in Tuning \cup Texts : Obey(e, w) \in Same(d)
         /\ \A e \in Same(d) : e.up # <<>> => Obey(e, ByteRead) \in Same(d)
<1>1. ASSUME NEW e \in Same(d), NEW w \in Harmless PROVE Obey(e, w) \in Same(d)
  BY <1>1, HarmlessObeyed DEF Same, HarmlessDone
<1>2. ASSUME NEW e \in Same(d), NEW w \in Texts PROVE Obey(e, w) \in Same(d)
  <2>1. PICK j \in JobIds, c \in Clients : w = Text(j, c)
    BY <1>2 DEF Texts
  <2>2. TextDone(e, j, c)
    BY TextObeyed DEF Same
  <2> QED
    BY <2>1, <2>2 DEF Same, TextDone
<1>3. ASSUME NEW e \in Same(d), NEW s \in Speeds PROVE Obey(e, SetWpm(s)) \in Same(d)
  <2>1. SpeedDone(e, s)
    BY SpeedObeyed DEF Same
  <2> QED
    BY <2>1 DEF Same, SpeedDone
<1>4. ASSUME NEW e \in Same(d), e.up # <<>> PROVE Obey(e, ByteRead) \in Same(d)
  BY <1>4, ReadObeyed DEF Same, Kept4
<1> QED
  BY <1>1, <1>2, <1>3, <1>4 DEF Tuning

\* ... nor does a list of them that a step begins with.
LEMMA FirstSame ==
  ASSUME dev \in Device, dev.open, NEW before, Leads(before, Tuning)
  PROVE  ObeyAll(dev, before) \in Same(dev)
<1>1. PICK D, W : D = Same(dev) /\ W = Tuning
  OBVIOUS
<1>2. dev \in D
  BY <1>1 DEF Same
<1>3. \A e \in D, w \in W : Obey(e, w) \in D
  BY <1>1, SameKept
<1>4. \A e \in D : e.up # <<>> => Obey(e, ByteRead) \in D
  BY <1>1, SameKept
<1>5. ObeyAll(dev, before) \in D
  BY <1>1, <1>2, <1>3, <1>4, LeadsKeep
<1> QED
  BY <1>1, <1>5

\* What begins with such a list can be written in a session.
LEMMA TuningMild ==
  ASSUME NEW before, Leads(before, Tuning)
  PROVE  Leads(before, Mild)
<1>1. Tuning \subseteq Mild
  BY DEF Tuning, Mild, Settings
<1>2. before \in Seq(Tuning \cup {ByteRead}) /\ Tuning \cup {ByteRead} \subseteq Mild \cup {ByteRead}
  BY <1>1 DEF Leads
<1>3. before \in Seq(Mild \cup {ByteRead})
  BY <1>2, SeqWider
<1>4. \A i \in 2 .. Len(before) : before[i] \in Mild
  BY <1>1 DEF Leads
<1>5. before # <<>> /\ before[1] = ByteRead => dev.up # <<>>
  BY DEF Leads
<1> QED
  BY <1>3, <1>4, <1>5 DEF Leads

\* A profile is in the keyer's registers.
LEMMA LoadedSame ==
  ASSUME NEW d, NEW e, d.regs = e.regs, NEW c, Loaded(d, c)
  PROVE  Loaded(e, c)
BY DEF Loaded

\* The replay of a profile that may be in the keyer already.
LEMMA ReplaySets ==
  ASSUME ProfilesOK, NEW c \in Clients, NEW skip \in BOOLEAN, NEW d \in Device, d.open,
         NEW a, a = IF skip THEN <<>> ELSE Replay(c)
  PROVE  /\ a \in Seq(Settings)
         /\ ObeyAll(d, a) \in Device /\ ObeyAll(d, a).open
         /\ (skip => Loaded(d, c)) => Loaded(ObeyAll(d, a), c)
         /\ ObeyAll(d, a).speed = d.speed
<1>1. CASE skip
  <2>1. <<>> \in Seq(Settings) /\ a = <<>>
    BY <1>1
  <2>2. ObeyAll(d, a) = d
    BY <2>1, ObeyFirst
  <2> QED
    BY <1>1, <2>1, <2>2
<1>2. CASE ~skip
  <2>1. a = Replay(c)
    BY <1>2
  <2>2. Replay(c) \in Seq(Settings)
    BY ReplayTyped
  <2> QED
    BY <2>1, <2>2, ReplayLoads
<1> QED
  BY <1>1, <1>2

\* A restore puts the foreground's profile and speed into the keyer, or the pot's speed.
LEMMA RestoreSets ==
  ASSUME ProfilesOK, NEW fg \in Clients \cup {NoClient}, NEW seen, NEW d \in Device, d.open,
         fg # NoClient /\ fg = seen => Loaded(d, fg)
  PROVE  LET e == ObeyAll(d, RestoreWrites(fg, seen)) IN
         /\ e \in Device /\ e.open
         /\ e.speed = IF fg = NoClient THEN "pot" ELSE desired[fg]
         /\ fg # NoClient => Loaded(e, fg)
         /\ fg = NoClient => e.regs = d.regs
<1>1. PICK a : a = IF fg \in {NoClient, seen} THEN <<>> ELSE Replay(fg)
  OBVIOUS
<1>2. PICK s \in Speeds : s = IF fg = NoClient THEN "pot" ELSE desired[fg]
  BY KeyerAssumption DEF ProfilesOK
<1>3. <<SetWpm(s)>> \in Seq(Settings)
  BY SpeedTyped
<1>4. /\ a \in Seq(Settings) /\ ObeyAll(d, a) \in Device /\ ObeyAll(d, a).open
      /\ fg # NoClient => Loaded(ObeyAll(d, a), fg)
      /\ fg = NoClient => ObeyAll(d, a) = d
  <2>1. CASE fg = NoClient
    <3>1. <<>> \in Seq(Settings) /\ a = <<>>
      BY <1>1, <2>1
    <3>2. ObeyAll(d, a) = d
      BY <3>1, ObeyFirst
    <3> QED
      BY <2>1, <3>1, <3>2
  <2>2. CASE fg # NoClient
    <3>1. fg \in Clients
      BY <2>2
    <3>2. PICK skip \in BOOLEAN : skip <=> fg = seen
      OBVIOUS
    <3>3. a = IF skip THEN <<>> ELSE Replay(fg)
      BY <1>1, <2>2, <3>2
    <3>4. skip => Loaded(d, fg)
      BY <2>2, <3>2
    <3> QED
      BY <2>2, <3>1, <3>3, <3>4, ReplaySets
  <2> QED
    BY <2>1, <2>2
<1>5. PICK m \in Device : m = ObeyAll(d, a)
  BY <1>4
<1>6. ObeyAll(d, a \o <<SetWpm(s)>>) = ObeyAll(m, <<SetWpm(s)>>)
  <2>1. PICK b \in Seq(Settings) : b = <<SetWpm(s)>>
    BY <1>3
  <2>2. PICK x \in Seq(Settings) : x = a
    BY <1>4
  <2>3. ObeyAll(d, x \o b) = ObeyAll(ObeyAll(d, x), b)
    BY ObeyOn
  <2> QED
    BY <1>5, <2>1, <2>2, <2>3, Zenon
<1>7. PICK e : e = ObeyAll(m, <<SetWpm(s)>>)
  OBVIOUS
<1>8. e \in Device /\ e.open /\ e.speed = s /\ e.regs = m.regs
  BY <1>4, <1>5, <1>7, SpeedSets
<1>9. RestoreWrites(fg, seen) = a \o <<SetWpm(s)>>
  BY <1>1, <1>2 DEF RestoreWrites
<1>10. ObeyAll(d, RestoreWrites(fg, seen)) = e
  BY <1>6, <1>7, <1>9
<1>11. fg # NoClient => Loaded(e, fg)
  BY <1>4, <1>5, <1>8, LoadedSame
<1> QED
  BY <1>2, <1>4, <1>5, <1>8, <1>10, <1>11

\* The start of a job puts its client's profile and its speed into the keyer.
LEMMA StartSets ==
  ASSUME ProfilesOK, dev \in Device, dev.open,
         NEW q \in Seq(Job), q # <<>>, NEW seen, NEW before, Leads(before, Tuning),
         NEW job, job = Head(q)
  PROVE  LET e == ObeyAll(dev, StartWrites(q, seen, before)) IN
         /\ (seen = job.client => Loaded(dev, job.client)) => Loaded(e, job.client)
         /\ job.speed # "own" => e.speed = job.speed
<1> DEFINE T == Mild \cup {ByteRead}
<1>1. job \in Job /\ job.client \in Clients /\ job.speed \in Speeds \cup {"own"} /\ job.id \in JobIds
  BY JobFields
<1>2. PICK d \in Device : d = ObeyAll(dev, before) /\ d.open /\ d.regs = dev.regs
  BY FirstSame DEF Same
<1>3. PICK skip \in BOOLEAN : skip <=> seen = job.client
  OBVIOUS
<1>4. PICK a : a = IF skip THEN <<>> ELSE Replay(job.client)
  OBVIOUS
<1> DEFINE Before == seen = job.client => Loaded(dev, job.client)
<1>5. Before => (skip => Loaded(d, job.client))
  BY <1>2, <1>3, LoadedSame
<1> HIDE DEF Before
<1>6. /\ a \in Seq(Settings)
      /\ ObeyAll(d, a) \in Device /\ ObeyAll(d, a).open
      /\ (skip => Loaded(d, job.client)) => Loaded(ObeyAll(d, a), job.client)
  BY <1>1, <1>2, <1>4, ReplaySets
<1>7. PICK m \in Device : m = ObeyAll(d, a) /\ m.open /\ (Before => Loaded(m, job.client))
  BY <1>5, <1>6
<1>8. PICK b \in Seq(Settings) : b = IF job.speed = "own" THEN <<>> ELSE <<SetWpm(job.speed)>>
  <2>1. job.speed # "own" => <<SetWpm(job.speed)>> \in Seq(Settings)
    BY <1>1, SpeedTyped
  <2>2. <<>> \in Seq(Settings)
    OBVIOUS
  <2> QED
    BY <2>1, <2>2
<1>9. PICK k \in Device : k = ObeyAll(m, b) /\ k.open /\ (Before => Loaded(k, job.client))
                          /\ (job.speed # "own" => k.speed = job.speed)
  <2>1. CASE job.speed = "own"
    <3>1. ObeyAll(m, b) = m
      BY <1>8, <2>1, ObeyFirst
    <3> QED
      BY <1>7, <2>1, <3>1
  <2>2. CASE job.speed # "own"
    <3>1. PICK s \in Speeds : s = job.speed
      BY <1>1, <2>2
    <3>2. PICK e : e = ObeyAll(m, <<SetWpm(s)>>)
      OBVIOUS
    <3>3. e \in Device /\ e.open /\ e.speed = s /\ e.regs = m.regs
      BY <1>7, <3>2, SpeedSets
    <3>4. Before => Loaded(e, job.client)
      BY <1>7, <3>3, LoadedSame
    <3>5. b = <<SetWpm(s)>>
      BY <1>8, <2>2, <3>1
    <3> QED
      BY <3>1, <3>2, <3>3, <3>4, <3>5
  <2> QED
    BY <2>1, <2>2
<1>10. PICK t \in Seq(Harmless \cup Texts) : t = <<Text(job.id, job.client), StatusRequest>>
  <2>1. PICK w \in Harmless \cup Texts : w = Text(job.id, job.client)
    BY <1>1 DEF Texts
  <2>2. PICK z \in Harmless \cup Texts : z = StatusRequest
    BY DEF Harmless
  <2>3. <<w, z>> \in Seq(Harmless \cup Texts)
    OBVIOUS
  <2> QED
    BY <2>1, <2>2, <2>3
<1>11. PICK e : e = ObeyAll(k, t) /\ e.regs = k.regs /\ e.speed = k.speed
  BY <1>9, AllLike DEF Like
<1>12. PICK u \in Seq(T) : u = before
  BY TuningMild DEF Leads
<1>13. Settings \subseteq T /\ Harmless \cup Texts \subseteq T
  BY DEF Mild
<1> HIDE DEF T
<1>14. PICK x \in Seq(T), y \in Seq(T), z \in Seq(T) : x = a /\ y = b /\ z = t
  <2>1. a \in Seq(T)
    BY <1>6, <1>13, SeqWider
  <2>2. b \in Seq(T)
    BY <1>8, <1>13, SeqWider
  <2>3. t \in Seq(T)
    BY <1>10, <1>13, SeqWider
  <2> QED
    BY <2>1, <2>2, <2>3
<1>15. ObeyAll(dev, u \o x) = m
  <2>1. ObeyAll(dev, u \o x) = ObeyAll(ObeyAll(dev, u), x)
    BY ObeyOn
  <2> QED
    BY <1>2, <1>7, <1>12, <1>14, <2>1, Zenon
<1>16. PICK v \in Seq(T) : v = u \o x
  BY ConcatProperties
<1>17. ObeyAll(dev, v \o y) = k
  <2>1. ObeyAll(dev, v \o y) = ObeyAll(ObeyAll(dev, v), y)
    BY ObeyOn
  <2> QED
    BY <1>9, <1>14, <1>15, <1>16, <2>1, Zenon
<1>18. PICK w \in Seq(T) : w = v \o y
  BY ConcatProperties
<1>19. ObeyAll(dev, w \o z) = e
  <2>1. ObeyAll(dev, w \o z) = ObeyAll(ObeyAll(dev, w), z)
    BY ObeyOn
  <2> QED
    BY <1>11, <1>14, <1>17, <1>18, <2>1, Zenon
<1>20. a = IF seen = job.client THEN <<>> ELSE Replay(job.client)
  BY <1>3, <1>4
<1>21. StartWrites(q, seen, before) = ((before \o a) \o b) \o t
  BY <1>8, <1>10, <1>20 DEF StartWrites
<1>22. StartWrites(q, seen, before) = w \o z
  BY <1>12, <1>14, <1>16, <1>18, <1>21, Zenon
<1>23. ObeyAll(dev, StartWrites(q, seen, before)) = e
  BY <1>19, <1>22, Zenon
<1>24. Before => Loaded(e, job.client)
  BY <1>9, <1>11, LoadedSame
<1> QED
  BY <1>9, <1>11, <1>23, <1>24 DEF Before

\* A restore after other writes.
LEMMA RestoreSetsAfter ==
  ASSUME ProfilesOK, dev \in Device, dev.open,
         NEW fg \in Clients \cup {NoClient}, NEW seen, NEW before, Leads(before, Tuning),
         fg # NoClient /\ fg = seen => Loaded(dev, fg)
  PROVE  LET e == ObeyAll(dev, before \o RestoreWrites(fg, seen)) IN
         /\ e.speed = IF fg = NoClient THEN "pot" ELSE desired[fg]
         /\ fg # NoClient => Loaded(e, fg)
         /\ fg = NoClient => e.regs = dev.regs
<1> DEFINE T == Mild \cup {ByteRead}
<1>1. PICK d \in Device : d = ObeyAll(dev, before) /\ d.open /\ d.regs = dev.regs
  BY FirstSame DEF Same
<1>2. fg # NoClient /\ fg = seen => Loaded(d, fg)
  BY <1>1, LoadedSame
<1>3. PICK e : e = ObeyAll(d, RestoreWrites(fg, seen))
  OBVIOUS
<1>4. /\ e.speed = IF fg = NoClient THEN "pot" ELSE desired[fg]
      /\ fg # NoClient => Loaded(e, fg)
      /\ fg = NoClient => e.regs = d.regs
  BY <1>1, <1>2, <1>3, RestoreSets
<1>5. PICK u \in Seq(T) : u = before
  BY TuningMild DEF Leads
<1>6. Settings \subseteq T
  BY DEF Mild
<1> HIDE DEF T
<1>7. PICK x \in Seq(T) : x = RestoreWrites(fg, seen)
  BY <1>6, RestoreTyped, SeqWider
<1>8. ObeyAll(dev, u \o x) = ObeyAll(ObeyAll(dev, u), x)
  BY ObeyOn
<1>9. ObeyAll(dev, before \o RestoreWrites(fg, seen)) = e
  BY <1>1, <1>3, <1>5, <1>7, <1>8, Zenon
<1> QED
  BY <1>1, <1>4, <1>9

\* The keyer is the broker's: connected, in nobody's maintenance, and not left out of
\* host mode by an emergency stop.
Attended == link = "up" /\ maint = NoClient /\ ~reopening /\ ~strayed

\* In its registers is what the broker takes for applied, and the idle primary's
\* profile; its speed is the running job's, the idle primary's, or the pot's as long
\* as no primary ever came.
RegsSet ==
  \A c \in clients : applied = c \/ (active = NoJob /\ c = Foreground(clients)) => InEffect(c)
SpeedSet ==
  /\ active # NoJob /\ active.job.speed # "own" => dev.speed = active.job.speed
  /\ active = NoJob /\ Foreground(clients) # NoClient => dev.speed = desired[Foreground(clients)]
  /\ active = NoJob /\ Primaries \cap (clients \cup gone) = {} => dev.speed = "pot"
SetUp == Attended => RegsSet /\ SpeedSet

\* There is one primary at most, so that it is the foreground once it is registered.
LEMMA ForegroundIs ==
  ASSUME NEW registered, NEW c \in Primaries \cap registered
  PROVE  Foreground(registered) = c /\ c # NoClient
BY ForegroundTyped, KeyerAssumption

\* This is what the runs check.
LEMMA SetUpSays == SetUp => SettingsInEffect
<1> SUFFICES ASSUME SetUp PROVE SettingsInEffect
  OBVIOUS
<1>1. ProfileInEffect
  BY DEF SetUp, RegsSet, Attended, ProfileInEffect
<1>2. SpeedInEffect
  <2>1. ASSUME Attended PROVE SpeedSet
    BY <2>1 DEF SetUp
  <2>2. ASSUME NEW c \in Primaries \cap clients PROVE Foreground(clients) = c /\ c # NoClient
    BY ForegroundIs
  <2> QED
    BY <2>1, <2>2 DEF SpeedSet, Attended, SpeedInEffect
<1> QED
  BY <1>1, <1>2 DEF SettingsInEffect

\* start_next_or_restore sets the keyer up for the job it starts, or for the idle
\* foreground, when what it takes for applied is in the keyer.
LEMMA NextSets ==
  ASSUME TypesInv, dev.open, NEW registered \in SUBSET Clients, NEW q \in Seq(Job),
         NEW seen \in Clients \cup {NoClient}, seen \in registered => InEffect(seen),
         NEW before, Leads(before, Tuning), StartNextOrRestore(registered, q, seen, before),
         clients' = registered, UNCHANGED <<desired, profile>>, link' = "up"
  PROVE  RegsSet' /\ SpeedSet'
<1>1. /\ Perform(NextWrites(registered, q, seen, before))
      /\ active' = IF q # <<>> THEN Begun(Head(q)) ELSE NoJob
      /\ applied' = IF q # <<>> THEN Head(q).client ELSE Restored(Foreground(registered), seen)
  BY NextBegun
<1>2. ProfilesOK /\ dev \in Device
  BY DEF TypesInv, KeyerTypeOK, ProfilesOK
<1>3. PICK e : e = ObeyAll(dev, NextWrites(registered, q, seen, before))
  OBVIOUS
<1>4. dev' = e
  <2>1. Leads(NextWrites(registered, q, seen, before), Mild)
    BY <1>2, TuningMild, StartLeads, RestoreLeads DEF NextWrites
  <2>2. NextWrites(registered, q, seen, before) \in Seq(Mild \cup {ByteRead})
    BY <2>1 DEF Leads
  <2>3. Sent(NextWrites(registered, q, seen, before))
    BY <1>1, <2>2, PerformSent
  <2> QED
    BY <1>3, <2>3 DEF Sent
<1>5. \A c : InEffect(c)' <=> Loaded(e, c)
  BY <1>4 DEF InEffect, Loaded
<1>6. \A c : InEffect(c) <=> Loaded(dev, c)
  BY DEF InEffect, Loaded
<1>7. CASE q # <<>>
  <2>1. PICK job \in Job : job = Head(q)
    BY <1>7
  <2>2. e = ObeyAll(dev, StartWrites(q, seen, before))
    BY <1>3, <1>7 DEF NextWrites
  <2>3. /\ (seen = job.client => Loaded(dev, job.client)) => Loaded(e, job.client)
        /\ job.speed # "own" => e.speed = job.speed
    BY <1>2, <1>7, <2>1, <2>2, StartSets
  <2>4. active' # NoJob /\ active'.job = job /\ applied' = job.client
    <3>1. Begun(job) \in Running /\ Begun(job).job = job
      BY BegunTyped DEF Begun
    <3> QED
      BY <1>1, <1>7, <2>1, <3>1, KeyerAssumption
  <2>5. RegsSet'
    <3>1. job.client \in registered => Loaded(e, job.client)
      BY <1>6, <2>3
    <3> QED
      BY <1>5, <2>4, <3>1 DEF RegsSet
  <2> QED
    BY <1>4, <2>3, <2>4, <2>5 DEF SpeedSet
<1>8. CASE q = <<>>
  <2>1. PICK fg \in Clients \cup {NoClient} : fg = Foreground(registered)
    BY ForegroundTyped
  <2>2. fg # NoClient => fg \in Primaries \cap registered
    BY <2>1, ForegroundTyped
  <2>3. e = ObeyAll(dev, before \o RestoreWrites(fg, seen))
    BY <1>3, <1>8, <2>1 DEF NextWrites
  <2>4. fg # NoClient /\ fg = seen => Loaded(dev, fg)
    BY <1>6, <2>2
  <2>5. /\ e.speed = IF fg = NoClient THEN "pot" ELSE desired[fg]
        /\ fg # NoClient => Loaded(e, fg)
        /\ fg = NoClient => e.regs = dev.regs
    BY <1>2, <2>3, <2>4, RestoreSetsAfter
  <2>6. active' = NoJob /\ applied' = IF fg = NoClient THEN seen ELSE fg
    BY <1>1, <1>8, <2>1 DEF Restored
  <2>7. ASSUME NEW c \in registered, applied' = c \/ c = fg PROVE Loaded(e, c)
    <3>1. c # NoClient
      BY KeyerAssumption
    <3>2. CASE c = fg
      BY <2>5, <3>1, <3>2
    <3>3. CASE c # fg
      <4>1. fg = NoClient /\ c = seen
        BY <2>6, <2>7, <3>3
      <4>2. Loaded(dev, c)
        BY <1>6, <4>1
      <4> QED
        BY <2>5, <4>1, <4>2, LoadedSame
    <3> QED
      BY <3>2, <3>3
  <2>8. RegsSet'
    BY <1>5, <2>1, <2>7 DEF RegsSet
  <2>9. SpeedSet'
    <3>1. Foreground(clients)' = fg
      BY <2>1 DEF Foreground
    <3>2. fg # NoClient => ~(Primaries \cap (clients' \cup gone') = {})
      BY <2>2
    <3>3. dev'.speed = IF fg = NoClient THEN "pot" ELSE desired'[fg]
      BY <1>4, <2>5
    <3> QED
      BY <2>6, <3>1, <3>2, <3>3 DEF SpeedSet
  <2> QED
    BY <2>8, <2>9
<1> QED
  BY <1>7, <1>8

\* What a step that performs a list has of the session.
LEMMA PerformedUp ==
  ASSUME NEW acts, Perform(acts), link' = "up"
  PROVE  link = "up"
BY DEF Perform

\* A step that sets nothing up and leaves the job's speed as it was.
LEMMA SameSetUp ==
  ASSUME SetUp, UNCHANGED <<clients, gone, desired, profile, applied>>,
         Attended' => Attended /\ dev'.regs = dev.regs /\ dev'.speed = dev.speed,
         active' = NoJob <=> active = NoJob,
         active # NoJob => active'.job.speed = active.job.speed
  PROVE  SetUp'
<1> SUFFICES ASSUME Attended' PROVE RegsSet' /\ SpeedSet'
  BY DEF SetUp
<1>1. RegsSet /\ SpeedSet /\ dev'.regs = dev.regs /\ dev'.speed = dev.speed
  BY DEF SetUp
<1>2. Foreground(clients)' = Foreground(clients)
  BY DEF Foreground
<1>3. \A c : InEffect(c)' <=> InEffect(c)
  BY <1>1 DEF InEffect
<1>4. RegsSet'
  BY <1>1, <1>2, <1>3 DEF RegsSet
<1>5. SpeedSet'
  BY <1>1, <1>2 DEF SpeedSet
<1> QED
  BY <1>4, <1>5

\* apply_actions of what sets nothing up.
LEMMA PerformLike ==
  ASSUME TypesInv, dev.open, NEW acts, Leads(acts, Harmless \cup Texts), Perform(acts)
  PROVE  dev'.regs = dev.regs /\ dev'.speed = dev.speed
<1>1. PICK D, W : D = Like(dev) /\ W = Harmless \cup Texts
  OBVIOUS
<1>2. dev \in D
  BY <1>1 DEF Like, TypesInv
<1>3. /\ \A e \in D, w \in W : Obey(e, w) \in D
      /\ \A e \in D : e.up # <<>> => Obey(e, ByteRead) \in D
  BY <1>1, LikeKept
<1>4. dev' \in D
  BY <1>1, <1>2, <1>3, PerformKeep
<1> QED
  BY <1>1, <1>4 DEF Like

\* A step that performs such a list.
LEMMA CalmSetUp ==
  ASSUME TypesInv, HostInv, SetUp, NEW acts, Leads(acts, Harmless \cup Texts), Perform(acts),
         UNCHANGED <<clientVars, applied, maint, reopening, strayed>>,
         active' = NoJob <=> active = NoJob,
         active # NoJob => active'.job.speed = active.job.speed
  PROVE  SetUp'
<1>1. ASSUME Attended' PROVE Attended
  BY <1>1, PerformedUp DEF Attended
<1>2. ASSUME Attended PROVE dev'.regs = dev.regs /\ dev'.speed = dev.speed
  BY <1>2, PerformLike DEF Attended, HostInv
<1> QED
  BY <1>1, <1>2, SameSetUp DEF clientVars

\* Such lists.
LEMMA CalmLists ==
  /\ \A s \in Seq(Harmless) : Leads(s, Harmless \cup Texts) /\ Leads(s, Tuning)
  /\ \A w \in Harmless \cup Texts : Leads(<<w>>, Harmless \cup Texts)
  /\ dev.up # <<>> => Leads(<<ByteRead>>, Harmless \cup Texts) /\ Leads(<<ByteRead>>, Tuning)
<1>1. ByteRead \notin Harmless \cup Texts /\ ByteRead \notin Tuning
  BY NoRead DEF Mild, Settings, Tuning
<1>2. Harmless \subseteq Harmless \cup Texts /\ Harmless \subseteq Tuning
  BY DEF Tuning
<1>3. ASSUME NEW s \in Seq(Harmless) PROVE Leads(s, Harmless \cup Texts) /\ Leads(s, Tuning)
  <2>1. s \in Seq(Harmless \cup Texts) /\ s \in Seq(Tuning)
    BY <1>2, SeqWider
  <2> QED
    BY <1>1, <2>1, LeadsAll
<1>4. ASSUME NEW w \in Harmless \cup Texts PROVE Leads(<<w>>, Harmless \cup Texts)
  <2>1. <<w>> \in Seq(Harmless \cup Texts)
    OBVIOUS
  <2> QED
    BY <1>1, <2>1, LeadsAll
<1> QED
  BY <1>3, <1>4, LeadsRead

\* A step that ends with the next job, or the foreground restored, of the clients
\* there are.
LEMMA EndSetUp ==
  ASSUME TypesInv, HostInv, SetUp, NEW q \in Seq(Job), NEW before, Leads(before, Tuning),
         StartNextOrRestore(clients, q, applied, before), UNCHANGED clientVars,
         Attended' => maint = NoClient /\ ~reopening /\ ~strayed
  PROVE  SetUp'
<1> SUFFICES ASSUME Attended' PROVE RegsSet' /\ SpeedSet'
  BY DEF SetUp
<1>1. link' = "up" /\ link = "up"
  BY NextBegun, PerformedUp DEF Attended
<1>2. Attended /\ dev.open
  BY <1>1 DEF Attended, HostInv
<1>3. clients \in SUBSET Clients /\ applied \in Clients \cup {NoClient}
  BY DEF TypesInv, KeyerTypeOK
<1>4. applied \in clients => InEffect(applied)
  BY <1>2 DEF SetUp, RegsSet
<1>5. clients' = clients /\ UNCHANGED <<desired, profile>>
  BY DEF clientVars
<1> QED
  BY <1>1, <1>2, <1>3, <1>4, <1>5, NextSets

\* A client that comes has set nothing; the speed is the pot's when it is the primary,
\* of whom there is one.
LEMMA RegisterSetUp ==
  ASSUME TypesInv, HostInv, SetUp, NEW c \in Clients, Register(c)
  PROVE  SetUp'
<1> SUFFICES ASSUME Attended' PROVE RegsSet' /\ SpeedSet'
  BY DEF SetUp
<1>1. Perform(<<>>) /\ UNCHANGED <<gone, applied, active, maint, reopening, strayed>>
  BY DEF Register
<1>2. Attended
  BY <1>1, PerformedUp DEF Attended
<1>3. RegsSet /\ SpeedSet /\ dev.open
  BY <1>2 DEF SetUp, Attended, HostInv
<1>4. dev'.regs = dev.regs /\ dev'.speed = dev.speed
  <2>1. Leads(<<>>, Harmless \cup Texts)
    BY ShortLists, CalmLists
  <2> QED
    BY <1>1, <1>3, <2>1, PerformLike
<1>5. /\ clients' = clients \cup {c} /\ c \notin clients \cup gone
      /\ desired' = [desired EXCEPT ![c] = "pot"]
      /\ profile' = [profile EXCEPT ![c] = [r \in Regs |-> Unset]]
  BY DEF Register
<1>6. profile \in [Clients -> [Regs -> Vals \cup {Unset}]] /\ desired \in [Clients -> Speeds]
      /\ clients \subseteq Clients
  BY DEF TypesInv, KeyerTypeOK
<1>7. InEffect(c)'
  <2>1. profile'[c] = [r \in Regs |-> Unset]
    BY <1>5, <1>6
  <2> QED
    BY <2>1 DEF InEffect
<1>8. ASSUME NEW d \in clients, InEffect(d) PROVE InEffect(d)'
  <2>1. profile'[d] = profile[d]
    BY <1>5, <1>6
  <2> QED
    BY <1>4, <1>8, <2>1 DEF InEffect
<1>9. PICK fg : fg = Foreground(clients)'
  OBVIOUS
<1>10. fg = Foreground(clients \cup {c})
  BY <1>5, <1>9 DEF Foreground
<1>11. CASE c \in Primaries
  <2>1. fg = c /\ c # NoClient
    BY <1>10, <1>11, ForegroundIs
  <2>2. Primaries \cap (clients \cup gone) = {}
    BY <1>5, <1>11, KeyerAssumption
  <2>3. RegsSet'
    <3>1. ASSUME NEW d \in clients, applied = d PROVE InEffect(d)'
      BY <1>3, <1>8, <3>1 DEF RegsSet
    <3> QED
      BY <1>1, <1>5, <1>7, <1>9, <2>1, <3>1 DEF RegsSet
  <2>4. SpeedSet'
    <3>1. active = NoJob => dev'.speed = "pot"
      BY <1>3, <1>4, <2>2 DEF SpeedSet
    <3>2. desired'[fg] = "pot"
      BY <1>5, <1>6, <2>1
    <3> QED
      BY <1>1, <1>3, <1>4, <1>9, <3>1, <3>2 DEF SpeedSet
  <2> QED
    BY <2>3, <2>4
<1>12. CASE c \notin Primaries
  <2>1. Primaries \cap (clients \cup {c}) = Primaries \cap clients
    BY <1>12
  <2>2. fg = Foreground(clients)
    <3>1. CASE fg = NoClient
      <4>1. Primaries \cap clients = {}
        BY <1>10, <2>1, <3>1, ForegroundTyped
      <4> QED
        BY <3>1, <4>1 DEF Foreground
    <3>2. CASE fg # NoClient
      <4>1. fg \in Primaries \cap clients
        BY <1>10, <2>1, <3>2, ForegroundTyped
      <4> QED
        BY <4>1, ForegroundIs
    <3> QED
      BY <3>1, <3>2
  <2>3. RegsSet'
    <3>1. ASSUME NEW d \in clients, applied = d \/ (active = NoJob /\ d = fg) PROVE InEffect(d)'
      BY <1>3, <1>8, <2>2, <3>1 DEF RegsSet
    <3> QED
      BY <1>1, <1>5, <1>7, <1>9, <3>1 DEF RegsSet
  <2>4. SpeedSet'
    <3>1. fg # NoClient => fg \in clients
      BY <2>2, ForegroundTyped
    <3>2. fg # NoClient => desired'[fg] = desired[fg]
      BY <1>5, <1>6, <3>1
    <3>3. Primaries \cap (clients' \cup gone') = Primaries \cap (clients \cup gone)
      BY <1>1, <1>5, <1>12
    <3> QED
      BY <1>1, <1>3, <1>4, <1>9, <2>2, <3>2, <3>3 DEF SpeedSet
  <2> QED
    BY <2>3, <2>4
<1> QED
  BY <1>11, <1>12

\* A client that goes leaves the settings of the others; if its job ran, the keyer is
\* set up for the next one.
LEMMA UnregisterSetUp ==
  ASSUME TypesInv, HostInv, SetUp, NEW c \in Clients, Unregister(c)
  PROVE  SetUp'
<1> SUFFICES ASSUME Attended' PROVE RegsSet' /\ SpeedSet'
  BY DEF SetUp
<1>1. PICK seen \in Clients \cup {NoClient} : seen = IF applied = c THEN NoClient ELSE applied
  BY DEF TypesInv, KeyerTypeOK
<1>2. /\ clients' = clients \ {c} /\ gone' = gone \cup {c} /\ c \in clients
      /\ UNCHANGED <<desired, profile, strayed>>
      /\ maint # c /\ maint = NoClient /\ ~reopening
  BY DEF Unregister, Attended
<1>3. UnregisterWrites(c) \in Seq(Harmless) /\ LeftOf(c) \in Seq(Job)
  BY TakenTyped DEF TypesInv, KeyerTypeOK
<1>4. link = "up"
  <2>1. CASE Owns(c)
    BY <2>1, NextBegun, PerformedUp DEF Unregister, Attended
  <2>2. CASE ~Owns(c)
    BY <2>2, PerformedUp DEF Unregister, Attended
  <2> QED
    BY <2>1, <2>2
<1>5. RegsSet /\ SpeedSet /\ dev.open
  BY <1>2, <1>4 DEF SetUp, Attended, HostInv
<1>6. clients \subseteq Clients
  BY DEF TypesInv, KeyerTypeOK
<1>7. CASE Owns(c)
  <2>1. StartNextOrRestore(clients', LeftOf(c), seen, EndedWrites(UnregisterWrites(c), active.job.id))
    BY <1>1, <1>7 DEF Unregister, LeftOf, UnregisterWrites, TakenOf, EndedWrites
  <2>2. Leads(EndedWrites(UnregisterWrites(c), active.job.id), Tuning)
    <3>1. active.job.id \in JobIds
      BY <1>7, RunningFields DEF TypesInv, KeyerTypeOK, Owns
    <3>2. EndedWrites(UnregisterWrites(c), active.job.id) \in Seq(Harmless)
      BY <1>3, <3>1, EndedTyped
    <3> QED
      BY <3>2, CalmLists
  <2>3. PICK registered \in SUBSET Clients : registered = clients' /\ registered \subseteq clients
    BY <1>2, <1>6
  <2>4. seen \in registered => InEffect(seen)
    <3>1. seen \in registered => seen = applied
      BY <1>1, <2>3, <1>6, KeyerAssumption
    <3> QED
      BY <1>5, <2>3, <3>1 DEF RegsSet
  <2>5. link' = "up"
    BY DEF Attended
  <2> QED
    BY <1>2, <1>3, <1>5, <2>1, <2>2, <2>3, <2>4, <2>5, NextSets
<1>8. CASE ~Owns(c)
  <2>1. applied' = seen /\ active' = active /\ Perform(UnregisterWrites(c))
    BY <1>1, <1>8 DEF Unregister, UnregisterWrites, TakenOf
  <2>2. dev'.regs = dev.regs /\ dev'.speed = dev.speed
    BY <1>3, <1>5, <2>1, CalmLists, PerformLike
  <2>3. \A d : InEffect(d)' <=> InEffect(d)
    BY <1>2, <2>2 DEF InEffect
  <2>4. PICK fg : fg = Foreground(clients)'
    OBVIOUS
  <2>5. fg = Foreground(clients \ {c})
    BY <1>2, <2>4 DEF Foreground
  <2>6. fg # NoClient => fg \in clients /\ fg \in Primaries /\ fg = Foreground(clients)
    <3>1. fg # NoClient => fg \in Primaries \cap clients
      BY <2>5, ForegroundTyped
    <3> QED
      BY <3>1, ForegroundIs
  <2>7. RegsSet'
    <3>1. ASSUME NEW d \in clients, d # c, seen = d \/ (active = NoJob /\ d = fg) PROVE InEffect(d)
      <4>1. d # NoClient
        BY <1>6, KeyerAssumption
      <4>2. applied = d \/ (active = NoJob /\ d = Foreground(clients))
        BY <1>1, <2>6, <3>1, <4>1
      <4> QED
        BY <1>5, <4>2 DEF RegsSet
    <3> QED
      BY <1>2, <2>1, <2>3, <2>4, <3>1 DEF RegsSet
  <2>8. SpeedSet'
    <3>1. clients' \cup gone' = clients \cup gone
      BY <1>2
    <3> QED
      BY <1>2, <1>5, <2>1, <2>2, <2>4, <2>6, <3>1 DEF SpeedSet
  <2> QED
    BY <2>7, <2>8
<1> QED
  BY <1>7, <1>8

\* A speed reaches the keyer at once if it is the idle primary's, and not if it is
\* anybody else's.
LEMMA SetSpeedSetUp ==
  ASSUME TypesInv, HostInv, SetUp, NEW c \in Clients, NEW s \in Speeds, SetSpeed(c, s)
  PROVE  SetUp'
<1> SUFFICES ASSUME Attended' PROVE RegsSet' /\ SpeedSet'
  BY DEF SetUp
<1>1. PICK acts : acts = (IF AtOnce(c) THEN <<SetWpm(s)>> ELSE <<>>) /\ Perform(acts)
  BY DEF SetSpeed
<1>2. /\ UNCHANGED <<clients, gone, profile, applied, active, maint, reopening, strayed>>
      /\ c \in clients /\ desired' = [desired EXCEPT ![c] = s]
  BY DEF SetSpeed
<1>3. Attended /\ link' = "up" /\ link = "up"
  BY <1>1, <1>2, PerformedUp DEF Attended
<1>4. RegsSet /\ SpeedSet /\ dev.open /\ dev \in Device
  BY <1>3 DEF SetUp, Attended, HostInv, TypesInv
<1>5. desired \in [Clients -> Speeds] /\ clients \subseteq Clients
  BY DEF TypesInv, KeyerTypeOK
<1>6. PICK fg : fg = Foreground(clients) /\ fg = Foreground(clients)'
  BY <1>2 DEF Foreground
<1>7. fg # NoClient => fg \in Primaries \cap clients
  BY <1>6, ForegroundTyped
<1>8. dev'.regs = dev.regs /\ dev'.speed = IF AtOnce(c) THEN s ELSE dev.speed
  <2>1. CASE AtOnce(c)
    <3>1. <<SetWpm(s)>> \in Seq(Settings)
      BY SpeedTyped
    <3>2. Sent(<<SetWpm(s)>>)
      BY <1>1, <2>1, <3>1, PerformSent
    <3>3. dev' = ObeyAll(dev, <<SetWpm(s)>>)
      BY <1>3, <3>2 DEF Sent
    <3> QED
      BY <1>4, <2>1, <3>3, SpeedSets
  <2>2. CASE ~AtOnce(c)
    <3>1. Leads(<<>>, Harmless \cup Texts)
      BY ShortLists, CalmLists
    <3>2. Perform(<<>>)
      BY <1>1, <2>2
    <3> QED
      BY <1>4, <2>2, <3>1, <3>2, PerformLike
  <2> QED
    BY <2>1, <2>2
<1>9. RegsSet'
  <2>1. \A d : InEffect(d)' <=> InEffect(d)
    BY <1>2, <1>8 DEF InEffect
  <2> QED
    BY <1>2, <1>4, <1>6, <2>1 DEF RegsSet
<1>10. SpeedSet'
  <2>1. CASE AtOnce(c)
    <3>1. active = NoJob /\ c \in Primaries \cap clients
      BY <1>2, <2>1 DEF AtOnce
    <3>2. fg = c
      BY <1>6, <3>1, ForegroundIs
    <3>3. desired'[fg] = s /\ ~(Primaries \cap (clients' \cup gone') = {})
      BY <1>2, <1>5, <3>1, <3>2
    <3> QED
      BY <1>2, <1>6, <1>8, <2>1, <3>1, <3>3 DEF SpeedSet
  <2>2. CASE ~AtOnce(c)
    <3>1. active = NoJob /\ fg # NoClient => desired'[fg] = desired[fg]
      <4>1. active = NoJob /\ fg # NoClient => fg # c /\ fg \in Clients
        BY <1>5, <1>7, <2>2 DEF AtOnce
      <4> QED
        BY <1>2, <1>5, <4>1
    <3> QED
      BY <1>2, <1>4, <1>6, <1>8, <2>2, <3>1 DEF SpeedSet
  <2> QED
    BY <2>1, <2>2
<1> QED
  BY <1>9, <1>10

\* So does a register; what is not written at once makes the broker forget that the
\* client's profile was applied.
LEMMA ConfigureSetUp ==
  ASSUME TypesInv, HostInv, SetUp, NEW c \in Clients, NEW r \in Regs, NEW v \in Vals,
         Configure(c, r, v)
  PROVE  SetUp'
<1> SUFFICES ASSUME Attended' PROVE RegsSet' /\ SpeedSet'
  BY DEF SetUp
<1>1. PICK acts : acts = (IF AtOnce(c) THEN <<SetReg(r, v)>> ELSE <<>>) /\ Perform(acts)
  BY DEF Configure
<1>2. /\ UNCHANGED <<clients, gone, desired, active, maint, reopening, strayed>>
      /\ c \in clients /\ profile' = [profile EXCEPT ![c][r] = v]
      /\ applied' = IF AtOnce(c) THEN c ELSE IF applied = c THEN NoClient ELSE applied
  BY DEF Configure
<1>3. Attended /\ link' = "up" /\ link = "up"
  BY <1>1, <1>2, PerformedUp DEF Attended
<1>4. RegsSet /\ SpeedSet /\ dev.open /\ dev \in Device
  BY <1>3 DEF SetUp, Attended, HostInv, TypesInv
<1>5. profile \in [Clients -> [Regs -> Vals \cup {Unset}]] /\ clients \subseteq Clients
  BY DEF TypesInv, KeyerTypeOK
<1>6. PICK fg : fg = Foreground(clients) /\ fg = Foreground(clients)'
  BY <1>2 DEF Foreground
<1>7. fg # NoClient => fg \in Primaries \cap clients
  BY <1>6, ForegroundTyped
<1>8. dev'.speed = dev.speed /\ dev'.regs = IF AtOnce(c) THEN [dev.regs EXCEPT ![r] = v] ELSE dev.regs
  <2>1. CASE AtOnce(c)
    <3>1. <<SetReg(r, v)>> \in Seq(Mild)
      BY ShortLists
    <3>2. Sent(<<SetReg(r, v)>>)
      BY <1>1, <2>1, <3>1, PerformSent
    <3>3. dev' = ObeyAll(dev, <<SetReg(r, v)>>)
      BY <1>3, <3>2 DEF Sent
    <3>4. dev' = Obey(dev, SetReg(r, v))
      BY <3>1, <3>3, ObeyOne
    <3>5. RegDone(dev, r, v)
      BY <1>4, RegObeyed
    <3> QED
      BY <1>4, <2>1, <3>4, <3>5 DEF RegDone
  <2>2. CASE ~AtOnce(c)
    <3>1. Leads(<<>>, Harmless \cup Texts)
      BY ShortLists, CalmLists
    <3>2. Perform(<<>>)
      BY <1>1, <2>2
    <3> QED
      BY <1>4, <2>2, <3>1, <3>2, PerformLike
  <2> QED
    BY <2>1, <2>2
<1>9. \A d \in clients : d # c => profile'[d] = profile[d]
  BY <1>2, <1>5
<1>10. RegsSet'
  <2>1. CASE AtOnce(c)
    <3>1. active = NoJob /\ c \in Primaries \cap clients
      BY <1>2, <2>1 DEF AtOnce
    <3>2. fg = c /\ applied' = c
      BY <1>2, <1>6, <2>1, <3>1, ForegroundIs
    <3>3. InEffect(c)
      BY <1>4, <1>6, <3>1, <3>2 DEF RegsSet
    <3>4. InEffect(c)'
      <4>1. PICK p \in [Regs -> Vals \cup {Unset}] : p = profile[c]
        BY <1>5
      <4>2. profile'[c] = [p EXCEPT ![r] = v]
        BY <1>2, <1>5, <4>1
      <4>3. PICK x \in [Regs -> Vals \cup {Unset}] : x = dev.regs
        BY <1>4, DeviceFields
      <4>4. \A k \in Regs : p[k] # Unset => x[k] = p[k]
        BY <3>3, <4>1, <4>3 DEF InEffect
      <4>5. dev'.regs = [x EXCEPT ![r] = v]
        BY <1>8, <2>1, <4>3
      <4> QED
        BY <4>2, <4>4, <4>5 DEF InEffect
    <3> QED
      BY <1>6, <3>2, <3>4 DEF RegsSet
  <2>2. CASE ~AtOnce(c)
    <3>1. ASSUME NEW d \in clients, applied' = d \/ (active = NoJob /\ d = fg) PROVE InEffect(d)'
      <4>1. d # NoClient
        BY <1>5, KeyerAssumption
      <4>2. d # c
        BY <1>2, <1>7, <2>2, <3>1, <4>1 DEF AtOnce
      <4>3. InEffect(d)
        BY <1>2, <1>4, <1>6, <2>2, <3>1, <4>1, <4>2 DEF RegsSet
      <4> QED
        BY <1>8, <1>9, <2>2, <4>2, <4>3 DEF InEffect
    <3> QED
      BY <1>2, <1>6, <3>1 DEF RegsSet
  <2> QED
    BY <2>1, <2>2
<1>11. SpeedSet'
  BY <1>2, <1>4, <1>6, <1>8 DEF SpeedSet
<1> QED
  BY <1>10, <1>11

\* Key Immediate sets nothing up.
LEMMA KeyImmediateSetUp ==
  ASSUME TypesInv, HostInv, SetUp, NEW c \in Clients, NEW w \in {KeyDown, KeyUp}, KeyImmediate(c, w)
  PROVE  SetUp'
<1>1. w \in Harmless \cup Texts
  BY DEF Harmless
<1>2. Leads(<<w>>, Harmless \cup Texts)
  BY <1>1, CalmLists
<1> QED
  BY <1>2, CalmSetUp DEF KeyImmediate, coreVars

\* A stream that goes on keeps its speed, ...
LEMMA StreamSetUp ==
  ASSUME TypesInv, HostInv, SetUp, NEW c \in Clients, StreamOn(c) \/ StreamQueued(c)
  PROVE  SetUp'
<1>1. CASE StreamOn(c)
  <2>1. PICK run \in Running : run = active
    BY <1>1 DEF StreamOn, TypesInv, KeyerTypeOK
  <2>2. Text(run.job.id, c) \in Harmless \cup Texts
    BY RunningFields DEF Texts
  <2>3. Leads(<<Text(run.job.id, c)>>, Harmless \cup Texts)
    BY <2>2, CalmLists
  <2>4. Perform(<<Text(run.job.id, c)>>)
    BY <1>1, <2>1 DEF StreamOn
  <2>5. active' = [run EXCEPT !.job.size = @ + 1] /\ active # NoJob
    BY <1>1, <2>1 DEF StreamOn
  <2>6. active'.job.speed = run.job.speed
    BY <2>5, RunningFields DEF Running, Job
  <2>7. active' # NoJob
    <3>1. run.job.size < MaxSize
      BY <1>1, <2>1 DEF StreamOn
    <3>2. PICK job \in Job : job = [run.job EXCEPT !.size = @ + 1]
      BY <3>1, RunningFields, GrownTyped
    <3>3. active' = [run EXCEPT !.job = job]
      BY <2>5, <3>2
    <3>4. active' \in Running
      BY <3>3 DEF Running
    <3> QED
      BY <3>4, KeyerAssumption
  <2> QED
    BY <1>1, <2>1, <2>3, <2>4, <2>5, <2>6, <2>7, CalmSetUp DEF StreamOn
<1>2. CASE StreamQueued(c)
  <2>1. Leads(<<>>, Harmless \cup Texts)
    BY ShortLists, CalmLists
  <2> QED
    BY <1>2, <2>1, CalmSetUp DEF StreamQueued
<1> QED
  BY <1>1, <1>2

\* ... and a job that is admitted waits, or starts with all of its settings.
LEMMA EnqueueSetUp ==
  ASSUME TypesInv, HostInv, SetUp, NEW c \in Clients, NEW speed \in Speeds \cup {"own"},
         NEW stream \in BOOLEAN, Enqueue(c, speed, stream)
  PROVE  SetUp'
<1>1. BrokerTypes /\ JobTypes
  BY TypesParts
<1>2. PICK job \in Job : job = NewJob(c, speed, stream)
  BY <1>1, NewJobTyped DEF Enqueue, BrokerTypes
<1>3. PICK q \in Seq(Job) : q = Behind(job)
  BY <1>1, BehindTyped DEF JobTypes
<1>4. CASE active = NoJob
  <2>1. StartNextOrRestore(clients, q, applied, <<>>)
    BY <1>2, <1>3, <1>4 DEF Enqueue, NewJob
  <2>2. Leads(<<>>, Tuning)
    BY ShortLists, CalmLists
  <2>3. UNCHANGED clientVars /\ (Attended' => maint = NoClient /\ ~reopening /\ ~strayed)
    BY DEF Enqueue, Attended
  <2> QED
    BY <2>1, <2>2, <2>3, EndSetUp
<1>5. CASE active # NoJob
  <2>1. Leads(<<>>, Harmless \cup Texts)
    BY ShortLists, CalmLists
  <2>2. Perform(<<>>) /\ UNCHANGED <<clientVars, applied, maint, reopening, strayed, active>>
    BY <1>5 DEF Enqueue
  <2> QED
    BY <2>1, <2>2, CalmSetUp
<1> QED
  BY <1>4, <1>5

\* A cancel sets the keyer up for the next job if it takes the running one, ...
LEMMA CancelSetUp ==
  ASSUME TypesInv, HostInv, SetUp, NEW c \in Clients, Cancel(c)
  PROVE  SetUp'
<1>1. queue \in Seq(Job) /\ active \in Running \cup {NoJob}
  BY DEF TypesInv, KeyerTypeOK
<1>2. UNCHANGED <<clientVars, maint, reopening, strayed>>
  BY DEF Cancel
<1>3. CASE Owns(c)
  <2>1. StartNextOrRestore(clients, LeftOf(c), applied, CancelWrites(c))
    BY <1>3 DEF Cancel, LeftOf, TakenOf, CancelWrites
  <2>2. LeftOf(c) \in Seq(Job)
    BY <1>1, TakenTyped
  <2>3. Leads(CancelWrites(c), Tuning)
    BY <1>1, <1>3, CancelWritesTyped, CalmLists DEF Owns
  <2> QED
    BY <1>2, <2>1, <2>2, <2>3, EndSetUp DEF Attended
<1>4. CASE ~Owns(c)
  <2>1. UNCHANGED <<active, applied>> /\ Perform(CancelIdleWrites(c))
    BY <1>4 DEF Cancel, TakenOf, CancelIdleWrites
  <2>2. Leads(CancelIdleWrites(c), Harmless \cup Texts)
    BY <1>1, CancelWritesTyped, CalmLists
  <2> QED
    BY <1>2, <2>1, <2>2, CalmSetUp
<1> QED
  BY <1>3, <1>4

\* ... all of a client's jobs or one.
LEMMA CancelJobSetUp ==
  ASSUME TypesInv, HostInv, SetUp, NEW c \in Clients, NEW j \in JobIds, CancelJob(c, j)
  PROVE  SetUp'
<1>1. queue \in Seq(Job)
  BY DEF TypesInv, KeyerTypeOK
<1>2. UNCHANGED <<clientVars, maint, reopening, strayed>>
  BY DEF CancelJob
<1>3. CASE active # NoJob /\ active.job \in Named(c, j)
  <2>1. StartNextOrRestore(clients, queue, applied, <<Clear, Canceled(j)>>)
    BY <1>3 DEF CancelJob, Named
  <2>2. Leads(<<Clear, Canceled(j)>>, Tuning)
    BY ShortLists, CalmLists
  <2> QED
    BY <1>1, <1>2, <2>1, <2>2, EndSetUp DEF Attended
<1>4. CASE ~(active # NoJob /\ active.job \in Named(c, j))
  <2>1. UNCHANGED <<active, applied>> /\ Perform(Cancels(Selection(queue, Named(c, j))))
    BY <1>4 DEF CancelJob, Named
  <2>2. Leads(Cancels(Selection(queue, Named(c, j))), Harmless \cup Texts)
    BY <1>1, SelectedTyped, CancelsTyped, CalmLists
  <2> QED
    BY <1>2, <2>1, <2>2, CalmSetUp
<1> QED
  BY <1>3, <1>4

\* An emergency stop, a user's or the watchdog's, restores the foreground.
LEMMA StopSetUp ==
  ASSUME TypesInv, HostInv, SetUp, Stop \/ Watchdog
  PROVE  SetUp'
<1>1. EmergencyStop /\ UNCHANGED clientVars
  BY DEF Stop, Watchdog
<1>2. <<>> \in Seq(Job)
  OBVIOUS
<1>3. StartNextOrRestore(clients, <<>>, applied, StopWrites)
  BY <1>1 DEF EmergencyStop, StartNextOrRestore, StopWrites
<1>4. Leads(StopWrites, Tuning)
  BY StopWritesTyped, CalmLists, TypesParts
<1>5. Attended' => maint = NoClient /\ ~reopening /\ ~strayed
  BY DEF Stop, Watchdog, Attended
<1> QED
  BY <1>1, <1>2, <1>3, <1>4, <1>5, EndSetUp

\* Nothing is claimed of the keyer in maintenance.
LEMMA MaintainSetUp ==
  ASSUME SetUp, NEW c \in Clients, Maintain(c) \/ ReleaseMaintenance(c)
  PROVE  SetUp'
<1>1. c # NoClient
  BY KeyerAssumption
<1> QED
  BY <1>1 DEF Maintain, ReleaseMaintenance, SetUp, Attended

\* Nor in the reconnect loop, which refuses jobs.
LEMMA EnqueueUnconnectedSetUp ==
  ASSUME SetUp, NEW c \in Clients, EnqueueUnconnected(c)
  PROVE  SetUp'
BY DEF EnqueueUnconnected, SetUp, Attended

\* Once the keyer has answered Host Open, the foreground is set up from scratch.
LEMMA FirmwareSetUp ==
  ASSUME TypesInv, HostInv, SetUp, ReadFirmware
  PROVE  SetUp'
<1> SUFFICES ASSUME Attended' PROVE RegsSet' /\ SpeedSet'
  BY DEF SetUp
<1>1. link' = "up" /\ maint = NoClient /\ link = "up" /\ reopening /\ dev.up # <<>>
  BY DEF Attended, ReadFirmware, Reading
<1>2. dev.open /\ active = NoJob /\ queue = <<>>
  BY <1>1 DEF HostInv, MaintenanceWaits
<1>3. UNCHANGED <<clients, gone, desired, profile, queue, active>>
  BY DEF ReadFirmware, clientVars
<1>4. Leads(FirmwareWrites, Tuning)
  <2>1. SetWpm("pot") \in Tuning /\ Clear \in Tuning /\ KeyUp \in Tuning /\ StatusRequest \in Tuning
    BY KeyerAssumption DEF Tuning, Harmless
  <2> QED
    BY <1>1, <2>1 DEF Leads, FirmwareWrites
<1>5. StartNextOrRestore(clients, <<>>, NoClient, FirmwareWrites)
  <2>1. RestoreForeground(clients, NoClient, FirmwareWrites)
    BY DEF ReadFirmware, FirmwareWrites
  <2>2. queue' = <<>> /\ active' = NoJob
    BY <1>2, <1>3
  <2> QED
    BY <2>1, <2>2 DEF StartNextOrRestore
<1>6. clients \in SUBSET Clients /\ NoClient \notin clients /\ <<>> \in Seq(Job)
  BY KeyerAssumption DEF TypesInv, KeyerTypeOK
<1> QED
  BY <1>1, <1>2, <1>3, <1>4, <1>5, <1>6, NextSets

\* complete_active sets the keyer up for the next job or the foreground.
LEMMA CompleteSetUp ==
  ASSUME TypesInv, HostInv, SetUp, active # NoJob, NEW before, Leads(before, Tuning),
         Complete(before), UNCHANGED <<clientVars, maint, reopening, strayed>>
  PROVE  SetUp'
<1>1. active.job.id \in JobIds
  BY RunningFields DEF TypesInv, KeyerTypeOK
<1>2. Leads(CompleteWrites(before), Tuning)
  <2>1. <<Completed(active.job.id)>> \in Seq(Harmless) /\ Harmless \subseteq Tuning
    BY <1>1, ShortLists DEF Tuning
  <2>2. <<Completed(active.job.id)>> \in Seq(Tuning)
    BY <2>1, SeqWider
  <2>3. ByteRead \notin Tuning
    BY NoRead DEF Mild, Settings, Tuning
  <2> QED
    BY <2>2, <2>3, LeadsOn DEF CompleteWrites
<1>3. StartNextOrRestore(clients, queue, applied, CompleteWrites(before))
  BY DEF Complete, CompleteWrites
<1>4. queue \in Seq(Job)
  BY DEF TypesInv, KeyerTypeOK
<1>5. UNCHANGED clientVars /\ (Attended' => maint = NoClient /\ ~reopening /\ ~strayed)
  BY DEF Attended
<1> QED
  BY <1>2, <1>3, <1>4, <1>5, EndSetUp

\* A byte of the keyer, by who is waiting for it.
LEMMA ReadSetUp ==
  ASSUME TypesInv, HostInv, SetUp, Read
  PROVE  SetUp'
<1>1. dev.up # <<>>
  BY DEF Read, ReadFirmware, ReadMaintenance, ReadEcho, ReadStatus, InSession, Reading
<1>2. Leads(<<ByteRead>>, Harmless \cup Texts) /\ Leads(<<ByteRead>>, Tuning)
  BY <1>1, CalmLists
<1>3. CASE ReadFirmware
  BY <1>3, FirmwareSetUp
<1>4. CASE ReadMaintenance
  BY <1>4 DEF ReadMaintenance, SetUp, Attended
<1>5. CASE ReadEcho
  <2>1. Perform(<<ByteRead>>) /\ UNCHANGED <<coreVars, maint, reopening, strayed>>
    BY <1>5 DEF ReadEcho
  <2>2. UNCHANGED <<clientVars, applied, maint, reopening, strayed, active>>
    BY <2>1 DEF coreVars
  <2> QED
    BY <1>2, <2>1, <2>2, CalmSetUp
<1>6. CASE ReadStatus
  <2>1. UNCHANGED <<clientVars, maint, reopening, strayed>>
    BY <1>6 DEF ReadStatus
  <2>2. CASE active # NoJob /\ NextByte # "sending" /\ active.sawBusy
    <3>1. Complete(<<ByteRead>>) /\ active # NoJob
      BY <1>6, <2>2 DEF ReadStatus
    <3> QED
      BY <1>2, <2>1, <3>1, CompleteSetUp
  <2>3. CASE ~(active # NoJob /\ NextByte # "sending" /\ active.sawBusy)
    <3>1. /\ active' = IF active = NoJob THEN NoJob
                       ELSE [active EXCEPT !.observed = TRUE,
                                           !.sawBusy = (@ \/ NextByte = "sending")]
          /\ UNCHANGED applied /\ Perform(<<ByteRead>>)
      BY <1>6, <2>3 DEF ReadStatus
    <3>2. active # NoJob => active' \in Running /\ active'.job = active.job
      <4> SUFFICES ASSUME active # NoJob PROVE active' \in Running /\ active'.job = active.job
        OBVIOUS
      <4>1. PICK run \in Running : run = active
        BY DEF TypesInv, KeyerTypeOK
      <4>2. run.sawBusy \in BOOLEAN
        BY DEF Running
      <4>3. PICK b \in BOOLEAN : b = (run.sawBusy \/ NextByte = "sending")
        OBVIOUS
      <4>4. active' = [run EXCEPT !.observed = TRUE, !.sawBusy = b]
        BY <3>1, <4>1, <4>3
      <4> QED
        BY <4>1, <4>4 DEF Running
    <3>3. active' = NoJob <=> active = NoJob
      BY <3>1, <3>2, KeyerAssumption
    <3> QED
      BY <1>2, <2>1, <3>1, <3>2, <3>3, CalmSetUp
  <2> QED
    BY <2>2, <2>3
<1> QED
  BY <1>3, <1>4, <1>5, <1>6 DEF Read

\* The ticks but the watchdog's.
LEMMA TickSetUp ==
  ASSUME TypesInv, HostInv, SetUp, Settle \/ Poll \/ Tick
  PROVE  SetUp'
<1>1. CASE Settle
  <2>1. Leads(<<>>, Tuning)
    BY ShortLists, CalmLists
  <2>2. Complete(<<>>) /\ active # NoJob /\ UNCHANGED <<clientVars, maint, reopening, strayed>>
    BY <1>1 DEF Settle
  <2> QED
    BY <2>1, <2>2, CompleteSetUp
<1>2. CASE Poll
  <2>1. Leads(<<StatusRequest>>, Harmless \cup Texts)
    BY CalmLists DEF Harmless
  <2>2. Perform(<<StatusRequest>>) /\ UNCHANGED <<coreVars, maint, reopening, strayed>>
    BY <1>2 DEF Poll
  <2>3. UNCHANGED <<clientVars, applied, maint, reopening, strayed, active>>
    BY <2>2 DEF coreVars
  <2> QED
    BY <2>1, <2>2, <2>3, CalmSetUp
<1>3. CASE Tick
  <2>1. UNCHANGED <<clientVars, applied, active, dev, link, maint, reopening, strayed>>
    BY <1>3 DEF Tick, coreVars, ghostVars
  <2> QED
    BY <2>1, SameSetUp DEF clientVars, Attended
<1> QED
  BY <1>1, <1>2, <1>3

\* Every session begins with the foreground's settings; the reconnect loop has no job.
LEMMA ReconnectSetUp ==
  ASSUME TypesInv, NoJobOffline, Reconnect
  PROVE  SetUp'
<1>1. active = NoJob /\ UNCHANGED <<clients, gone, desired, profile, active>>
  BY DEF Reconnect, NoJobOffline, clientVars
<1>2. PICK fg \in Clients \cup {NoClient} : fg = Foreground(clients)
  BY ForegroundTyped, KeyerAssumption
<1>3. fg # NoClient => fg \in Primaries \cap clients
  BY <1>2, ForegroundTyped
<1>4. PICK d \in Device : d = Initialised(dev) /\ d.open
  BY InitialisedTyped DEF TypesInv
<1>5. ProfilesOK
  BY DEF TypesInv, KeyerTypeOK, ProfilesOK
<1>6. PICK e : e = ObeyAll(d, RestoreWrites(fg, NoClient))
  OBVIOUS
<1>7. /\ e.speed = IF fg = NoClient THEN "pot" ELSE desired[fg]
      /\ fg # NoClient => Loaded(e, fg)
  BY <1>4, <1>5, <1>6, RestoreSets
<1>8. dev' = e /\ applied' = fg
  BY <1>2, <1>4, <1>6 DEF Reconnect, Restored
<1>9. Foreground(clients)' = fg
  BY <1>1, <1>2 DEF Foreground
<1>10. RegsSet'
  <2>1. ASSUME NEW c \in clients, c = fg PROVE InEffect(c)'
    <3>1. Loaded(e, c)
      <4>1. c # NoClient
        BY KeyerAssumption DEF TypesInv, KeyerTypeOK
      <4> QED
        BY <1>7, <2>1, <4>1
    <3> QED
      BY <1>1, <1>8, <3>1 DEF Loaded, InEffect
  <2> QED
    BY <1>1, <1>8, <1>9, <2>1 DEF RegsSet
<1>11. SpeedSet'
  <2>1. fg # NoClient => ~(Primaries \cap (clients \cup gone) = {})
    BY <1>3
  <2> QED
    BY <1>1, <1>7, <1>8, <1>9, <2>1 DEF SpeedSet
<1> QED
  BY <1>10, <1>11 DEF SetUp

\* The transport's end and the shutdown leave nothing to claim.
LEMMA TransportSetUp ==
  ASSUME SetUp, LinkLost \/ SessionError \/ ReconnectFailed \/ Shutdown
  PROVE  SetUp'
BY DEF LinkLost, SessionError, ReconnectFailed, Shutdown, SetUp, Attended

\* The keyer by itself changes no setting, and the station has none.
LEMMA DeviceSetUp ==
  ASSUME TypesInv, SetUp, DeviceReport \/ DeviceKeys \/ Paddle \/ CatLease \/ LeaseExpiry
  PROVE  SetUp'
<1>1. dev \in Device
  BY DEF TypesInv
<1>2. dev'.regs = dev.regs /\ dev'.speed = dev.speed
  <2>1. CASE DeviceReport
    BY <1>1, <2>1, ReportedKept DEF DeviceReport, DeviceStep, Kept4
  <2>2. CASE DeviceKeys
    <3>1. PICK x : x = Tail(dev.text)
      OBVIOUS
    <3>2. dev' = [dev EXCEPT !.text = x]
      BY <2>2, <3>1 DEF DeviceKeys, DeviceStep, Keyed
    <3> QED
      BY <1>1, <3>2 DEF Device
  <2>3. CASE Paddle
    <3>1. PICK x : x = ~dev.paddle
      OBVIOUS
    <3>2. dev' = [dev EXCEPT !.paddle = x]
      BY <2>3, <3>1 DEF Paddle, DeviceStep
    <3> QED
      BY <1>1, <3>2 DEF Device
  <2>4. CASE CatLease \/ LeaseExpiry
    BY <2>4 DEF CatLease, LeaseExpiry
  <2> QED
    BY <2>1, <2>2, <2>3, <2>4
<1>3. UNCHANGED <<coreVars, link, maint, reopening, strayed>>
  BY DEF DeviceReport, DeviceKeys, Paddle, CatLease, LeaseExpiry, DeviceStep, ghostVars
<1> QED
  BY <1>2, <1>3, SameSetUp DEF coreVars, clientVars, Attended

\* The keyer begins at the pot's speed, with no client.
LEMMA InitSetUp == Init => SetUp
<1> SUFFICES ASSUME Init PROVE SetUp
  OBVIOUS
<1>1. dev.speed = "pot"
  BY FreshTyped, InitialisedTyped DEF Init
<1>2. clients = {} /\ active = NoJob
  BY DEF Init
<1>3. Foreground(clients) = NoClient
  BY <1>2 DEF Foreground
<1> QED
  BY <1>1, <1>2, <1>3 DEF SetUp, RegsSet, SpeedSet

\* Requests about a client, its jobs and maintenance.
LEMMA RequestSetUp ==
  ASSUME TypesInv, HostInv, SetUp, NEW c \in Clients, ClientRequest(c)
  PROVE  SetUp'
<1>1. \A j \in 1 .. nextJob - 1 : j \in JobIds
  <2>1. nextJob \in 1 .. MaxJobs + 1 /\ MaxJobs \in Nat
    BY KeyerAssumption DEF TypesInv, KeyerTypeOK
  <2> QED
    BY <2>1 DEF JobIds
<1>2. desired[c] \in Speeds
  BY DEF TypesInv, KeyerTypeOK
<1>3. ASSUME NEW j \in 1 .. nextJob - 1, CancelJob(c, j) PROVE SetUp'
  BY <1>1, <1>3, CancelJobSetUp
<1>4. ASSUME NEW s \in Speeds, Enqueue(c, s, FALSE) PROVE SetUp'
  BY <1>4, EnqueueSetUp
<1>5. ASSUME NEW s \in {desired[c], "own"}, Enqueue(c, s, TRUE) PROVE SetUp'
  BY <1>2, <1>5, EnqueueSetUp
<1>6. ASSUME NEW s \in Speeds, SetSpeed(c, s) PROVE SetUp'
  BY <1>6, SetSpeedSetUp
<1>7. ASSUME NEW r \in Regs, NEW v \in Vals, Configure(c, r, v) PROVE SetUp'
  BY <1>7, ConfigureSetUp
<1>8. ASSUME NEW w \in {KeyDown, KeyUp}, KeyImmediate(c, w) PROVE SetUp'
  BY <1>8, KeyImmediateSetUp
<1> QED
  BY <1>3, <1>4, <1>5, <1>6, <1>7, <1>8, RegisterSetUp, UnregisterSetUp, StreamSetUp,
     EnqueueUnconnectedSetUp, CancelSetUp, MaintainSetUp
  DEF ClientRequest

\* No step breaks the invariant.
LEMMA NextSetUp == TypesInv /\ HostInv /\ LeaseInv /\ SetUp /\ [Next]_vars => SetUp'
<1> SUFFICES ASSUME TypesInv, HostInv, LeaseInv, SetUp, [Next]_vars PROVE SetUp'
  OBVIOUS
<1>1. CASE UNCHANGED vars
  <2>1. UNCHANGED <<clientVars, applied, active, dev, link, maint, reopening, strayed>>
    BY <1>1 DEF vars, coreVars, ghostVars
  <2> QED
    BY <2>1, SameSetUp DEF clientVars, Attended
<1>2. ASSUME NEW c \in Clients, ClientRequest(c) PROVE SetUp'
  BY <1>2, RequestSetUp
<1>3. CASE Reconnect
  BY <1>3, ReconnectSetUp DEF LeaseInv
<1> QED
  BY <1>1, <1>2, <1>3, StopSetUp, ReadSetUp, TickSetUp, TransportSetUp, DeviceSetUp DEF Next

\* "It replays a profile only when client ownership changes" and "restores the fixed
\* or pot-controlled speed": for any clients, profiles and bounds, through every order
\* of jobs, settings, cancels, maintenance, failing writes and reconnections, what the
\* broker takes for applied is in the keyer's registers, and so are the idle primary's
\* profile and speed and the running job's.
THEOREM SettingsStayInEffect == Spec => []SettingsInEffect
<1>1. Init => TypesInv /\ HostInv /\ LeaseInv /\ SetUp
  BY InitTyped, InitHost, InitLease, InitSetUp
<1>2. TypesInv /\ HostInv /\ LeaseInv /\ SetUp /\ [Next]_vars
      => TypesInv' /\ HostInv' /\ LeaseInv' /\ SetUp'
  BY NextTypes, NextHost, NextLease, NextSetUp
<1>3. TypesInv /\ HostInv /\ LeaseInv /\ SetUp => SettingsInEffect
  BY SetUpSays
<1> QED
  BY <1>1, <1>2, <1>3, PTL DEF Spec
================================================================================

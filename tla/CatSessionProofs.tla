---------------------------- MODULE CatSessionProofs ----------------------------
(***************************************************************************)
(* What holds of a Kenwood endpoint for any requests, frequencies, modes   *)
(* and permissions.                                                        *)
(***************************************************************************)
EXTENDS CatSession, WellFoundedInduction, SequenceTheorems, TLAPS

------------------------------------------------------------------------------
(***************************************************************************)
(* What is selected from a sequence                                        *)
(***************************************************************************)

\* Numbers that are not all without a property have a least one that has it.
LEMMA Least ==
  ASSUME NEW T \in SUBSET Nat, T # {}
  PROVE  \E n \in T : \A k \in T : n <= k
<1>1. \E n \in T : \A k \in T : ~ (<<k, n>> \in OpToRel(<, Nat))
  BY WFMin, NatLessThanWellFounded
<1>2. PICK n \in T : \A k \in T : ~ (<<k, n>> \in OpToRel(<, Nat))
  BY <1>1
<1>3. \A k \in T : ~(k < n)
  BY <1>2 DEF OpToRel
<1> QED
  BY <1>3

\* What is kept of the first n, as the function says that computes it.
Kept(s, S, n, g) ==
  /\ DOMAIN g = 0 .. n /\ g[0] = <<>>
  /\ \A i \in 1 .. n : g[i] = IF s[i] \in S THEN Append(g[i - 1], s[i]) ELSE g[i - 1]

\* There is such a function ...
LEMMA KeptExists ==
  ASSUME NEW s, NEW S, NEW n \in Nat
  PROVE  \E g : Kept(s, S, n, g)
<1> DEFINE Bad == {k \in Nat : ~\E g : Kept(s, S, k, g)}
<1> SUFFICES ASSUME Bad # {} PROVE FALSE
  OBVIOUS
<1>1. PICK m \in Bad : \A k \in Bad : m <= k
  BY Least
<1>2. CASE m = 0
  <2>1. Kept(s, S, 0, [i \in 0 .. 0 |-> <<>>])
    BY DEF Kept
  <2> QED
    BY <1>1, <1>2, <2>1
<1>3. CASE m > 0
  <2>1. m - 1 \in Nat /\ m - 1 \notin Bad
    BY <1>1, <1>3
  <2>2. PICK g : Kept(s, S, m - 1, g)
    BY <2>1
  <2> DEFINE h == [i \in 0 .. m |->
                     IF i = m THEN IF s[m] \in S THEN Append(g[m - 1], s[m]) ELSE g[m - 1]
                     ELSE g[i]]
  <2>3. \A i \in 0 .. m - 1 : h[i] = g[i]
    BY <1>1
  <2>4. Kept(s, S, m, h)
    <3>1. DOMAIN h = 0 .. m /\ h[0] = <<>>
      BY <1>1, <1>3, <2>2 DEF Kept
    <3>2. \A i \in 1 .. m - 1 : h[i] = IF s[i] \in S THEN Append(h[i - 1], s[i]) ELSE h[i - 1]
      BY <1>1, <2>2, <2>3 DEF Kept
    <3>3. h[m] = IF s[m] \in S THEN Append(h[m - 1], s[m]) ELSE h[m - 1]
      BY <1>1, <1>3, <2>3
    <3> HIDE DEF h
    <3>4. \A i \in 1 .. m : i \in 1 .. m - 1 \/ i = m
      BY <1>1
    <3>5. \A i \in 1 .. m : h[i] = IF s[i] \in S THEN Append(h[i - 1], s[i]) ELSE h[i - 1]
      BY <3>2, <3>3, <3>4
    <3> QED
      BY <3>1, <3>5 DEF Kept
  <2> QED
    BY <1>1, <2>4
<1> QED
  BY <1>1, <1>2, <1>3

\* Selection is what is kept of all.
LEMMA SelectionKept ==
  ASSUME NEW s, Len(s) \in Nat, NEW S
  PROVE  \E g : Kept(s, S, Len(s), g) /\ Selection(s, S) = g[Len(s)]
<1> DEFINE kept == CHOOSE f : f = [i \in 0 .. Len(s) |->
                     IF i = 0 THEN <<>> ELSE IF s[i] \in S THEN Append(f[i - 1], s[i]) ELSE f[i - 1]]
<1>1. PICK g : Kept(s, S, Len(s), g)
  BY KeptExists, Zenon
<1> DEFINE h == [i \in 0 .. Len(s) |-> g[i]]
<1>2. h = [i \in 0 .. Len(s) |->
             IF i = 0 THEN <<>> ELSE IF s[i] \in S THEN Append(h[i - 1], s[i]) ELSE h[i - 1]]
  <2>1. \A i \in 0 .. Len(s) :
          g[i] = IF i = 0 THEN <<>> ELSE IF s[i] \in S THEN Append(g[i - 1], s[i]) ELSE g[i - 1]
    <3>1. \A i \in 0 .. Len(s) : i = 0 \/ i \in 1 .. Len(s)
      OBVIOUS
    <3> QED
      BY <1>1, <3>1, Zenon DEF Kept
  <2>2. \A i \in 0 .. Len(s) : i # 0 => h[i - 1] = g[i - 1]
    OBVIOUS
  <2>3. \A i \in 0 .. Len(s) :
          g[i] = IF i = 0 THEN <<>> ELSE IF s[i] \in S THEN Append(h[i - 1], s[i]) ELSE h[i - 1]
    BY <2>1, <2>2, Zenon
  <2> QED
    BY <2>3
<1>3. kept = [i \in 0 .. Len(s) |->
                IF i = 0 THEN <<>> ELSE IF s[i] \in S THEN Append(kept[i - 1], s[i]) ELSE kept[i - 1]]
  <2> HIDE DEF h
  <2> QED
    BY <1>2, Zenon
<1>4. Selection(s, S) = kept[Len(s)]
  BY DEF Selection
<1> HIDE DEF kept
<1>5. Kept(s, S, Len(s), kept)
  <2>1. DOMAIN kept = 0 .. Len(s)
    BY <1>3
  <2>2. kept[0] = <<>>
    BY <1>3
  <2>3. ASSUME NEW i \in 1 .. Len(s)
        PROVE  kept[i] = IF s[i] \in S THEN Append(kept[i - 1], s[i]) ELSE kept[i - 1]
    <3>1. i \in 0 .. Len(s) /\ i # 0
      OBVIOUS
    <3> QED
      BY <1>3, <3>1
  <2> QED
    BY <2>1, <2>2, <2>3 DEF Kept
<1> QED
  BY <1>4, <1>5

------------------------------------------------------------------------------
(***************************************************************************)
(* What a dialect makes of a request                                       *)
(***************************************************************************)


\* What permissions allow of an operation, by its effect.
Within(granted, deed) ==
  IF deed.frames # <<>>
  THEN IF deed.frames[1].arg = <<>> THEN "read" \in granted ELSE "config_write" \in granted
  ELSE \/ deed.mut.field = "ptt" /\ "ptt" \in granted
       \/ deed.mut.field # "ptt" /\ "write" \in granted
       \/ deed.mut.field \in {"freqA", "freqB"} /\ "frequency_write" \in granted

\* What a dialect makes of a request: a frame to forward, with its class, a mutation
\* with its class, or nothing that a session submits.
Forwards(deed, req) == deed = Forward(req)
Writes(deed) ==
  \E field \in {"freqA", "freqB", "modeA", "modeB"} : \E val : deed = Apply(Change(field, val), "ModeledWrite")
Transmits(deed) == \E on : deed = Transmit(on)
Submits(deed, req) == Forwards(deed, req) \/ Writes(deed) \/ Transmits(deed)
Answers(deed) == deed.kind \in {"reply", "ai", "quiet"}

\* The fields of what is made of a request.
LEMMA DeedFields ==
  ASSUME NEW kind, NEW class, NEW mut, NEW frames
  PROVE  LET deed == Deed(kind, class, mut, frames)
         IN deed.kind = kind /\ deed.class = class /\ deed.mut = mut /\ deed.frames = frames
BY DEF Deed

\* Requests that every dialect answers alike are answered.
LEMMA CommonAnswers ==
  ASSUME NEW id, NEW flag, NEW req, Common(req)
  PROVE  Answers(HandleCommon(id, flag, req))
BY DEF Common, HandleCommon, Answers, Say, SetAi, Deed

\* Frequencies and the mode are written as such.
LEMMA ModeledWrites ==
  ASSUME NEW v, NEW s, NEW req
  PROVE  LET deed == HandleModeled(v, s, req) IN Answers(deed) \/ Writes(deed)
<1> DEFINE field == IF req.verb = "MD" THEN ModeOf(s.rx) ELSE FreqOf(v)
           deed == HandleModeled(v, s, req)
<1>1. field \in {"freqA", "freqB", "modeA", "modeB"}
  BY DEF ModeOf, FreqOf
<1>2. CASE req.arg = <<>>
  BY <1>2 DEF HandleModeled, Answers, Say, Deed
<1>3. CASE req.arg # <<>>
  <2>1. \E val : deed = Apply(Change(field, val), "ModeledWrite")
    BY <1>3 DEF HandleModeled
  <2> HIDE DEF field, deed
  <2>2. Writes(deed)
    BY <1>1, <2>1 DEF Writes
  <2> QED
    BY <2>2 DEF deed
<1> QED
  BY <1>2, <1>3

\* Every dialect answers a request or submits what it says.
LEMMA DialectSubmits ==
  ASSUME NEW d \in Dialects, NEW s, NEW flag, NEW req
  PROVE  LET deed == Handle(d, s, flag, req) IN Answers(deed) \/ Submits(deed, req)
<1> DEFINE Fine(deed) == Answers(deed) \/ Submits(deed, req)
<1>1. Fine(Forward(req)) /\ \A on : Fine(Transmit(on))
  BY DEF Submits, Forwards, Transmits
<1>2. \A v : Fine(HandleModeled(v, s, req))
  BY ModeledWrites DEF Submits
<1>3. \A frames : Fine(Say(frames))
  BY DEF Answers, Say, Deed
<1>4. Common(req) => \A id : Fine(HandleCommon(id, flag, req))
  BY CommonAnswers
<1> HIDE DEF Fine
<1>5. \A single \in BOOLEAN : Fine(HandleTs590(single, s, flag, req))
  BY <1>1, <1>2, <1>3, <1>4 DEF HandleTs590
<1>6. Fine(HandleTs2000(s, flag, req))
  BY <1>2, <1>3, <1>4 DEF HandleTs2000, Refuse
<1>7. Fine(HandleTransparent(flag, req))
  BY <1>1, <1>4 DEF HandleTransparent
<1>8. Fine(Handle(d, s, flag, req))
  BY <1>5, <1>6, <1>7 DEF Handle, Dialects
<1> QED
  BY <1>8 DEF Fine

\* What is permitted is within the permissions.
LEMMA PermittedWithin ==
  ASSUME NEW granted, NEW deed, NEW req, Submits(deed, req), Permitted(granted, deed)
  PROVE  Within(granted, deed) /\ {"kind", "mut", "frames"} \subseteq DOMAIN deed
<1>1. CASE Forwards(deed, req)
  BY <1>1 DEF Forwards, Forward, Permitted, Allows, Within, Deed
<1>2. CASE Writes(deed)
  <2>1. PICK field \in {"freqA", "freqB", "modeA", "modeB"} :
               \E val : deed = Apply(Change(field, val), "ModeledWrite")
    BY <1>2 DEF Writes
  <2>2. /\ deed.kind = "apply" /\ deed.class = "ModeledWrite" /\ deed.frames = <<>>
        /\ deed.mut.field = field /\ {"kind", "mut", "frames"} \subseteq DOMAIN deed
    BY <2>1 DEF Apply, Deed, Change
  <2> QED
    BY <2>2 DEF Permitted, AllowsMutation, Allows, Within
<1>3. CASE Transmits(deed)
  <2>1. /\ deed.kind = "apply" /\ deed.class = "PttWrite" /\ deed.frames = <<>>
        /\ deed.mut.field = "ptt" /\ {"kind", "mut", "frames"} \subseteq DOMAIN deed
    BY <1>3 DEF Transmits, Transmit, Apply, Deed, Change
  <2> QED
    BY <2>1 DEF Permitted, AllowsMutation, Allows, Within
<1> QED
  BY <1>1, <1>2, <1>3 DEF Submits

\* What Authority needs to be inductive.
AuthorityInv ==
  /\ dialect \in Dialects
  /\ op # Nothing => Within(perms, op) /\ {"kind", "mut", "frames"} \subseteq DOMAIN op

\* Handling a request, and executing what came of it.
LEMMA NextAuthority == AuthorityInv /\ [Next]_vars => AuthorityInv'
<1> SUFFICES ASSUME AuthorityInv, [Next]_vars PROVE AuthorityInv'
  OBVIOUS
<1> USE DEF endpoint
<1>1. CASE UNCHANGED <<dialect, perms>> /\ op' \in {op, Nothing}
  BY <1>1 DEF AuthorityInv, Within
<1>2. CASE HandleRequest
  <2>1. PICK req \in Requests :
          LET deed == Handle(dialect, snap, ai, req)
          IN op' = IF /\ deed.kind \in {"apply", "forward"} /\ Permitted(perms, deed)
                      /\ (deed.kind = "apply" => ~IsRedundant(snap, unsure, deed.mut))
                   THEN deed ELSE Nothing
    BY <1>2 DEF HandleRequest
  <2> DEFINE deed == Handle(dialect, snap, ai, req)
  <2>2. Answers(deed) \/ Submits(deed, req)
    BY DialectSubmits DEF AuthorityInv
  <2>3. UNCHANGED <<dialect, perms>>
    BY <1>2 DEF HandleRequest
  <2> HIDE DEF deed
  <2>4. CASE op' = deed /\ deed.kind \in {"apply", "forward"} /\ Permitted(perms, deed)
    <3>1. Submits(deed, req)
      BY <2>2, <2>4 DEF Answers
    <3>2. Within(perms, deed) /\ {"kind", "mut", "frames"} \subseteq DOMAIN deed
      BY <2>4, <3>1, PermittedWithin
    <3> QED
      BY <2>3, <2>4, <3>2 DEF AuthorityInv, Within
  <2>5. CASE op' = Nothing
    BY <1>1, <2>3, <2>5
  <2> QED
    BY <2>1, <2>4, <2>5 DEF deed
<1>3. CASE Execute
  <2>1. UNCHANGED <<dialect, perms>> /\ op # Nothing /\ op' \in {[op EXCEPT !.kind = "done"], Nothing}
    BY <1>3 DEF Execute
  <2>2. CASE op' = [op EXCEPT !.kind = "done"]
    <3>1. op'.mut = op.mut /\ op'.frames = op.frames /\ DOMAIN op' = DOMAIN op
      BY <2>1, <2>2 DEF AuthorityInv
    <3> QED
      BY <2>1, <3>1 DEF AuthorityInv, Within
  <2> QED
    BY <1>1, <2>1, <2>2
<1>4. CASE Resume
  BY <1>1, <1>4 DEF Resume
<1>5. CASE Push
  BY <1>1, <1>5 DEF Push
<1>6. CASE Poll
  BY <1>1, <1>6 DEF Poll
<1>7. CASE \E t \in Recorders : Broadcast(t)
  BY <1>1, <1>7 DEF Broadcast
<1>8. CASE Lag \/ ReadEvent
  BY <1>1, <1>8 DEF Lag, ReadEvent
<1>9. CASE UNCHANGED vars
  BY <1>1, <1>9 DEF vars
<1> QED
  BY <1>2, <1>3, <1>4, <1>5, <1>6, <1>7, <1>8, <1>9 DEF Next

\* Whatever a client asks of whatever dialect, what its session submits is within the
\* permissions of its endpoint by its effect (permissions.rs, Kind::allows_mutation).
THEOREM SessionAuthority == Spec => []Authority
<1>1. Init => AuthorityInv
  BY DEF Init, AuthorityInv
<1>2. AuthorityInv => Authority
  BY DEF AuthorityInv, Within, Authority
<1> QED
  BY <1>1, <1>2, NextAuthority, PTL DEF Spec
\* Digits stand for one mode each.
LEMMA DigitBack ==
  ASSUME NEW m \in Modes \ {"Unknown"}
  PROVE  FromDigit(ToDigit(m)) = m
<1>1. /\ ToDigit("LSB") = 1 /\ ToDigit("USB") = 2 /\ ToDigit("CW") = 3 /\ ToDigit("FM") = 4 
      /\ ToDigit("AM") = 5 /\ ToDigit("FSK") = 6 /\ ToDigit("CWR") = 7 /\ ToDigit("FSKR") = 9
  BY DEF ToDigit
<1>2. ASSUME NEW k \in Modes \ {"Unknown"}, ToDigit(k) = ToDigit(m) PROVE k = m
  BY <1>1, <1>2 DEF Modes
<1> DEFINE known == {k \in Modes \ {"Unknown"} : ToDigit(k) = ToDigit(m)}
<1>3. known = {m}
  BY <1>2
<1>4. FromDigit(ToDigit(m)) = IF known = {} THEN "Unknown" ELSE CHOOSE k \in known : TRUE
  BY DEF FromDigit
<1> HIDE DEF known
<1> QED
  BY <1>3, <1>4

\* What a client shows after each of the first n frames.
Showing(shown, frames, n, g) ==
  /\ DOMAIN g = 0 .. n /\ g[0] = shown
  /\ \A i \in 1 .. n : g[i] = Show(g[i - 1], frames[i])

\* There is such a function ...
LEMMA ShowingExists ==
  ASSUME NEW shown, NEW frames, NEW n \in Nat
  PROVE  \E g : Showing(shown, frames, n, g)
<1> DEFINE Bad == {k \in Nat : ~\E g : Showing(shown, frames, k, g)}
<1> SUFFICES ASSUME Bad # {} PROVE FALSE
  OBVIOUS
<1>1. PICK m \in Bad : \A k \in Bad : m <= k
  BY Least
<1>2. CASE m = 0
  <2>1. Showing(shown, frames, 0, [i \in 0 .. 0 |-> shown])
    BY DEF Showing
  <2> QED
    BY <1>1, <1>2, <2>1
<1>3. CASE m > 0
  <2>1. m - 1 \in Nat /\ m - 1 \notin Bad
    BY <1>1, <1>3
  <2>2. PICK g : Showing(shown, frames, m - 1, g)
    BY <2>1
  <2> DEFINE h == [i \in 0 .. m |-> IF i = m THEN Show(g[m - 1], frames[m]) ELSE g[i]]
  <2>3. \A i \in 0 .. m - 1 : h[i] = g[i]
    BY <1>3
  <2>4. Showing(shown, frames, m, h)
    <3>1. DOMAIN h = 0 .. m /\ h[0] = shown
      BY <1>3, <2>2, <2>3 DEF Showing
    <3>2. \A i \in 1 .. m - 1 : h[i] = Show(h[i - 1], frames[i])
      <4>1. \A i \in 1 .. m - 1 : g[i] = Show(g[i - 1], frames[i]) /\ h[i] = g[i] /\ h[i - 1] = g[i - 1]
        BY <2>2, <2>3 DEF Showing
      <4> HIDE DEF h
      <4> QED
        BY <4>1
    <3>3. h[m] = Show(h[m - 1], frames[m])
      <4>1. h[m] = Show(g[m - 1], frames[m]) /\ h[m - 1] = g[m - 1]
        BY <1>3, <2>3
      <4> HIDE DEF h
      <4> QED
        BY <4>1
    <3> HIDE DEF h
    <3>4. \A i \in 1 .. m : i \in 1 .. m - 1 \/ i = m
      BY <1>3
    <3>5. \A i \in 1 .. m : h[i] = Show(h[i - 1], frames[i])
      BY <3>2, <3>3, <3>4
    <3> QED
      BY <3>1, <3>5 DEF Showing
  <2> QED
    BY <1>1, <2>4
<1> QED
  BY <1>1, <1>2, <1>3

\* ShowAll is the last of it.
LEMMA ShowAllShows ==
  ASSUME NEW shown, NEW frames, Len(frames) \in Nat
  PROVE  \E g : Showing(shown, frames, Len(frames), g) /\ ShowAll(shown, frames) = g[Len(frames)]
<1> DEFINE after == CHOOSE f : f = [i \in 0 .. Len(frames) |->
                     IF i = 0 THEN shown ELSE Show(f[i - 1], frames[i])]
<1>1. PICK g : Showing(shown, frames, Len(frames), g)
  BY ShowingExists
<1> DEFINE h == [i \in 0 .. Len(frames) |-> g[i]]
<1>2. h = [i \in 0 .. Len(frames) |-> IF i = 0 THEN shown ELSE Show(h[i - 1], frames[i])]
  <2>1. \A i \in 0 .. Len(frames) : g[i] = IF i = 0 THEN shown ELSE Show(g[i - 1], frames[i])
    <3>1. \A i \in 0 .. Len(frames) : i = 0 \/ i \in 1 .. Len(frames)
      OBVIOUS
    <3> QED
      BY <1>1, <3>1 DEF Showing
  <2>2. \A i \in 0 .. Len(frames) : i # 0 => h[i - 1] = g[i - 1]
    OBVIOUS
  <2>3. \A i \in 0 .. Len(frames) : g[i] = IF i = 0 THEN shown ELSE Show(h[i - 1], frames[i])
    <3> HIDE DEF h
    <3> QED
      BY <2>1, <2>2
  <2> QED
    BY <2>3
<1>3. after = [i \in 0 .. Len(frames) |-> IF i = 0 THEN shown ELSE Show(after[i - 1], frames[i])]
  <2> HIDE DEF h
  <2> QED
    BY <1>2
<1>4. ShowAll(shown, frames) = after[Len(frames)]
  BY DEF ShowAll
<1> HIDE DEF after
<1>5. Showing(shown, frames, Len(frames), after)
  <2>1. DOMAIN after = 0 .. Len(frames)
    BY <1>3
  <2>2. after[0] = shown
    BY <1>3
  <2>3. ASSUME NEW i \in 1 .. Len(frames) PROVE after[i] = Show(after[i - 1], frames[i])
    <3>1. i \in 0 .. Len(frames) /\ i # 0
      OBVIOUS
    <3> QED
      BY <1>3, <3>1
  <2> QED
    BY <2>1, <2>2, <2>3 DEF Showing
<1> QED
  BY <1>4, <1>5
\* ... and one only.
LEMMA ShowingUnique ==
  ASSUME NEW shown, NEW frames, NEW n \in Nat,
         NEW g, Showing(shown, frames, n, g), NEW h, Showing(shown, frames, n, h)
  PROVE  g[n] = h[n]
<1> DEFINE Bad == {i \in 0 .. n : g[i] # h[i]}
<1>1. SUFFICES ASSUME Bad # {} PROVE FALSE
  <2>1. CASE Bad = {}
    <3>1. n \in 0 .. n /\ n \notin Bad
      BY <2>1
    <3> QED
      BY <3>1
  <2> QED
    BY <1>1, <2>1
<1>2. Bad \subseteq Nat
  OBVIOUS
<1>3. PICK i \in Bad : \A j \in Bad : i <= j
  <2> HIDE DEF Bad
  <2> QED
    BY <1>1, <1>2, Least
<1>4. i # 0
  BY <1>3 DEF Showing
<1>5. i - 1 \in 0 .. n /\ i \in 1 .. n
  BY <1>3, <1>4
<1>6. g[i - 1] = h[i - 1]
  <2>1. i - 1 \notin Bad
    BY <1>3, <1>5
  <2> QED
    BY <1>5, <2>1
<1> QED
  BY <1>3, <1>5, <1>6 DEF Showing

\* What is shown of no frames, of one, two, three.
LEMMA ShowNone ==
  ASSUME NEW v
  PROVE  ShowAll(v, <<>>) = v
<1>1. PICK g : Showing(v, <<>>, Len(<<>>), g) /\ ShowAll(v, <<>>) = g[Len(<<>>)]
  BY ShowAllShows
<1> QED
  BY <1>1 DEF Showing

\* One frame.
LEMMA ShowOne ==
  ASSUME NEW v, NEW a
  PROVE  ShowAll(v, <<a>>) = Show(v, a)
<1>1. PICK g : Showing(v, <<a>>, Len(<<a>>), g) /\ ShowAll(v, <<a>>) = g[Len(<<a>>)]
  BY ShowAllShows
<1>2. Len(<<a>>) = 1 /\ <<a>>[1] = a
  OBVIOUS
<1>3. g[0] = v /\ g[1] = Show(g[1 - 1], <<a>>[1]) /\ 1 - 1 = 0
  BY <1>1, <1>2 DEF Showing
<1> QED
  BY <1>1, <1>2, <1>3

\* Two frames, one after the other.
LEMMA ShowTwo ==
  ASSUME NEW v, NEW a, NEW b
  PROVE  ShowAll(v, <<a, b>>) = Show(Show(v, a), b)
<1>1. PICK g : Showing(v, <<a, b>>, Len(<<a, b>>), g) /\ ShowAll(v, <<a, b>>) = g[Len(<<a, b>>)]
  BY ShowAllShows
<1>2. Len(<<a, b>>) = 2 /\ <<a, b>>[1] = a /\ <<a, b>>[2] = b
  OBVIOUS
<1>3. /\ g[0] = v /\ g[1] = Show(g[1 - 1], <<a, b>>[1]) /\ 1 - 1 = 0
      /\ g[2] = Show(g[2 - 1], <<a, b>>[2]) /\ 2 - 1 = 1
  BY <1>1, <1>2 DEF Showing
<1> QED
  BY <1>1, <1>2, <1>3

\* Three.
LEMMA ShowThree ==
  ASSUME NEW v, NEW a, NEW b, NEW c
  PROVE  ShowAll(v, <<a, b, c>>) = Show(Show(Show(v, a), b), c)
<1>1. PICK g : /\ Showing(v, <<a, b, c>>, Len(<<a, b, c>>), g)
               /\ ShowAll(v, <<a, b, c>>) = g[Len(<<a, b, c>>)]
  BY ShowAllShows
<1>2. Len(<<a, b, c>>) = 3 /\ <<a, b, c>>[1] = a /\ <<a, b, c>>[2] = b /\ <<a, b, c>>[3] = c
  OBVIOUS
<1>3. /\ g[0] = v /\ g[1] = Show(g[1 - 1], <<a, b, c>>[1]) /\ 1 - 1 = 0
      /\ g[2] = Show(g[2 - 1], <<a, b, c>>[2]) /\ 2 - 1 = 1
      /\ g[3] = Show(g[3 - 1], <<a, b, c>>[3]) /\ 3 - 1 = 2
  BY <1>1, <1>2 DEF Showing
<1> QED
  BY <1>1, <1>2, <1>3

\* What is shown of a sequence and another is shown of one after the other.
LEMMA ShowConcat ==
  ASSUME NEW T, NEW v, NEW s \in Seq(T), NEW t \in Seq(T)
  PROVE  ShowAll(v, s \o t) = ShowAll(ShowAll(v, s), t)
<1>1. PICK n \in Nat, m \in Nat : n = Len(s) /\ m = Len(t)
  OBVIOUS
<1>2. /\ Len(s \o t) = n + m
      /\ \A i \in 1 .. n : (s \o t)[i] = s[i]
      /\ \A i \in n + 1 .. n + m : (s \o t)[i] = t[i - n]
  BY <1>1
<1>3. PICK g : Showing(v, s, n, g) /\ ShowAll(v, s) = g[n]
  BY <1>1, ShowAllShows
<1>4. PICK h : Showing(g[n], t, m, h) /\ ShowAll(g[n], t) = h[m]
  BY <1>1, ShowAllShows
<1>5. PICK k : Showing(v, s \o t, n + m, k) /\ ShowAll(v, s \o t) = k[n + m]
  <2>1. PICK all \in Nat : all = n + m
    OBVIOUS
  <2>2. Len(s \o t) = all
    BY <1>2, <2>1
  <2> QED
    BY <2>1, <2>2, ShowAllShows
<1> DEFINE f == [i \in 0 .. n + m |-> IF i <= n THEN g[i] ELSE h[i - n]]
<1>6. Showing(v, s \o t, n + m, f)
  <2>1. DOMAIN f = 0 .. n + m /\ f[0] = v
    BY <1>3 DEF Showing
  <2>2. ASSUME NEW i \in 1 .. n PROVE f[i] = Show(f[i - 1], (s \o t)[i])
    <3>1. i \in 0 .. n + m /\ i - 1 \in 0 .. n + m /\ i <= n /\ i - 1 <= n
      OBVIOUS
    <3>2. f[i] = g[i] /\ f[i - 1] = g[i - 1]
      BY <3>1
    <3>3. g[i] = Show(g[i - 1], s[i])
      BY <1>3 DEF Showing
    <3> HIDE DEF f
    <3> QED
      BY <1>2, <3>2, <3>3
  <2>3. ASSUME NEW i \in n + 1 .. n + m PROVE f[i] = Show(f[i - 1], (s \o t)[i])
    <3>1. i \in 0 .. n + m /\ i - 1 \in 0 .. n + m /\ ~(i <= n) /\ i - n \in 1 .. m
      OBVIOUS
    <3>2. f[i] = h[i - n]
      BY <3>1
    <3>3. f[i - 1] = h[i - n - 1]
      <4>1. CASE i - 1 <= n
        <5>1. i - 1 = n /\ i - n - 1 = 0
          BY <3>1, <4>1
        <5>2. f[i - 1] = g[n]
          BY <3>1, <4>1, <5>1
        <5>3. h[0] = g[n]
          BY <1>4 DEF Showing
        <5> HIDE DEF f
        <5> QED
          BY <5>1, <5>2, <5>3
      <4>2. CASE ~(i - 1 <= n)
        <5>1. f[i - 1] = h[(i - 1) - n] /\ (i - 1) - n = i - n - 1
          BY <3>1, <4>2
        <5> HIDE DEF f
        <5> QED
          BY <5>1
      <4> QED
        BY <4>1, <4>2
    <3>4. h[i - n] = Show(h[i - n - 1], t[i - n])
      BY <1>4, <3>1 DEF Showing
    <3> HIDE DEF f
    <3> QED
      BY <1>2, <3>2, <3>3, <3>4
  <2> HIDE DEF f
  <2>4. \A i \in 1 .. n + m : i \in 1 .. n \/ i \in n + 1 .. n + m
    OBVIOUS
  <2>5. \A i \in 1 .. n + m : f[i] = Show(f[i - 1], (s \o t)[i])
    BY <2>2, <2>3, <2>4
  <2> QED
    BY <2>1, <2>5 DEF Showing
<1>7. f[n + m] = h[m]
  <2>1. CASE m = 0
    <3>1. h[0] = g[n]
      BY <1>4 DEF Showing
    <3>2. f[n + m] = g[n]
      BY <2>1
    <3> HIDE DEF f
    <3> QED
      BY <2>1, <3>1, <3>2
  <2>2. CASE m > 0
    BY <2>2
  <2> QED
    BY <2>1, <2>2
<1>8. f[n + m] = k[n + m]
  <2> HIDE DEF f
  <2>1. n + m \in Nat
    OBVIOUS
  <2> QED
    BY <1>5, <1>6, <2>1, ShowingUnique
<1> QED
  BY <1>3, <1>4, <1>5, <1>7, <1>8

\* What a client may show, and the frames it is told with.
Views == [rx : Vfo, freqA : Hz, freqB : Hz, digit : Digits]
Synthesized ==
  [verb : {"IF"}, arg : [rx : Vfo, split : BOOLEAN, freq : Hz, digit : Digits, ptt : BOOLEAN]]
Frames ==
  [verb : {"FA", "FB"}, arg : Hz] \cup [verb : {"FR", "FT"}, arg : Vfo]
    \cup [verb : {"MD"}, arg : Digits] \cup [verb : {"NB"}, arg : {1}] \cup Synthesized

\* What one frame changes of what is shown.
LEMMA ShowFields ==
  ASSUME NEW v \in Views, NEW frame \in Frames
  PROVE  /\ Show(v, frame) \in Views
         /\ frame.verb \in {"FT", "NB"} => Show(v, frame) = v
         /\ frame.verb = "FA" => Show(v, frame) = [v EXCEPT !.freqA = frame.arg]
         /\ frame.verb = "FB" => Show(v, frame) = [v EXCEPT !.freqB = frame.arg]
         /\ frame.verb = "FR" => Show(v, frame) = [v EXCEPT !.rx = frame.arg]
         /\ frame.verb = "MD" => Show(v, frame) = [v EXCEPT !.digit = frame.arg]
         /\ frame.verb = "IF" /\ dialect = "ts2000" => Show(v, frame) = v
         /\ frame.verb = "IF" /\ dialect # "ts2000" =>
              /\ Show(v, frame).rx = frame.arg.rx /\ Show(v, frame).digit = frame.arg.digit
              /\ Show(v, frame).freqA = IF frame.arg.rx = "A" THEN frame.arg.freq ELSE v.freqA
              /\ Show(v, frame).freqB = IF frame.arg.rx = "B" THEN frame.arg.freq ELSE v.freqB
<1>1. CASE frame.verb \in {"FT", "NB"}
  BY <1>1 DEF Show
<1>2. CASE frame.verb = "FA"
  <2>1. frame.arg \in Hz
    BY <1>2 DEF Frames, Synthesized
  <2>2. Show(v, frame) = [v EXCEPT !.freqA = frame.arg]
    BY <1>2 DEF Show
  <2> QED
    BY <1>2, <2>1, <2>2 DEF Views
<1>3. CASE frame.verb = "FB"
  <2>1. frame.arg \in Hz
    BY <1>3 DEF Frames, Synthesized
  <2>2. Show(v, frame) = [v EXCEPT !.freqB = frame.arg]
    BY <1>3 DEF Show
  <2> QED
    BY <1>3, <2>1, <2>2 DEF Views
<1>4. CASE frame.verb = "FR"
  <2>1. frame.arg \in Vfo
    BY <1>4 DEF Frames, Synthesized
  <2>2. Show(v, frame) = [v EXCEPT !.rx = frame.arg]
    BY <1>4 DEF Show
  <2> QED
    BY <1>4, <2>1, <2>2 DEF Views
<1>5. CASE frame.verb = "MD"
  <2>1. frame.arg \in Digits
    BY <1>5 DEF Frames, Synthesized
  <2>2. Show(v, frame) = [v EXCEPT !.digit = frame.arg]
    BY <1>5 DEF Show
  <2> QED
    BY <1>5, <2>1, <2>2 DEF Views
<1>6. CASE frame.verb = "IF" /\ dialect = "ts2000"
  BY <1>6 DEF Show
<1>7. CASE frame.verb = "IF" /\ dialect # "ts2000"
  <2>1. frame.arg.rx \in Vfo /\ frame.arg.freq \in Hz /\ frame.arg.digit \in Digits
    BY <1>7 DEF Frames, Synthesized
  <2>2. PICK rx \in Vfo, freq \in Hz, digit \in Digits :
          rx = frame.arg.rx /\ freq = frame.arg.freq /\ digit = frame.arg.digit
    BY <2>1
  <2>3. Show(v, frame) = [v EXCEPT !.rx = rx, ![FreqOf(rx)] = freq, !.digit = digit]
    BY <1>7, <2>2 DEF Show
  <2>4. FreqOf("A") = "freqA" /\ FreqOf("B") = "freqB" /\ rx \in {"A", "B"}
    BY DEF FreqOf, Vfo
  <2>5. CASE rx = "A"
    <3>1. Show(v, frame) = [v EXCEPT !.rx = rx, !.freqA = freq, !.digit = digit]
      BY <2>3, <2>4, <2>5
    <3> QED
      BY <1>7, <2>2, <2>5, <3>1 DEF Views
  <2>6. CASE rx = "B"
    <3>1. Show(v, frame) = [v EXCEPT !.rx = rx, !.freqB = freq, !.digit = digit]
      BY <2>3, <2>4, <2>6
    <3> QED
      BY <1>7, <2>2, <2>6, <3>1 DEF Views
  <2> QED
    BY <2>4, <2>5, <2>6
<1> QED
  BY <1>1, <1>2, <1>3, <1>4, <1>5, <1>6, <1>7 DEF Frames, Synthesized
\* A snapshot of settings in range, a change of one of them, one that no dialect tells of.
Fits(s) ==
  /\ DOMAIN s = DOMAIN DefaultSnapshot
  /\ s.rx \in Vfo /\ s.freqA \in Hz /\ s.freqB \in Hz
  /\ s.modeA \in RadioModes /\ s.modeB \in RadioModes
  /\ s.split = <<FALSE, "A">> /\ s.ptt \in BOOLEAN
Moves(ch) ==
  \/ ch.field \in {"freqA", "freqB"} /\ ch.new \in Hz
  \/ ch.field \in ModeFields /\ ch.new \in RadioModes
  \/ ch.field = "rx" /\ ch.new \in Vfo
Untold(ch) == ch.field \notin {"freqA", "freqB", "modeA", "modeB", "rx"}
OpFreq(s) == s[FreqOf(s.rx)]
OpDigit(s) == ToDigit(s[ModeOf(s.rx)])

\* The operating VFO has a frequency and a mode in range.
LEMMA OpFits ==
  ASSUME NEW s, Fits(s)
  PROVE  /\ OpFreq(s) \in Hz /\ s[ModeOf(s.rx)] \in RadioModes /\ OpDigit(s) \in Digits
         /\ \A m \in RadioModes : ToDigit(m) \in Digits
         /\ FreqOf(s.rx) \in {"freqA", "freqB"} /\ ModeOf(s.rx) \in ModeFields
         /\ s.rx = "A" => FreqOf(s.rx) = "freqA" /\ ModeOf(s.rx) = "modeA" /\ OpFreq(s) = s.freqA
         /\ s.rx = "B" => FreqOf(s.rx) = "freqB" /\ ModeOf(s.rx) = "modeB" /\ OpFreq(s) = s.freqB
         /\ s.rx \in {"A", "B"}
BY DEF Fits, OpFreq, OpDigit, FreqOf, ModeOf, ModeFields, Digits, Vfo

\* The status frame is about the operating VFO.
LEMMA SynthFields ==
  ASSUME NEW s, Fits(s), NEW single \in BOOLEAN
  PROVE  LET frame == SynthIf(s, single)
         IN /\ frame \in Frames /\ frame.verb = "IF" /\ frame.arg.freq = OpFreq(s) /\ frame.arg.digit = OpDigit(s)
            /\ frame.arg.rx = IF single THEN "A" ELSE s.rx
<1>1. PICK b \in BOOLEAN : b = (~single /\ s.split[1])
  <2>1. (~single /\ s.split[1]) \in BOOLEAN
    OBVIOUS
  <2> QED
    BY <2>1
<1>2. PICK arg : arg = [rx |-> IF single THEN "A" ELSE s.rx, split |-> ~single /\ s.split[1],
                        freq |-> OpFreq(s), digit |-> OpDigit(s), ptt |-> s.ptt]
  OBVIOUS
<1>3. /\ arg.freq = OpFreq(s) /\ arg.digit = OpDigit(s) /\ arg.rx = IF single THEN "A" ELSE s.rx
      /\ arg \in [rx : Vfo, split : BOOLEAN, freq : Hz, digit : Digits, ptt : BOOLEAN]
  <2>1. arg = [rx |-> IF single THEN "A" ELSE s.rx, split |-> b,
                        freq |-> OpFreq(s), digit |-> OpDigit(s), ptt |-> s.ptt]
    BY <1>1, <1>2
  <2>2. s.ptt \in BOOLEAN /\ (IF single THEN "A" ELSE s.rx) \in Vfo
    BY DEF Fits, Vfo
  <2> QED
    BY <2>1, <2>2, OpFits
<1>4. SynthIf(s, single) = [verb |-> "IF", arg |-> arg]
  BY <1>2 DEF SynthIf, Frame, OpFreq, OpDigit
<1> QED
  BY <1>3, <1>4 DEF Frames, Synthesized

\* Short sequences.
LEMMA Few ==
  ASSUME NEW T
  PROVE  /\ <<>> \in Seq(T)
         /\ \A a \in T : <<a>> \in Seq(T)
         /\ \A a, b \in T : <<a, b>> \in Seq(T)
         /\ \A a, b, c \in T : <<a, b, c>> \in Seq(T)
OBVIOUS

\* Short sequences, one after another.
LEMMA Pairs ==
  ASSUME NEW T, NEW a \in T
  PROVE  /\ <<a>> \o <<>> = <<a>>
         /\ \A b \in T : <<a>> \o <<b>> = <<a, b>>
         /\ \A b, c \in T : <<a, b>> \o <<c>> = <<a, b, c>>
<1>1. <<a>> \o <<>> = <<a>>
  OBVIOUS
<1>2. ASSUME NEW b \in T PROVE <<a>> \o <<b>> = <<a, b>>
  <2>1. <<a>> \o <<b>> \in Seq(T) /\ <<a, b>> \in Seq(T)
    OBVIOUS
  <2>2. Len(<<a>> \o <<b>>) = 2 /\ Len(<<a, b>>) = 2
    OBVIOUS
  <2>3. \A i \in 1 .. 2 : (<<a>> \o <<b>>)[i] = <<a, b>>[i]
    OBVIOUS
  <2> QED
    BY <2>1, <2>2, <2>3, SeqEqual
<1>3. ASSUME NEW b \in T, NEW c \in T PROVE <<a, b>> \o <<c>> = <<a, b, c>>
  <2>1. <<a, b>> \o <<c>> \in Seq(T) /\ <<a, b, c>> \in Seq(T)
    OBVIOUS
  <2>2. Len(<<a, b>> \o <<c>>) = 3 /\ Len(<<a, b, c>>) = 3
    OBVIOUS
  <2>3. \A i \in 1 .. 3 : (<<a, b>> \o <<c>>)[i] = <<a, b, c>>[i]
    OBVIOUS
  <2> QED
    BY <2>1, <2>2, <2>3, SeqEqual
<1> QED
  BY <1>1, <1>2, <1>3

\* The three plain frames.
LEMMA PlainFrames ==
  /\ \A verb \in {"FA", "FB"}, hz \in Hz :
       Frame(verb, hz) \in Frames /\ Frame(verb, hz).verb = verb /\ Frame(verb, hz).arg = hz
  /\ \A verb \in {"FR", "FT"}, w \in Vfo :
       Frame(verb, w) \in Frames /\ Frame(verb, w).verb = verb /\ Frame(verb, w).arg = w
  /\ \A d \in Digits :
       Frame("MD", d) \in Frames /\ Frame("MD", d).verb = "MD" /\ Frame("MD", d).arg = d
  /\ Frame("NB", 1) \in Frames /\ Frame("NB", 1).verb = "NB"
BY DEF Frame, Frames

\* What a ts590 client shows after a notification: what the snapshot has, where it is told
\* of it, and where it was told of something else what it showed.
LEMMA ShowsTs590 ==
  ASSUME dialect = "ts590", NEW s, Fits(s), NEW ch, Moves(ch) \/ Untold(ch), NEW v \in Views,
         NEW frames, frames = Notification("ts590", s, ch), NEW w, w = ShowAll(v, frames)
  PROVE  /\ frames \in Seq(Frames) /\ w \in Views
         /\ \A f \in {"rx", "freqA", "freqB"} :
              (ch.field = f => ch.new = s[f]) /\ (ch.field = f \/ v[f] = s[f]) => w[f] = s[f]
         /\ ch.field \in {"rx", ModeOf(s.rx)} \/ v.digit = OpDigit(s) => w.digit = OpDigit(s)
<1>0. frames = NotifyTs590(s, ch)
  BY DEF Notification
<1>7. PICK synth : synth = SynthIf(s, FALSE)
  OBVIOUS
<1>1. /\ synth \in Frames /\ synth.verb = "IF" /\ synth.arg.freq = OpFreq(s)
      /\ synth.arg.digit = OpDigit(s) /\ synth.arg.rx = s.rx
  BY <1>7, SynthFields
<1>2. ASSUME NEW u \in Views
      PROVE  /\ Show(u, synth) \in Views
             /\ Show(u, synth).rx = s.rx /\ Show(u, synth).digit = OpDigit(s)
             /\ Show(u, synth).freqA = IF s.rx = "A" THEN s.freqA ELSE u.freqA
             /\ Show(u, synth).freqB = IF s.rx = "B" THEN s.freqB ELSE u.freqB
  BY <1>1, ShowFields, OpFits
<1>3. CASE ch.field \in {"freqA", "freqB"}
  <2>1. PICK verb \in {"FA", "FB"} : verb = IF ch.field = "freqA" THEN "FA" ELSE "FB"
    BY <1>3
  <2>2. PICK a : a = Frame(verb, ch.new)
    OBVIOUS
  <2>3. ch.new \in Hz
    BY <1>3 DEF Moves, Untold, ModeFields
  <2>4. a \in Frames /\ a.verb = verb /\ a.arg = ch.new
    BY <2>2, <2>3, PlainFrames
  <2>5. PICK u : u = Show(v, a)
    OBVIOUS
  <2>6. /\ u \in Views /\ u.rx = v.rx /\ u.digit = v.digit
        /\ u.freqA = IF ch.field = "freqA" THEN ch.new ELSE v.freqA
        /\ u.freqB = IF ch.field = "freqB" THEN ch.new ELSE v.freqB
    BY <1>3, <2>1, <2>4, <2>5, ShowFields DEF Views
  <2>7. CASE Active(s, ch)
    <3>1. frames = <<a, synth>>
      <4>1. NotifyTs590(s, ch) =
              <<Frame(IF ch.field = "freqA" THEN "FA" ELSE "FB", ch.new)>> \o <<SynthIf(s, FALSE)>>
        BY <1>3, <2>7 DEF NotifyTs590, ModeFields
      <4>2. frames = <<a>> \o <<synth>>
        BY <1>0, <1>7, <2>1, <2>2, <4>1, Zenon
      <4> QED
        BY <1>1, <2>4, <4>2, Pairs, Zenon
    <3>2. w = Show(u, synth) /\ frames \in Seq(Frames)
      <4>1. w = Show(u, synth)
        BY <1>1, <2>4, <2>5, <3>1, ShowTwo
      <4>2. frames \in Seq(Frames)
        BY <1>1, <2>4, <2>5, <3>1, Few, Zenon
      <4> QED
        BY <4>1, <4>2
    <3> QED
      BY <1>2, <1>3, <2>6, <3>2, OpFits
  <2>8. CASE ~Active(s, ch)
    <3>1. frames = <<a>>
      <4>1. frames = <<a>> \o <<>>
        BY <1>0, <1>3, <2>1, <2>2, <2>8 DEF NotifyTs590, ModeFields
      <4> QED
        BY <2>4, <4>1, Pairs, Zenon
    <3>2. w = u /\ frames \in Seq(Frames)
      <4>1. w = u
        BY <2>4, <2>5, <3>1, ShowOne
      <4>2. frames \in Seq(Frames)
        BY <2>4, <2>5, <3>1, Few, Zenon
      <4> QED
        BY <4>1, <4>2
    <3> QED
      BY <1>3, <2>6, <3>2, OpFits DEF ModeFields
  <2> QED
    BY <2>7, <2>8
<1>4. CASE ch.field \in ModeFields /\ Active(s, ch)
  <2>1. PICK a : a = ModeFrame(ch)
    OBVIOUS
  <2>2. ch.new \in RadioModes
    BY <1>4 DEF Moves, Untold, ModeFields
  <2>3. ToDigit(ch.new) \in Digits
    BY <2>2 DEF Digits
  <2>4. a \in Frames /\ a.verb = "MD" /\ a.arg = ToDigit(ch.new)
    BY <2>1, <2>3, PlainFrames DEF ModeFrame
  <2>5. PICK u : u = Show(v, a)
    OBVIOUS
  <2>6. u \in Views /\ u.rx = v.rx /\ u.freqA = v.freqA /\ u.freqB = v.freqB
    BY <2>4, <2>5, ShowFields DEF Views
  <2>7. frames = <<a, synth>>
    BY <1>0, <1>4, <1>7, <2>1 DEF NotifyTs590, ModeFields
  <2>8. w = Show(u, synth) /\ frames \in Seq(Frames)
    <3>1. w = Show(u, synth)
      <4>1. ShowAll(v, <<a, synth>>) = Show(Show(v, a), synth)
        BY ShowTwo
      <4> QED
        BY <2>5, <2>7, <4>1, Zenon
    <3>2. frames \in Seq(Frames)
      BY <1>1, <2>4, <2>5, <2>7, Few, Zenon
    <3> QED
      BY <3>1, <3>2
  <2> QED
    BY <1>2, <1>4, <2>6, <2>8, OpFits DEF ModeFields
<1>5. CASE ch.field = "rx"
  <2>1. frames = <<synth>>
    BY <1>0, <1>5, <1>7 DEF NotifyTs590, ModeFields
  <2>2. w = Show(v, synth) /\ frames \in Seq(Frames)
    <3>1. w = Show(v, synth)
      BY <1>1, <2>1, ShowOne
    <3>2. frames \in Seq(Frames)
      BY <1>1, <2>1, Few, Zenon
    <3> QED
      BY <3>1, <3>2
  <2> QED
    BY <1>2, <1>5, <2>2, OpFits DEF ModeFields
<1>6. CASE ch.field \notin {"freqA", "freqB", "rx"} /\ ~(ch.field \in ModeFields /\ Active(s, ch))
  <2>1. frames = <<>>
    BY <1>0, <1>6 DEF NotifyTs590
  <2>2. w = v /\ frames \in Seq(Frames)
    <3>1. w = v
      BY <2>1, ShowNone
    <3>2. frames \in Seq(Frames)
      BY <2>1, Few, Zenon
    <3> QED
      BY <3>1, <3>2
  <2>3. ch.field # ModeOf(s.rx)
    BY <1>6, OpFits DEF Active
  <2> QED
    BY <1>6, <2>2, <2>3
<1> QED
  BY <1>3, <1>4, <1>5, <1>6
\* What a client of the operating VFO alone makes of a plain frequency, of a plain mode.
LEMMA ShowsPlain ==
  ASSUME NEW v \in Views
  PROVE  /\ \A hz \in Hz : LET u == Show(v, Frame("FA", hz))
                           IN u \in Views /\ u.freqA = hz /\ u.digit = v.digit
         /\ \A d \in Digits : LET u == Show(v, Frame("MD", d))
                              IN u \in Views /\ u.freqA = v.freqA /\ u.digit = d
<1>1. ASSUME NEW hz \in Hz
      PROVE  LET u == Show(v, Frame("FA", hz)) IN u \in Views /\ u.freqA = hz /\ u.digit = v.digit
  <2>1. PICK a \in Frames : a = Frame("FA", hz) /\ a.verb = "FA" /\ a.arg = hz
    BY PlainFrames
  <2>2. Show(v, a) \in Views /\ Show(v, a).freqA = hz /\ Show(v, a).digit = v.digit
    BY <2>1, ShowFields DEF Views
  <2> QED
    BY <2>1, <2>2
<1>2. ASSUME NEW d \in Digits
      PROVE  LET u == Show(v, Frame("MD", d)) IN u \in Views /\ u.freqA = v.freqA /\ u.digit = d
  <2>1. PICK a \in Frames : a = Frame("MD", d) /\ a.verb = "MD" /\ a.arg = d
    BY PlainFrames
  <2>2. Show(v, a) \in Views /\ Show(v, a).freqA = v.freqA /\ Show(v, a).digit = d
    BY <2>1, ShowFields DEF Views
  <2> QED
    BY <2>1, <2>2
<1> QED
  BY <1>1, <1>2

\* What it shows after a notification: the snapshot's operating VFO, where it is told of it,
\* and where it is told of something else what it showed.
LEMMA ShowsSingle ==
  ASSUME dialect \in {"single", "ts2000"}, NEW s, Fits(s), NEW ch, Moves(ch) \/ Untold(ch), NEW v \in Views,
         NEW frames, frames = Notification(dialect, s, ch), NEW w, w = ShowAll(v, frames)
  PROVE  /\ frames \in Seq(Frames) /\ w \in Views
         /\ (ch.field = FreqOf(s.rx) => ch.new = OpFreq(s)) /\ (ch.field \in {"rx", FreqOf(s.rx)} \/ v.freqA = OpFreq(s))
              => w.freqA = OpFreq(s)
         /\ (ch.field = ModeOf(s.rx) => ch.new = s[ModeOf(s.rx)]) /\ (ch.field \in {"rx", ModeOf(s.rx)} \/ v.digit = OpDigit(s))
              => w.digit = OpDigit(s)
<1>1. PICK synth : synth = SynthIf(s, dialect = "single")
  OBVIOUS
<1>2. synth \in Frames
  <2>1. (dialect = "single") \in BOOLEAN
    OBVIOUS
  <2> QED
    BY <1>1, <2>1, SynthFields
<1>3. ASSUME NEW u \in Views
      PROVE  /\ Show(u, synth) \in Views
             /\ u.freqA = OpFreq(s) => Show(u, synth).freqA = OpFreq(s)
             /\ u.digit = OpDigit(s) => Show(u, synth).digit = OpDigit(s)
             /\ dialect = "single" => Show(u, synth).freqA = OpFreq(s) /\ Show(u, synth).digit = OpDigit(s)
  <2>1. CASE dialect = "single"
    <3>1. synth.verb = "IF" /\ synth.arg.freq = OpFreq(s) /\ synth.arg.digit = OpDigit(s) /\ synth.arg.rx = "A"
      BY <1>1, <2>1, SynthFields
    <3> QED
      BY <1>2, <2>1, <3>1, ShowFields
  <2>2. CASE dialect = "ts2000"
    <3>1. synth.verb = "IF"
      BY <1>1, <2>2, SynthFields
    <3> QED
      BY <1>2, <2>2, <3>1, ShowFields
  <2> QED
    BY <2>1, <2>2
<1>4. CASE ch.field = "rx"
  <2>1. PICK a \in Frames, b \in Frames : a = Frame("FA", OpFreq(s)) /\ b = Frame("MD", OpDigit(s))
    BY OpFits, PlainFrames
  <2>2. Notification(dialect, s, ch) = Represent(s) \o <<synth>>
    <3>1. CASE dialect = "single"
      <4>1. Notification(dialect, s, ch) = Represent(s) \o <<SynthIf(s, TRUE)>>
        BY <1>4, <3>1 DEF Notification, NotifySingle, ModeFields
      <4> QED
        BY <1>1, <3>1, <4>1
    <3>2. CASE dialect = "ts2000"
      <4>1. Notification(dialect, s, ch) = Represent(s) \o <<SynthIf(s, FALSE)>>
        BY <1>4, <3>2 DEF Notification, NotifyTs2000, ModeFields
      <4> QED
        BY <1>1, <3>2, <4>1
    <3> QED
      BY <3>1, <3>2
  <2>3. Represent(s) = <<a, b>>
    BY <2>1 DEF Represent, OpFreq, OpDigit
  <2>4. frames = <<a, b, synth>>
    <3>1. <<a, b>> \o <<synth>> = <<a, b, synth>>
      BY <1>2, Pairs, Zenon
    <3> QED
      BY <2>2, <2>3, <3>1, Zenon
  <2>5. frames \in Seq(Frames)
    BY <1>2, <2>4, Few, Zenon
  <2>6. PICK u \in Views : u = Show(v, a) /\ u.freqA = OpFreq(s)
    BY <2>1, OpFits, ShowsPlain
  <2>7. PICK x \in Views : x = Show(u, b) /\ x.freqA = OpFreq(s) /\ x.digit = OpDigit(s)
    BY <2>1, <2>6, OpFits, ShowsPlain
  <2>8. w = Show(x, synth)
    <3>1. ShowAll(v, <<a, b, synth>>) = Show(Show(Show(v, a), b), synth)
      BY ShowThree
    <3> QED
      BY <2>4, <2>6, <2>7, <3>1, Zenon
  <2> QED
    BY <1>3, <2>5, <2>7, <2>8
<1>5. CASE ch.field \in {"freqA", "freqB"} /\ Active(s, ch)
  <2>1. ch.field = FreqOf(s.rx) /\ ch.field # ModeOf(s.rx) /\ ch.new \in Hz
    BY <1>5, OpFits DEF Active, Moves, Untold, ModeFields
  <2>2. PICK a \in Frames : a = Frame("FA", ch.new)
    BY <2>1, PlainFrames
  <2>3. PICK u \in Views : u = Show(v, a) /\ u.freqA = ch.new /\ u.digit = v.digit
    BY <2>1, <2>2, ShowsPlain
  <2>4. CASE dialect = "single"
    <3>1. Notification(dialect, s, ch) = <<Frame("FA", ch.new), SynthIf(s, TRUE)>>
      BY <1>5, <2>4 DEF Notification, NotifySingle, ModeFields
    <3>2. frames = <<a, synth>>
      BY <1>1, <2>2, <2>4, <3>1
    <3>3. frames \in Seq(Frames)
      BY <1>2, <3>2, Few, Zenon
    <3>4. w = Show(u, synth)
      <4>1. ShowAll(v, <<a, synth>>) = Show(Show(v, a), synth)
        BY ShowTwo
      <4> QED
        BY <2>3, <3>2, <4>1, Zenon
    <3> QED
      BY <1>3, <2>4, <3>3, <3>4
  <2>5. CASE dialect = "ts2000"
    <3>1. frames = <<a>>
      BY <1>5, <2>2, <2>5 DEF Notification, NotifyTs2000, ModeFields
    <3>2. frames \in Seq(Frames)
      BY <3>1, Few, Zenon
    <3>3. w = u
      <4>1. ShowAll(v, <<a>>) = Show(v, a)
        BY ShowOne
      <4> QED
        BY <2>3, <3>1, <4>1, Zenon
    <3> QED
      BY <1>5, <2>1, <2>3, <3>2, <3>3
  <2> QED
    BY <2>4, <2>5
<1>6. CASE ch.field \in ModeFields /\ Active(s, ch)
  <2>1. ch.field = ModeOf(s.rx) /\ ch.field # FreqOf(s.rx) /\ ch.field # "rx" /\ ch.new \in RadioModes
    BY <1>6, OpFits DEF Active, Moves, Untold, ModeFields
  <2>2. PICK d \in Digits : d = ToDigit(ch.new)
    BY <2>1 DEF Digits
  <2>3. PICK a \in Frames : a = Frame("MD", d)
    BY PlainFrames
  <2>4. PICK u \in Views : u = Show(v, a) /\ u.freqA = v.freqA /\ u.digit = d
    BY <2>3, ShowsPlain
  <2>5. ch.new = s[ModeOf(s.rx)] => d = OpDigit(s)
    BY <2>2 DEF OpDigit
  <2>6. CASE dialect = "single"
    <3>1. Notification(dialect, s, ch) = <<ModeFrame(ch), SynthIf(s, TRUE)>>
      BY <1>6, <2>6 DEF Notification, NotifySingle, ModeFields
    <3>2. frames = <<a, synth>>
      BY <1>1, <2>2, <2>3, <2>6, <3>1 DEF ModeFrame
    <3>3. frames \in Seq(Frames)
      BY <1>2, <3>2, Few, Zenon
    <3>4. w = Show(u, synth)
      <4>1. ShowAll(v, <<a, synth>>) = Show(Show(v, a), synth)
        BY ShowTwo
      <4> QED
        BY <2>4, <3>2, <4>1, Zenon
    <3> QED
      BY <1>3, <2>6, <3>3, <3>4
  <2>7. CASE dialect = "ts2000"
    <3>1. frames = <<a>>
      BY <1>6, <2>2, <2>3, <2>7 DEF Notification, NotifyTs2000, ModeFields, ModeFrame
    <3>2. frames \in Seq(Frames)
      BY <3>1, Few, Zenon
    <3>3. w = u
      <4>1. ShowAll(v, <<a>>) = Show(v, a)
        BY ShowOne
      <4> QED
        BY <2>4, <3>1, <4>1, Zenon
    <3> QED
      BY <2>1, <2>4, <2>5, <3>2, <3>3
  <2> QED
    BY <2>6, <2>7
<1>7. CASE ch.field # "rx" /\ ~(ch.field \in {"freqA", "freqB"} /\ Active(s, ch)) /\ ~(ch.field \in ModeFields /\ Active(s, ch))
  <2>1. frames = <<>>
    <3>1. CASE dialect = "single"
      BY <1>7, <3>1 DEF Notification, NotifySingle
    <3>2. CASE dialect = "ts2000"
      BY <1>7, <3>2 DEF Notification, NotifyTs2000
    <3> QED
      BY <3>1, <3>2
  <2>2. frames \in Seq(Frames)
    BY <2>1, Few, Zenon
  <2>3. w = v
    BY <2>1, ShowNone
  <2>4. ch.field # ModeOf(s.rx) /\ ch.field # FreqOf(s.rx)
    BY <1>7, OpFits DEF Active, ModeFields
  <2> QED
    BY <1>7, <2>2, <2>3, <2>4
<1> QED
  BY <1>4, <1>5, <1>6, <1>7
\* The changes a resync replays: of each field, what the snapshot has.
LEMMA AsChangesAre ==
  ASSUME NEW s
  PROVE  /\ Len(AsChanges(s)) = 12
         /\ \A k \in 1 .. 12 : AsChanges(s)[k].new = s[AsChanges(s)[k].field]
         /\ AsChanges(s)[1].field = "freqA" /\ AsChanges(s)[2].field = "freqB"
         /\ AsChanges(s)[3].field = "modeA" /\ AsChanges(s)[4].field = "modeB"
         /\ \A k \in 5 .. 11 : Untold(AsChanges(s)[k])
         /\ AsChanges(s)[12].field = "rx"
<1> DEFINE fields == <<"freqA", "freqB", "modeA", "modeB", "dataA", "dataB",
                       "split", "rit", "xit", "ptt", "power", "rx">>
           changes == [i \in 1 .. 12 |-> Change(fields[i], s[fields[i]])]
<1>1. DOMAIN fields = 1 .. 12
  OBVIOUS
<1>2. AsChanges(s) = changes
  BY <1>1 DEF AsChanges
<1>3. \A k \in 1 .. 12 : changes[k].field = fields[k] /\ changes[k].new = s[fields[k]]
  BY DEF Change
<1>4. /\ fields[1] = "freqA" /\ fields[2] = "freqB" /\ fields[3] = "modeA" /\ fields[4] = "modeB"
      /\ fields[5] = "dataA" /\ fields[6] = "dataB" /\ fields[7] = "split" /\ fields[8] = "rit"
      /\ fields[9] = "xit" /\ fields[10] = "ptt" /\ fields[11] = "power" /\ fields[12] = "rx"
  OBVIOUS
<1>5. Len(changes) = 12
  OBVIOUS
<1> HIDE DEF fields, changes
<1>6. \A k \in 5 .. 11 : Untold(changes[k])
  <2>1. \A k \in 5 .. 11 : k \in {5, 6, 7, 8, 9, 10, 11}
    OBVIOUS
  <2>2. \A k \in {5, 6, 7, 8, 9, 10, 11} : changes[k].field \notin {"freqA", "freqB", "modeA", "modeB", "rx"}
    BY <1>3, <1>4
  <2> QED
    BY <2>1, <2>2 DEF Untold
<1> QED
  BY <1>2, <1>3, <1>4, <1>5, <1>6

\* What a resync has told after the first n of them, as the function says that computes it.
Replayed(d, s, n, g) ==
  /\ DOMAIN g = 0 .. n /\ g[0] = <<>>
  /\ \A i \in 1 .. n : g[i] = g[i - 1] \o Notification(d, s, AsChanges(s)[i])

\* The frames of a presentation, as they are put together.
LEMMA ReplayedExists ==
  ASSUME NEW d, NEW s, NEW n \in Nat
  PROVE  \E g : Replayed(d, s, n, g)
<1> DEFINE Bad == {k \in Nat : ~\E g : Replayed(d, s, k, g)}
<1> SUFFICES ASSUME Bad # {} PROVE FALSE
  OBVIOUS
<1>1. PICK m \in Bad : \A k \in Bad : m <= k
  BY Least
<1>2. CASE m = 0
  <2>1. Replayed(d, s, 0, [i \in 0 .. 0 |-> <<>>])
    BY DEF Replayed
  <2> QED
    BY <1>1, <1>2, <2>1
<1>3. CASE m > 0
  <2>1. m - 1 \in Nat /\ m - 1 \notin Bad
    BY <1>1, <1>3
  <2>2. PICK g : Replayed(d, s, m - 1, g)
    BY <2>1
  <2> DEFINE h == [i \in 0 .. m |-> IF i = m THEN g[m - 1] \o Notification(d, s, AsChanges(s)[m]) ELSE g[i]]
  <2>3. \A i \in 0 .. m - 1 : h[i] = g[i]
    BY <1>3
  <2>4. Replayed(d, s, m, h)
    <3>1. DOMAIN h = 0 .. m /\ h[0] = <<>>
      BY <1>3, <2>2, <2>3 DEF Replayed
    <3>2. \A i \in 1 .. m - 1 : h[i] = h[i - 1] \o Notification(d, s, AsChanges(s)[i])
      <4>1. \A i \in 1 .. m - 1 : g[i] = g[i - 1] \o Notification(d, s, AsChanges(s)[i])
        BY <2>2 DEF Replayed
      <4>2. \A i \in 1 .. m - 1 : i \in 0 .. m - 1 /\ i - 1 \in 0 .. m - 1
        OBVIOUS
      <4> HIDE DEF h
      <4> QED
        BY <2>3, <4>1, <4>2
    <3>3. h[m] = h[m - 1] \o Notification(d, s, AsChanges(s)[m])
      <4>1. h[m - 1] = g[m - 1]
        BY <1>3, <2>3
      <4>2. h[m] = g[m - 1] \o Notification(d, s, AsChanges(s)[m])
        <5>1. m \in 0 .. m
          BY <1>3
        <5> QED
          BY <5>1, Zenon
      <4> HIDE DEF h
      <4> QED
        BY <4>1, <4>2
    <3> HIDE DEF h
    <3>4. \A i \in 1 .. m : i \in 1 .. m - 1 \/ i = m
      BY <1>3
    <3>5. \A i \in 1 .. m : h[i] = h[i - 1] \o Notification(d, s, AsChanges(s)[i])
      BY <3>2, <3>3, <3>4
    <3> QED
      BY <3>1, <3>5 DEF Replayed
  <2> QED
    BY <1>1, <2>4
<1> QED
  BY <1>1, <1>2, <1>3

\* A presentation is all twelve fields, replayed as changes.
LEMMA ResyncReplays ==
  ASSUME NEW d, d # "transparent", NEW s
  PROVE  \E g : Replayed(d, s, 12, g) /\ Resync(d, s) = g[12]
<1> DEFINE told == CHOOSE f : f = [i \in 0 .. Len(AsChanges(s)) |->
                     IF i = 0 THEN <<>> ELSE f[i - 1] \o Notification(d, s, AsChanges(s)[i])]
<1>0. PICK n \in Nat : n = Len(AsChanges(s)) /\ n = 12
  BY AsChangesAre
<1>1. PICK g : Replayed(d, s, n, g)
  BY ReplayedExists
<1> DEFINE h == [i \in 0 .. n |-> g[i]]
<1>2. h = [i \in 0 .. n |-> IF i = 0 THEN <<>> ELSE h[i - 1] \o Notification(d, s, AsChanges(s)[i])]
  <2>1. \A i \in 0 .. n : g[i] = IF i = 0 THEN <<>> ELSE g[i - 1] \o Notification(d, s, AsChanges(s)[i])
    <3>1. \A i \in 0 .. n : i = 0 \/ i \in 1 .. n
      OBVIOUS
    <3> QED
      BY <1>1, <3>1, Zenon DEF Replayed
  <2>2. \A i \in 0 .. n : i # 0 => h[i - 1] = g[i - 1]
    OBVIOUS
  <2>3. \A i \in 0 .. n : g[i] = IF i = 0 THEN <<>> ELSE h[i - 1] \o Notification(d, s, AsChanges(s)[i])
    <3> HIDE DEF h
    <3> QED
      BY <2>1, <2>2
  <2> QED
    BY <2>3
<1>3. told = [i \in 0 .. n |-> IF i = 0 THEN <<>> ELSE told[i - 1] \o Notification(d, s, AsChanges(s)[i])]
  <2> HIDE DEF h
  <2> QED
    BY <1>0, <1>2, ZenonT(60)
<1>4. Resync(d, s) = told[n]
  BY <1>0 DEF Resync
<1> HIDE DEF told
<1>5. Replayed(d, s, n, told)
  <2>1. DOMAIN told = 0 .. n
    BY <1>3
  <2>2. told[0] = <<>>
    BY <1>3
  <2>3. ASSUME NEW i \in 1 .. n PROVE told[i] = told[i - 1] \o Notification(d, s, AsChanges(s)[i])
    <3>1. i \in 0 .. n /\ i # 0
      OBVIOUS
    <3> QED
      BY <1>3, <3>1
  <2> QED
    BY <2>1, <2>2, <2>3 DEF Replayed
<1> QED
  BY <1>0, <1>4, <1>5

\* What a client shows that was told the first k of the changes.
ShownTs590(s, k, w) ==
  /\ k >= 1 => w.freqA = s.freqA
  /\ k >= 2 => w.freqB = s.freqB
  /\ k >= 12 => w.rx = s.rx /\ w.digit = OpDigit(s)
ShownSingle(s, k, w) == k >= 12 => w.freqA = OpFreq(s) /\ w.digit = OpDigit(s)
Shown(s, k, w) ==
  /\ dialect = "ts590" => ShownTs590(s, k, w)
  /\ dialect \in {"single", "ts2000"} => ShownSingle(s, k, w)

\* A client that is told of the snapshot anew shows it.
LEMMA ResyncShows ==
  ASSUME dialect \in Dialects, dialect # "transparent", NEW s, Fits(s), NEW v \in Views
  PROVE  LET w == ShowAll(v, Resync(dialect, s)) IN w \in Views /\ Shown(s, 12, w)
<1>1. PICK g : Replayed(dialect, s, 12, g) /\ Resync(dialect, s) = g[12]
  BY ResyncReplays
<1> DEFINE P(k) == g[k] \in Seq(Frames) /\ ShowAll(v, g[k]) \in Views /\ Shown(s, k, ShowAll(v, g[k]))
           Bad == {k \in 0 .. 12 : ~P(k)}
<1>2. P(0)
  <2>1. g[0] = <<>>
    BY <1>1 DEF Replayed
  <2>2. g[0] \in Seq(Frames)
    BY <2>1
  <2>3. ShowAll(v, g[0]) = v
    BY <2>1, ShowNone
  <2>4. Shown(s, 0, v)
    BY DEF Shown, ShownTs590, ShownSingle
  <2> QED
    BY <2>2, <2>3, <2>4
<1>3. ASSUME NEW k \in 1 .. 12, P(k - 1) PROVE P(k)
  <2>1. PICK ch : ch = AsChanges(s)[k]
    OBVIOUS
  <2>2. /\ ch.new = s[ch.field] /\ (Moves(ch) \/ Untold(ch))
        /\ k = 1 => ch.field = "freqA"
        /\ k = 2 => ch.field = "freqB"
        /\ k = 12 => ch.field = "rx"
    <3>1. ch.new = s[ch.field]
      BY <2>1, AsChangesAre
    <3>2. k \in {1, 2, 3, 4} \/ k \in 5 .. 11 \/ k = 12
      OBVIOUS
    <3>3. CASE k \in {1, 2, 3, 4}
      BY <2>1, <3>1, <3>3, AsChangesAre DEF Moves, Fits, ModeFields
    <3>4. CASE k \in 5 .. 11
      BY <2>1, <3>1, <3>4, AsChangesAre
    <3>5. CASE k = 12
      BY <2>1, <3>1, <3>5, AsChangesAre DEF Moves, Fits
    <3> QED
      BY <3>2, <3>3, <3>4, <3>5
  <2>3. PICK frames : frames = Notification(dialect, s, ch)
    OBVIOUS
  <2>4. PICK old \in Seq(Frames) : old = g[k - 1]
    BY <1>3
  <2>5. PICK u \in Views : u = ShowAll(v, old)
    BY <1>3, <2>4
  <2>6. PICK w : w = ShowAll(u, frames)
    OBVIOUS
  <2>7. Shown(s, k - 1, u)
    BY <1>3, <2>4, <2>5
  <2>8. g[k] = old \o frames
    BY <1>1, <2>1, <2>3, <2>4 DEF Replayed
  <2>9. frames \in Seq(Frames) /\ w \in Views /\ Shown(s, k, w)
    <3>1. CASE dialect = "ts590"
      <4>1. /\ frames \in Seq(Frames) /\ w \in Views
            /\ \A f \in {"rx", "freqA", "freqB"} :
                 (ch.field = f => ch.new = s[f]) /\ (ch.field = f \/ u[f] = s[f]) => w[f] = s[f]
            /\ ch.field \in {"rx", ModeOf(s.rx)} \/ u.digit = OpDigit(s) => w.digit = OpDigit(s)
        BY <2>2, <2>3, <2>6, <3>1, ShowsTs590
      <4>2. \A f \in {"rx", "freqA", "freqB"} : ch.field = f \/ u[f] = s[f] => w[f] = s[f]
        BY <2>2, <4>1
      <4>3. /\ ch.field = "freqA" \/ u.freqA = s.freqA => w.freqA = s.freqA
            /\ ch.field = "freqB" \/ u.freqB = s.freqB => w.freqB = s.freqB
            /\ ch.field = "rx" \/ u.rx = s.rx => w.rx = s.rx
        BY <4>2
      <4>4. ShownTs590(s, k - 1, u)
        BY <2>7, <3>1 DEF Shown
      <4>5. ShownTs590(s, k, w)
        BY <2>2, <4>1, <4>3, <4>4 DEF ShownTs590
      <4> QED
        BY <3>1, <4>1, <4>5 DEF Shown
    <3>2. CASE dialect \in {"single", "ts2000"}
      <4>1. /\ frames \in Seq(Frames) /\ w \in Views
            /\ ch.field = "rx" => w.freqA = OpFreq(s) /\ w.digit = OpDigit(s)
        BY <2>2, <2>3, <2>6, <3>2, ShowsSingle, OpFits DEF ModeFields
      <4>2. ShownSingle(s, k, w)
        BY <2>2, <4>1 DEF ShownSingle
      <4> QED
        BY <3>2, <4>1, <4>2 DEF Shown
    <3> QED
      BY <3>1, <3>2 DEF Dialects
  <2>10. ShowAll(v, old \o frames) = w
    BY <2>5, <2>6, <2>9, ShowConcat
  <2>11. old \o frames \in Seq(Frames)
    BY <2>9
  <2> QED
    BY <2>8, <2>9, <2>10, <2>11
<1>4. P(12)
  <2>1. SUFFICES ASSUME Bad # {} PROVE FALSE
    <3> HIDE DEF P
    <3>1. CASE Bad = {}
      BY <3>1
    <3> QED
      BY <2>1, <3>1
  <2>2. PICK m \in Bad : \A k \in Bad : m <= k
    <3>1. Bad \subseteq Nat
      OBVIOUS
    <3> HIDE DEF Bad
    <3> QED
      BY <2>1, <3>1, Least
  <2> HIDE DEF P
  <2>3. m # 0
    BY <1>2, <2>2
  <2>4. m \in 1 .. 12 /\ m - 1 \in 0 .. 12
    BY <2>2, <2>3
  <2>5. m - 1 \notin Bad
    BY <2>2, <2>4
  <2>6. P(m - 1)
    BY <2>4, <2>5
  <2> QED
    BY <1>3, <2>2, <2>4, <2>6
<1> QED
  BY <1>1, <1>4
\* One frame, by its verb.
LEMMA ShowFA ==
  ASSUME NEW v \in Views, NEW a \in Frames, a.verb = "FA"
  PROVE  \E u \in Views : u = Show(v, a) /\ u.rx = v.rx /\ u.freqA = a.arg /\ u.freqB = v.freqB
<1>1. PICK u \in Views : u = Show(v, a) /\ u = [v EXCEPT !.freqA = a.arg]
  BY ShowFields
<1>2. u.rx = v.rx /\ u.freqA = a.arg /\ u.freqB = v.freqB
  BY <1>1 DEF Views
<1> QED
  BY <1>1, <1>2

\* FB.
LEMMA ShowFB ==
  ASSUME NEW v \in Views, NEW a \in Frames, a.verb = "FB"
  PROVE  \E u \in Views : u = Show(v, a) /\ u.rx = v.rx /\ u.freqA = v.freqA /\ u.freqB = a.arg
<1>1. PICK u \in Views : u = Show(v, a) /\ u = [v EXCEPT !.freqB = a.arg]
  BY ShowFields
<1>2. u.rx = v.rx /\ u.freqA = v.freqA /\ u.freqB = a.arg
  BY <1>1 DEF Views
<1> QED
  BY <1>1, <1>2

\* FR.
LEMMA ShowFR ==
  ASSUME NEW v \in Views, NEW a \in Frames, a.verb = "FR"
  PROVE  \E u \in Views : u = Show(v, a) /\ u.rx = a.arg /\ u.freqA = v.freqA /\ u.freqB = v.freqB
<1>1. PICK u \in Views : u = Show(v, a) /\ u = [v EXCEPT !.rx = a.arg]
  BY ShowFields
<1>2. u.rx = a.arg /\ u.freqA = v.freqA /\ u.freqB = v.freqB
  BY <1>1 DEF Views
<1> QED
  BY <1>1, <1>2

\* MD.
LEMMA ShowMD ==
  ASSUME NEW v \in Views, NEW a \in Frames, a.verb = "MD"
  PROVE  \E u \in Views : u = Show(v, a) /\ u.rx = v.rx /\ u.freqA = v.freqA /\ u.freqB = v.freqB
<1>1. PICK u \in Views : u = Show(v, a) /\ u = [v EXCEPT !.digit = a.arg]
  BY ShowFields
<1>2. u.rx = v.rx /\ u.freqA = v.freqA /\ u.freqB = v.freqB
  BY <1>1 DEF Views
<1> QED
  BY <1>1, <1>2

\* FT, which shows nothing.
LEMMA ShowFT ==
  ASSUME NEW v \in Views, NEW a \in Frames, a.verb = "FT"
  PROVE  Show(v, a) = v
BY ShowFields

\* The status frame.
LEMMA ShowIF ==
  ASSUME dialect # "ts2000", NEW v \in Views, NEW a \in Frames, a.verb = "IF"
  PROVE  \E u \in Views : /\ u = Show(v, a) /\ u.rx = a.arg.rx /\ u.digit = a.arg.digit
                          /\ u.freqA = v.freqA \/ (a.arg.rx = "A" /\ u.freqA = a.arg.freq)
                          /\ u.freqB = v.freqB \/ (a.arg.rx = "B" /\ u.freqB = a.arg.freq)
BY ShowFields

\* So does one that is presented the radio's own settings.
LEMMA ResyncShowsNative ==
  ASSUME dialect = "transparent", NEW s, Fits(s), NEW v \in Views
  PROVE  LET w == ShowAll(v, Resync(dialect, s))
         IN w \in Views /\ w.rx = s.rx /\ w.freqA = s.freqA /\ w.freqB = s.freqB
<1>1. PICK f1 \in Frames : f1 = Frame("FA", s.freqA) /\ f1.verb = "FA" /\ f1.arg = s.freqA
  BY PlainFrames DEF Fits
<1>2. PICK f2 \in Frames : f2 = Frame("FB", s.freqB) /\ f2.verb = "FB" /\ f2.arg = s.freqB
  BY PlainFrames DEF Fits
<1>3. PICK f3 \in Frames : f3 = Frame("FR", s.rx) /\ f3.verb = "FR" /\ f3.arg = s.rx
  BY PlainFrames DEF Fits
<1>4. PICK f4 \in Frames : f4 = Frame("FT", s.split[2]) /\ f4.verb = "FT"
  <2>1. s.split[2] \in Vfo
    BY DEF Fits, Vfo
  <2> QED
    BY <2>1, PlainFrames
<1>17. PICK f5 \in Frames : f5 = Frame("MD", OpDigit(s)) /\ f5.verb = "MD"
  BY PlainFrames, OpFits
<1>18. PICK f6 \in Frames : f6 = SynthIf(s, FALSE) /\ f6.verb = "IF" /\ f6.arg.freq = OpFreq(s) /\ f6.arg.rx = s.rx
  BY SynthFields
<1>19. Resync(dialect, s) = <<f1, f2, f3, f4, f5, f6>>
  BY <1>1, <1>2, <1>3, <1>4, <1>17, <1>18 DEF Resync, OpDigit
<1>5. PICK u1 \in Views : u1 = Show(v, f1) /\ u1.freqA = s.freqA
  <2>1. PICK u \in Views : u = Show(v, f1) /\ u.rx = v.rx /\ u.freqA = f1.arg /\ u.freqB = v.freqB
    BY <1>1, ShowFA
  <2> QED
    BY <1>1, <2>1
<1>6. PICK u2 \in Views : u2 = Show(u1, f2) /\ u2.freqA = s.freqA /\ u2.freqB = s.freqB
  <2>1. PICK u \in Views : u = Show(u1, f2) /\ u.rx = u1.rx /\ u.freqA = u1.freqA /\ u.freqB = f2.arg
    BY <1>2, ShowFB
  <2> QED
    BY <1>2, <1>5, <2>1
<1>7. PICK u3 \in Views : u3 = Show(u2, f3) /\ u3.freqA = s.freqA /\ u3.freqB = s.freqB /\ u3.rx = s.rx
  <2>1. PICK u \in Views : u = Show(u2, f3) /\ u.rx = f3.arg /\ u.freqA = u2.freqA /\ u.freqB = u2.freqB
    BY <1>3, ShowFR
  <2> QED
    BY <1>3, <1>6, <2>1
<1>8. u3 = Show(u3, f4)
  BY <1>4, ShowFT
<1>9. PICK u5 \in Views : u5 = Show(u3, f5) /\ u5.freqA = s.freqA /\ u5.freqB = s.freqB /\ u5.rx = s.rx
  <2>1. PICK u \in Views : u = Show(u3, f5) /\ u.rx = u3.rx /\ u.freqA = u3.freqA /\ u.freqB = u3.freqB
    BY <1>17, ShowMD
  <2> QED
    BY <1>17, <1>7, <2>1
<1>10. PICK u6 \in Views : u6 = Show(u5, f6) /\ u6.freqA = s.freqA /\ u6.freqB = s.freqB /\ u6.rx = s.rx
  <2>1. f6.verb = "IF" /\ dialect # "ts2000"
    BY <1>18
  <2>2. PICK u \in Views : /\ u = Show(u5, f6) /\ u.rx = f6.arg.rx /\ u.digit = f6.arg.digit
                           /\ u.freqA = u5.freqA \/ (f6.arg.rx = "A" /\ u.freqA = f6.arg.freq)
                           /\ u.freqB = u5.freqB \/ (f6.arg.rx = "B" /\ u.freqB = f6.arg.freq)
    BY <2>1, ShowIF, Zenon
  <2> QED
    BY <1>9, <1>18, <2>2, OpFits, ZenonT(60)
<1>11. ShowAll(v, <<f1, f2, f3>>) = u3
  <2>1. ShowAll(v, <<f1, f2, f3>>) = Show(Show(Show(v, f1), f2), f3)
    BY ShowThree
  <2> QED
    BY <1>5, <1>6, <1>7, <2>1, Zenon
<1>12. ShowAll(u3, <<f4, f5, f6>>) = u6
  <2>1. ShowAll(u3, <<f4, f5, f6>>) = Show(Show(Show(u3, f4), f5), f6)
    BY ShowThree
  <2> QED
    BY <1>8, <1>9, <1>10, <2>1, Zenon
<1>13. PICK s1 \in Seq(Frames), s2 \in Seq(Frames) : s1 = <<f1, f2, f3>> /\ s2 = <<f4, f5, f6>>
  <2>1. <<f1, f2, f3>> \in Seq(Frames) /\ <<f4, f5, f6>> \in Seq(Frames)
    BY Few
  <2> QED
    BY <2>1
<1>14. s1 \o s2 = <<f1, f2, f3, f4, f5, f6>>
  <2>1. <<f1, f2, f3, f4, f5, f6>> \in Seq(Frames)
    OBVIOUS
  <2>2. PICK t \in Seq(Frames) : t = <<f1, f2, f3, f4, f5, f6>>
    BY <2>1
  <2>3. /\ Len(t) = 6 /\ t[1] = f1 /\ t[2] = f2 /\ t[3] = f3 /\ t[4] = f4 /\ t[5] = f5 /\ t[6] = f6
    BY <2>2
  <2>4. /\ Len(s1) = 3 /\ s1[1] = f1 /\ s1[2] = f2 /\ s1[3] = f3
        /\ Len(s2) = 3 /\ s2[1] = f4 /\ s2[2] = f5 /\ s2[3] = f6
    BY <1>13
  <2>5. /\ s1 \o s2 \in Seq(Frames) /\ Len(s1 \o s2) = Len(s1) + Len(s2)
        /\ \A i \in 1 .. Len(s1) + Len(s2) : (s1 \o s2)[i] = IF i <= Len(s1) THEN s1[i] ELSE s2[i - Len(s1)]
    BY ConcatProperties
  <2>6. /\ Len(s1 \o s2) = 6
        /\ (s1 \o s2)[1] = s1[1] /\ (s1 \o s2)[2] = s1[2] /\ (s1 \o s2)[3] = s1[3]
        /\ (s1 \o s2)[4] = s2[1] /\ (s1 \o s2)[5] = s2[2] /\ (s1 \o s2)[6] = s2[3]
    BY <2>4, <2>5
  <2>7. \A i \in 1 .. 6 : (s1 \o s2)[i] = t[i]
    <3>1. \A i \in 1 .. 6 : i \in {1, 2, 3, 4, 5, 6}
      OBVIOUS
    <3> QED
      BY <2>3, <2>4, <2>6, <3>1
  <2>8. s1 \o s2 = t
    BY <2>3, <2>5, <2>6, <2>7, SeqEqual
  <2> QED
    BY <2>2, <2>8
<1>15. ShowAll(v, s1 \o s2) = u6
  <2>1. ShowAll(v, s1 \o s2) = ShowAll(ShowAll(v, s1), s2)
    BY ShowConcat
  <2> QED
    BY <1>11, <1>12, <1>13, <2>1, Zenon
<1>16. ShowAll(v, Resync(dialect, s)) = u6
  BY <1>14, <1>15, <1>19, Zenon
<1> QED
  BY <1>10, <1>16

\* A change recorded: of the field it is about only, and of what is known of a mode.
LEMMA ApplyFields ==
  ASSUME NEW s, Fits(s), NEW ch, Moves(ch) \/ (ch.field = "ptt" /\ ch.new \in BOOLEAN)
  PROVE  LET new == ApplyChange(s, ch)
         IN /\ Fits(new) /\ new[ch.field] = ch.new
            /\ \A f \in {"rx", "freqA", "freqB", "modeA", "modeB"} : f # ch.field => new[f] = s[f]
<1> DEFINE five == {"rx", "freqA", "freqB", "modeA", "modeB"}
<1>1. DOMAIN s = {"freqA", "freqB", "modeA", "modeB", "knownA", "knownB", "dataA", "dataB",
                  "split", "rit", "xit", "ptt", "power", "rx"}
  BY DEF Fits, DefaultSnapshot
<1>2. PICK x : x = [s EXCEPT ![ch.field] = ch.new]
  OBVIOUS
<1>3. ch.field \in five \cup {"ptt"}
  BY DEF Moves, ModeFields
<1>4. /\ DOMAIN x = DOMAIN s /\ x[ch.field] = ch.new
      /\ \A f \in DOMAIN s : f # ch.field => x[f] = s[f]
  BY <1>1, <1>2, <1>3
<1>5. Fits(x)
  <2>1. x.split = s.split
    BY <1>1, <1>3, <1>4
  <2>2. x.rx \in Vfo /\ x.freqA \in Hz /\ x.freqB \in Hz /\ x.modeA \in RadioModes /\ x.modeB \in RadioModes
    BY <1>1, <1>4 DEF Fits, Moves, ModeFields
  <2>3. x.ptt \in BOOLEAN
    BY <1>1, <1>4 DEF Fits, Moves, ModeFields
  <2> QED
    BY <1>4, <2>1, <2>2, <2>3 DEF Fits
<1>6. PICK k \in {"knownA", "knownB"} : k = IF ch.field = "modeA" THEN "knownA" ELSE "knownB"
  OBVIOUS
<1>7. PICK y : y = [x EXCEPT ![k] = TRUE]
  OBVIOUS
<1>8. DOMAIN y = DOMAIN x /\ \A f \in DOMAIN x : f \notin {"knownA", "knownB"} => y[f] = x[f]
  BY <1>7
<1>9. Fits(y)
  <2>1. /\ y.rx = x.rx /\ y.freqA = x.freqA /\ y.freqB = x.freqB /\ y.modeA = x.modeA /\ y.modeB = x.modeB
        /\ y.split = x.split
    BY <1>1, <1>4, <1>8
  <2>2. y["ptt"] = x["ptt"]
    BY <1>1, <1>4, <1>8
  <2> QED
    BY <1>5, <1>8, <2>1, <2>2 DEF Fits
<1>10. ApplyChange(s, ch) = IF ch.field \in ModeFields THEN y ELSE x
  BY <1>2, <1>6, <1>7 DEF ApplyChange
<1>11. ch.field \notin {"knownA", "knownB"}
  BY <1>3
<1>12. /\ y[ch.field] = ch.new
       /\ \A f \in five : f # ch.field => y[f] = s[f]
  BY <1>1, <1>3, <1>4, <1>8, <1>11
<1> QED
  BY <1>1, <1>4, <1>5, <1>9, <1>10, <1>12
------------------------------------------------------------------------------

\* The changes that come about, the frames the radio pushes, the events made of either.
Changed ==
  [field : {"freqA", "freqB"}, new : Hz] \cup [field : ModeFields, new : RadioModes]
    \cup [field : {"rx"}, new : Vfo] \cup [field : {"ptt"}, new : BOOLEAN]
Unmodelled == [verb : {"NB"}, arg : {1}]
Modelled ==
  [verb : {"FA", "FB"}, arg : Hz] \cup [verb : {"FR"}, arg : Vfo] \cup [verb : {"MD"}, arg : Digits]
EventSet ==
  [kind : {"change"}, ch : Changed, frame : {Nothing}]
    \cup [kind : {"raw"}, ch : {Nothing}, frame : Unmodelled]
    \cup [kind : {"native"}, ch : {Nothing}, frame : Modelled]

OpTyped == op # Nothing => op.kind \in {"apply", "forward", "done"} /\ (op.kind = "apply" => op.mut \in Changed)
SessionTyped ==
  /\ dialect \in Dialects /\ perms \subseteq Tokens
  /\ ai \in BOOLEAN /\ lagged \in BOOLEAN /\ missed \in BOOLEAN /\ astray \in BOOLEAN
  /\ OpTyped
  /\ Fits(snap)
  /\ view \in Views
  /\ ring \in Seq(EventSet) /\ Len(ring) <= RingCap
  /\ carry \in [Recorders -> Seq(EventSet)]

\* A recorder sends its change first, and is in the order of the changes until it did;
\* the worker has nothing else to send.
Made(t) == carry[t] # <<>> /\ carry[t][1].kind = "change"
InOrder ==
  \/ order = <<>> /\ \A t \in Recorders : ~Made(t)
  \/ \E t \in Recorders : order = <<t>> /\ Made(t) /\ \A u \in Recorders : Made(u) => u = t
  \/ \E t, u \in Recorders : t # u /\ order = <<t, u>> /\ Made(t) /\ Made(u)
ChangeFirst ==
  /\ \A t \in Recorders : \A i \in 1 .. Len(carry[t]) : carry[t][i].kind = "change" => i = 1
  /\ \A i \in 1 .. Len(carry["worker"]) : carry["worker"][i].kind = "change"

\* What a change is about, and its new value.
LEMMA ChangedFields ==
  ASSUME NEW ch \in Changed
  PROVE  /\ ch # Nothing \/ ch.field = "ptt"
         /\ Moves(ch) \/ (ch.field = "ptt" /\ ch.new \in BOOLEAN /\ Untold(ch))
         /\ ch = Change(ch.field, ch.new)
<1>1. ch = Change(ch.field, ch.new)
  BY DEF Changed, Change
<1>2. CASE ch \in [field : {"freqA", "freqB"}, new : Hz]
  <2>1. PICK f \in {"freqA", "freqB"}, hz \in Hz : ch.field = f /\ ch.new = hz
    BY <1>2
  <2>2. \A g \in {"freqA", "freqB"}, n \in Hz : Nothing # Change(g, n)
    BY CatAssumption
  <2>3. ch # Nothing
    BY <1>1, <2>1, <2>2
  <2> QED
    BY <1>1, <2>1, <2>3 DEF Moves
<1>3. CASE ch \in [field : ModeFields, new : RadioModes]
  BY <1>1, <1>3, CatAssumption DEF Moves
<1>4. CASE ch \in [field : {"rx"}, new : Vfo]
  BY <1>1, <1>4, CatAssumption DEF Moves
<1>5. CASE ch \in [field : {"ptt"}, new : BOOLEAN]
  BY <1>1, <1>5 DEF Untold
<1> QED
  BY <1>1, <1>2, <1>3, <1>4, <1>5 DEF Changed

\* What an event carries, by its kind.
LEMMA EventFields ==
  ASSUME NEW e \in EventSet
  PROVE  /\ e.kind \in {"change", "raw", "native"}
         /\ e.kind = "change" => e.ch \in Changed
         /\ e.kind = "raw" => e.frame \in Unmodelled
         /\ e.kind = "native" => e.frame \in Modelled
BY DEF EventSet

\* Changes that are in range.
LEMMA Changing ==
  /\ \A f \in {"freqA", "freqB"}, hz \in Hz :
       Change(f, hz) \in Changed /\ Change(f, hz).field = f /\ Change(f, hz).new = hz
  /\ \A f \in ModeFields, m \in RadioModes :
       Change(f, m) \in Changed /\ Change(f, m).field = f /\ Change(f, m).new = m
  /\ \A w \in Vfo : Change("rx", w) \in Changed /\ Change("rx", w).field = "rx" /\ Change("rx", w).new = w
BY DEF Changed, Change

\* What the backend makes of a frame the radio pushes: the one change that it is about.
LEMMA ObservedChange ==
  ASSUME NEW s, Fits(s), NEW frame \in Modelled
  PROVE  \E ch \in Changed :
           /\ Observed(s, frame) = <<ch>> /\ ch # Nothing
           /\ frame.verb = "FA" => ch.field = "freqA" /\ ch.new = frame.arg
           /\ frame.verb = "FB" => ch.field = "freqB" /\ ch.new = frame.arg
           /\ frame.verb = "FR" => ch.field = "rx" /\ ch.new = frame.arg
           /\ frame.verb = "MD" => ch.field \in ModeFields
<1>1. CASE frame.verb \in {"FA", "FB"}
  <2>1. frame.arg \in Hz
    BY <1>1 DEF Modelled
  <2>2. PICK f \in {"freqA", "freqB"} : f = IF frame.verb = "FA" THEN "freqA" ELSE "freqB"
    OBVIOUS
  <2>3. PICK ch \in Changed : ch = Change(f, frame.arg) /\ ch.field = f /\ ch.new = frame.arg
    BY <2>1, Changing
  <2>4. Observed(s, frame) = <<ch>>
    <3>1. CASE frame.verb = "FA"
      BY <2>2, <2>3, <3>1 DEF Observed
    <3>2. CASE frame.verb = "FB"
      BY <2>2, <2>3, <3>2 DEF Observed
    <3> QED
      BY <1>1, <3>1, <3>2
  <2>5. ch # Nothing
    BY <2>3, ChangedFields
  <2> QED
    BY <1>1, <2>2, <2>3, <2>4, <2>5
<1>2. CASE frame.verb = "FR"
  <2>1. frame.arg \in Vfo
    BY <1>2 DEF Modelled
  <2>3. PICK ch \in Changed : ch = Change("rx", frame.arg) /\ ch.field = "rx" /\ ch.new = frame.arg
    BY <2>1, Changing
  <2>4. Observed(s, frame) = <<ch>>
    BY <1>2, <2>3 DEF Observed
  <2>5. ch # Nothing
    BY <2>3, ChangedFields
  <2> QED
    BY <1>2, <2>3, <2>4, <2>5
<1>3. CASE frame.verb = "MD"
  <2>1. frame.arg \in Digits
    BY <1>3 DEF Modelled
  <2>2. PICK m \in RadioModes : frame.arg = ToDigit(m)
    BY <2>1 DEF Digits
  <2>3. FromDigit(frame.arg) = m
    BY <2>2, DigitBack, CatAssumption
  <2>4. PICK f \in ModeFields : f = ModeOf(s.rx)
    BY OpFits
  <2>5. PICK ch \in Changed : ch = Change(f, m) /\ ch.field = f
    BY Changing
  <2>6. Observed(s, frame) = <<ch>>
    BY <1>3, <2>3, <2>4, <2>5 DEF Observed, About
  <2>7. ch # Nothing
    BY <2>5, ChangedFields DEF ModeFields
  <2> QED
    BY <1>3, <2>5, <2>6, <2>7
<1> QED
  BY <1>1, <1>2, <1>3 DEF Modelled

\* A frame the backend does not model tells of no change.
LEMMA ObservedNothing ==
  ASSUME NEW s, NEW frame \in Unmodelled
  PROVE  Observed(s, frame) = <<>>
BY DEF Observed, Unmodelled

\* What of a request is a mutation asks for a change in range.
LEMMA ModeledChanges ==
  ASSUME NEW s, Fits(s), NEW v, NEW req \in Requests, req.verb \in {"FA", "FB", "MD"},
         NEW deed, deed = HandleModeled(v, s, req), deed.kind = "apply"
  PROVE  deed.mut \in Changed
<1>1. req.arg # <<>>
  BY DEF HandleModeled, Say, Deed
<1>2. CASE req.verb = "MD"
  <2>1. PICK d \in Digits : req.arg = <<d>>
    BY <1>1, <1>2 DEF Requests, Request
  <2>2. PICK m \in RadioModes : d = ToDigit(m)
    BY DEF Digits
  <2>3. FromDigit(d) = m
    BY <2>2, DigitBack, CatAssumption
  <2>4. req.arg[1] = d
    BY <2>1
  <2>5. deed = Apply(Change(ModeOf(s.rx), m), "ModeledWrite")
    BY <1>1, <1>2, <2>3, <2>4 DEF HandleModeled
  <2>6. deed.mut = Change(ModeOf(s.rx), m)
    BY <2>5 DEF Apply, Deed
  <2> QED
    BY <2>6, OpFits DEF Changed, Change
<1>3. CASE req.verb \in {"FA", "FB"}
  <2>1. PICK hz \in Hz : req.arg = <<hz>>
    BY <1>1, <1>3 DEF Requests, Request
  <2>2. req.arg[1] = hz
    BY <2>1
  <2>3. deed = Apply(Change(FreqOf(v), hz), "ModeledWrite")
    BY <1>1, <1>3, <2>2 DEF HandleModeled
  <2>4. deed.mut = Change(FreqOf(v), hz)
    BY <2>3 DEF Apply, Deed
  <2> QED
    BY <2>4 DEF Changed, Change, FreqOf
<1> QED
  BY <1>2, <1>3

\* Of whatever dialect.
LEMMA RequestedChanges ==
  ASSUME NEW d \in Dialects, NEW s, Fits(s), NEW flag, NEW req \in Requests,
         Handle(d, s, flag, req).kind = "apply"
  PROVE  Handle(d, s, flag, req).mut \in Changed
<1> DEFINE Fine(deed) == deed.kind = "apply" => deed.mut \in Changed
<1>1. Fine(Forward(req))
  BY DEF Forward, Deed
<1>2. \A on \in BOOLEAN : Fine(Transmit(on))
  BY DEF Transmit, Apply, Deed, Changed, Change
<1>3. \A v : req.verb \in {"FA", "FB", "MD"} => Fine(HandleModeled(v, s, req))
  BY ModeledChanges
<1>4. \A frames : Fine(Say(frames))
  BY DEF Say, Deed
<1>5. Common(req) => \A id : Fine(HandleCommon(id, flag, req))
  BY CommonAnswers DEF Answers
<1> HIDE DEF Fine
<1>6. Fine(Transmit(req.verb = "TX"))
  <2>1. (req.verb = "TX") \in BOOLEAN
    OBVIOUS
  <2> QED
    BY <1>2, <2>1
<1>7. \A single \in BOOLEAN : Fine(HandleTs590(single, s, flag, req))
  BY <1>1, <1>3, <1>4, <1>5, <1>6 DEF HandleTs590
<1>8. Fine(HandleTs2000(s, flag, req))
  BY <1>3, <1>4, <1>5 DEF HandleTs2000, Refuse
<1>9. Fine(HandleTransparent(flag, req))
  BY <1>1, <1>5, <1>6 DEF HandleTransparent
<1>10. Fine(Handle(d, s, flag, req))
  BY <1>7, <1>8, <1>9 DEF Handle, Dialects
<1> QED
  BY <1>10 DEF Fine
------------------------------------------------------------------------------

\* What tells of a field: a change of it, or to a transparent client the radio's frame.
NativeVerb(f) == CASE f = "rx" -> "FR" [] f = "freqA" -> "FA" [] f = "freqB" -> "FB" [] OTHER -> "none"
Fields == {"rx", "freqA", "freqB", "modeA", "modeB"}
Says(f, e) ==
  IF dialect = "transparent" THEN e.kind = "native" /\ e.frame.verb = NativeVerb(f)
  ELSE e.kind = "change" /\ e.ch.field = f
Value(e) == IF dialect = "transparent" THEN e.frame.arg ELSE e.ch.new

\* It is yet to be sent, it is not among what the session is yet to read, the last of
\* what the session is yet to read says what is so.
Awaits(t, f) == \E i \in 1 .. Len(carry[t]) : Says(f, carry[t][i])
Awaited(f) == \E t \in Recorders : Awaits(t, f)
Silent(f) == \A i \in 1 .. Len(ring) : ~Says(f, ring[i])
LastRight(f) ==
  \A i \in 1 .. Len(ring) :
    Says(f, ring[i]) /\ (\A j \in 1 .. Len(ring) : i < j => ~Says(f, ring[j])) => Value(ring[i]) = snap[f]

\* What is yet to be sent is so, or what is sent after it is.
AwaitedRight(f) ==
  \A t \in Recorders : \A i \in 1 .. Len(carry[t]) :
    Says(f, carry[t][i]) =>
      \/ Value(carry[t][i]) = snap[f]
      \/ \E u \in Recorders : order = <<t, u>> /\ Awaits(u, f)

Sure == ~astray /\ (dialect = "transparent" => ~missed)
NewsRight(f) == Sure => AwaitedRight(f) /\ (~Awaited(f) => LastRight(f))

\* What the client was told last it shows.
Settled(f) == Silent(f) /\ ~Awaited(f)
ShowsField(f) == Settled(f) => view[f] = snap[f]
ShowsOperating ==
  \A f \in {"freqA", "freqB"} :
    f = FreqOf(snap.rx) /\ Settled("rx") /\ Settled(f) => view.freqA = snap[f]
ShowsMode ==
  \A f \in {"modeA", "modeB"} :
    f = ModeOf(snap.rx) /\ Settled("rx") /\ Settled(f) => view.digit = ToDigit(snap[f])
ViewRight ==
  ~lagged /\ ~missed /\ ~astray =>
    /\ dialect \in {"ts590", "transparent"} => \A f \in {"rx", "freqA", "freqB"} : ShowsField(f)
    /\ dialect \in {"single", "ts2000"} => ShowsOperating
    /\ dialect # "transparent" => ShowsMode

FollowInv == SessionTyped /\ InOrder /\ ChangeFirst /\ (\A f \in Fields : NewsRight(f)) /\ ViewRight

\* Of a recorder that has nothing to send.
LEMMA NothingAwaited ==
  ASSUME NEW t \in Recorders, carry[t] = <<>>
  PROVE  ~Made(t) /\ \A f : ~Awaits(t, f)
<1>1. Len(carry[t]) = 0
  OBVIOUS
<1> QED
  BY <1>1 DEF Made, Awaits

\* What a recorder does when it records: it changes one setting, and is to send that and
\* what it relays, or it changes none, and is to send what it relays.
Quiet(t, relay) ==
  /\ \A f \in Fields : snap'[f] = snap[f]
  /\ carry' = [carry EXCEPT ![t] = relay] /\ order' = order /\ missed' = missed
Loud(t, ch, relay) ==
  /\ ch \in Changed /\ snap'[ch.field] = ch.new /\ (\A f \in Fields : f # ch.field => snap'[f] = snap[f])
  /\ carry' = [carry EXCEPT ![t] = <<Event("change", ch, Nothing)>> \o relay] /\ order' = Append(order, t)
  /\ missed' = (missed \/ (t = "worker" /\ dialect = "transparent"))

\* Recording is one of the two.
LEMMA RecordOutcome ==
  ASSUME SessionTyped, NEW t \in Recorders, NEW ch, ch = Nothing \/ ch \in Changed, NEW relay,
         relay = <<>> \/ \E e : relay = <<e>>, RecordBy(t, ch, relay)
  PROVE  Fits(snap') /\ (Quiet(t, relay) \/ Loud(t, ch, relay))
<1>1. Fits(snap)
  BY DEF SessionTyped
<1>2. <<>> \o relay = relay
  <2>1. CASE relay = <<>>
    BY <2>1
  <2>2. CASE \E e : relay = <<e>>
    <3>1. PICK e : relay = <<e>>
      BY <2>2
    <3>2. relay \in Seq({e})
      BY <3>1
    <3> QED
      BY <3>2, ConcatEmptySeq
  <2> QED
    BY <2>1, <2>2
<1>3. CASE ch # Nothing /\ Changes(snap, ch)
  <2>1. PICK told : told = <<Event("change", ch, Nothing)>>
    OBVIOUS
  <2>2. told # <<>>
    BY <2>1
  <2>3. /\ snap' = ApplyChange(snap, ch) /\ carry' = [carry EXCEPT ![t] = told \o relay]
        /\ order' = Append(order, t) /\ missed' = (missed \/ (t = "worker" /\ dialect = "transparent"))
    BY <1>3, <2>1, <2>2 DEF RecordBy
  <2>4. Moves(ch) \/ (ch.field = "ptt" /\ ch.new \in BOOLEAN)
    BY <1>3, ChangedFields
  <2>5. /\ Fits(snap') /\ snap'[ch.field] = ch.new
        /\ \A f \in Fields : f # ch.field => snap'[f] = snap[f]
    BY <1>1, <2>3, <2>4, ApplyFields DEF Fields
  <2> QED
    BY <1>3, <2>1, <2>3, <2>5 DEF Loud
<1>4. CASE ~(ch # Nothing /\ Changes(snap, ch))
  <2>1. snap' = IF ch = Nothing THEN snap ELSE ApplyChange(snap, ch)
    BY DEF RecordBy
  <2>2. Fits(snap') /\ \A f \in Fields : snap'[f] = snap[f]
    <3>1. CASE ch = Nothing
      BY <1>1, <2>1, <3>1
    <3>2. CASE ch # Nothing
      <4>1. snap[ch.field] = ch.new
        BY <1>4, <3>2 DEF Changes
      <4>2. Moves(ch) \/ (ch.field = "ptt" /\ ch.new \in BOOLEAN)
        BY <3>2, ChangedFields
      <4>3. /\ Fits(snap') /\ snap'[ch.field] = ch.new
            /\ \A f \in Fields : f # ch.field => snap'[f] = snap[f]
        BY <1>1, <2>1, <3>2, <4>2, ApplyFields DEF Fields
      <4> QED
        BY <4>1, <4>3
    <3> QED
      BY <3>1, <3>2
  <2>3. carry' = [carry EXCEPT ![t] = <<>> \o relay] /\ order' = order
    BY <1>4 DEF RecordBy
  <2>4. missed' = (missed \/ (<<>> # <<>> /\ t = "worker" /\ dialect = "transparent"))
    BY <1>4 DEF RecordBy
  <2>5. missed' = missed
    BY <2>4 DEF SessionTyped
  <2> QED
    BY <1>2, <2>2, <2>3, <2>5 DEF Quiet
<1> QED
  BY <1>3, <1>4
\* What a recorder may relay: a frame of the radio, the transport alone.
Relays(t, relay) ==
  relay = <<>> \/ (t = "transport" /\ \E e \in EventSet : e.kind # "change" /\ relay = <<e>>)

\* What the recorder is then to send.
Carried(t, ch, relay) ==
  /\ carry' \in [Recorders -> Seq(EventSet)] /\ relay \in Seq(EventSet)
  /\ \A u \in Recorders : u # t => carry'[u] = carry[u]
  /\ \A j \in 1 .. Len(relay) : relay[j].kind # "change" /\ \E i \in 1 .. Len(carry'[t]) : carry'[t][i] = relay[j]
  /\ Quiet(t, relay) => carry'[t] = relay
  /\ ~Quiet(t, relay) =>
       /\ Loud(t, ch, relay) /\ carry'[t] # <<>> /\ carry'[t][1] = Event("change", ch, Nothing)
       /\ \A i \in 2 .. Len(carry'[t]) : \E j \in 1 .. Len(relay) : carry'[t][i] = relay[j]

\* Either way the recorder has that to send.
LEMMA RecordCarry ==
  ASSUME SessionTyped, NEW t \in Recorders, NEW ch, NEW relay, Relays(t, relay), Quiet(t, relay) \/ Loud(t, ch, relay)
  PROVE  Carried(t, ch, relay)
<1>1. relay \in Seq(EventSet) /\ \A j \in 1 .. Len(relay) : relay[j].kind # "change"
  <2>1. CASE relay = <<>>
    BY <2>1
  <2>2. CASE relay # <<>>
    <3>1. PICK e \in EventSet : e.kind # "change" /\ relay = <<e>>
      BY <2>2 DEF Relays
    <3>2. relay \in Seq(EventSet) /\ Len(relay) = 1 /\ relay[1] = e
      BY <3>1
    <3> QED
      BY <3>1, <3>2
  <2> QED
    BY <2>1, <2>2
<1>2. carry \in [Recorders -> Seq(EventSet)]
  BY DEF SessionTyped
<1>3. CASE Quiet(t, relay)
  <2>1. carry' = [carry EXCEPT ![t] = relay]
    BY <1>3 DEF Quiet
  <2>2. carry'[t] = relay /\ \A u \in Recorders : u # t => carry'[u] = carry[u]
    BY <1>2, <2>1
  <2>3. carry' \in [Recorders -> Seq(EventSet)]
    BY <1>1, <1>2, <2>1
  <2> QED
    BY <1>1, <1>3, <2>2, <2>3 DEF Carried
<1>4. CASE Loud(t, ch, relay) /\ ~Quiet(t, relay)
  <2>1. PICK e : e = Event("change", ch, Nothing)
    OBVIOUS
  <2>2. e \in EventSet
    BY <1>4, <2>1 DEF Loud, Event, EventSet
  <2>3. PICK told \in Seq(EventSet) : told = <<e>> /\ Len(told) = 1 /\ told[1] = e
    <3>1. <<e>> \in Seq(EventSet) /\ Len(<<e>>) = 1 /\ <<e>>[1] = e
      BY <2>2
    <3> QED
      BY <3>1
  <2>4. PICK sent \in Seq(EventSet) : sent = told \o relay
    BY <1>1, ConcatProperties
  <2>5. /\ Len(sent) = 1 + Len(relay)
        /\ \A i \in 1 .. 1 + Len(relay) : sent[i] = IF i <= 1 THEN told[i] ELSE relay[i - 1]
    BY <1>1, <2>3, <2>4, ConcatProperties
  <2>6. Len(relay) \in Nat
    BY <1>1
  <2>7. sent # <<>> /\ sent[1] = e
    <3>1. Len(sent) # 0
      BY <2>5, <2>6
    <3>2. sent # <<>>
      BY <3>1
    <3>3. 1 \in 1 .. 1 + Len(relay)
      BY <2>6
    <3>4. sent[1] = told[1]
      BY <2>5, <3>3
    <3> QED
      BY <2>3, <3>2, <3>4
  <2>8. \A i \in 2 .. Len(sent) : \E j \in 1 .. Len(relay) : sent[i] = relay[j]
    <3>1. TAKE i \in 2 .. Len(sent)
    <3>2. i - 1 \in 1 .. Len(relay) /\ i \in 1 .. 1 + Len(relay) /\ ~(i <= 1)
      BY <2>5, <2>6
    <3>3. sent[i] = relay[i - 1]
      BY <2>5, <3>2
    <3> QED
      BY <3>2, <3>3
  <2>9. \A j \in 1 .. Len(relay) : \E i \in 1 .. Len(sent) : sent[i] = relay[j]
    <3>1. TAKE j \in 1 .. Len(relay)
    <3>2. j + 1 \in 1 .. Len(sent) /\ j + 1 \in 1 .. 1 + Len(relay) /\ ~(j + 1 <= 1) /\ (j + 1) - 1 = j
      BY <2>5, <2>6
    <3>3. sent[j + 1] = relay[j]
      BY <2>5, <3>2
    <3> QED
      BY <3>2, <3>3
  <2>10. carry' = [carry EXCEPT ![t] = sent]
    BY <1>4, <2>1, <2>3, <2>4 DEF Loud
  <2>11. /\ carry'[t] = sent /\ (\A u \in Recorders : u # t => carry'[u] = carry[u])
         /\ carry' \in [Recorders -> Seq(EventSet)]
    BY <1>2, <2>10
  <2> QED
    BY <1>1, <1>4, <2>1, <2>7, <2>8, <2>9, <2>11 DEF Carried
<1> QED
  BY <1>3, <1>4

\* What recorders are in order, of which there are two.
LEMMA Orders ==
  ASSUME NEW t \in Recorders, NEW u \in Recorders
  PROVE  /\ Append(<<>>, t) = <<t>> /\ Append(<<u>>, t) = <<u, t>>
         /\ <<>> # <<t>> /\ (\A w \in Recorders : <<>> # <<u, w>> /\ <<t>> # <<u, w>>)
         /\ \A w, x \in Recorders : <<u, t>> = <<w, x>> => u = w /\ t = x
         /\ \A w \in Recorders : <<u>> = <<w>> => u = w
<1>1. Append(<<>>, t) = <<t>> /\ Append(<<u>>, t) = <<u, t>>
  <2>1. Append(<<>>, t) = <<>> \o <<t>> /\ <<>> \o <<t>> = <<t>>
    BY Few, AppendIsConcat, ConcatEmptySeq
  <2>2. Append(<<u>>, t) = <<u>> \o <<t>>
    BY Few, AppendIsConcat
  <2>3. <<u>> \o <<t>> = <<u, t>>
    BY Pairs
  <2> QED
    BY <2>1, <2>2, <2>3
<1>2. Len(<<>>) = 0 /\ Len(<<t>>) = 1 /\ \A w \in Recorders : Len(<<u, w>>) = 2
  OBVIOUS
<1>3. <<>> # <<t>>
  BY <1>2
<1>4. ASSUME NEW w \in Recorders PROVE <<>> # <<u, w>> /\ <<t>> # <<u, w>>
  BY <1>2
<1>5. ASSUME NEW w \in Recorders, NEW x \in Recorders, <<u, t>> = <<w, x>> PROVE u = w /\ t = x
  <2>1. <<u, t>>[1] = <<w, x>>[1] /\ <<u, t>>[2] = <<w, x>>[2]
    BY <1>5
  <2> QED
    BY <2>1
<1>6. ASSUME NEW w \in Recorders, <<u>> = <<w>> PROVE u = w
  <2>1. <<u>>[1] = <<w>>[1]
    BY <1>6
  <2> QED
    BY <2>1
<1> QED
  BY <1>1, <1>3, <1>4, <1>5, <1>6

\* Of two recorders one has its change before the other.
LEMMA RecordOrder ==
  ASSUME SessionTyped, InOrder, ChangeFirst, NEW t \in Recorders, carry[t] = <<>>, NEW ch, NEW relay,
         Relays(t, relay), Quiet(t, relay) \/ Loud(t, ch, relay)
  PROVE  /\ InOrder' /\ ChangeFirst'
         /\ \A u \in Recorders : u # t => ((Made(u))' <=> Made(u))
         /\ ~Quiet(t, relay) => \A u \in Recorders : u # t /\ Made(u) => order' = <<u, t>>
         /\ \A u, w \in Recorders : order # <<u, w>>
<1>0. Carried(t, ch, relay)
  BY RecordCarry
<1>1. /\ carry' \in [Recorders -> Seq(EventSet)] /\ relay \in Seq(EventSet)
      /\ \A u \in Recorders : u # t => carry'[u] = carry[u]
      /\ \A j \in 1 .. Len(relay) : relay[j].kind # "change"
      /\ Quiet(t, relay) => carry'[t] = relay
      /\ ~Quiet(t, relay) =>
              /\ Loud(t, ch, relay) /\ carry'[t] # <<>> /\ carry'[t][1] = Event("change", ch, Nothing)
              /\ \A i \in 2 .. Len(carry'[t]) : \E j \in 1 .. Len(relay) : carry'[t][i] = relay[j]
  BY <1>0 DEF Carried
<1>2. ~Made(t)
  BY NothingAwaited
<1>3. \A u \in Recorders : u # t => ((Made(u))' <=> Made(u))
  BY <1>1 DEF Made
<1>4. \A u, w \in Recorders : order # <<u, w>>
  <2>1. ASSUME NEW u \in Recorders, NEW w \in Recorders, u # w, order = <<u, w>>, Made(u), Made(w)
        PROVE  FALSE
    <3>1. u = t \/ w = t
      BY <2>1 DEF Recorders
    <3> QED
      BY <1>2, <2>1, <3>1
  <2>2. \/ order = <<>> \/ (\E u \in Recorders : order = <<u>>)
    BY <2>1 DEF InOrder
  <2> QED
    BY <2>2, Orders, SMTT(40)
<1>5. \/ order = <<>> /\ \A u \in Recorders : ~Made(u)
      \/ \E u \in Recorders : u # t /\ order = <<u>> /\ Made(u)
  <2>1. CASE order = <<>> /\ \A u \in Recorders : ~Made(u)
    BY <2>1
  <2>2. CASE \E u \in Recorders : order = <<u>> /\ Made(u)
    BY <1>2, <2>2
  <2> QED
    BY <1>4, <2>1, <2>2 DEF InOrder
<1>6. CASE Quiet(t, relay)
  <2>1. ~(Made(t))'
    <3>1. carry'[t] = relay
      BY <1>1, <1>6
    <3>2. relay # <<>> => relay[1].kind # "change"
      <4>1. relay # <<>> => Len(relay) # 0 /\ Len(relay) \in Nat
        BY <1>1
      <4> QED
        BY <1>1, <4>1
    <3> QED
      BY <3>1, <3>2 DEF Made
  <2>2. \A u \in Recorders : (Made(u))' <=> Made(u)
    BY <1>2, <1>3, <2>1
  <2>3. InOrder'
    <3>1. order' = order
      BY <1>6 DEF Quiet
    <3>2. CASE order = <<>> /\ \A u \in Recorders : ~Made(u)
      BY <2>2, <3>1, <3>2 DEF InOrder
    <3>3. CASE \E u \in Recorders : u # t /\ order = <<u>> /\ Made(u)
      <4>1. PICK u \in Recorders : u # t /\ order = <<u>> /\ Made(u)
        BY <3>3
      <4>2. \A w \in Recorders : (Made(w))' => w = u
        BY <2>1, <4>1 DEF Recorders
      <4> QED
        BY <2>2, <3>1, <4>1, <4>2 DEF InOrder
    <3> QED
      BY <1>5, <3>2, <3>3
  <2>4. ChangeFirst'
    <3>1. \A i \in 1 .. Len(carry'[t]) : carry'[t][i].kind # "change"
      BY <1>1, <1>6
    <3>2. t = "worker" => Len(carry'[t]) = 0
      BY <1>1, <1>6 DEF Relays
    <3>3. \A u \in Recorders : \A i \in 1 .. Len(carry'[u]) : carry'[u][i].kind = "change" => i = 1
      BY <1>1, <3>1 DEF ChangeFirst
    <3>4. \A i \in 1 .. Len(carry'["worker"]) : carry'["worker"][i].kind = "change"
      <4>1. CASE t = "worker"
        BY <3>2, <4>1
      <4>2. CASE t # "worker"
        BY <1>1, <4>2 DEF ChangeFirst, Recorders
      <4> QED
        BY <4>1, <4>2
    <3> QED
      BY <3>3, <3>4 DEF ChangeFirst
  <2> QED
    BY <1>3, <1>4, <1>6, <2>3, <2>4
<1>7. CASE ~Quiet(t, relay)
  <2>1. /\ Loud(t, ch, relay) /\ carry'[t] # <<>> /\ carry'[t][1] = Event("change", ch, Nothing)
        /\ \A i \in 2 .. Len(carry'[t]) : \E j \in 1 .. Len(relay) : carry'[t][i] = relay[j]
    BY <1>1, <1>7
  <2>2. carry'[t][1].kind = "change"
    BY <2>1 DEF Event
  <2>3. (Made(t))'
    BY <2>1, <2>2 DEF Made
  <2>4. order' = Append(order, t)
    BY <2>1 DEF Loud
  <2>5. InOrder' /\ \A u \in Recorders : u # t /\ Made(u) => order' = <<u, t>>
    <3>1. CASE order = <<>> /\ \A u \in Recorders : ~Made(u)
      <4>1. order' = <<t>>
        BY <2>4, <3>1, Orders
      <4>2. \A u \in Recorders : (Made(u))' => u = t
        BY <1>3, <3>1
      <4> QED
        BY <2>3, <3>1, <4>1, <4>2 DEF InOrder
    <3>2. CASE \E u \in Recorders : u # t /\ order = <<u>> /\ Made(u)
      <4>1. PICK u \in Recorders : u # t /\ order = <<u>> /\ Made(u)
        BY <3>2
      <4>2. order' = <<u, t>>
        BY <2>4, <4>1, Orders
      <4>3. (Made(u))'
        BY <1>3, <4>1
      <4>4. \A w \in Recorders : w # t => w = u
        BY <4>1 DEF Recorders
      <4> QED
        BY <2>3, <4>1, <4>2, <4>3, <4>4 DEF InOrder
    <3> QED
      BY <1>5, <3>1, <3>2
  <2>6. ChangeFirst'
    <3>1. \A i \in 2 .. Len(carry'[t]) : carry'[t][i].kind # "change"
      BY <1>1, <2>1
    <3>2. \A i \in 1 .. Len(carry'[t]) : carry'[t][i].kind = "change" => i = 1
      <4>1. Len(carry'[t]) \in Nat
        BY <1>1
      <4>2. \A i \in 1 .. Len(carry'[t]) : i = 1 \/ i \in 2 .. Len(carry'[t])
        BY <4>1
      <4> QED
        BY <3>1, <4>2
    <3>3. \A u \in Recorders : \A i \in 1 .. Len(carry'[u]) : carry'[u][i].kind = "change" => i = 1
      BY <1>1, <3>2 DEF ChangeFirst
    <3>4. \A i \in 1 .. Len(carry'["worker"]) : carry'["worker"][i].kind = "change"
      <4>1. CASE t = "worker"
        <5>1. Len(relay) = 0
          BY <4>1 DEF Relays
        <5>2. \A i \in 2 .. Len(carry'[t]) : FALSE
          BY <2>1, <5>1
        <5>3. Len(carry'[t]) \in Nat
          BY <1>1
        <5>4. \A i \in 1 .. Len(carry'[t]) : i = 1
          BY <5>2, <5>3
        <5> QED
          BY <2>2, <4>1, <5>4
      <4>2. CASE t # "worker"
        BY <1>1, <4>2 DEF ChangeFirst, Recorders
      <4> QED
        BY <4>1, <4>2
    <3> QED
      BY <3>3, <3>4 DEF ChangeFirst
  <2> QED
    BY <1>3, <1>4, <1>7, <2>5, <2>6
<1> QED
  BY <1>6, <1>7
\* The parts of the invariant after a step, of the same endpoint.
LEMMA Then ==
  ASSUME dialect' = dialect, NEW f
  PROVE  /\ \A t : (Awaits(t, f))' <=> \E i \in 1 .. Len(carry'[t]) : Says(f, carry'[t][i])
         /\ (Awaited(f))' <=> \E t \in Recorders : (Awaits(t, f))'
         /\ (Silent(f))' <=> \A i \in 1 .. Len(ring') : ~Says(f, ring'[i])
         /\ (LastRight(f))' <=>
              \A i \in 1 .. Len(ring') :
                Says(f, ring'[i]) /\ (\A j \in 1 .. Len(ring') : i < j => ~Says(f, ring'[j]))
                  => Value(ring'[i]) = snap'[f]
         /\ (AwaitedRight(f))' <=>
              \A t \in Recorders : \A i \in 1 .. Len(carry'[t]) :
                Says(f, carry'[t][i]) =>
                  \/ Value(carry'[t][i]) = snap'[f]
                  \/ \E u \in Recorders : order' = <<t, u>> /\ (Awaits(u, f))'
         /\ Sure' <=> (~astray' /\ (dialect = "transparent" => ~missed'))
<1>1. \A t : (Awaits(t, f))' <=> \E i \in 1 .. Len(carry'[t]) : Says(f, carry'[t][i])
  BY DEF Awaits, Says
<1>2. (Awaited(f))' <=> \E t \in Recorders : (Awaits(t, f))'
  BY DEF Awaited
<1>3. (Silent(f))' <=> \A i \in 1 .. Len(ring') : ~Says(f, ring'[i])
  BY DEF Silent, Says
<1>4. (LastRight(f))' <=>
        \A i \in 1 .. Len(ring') :
          Says(f, ring'[i]) /\ (\A j \in 1 .. Len(ring') : i < j => ~Says(f, ring'[j]))
            => Value(ring'[i]) = snap'[f]
  BY DEF LastRight, Says, Value
<1>5. (AwaitedRight(f))' <=>
        \A t \in Recorders : \A i \in 1 .. Len(carry'[t]) :
          Says(f, carry'[t][i]) =>
            \/ Value(carry'[t][i]) = snap'[f]
            \/ \E u \in Recorders : order' = <<t, u>> /\ (Awaits(u, f))'
  BY DEF AwaitedRight, Says, Value
<1>6. Sure' <=> (~astray' /\ (dialect = "transparent" => ~missed'))
  BY DEF Sure
<1> QED
  BY <1>1, <1>2, <1>3, <1>4, <1>5, <1>6

\* What a transparent client hears of the radio's frame is so, and is what changed.
Truly(t, relay) ==
  dialect = "transparent" => \A f \in Fields :
    /\ \A j \in 1 .. Len(relay) : Says(f, relay[j]) => Value(relay[j]) = snap'[f]
    /\ t = "transport" /\ snap'[f] # snap[f] /\ f \notin ModeFields => \E j \in 1 .. Len(relay) : Says(f, relay[j])

\* What is changed is yet to be told.
LEMMA RecordAwaits ==
  ASSUME SessionTyped, NEW t \in Recorders, carry[t] = <<>>, NEW ch, NEW relay, Relays(t, relay),
         Quiet(t, relay) \/ Loud(t, ch, relay), Truly(t, relay), dialect' = dialect, NEW f \in Fields
  PROVE  /\ \A u \in Recorders : u # t => ((Awaits(u, f))' <=> Awaits(u, f))
         /\ Awaited(f) => (Awaited(f))'
         /\ Sure' /\ snap'[f] # snap[f] =>
              (Awaits(t, f))' \/ (dialect = "transparent" /\ f \in ModeFields)
<1>0. Carried(t, ch, relay)
  BY RecordCarry
<1>1. \A u : (Awaits(u, f))' <=> \E i \in 1 .. Len(carry'[u]) : Says(f, carry'[u][i])
  BY Then
<1>2. (Awaited(f))' <=> \E u \in Recorders : (Awaits(u, f))'
  BY Then
<1>3. \A u \in Recorders : u # t => ((Awaits(u, f))' <=> Awaits(u, f))
  BY <1>0, <1>1 DEF Carried, Awaits
<1>4. Awaited(f) => (Awaited(f))'
  <2>1. ~Awaits(t, f)
    BY NothingAwaited
  <2> QED
    BY <1>2, <1>3, <2>1 DEF Awaited
<1>5. ASSUME Sure', snap'[f] # snap[f]
      PROVE  (Awaits(t, f))' \/ (dialect = "transparent" /\ f \in ModeFields)
  <2>1. ~Quiet(t, relay)
    BY <1>5 DEF Quiet
  <2>2. Loud(t, ch, relay) /\ carry'[t] # <<>> /\ carry'[t][1] = Event("change", ch, Nothing)
    BY <1>0, <2>1 DEF Carried
  <2>3. ch.field = f
    BY <1>5, <2>2 DEF Loud
  <2>4. carry'[t] \in Seq(EventSet)
    BY <1>0 DEF Carried
  <2>5. 1 \in 1 .. Len(carry'[t])
    BY <2>2, <2>4
  <2>6. CASE dialect # "transparent"
    <3>1. Says(f, carry'[t][1])
      BY <2>2, <2>3, <2>6 DEF Says, Event
    <3> QED
      BY <1>1, <2>5, <3>1
  <2>7. CASE dialect = "transparent"
    <3>1. ~missed'
      BY <1>5, <2>7, Then
    <3>2. t = "transport"
      BY <2>2, <2>7, <3>1 DEF Loud, Recorders
    <3>3. f \in ModeFields \/ \E j \in 1 .. Len(relay) : Says(f, relay[j])
      BY <1>5, <2>7, <3>2 DEF Truly
    <3>4. \A j \in 1 .. Len(relay) : \E i \in 1 .. Len(carry'[t]) : carry'[t][i] = relay[j]
      BY <1>0 DEF Carried
    <3> QED
      BY <1>1, <2>7, <3>3, <3>4
  <2> QED
    BY <2>6, <2>7
<1> QED
  BY <1>3, <1>4, <1>5
\* A recorder that is to send something has that come out right.
LEMMA RecordNews ==
  ASSUME SessionTyped, InOrder, ChangeFirst, NEW t \in Recorders, carry[t] = <<>>, NEW ch, NEW relay,
         Relays(t, relay), Quiet(t, relay) \/ Loud(t, ch, relay), Truly(t, relay),
         dialect' = dialect, astray' = astray, ring' = ring, NEW f \in Fields, NewsRight(f)
  PROVE  (NewsRight(f))'
<1>0. Carried(t, ch, relay)
  BY RecordCarry
<1> SUFFICES ASSUME Sure' PROVE (AwaitedRight(f))' /\ (~(Awaited(f))' => (LastRight(f))')
  BY DEF NewsRight
<1>1. ~astray' /\ (dialect = "transparent" => ~missed')
  BY Then
<1>2. Sure
  BY <1>1 DEF Sure, Quiet, Loud, SessionTyped
<1>3. AwaitedRight(f) /\ (~Awaited(f) => LastRight(f))
  BY <1>2 DEF NewsRight
<1>4. /\ \A u \in Recorders : u # t => ((Awaits(u, f))' <=> Awaits(u, f))
      /\ Awaited(f) => (Awaited(f))'
      /\ snap'[f] # snap[f] => (Awaits(t, f))' \/ (dialect = "transparent" /\ f \in ModeFields)
  BY RecordAwaits
<1>5. (AwaitedRight(f))'
  <2>1. ASSUME NEW i \in 1 .. Len(carry'[t]), Says(f, carry'[t][i]) PROVE Value(carry'[t][i]) = snap'[f]
    <3>1. ASSUME NEW j \in 1 .. Len(relay), Says(f, relay[j]) PROVE Value(relay[j]) = snap'[f]
      <4>1. relay[j].kind # "change"
        BY <1>0 DEF Carried
      <4>2. dialect = "transparent"
        BY <3>1, <4>1 DEF Says
      <4> QED
        BY <3>1, <4>2 DEF Truly
    <3>2. CASE Quiet(t, relay)
      <4>1. carry'[t] = relay
        BY <1>0, <3>2 DEF Carried
      <4> QED
        BY <2>1, <3>1, <4>1
    <3>3. CASE ~Quiet(t, relay)
      <4>1. Loud(t, ch, relay) /\ carry'[t][1] = Event("change", ch, Nothing)
        BY <1>0, <3>3 DEF Carried
      <4>2. CASE i = 1
        BY <2>1, <4>1, <4>2 DEF Says, Value, Event, Loud
      <4>3. CASE i # 1
        <5>1. carry'[t] \in Seq(EventSet)
          BY <1>0 DEF Carried
        <5>2. i \in 2 .. Len(carry'[t])
          BY <4>3, <5>1
        <5>3. PICK j \in 1 .. Len(relay) : carry'[t][i] = relay[j]
          BY <1>0, <3>3, <5>2 DEF Carried
        <5> QED
          BY <2>1, <3>1, <5>3
      <4> QED
        BY <4>2, <4>3
    <3> QED
      BY <3>2, <3>3
  <2>2. ASSUME NEW u \in Recorders, u # t, NEW i \in 1 .. Len(carry'[u]), Says(f, carry'[u][i])
        PROVE  \/ Value(carry'[u][i]) = snap'[f]
               \/ \E w \in Recorders : order' = <<u, w>> /\ (Awaits(w, f))'
    <3>1. carry'[u] = carry[u]
      BY <1>0, <2>2 DEF Carried
    <3>2. \A v, w \in Recorders : order # <<v, w>>
      BY RecordOrder
    <3>3. Value(carry[u][i]) = snap[f]
      BY <1>3, <2>2, <3>1, <3>2 DEF AwaitedRight
    <3>4. CASE snap'[f] = snap[f]
      BY <3>1, <3>3, <3>4
    <3>5. CASE snap'[f] # snap[f]
      <4>1. Loud(t, ch, relay) /\ ~Quiet(t, relay)
        BY <3>5 DEF Quiet
      <4>2. CASE dialect = "transparent"
        <5>1. t # "worker"
          BY <1>1, <4>1, <4>2 DEF Loud
        <5>2. u = "worker"
          BY <2>2, <5>1 DEF Recorders
        <5>3. carry[u][i].kind = "change"
          BY <2>2, <3>1, <5>2 DEF ChangeFirst
        <5> QED
          BY <2>2, <3>1, <4>2, <5>3 DEF Says
      <4>3. CASE dialect # "transparent"
        <5>1. carry[u][i].kind = "change"
          BY <2>2, <3>1, <4>3 DEF Says
        <5>2. i = 1
          BY <2>2, <3>1, <5>1 DEF ChangeFirst
        <5>3. carry[u] # <<>>
          BY <2>2, <3>1, <5>2
        <5>4. Made(u)
          BY <5>1, <5>2, <5>3 DEF Made
        <5>5. order' = <<u, t>>
          BY <2>2, <4>1, <5>4, RecordOrder
        <5>6. (Awaits(t, f))'
          BY <1>4, <3>5, <4>3
        <5> QED
          BY <5>5, <5>6
      <4> QED
        BY <4>2, <4>3
    <3> QED
      BY <3>4, <3>5
  <2>3. ASSUME NEW u \in Recorders, NEW i \in 1 .. Len(carry'[u]), Says(f, carry'[u][i])
        PROVE  \/ Value(carry'[u][i]) = snap'[f]
               \/ \E w \in Recorders : order' = <<u, w>> /\ (Awaits(w, f))'
    BY <2>1, <2>2, <2>3
  <2> QED
    BY <2>3, Then
<1>6. ASSUME ~(Awaited(f))' PROVE (LastRight(f))'
  <2>1. ~Awaited(f) /\ LastRight(f)
    BY <1>3, <1>4, <1>6
  <2>2. CASE snap'[f] = snap[f]
    BY <2>1, <2>2, Then DEF LastRight
  <2>3. CASE snap'[f] # snap[f]
    <3>1. ~(Awaits(t, f))'
      BY <1>6, Then
    <3>2. dialect = "transparent" /\ f \in ModeFields
      BY <1>4, <2>3, <3>1
    <3>3. \A i \in 1 .. Len(ring) : ring[i] \in EventSet
      BY DEF SessionTyped
    <3>4. \A e \in EventSet : ~Says(f, e)
      <4>1. NativeVerb(f) = "none"
        BY <3>2 DEF NativeVerb, ModeFields
      <4> QED
        BY <3>2, <4>1, EventFields DEF Says, Modelled
    <3> QED
      BY <3>3, <3>4, Then
  <2> QED
    BY <2>2, <2>3
<1> QED
  BY <1>5, <1>6
\* What the client shows stays right, as what is changed is not settled.
LEMMA RecordView ==
  ASSUME SessionTyped, NEW t \in Recorders, carry[t] = <<>>, NEW ch, NEW relay,
         Relays(t, relay), Quiet(t, relay) \/ Loud(t, ch, relay), Truly(t, relay), Fits(snap'),
         dialect' = dialect, astray' = astray, ring' = ring, lagged' = lagged, view' = view, ViewRight
  PROVE  ViewRight'
<1> SUFFICES ASSUME ~lagged', ~missed', ~astray'
             PROVE  /\ (dialect \in {"ts590", "transparent"} => \A f \in {"rx", "freqA", "freqB"} : ShowsField(f))'
                    /\ (dialect \in {"single", "ts2000"} => ShowsOperating)'
                    /\ (dialect # "transparent" => ShowsMode)'
  BY DEF ViewRight
<1>1. Sure' /\ ~lagged /\ ~missed /\ ~astray
  BY DEF Sure, Quiet, Loud, SessionTyped
<1>2. /\ dialect \in {"ts590", "transparent"} => \A f \in {"rx", "freqA", "freqB"} : ShowsField(f)
      /\ dialect \in {"single", "ts2000"} => ShowsOperating
      /\ dialect # "transparent" => ShowsMode
  BY <1>1 DEF ViewRight
<1>3. ASSUME NEW f \in Fields, (Settled(f))' PROVE Settled(f) /\ (snap'[f] = snap[f] \/ (dialect = "transparent" /\ f \in ModeFields))
  <2>1. (Silent(f))' /\ ~(Awaited(f))'
    BY <1>3 DEF Settled
  <2>2. Silent(f)
    BY <2>1, Then DEF Silent
  <2>3. ~(Awaits(t, f))'
    BY <2>1, Then
  <2>4. /\ Awaited(f) => (Awaited(f))'
        /\ snap'[f] # snap[f] => (Awaits(t, f))' \/ (dialect = "transparent" /\ f \in ModeFields)
    BY <1>1, RecordAwaits
  <2> QED
    BY <2>1, <2>2, <2>3, <2>4 DEF Settled
<1>4. ASSUME dialect \in {"ts590", "transparent"}, NEW f \in {"rx", "freqA", "freqB"}, (Settled(f))'
      PROVE  view'[f] = snap'[f]
  <2>1. f \in Fields /\ f \notin ModeFields
    BY DEF Fields, ModeFields
  <2>2. Settled(f) /\ snap'[f] = snap[f]
    BY <1>3, <1>4, <2>1
  <2>3. ShowsField(f)
    BY <1>2, <1>4
  <2> QED
    BY <2>2, <2>3 DEF ShowsField
<1>5. dialect # "transparent" /\ (Settled("rx"))' => Settled("rx") /\ snap'.rx = snap.rx
  BY <1>3 DEF Fields
<1>6. ASSUME dialect \in {"single", "ts2000"}, NEW f \in {"freqA", "freqB"}, f = FreqOf(snap'.rx),
             (Settled("rx"))', (Settled(f))'
      PROVE  view'.freqA = snap'[f]
  <2>1. f \in Fields /\ dialect # "transparent"
    BY <1>6 DEF Fields
  <2>2. Settled(f) /\ snap'[f] = snap[f]
    BY <1>3, <1>6, <2>1
  <2>3. Settled("rx") /\ f = FreqOf(snap.rx)
    BY <1>5, <1>6, <2>1
  <2>4. view.freqA = snap[f]
    BY <1>2, <1>6, <2>2, <2>3 DEF ShowsOperating
  <2> QED
    BY <2>2, <2>4
<1>7. ASSUME dialect # "transparent", NEW f \in {"modeA", "modeB"}, f = ModeOf(snap'.rx),
             (Settled("rx"))', (Settled(f))'
      PROVE  view'.digit = ToDigit(snap'[f])
  <2>1. f \in Fields
    BY DEF Fields
  <2>2. Settled(f) /\ snap'[f] = snap[f]
    BY <1>3, <1>7, <2>1
  <2>3. Settled("rx") /\ f = ModeOf(snap.rx)
    BY <1>5, <1>7
  <2>4. view.digit = ToDigit(snap[f])
    BY <1>2, <1>7, <2>2, <2>3 DEF ShowsMode
  <2> QED
    BY <2>2, <2>4
<1>8. (dialect \in {"ts590", "transparent"} => \A f \in {"rx", "freqA", "freqB"} : ShowsField(f))'
  BY <1>4 DEF ShowsField
<1>9. (dialect \in {"single", "ts2000"} => ShowsOperating)'
  BY <1>6 DEF ShowsOperating
<1>10. (dialect # "transparent" => ShowsMode)'
  BY <1>7 DEF ShowsMode
<1> QED
  BY <1>8, <1>9, <1>10
\* Recording keeps the invariant, whoever records.
LEMMA RecordKeeps ==
  ASSUME FollowInv, NEW t \in Recorders, carry[t] = <<>>, NEW ch, ch = Nothing \/ ch \in Changed, NEW relay,
         Relays(t, relay), RecordBy(t, ch, relay), Truly(t, relay), OpTyped',
         UNCHANGED <<endpoint, ai, ring, lagged, view, astray>>
  PROVE  FollowInv'
<1>1. SessionTyped /\ InOrder /\ ChangeFirst /\ (\A f \in Fields : NewsRight(f)) /\ ViewRight
  BY DEF FollowInv
<1>2. /\ dialect' = dialect /\ perms' = perms /\ ai' = ai /\ ring' = ring /\ lagged' = lagged /\ view' = view
      /\ astray' = astray
  BY DEF endpoint
<1>3. relay = <<>> \/ \E e : relay = <<e>>
  BY DEF Relays
<1>4. Fits(snap') /\ (Quiet(t, relay) \/ Loud(t, ch, relay))
  BY <1>1, <1>3, RecordOutcome
<1>5. Carried(t, ch, relay)
  BY <1>1, <1>4, RecordCarry
<1>6. SessionTyped'
  <2>1. missed' \in BOOLEAN
    BY <1>1, <1>4 DEF Quiet, Loud, SessionTyped
  <2>2. carry' \in [Recorders -> Seq(EventSet)]
    BY <1>5 DEF Carried
  <2> QED
    BY <1>1, <1>2, <1>4, <2>1, <2>2 DEF SessionTyped
<1>7. InOrder' /\ ChangeFirst'
  BY <1>1, <1>4, RecordOrder
<1>8. \A f \in Fields : (NewsRight(f))'
  BY <1>1, <1>2, <1>4, RecordNews
<1>9. ViewRight'
  BY <1>1, <1>2, <1>4, RecordView
<1> QED
  BY <1>6, <1>7, <1>8, <1>9 DEF FollowInv

\* The radio pushes a frame: what it is about is what it says.
LEMMA PushFollows == ASSUME FollowInv, Push PROVE FollowInv'
<1>1. SessionTyped /\ Fits(snap)
  BY DEF FollowInv, SessionTyped
<1>2. carry["transport"] = <<>> /\ op' = op /\ UNCHANGED <<endpoint, ai, ring, lagged, view, astray>> /\ "transport" \in Recorders
  BY DEF Push, Recorders
<1>3. OpTyped'
  BY <1>1, <1>2 DEF SessionTyped, OpTyped
<1>4. PICK frame \in Unmodelled \cup Modelled :
        RecordBy("transport", IF Observed(snap, frame) = <<>> THEN Nothing ELSE Observed(snap, frame)[1],
                 <<Event(IF Observed(snap, frame) = <<>> THEN "raw" ELSE "native", Nothing, frame)>>)
  BY DEF Push, Unmodelled, Modelled, Frame
<1>5. CASE frame \in Unmodelled
  <2>1. Observed(snap, frame) = <<>>
    BY <1>5, ObservedNothing
  <2>2. PICK e : e = Event("raw", Nothing, frame)
    OBVIOUS
  <2>3. RecordBy("transport", Nothing, <<e>>)
    BY <1>4, <2>1, <2>2
  <2>4. e \in EventSet /\ e.kind = "raw"
    BY <1>5, <2>2 DEF Event, EventSet
  <2>5. PICK relay : relay = <<e>>
    OBVIOUS
  <2>6. Len(relay) = 1 /\ relay[1] = e
    BY <2>5
  <2>7. Relays("transport", relay)
    BY <2>4, <2>5 DEF Relays
  <2>8. Truly("transport", relay)
    <3>1. \A f \in Fields : snap'[f] = snap[f]
      BY <2>3 DEF RecordBy
    <3>2. \A f \in Fields : \A j \in 1 .. Len(relay) : dialect = "transparent" => ~Says(f, relay[j])
      BY <2>4, <2>6 DEF Says
    <3> QED
      BY <3>1, <3>2 DEF Truly
  <2> QED
    BY <1>2, <1>3, <2>3, <2>5, <2>7, <2>8, RecordKeeps
<1>6. CASE frame \in Modelled
  <2>1. PICK ch \in Changed :
           /\ Observed(snap, frame) = <<ch>> /\ ch # Nothing
           /\ frame.verb = "FA" => ch.field = "freqA" /\ ch.new = frame.arg
           /\ frame.verb = "FB" => ch.field = "freqB" /\ ch.new = frame.arg
           /\ frame.verb = "FR" => ch.field = "rx" /\ ch.new = frame.arg
           /\ frame.verb = "MD" => ch.field \in ModeFields
    BY <1>1, <1>6, ObservedChange
  <2>2. PICK e : e = Event("native", Nothing, frame)
    OBVIOUS
  <2>3. Observed(snap, frame) # <<>> /\ Observed(snap, frame)[1] = ch
    BY <2>1
  <2>4. RecordBy("transport", ch, <<e>>)
    BY <1>4, <2>2, <2>3
  <2>5. e \in EventSet /\ e.kind = "native" /\ e.frame = frame
    BY <1>6, <2>2 DEF Event, EventSet
  <2>6. PICK relay : relay = <<e>>
    OBVIOUS
  <2>7. Len(relay) = 1 /\ relay[1] = e
    BY <2>6
  <2>8. Relays("transport", relay)
    BY <2>5, <2>6 DEF Relays
  <2>9. Truly("transport", relay)
    <3>1. Quiet("transport", relay) \/ Loud("transport", ch, relay)
      BY <1>1, <1>2, <2>4, <2>6, RecordOutcome
    <3>2. snap'[ch.field] = ch.new /\ \A f \in Fields : f # ch.field => snap'[f] = snap[f]
      <4>1. \A f \in Fields : f # ch.field => snap'[f] = snap[f]
        BY <3>1 DEF Quiet, Loud
      <4>2. snap' = ApplyChange(snap, ch)
        BY <2>1, <2>4 DEF RecordBy
      <4>3. Moves(ch) \/ (ch.field = "ptt" /\ ch.new \in BOOLEAN)
        BY ChangedFields
      <4> QED
        BY <1>1, <4>1, <4>2, <4>3, ApplyFields
    <3>3. frame.verb \in {"FA", "FB", "FR", "MD"}
      BY <1>6 DEF Modelled
    <3>4. ASSUME NEW f \in Fields, dialect = "transparent", Says(f, e) PROVE Value(e) = snap'[f]
      <4>1. frame.verb = NativeVerb(f)
        BY <2>5, <3>4 DEF Says
      <4>2. f = ch.field /\ ch.new = frame.arg
        BY <2>1, <3>3, <4>1 DEF NativeVerb, Fields
      <4> QED
        BY <2>5, <3>2, <3>4, <4>2 DEF Value
    <3>5. ASSUME NEW f \in Fields, dialect = "transparent", snap'[f] # snap[f], f \notin ModeFields PROVE Says(f, e)
      <4>1. f = ch.field
        BY <3>2, <3>5
      <4>2. frame.verb = NativeVerb(f)
        BY <2>1, <3>3, <3>5, <4>1 DEF NativeVerb, Fields, ModeFields
      <4> QED
        BY <2>5, <3>5, <4>2 DEF Says
    <3> QED
      BY <2>7, <3>4, <3>5 DEF Truly
  <2> QED
    BY <1>2, <1>3, <2>1, <2>4, <2>6, <2>8, <2>9, RecordKeeps
<1> QED
  BY <1>4, <1>5, <1>6

\* The worker has nothing to relay, and what it records no transparent client hears.
LEMMA WorkerRelays == Relays("worker", <<>>) /\ Truly("worker", <<>>)
<1>1. Len(<<>>) = 0
  OBVIOUS
<1> QED
  BY <1>1 DEF Relays, Truly

\* A poll.
LEMMA PollFollows == ASSUME FollowInv, Poll PROVE FollowInv'
<1>1. SessionTyped /\ Fits(snap)
  BY DEF FollowInv, SessionTyped
<1>2. carry["worker"] = <<>> /\ op' = op /\ UNCHANGED <<endpoint, ai, ring, lagged, view, astray>> /\ "worker" \in Recorders
  BY DEF Poll, Recorders
<1>3. OpTyped'
  BY <1>1, <1>2 DEF SessionTyped, OpTyped
<1>4. PICK frame \in Modelled : RecordBy("worker", Observed(snap, frame)[1], <<>>)
  BY DEF Poll, Modelled, Frame
<1>5. PICK ch \in Changed : Observed(snap, frame) = <<ch>>
  BY <1>1, ObservedChange
<1>6. Observed(snap, frame)[1] = ch
  BY <1>5
<1>7. RecordBy("worker", ch, <<>>)
  BY <1>4, <1>6
<1> QED
  BY <1>2, <1>3, <1>7, WorkerRelays, RecordKeeps

\* The worker executes the operation, or leaves it.
LEMMA StillFollows ==
  ASSUME FollowInv, OpTyped', UNCHANGED <<endpoint, snap, carry, order, ring, lagged, view, missed, astray>>, ai' \in BOOLEAN
  PROVE  FollowInv'
<1>1. /\ dialect' = dialect /\ perms' = perms /\ snap' = snap /\ carry' = carry /\ order' = order /\ ring' = ring
      /\ lagged' = lagged /\ view' = view /\ missed' = missed /\ astray' = astray
  BY DEF endpoint
<1>2. SessionTyped /\ InOrder /\ ChangeFirst /\ (\A f \in Fields : NewsRight(f)) /\ ViewRight
  BY DEF FollowInv
<1>3. SessionTyped'
  BY <1>1, <1>2 DEF SessionTyped
<1>4. InOrder' /\ ChangeFirst'
  BY <1>1, <1>2 DEF InOrder, ChangeFirst, Made
<1>5. \A f : /\ (Awaited(f))' <=> Awaited(f)
             /\ (Settled(f))' <=> Settled(f)
             /\ (AwaitedRight(f))' <=> AwaitedRight(f)
             /\ (LastRight(f))' <=> LastRight(f)
  BY <1>1 DEF Awaited, Awaits, Settled, Silent, AwaitedRight, LastRight, Says, Value
<1>6. \A f \in Fields : (NewsRight(f))'
  BY <1>1, <1>2, <1>5 DEF NewsRight, Sure
<1>7. ViewRight'
  BY <1>1, <1>2, <1>5 DEF ViewRight, ShowsField, ShowsOperating, ShowsMode
<1> QED
  BY <1>3, <1>4, <1>6, <1>7 DEF FollowInv

\* The worker executes the operation and records it, or leaves it.
LEMMA ExecuteFollows == ASSUME FollowInv, Execute PROVE FollowInv'
<1>1. SessionTyped /\ OpTyped
  BY DEF FollowInv, SessionTyped
<1>2. carry["worker"] = <<>> /\ UNCHANGED <<endpoint, ai, ring, lagged, view, astray>> /\ "worker" \in Recorders /\ op # Nothing
  BY DEF Execute, Recorders
<1>3. CASE op.kind = "apply" /\ op' = [op EXCEPT !.kind = "done"] /\ RecordBy("worker", op.mut, <<>>)
  <2>1. op.mut \in Changed
    BY <1>1, <1>2, <1>3 DEF OpTyped
  <2>2. OpTyped'
    BY <1>1, <1>2, <1>3 DEF OpTyped
  <2> QED
    BY <1>2, <1>3, <2>1, <2>2, WorkerRelays, RecordKeeps
<1>4. CASE op' = Nothing /\ UNCHANGED <<snap, carry, order, missed>>
  <2>1. OpTyped' /\ ai' \in BOOLEAN
    BY <1>1, <1>2, <1>4 DEF OpTyped, SessionTyped
  <2> QED
    BY <1>2, <1>4, <2>1, StillFollows
<1> QED
  BY <1>3, <1>4 DEF Execute
\* What sending takes from the recorder.
Taken(t) ==
  /\ carry' \in [Recorders -> Seq(EventSet)] /\ (\A u \in Recorders : u # t => carry'[u] = carry[u])
  /\ Len(carry[t]) \in Nat \ {0} /\ Len(carry'[t]) = Len(carry[t]) - 1
  /\ \A i \in 1 .. Len(carry'[t]) : carry'[t][i] = carry[t][i + 1]

\* What it puts in the ring, from which the oldest may have dropped.
Put(e, d) ==
  /\ d \in {0, 1} /\ ring' \in Seq(EventSet) /\ Len(ring') <= RingCap
  /\ Len(ring) \in Nat /\ Len(ring') = (Len(ring) + 1) - d /\ Len(ring') >= 1 /\ ring'[Len(ring')] = e
  /\ \A i \in 1 .. Len(ring') - 1 : ring'[i] = ring[i + d]
  /\ IF d = 0 THEN lagged' = lagged ELSE lagged' = TRUE

\* The first of what it has to send is gone.
LEMMA BroadcastTakes ==
  ASSUME SessionTyped, NEW t \in Recorders, Broadcast(t)
  PROVE  Taken(t) /\ carry[t][1] \in EventSet
<1>1. carry \in [Recorders -> Seq(EventSet)] /\ carry[t] \in Seq(EventSet) /\ carry[t] # <<>>
  BY DEF SessionTyped, Broadcast
<1>2. carry' = [carry EXCEPT ![t] = Tail(carry[t])]
  BY DEF Broadcast
<1>3. PICK s \in Seq(EventSet) : s = carry[t]
  BY <1>1
<1>4. PICK r : r = Tail(s)
  OBVIOUS
<1>5. r \in Seq(EventSet) /\ Len(r) = Len(s) - 1 /\ \A i \in 1 .. Len(r) : r[i] = s[i + 1]
  BY <1>1, <1>3, <1>4, HeadTailProperties
<1>6. carry' = [carry EXCEPT ![t] = r]
  BY <1>2, <1>3, <1>4
<1>7. carry'[t] = r /\ carry' \in [Recorders -> Seq(EventSet)] /\ \A u \in Recorders : u # t => carry'[u] = carry[u]
  BY <1>1, <1>5, <1>6
<1>8. Len(s) \in Nat \ {0} /\ s[1] \in EventSet
  BY <1>1, <1>3
<1> QED
  BY <1>3, <1>5, <1>7, <1>8 DEF Taken

\* It is the last in the ring.
LEMMA BroadcastPuts ==
  ASSUME SessionTyped, NEW t \in Recorders, Broadcast(t)
  PROVE  \E d : Put(carry[t][1], d)
<1>1. carry[t] \in Seq(EventSet) /\ carry[t] # <<>> /\ ring \in Seq(EventSet) /\ Len(ring) <= RingCap
  BY DEF SessionTyped, Broadcast
<1>2. PICK e \in EventSet : e = carry[t][1] /\ e = Head(carry[t])
  <2>1. Head(carry[t]) = carry[t][1] /\ Head(carry[t]) \in EventSet
    BY <1>1
  <2> QED
    BY <2>1
<1>3. PICK sent \in Seq(EventSet) : sent = Append(ring, e)
  <2>1. Append(ring, e) \in Seq(EventSet)
    BY <1>1, <1>2
  <2> QED
    BY <2>1
<1>4. /\ Len(sent) = Len(ring) + 1 /\ sent[Len(ring) + 1] = e /\ (\A i \in 1 .. Len(ring) : sent[i] = ring[i])
      /\ sent # <<>>
  BY <1>1, <1>2, <1>3, AppendProperties
<1>5. PICK n \in Nat : n = Len(ring)
  BY <1>1
<1>6. RingCap \in Nat \ {0} /\ n <= RingCap
  BY <1>1, <1>5, CatAssumption
<1>7. IF Len(sent) > RingCap THEN ring' = Tail(sent) /\ lagged' = TRUE ELSE ring' = sent /\ lagged' = lagged
  BY <1>2, <1>3 DEF Broadcast
<1>8. CASE Len(sent) > RingCap
  <2>1. PICK r : r = Tail(sent)
    OBVIOUS
  <2>2. r \in Seq(EventSet) /\ Len(r) = Len(sent) - 1 /\ \A i \in 1 .. Len(r) : r[i] = sent[i + 1]
    BY <1>4, <2>1, HeadTailProperties
  <2>3. Len(r) = n /\ n >= 1
    BY <1>4, <1>5, <1>6, <1>8, <2>2
  <2>4. ring' = r /\ lagged' = TRUE
    BY <1>7, <1>8, <2>1
  <2>5. r[n] = e
    <3>1. n \in 1 .. Len(r)
      BY <2>3
    <3>2. r[n] = sent[n + 1]
      BY <2>2, <3>1
    <3> QED
      BY <1>4, <1>5, <3>2
  <2>6. \A i \in 1 .. n - 1 : r[i] = ring[i + 1]
    <3>1. TAKE i \in 1 .. n - 1
    <3>2. i \in 1 .. Len(r) /\ i + 1 \in 1 .. Len(ring)
      BY <1>5, <2>3
    <3>3. r[i] = sent[i + 1] /\ sent[i + 1] = ring[i + 1]
      BY <1>4, <2>2, <3>2
    <3> QED
      BY <3>3
  <2>7. /\ r \in Seq(EventSet) /\ Len(r) <= RingCap
        /\ Len(ring) \in Nat /\ Len(r) = (Len(ring) + 1) - 1 /\ Len(r) >= 1
    BY <1>5, <1>6, <2>2, <2>3
  <2>8. Put(e, 1)
    BY <2>3, <2>4, <2>5, <2>6, <2>7 DEF Put
  <2> QED
    BY <1>2, <2>8
<1>9. CASE ~(Len(sent) > RingCap)
  <2>1. ring' = sent /\ lagged' = lagged
    BY <1>7, <1>9
  <2>2. Len(sent) = (Len(ring) + 1) - 0 /\ Len(sent) >= 1 /\ Len(sent) <= RingCap /\ Len(ring) \in Nat
    BY <1>4, <1>5, <1>6, <1>9
  <2>3. \A i \in 1 .. Len(sent) - 1 : sent[i] = ring[i + 0]
    <3>1. TAKE i \in 1 .. Len(sent) - 1
    <3>2. i \in 1 .. Len(ring) /\ i + 0 = i
      BY <1>4, <1>5
    <3> QED
      BY <1>4, <3>2
  <2>4. sent[Len(sent)] = e
    BY <1>4
  <2>5. Put(e, 0)
    BY <2>1, <2>2, <2>3, <2>4 DEF Put
  <2> QED
    BY <1>2, <2>5
<1> QED
  BY <1>8, <1>9
\* Who is in order without one of the two.
LEMMA Others ==
  ASSUME NEW t \in Recorders, NEW u \in Recorders, t # u
  PROVE  /\ Selection(<<t>>, Recorders \ {t}) = <<>>
         /\ Selection(<<t, u>>, Recorders \ {t}) = <<u>>
         /\ Selection(<<u, t>>, Recorders \ {t}) = <<u>>
<1> DEFINE S == Recorders \ {t}
<1> HIDE DEF S
<1>0. t \notin S /\ u \in S
  BY DEF S
<1>1. Append(<<>>, u) = <<u>>
  BY Orders
<1>2. Selection(<<t>>, S) = <<>>
  <2>0. <<t>> \in Seq(Recorders)
    BY Few
  <2>1. PICK s \in Seq(Recorders) : s = <<t>> /\ Len(s) = 1 /\ s[1] = t
    <3>1. PICK w \in Seq(Recorders) : w = <<t>>
      BY <2>0
    <3> QED
      BY <3>1
  <2>2. PICK g : Kept(s, S, Len(s), g) /\ Selection(s, S) = g[Len(s)]
    BY <2>1, SelectionKept
  <2>3. g[0] = <<>> /\ g[1] = g[0]
    BY <1>0, <2>1, <2>2 DEF Kept
  <2> QED
    BY <2>1, <2>2, <2>3, Zenon
<1>3. Selection(<<t, u>>, S) = <<u>>
  <2>0. <<t, u>> \in Seq(Recorders)
    BY Few
  <2>1. PICK s \in Seq(Recorders) : s = <<t, u>> /\ Len(s) = 2 /\ s[1] = t /\ s[2] = u
    <3>1. PICK w \in Seq(Recorders) : w = <<t, u>>
      BY <2>0
    <3> QED
      BY <3>1
  <2>2. PICK g : Kept(s, S, Len(s), g) /\ Selection(s, S) = g[Len(s)]
    BY <2>1, SelectionKept
  <2>3. g[0] = <<>> /\ g[1] = g[0] /\ g[2] = Append(g[1], u)
    <3>1. /\ g[0] = <<>>
          /\ \A i \in 1 .. 2 : g[i] = IF s[i] \in S THEN Append(g[i - 1], s[i]) ELSE g[i - 1]
      BY <2>1, <2>2 DEF Kept
    <3>2. g[1] = IF s[1] \in S THEN Append(g[0], s[1]) ELSE g[0]
      <4>1. PICK k \in 1 .. 2 : k = 1 /\ k - 1 = 0
        OBVIOUS
      <4>2. g[k] = IF s[k] \in S THEN Append(g[k - 1], s[k]) ELSE g[k - 1]
        BY <3>1
      <4> QED
        BY <4>1, <4>2, Zenon
    <3>3. g[2] = IF s[2] \in S THEN Append(g[1], s[2]) ELSE g[1]
      <4>1. PICK k \in 1 .. 2 : k = 2 /\ k - 1 = 1
        OBVIOUS
      <4>2. g[k] = IF s[k] \in S THEN Append(g[k - 1], s[k]) ELSE g[k - 1]
        BY <3>1
      <4> QED
        BY <4>1, <4>2, Zenon
    <3> QED
      BY <1>0, <2>1, <3>1, <3>2, <3>3, Zenon
  <2>4. g[2] = <<u>>
    BY <1>1, <2>3, Zenon
  <2> QED
    BY <2>1, <2>2, <2>4, Zenon
<1>4. Selection(<<u, t>>, S) = <<u>>
  <2>0. <<u, t>> \in Seq(Recorders)
    BY Few
  <2>1. PICK s \in Seq(Recorders) : s = <<u, t>> /\ Len(s) = 2 /\ s[1] = u /\ s[2] = t
    <3>1. PICK w \in Seq(Recorders) : w = <<u, t>>
      BY <2>0
    <3> QED
      BY <3>1
  <2>2. PICK g : Kept(s, S, Len(s), g) /\ Selection(s, S) = g[Len(s)]
    BY <2>1, SelectionKept
  <2>3. g[0] = <<>> /\ g[1] = Append(g[0], u) /\ g[2] = g[1]
    <3>1. /\ g[0] = <<>>
          /\ \A i \in 1 .. 2 : g[i] = IF s[i] \in S THEN Append(g[i - 1], s[i]) ELSE g[i - 1]
      BY <2>1, <2>2 DEF Kept
    <3>2. g[1] = IF s[1] \in S THEN Append(g[0], s[1]) ELSE g[0]
      <4>1. PICK k \in 1 .. 2 : k = 1 /\ k - 1 = 0
        OBVIOUS
      <4>2. g[k] = IF s[k] \in S THEN Append(g[k - 1], s[k]) ELSE g[k - 1]
        BY <3>1
      <4> QED
        BY <4>1, <4>2, Zenon
    <3>3. g[2] = IF s[2] \in S THEN Append(g[1], s[2]) ELSE g[1]
      <4>1. PICK k \in 1 .. 2 : k = 2 /\ k - 1 = 1
        OBVIOUS
      <4>2. g[k] = IF s[k] \in S THEN Append(g[k - 1], s[k]) ELSE g[k - 1]
        BY <3>1
      <4> QED
        BY <4>1, <4>2, Zenon
    <3> QED
      BY <1>0, <2>1, <3>1, <3>2, <3>3, Zenon
  <2>4. g[2] = <<u>>
    BY <1>1, <2>3, Zenon
  <2> QED
    BY <2>1, <2>2, <2>4, Zenon
<1> QED
  BY <1>2, <1>3, <1>4 DEF S

\* Sending keeps the order of what is yet to be sent.
LEMMA BroadcastOrder ==
  ASSUME SessionTyped, InOrder, ChangeFirst, NEW t \in Recorders, Broadcast(t)
  PROVE  /\ InOrder' /\ ChangeFirst' /\ \A u \in Recorders : u # t => order # <<u, t>> \/ astray'
         /\ Made(t) <=> carry[t][1].kind = "change"
<1>1. Taken(t)
  BY BroadcastTakes
<1>2. carry[t] # <<>> /\ Head(carry[t]) = carry[t][1]
  BY DEF Broadcast, SessionTyped
<1>3. Made(t) <=> carry[t][1].kind = "change"
  BY <1>2 DEF Made
<1>4. \A i \in 1 .. Len(carry'[t]) : carry'[t][i].kind # "change"
  <2>1. TAKE i \in 1 .. Len(carry'[t])
  <2>2. i + 1 \in 1 .. Len(carry[t]) /\ i + 1 # 1 /\ carry'[t][i] = carry[t][i + 1]
    BY <1>1 DEF Taken
  <2> QED
    BY <2>2 DEF ChangeFirst
<1>5. ~(Made(t))'
  <2>1. carry'[t] # <<>> => 1 \in 1 .. Len(carry'[t])
    BY <1>1 DEF Taken
  <2> QED
    BY <1>4, <2>1 DEF Made
<1>6. \A u \in Recorders : u # t => ((Made(u))' <=> Made(u))
  BY <1>1 DEF Made, Taken
<1>7. ChangeFirst'
  <2>1. \A u \in Recorders : \A i \in 1 .. Len(carry'[u]) : carry'[u][i].kind = "change" => i = 1
    BY <1>1, <1>4 DEF ChangeFirst, Taken
  <2>2. \A i \in 1 .. Len(carry'["worker"]) : carry'["worker"][i].kind = "change"
    <3>1. CASE t # "worker"
      BY <1>1, <3>1 DEF ChangeFirst, Taken, Recorders
    <3>2. CASE t = "worker"
      <4>1. TAKE i \in 1 .. Len(carry'["worker"])
      <4>2. i + 1 \in 1 .. Len(carry[t]) /\ carry'[t][i] = carry[t][i + 1]
        BY <1>1, <3>2 DEF Taken
      <4> QED
        BY <3>2, <4>2 DEF ChangeFirst
    <3> QED
      BY <3>1, <3>2
  <2> QED
    BY <2>1, <2>2 DEF ChangeFirst
<1>8. CASE carry[t][1].kind # "change"
  <2>1. order' = order /\ ~Made(t)
    BY <1>2, <1>3, <1>8 DEF Broadcast
  <2>2. \A u \in Recorders : (Made(u))' <=> Made(u)
    BY <1>5, <1>6, <2>1
  <2>3. InOrder'
    BY <2>1, <2>2 DEF InOrder
  <2>4. \A u \in Recorders : u # t => order # <<u, t>>
    <3>1. CASE order = <<>>
      BY <3>1, Orders
    <3>2. ASSUME NEW w \in Recorders, order = <<w>> PROVE \A u \in Recorders : order # <<u, t>>
      BY <3>2, Orders
    <3>3. ASSUME NEW w \in Recorders, NEW x \in Recorders, order = <<w, x>>, Made(x) PROVE \A u \in Recorders : order # <<u, t>>
      BY <2>1, <3>3, Orders
    <3> QED
      BY <3>1, <3>2, <3>3 DEF InOrder
  <2> QED
    BY <1>3, <1>7, <2>3, <2>4
<1>9. CASE carry[t][1].kind = "change"
  <2>1. order' = Selection(order, Recorders \ {t}) /\ astray' = (astray \/ Head(order) # t) /\ Made(t)
    BY <1>2, <1>3, <1>9 DEF Broadcast
  <2>2. InOrder'
    <3>1. CASE order = <<t>> /\ \A u \in Recorders : Made(u) => u = t
      <4>1. PICK w \in Recorders : w # t
        BY DEF Recorders
      <4>2. order' = <<>>
        BY <2>1, <3>1, <4>1, Others
      <4>3. \A u \in Recorders : ~(Made(u))'
        BY <1>5, <1>6, <3>1
      <4> QED
        BY <4>2, <4>3 DEF InOrder
    <3>2. ASSUME NEW u \in Recorders, u # t, order = <<t, u>> \/ order = <<u, t>>, Made(u) PROVE InOrder'
      <4>1. order' = <<u>>
        BY <2>1, <3>2, Others
      <4>2. (Made(u))' /\ \A w \in Recorders : (Made(w))' => w = u
        <5>1. \A w \in Recorders : w = t \/ w = u
          BY <3>2 DEF Recorders
        <5> QED
          BY <1>5, <1>6, <3>2, <5>1
      <4> QED
        BY <4>1, <4>2 DEF InOrder
    <3>3. ASSUME NEW w \in Recorders, NEW x \in Recorders, w # x, order = <<w, x>>, Made(w), Made(x) PROVE InOrder'
      <4>1. w = t \/ x = t
        BY <3>3 DEF Recorders
      <4> QED
        BY <3>2, <3>3, <4>1
    <3>4. ASSUME NEW w \in Recorders, order = <<w>>, Made(w), \A u \in Recorders : Made(u) => u = w PROVE InOrder'
      BY <2>1, <3>1, <3>4
    <3> QED
      BY <2>1, <3>3, <3>4 DEF InOrder
  <2>3. \A u \in Recorders : u # t => order # <<u, t>> \/ astray'
    <3>1. TAKE u \in Recorders
    <3>2. Head(<<u, t>>) = u
      OBVIOUS
    <3> QED
      BY <2>1, <3>2
  <2> QED
    BY <1>3, <1>7, <2>2, <2>3
<1> QED
  BY <1>8, <1>9
\* Who has sent awaits less, and only by what it sent.
LEMMA BroadcastAwaits ==
  ASSUME SessionTyped, NEW t \in Recorders, Broadcast(t), dialect' = dialect, NEW f
  PROVE  /\ \A u \in Recorders : u # t => ((Awaits(u, f))' <=> Awaits(u, f))
         /\ ~Says(f, carry[t][1]) => ((Awaited(f))' <=> Awaited(f))
<1>1. Taken(t)
  BY BroadcastTakes
<1>2. \A u : (Awaits(u, f))' <=> \E i \in 1 .. Len(carry'[u]) : Says(f, carry'[u][i])
  BY Then
<1>3. \A u \in Recorders : u # t => ((Awaits(u, f))' <=> Awaits(u, f))
  BY <1>1, <1>2 DEF Taken, Awaits
<1>4. ASSUME ~Says(f, carry[t][1]) PROVE (Awaits(t, f))' <=> Awaits(t, f)
  <2>1. ASSUME NEW i \in 1 .. Len(carry'[t]), Says(f, carry'[t][i]) PROVE Awaits(t, f)
    <3>1. i + 1 \in 1 .. Len(carry[t]) /\ carry'[t][i] = carry[t][i + 1]
      BY <1>1 DEF Taken
    <3> QED
      BY <2>1, <3>1 DEF Awaits
  <2>2. ASSUME NEW i \in 1 .. Len(carry[t]), Says(f, carry[t][i]) PROVE (Awaits(t, f))'
    <3>1. i # 1
      BY <1>4, <2>2
    <3>2. i - 1 \in 1 .. Len(carry'[t]) /\ (i - 1) + 1 = i
      BY <1>1, <3>1 DEF Taken
    <3>3. carry'[t][i - 1] = carry[t][i]
      BY <1>1, <3>2 DEF Taken
    <3> QED
      BY <1>2, <2>2, <3>2, <3>3
  <2> QED
    BY <1>2, <2>1, <2>2 DEF Awaits
<1>5. ASSUME ~Says(f, carry[t][1]) PROVE (Awaited(f))' <=> Awaited(f)
  BY <1>3, <1>4, <1>5, Then DEF Awaited
<1> QED
  BY <1>3, <1>5

\* What comes last in the ring is so, or more is yet to be sent.
LEMMA BroadcastNews ==
  ASSUME SessionTyped, InOrder, ChangeFirst, NEW t \in Recorders, Broadcast(t),
         dialect' = dialect, snap' = snap, missed' = missed, NEW f \in Fields, NewsRight(f)
  PROVE  (NewsRight(f))'
<1> SUFFICES ASSUME Sure' PROVE (AwaitedRight(f))' /\ (~(Awaited(f))' => (LastRight(f))')
  BY DEF NewsRight
<1>1. Taken(t)
  BY BroadcastTakes
<1>2. PICK d : Put(carry[t][1], d)
  BY BroadcastPuts
<1>3. ~astray' /\ Sure
  BY Then DEF Sure, Broadcast, SessionTyped
<1>4. AwaitedRight(f) /\ (~Awaited(f) => LastRight(f))
  BY <1>3 DEF NewsRight
<1>5. /\ \A u \in Recorders : u # t => ((Awaits(u, f))' <=> Awaits(u, f))
      /\ ~Says(f, carry[t][1]) => ((Awaited(f))' <=> Awaited(f))
  BY BroadcastAwaits
<1>6. \A u, w \in Recorders : order = <<u, w>> => u # w /\ w # t
  <2>1. SUFFICES ASSUME NEW u \in Recorders, NEW w \in Recorders, order = <<u, w>> PROVE u # w /\ w # t
    OBVIOUS
  <2>2. u # w
    BY <2>1, Orders DEF InOrder
  <2>3. ~(u # t /\ w = t)
    BY <1>3, <2>1, BroadcastOrder
  <2> QED
    BY <2>2, <2>3
<1>7. ASSUME NEW u \in Recorders, u # t, NEW i \in 1 .. Len(carry[u]), Says(f, carry[u][i]) PROVE Value(carry[u][i]) = snap[f]
  <2>1. \A w \in Recorders : order = <<u, w>> => FALSE
    BY <1>6, <1>7 DEF Recorders
  <2> QED
    BY <1>4, <1>7, <2>1 DEF AwaitedRight
<1>8. ASSUME NEW i \in 2 .. Len(carry[t]), Says(f, carry[t][i]) PROVE Value(carry[t][i]) = snap[f]
  <2>1. i \in 1 .. Len(carry[t]) /\ i # 1
    BY <1>1 DEF Taken
  <2>2. carry[t][i].kind # "change"
    BY <2>1 DEF ChangeFirst
  <2>3. dialect = "transparent" /\ t # "worker"
    BY <1>8, <2>1, <2>2 DEF Says, ChangeFirst
  <2>4. \A w \in Recorders : order = <<t, w>> => ~Awaits(w, f)
    <3>1. SUFFICES ASSUME NEW w \in Recorders, order = <<t, w>> PROVE ~Awaits(w, f)
      OBVIOUS
    <3>2. w = "worker"
      BY <1>6, <2>3, <3>1 DEF Recorders
    <3> QED
      BY <2>3, <3>2 DEF Awaits, ChangeFirst, Says
  <2> QED
    BY <1>4, <1>8, <2>1, <2>4 DEF AwaitedRight
<1>9. (AwaitedRight(f))'
  <2>1. ASSUME NEW u \in Recorders, NEW i \in 1 .. Len(carry'[u]), Says(f, carry'[u][i]) PROVE Value(carry'[u][i]) = snap'[f]
    <3>1. CASE u # t
      BY <1>1, <1>7, <2>1, <3>1 DEF Taken
    <3>2. CASE u = t
      <4>1. i + 1 \in 2 .. Len(carry[t]) /\ carry'[t][i] = carry[t][i + 1]
        BY <1>1, <3>2 DEF Taken
      <4> QED
        BY <1>8, <2>1, <3>2, <4>1
    <3> QED
      BY <3>1, <3>2
  <2> QED
    BY <2>1, Then
<1>10. ASSUME ~(Awaited(f))' PROVE (LastRight(f))'
  <2>1. SUFFICES ASSUME NEW i \in 1 .. Len(ring'), Says(f, ring'[i]), \A j \in 1 .. Len(ring') : i < j => ~Says(f, ring'[j])
                 PROVE  Value(ring'[i]) = snap[f]
    BY Then
  <2>2. PICK n \in Nat : n = Len(ring') /\ n >= 1 /\ ring'[n] = carry[t][1]
    BY <1>2 DEF Put
  <2>3. CASE Says(f, carry[t][1])
    <3>1. i = n
      <4>1. n \in 1 .. Len(ring') /\ ~(i < n)
        BY <2>1, <2>2, <2>3
      <4> QED
        BY <2>1, <2>2, <4>1
    <3>2. \A w \in Recorders : order = <<t, w>> => ~Awaits(w, f)
      BY <1>5, <1>6, <1>10, Then
    <3>3. 1 \in 1 .. Len(carry[t])
      BY <1>1 DEF Taken
    <3>4. Value(carry[t][1]) = snap[f]
      BY <1>4, <2>3, <3>2, <3>3 DEF AwaitedRight
    <3> QED
      BY <2>2, <3>1, <3>4
  <2>4. CASE ~Says(f, carry[t][1])
    <3>1. LastRight(f)
      BY <1>4, <1>5, <1>10, <2>4
    <3>2. i # n
      BY <2>1, <2>2, <2>4
    <3>3. PICK m \in Nat : m = Len(ring) /\ d \in {0, 1} /\ n = (m + 1) - d
      BY <1>2, <2>2 DEF Put
    <3>4. i \in 1 .. n - 1 /\ i + d \in 1 .. m
      BY <2>1, <2>2, <3>2, <3>3
    <3>5. ring'[i] = ring[i + d]
      BY <1>2, <2>2, <3>4 DEF Put
    <3>6. ASSUME NEW j \in 1 .. m, i + d < j PROVE ~Says(f, ring[j])
      <4>1. j - d \in 1 .. n - 1 /\ i < j - d /\ j - d \in 1 .. Len(ring') /\ (j - d) + d = j
        BY <2>2, <3>3, <3>4, <3>6
      <4>2. ring'[j - d] = ring[(j - d) + d]
        BY <1>2, <2>2, <4>1 DEF Put
      <4> QED
        BY <2>1, <4>1, <4>2
    <3>7. Value(ring[i + d]) = snap[f]
      <4>1. PICK k : k = i + d
        OBVIOUS
      <4>2. k \in 1 .. Len(ring) /\ Says(f, ring[k]) /\ \A j \in 1 .. Len(ring) : k < j => ~Says(f, ring[j])
        BY <2>1, <3>3, <3>4, <3>5, <3>6, <4>1
      <4> QED
        BY <3>1, <4>1, <4>2 DEF LastRight
    <3> QED
      BY <3>5, <3>7
  <2> QED
    BY <2>3, <2>4
<1> QED
  BY <1>9, <1>10

\* What the client shows stays right, as what is sent is not settled.
LEMMA BroadcastView ==
  ASSUME SessionTyped, NEW t \in Recorders, Broadcast(t), dialect' = dialect, snap' = snap, missed' = missed,
         view' = view, ViewRight
  PROVE  ViewRight'
<1> SUFFICES ASSUME ~lagged', ~missed', ~astray'
             PROVE  /\ (dialect \in {"ts590", "transparent"} => \A f \in {"rx", "freqA", "freqB"} : ShowsField(f))'
                    /\ (dialect \in {"single", "ts2000"} => ShowsOperating)'
                    /\ (dialect # "transparent" => ShowsMode)'
  BY DEF ViewRight
<1>1. PICK d : Put(carry[t][1], d)
  BY BroadcastPuts
<1>2. ~lagged /\ ~missed /\ ~astray /\ d = 0
  BY <1>1 DEF Put, Broadcast, SessionTyped
<1>3. /\ dialect \in {"ts590", "transparent"} => \A f \in {"rx", "freqA", "freqB"} : ShowsField(f)
      /\ dialect \in {"single", "ts2000"} => ShowsOperating
      /\ dialect # "transparent" => ShowsMode
  BY <1>2 DEF ViewRight
<1>4. ASSUME NEW f, (Settled(f))' PROVE Settled(f)
  <2>1. (Silent(f))' /\ ~(Awaited(f))'
    BY <1>4 DEF Settled
  <2>2. PICK m \in Nat : m = Len(ring) /\ Len(ring') = m + 1
    BY <1>1, <1>2 DEF Put
  <2>3. ring'[m + 1] = carry[t][1] /\ \A i \in 1 .. m : ring'[i] = ring[i]
    <3>1. ring'[m + 1] = carry[t][1]
      BY <1>1, <2>2 DEF Put
    <3>2. ASSUME NEW i \in 1 .. m PROVE ring'[i] = ring[i]
      <4>1. i \in 1 .. Len(ring') - 1 /\ i + d = i
        BY <1>2, <2>2
      <4> QED
        BY <1>1, <4>1 DEF Put
    <3> QED
      BY <3>1, <3>2
  <2>4. \A i \in 1 .. m + 1 : ~Says(f, ring'[i])
    BY <2>1, <2>2, Then
  <2>5. ~Says(f, carry[t][1])
    BY <2>2, <2>3, <2>4
  <2>6. ~Awaited(f)
    BY <2>1, <2>5, BroadcastAwaits
  <2>7. Silent(f)
    BY <2>2, <2>3, <2>4 DEF Silent
  <2> QED
    BY <2>6, <2>7 DEF Settled
<1>5. (dialect \in {"ts590", "transparent"} => \A f \in {"rx", "freqA", "freqB"} : ShowsField(f))'
  BY <1>3, <1>4 DEF ShowsField
<1>6. (dialect \in {"single", "ts2000"} => ShowsOperating)'
  BY <1>3, <1>4 DEF ShowsOperating
<1>7. (dialect # "transparent" => ShowsMode)'
  BY <1>3, <1>4 DEF ShowsMode
<1> QED
  BY <1>5, <1>6, <1>7

\* A recorder sends the next of what it has to send.
LEMMA BroadcastFollows == ASSUME FollowInv, NEW t \in Recorders, Broadcast(t) PROVE FollowInv'
<1>1. SessionTyped /\ InOrder /\ ChangeFirst /\ (\A f \in Fields : NewsRight(f)) /\ ViewRight
  BY DEF FollowInv
<1>2. /\ dialect' = dialect /\ perms' = perms /\ ai' = ai /\ op' = op /\ snap' = snap /\ view' = view /\ missed' = missed
  BY DEF Broadcast, endpoint
<1>3. Taken(t)
  BY <1>1, BroadcastTakes
<1>4. PICK d : Put(carry[t][1], d)
  BY <1>1, BroadcastPuts
<1>5. lagged' \in BOOLEAN /\ astray' \in BOOLEAN
  BY <1>1, <1>4 DEF Put, Broadcast, SessionTyped
<1>6. OpTyped'
  BY <1>1, <1>2 DEF SessionTyped, OpTyped
<1>7. SessionTyped'
  BY <1>1, <1>2, <1>3, <1>4, <1>5, <1>6 DEF SessionTyped, Taken, Put
<1>8. InOrder' /\ ChangeFirst'
  BY <1>1, BroadcastOrder
<1>9. \A f \in Fields : (NewsRight(f))'
  BY <1>1, <1>2, BroadcastNews
<1>10. ViewRight'
  BY <1>1, <1>2, BroadcastView
<1> QED
  BY <1>7, <1>8, <1>9, <1>10 DEF FollowInv
\* What a client makes of the radio's own frames.
LEMMA ShowsRadio ==
  ASSUME NEW v \in Views
  PROVE  /\ \A frame \in Unmodelled : ShowAll(v, <<frame>>) = v
         /\ \A frame \in Modelled :
              /\ ShowAll(v, <<frame>>) \in Views
              /\ \A f \in {"rx", "freqA", "freqB"} :
                   /\ frame.verb = NativeVerb(f) => ShowAll(v, <<frame>>)[f] = frame.arg
                   /\ frame.verb # NativeVerb(f) => ShowAll(v, <<frame>>)[f] = v[f]
<1>1. ASSUME NEW frame \in Unmodelled PROVE ShowAll(v, <<frame>>) = v
  <2>1. frame \in Frames /\ frame.verb = "NB"
    BY DEF Unmodelled, Frames
  <2> QED
    BY <2>1, ShowOne, ShowFields
<1>2. ASSUME NEW frame \in Modelled
      PROVE  \E u \in Views : /\ u = ShowAll(v, <<frame>>)
                              /\ u.rx = (IF frame.verb = "FR" THEN frame.arg ELSE v.rx)
                              /\ u.freqA = (IF frame.verb = "FA" THEN frame.arg ELSE v.freqA)
                              /\ u.freqB = (IF frame.verb = "FB" THEN frame.arg ELSE v.freqB)
  <2>1. frame \in Frames
    BY DEF Modelled, Frames
  <2>2. ShowAll(v, <<frame>>) = Show(v, frame)
    BY ShowOne
  <2>3. CASE frame.verb = "FA"
    BY <2>1, <2>2, <2>3, ShowFA
  <2>4. CASE frame.verb = "FB"
    BY <2>1, <2>2, <2>4, ShowFB
  <2>5. CASE frame.verb = "FR"
    BY <2>1, <2>2, <2>5, ShowFR
  <2>6. CASE frame.verb = "MD"
    BY <2>1, <2>2, <2>6, ShowMD
  <2> QED
    BY <2>3, <2>4, <2>5, <2>6 DEF Modelled
<1>3. ASSUME NEW frame \in Modelled, NEW f \in {"rx", "freqA", "freqB"}
      PROVE  /\ frame.verb = NativeVerb(f) => ShowAll(v, <<frame>>)[f] = frame.arg
             /\ frame.verb # NativeVerb(f) => ShowAll(v, <<frame>>)[f] = v[f]
  <2>1. PICK u \in Views : /\ u = ShowAll(v, <<frame>>)
                           /\ u.rx = (IF frame.verb = "FR" THEN frame.arg ELSE v.rx)
                           /\ u.freqA = (IF frame.verb = "FA" THEN frame.arg ELSE v.freqA)
                           /\ u.freqB = (IF frame.verb = "FB" THEN frame.arg ELSE v.freqB)
    BY <1>2
  <2>2. CASE f = "rx"
    BY <2>1, <2>2 DEF NativeVerb
  <2>3. CASE f = "freqA"
    BY <2>1, <2>3 DEF NativeVerb
  <2>4. CASE f = "freqB"
    BY <2>1, <2>4 DEF NativeVerb
  <2> QED
    BY <2>2, <2>3, <2>4
<1> QED
  BY <1>1, <1>2, <1>3

\* What is read is no longer to be read.
LEMMA ReadTakes ==
  ASSUME SessionTyped, ring # <<>>, ring' = Tail(ring), dialect' = dialect, snap' = snap, carry' = carry
  PROVE  /\ ring' \in Seq(EventSet) /\ Len(ring') <= RingCap /\ Head(ring) \in EventSet
         /\ \A f : /\ (Awaited(f))' <=> Awaited(f)
                   /\ LastRight(f) => (LastRight(f))'
                   /\ (Silent(f))' /\ Says(f, Head(ring)) /\ LastRight(f) => Value(Head(ring)) = snap[f]
                   /\ (Silent(f))' /\ ~Says(f, Head(ring)) => Silent(f)
<1>1. PICK s \in Seq(EventSet) : s = ring /\ s # <<>> /\ Len(s) <= RingCap
  BY DEF SessionTyped
<1>2. PICK r : r = Tail(s)
  OBVIOUS
<1>3. r \in Seq(EventSet) /\ Len(r) = Len(s) - 1 /\ \A i \in 1 .. Len(r) : r[i] = s[i + 1]
  BY <1>1, <1>2, HeadTailProperties
<1>4. PICK n \in Nat \ {0} : n = Len(s) /\ n <= RingCap
  <2>1. Len(s) \in Nat \ {0}
    BY <1>1
  <2> QED
    BY <1>1, <2>1
<1>5. PICK e \in EventSet : e = Head(ring) /\ e = s[1]
  <2>1. Head(s) \in EventSet /\ Head(s) = s[1]
    BY <1>1
  <2> QED
    BY <1>1, <2>1
<1>6. /\ ring' = r /\ Len(ring') = n - 1 /\ \A i \in 1 .. n - 1 : ring'[i] = ring[i + 1]
  BY <1>1, <1>2, <1>3, <1>4
<1>7. RingCap \in Nat
  BY CatAssumption
<1>8. Len(ring') <= RingCap
  BY <1>4, <1>6, <1>7
<1>9. Len(ring) = n /\ ring[1] = e
  BY <1>1, <1>4, <1>5
<1>10. ASSUME NEW f PROVE (Awaited(f))' <=> Awaited(f)
  BY DEF Awaited, Awaits, Says
<1>11. ASSUME NEW f, LastRight(f) PROVE (LastRight(f))'
  <2>1. SUFFICES ASSUME NEW i \in 1 .. n - 1, Says(f, ring'[i]), \A j \in 1 .. n - 1 : i < j => ~Says(f, ring'[j])
                 PROVE  Value(ring'[i]) = snap[f]
    BY <1>6, Then
  <2>2. PICK k \in 1 .. n : k = i + 1
    BY <1>4
  <2>3. ring'[i] = ring[k]
    BY <1>6, <2>2
  <2>4. ASSUME NEW j \in 1 .. n, k < j PROVE ~Says(f, ring[j])
    <3>1. j - 1 \in 1 .. n - 1 /\ i < j - 1 /\ (j - 1) + 1 = j
      BY <2>2, <2>4
    <3>2. ring'[j - 1] = ring[j]
      BY <1>6, <3>1
    <3> QED
      BY <2>1, <3>1, <3>2
  <2> QED
    BY <1>9, <1>11, <2>1, <2>3, <2>4 DEF LastRight
<1>12. ASSUME NEW f, (Silent(f))' PROVE \A i \in 2 .. n : ~Says(f, ring[i])
  <2>1. TAKE i \in 2 .. n
  <2>2. i - 1 \in 1 .. n - 1 /\ (i - 1) + 1 = i
    OBVIOUS
  <2>3. ring'[i - 1] = ring[i]
    BY <1>6, <2>2
  <2>4. ~Says(f, ring'[i - 1])
    BY <1>6, <1>12, <2>2, Then
  <2> QED
    BY <2>3, <2>4
<1>13. ASSUME NEW f, (Silent(f))', Says(f, e), LastRight(f) PROVE Value(e) = snap[f]
  <2>1. \A i \in 2 .. n : ~Says(f, ring[i])
    BY <1>12, <1>13
  <2>2. 1 \in 1 .. n /\ \A j \in 1 .. n : 1 < j => j \in 2 .. n
    OBVIOUS
  <2> QED
    BY <1>9, <1>13, <2>1, <2>2 DEF LastRight
<1>14. ASSUME NEW f, (Silent(f))', ~Says(f, e) PROVE Silent(f)
  <2>1. \A i \in 2 .. n : ~Says(f, ring[i])
    BY <1>12, <1>14
  <2>2. \A j \in 1 .. n : j = 1 \/ j \in 2 .. n
    OBVIOUS
  <2> QED
    BY <1>9, <1>14, <2>1, <2>2 DEF Silent
<1> QED
  BY <1>3, <1>5, <1>6, <1>8, <1>10, <1>11, <1>13, <1>14
\* What a client shows when it reads an event, of which it shows all but what that says.
LEMMA ReadShows ==
  ASSUME dialect \in Dialects, Fits(snap), view \in Views, NEW e \in EventSet, NEW w, w = ShowAll(view, Told(snap, e))
  PROVE  /\ w \in Views
         /\ dialect \in {"ts590", "transparent"} => \A f \in {"rx", "freqA", "freqB"} :
              (Says(f, e) => Value(e) = snap[f]) /\ (Says(f, e) \/ view[f] = snap[f]) => w[f] = snap[f]
         /\ dialect \in {"single", "ts2000"} => \A f \in {"freqA", "freqB"} : f = FreqOf(snap.rx) =>
              ((Says(f, e) => Value(e) = snap[f]) /\ (Says(f, e) \/ Says("rx", e) \/ view.freqA = snap[f]) => w.freqA = snap[f])
         /\ dialect # "transparent" => \A f \in {"modeA", "modeB"} : f = ModeOf(snap.rx) =>
              ((Says(f, e) => Value(e) = snap[f]) /\ (Says(f, e) \/ Says("rx", e) \/ view.digit = ToDigit(snap[f]))
                 => w.digit = ToDigit(snap[f]))
<1>1. /\ e.kind \in {"change", "raw", "native"}
      /\ e.kind = "change" => e.ch \in Changed
      /\ e.kind = "raw" => e.frame \in Unmodelled
      /\ e.kind = "native" => e.frame \in Modelled
  BY EventFields
<1>2. PICK frames : frames = Told(snap, e)
  OBVIOUS
<1>3. w = ShowAll(view, frames)
  BY <1>2
<1>4. CASE w = view /\ \A f : ~Says(f, e)
  BY <1>4
<1>5. CASE e.kind = "raw"
  <2>1. frames = <<e.frame>> \/ frames = <<>>
    BY <1>2, <1>5 DEF Told
  <2>2. w = view
    <3>1. ShowAll(view, <<e.frame>>) = view
      BY <1>1, <1>5, ShowsRadio
    <3>2. ShowAll(view, <<>>) = view
      BY ShowNone
    <3> QED
      BY <1>3, <2>1, <3>1, <3>2
  <2>3. \A f : ~Says(f, e)
    BY <1>5 DEF Says
  <2> QED
    BY <1>4, <2>2, <2>3
<1>6. CASE e.kind = "native" /\ dialect # "transparent"
  <2>1. frames = <<>>
    BY <1>2, <1>6 DEF Told
  <2>2. w = view
    BY <1>3, <2>1, ShowNone
  <2>3. \A f : ~Says(f, e)
    BY <1>6 DEF Says
  <2> QED
    BY <1>4, <2>2, <2>3
<1>7. CASE e.kind = "change" /\ dialect = "transparent"
  <2>1. frames = <<>>
    BY <1>2, <1>7 DEF Told, Notification
  <2>2. w = view
    BY <1>3, <2>1, ShowNone
  <2>3. \A f : ~Says(f, e)
    BY <1>7 DEF Says
  <2> QED
    BY <1>4, <2>2, <2>3
<1>8. CASE e.kind = "native" /\ dialect = "transparent"
  <2>1. frames = <<e.frame>>
    BY <1>2, <1>8 DEF Told
  <2>2. w = ShowAll(view, <<e.frame>>)
    BY <1>3, <2>1
  <2>3. w \in Views
    BY <1>1, <1>8, <2>2, ShowsRadio
  <2>4. ASSUME NEW f \in {"rx", "freqA", "freqB"}, Says(f, e) => Value(e) = snap[f], Says(f, e) \/ view[f] = snap[f]
        PROVE  w[f] = snap[f]
    <3>1. /\ e.frame.verb = NativeVerb(f) => w[f] = e.frame.arg
          /\ e.frame.verb # NativeVerb(f) => w[f] = view[f]
      BY <1>1, <1>8, <2>2, ShowsRadio
    <3>2. Says(f, e) <=> e.frame.verb = NativeVerb(f)
      BY <1>8 DEF Says
    <3>3. Value(e) = e.frame.arg
      BY <1>8 DEF Value
    <3> QED
      BY <2>4, <3>1, <3>2, <3>3
  <2> QED
    BY <1>8, <2>3, <2>4
<1>9. CASE e.kind = "change" /\ dialect # "transparent"
  <2>1. PICK ch \in Changed : ch = e.ch
    BY <1>1, <1>9
  <2>2. frames = Notification(dialect, snap, ch)
    BY <1>2, <1>9, <2>1 DEF Told
  <2>3. /\ \A f : Says(f, e) <=> ch.field = f
        /\ Value(e) = ch.new
    BY <1>9, <2>1 DEF Says, Value
  <2>4. Moves(ch) \/ Untold(ch)
    BY ChangedFields
  <2>5. \A f \in {"modeA", "modeB"} : f = ModeOf(snap.rx) => OpDigit(snap) = ToDigit(snap[f])
    BY DEF OpDigit
  <2>6. \A f \in {"freqA", "freqB"} : f = FreqOf(snap.rx) => OpFreq(snap) = snap[f]
    BY DEF OpFreq
  <2>7. CASE dialect = "ts590"
    <3>1. frames = Notification("ts590", snap, ch)
      BY <2>2, <2>7
    <3>2. /\ w \in Views
          /\ \A f \in {"rx", "freqA", "freqB"} :
              (ch.field = f => ch.new = snap[f]) /\ (ch.field = f \/ view[f] = snap[f]) => w[f] = snap[f]
          /\ ch.field \in {"rx", ModeOf(snap.rx)} \/ view.digit = OpDigit(snap) => w.digit = OpDigit(snap)
      BY <1>3, <2>4, <2>7, <3>1, ShowsTs590
    <3> QED
      BY <2>3, <2>5, <2>7, <3>2
  <2>8. CASE dialect \in {"single", "ts2000"}
    <3>1. /\ w \in Views
          /\ (ch.field = FreqOf(snap.rx) => ch.new = OpFreq(snap)) /\ (ch.field \in {"rx", FreqOf(snap.rx)} \/ view.freqA = OpFreq(snap))
               => w.freqA = OpFreq(snap)
          /\ (ch.field = ModeOf(snap.rx) => ch.new = snap[ModeOf(snap.rx)]) /\ (ch.field \in {"rx", ModeOf(snap.rx)} \/ view.digit = OpDigit(snap))
               => w.digit = OpDigit(snap)
      BY <1>3, <2>2, <2>4, <2>8, ShowsSingle
    <3> QED
      BY <2>3, <2>5, <2>6, <2>8, <3>1
  <2> QED
    BY <1>9, <2>7, <2>8 DEF Dialects
<1> QED
  BY <1>1, <1>5, <1>6, <1>7, <1>8, <1>9

\* The session reads an event.
LEMMA ReadFollows == ASSUME FollowInv, ReadEvent PROVE FollowInv'
<1>1. SessionTyped /\ InOrder /\ ChangeFirst /\ (\A f \in Fields : NewsRight(f)) /\ ViewRight
  BY DEF FollowInv
<1>2. /\ dialect' = dialect /\ perms' = perms /\ ai' = ai /\ op' = op /\ snap' = snap /\ carry' = carry /\ order' = order
      /\ lagged' = lagged /\ astray' = astray /\ ~lagged /\ ring # <<>> /\ ring' = Tail(ring)
  BY DEF ReadEvent, endpoint
<1>3. PICK e : e = Head(ring)
  OBVIOUS
<1>4. /\ ring' \in Seq(EventSet) /\ Len(ring') <= RingCap /\ e \in EventSet
      /\ \A f : /\ (Awaited(f))' <=> Awaited(f)
                /\ LastRight(f) => (LastRight(f))'
                /\ (Silent(f))' /\ Says(f, e) /\ LastRight(f) => Value(e) = snap[f]
                /\ (Silent(f))' /\ ~Says(f, e) => Silent(f)
  BY <1>1, <1>2, <1>3, ReadTakes
<1>5. (ai /\ view' = ShowAll(view, Told(snap, e)) /\ missed' = missed) \/ (~ai /\ missed' = TRUE /\ view' = view)
  BY <1>3 DEF ReadEvent
<1>6. Fits(snap) /\ view \in Views /\ dialect \in Dialects /\ missed \in BOOLEAN
  BY <1>1 DEF SessionTyped
<1>7. view' \in Views /\ missed' \in BOOLEAN
  BY <1>4, <1>5, <1>6, ReadShows
<1>8. OpTyped'
  BY <1>1, <1>2 DEF SessionTyped, OpTyped
<1>9. SessionTyped'
  BY <1>1, <1>2, <1>4, <1>7, <1>8 DEF SessionTyped
<1>10. InOrder' /\ ChangeFirst'
  BY <1>1, <1>2 DEF InOrder, ChangeFirst, Made
<1>11. ASSUME NEW f \in Fields PROVE (NewsRight(f))'
  <2>1. Sure' => Sure
    BY <1>2, <1>5, <1>6 DEF Sure
  <2>2. AwaitedRight(f) => (AwaitedRight(f))'
    BY <1>2 DEF AwaitedRight, Awaits, Says, Value
  <2> QED
    BY <1>1, <1>4, <2>1, <2>2 DEF NewsRight
<1>12. ViewRight'
  <2> SUFFICES ASSUME ~lagged', ~missed', ~astray'
               PROVE  /\ (dialect \in {"ts590", "transparent"} => \A f \in {"rx", "freqA", "freqB"} : ShowsField(f))'
                      /\ (dialect \in {"single", "ts2000"} => ShowsOperating)'
                      /\ (dialect # "transparent" => ShowsMode)'
    BY DEF ViewRight
  <2>1. ai /\ ~missed /\ ~astray /\ view' = ShowAll(view, Told(snap, e))
    BY <1>2, <1>5, <1>6
  <2>2. /\ dialect \in {"ts590", "transparent"} => \A f \in {"rx", "freqA", "freqB"} : ShowsField(f)
        /\ dialect \in {"single", "ts2000"} => ShowsOperating
        /\ dialect # "transparent" => ShowsMode
    BY <1>1, <1>2, <2>1 DEF ViewRight
  <2>3. ASSUME NEW f \in Fields, (Settled(f))'
        PROVE  (Says(f, e) => Value(e) = snap[f]) /\ (Says(f, e) \/ Settled(f))
    <3>1. (Silent(f))' /\ ~Awaited(f)
      BY <1>4, <2>3 DEF Settled
    <3>2. NewsRight(f) /\ Sure
      BY <1>1, <2>1 DEF Sure
    <3>3. LastRight(f)
      BY <3>1, <3>2 DEF NewsRight
    <3> QED
      BY <1>4, <3>1, <3>3 DEF Settled
  <2>4. PICK w : w = view' /\ w = ShowAll(view, Told(snap, e))
    BY <2>1
  <2>5. /\ dialect \in {"ts590", "transparent"} => \A f \in {"rx", "freqA", "freqB"} :
              (Says(f, e) => Value(e) = snap[f]) /\ (Says(f, e) \/ view[f] = snap[f]) => w[f] = snap[f]
        /\ dialect \in {"single", "ts2000"} => \A f \in {"freqA", "freqB"} : f = FreqOf(snap.rx) =>
              ((Says(f, e) => Value(e) = snap[f]) /\ (Says(f, e) \/ Says("rx", e) \/ view.freqA = snap[f]) => w.freqA = snap[f])
        /\ dialect # "transparent" => \A f \in {"modeA", "modeB"} : f = ModeOf(snap.rx) =>
              ((Says(f, e) => Value(e) = snap[f]) /\ (Says(f, e) \/ Says("rx", e) \/ view.digit = ToDigit(snap[f]))
                 => w.digit = ToDigit(snap[f]))
    BY <1>4, <1>6, <2>4, ReadShows
  <2>6. (dialect \in {"ts590", "transparent"} => \A f \in {"rx", "freqA", "freqB"} : ShowsField(f))'
    <3>1. ASSUME dialect \in {"ts590", "transparent"}, NEW f \in {"rx", "freqA", "freqB"}, (Settled(f))' PROVE w[f] = snap[f]
      <4>1. f \in Fields
        BY DEF Fields
      <4>2. (Says(f, e) => Value(e) = snap[f]) /\ (Says(f, e) \/ Settled(f))
        BY <2>3, <3>1, <4>1
      <4>3. Says(f, e) \/ view[f] = snap[f]
        BY <2>2, <3>1, <4>2 DEF ShowsField
      <4> QED
        BY <2>5, <3>1, <4>2, <4>3
    <3> QED
      BY <1>2, <2>4, <3>1 DEF ShowsField
  <2>7. (dialect \in {"single", "ts2000"} => ShowsOperating)'
    <3>1. ASSUME dialect \in {"single", "ts2000"}, NEW f \in {"freqA", "freqB"}, f = FreqOf(snap.rx), (Settled("rx"))', (Settled(f))'
          PROVE  w.freqA = snap[f]
      <4>1. f \in Fields /\ "rx" \in Fields
        BY DEF Fields
      <4>2. (Says(f, e) => Value(e) = snap[f]) /\ (Says(f, e) \/ Settled(f))
        BY <2>3, <3>1, <4>1
      <4>3. Says("rx", e) \/ Settled("rx")
        BY <2>3, <3>1, <4>1
      <4>4. Says(f, e) \/ Says("rx", e) \/ view.freqA = snap[f]
        BY <2>2, <3>1, <4>2, <4>3 DEF ShowsOperating
      <4> QED
        BY <2>5, <3>1, <4>2, <4>4
    <3> QED
      BY <1>2, <2>4, <3>1 DEF ShowsOperating
  <2>8. (dialect # "transparent" => ShowsMode)'
    <3>1. ASSUME dialect # "transparent", NEW f \in {"modeA", "modeB"}, f = ModeOf(snap.rx), (Settled("rx"))', (Settled(f))'
          PROVE  w.digit = ToDigit(snap[f])
      <4>1. f \in Fields /\ "rx" \in Fields
        BY DEF Fields
      <4>2. (Says(f, e) => Value(e) = snap[f]) /\ (Says(f, e) \/ Settled(f))
        BY <2>3, <3>1, <4>1
      <4>3. Says("rx", e) \/ Settled("rx")
        BY <2>3, <3>1, <4>1
      <4>4. Says(f, e) \/ Says("rx", e) \/ view.digit = ToDigit(snap[f])
        BY <2>2, <3>1, <4>2, <4>3 DEF ShowsMode
      <4> QED
        BY <2>5, <3>1, <4>2, <4>4
    <3> QED
      BY <1>2, <2>4, <3>1 DEF ShowsMode
  <2> QED
    BY <2>6, <2>7, <2>8
<1> QED
  BY <1>9, <1>10, <1>11, <1>12 DEF FollowInv
\* A session that lost events presents the snapshot anew.
LEMMA LagFollows == ASSUME FollowInv, Lag PROVE FollowInv'
<1>1. SessionTyped /\ InOrder /\ ChangeFirst /\ (\A f \in Fields : NewsRight(f)) /\ ViewRight
  BY DEF FollowInv
<1>2. /\ dialect' = dialect /\ perms' = perms /\ ai' = ai /\ op' = op /\ snap' = snap /\ carry' = carry /\ order' = order
      /\ ring' = ring /\ astray' = astray /\ lagged' = FALSE
  BY DEF Lag, endpoint
<1>3. Fits(snap) /\ view \in Views /\ dialect \in Dialects /\ missed \in BOOLEAN /\ ai \in BOOLEAN
  BY <1>1 DEF SessionTyped
<1>4. (ai /\ view' = ShowAll(view, Resync(dialect, snap))) \/ (~ai /\ view' = view)
  BY <1>3 DEF Lag
<1>5. /\ missed' \in BOOLEAN /\ (~missed' => ai) /\ (dialect = "transparent" /\ ~missed' => ~missed)
  <2>1. missed' = IF dialect = "transparent" THEN missed \/ ~ai ELSE ~ai
    BY DEF Lag
  <2> QED
    BY <1>3, <2>1
<1>6. PICK w : w = ShowAll(view, Resync(dialect, snap))
  OBVIOUS
<1>7. /\ w \in Views
      /\ dialect = "ts590" => w.freqA = snap.freqA /\ w.freqB = snap.freqB /\ w.rx = snap.rx /\ w.digit = OpDigit(snap)
      /\ dialect \in {"single", "ts2000"} => w.freqA = OpFreq(snap) /\ w.digit = OpDigit(snap)
      /\ dialect = "transparent" => w.freqA = snap.freqA /\ w.freqB = snap.freqB /\ w.rx = snap.rx
  <2>1. CASE dialect = "transparent"
    BY <1>3, <1>6, <2>1, ResyncShowsNative
  <2>2. CASE dialect # "transparent"
    <3>1. w \in Views /\ Shown(snap, 12, w)
      BY <1>3, <1>6, <2>2, ResyncShows
    <3>2. 12 >= 1 /\ 12 >= 2 /\ 12 >= 12
      OBVIOUS
    <3> QED
      BY <2>2, <3>1, <3>2 DEF Shown, ShownTs590, ShownSingle
  <2> QED
    BY <2>1, <2>2
<1>8. OpTyped'
  BY <1>1, <1>2 DEF SessionTyped, OpTyped
<1>9. SessionTyped'
  BY <1>1, <1>2, <1>3, <1>4, <1>5, <1>6, <1>7, <1>8 DEF SessionTyped
<1>10. InOrder' /\ ChangeFirst'
  BY <1>1, <1>2 DEF InOrder, ChangeFirst, Made
<1>11. ASSUME NEW f \in Fields PROVE (NewsRight(f))'
  <2>1. Sure' => Sure
    BY <1>2, <1>5 DEF Sure
  <2>2. /\ (Awaited(f))' <=> Awaited(f)
        /\ (AwaitedRight(f))' <=> AwaitedRight(f)
        /\ (LastRight(f))' <=> LastRight(f)
    BY <1>2 DEF Awaited, Awaits, AwaitedRight, LastRight, Says, Value
  <2> QED
    BY <1>1, <2>1, <2>2 DEF NewsRight
<1>12. ViewRight'
  <2> SUFFICES ASSUME ~missed'
               PROVE  /\ (dialect \in {"ts590", "transparent"} => \A f \in {"rx", "freqA", "freqB"} : ShowsField(f))'
                      /\ (dialect \in {"single", "ts2000"} => ShowsOperating)'
                      /\ (dialect # "transparent" => ShowsMode)'
    BY DEF ViewRight
  <2>1. view' = w
    BY <1>4, <1>5, <1>6
  <2>2. dialect \in {"ts590", "transparent"} => \A f \in {"rx", "freqA", "freqB"} : w[f] = snap[f]
    BY <1>7
  <2>3. dialect \in {"single", "ts2000"} => \A f : f = FreqOf(snap.rx) => w.freqA = snap[f]
    BY <1>7 DEF OpFreq
  <2>4. dialect # "transparent" => \A f : f = ModeOf(snap.rx) => w.digit = ToDigit(snap[f])
    BY <1>3, <1>7 DEF OpDigit, Dialects
  <2>5. (dialect \in {"ts590", "transparent"} => \A f \in {"rx", "freqA", "freqB"} : ShowsField(f))'
    BY <1>2, <2>1, <2>2 DEF ShowsField
  <2>6. (dialect \in {"single", "ts2000"} => ShowsOperating)'
    BY <1>2, <2>1, <2>3 DEF ShowsOperating
  <2>7. (dialect # "transparent" => ShowsMode)'
    BY <1>2, <2>1, <2>4 DEF ShowsMode
  <2> QED
    BY <2>5, <2>6, <2>7
<1> QED
  BY <1>9, <1>10, <1>11, <1>12 DEF FollowInv

\* A request, of which an operation may come, and the end of the operation.
LEMMA RequestFollows == ASSUME FollowInv, HandleRequest PROVE FollowInv'
<1>1. SessionTyped /\ Fits(snap) /\ dialect \in Dialects /\ ai \in BOOLEAN
  BY DEF FollowInv, SessionTyped
<1>2. UNCHANGED <<endpoint, snap, carry, order, ring, lagged, view, missed, astray>>
  BY DEF HandleRequest
<1>3. PICK req \in Requests :
        /\ ai' = CASE Handle(dialect, snap, ai, req).kind = "ai" -> TRUE
                   [] Handle(dialect, snap, ai, req).kind = "quiet" -> FALSE [] OTHER -> ai
        /\ op' = Nothing \/ (op' = Handle(dialect, snap, ai, req) /\ Handle(dialect, snap, ai, req).kind \in {"apply", "forward"})
  BY DEF HandleRequest
<1>4. PICK deed : deed = Handle(dialect, snap, ai, req)
  OBVIOUS
<1>5. deed.kind = "apply" => deed.mut \in Changed
  BY <1>1, <1>4, RequestedChanges
<1>6. OpTyped'
  BY <1>3, <1>4, <1>5 DEF OpTyped
<1>7. ai' \in BOOLEAN
  BY <1>1, <1>3, <1>4
<1> QED
  BY <1>2, <1>6, <1>7, StillFollows

\* The session goes on when its operation is done.
LEMMA ResumeFollows == ASSUME FollowInv, Resume PROVE FollowInv'
<1>1. UNCHANGED <<endpoint, snap, carry, order, ring, lagged, view, missed, astray>> /\ op' = Nothing /\ ai' = ai
  BY DEF Resume
<1>2. OpTyped' /\ ai' \in BOOLEAN
  BY <1>1 DEF OpTyped, FollowInv, SessionTyped
<1> QED
  BY <1>1, <1>2, StillFollows

\* A client that has read what it shows.
LEMMA StartsFollowing == ASSUME Init PROVE FollowInv
<1>1. dialect \in Dialects /\ ai = TRUE /\ op = Nothing /\ order = <<>> /\ ring = <<>> /\ lagged = FALSE /\ missed = FALSE /\ astray = FALSE
  BY DEF Init
<1>2. perms \subseteq Tokens
  BY DEF Init, FromTokens
<1>3. carry \in [Recorders -> Seq(EventSet)] /\ \A t \in Recorders : carry[t] = <<>>
  BY DEF Init
<1>4. PICK hz : hz = CHOOSE f \in Hz : TRUE
  OBVIOUS
<1>5. PICK m : m = CHOOSE f \in RadioModes : TRUE
  OBVIOUS
<1>6. snap = [DefaultSnapshot EXCEPT !.freqA = hz, !.freqB = hz, !.modeA = m, !.modeB = m]
  BY <1>4, <1>5 DEF Init
<1>7. hz \in Hz
  BY <1>4, CatAssumption
<1>8. m \in RadioModes
  BY <1>5, CatAssumption
<1>9. Fits(snap)
  BY <1>6, <1>7, <1>8 DEF Fits, DefaultSnapshot, Vfo
<1>10. view = [rx |-> snap.rx, freqA |-> snap.freqA, freqB |-> snap.freqB, digit |-> OpDigit(snap)]
  BY DEF Init, Current, OpDigit
<1>11. view \in Views /\ view.rx = snap.rx /\ view.freqA = snap.freqA /\ view.freqB = snap.freqB /\ view.digit = OpDigit(snap)
  BY <1>9, <1>10, OpFits DEF Fits, Views
<1>12. ring \in Seq(EventSet) /\ Len(ring) = 0
  BY <1>1
<1>13. Len(ring) <= RingCap
  BY <1>12, CatAssumption
<1>14. OpTyped /\ ai \in BOOLEAN /\ lagged \in BOOLEAN /\ missed \in BOOLEAN /\ astray \in BOOLEAN
  BY <1>1 DEF OpTyped
<1>15. SessionTyped
  BY <1>1, <1>2, <1>3, <1>9, <1>11, <1>12, <1>13, <1>14 DEF SessionTyped
<1>16. \A t \in Recorders : ~Made(t) /\ Len(carry[t]) = 0 /\ \A f : ~Awaits(t, f)
  BY <1>3, NothingAwaited
<1>17. InOrder
  BY <1>1, <1>16 DEF InOrder
<1>18. ChangeFirst
  BY <1>16 DEF ChangeFirst, Recorders
<1>19. \A f \in Fields : NewsRight(f)
  BY <1>12, <1>16 DEF NewsRight, AwaitedRight, LastRight
<1>20. ViewRight
  <2>1. snap.freqA = snap.freqB
    BY <1>6 DEF DefaultSnapshot
  <2>2. \A f \in {"rx", "freqA", "freqB"} : view[f] = snap[f]
    BY <1>11
  <2>3. \A f \in {"freqA", "freqB"} : view.freqA = snap[f]
    BY <1>11, <2>1
  <2>4. \A f : f = ModeOf(snap.rx) => view.digit = ToDigit(snap[f])
    BY <1>11 DEF OpDigit
  <2> QED
    BY <2>2, <2>3, <2>4 DEF ViewRight, ShowsField, ShowsOperating, ShowsMode
<1> QED
  BY <1>15, <1>17, <1>18, <1>19, <1>20 DEF FollowInv

\* Every step keeps the invariant.
LEMMA FollowsOn == ASSUME FollowInv, [Next]_vars PROVE FollowInv'
<1>1. CASE Push
  BY <1>1, PushFollows
<1>2. CASE Poll
  BY <1>2, PollFollows
<1>3. ASSUME NEW t \in Recorders, Broadcast(t) PROVE FollowInv'
  BY <1>3, BroadcastFollows
<1>4. CASE HandleRequest
  BY <1>4, RequestFollows
<1>5. CASE Execute
  BY <1>5, ExecuteFollows
<1>6. CASE Resume
  BY <1>6, ResumeFollows
<1>7. CASE Lag
  BY <1>7, LagFollows
<1>8. CASE ReadEvent
  BY <1>8, ReadFollows
<1>9. CASE UNCHANGED vars
  <2>1. OpTyped' /\ ai' \in BOOLEAN
    BY <1>9 DEF vars, FollowInv, SessionTyped, OpTyped
  <2> QED
    BY <1>9, <2>1, StillFollows DEF vars
<1> QED
  BY <1>1, <1>2, <1>3, <1>4, <1>5, <1>6, <1>7, <1>8, <1>9 DEF Next

\* What follows of it for a client that has nothing left to read.
LEMMA FollowsQuiet == ASSUME FollowInv PROVE SessionFollows
<1> SUFFICES ASSUME ring = <<>>, ~lagged, \A t \in Recorders : carry[t] = <<>>, ~missed, ~astray
             PROVE  CASE dialect = "ts590" -> view = Current(snap)
                      [] dialect \in {"single", "ts2000"} -> view.freqA = OpFreq(snap) /\ view.digit = OpDigit(snap)
                      [] dialect = "transparent" -> view.rx = snap.rx /\ view.freqA = snap.freqA /\ view.freqB = snap.freqB
  BY DEF SessionFollows, OpFreq, OpDigit
<1>1. \A f : Settled(f)
  <2>1. Len(ring) = 0
    OBVIOUS
  <2>2. \A f : \A t \in Recorders : ~Awaits(t, f)
    BY NothingAwaited
  <2> QED
    BY <2>1, <2>2 DEF Settled, Silent, Awaited
<1>2. SessionTyped /\ ViewRight
  BY DEF FollowInv
<1>3. Fits(snap) /\ view \in Views /\ dialect \in Dialects
  BY <1>2 DEF SessionTyped
<1>4. dialect \in {"ts590", "transparent"} => \A f \in {"rx", "freqA", "freqB"} : view[f] = snap[f]
  BY <1>1, <1>2 DEF ViewRight, ShowsField
<1>5. dialect \in {"single", "ts2000"} => view.freqA = OpFreq(snap)
  BY <1>1, <1>2, <1>3, OpFits DEF ViewRight, ShowsOperating, OpFreq
<1>6. dialect # "transparent" => view.digit = OpDigit(snap)
  <2>1. ModeOf(snap.rx) \in {"modeA", "modeB"}
    BY DEF ModeOf
  <2> QED
    BY <1>1, <1>2, <2>1 DEF ViewRight, ShowsMode, OpDigit
<1>7. CASE dialect = "ts590"
  <2>1. view.rx = snap.rx /\ view.freqA = snap.freqA /\ view.freqB = snap.freqB /\ view.digit = OpDigit(snap)
    BY <1>4, <1>6, <1>7
  <2>2. view = [rx |-> view.rx, freqA |-> view.freqA, freqB |-> view.freqB, digit |-> view.digit]
    BY <1>3 DEF Views
  <2>3. view = Current(snap)
    BY <2>1, <2>2 DEF Current, OpDigit
  <2> QED
    BY <1>7, <2>3
<1>8. CASE dialect \in {"single", "ts2000"}
  BY <1>5, <1>6, <1>8
<1>9. CASE dialect = "transparent"
  BY <1>4, <1>9
<1> QED
  BY <1>3, <1>7, <1>8, <1>9 DEF Dialects

\* A client that has read all there is shows what the snapshot has, also if the ring
\* dropped events on it, whatever the order in which the transport and the worker record
\* and send their changes, unless a later one overtook an earlier
\* (serial_endpoint.rs, the notifier; state.rs, record).
THEOREM SessionCatchesUp == Spec => []SessionFollows
<1>1. Init => FollowInv
  BY StartsFollowing
<1>2. FollowInv /\ [Next]_vars => FollowInv'
  BY FollowsOn
<1>3. FollowInv => SessionFollows
  BY FollowsQuiet
<1> QED
  BY <1>1, <1>2, <1>3, PTL DEF Spec

\* Only mode facts are put in doubt (state.rs, record).
DoubtsTyped == unsure \subseteq ModeFields \cup DataFields

\* A frequency puts the mode facts of its VFO in doubt, any other change its own field out
\* of it.
LEMMA DoubtsStay == DoubtsTyped /\ [Next]_vars => DoubtsTyped'
<1> SUFFICES ASSUME DoubtsTyped, [Next]_vars PROVE DoubtsTyped'
  OBVIOUS
<1>1. CASE UNCHANGED unsure
  BY <1>1 DEF DoubtsTyped
<1>2. ASSUME NEW ch, NEW source, Doubt(ch, source) PROVE DoubtsTyped'
  BY <1>2 DEF Doubt, UncertainAfter, DoubtsTyped, ModeFields, DataFields
<1>3. CASE Push
  BY <1>2, <1>3 DEF Push
<1>4. CASE Poll
  BY <1>2, <1>4 DEF Poll
<1>5. CASE Execute
  BY <1>1, <1>2, <1>5 DEF Execute
<1>6. CASE \/ \E t \in Recorders : Broadcast(t)
           \/ HandleRequest \/ Resume \/ Lag \/ ReadEvent \/ UNCHANGED vars
  BY <1>1, <1>6 DEF Broadcast, HandleRequest, Resume, Lag, ReadEvent, vars
<1> QED
  BY <1>3, <1>4, <1>5, <1>6 DEF Next

\* The ring stays within its capacity, the operation a session awaits is one it could
\* submit, what it shows is in range, and it acts within its permissions
\* (serial_endpoint.rs, handle; permissions.rs).
THEOREM SessionSound == Spec => []CatInv
<1>1. Init => FollowInv
  BY StartsFollowing
<1>2. FollowInv /\ [Next]_vars => FollowInv'
  BY FollowsOn
<1>3. FollowInv /\ DoubtsTyped => CatTypeOK
  BY DEF FollowInv, SessionTyped, OpTyped, CatTypeOK, DoubtsTyped, Fits, Views
<1>6. Init => DoubtsTyped
  BY DEF Init, DoubtsTyped
<1>7. DoubtsTyped /\ [Next]_vars => DoubtsTyped'
  BY DoubtsStay
<1>4. Spec => []Authority
  BY SessionAuthority
<1>5. CatTypeOK /\ Authority => CatInv
  BY DEF CatInv
<1> QED
  BY <1>1, <1>2, <1>3, <1>4, <1>5, <1>6, <1>7, PTL DEF Spec

\* With the VFOs exchanged, the other is the operating one and has its frequency and mode.
LEMMA Mirrored ==
  ASSUME NEW s, Fits(s)
  PROVE  \E m : /\ m = Mirror(s) /\ m.rx = Other(s.rx) /\ m.ptt = s.ptt
                /\ FreqOf(m.rx) = MirrorField(FreqOf(s.rx)) /\ ModeOf(m.rx) = MirrorField(ModeOf(s.rx))
                /\ m[FreqOf(m.rx)] = s[FreqOf(s.rx)] /\ m[ModeOf(m.rx)] = s[ModeOf(s.rx)]
<1>1. PICK m : m = Mirror(s)
  OBVIOUS
<1>2. DOMAIN s = DOMAIN DefaultSnapshot /\ s.rx \in {"A", "B"}
  BY DEF Fits, Vfo
<1>3. {"freqA", "freqB", "modeA", "modeB", "ptt", "rx", "split"} \subseteq DOMAIN s
  BY <1>2 DEF DefaultSnapshot
<1>4. /\ m.rx = Other(s.rx)
      /\ \A f \in DOMAIN s : f \notin {"rx", "split"} => m[f] = s[MirrorField(f)]
  BY <1>1, <1>3 DEF Mirror
<1>5. /\ m.freqA = s.freqB /\ m.freqB = s.freqA /\ m.modeA = s.modeB /\ m.modeB = s.modeA /\ m.ptt = s.ptt
  BY <1>3, <1>4 DEF MirrorField
<1>6. CASE s.rx = "A"
  BY <1>1, <1>4, <1>5, <1>6 DEF Other, FreqOf, ModeOf, MirrorField
<1>7. CASE s.rx = "B"
  BY <1>1, <1>4, <1>5, <1>7 DEF Other, FreqOf, ModeOf, MirrorField
<1> QED
  BY <1>2, <1>6, <1>7

\* A single-VFO client's status frame says nothing of which VFO it is about.
LEMMA SynthMirrored ==
  ASSUME NEW s, NEW m, m.ptt = s.ptt, m[FreqOf(m.rx)] = s[FreqOf(s.rx)], m[ModeOf(m.rx)] = s[ModeOf(s.rx)]
  PROVE  SynthIf(m, TRUE) = SynthIf(s, TRUE)
<1>1. (~TRUE /\ m.split[1]) = (~TRUE /\ s.split[1])
  OBVIOUS
<1> QED
  BY <1>1 DEF SynthIf

\* A deed here and with the VFOs exchanged.
SameDeed(here, there, req) ==
  /\ here.frames = there.frames /\ here.kind = there.kind
  /\ here.kind = "apply" => there.mut = MirrorChange(here.mut)
  /\ here.kind = "forward" => req.verb \notin {"FA", "FB", "FR", "FT", "IF"}

\* A frequency or the mode is read alike, and written to the other VFO.
LEMMA ModeledAlike ==
  ASSUME NEW s, NEW m, FreqOf(m.rx) = MirrorField(FreqOf(s.rx)), ModeOf(m.rx) = MirrorField(ModeOf(s.rx)),
         m[FreqOf(m.rx)] = s[FreqOf(s.rx)], m[ModeOf(m.rx)] = s[ModeOf(s.rx)], NEW req, req.verb \in {"FA", "FB", "MD"}
  PROVE  SameDeed(HandleModeled(s.rx, s, req), HandleModeled(m.rx, m, req), req)
<1>1. CASE req.arg = <<>>
  <2>1. HandleModeled(m.rx, m, req) = HandleModeled(s.rx, s, req)
    BY <1>1 DEF HandleModeled
  <2>2. HandleModeled(s.rx, s, req).kind = "reply"
    BY <1>1 DEF HandleModeled, Say, Deed
  <2> QED
    BY <2>1, <2>2 DEF SameDeed
<1>2. CASE req.arg # <<>>
  <2>1. PICK f \in {"freqA", "freqB", "modeA", "modeB"} : f = IF req.verb = "MD" THEN ModeOf(s.rx) ELSE FreqOf(s.rx)
    BY DEF ModeOf, FreqOf
  <2>2. PICK val : val = IF req.verb = "MD" THEN FromDigit(req.arg[1]) ELSE req.arg[1]
    OBVIOUS
  <2>3. HandleModeled(s.rx, s, req) = Apply(Change(f, val), "ModeledWrite")
    BY <1>2, <2>1, <2>2 DEF HandleModeled
  <2>4. HandleModeled(m.rx, m, req) = Apply(Change(MirrorField(f), val), "ModeledWrite")
    BY <1>2, <2>1, <2>2 DEF HandleModeled
  <2>5. MirrorChange(Change(f, val)) = Change(MirrorField(f), val)
    BY DEF MirrorChange, Change
  <2> QED
    BY <2>3, <2>4, <2>5 DEF SameDeed, Apply, Deed
<1> QED
  BY <1>1, <1>2

\* What a single-VFO client's request comes to.
LEMMA SingleHandles ==
  ASSUME NEW t, NEW flag, NEW req, NEW deed, deed = Handle("single", t, flag, req)
  PROVE  /\ Common(req) => deed = HandleCommon(21, flag, req)
         /\ req.verb \in {"FA", "FB", "MD"} => deed = HandleModeled(t.rx, t, req)
         /\ req.verb \in {"FR", "FT"} => deed = Say(IF req.arg = <<>> THEN <<Frame(req.verb, "A")>> ELSE <<>>)
         /\ req.verb \in {"TX", "RX"} => deed = Transmit(req.verb = "TX")
<1>1. PICK single : single = TRUE
  OBVIOUS
<1>2. deed = HandleTs590(single, t, flag, req)
  BY <1>1 DEF Handle
<1>3. CASE Common(req)
  BY <1>2, <1>3 DEF HandleTs590, Common
<1>4. CASE req.verb \in {"FA", "FB", "MD"}
  BY <1>1, <1>2, <1>4 DEF HandleTs590, Common
<1>5. CASE req.verb \in {"FR", "FT"}
  BY <1>1, <1>2, <1>5 DEF HandleTs590, Common
<1>6. CASE req.verb \in {"TX", "RX"}
  BY <1>1, <1>2, <1>6 DEF HandleTs590, Common
<1> QED
  BY <1>3, <1>4, <1>5, <1>6

\* What the dialect does not know goes to the radio.
LEMMA SingleForwards ==
  ASSUME NEW t, NEW flag, NEW req, req.verb = "NB"
  PROVE  Handle("single", t, flag, req) = Forward(req)
<1>1. PICK single : single = TRUE
  OBVIOUS
<1>2. HandleTs590(single, t, flag, req) = Forward(req)
  BY <1>1 DEF HandleTs590, Common
<1> QED
  BY <1>1, <1>2 DEF Handle

\* The status is answered from the snapshot.
LEMMA SingleSynthesizes ==
  ASSUME NEW t, NEW flag, NEW req, req.verb = "IF", req.arg = <<>>
  PROVE  Handle("single", t, flag, req) = Say(<<SynthIf(t, TRUE)>>)
<1>1. PICK single : single = TRUE
  OBVIOUS
<1>2. HandleTs590(single, t, flag, req) = Say(<<SynthIf(t, single)>>)
  BY DEF HandleTs590, Common
<1> QED
  BY <1>1, <1>2 DEF Handle

\* Every request of the client is answered alike with the VFOs exchanged.
LEMMA RequestAlike ==
  ASSUME NEW s, Fits(s), NEW flag, NEW req \in Requests
  PROVE  SameDeed(Handle("single", s, flag, req), Handle("single", Mirror(s), flag, req), req)
<1>1. PICK m : /\ m = Mirror(s) /\ m.rx = Other(s.rx) /\ m.ptt = s.ptt
               /\ FreqOf(m.rx) = MirrorField(FreqOf(s.rx)) /\ ModeOf(m.rx) = MirrorField(ModeOf(s.rx))
               /\ m[FreqOf(m.rx)] = s[FreqOf(s.rx)] /\ m[ModeOf(m.rx)] = s[ModeOf(s.rx)]
  BY Mirrored
<1>2. PICK here : here = Handle("single", s, flag, req)
  OBVIOUS
<1>3. PICK there : there = Handle("single", m, flag, req)
  OBVIOUS
<1> SUFFICES SameDeed(here, there, req)
  BY <1>1, <1>2, <1>3
<1>4. ASSUME Answers(here), here = there PROVE SameDeed(here, there, req)
  BY <1>4 DEF SameDeed, Answers
<1>5. \A frames : Answers(Say(frames))
  BY DEF Answers, Say, Deed
<1>6. CASE Common(req)
  <2>1. here = HandleCommon(21, flag, req) /\ there = HandleCommon(21, flag, req)
    BY <1>2, <1>3, <1>6, SingleHandles
  <2> QED
    BY <1>4, <1>6, <2>1, CommonAnswers
<1>7. CASE req.verb \in {"FA", "FB", "MD"}
  <2>1. here = HandleModeled(s.rx, s, req) /\ there = HandleModeled(m.rx, m, req)
    BY <1>2, <1>3, <1>7, SingleHandles
  <2> QED
    BY <1>1, <1>7, <2>1, ModeledAlike
<1>8. CASE req.verb \in {"FR", "FT"}
  <2>1. PICK frames : frames = IF req.arg = <<>> THEN <<Frame(req.verb, "A")>> ELSE <<>>
    OBVIOUS
  <2>2. here = Say(frames)
    BY <1>2, <1>8, <2>1, SingleHandles
  <2>3. there = Say(frames)
    BY <1>3, <1>8, <2>1, SingleHandles
  <2> QED
    BY <1>4, <1>5, <2>2, <2>3
<1>9. CASE req.verb \in {"TX", "RX"}
  <2>1. PICK on : on = (req.verb = "TX")
    OBVIOUS
  <2>2. here = Transmit(on) /\ there = Transmit(on)
    BY <1>2, <1>3, <1>9, <2>1, SingleHandles
  <2>3. MirrorChange(Change("ptt", on)) = Change("ptt", on)
    BY DEF MirrorChange, Change, MirrorField
  <2>4. here.kind = "apply" /\ here.mut = Change("ptt", on) /\ there = here
    BY <2>2 DEF Transmit, Apply, Deed
  <2> QED
    BY <2>3, <2>4 DEF SameDeed
<1>10. CASE req.verb = "IF"
  <2>1. req.arg = <<>>
    BY <1>10 DEF Requests, Request
  <2>2. here = Say(<<SynthIf(s, TRUE)>>) /\ there = Say(<<SynthIf(m, TRUE)>>)
    BY <1>2, <1>3, <1>10, <2>1, SingleSynthesizes
  <2>3. SynthIf(m, TRUE) = SynthIf(s, TRUE)
    BY <1>1, SynthMirrored
  <2>4. here = there
    BY <2>2, <2>3
  <2>5. Answers(here)
    BY <1>5, <2>2
  <2> QED
    BY <1>4, <2>4, <2>5
<1>11. CASE req.verb = "NB"
  <2>1. here = Forward(req) /\ there = Forward(req)
    BY <1>2, <1>3, <1>11, SingleForwards
  <2> QED
    BY <1>11, <2>1 DEF SameDeed, Forward, Deed
<1>12. req.verb \in {"FA", "FB", "FR", "FT", "MD", "IF", "AI", "ID", "TX", "RX", "NB"}
  BY DEF Requests, Request
<1>13. req.verb \in {"AI", "ID"} => Common(req)
  BY DEF Requests, Request, Common
<1> QED
  BY <1>6, <1>7, <1>8, <1>9, <1>10, <1>11, <1>12, <1>13

\* What a single-VFO client is told of a change.
LEMMA ToldAlike ==
  ASSUME NEW s, Fits(s), NEW ch \in Changed
  PROVE  NotifySingle(Mirror(s), MirrorChange(ch)) = NotifySingle(s, ch)
<1>1. PICK m : /\ m = Mirror(s) /\ m.rx = Other(s.rx) /\ m.ptt = s.ptt
               /\ FreqOf(m.rx) = MirrorField(FreqOf(s.rx)) /\ ModeOf(m.rx) = MirrorField(ModeOf(s.rx))
               /\ m[FreqOf(m.rx)] = s[FreqOf(s.rx)] /\ m[ModeOf(m.rx)] = s[ModeOf(s.rx)]
  BY Mirrored
<1>2. SynthIf(m, TRUE) = SynthIf(s, TRUE)
  BY <1>1, SynthMirrored
<1>3. Represent(m) = Represent(s)
  BY <1>1 DEF Represent
<1>4. PICK mc : mc = MirrorChange(ch)
  OBVIOUS
<1>5. CASE ch.field = "rx"
  <2>1. mc.field = "rx"
    BY <1>4, <1>5 DEF MirrorChange, Change
  <2>2. NotifySingle(s, ch) = Represent(s) \o <<SynthIf(s, TRUE)>>
    BY <1>5 DEF NotifySingle, ModeFields
  <2>3. NotifySingle(m, mc) = Represent(m) \o <<SynthIf(m, TRUE)>>
    BY <2>1 DEF NotifySingle, ModeFields
  <2> QED
    BY <1>1, <1>2, <1>3, <1>4, <2>2, <2>3
<1>6. CASE ch.field # "rx"
  <2>1. mc.field = MirrorField(ch.field) /\ mc.new = ch.new
    BY <1>4, <1>6 DEF MirrorChange, Change
  <2>2. ch.field \in {"freqA", "freqB", "modeA", "modeB", "ptt"}
    BY <1>6 DEF Changed, ModeFields
  <2>3. /\ FreqOf(s.rx) \in {"freqA", "freqB"} /\ ModeOf(s.rx) \in {"modeA", "modeB"}
    BY DEF FreqOf, ModeOf
  <2>4. Active(m, mc) <=> Active(s, ch)
    BY <1>1, <2>1, <2>2, <2>3 DEF Active, MirrorField
  <2>5. ModeFrame(mc) = ModeFrame(ch)
    BY <2>1 DEF ModeFrame
  <2>6. CASE ch.field \in {"freqA", "freqB"}
    <3>1. mc.field \in {"freqA", "freqB"}
      BY <2>1, <2>6 DEF MirrorField
    <3> QED
      BY <1>1, <1>2, <1>4, <2>1, <2>4, <2>6, <3>1 DEF NotifySingle, ModeFields
  <2>7. CASE ch.field \in ModeFields
    <3>1. mc.field \in ModeFields
      BY <2>1, <2>7 DEF MirrorField, ModeFields
    <3> QED
      BY <1>1, <1>2, <1>4, <2>4, <2>5, <2>7, <3>1 DEF NotifySingle, ModeFields
  <2>8. CASE ch.field = "ptt"
    <3>1. mc.field = "ptt"
      BY <2>1, <2>8 DEF MirrorField
    <3> QED
      BY <1>1, <1>4, <2>8, <3>1 DEF NotifySingle, ModeFields
  <2> QED
    BY <2>2, <2>6, <2>7, <2>8 DEF ModeFields
<1> QED
  BY <1>5, <1>6

\* And so is every event it is told of.
LEMMA VfoHides == ASSUME FollowInv PROVE HiddenVfo
<1>1. Fits(snap) /\ ring \in Seq(EventSet)
  BY DEF FollowInv, SessionTyped
<1> SUFFICES ASSUME dialect = "single"
             PROVE  /\ \A req \in Requests : SameDeed(Handle(dialect, snap, ai, req), Handle(dialect, Mirror(snap), ai, req), req)
                    /\ \A i \in DOMAIN ring :
                         IF ring[i].kind = "change"
                         THEN Told(snap, ring[i]) = Told(Mirror(snap), [ring[i] EXCEPT !.ch = MirrorChange(@)])
                         ELSE Told(snap, ring[i]) = <<>>
  BY DEF HiddenVfo, SameDeed
<1>2. \A req \in Requests : SameDeed(Handle(dialect, snap, ai, req), Handle(dialect, Mirror(snap), ai, req), req)
  BY <1>1, RequestAlike
<1>3. ASSUME NEW e \in EventSet, e.kind # "change" PROVE Told(snap, e) = <<>>
  BY <1>3, EventFields DEF Told
<1>4. ASSUME NEW e \in EventSet, e.kind = "change"
      PROVE  Told(snap, e) = Told(Mirror(snap), [e EXCEPT !.ch = MirrorChange(@)])
  <2>1. PICK ch \in Changed : ch = e.ch
    BY <1>4, EventFields
  <2>2. PICK g : g = [e EXCEPT !.ch = MirrorChange(@)]
    OBVIOUS
  <2>3. g.kind = "change" /\ g.ch = MirrorChange(ch)
    BY <1>4, <2>1, <2>2 DEF EventSet
  <2>4. Told(snap, e) = NotifySingle(snap, ch)
    BY <1>4, <2>1 DEF Told, Notification
  <2>5. Told(Mirror(snap), g) = NotifySingle(Mirror(snap), MirrorChange(ch))
    BY <2>3 DEF Told, Notification
  <2> QED
    BY <1>1, <2>2, <2>4, <2>5, ToldAlike
<1>5. \A i \in DOMAIN ring : ring[i] \in EventSet
  BY <1>1
<1> QED
  BY <1>2, <1>3, <1>4, <1>5

\* A single-VFO client is answered and told the same whichever VFO the radio works on,
\* and writes to the one it works on (ts590.rs, single_vfo).
THEOREM SessionHidesVfo == Spec => []HiddenVfo
<1>1. Init => FollowInv
  BY StartsFollowing
<1>2. FollowInv /\ [Next]_vars => FollowInv'
  BY FollowsOn
<1>3. FollowInv => HiddenVfo
  BY VfoHides
<1> QED
  BY <1>1, <1>2, <1>3, PTL DEF Spec
================================================================================

-------------------------- MODULE KeyerEndpointProofs --------------------------
(***************************************************************************)
(* What holds of a virtual keyer endpoint for any bytes its client writes, *)
(* any permissions and any bounds.                                         *)
(***************************************************************************)
EXTENDS KeyerEndpoint, WellFoundedInduction, FiniteSetTheorems, TLAPS

------------------------------------------------------------------------------
(***************************************************************************)
(* What is selected from a sequence                                        *)
(***************************************************************************)

\* Numbers that are not all without a property have a least one that has it.
LEMMA Least ==
  ASSUME NEW T \in SUBSET Nat, T # {}
  PROVE  \E n \in T : \A k \in T : n <= k
<1>1. \E n \in T : \A k \in T : ~ (<<k, n>> \in OpToRel(<, Nat))
  BY WFMin, NatLessThanWellFounded
<1>2. PICK n \in T : \A k \in T : ~ (<<k, n>> \in OpToRel(<, Nat))
  BY <1>1
<1>3. \A k \in T : ~(k < n)
  BY <1>2 DEF OpToRel
<1> QED
  BY <1>3

\* What is kept of the first n, as the function says that computes it.
Kept(s, S, n, g) ==
  /\ DOMAIN g = 0 .. n /\ g[0] = <<>>
  /\ \A i \in 1 .. n : g[i] = IF s[i] \in S THEN Append(g[i - 1], s[i]) ELSE g[i - 1]

\* There is such a function ...
LEMMA KeptExists ==
  ASSUME NEW s, NEW S, NEW n \in Nat
  PROVE  \E g : Kept(s, S, n, g)
<1> DEFINE Bad == {k \in Nat : ~\E g : Kept(s, S, k, g)}
<1> SUFFICES ASSUME Bad # {} PROVE FALSE
  OBVIOUS
<1>1. PICK m \in Bad : \A k \in Bad : m <= k
  BY Least
<1>2. CASE m = 0
  <2>1. Kept(s, S, 0, [i \in 0 .. 0 |-> <<>>])
    BY DEF Kept
  <2> QED
    BY <1>1, <1>2, <2>1
<1>3. CASE m > 0
  <2>1. m - 1 \in Nat /\ m - 1 \notin Bad
    BY <1>1, <1>3
  <2>2. PICK g : Kept(s, S, m - 1, g)
    BY <2>1
  <2> DEFINE h == [i \in 0 .. m |->
                     IF i = m THEN IF s[m] \in S THEN Append(g[m - 1], s[m]) ELSE g[m - 1]
                     ELSE g[i]]
  <2>3. \A i \in 0 .. m - 1 : h[i] = g[i]
    BY <1>1
  <2>4. Kept(s, S, m, h)
    <3>1. DOMAIN h = 0 .. m /\ h[0] = <<>>
      BY <1>1, <1>3, <2>2 DEF Kept
    <3>2. \A i \in 1 .. m - 1 : h[i] = IF s[i] \in S THEN Append(h[i - 1], s[i]) ELSE h[i - 1]
      BY <1>1, <2>2, <2>3 DEF Kept
    <3>3. h[m] = IF s[m] \in S THEN Append(h[m - 1], s[m]) ELSE h[m - 1]
      BY <1>1, <1>3, <2>3
    <3> HIDE DEF h
    <3>4. \A i \in 1 .. m : i \in 1 .. m - 1 \/ i = m
      BY <1>1
    <3>5. \A i \in 1 .. m : h[i] = IF s[i] \in S THEN Append(h[i - 1], s[i]) ELSE h[i - 1]
      BY <3>2, <3>3, <3>4
    <3> QED
      BY <3>1, <3>5 DEF Kept
  <2> QED
    BY <1>1, <2>4
<1> QED
  BY <1>1, <1>2, <1>3

\* Selection is what is kept of all.
LEMMA SelectionKept ==
  ASSUME NEW s, Len(s) \in Nat, NEW S
  PROVE  \E g : Kept(s, S, Len(s), g) /\ Selection(s, S) = g[Len(s)]
<1> DEFINE kept == CHOOSE f : f = [i \in 0 .. Len(s) |->
                     IF i = 0 THEN <<>> ELSE IF s[i] \in S THEN Append(f[i - 1], s[i]) ELSE f[i - 1]]
<1>1. PICK g : Kept(s, S, Len(s), g)
  BY KeptExists, Zenon
<1> DEFINE h == [i \in 0 .. Len(s) |-> g[i]]
<1>2. h = [i \in 0 .. Len(s) |->
             IF i = 0 THEN <<>> ELSE IF s[i] \in S THEN Append(h[i - 1], s[i]) ELSE h[i - 1]]
  <2>1. \A i \in 0 .. Len(s) :
          g[i] = IF i = 0 THEN <<>> ELSE IF s[i] \in S THEN Append(g[i - 1], s[i]) ELSE g[i - 1]
    <3>1. \A i \in 0 .. Len(s) : i = 0 \/ i \in 1 .. Len(s)
      OBVIOUS
    <3> QED
      BY <1>1, <3>1, Zenon DEF Kept
  <2>2. \A i \in 0 .. Len(s) : i # 0 => h[i - 1] = g[i - 1]
    OBVIOUS
  <2>3. \A i \in 0 .. Len(s) :
          g[i] = IF i = 0 THEN <<>> ELSE IF s[i] \in S THEN Append(h[i - 1], s[i]) ELSE h[i - 1]
    BY <2>1, <2>2, Zenon
  <2> QED
    BY <2>3
<1>3. kept = [i \in 0 .. Len(s) |->
                IF i = 0 THEN <<>> ELSE IF s[i] \in S THEN Append(kept[i - 1], s[i]) ELSE kept[i - 1]]
  <2> HIDE DEF h
  <2> QED
    BY <1>2, Zenon
<1>4. Selection(s, S) = kept[Len(s)]
  BY DEF Selection
<1> HIDE DEF kept
<1>5. Kept(s, S, Len(s), kept)
  <2>1. DOMAIN kept = 0 .. Len(s)
    BY <1>3
  <2>2. kept[0] = <<>>
    BY <1>3
  <2>3. ASSUME NEW i \in 1 .. Len(s)
        PROVE  kept[i] = IF s[i] \in S THEN Append(kept[i - 1], s[i]) ELSE kept[i - 1]
    <3>1. i \in 0 .. Len(s) /\ i # 0
      OBVIOUS
    <3> QED
      BY <1>3, <3>1
  <2> QED
    BY <2>1, <2>2, <2>3 DEF Kept
<1> QED
  BY <1>4, <1>5

\* The elements selected are the sequence's that are in the set, and no more than it has.
LEMMA SelectionTyped ==
  ASSUME NEW T, NEW s \in Seq(T), NEW S
  PROVE  Selection(s, S) \in Seq(T \cap S) /\ Len(Selection(s, S)) <= Len(s)
<1>1. Len(s) \in Nat /\ DOMAIN s = 1 .. Len(s)
  OBVIOUS
<1>2. PICK g : Kept(s, S, Len(s), g) /\ Selection(s, S) = g[Len(s)]
  BY <1>1, SelectionKept
<1> DEFINE Bad == {i \in 0 .. Len(s) : ~(g[i] \in Seq(T \cap S) /\ Len(g[i]) <= i)}
<1>3. Bad \subseteq Nat
  OBVIOUS
<1>4. CASE Bad # {}
  <2>1. PICK i \in Bad : \A j \in Bad : i <= j
    <3> HIDE DEF Bad
    <3> QED
      BY <1>3, <1>4, Least
  <2>2. i \in 0 .. Len(s) /\ ~(g[i] \in Seq(T \cap S) /\ Len(g[i]) <= i)
    BY <2>1
  <2>3. i # 0
    <3>1. g[0] = <<>>
      BY <1>2 DEF Kept
    <3>2. <<>> \in Seq(T \cap S) /\ Len(<<>>) <= 0
      OBVIOUS
    <3> QED
      BY <2>2, <3>1, <3>2
  <2>4. i \in 1 .. Len(s) /\ i - 1 \in 0 .. Len(s) /\ i - 1 \notin Bad
    BY <2>1, <2>2, <2>3
  <2>5. g[i - 1] \in Seq(T \cap S) /\ Len(g[i - 1]) <= i - 1
    BY <2>4
  <2>6. g[i] = IF s[i] \in S THEN Append(g[i - 1], s[i]) ELSE g[i - 1]
    BY <1>2, <2>4 DEF Kept
  <2>7. s[i] \in T /\ i \in Nat
    BY <1>1, <2>4
  <2>8. PICK u \in Seq(T \cap S) : u = g[i - 1] /\ Len(u) <= i - 1 /\ Len(u) \in Nat
    BY <2>5
  <2>9. CASE s[i] \in S
    <3>1. Append(u, s[i]) \in Seq(T \cap S) /\ Len(Append(u, s[i])) = Len(u) + 1
      BY <2>7, <2>9
    <3> QED
      BY <2>2, <2>6, <2>7, <2>8, <2>9, <3>1
  <2>10. CASE s[i] \notin S
    BY <2>2, <2>6, <2>7, <2>8, <2>10
  <2> QED
    BY <2>9, <2>10
<1>5. CASE Bad = {}
  <2>1. Len(s) \in 0 .. Len(s)
    BY <1>1
  <2> QED
    BY <1>2, <1>5, <2>1
<1> QED
  BY <1>4, <1>5

------------------------------------------------------------------------------
(***************************************************************************)
(* What a client may ask of the broker                                     *)
(***************************************************************************)


\* What a request may be, by the permissions.
Granting(a) ==
  /\ a[1] \in {"stream", "cancel"} => Has("send")
  /\ a[1] \in {"configure", "speed", "owner"} => Has("control")
  /\ a[1] = "maintenance" => Has("config_write")
  /\ a[2] \in {11, 24, 25} => Has("ptt")

\* What Authority needs to be inductive: nothing is gathered for the broker without the
\* permission to send.
Gathered == prefix # <<>> \/ text # <<>> => Has("send")
AuthorityInv == Authority /\ Gathered

\* One more request that is within the permissions.
LEMMA OneMore ==
  ASSUME Authority, NEW a, Granting(a), perms' = perms, asked' = asked \cup {a}
  PROVE  Authority'
BY DEF Authority, Granting, Has

\* No other request.
LEMMA NoMore ==
  ASSUME Authority, perms' = perms, asked' = asked
  PROVE  Authority'
BY DEF Authority, Has

\* What a command requests is within the permissions, whatever its parameters are: no
\* Key Immediate without "ptt", and buffered commands are none of its requests.
LEMMA CommandGranted ==
  ASSUME NEW cmd, ~IsBuffered(cmd), HandleCommand(cmd).do = "request"
  PROVE  Granting(<<HandleCommand(cmd).req, cmd[1]>>)
<1> USE DEF Say, Request, Nothing
<1>1. cmd[1] # 24 /\ cmd[1] # 25
  BY DEF IsBuffered
<1>2. CASE cmd[1] = 0
  <2>1. HandleCommand(cmd) = HandleAdmin(cmd)
    BY <1>2 DEF HandleCommand
  <2>2. \/ HandleAdmin(cmd) = Request("configure") /\ Has("control")
        \/ HandleAdmin(cmd) = Request("maintenance") /\ Has("config_write")
    BY <2>1 DEF HandleAdmin
  <2> QED
    BY <1>2, <2>1, <2>2 DEF Granting
<1>3. CASE cmd[1] # 0
  <2>1. \/ HandleCommand(cmd) = Request("speed") /\ cmd[1] = 2 /\ Has("control")
        \/ HandleCommand(cmd) = Request("configure") /\ Policy(cmd) = "transient" /\ Has("control")
        \/ HandleCommand(cmd) = Request("owner") /\ Has("control") /\ (cmd[1] # 11 \/ Has("ptt"))
    BY <1>3 DEF HandleCommand
  <2>2. Policy(cmd) = "transient" => cmd[1] # 11
    BY DEF Policy
  <2> QED
    BY <1>1, <2>1, <2>2 DEF Granting
<1> QED
  BY <1>2, <1>3

\* Every step of the session, of the keyer and of other clients keeps to them.
LEMMA NextAuthority == AuthorityInv /\ [Next]_vars => AuthorityInv'
<1> SUFFICES ASSUME AuthorityInv, [Next]_vars PROVE AuthorityInv'
  OBVIOUS
<1> USE DEF input, flags, receiver, client, typed, history
<1>1. CASE UNCHANGED <<perms, asked, prefix, text>>
  BY <1>1, NoMore DEF AuthorityInv, Gathered, Has
<1>2. CASE FlushStream
  <2>1. prefix # <<>> \/ text # <<>>
    BY <1>2 DEF FlushStream, Pending
  <2>2. Granting(<<"stream", 32>>)
    BY <2>1 DEF AuthorityInv, Gathered, Granting
  <2>3. perms' = perms /\ asked' = asked \cup {<<"stream", 32>>} /\ prefix' = <<>> /\ text' = <<>>
    BY <1>2 DEF FlushStream
  <2> QED
    BY <2>2, <2>3, OneMore DEF AuthorityInv, Gathered
<1>3. CASE TakeData
  BY <1>3, NoMore DEF TakeData, AuthorityInv, Gathered, Sends, Has
<1>4. CASE TakeBuffered
  <2> DEFINE cmd == Parsed.item.bytes
  <2>1. CASE Sends /\ BufferedAllowed(cmd, perms)
    <3>1. Granting(<<"stream", cmd[1]>>)
      BY <1>4, <2>1 DEF TakeBuffered, IsBuffered, Granting, Sends, BufferedAllowed, Has
    <3>2. perms' = perms /\ asked' = asked \cup {<<"stream", cmd[1]>>} /\ Has("send")
      BY <1>4, <2>1 DEF TakeBuffered, Sends
    <3> QED
      BY <3>1, <3>2, OneMore DEF AuthorityInv, Gathered, Has
  <2>2. CASE ~(Sends /\ BufferedAllowed(cmd, perms))
    BY <1>1, <1>4, <2>2 DEF TakeBuffered
  <2> QED
    BY <2>1, <2>2
<1>5. CASE TakeClear
  <2>1. perms' = perms /\ prefix' = <<>> /\ text' = <<>>
    BY <1>5 DEF TakeClear
  <2>2. CASE Has("send")
    <3>1. Granting(<<"cancel", 10>>)
      BY <2>2 DEF Granting
    <3>2. asked' = asked \cup {<<"cancel", 10>>}
      BY <1>5, <2>2 DEF TakeClear
    <3> QED
      BY <2>1, <3>1, <3>2, OneMore DEF AuthorityInv, Gathered
  <2>3. CASE ~Has("send")
    <3>1. asked' = asked
      BY <1>5, <2>3 DEF TakeClear
    <3> QED
      BY <2>1, <3>1, NoMore DEF AuthorityInv, Gathered
  <2> QED
    BY <2>2, <2>3
<1>6. CASE TakeCommand
  <2> DEFINE cmd == Parsed.item.bytes
             act == HandleCommand(cmd)
  <2>1. /\ ~IsBuffered(cmd) /\ UNCHANGED <<perms, prefix, text>>
        /\ asked' = IF act.do = "request" THEN asked \cup {<<act.req, cmd[1]>>} ELSE asked
    BY <1>6 DEF TakeCommand
  <2>2. CASE act.do = "request"
    <3> HIDE DEF cmd
    <3>1. Granting(<<act.req, cmd[1]>>)
      BY <2>1, <2>2, CommandGranted
    <3> HIDE DEF act
    <3> QED
      BY <2>1, <2>2, <3>1, OneMore DEF AuthorityInv, Gathered, Has
  <2>3. CASE act.do # "request"
    BY <1>1, <2>1, <2>3
  <2> QED
    BY <2>2, <2>3
<1>7. ASSUME NEW answer, Actor(answer)
      PROVE  UNCHANGED <<perms, asked, prefix, text>>
  BY <1>7 DEF Actor
<1>8. CASE DeviceByte \/ Settle \/ Fault \/ Reconnect \/ OtherEndpoint
           \/ \E n \in Names : Identify(n) \/ TypedRequest(n)
  BY <1>1, <1>7, <1>8 DEF DeviceByte, Settle, Fault, Reconnect, OtherEndpoint, Identify, TypedRequest
<1>9. CASE TakeNothing \/ PartialTimeout \/ Read \/ \E msg \in Messages : Write(msg)
  BY <1>1, <1>9 DEF TakeNothing, PartialTimeout, Read, Write
<1>10. CASE ReadEvent \/ Lag \/ HangUp \/ EndSession \/ Handle \/ Publish \/ Enter
  BY <1>1, <1>10 DEF ReadEvent, Lag, HangUp, EndSession, End, Handle, Publish, Enter
<1>11. CASE UNCHANGED vars
  BY <1>1, <1>11 DEF vars
<1> QED
  BY <1>2, <1>3, <1>4, <1>5, <1>6, <1>8, <1>9, <1>10, <1>11 DEF Next

\* No sequence of bytes gets a client past the permissions of its endpoint, for whatever
\* bytes and permissions: endpoint.rs checks each command before it asks the broker.
THEOREM EndpointAuthority == Spec => []Authority
<1>1. Init => AuthorityInv
  BY DEF Init, AuthorityInv, Authority, Gathered
<1>2. AuthorityInv => Authority
  BY DEF AuthorityInv
<1> QED
  BY <1>1, <1>2, NextAuthority, PTL DEF Spec

------------------------------------------------------------------------------
\* The broker's clients after a request: those it had.
Keeps(b, answer) == "clients" \in DOMAIN answer.core /\ answer.core.clients = b.clients

\* No request but registering and unregistering changes them.
LEMMA ClientsKept ==
  ASSUME NEW b, "clients" \in DOMAIN b, NEW c
  PROVE  /\ \A events : Keeps(b, Granted(b, events))
         /\ \A n, stream, cat : Keeps(b, Enqueue(b, c, n, stream, cat))
         /\ Keeps(b, Cancel(b, c)) /\ Keeps(b, Maintain(b, c)) /\ Keeps(b, Release(b, c))
         /\ Keeps(b, Stop(b)) /\ Keeps(b, Lose(b)) /\ Keeps(b, Observe(b, c))
<1> USE DEF Keeps, Granted, Refused
<1>1. \A i, n : Keeps(b, Grow(b, i, n))
  BY DEF Grow
<1>2. \A n, stream, cat : Keeps(b, Enqueue(b, c, n, stream, cat))
  BY <1>1 DEF Enqueue
<1>3. Keeps(b, Cancel(b, c))
  BY DEF Cancel
<1>4. Keeps(b, Maintain(b, c)) /\ Keeps(b, Release(b, c)) /\ Keeps(b, Stop(b)) /\ Keeps(b, Lose(b))
  BY DEF Maintain, Release, Stop, Lose
<1>5. Keeps(b, Observe(b, c))
  BY DEF Observe
<1>6. \A events : Keeps(b, Granted(b, events))
  OBVIOUS
<1> QED
  BY <1>2, <1>3, <1>4, <1>5, <1>6

\* What TypedClients needs to be inductive: ids are given out in order, and the one
\* that is awaited is the newest, and nobody's yet.
Entered == {n \in Names : ids[n] # Nobody}
Numbered ==
  /\ next \in Nat /\ next >= FirstTyped
  /\ ids \in [Names -> {Nobody} \cup FirstTyped .. next - 1]
  /\ asking \in Names \cup {Nobody}
Apart == \A n, k \in Entered : ids[n] = ids[k] => n = k
Known == "clients" \in DOMAIN core /\ \A n \in Entered : ids[n] \in core.clients
Newest ==
  asking # Nobody => /\ ids[asking] = Nobody /\ next > FirstTyped
                     /\ \A n \in Names : ids[n] # next - 1
                     /\ next - 1 \in core.clients /\ Cardinality(Entered) < MaxTyped
TypedInv == Numbered /\ Apart /\ Known /\ Newest /\ Cardinality(Entered) <= MaxTyped

\* The broker's clients are still there, but for this endpoint.
LEMMA StillTyped ==
  ASSUME TypedInv, UNCHANGED <<ids, next, asking>>, "clients" \in DOMAIN core',
         core.clients \ {Me} \subseteq core'.clients
  PROVE  TypedInv'
<1>1. \A n \in Entered : ids[n] # Me
  BY DEF TypedInv, Numbered, Entered, Me, FirstTyped, Nobody
<1>2. asking # Nobody => next - 1 # Me
  BY DEF TypedInv, Newest, Numbered, FirstTyped, Me
<1>3. Entered' = Entered
  BY DEF Entered
<1> QED
  BY <1>1, <1>2, <1>3 DEF TypedInv, Numbered, Apart, Known, Newest

\* A name's id is asked for, and the broker registers it.
LEMMA IdentifyTyped ==
  ASSUME TypedInv, NEW n \in Names, Identify(n)
  PROVE  TypedInv'
<1>1. /\ asking = Nobody /\ ids[n] = Nobody /\ Cardinality(Entered) < MaxTyped
      /\ asking' = n /\ next' = next + 1 /\ ids' = ids
      /\ core' = [core EXCEPT !.clients = @ \cup {next}]
  BY DEF Identify, Actor, Does, Granted, Entered
<1>2. Entered' = Entered /\ next \in Nat /\ next >= FirstTyped /\ FirstTyped = 3
  BY <1>1 DEF Entered, TypedInv, Numbered, FirstTyped
<1>3. "clients" \in DOMAIN core' /\ core'.clients = core.clients \cup {next}
  BY <1>1 DEF TypedInv, Known
<1>4. ids \in [Names -> {Nobody} \cup 3 .. next - 1] /\ Nobody = 0
  BY <1>2 DEF TypedInv, Numbered, Nobody
<1>5. \A m \in Names : ids[m] # next
  BY <1>2, <1>4
<1>6. Numbered'
  BY <1>1, <1>2, <1>4 DEF Numbered
<1>7. Apart' /\ Known'
  BY <1>1, <1>2, <1>3 DEF TypedInv, Apart, Known
<1>8. Newest'
  BY <1>1, <1>2, <1>3, <1>5 DEF Newest
<1> QED
  BY <1>1, <1>2, <1>6, <1>7, <1>8, EndpointAssumption DEF TypedInv

\* The id is entered, unless the caller has gone.
LEMMA EnterTyped ==
  ASSUME TypedInv, Enter
  PROVE  TypedInv'
<1>1. /\ asking # Nobody /\ asking' = Nobody /\ UNCHANGED <<core, next>>
      /\ ids' \in {ids, [ids EXCEPT ![asking] = next - 1]}
  BY DEF Enter
<1>2. /\ next \in Nat /\ next > 3 /\ FirstTyped = 3 /\ Nobody = 0 /\ asking \in Names
      /\ ids \in [Names -> {0} \cup 3 .. next - 1] /\ ids[asking] = 0
      /\ \A n \in Names : ids[n] # next - 1
  BY <1>1 DEF TypedInv, Numbered, Newest, FirstTyped, Nobody
<1>3. CASE ids' = ids
  BY <1>1, <1>3 DEF TypedInv, Numbered, Apart, Known, Newest, Entered
<1>4. CASE ids' = [ids EXCEPT ![asking] = next - 1]
  <2>1. \A n \in Names : ids'[n] = IF n = asking THEN next - 1 ELSE ids[n]
    BY <1>2, <1>4
  <2>2. ids' \in [Names -> {0} \cup 3 .. next - 1]
    BY <1>2, <1>4
  <2>3. Entered' = Entered \cup {asking} /\ asking \notin Entered
    BY <1>2, <2>1 DEF Entered
  <2>4. Cardinality(Entered') <= MaxTyped
    <3>1. IsFiniteSet(Entered)
      BY EndpointAssumption, FS_Subset DEF Entered
    <3>2. Cardinality(Entered') = Cardinality(Entered) + 1 /\ Cardinality(Entered) \in Nat
      BY <2>3, <3>1, FS_AddElement, FS_CardinalityType
    <3>3. Cardinality(Entered) < MaxTyped /\ MaxTyped \in Nat
      BY <1>1, EndpointAssumption DEF TypedInv, Newest
    <3> QED
      BY <3>2, <3>3
  <2>5. Apart'
    BY <1>2, <2>1, <2>3 DEF TypedInv, Apart, Entered
  <2>6. Known'
    BY <1>1, <1>2, <2>1, <2>3 DEF TypedInv, Known, Newest, Entered
  <2> QED
    BY <1>1, <1>2, <2>2, <2>4, <2>5, <2>6 DEF TypedInv, Numbered, Newest
<1> QED
  BY <1>1, <1>3, <1>4

\* Every step keeps typed clients apart.
LEMMA NextTyped == TypedInv /\ [Next]_vars => TypedInv'
<1> SUFFICES ASSUME TypedInv, [Next]_vars PROVE TypedInv'
  OBVIOUS
<1> USE DEF input, flags, receiver, client, typed, history
<1>0. "clients" \in DOMAIN core
  BY DEF TypedInv, Known
<1>1. CASE UNCHANGED <<ids, next, asking, core>>
  BY <1>0, <1>1, StillTyped
<1>2. ASSUME NEW answer, Keeps(core, answer), Does(answer), UNCHANGED <<ids, next, asking>>
      PROVE  TypedInv'
  BY <1>2, StillTyped DEF Keeps, Does
<1>3. CASE FlushStream
  BY <1>0, <1>2, <1>3, ClientsKept DEF FlushStream, Awaited
<1>4. CASE TakeClear
  BY <1>0, <1>1, <1>2, <1>4, ClientsKept DEF TakeClear, Awaited
<1>5. CASE TakeCommand
  <2>1. Does(Maintain(core, Me)) \/ UNCHANGED core
    <3>1. PICK act : Answered(act) \/ Unanswered
      BY <1>5 DEF TakeCommand
    <3> QED
      BY <3>1 DEF Answered, Ask, Unanswered, Awaited
  <2>2. UNCHANGED <<ids, next, asking>>
    BY <1>5 DEF TakeCommand
  <2> QED
    BY <1>0, <1>1, <1>2, <2>1, <2>2, ClientsKept
<1>6. CASE Handle
  <2>1. Does(Release(core, Me)) \/ Does(Unregister(core, Me))
    BY <1>6 DEF Handle
  <2>2. UNCHANGED <<ids, next, asking>>
    BY <1>6 DEF Handle
  <2>3. CASE Does(Unregister(core, Me))
    <3> DEFINE left == [core EXCEPT !.clients = @ \ {Me}]
               freed == Release(left, Me)
    <3>1. "clients" \in DOMAIN left /\ left.clients = core.clients \ {Me}
      BY <1>0
    <3> HIDE DEF left
    <3>2. Keeps(left, freed)
      BY <3>1, ClientsKept
    <3> HIDE DEF freed
    <3>3. Keeps(freed.core, Cancel(freed.core, Me))
      BY <3>2, ClientsKept DEF Keeps
    <3>4. core' = Cancel(freed.core, Me).core
      BY <2>3 DEF Does, Unregister, left, freed
    <3> QED
      BY <2>2, <3>1, <3>2, <3>3, <3>4, StillTyped DEF Keeps
  <2> QED
    BY <1>0, <1>2, <2>1, <2>2, <2>3, ClientsKept
<1>7. ASSUME NEW answer, Keeps(core, answer), Actor(answer), UNCHANGED <<ids, next, asking>>
      PROVE  TypedInv'
  BY <1>2, <1>7 DEF Actor
<1>8. CASE DeviceByte
  <2>1. \A events : Keeps(core, Granted([core EXCEPT !.reopening = FALSE], events))
    BY <1>0 DEF Keeps, Granted
  <2> QED
    BY <1>0, <1>7, <1>8, <2>1, ClientsKept DEF DeviceByte
<1>9. CASE Settle \/ Fault \/ Reconnect
  <2>1. \A events, jobs : Keeps(core, Granted([core EXCEPT !.jobs = jobs], events))
    BY <1>0 DEF Keeps, Granted
  <2>2. \A events : Keeps(core, Granted([core EXCEPT !.up = TRUE], events))
    BY <1>0 DEF Keeps, Granted
  <2> QED
    BY <1>0, <1>7, <1>9, <2>1, <2>2, ClientsKept DEF Settle, Fault, Reconnect
<1>10. CASE OtherEndpoint
  BY <1>0, <1>7, <1>10, ClientsKept DEF OtherEndpoint
<1>11. CASE \E n \in Names : TypedRequest(n)
  BY <1>0, <1>7, <1>11, ClientsKept DEF TypedRequest
<1>12. CASE \E n \in Names : Identify(n)
  BY <1>12, IdentifyTyped
<1>13. CASE Enter
  BY <1>13, EnterTyped
<1>14. CASE TakeData \/ TakeNothing \/ TakeBuffered \/ PartialTimeout \/ Read \/ \E msg \in Messages : Write(msg)
  BY <1>1, <1>14 DEF TakeData, TakeNothing, TakeBuffered, PartialTimeout, Read, Write
<1>15. CASE ReadEvent \/ Lag \/ HangUp \/ EndSession \/ Publish
  BY <1>1, <1>15 DEF ReadEvent, Lag, HangUp, EndSession, End, Publish
<1>16. CASE UNCHANGED vars
  BY <1>1, <1>16 DEF vars
<1> QED
  BY <1>3, <1>4, <1>5, <1>6, <1>8, <1>9, <1>10, <1>11, <1>12, <1>13, <1>14, <1>15, <1>16 DEF Next

\* However names are looked up, registered and dropped across the await, for any number
\* of names no two share an id and no more than MaxTyped are known (Service::client_id).
THEOREM TypedClientsApart == Spec => []TypedClients
<1>1. Init => TypedInv
  <2> SUFFICES ASSUME Init PROVE TypedInv
    OBVIOUS
  <2>1. Entered = {}
    BY DEF Init, Entered
  <2>2. Cardinality(Entered) <= MaxTyped
    BY <2>1, FS_EmptySet, EndpointAssumption
  <2>3. "clients" \in DOMAIN core
    BY DEF Init
  <2> QED
    BY <2>1, <2>2, <2>3 DEF Init, TypedInv, Numbered, Apart, Known, Newest, FirstTyped
<1>2. TypedInv => TypedClients
  BY DEF TypedInv, Apart, Known, Entered, TypedClients
<1> QED
  BY <1>1, <1>2, NextTyped, PTL DEF Spec
------------------------------------------------------------------------------
\* What the parser makes of a byte, when what it has of a command are bytes.
LEMMA PushTyped ==
  ASSUME NEW p \in Seq(Bytes), NEW b \in Bytes
  PROVE  /\ Push(p, b).rest \in Seq(Bytes)
         /\ Push(p, b).item \in {None, Data(b), Command(Append(p, b))}
         /\ Push(p, b).item.kind = "data" => Push(p, b).item = Data(b)
         /\ Push(p, b).item.kind = "command" =>
              /\ Push(p, b).item = Command(Append(p, b)) /\ Append(p, b) \in Seq(Bytes)
              /\ Len(Append(p, b)) = ExpectedLen(Append(p, b)) /\ Append(p, b) # <<>>
BY DEF Push, None, Data, Command

\* The second byte says which administrative command it is, and that it is all of it.
LEMMA AdminWhole ==
  ASSUME NEW cmd \in Seq(Bytes), Len(cmd) = ExpectedLen(cmd), cmd # <<>>, cmd[1] = 0,
         NEW sub \in {2, 3}, cmd[2] = sub
  PROVE  cmd = <<0, sub>>
<1>1. Len(cmd) \in Nat /\ Len(cmd) >= 1
  OBVIOUS
<1>2. Len(cmd) >= 2
  BY <1>1 DEF ExpectedLen, InitialLen
<1>3. Len(cmd) = 2
  BY <1>2 DEF ExpectedLen, AdminLen
<1> QED
  BY <1>3

\* What BytesInOrder needs to be inductive: the session and the client's reader agree on
\* the partial command and on whether the host is open, all is bytes, and nothing is
\* gathered or handed on without the permission to send.
AllBytes ==
  /\ wire \in Seq(Bytes) /\ chunk \in Seq(Bytes) /\ partial \in Seq(Bytes)
  /\ prefix \in Seq(Bytes) /\ text \in Seq(Bytes) /\ out \in Seq(Bytes)
Agreed == meant = [partial |-> partial, open |-> opened, out |-> meant.out]
NothingOut == ~Has("send") => out = <<>> /\ prefix = <<>> /\ text = <<>>
OrderInv == AllBytes /\ Agreed /\ NothingOut /\ BytesInOrder

\* Dropping a partial command, which the client's reader sees too.
LEMMA DropKeepsOrder ==
  ASSUME OrderInv, PartialTimeout
  PROVE  OrderInv'
<1>1. /\ partial' = <<>> /\ meant' = [meant EXCEPT !.partial = <<>>]
      /\ UNCHANGED <<perms, wire, chunk, prefix, text, opened, pc, out>>
  BY DEF PartialTimeout, Hearing, Gap, flags, history
<1>2. meant' = [partial |-> <<>>, open |-> opened, out |-> meant.out]
  BY <1>1 DEF OrderInv, Agreed
<1> QED
  BY <1>1, <1>2, SMTT(40) DEF OrderInv, AllBytes, Agreed, NothingOut, Has, BytesInOrder, Pending, Intended

\* What a byte at the head of the chunk does to what is held and to what is meant.
Adding(item) == IF opened /\ Has("send") THEN (out \o (prefix \o text)) \o Meaning(item)
                ELSE out \o (prefix \o text)
LEMMA TakeHears ==
  ASSUME OrderInv, Take
  PROVE  /\ Head(chunk) \in Bytes /\ chunk' \in Seq(Bytes) /\ partial' \in Seq(Bytes)
         /\ pc = "live" /\ Parsed = Push(partial, Head(chunk))
         /\ meant' = [partial |-> partial',
                      open |-> CASE Parsed.item = Command(<<0, 2>>) /\ Has("status") -> TRUE
                                 [] Parsed.item = Command(<<0, 3>>) -> FALSE
                                 [] OTHER -> opened,
                      out |-> IF Parsed.item.kind = "command" /\ IsClear(Parsed.item.bytes)
                              THEN <<>> ELSE Adding(Parsed.item)]
<1>1. chunk \in Seq(Bytes) /\ chunk # <<>> /\ chunk' = Tail(chunk) /\ partial' = Parsed.rest
      /\ meant' = Hearing(meant, Head(chunk)) /\ pc = "live"
  BY DEF Take, OrderInv, AllBytes
<1>2. PICK b \in Bytes : b = Head(chunk)
  BY <1>1
<1>3. chunk' \in Seq(Bytes)
  BY <1>1
<1>8. b # Gap
  BY DEF Bytes, Gap
<1>4. Parsed = Push(partial, b) /\ partial' \in Seq(Bytes)
  BY <1>1, <1>2, PushTyped DEF Parsed, OrderInv, AllBytes
<1>5. meant.partial = partial /\ meant.open = opened /\ meant.out = out \o (prefix \o text)
  BY <1>1 DEF OrderInv, Agreed, BytesInOrder, Pending, Intended
<1>6. Push(meant.partial, b) = Parsed
  BY <1>4, <1>5
<1>7. meant' = [partial |-> partial',
                open |-> CASE Parsed.item = Command(<<0, 2>>) /\ Has("status") -> TRUE
                           [] Parsed.item = Command(<<0, 3>>) -> FALSE
                           [] OTHER -> opened,
                out |-> IF Parsed.item.kind = "command" /\ IsClear(Parsed.item.bytes)
                        THEN <<>> ELSE Adding(Parsed.item)]
  BY <1>1, <1>2, <1>5, <1>6, <1>8 DEF Hearing, Adding
<1> QED
  BY <1>1, <1>2, <1>3, <1>4, <1>7

\* A byte of a partial command.
LEMMA NothingKeepsOrder ==
  ASSUME OrderInv, TakeNothing
  PROVE  OrderInv'
<1>1. Take /\ Parsed.item.kind = "none" /\ UNCHANGED <<perms, wire, prefix, text, opened, pc, out>>
  BY DEF TakeNothing, flags
<1>2. PICK b \in Bytes : Parsed = Push(partial, b)
  BY <1>1, TakeHears
<1>9. Parsed.item \in {None, Data(b), Command(Append(partial, b))}
  BY <1>2, PushTyped DEF OrderInv, AllBytes
<1>10. Parsed.item = None
  BY <1>1, <1>9 DEF None, Data, Command
<1>3. Meaning(Parsed.item) = <<>> /\ \A cmd : Parsed.item # Command(cmd)
  BY <1>10 DEF Meaning, None, Command
<1>4. out \o (prefix \o text) \in Seq(Bytes)
  BY DEF OrderInv, AllBytes
<1>5. Adding(Parsed.item) = out \o (prefix \o text)
  BY <1>3, <1>4 DEF Adding
<1>6. meant' = [partial |-> partial', open |-> opened, out |-> out \o (prefix \o text)]
  BY <1>1, <1>3, <1>5, TakeHears
<1> QED
  BY <1>1, <1>6, TakeHears DEF OrderInv, AllBytes, Agreed, NothingOut, Has, BytesInOrder, Pending, Intended

\* A byte of text.
LEMMA DataKeepsOrder ==
  ASSUME OrderInv, TakeData
  PROVE  OrderInv'
<1>1. /\ Take /\ Parsed.item.kind = "data" /\ UNCHANGED <<perms, wire, prefix, opened, pc, out>>
      /\ text' = IF Sends THEN Append(text, Parsed.item.byte) ELSE text
  BY DEF TakeData, flags
<1>2. PICK b \in Bytes : b = Head(chunk)
  BY <1>1, TakeHears
<1>3. Parsed.item = Data(b)
  BY <1>1, <1>2, TakeHears, PushTyped DEF OrderInv, AllBytes
<1>4. Meaning(Parsed.item) = <<b>> /\ Parsed.item.byte = b /\ \A cmd : Parsed.item # Command(cmd)
  BY <1>3 DEF Meaning, Data, Command
<1>5. meant' = [partial |-> partial', open |-> opened, out |-> Adding(Parsed.item)]
  BY <1>1, <1>4, TakeHears
<1>6. PICK o \in Seq(Bytes), p \in Seq(Bytes), t \in Seq(Bytes) : o = out /\ p = prefix /\ t = text
  BY DEF OrderInv, AllBytes
<1>7. CASE Sends
  <2>1. text' = Append(t, b) /\ Adding(Parsed.item) = (o \o (p \o t)) \o <<b>> /\ Has("send")
    BY <1>1, <1>4, <1>6, <1>7 DEF Sends, Adding
  <2>2. o \o (p \o Append(t, b)) = (o \o (p \o t)) \o <<b>>
    OBVIOUS
  <2>4. Append(t, b) \in Seq(Bytes)
    OBVIOUS
  <2>3. text' \in Seq(Bytes) /\ Adding(Parsed.item) = out' \o (prefix' \o text')
    BY <1>1, <1>6, <2>1, <2>2, <2>4
  <2> QED
    BY <1>1, <1>5, <2>1, <2>3, TakeHears
    DEF OrderInv, AllBytes, Agreed, NothingOut, Has, BytesInOrder, Pending, Intended
<1>8. CASE ~Sends
  <2>1. text' = text /\ Adding(Parsed.item) = out \o (prefix \o text)
    BY <1>1, <1>8 DEF Sends, Adding
  <2> QED
    BY <1>1, <1>5, <2>1, TakeHears
    DEF OrderInv, AllBytes, Agreed, NothingOut, Has, BytesInOrder, Pending, Intended
<1> QED
  BY <1>7, <1>8

\* A buffered command.
LEMMA BufferedKeepsOrder ==
  ASSUME OrderInv, TakeBuffered
  PROVE  OrderInv'
<1>1. /\ Take /\ Parsed.item.kind = "command" /\ UNCHANGED <<perms, wire, text, opened, pc, out>>
      /\ IsBuffered(Parsed.item.bytes) /\ ~FlushesFirst(Parsed.item)
      /\ IF Sends /\ BufferedAllowed(Parsed.item.bytes, perms)
         THEN prefix' = prefix \o Parsed.item.bytes ELSE prefix' = prefix
  BY DEF TakeBuffered, flags
<1>2. PICK cmd \in Seq(Bytes) : Parsed.item = Command(cmd)
  <2>1. PICK b \in Bytes : Parsed = Push(partial, b)
    BY <1>1, TakeHears
  <2> QED
    BY <1>1, <2>1, PushTyped DEF OrderInv, AllBytes
<1>3. /\ Parsed.item.bytes = cmd /\ cmd[1] \in 24 .. 31 /\ ~IsClear(cmd)
      /\ Meaning(Parsed.item) = IF BufferedAllowed(cmd, perms) THEN cmd ELSE <<>>
  BY <1>1, <1>2 DEF Command, IsBuffered, IsClear, Meaning, BufferedAllowed, Has
<1>4. Parsed.item # Command(<<0, 2>>) /\ Parsed.item # Command(<<0, 3>>)
  BY <1>2, <1>3 DEF Command
<1>5. meant' = [partial |-> partial', open |-> opened, out |-> Adding(Parsed.item)]
  BY <1>1, <1>3, <1>4, TakeHears
<1>6. PICK o \in Seq(Bytes), p \in Seq(Bytes), t \in Seq(Bytes) : o = out /\ p = prefix /\ t = text
  BY DEF OrderInv, AllBytes
<1>7. CASE Sends /\ BufferedAllowed(cmd, perms)
  <2>1. t = <<>>
    BY <1>1, <1>3, <1>6, <1>7 DEF FlushesFirst
  <2>2. prefix' = p \o cmd /\ Adding(Parsed.item) = (o \o (p \o t)) \o cmd /\ Has("send")
    BY <1>1, <1>3, <1>6, <1>7 DEF Sends, Adding
  <2>3. o \o ((p \o cmd) \o <<>>) = (o \o (p \o <<>>)) \o cmd
    OBVIOUS
  <2>4. p \o cmd \in Seq(Bytes)
    OBVIOUS
  <2>5. prefix' \in Seq(Bytes) /\ Adding(Parsed.item) = out' \o (prefix' \o text')
    BY <1>1, <1>6, <2>1, <2>2, <2>3, <2>4
  <2> QED
    BY <1>1, <1>5, <2>2, <2>5, TakeHears
    DEF OrderInv, AllBytes, Agreed, NothingOut, Has, BytesInOrder, Pending, Intended
<1>8. CASE ~(Sends /\ BufferedAllowed(cmd, perms))
  <2>1. prefix' = prefix
    BY <1>1, <1>3, <1>8
  <2>2. out \o (prefix \o text) \in Seq(Bytes)
    BY DEF OrderInv, AllBytes
  <2>3. Adding(Parsed.item) = out \o (prefix \o text)
    <3>1. CASE ~Sends
      BY <3>1 DEF Adding, Sends
    <3>2. CASE Sends
      <4>1. Meaning(Parsed.item) = <<>>
        BY <1>3, <1>8, <3>2
      <4> QED
        BY <2>2, <3>2, <4>1 DEF Adding, Sends
    <3> QED
      BY <3>1, <3>2
  <2> QED
    BY <1>1, <1>5, <2>1, <2>3, TakeHears
    DEF OrderInv, AllBytes, Agreed, NothingOut, Has, BytesInOrder, Pending, Intended
<1> QED
  BY <1>7, <1>8

\* Clear Buffer: what was gathered and handed on is no longer meant.
LEMMA ClearKeepsOrder ==
  ASSUME OrderInv, TakeClear
  PROVE  OrderInv'
<1>1. /\ Take /\ Parsed.item.kind = "command" /\ IsClear(Parsed.item.bytes)
      /\ UNCHANGED <<perms, wire, opened, pc>> /\ prefix' = <<>> /\ text' = <<>>
      /\ IF Has("send") THEN out' = <<>> ELSE out' = out
  BY DEF TakeClear, flags
<1>2. Parsed.item # Command(<<0, 2>>) /\ Parsed.item # Command(<<0, 3>>)
  BY <1>1 DEF Command, IsClear
<1>3. meant' = [partial |-> partial', open |-> opened, out |-> <<>>]
  BY <1>1, <1>2, TakeHears
<1>4. out' = <<>>
  BY <1>1 DEF OrderInv, NothingOut
<1>5. <<>> \o (<<>> \o <<>>) = <<>>
  OBVIOUS
<1> QED
  BY <1>1, <1>3, <1>4, <1>5, TakeHears, SMTT(40)
  DEF OrderInv, AllBytes, Agreed, NothingOut, Has, BytesInOrder, Pending, Intended

\* Any other command adds nothing; Host Open and Host Close are all that they say.
LEMMA CommandKeepsOrder ==
  ASSUME OrderInv, TakeCommand
  PROVE  OrderInv'
<1>1. /\ Take /\ Parsed.item.kind = "command" /\ UNCHANGED <<perms, wire, prefix, text, out>>
      /\ ~IsClear(Parsed.item.bytes) /\ ~IsBuffered(Parsed.item.bytes)
      /\ opened' = CASE HandleCommand(Parsed.item.bytes).do = "open" -> TRUE
                     [] HandleCommand(Parsed.item.bytes).do = "close" -> FALSE
                     [] OTHER -> opened
  BY DEF TakeCommand
<1>2. PICK cmd \in Seq(Bytes) : /\ Parsed.item = Command(cmd) /\ cmd # <<>>
                                /\ Len(cmd) = ExpectedLen(cmd)
  <2>1. PICK b \in Bytes : Parsed = Push(partial, b)
    BY <1>1, TakeHears
  <2> QED
    BY <1>1, <2>1, PushTyped DEF OrderInv, AllBytes
<1>3. Parsed.item.bytes = cmd /\ Meaning(Parsed.item) = <<>>
  BY <1>1, <1>2 DEF Command, IsBuffered, Meaning
<1>4. out \o (prefix \o text) \in Seq(Bytes)
  BY DEF OrderInv, AllBytes
<1>5. Adding(Parsed.item) = out \o (prefix \o text)
  BY <1>3, <1>4 DEF Adding
<1>6. HandleCommand(cmd).do = "open" <=> cmd[1] = 0 /\ cmd[2] = 2 /\ Has("status")
  BY SMTT(40) DEF HandleCommand, HandleAdmin, Say, Request, Nothing
<1>7. HandleCommand(cmd).do = "close" <=> cmd[1] = 0 /\ cmd[2] = 3
  BY SMTT(40) DEF HandleCommand, HandleAdmin, Say, Request, Nothing
<1>8. \A sub \in {2, 3} : Parsed.item = Command(<<0, sub>>) <=> cmd[1] = 0 /\ cmd[2] = sub
  <2>1. \A sub \in {2, 3} : cmd[1] = 0 /\ cmd[2] = sub => cmd = <<0, sub>>
    BY <1>2, AdminWhole
  <2>2. ASSUME NEW sub, Parsed.item = Command(<<0, sub>>)
        PROVE  cmd = <<0, sub>>
    <3>1. Command(cmd).bytes = cmd /\ Command(<<0, sub>>).bytes = <<0, sub>>
      BY DEF Command
    <3> QED
      BY <1>2, <2>2, <3>1
  <2>3. \A sub : cmd = <<0, sub>> => cmd[1] = 0 /\ cmd[2] = sub
    OBVIOUS
  <2> QED
    BY <1>2, <2>1, <2>2, <2>3
<1>9. meant' = [partial |-> partial', open |-> opened', out |-> out \o (prefix \o text)]
  BY <1>1, <1>3, <1>5, <1>6, <1>7, <1>8, TakeHears
<1> QED
  BY <1>1, <1>9, TakeHears DEF OrderInv, AllBytes, Agreed, NothingOut, Has, BytesInOrder, Pending, Intended

\* What was gathered is handed on, all of it, or the session ends.
LEMMA FlushKeepsOrder ==
  ASSUME OrderInv, FlushStream
  PROVE  OrderInv'
<1>1. /\ pc = "live" /\ UNCHANGED <<perms, wire, chunk, partial, opened, meant>>
      /\ prefix' = <<>> /\ text' = <<>> /\ Pending # <<>>
      /\ (out' = out \o Pending \/ (out' = out /\ pc' # "live"))
  <2>1. out' = out \o Pending \/ (out' = out /\ pc' # "live")
    BY DEF FlushStream
  <2>2. pc = "live" /\ prefix' = <<>> /\ text' = <<>> /\ Pending # <<>>
    BY DEF FlushStream
  <2>3. UNCHANGED <<perms, wire, chunk, partial, opened, meant>>
    BY DEF FlushStream
  <2> QED
    BY <2>1, <2>2, <2>3
<1>2. PICK o \in Seq(Bytes), p \in Seq(Bytes), t \in Seq(Bytes) : o = out /\ p = prefix /\ t = text
  BY DEF OrderInv, AllBytes
<1>3. Has("send") /\ Has("send")'
  <2>1. prefix # <<>> \/ text # <<>>
    BY <1>1 DEF Pending
  <2> QED
    BY <1>1, <2>1 DEF OrderInv, NothingOut, Has
<1>4. o \o (p \o t) \in Seq(Bytes)
  OBVIOUS
<1>5. (o \o (p \o t)) \o (<<>> \o <<>>) = o \o (p \o t)
  OBVIOUS
<1>6. out' \in Seq(Bytes) /\ (pc' = "live" => out' = out \o (prefix \o text))
  BY <1>1, <1>2, <1>4 DEF Pending
<1>7. pc' = "live" => out' \o (prefix' \o text') = out \o (prefix \o text)
  BY <1>1, <1>2, <1>5, <1>6
<1>8. AllBytes'
  <2>1. <<>> \in Seq(Bytes)
    OBVIOUS
  <2> QED
    BY <1>1, <1>6, <2>1 DEF OrderInv, AllBytes
<1>9. Agreed' /\ NothingOut'
  BY <1>1, <1>3 DEF OrderInv, Agreed, NothingOut
<1>10. BytesInOrder'
  BY <1>1, <1>7 DEF OrderInv, BytesInOrder, Pending, Intended
<1> QED
  BY <1>8, <1>9, <1>10 DEF OrderInv

\* Every step keeps what is handed on and held in the client's order.
LEMMA NextOrder == OrderInv /\ [Next]_vars => OrderInv'
<1> SUFFICES ASSUME OrderInv, [Next]_vars PROVE OrderInv'
  OBVIOUS
<1> USE DEF input, flags, receiver, client, typed, history
<1>1. ASSUME UNCHANGED <<perms, partial, prefix, text, opened, meant, out>>,
             wire' \in Seq(Bytes), chunk' \in Seq(Bytes), pc' = pc \/ pc' # "live"
      PROVE  OrderInv'
  BY <1>1 DEF OrderInv, AllBytes, Agreed, NothingOut, Has, BytesInOrder, Pending, Intended
<1>2. CASE UNCHANGED <<perms, input, opened, meant, out>> /\ (pc' = pc \/ pc' # "live")
  BY <1>1, <1>2 DEF OrderInv, AllBytes
<1>3. CASE \E msg \in Messages : Write(msg)
  <2>1. PICK msg \in Messages : Write(msg)
    BY <1>3
  <2>2. wire' = wire \o msg /\ msg \in Seq(Bytes) /\ wire \in Seq(Bytes) /\ chunk \in Seq(Bytes)
    BY <2>1, EndpointAssumption DEF Write, OrderInv, AllBytes
  <2>3. wire' \in Seq(Bytes)
    BY <2>2
  <2> QED
    BY <1>1, <2>1, <2>2, <2>3 DEF Write
<1>4. CASE Read
  <2>1. PICK n \in 1 .. Len(wire) : chunk' = SubSeq(wire, 1, n) /\ wire' = SubSeq(wire, n + 1, Len(wire))
    BY <1>4 DEF Read
  <2>2. PICK w \in Seq(Bytes) : w = wire
    BY DEF OrderInv, AllBytes
  <2>3. SubSeq(w, 1, n) \in Seq(Bytes) /\ SubSeq(w, n + 1, Len(w)) \in Seq(Bytes)
    BY <2>2
  <2> QED
    BY <1>1, <1>4, <2>1, <2>2, <2>3 DEF Read
<1>5. CASE TakeNothing \/ TakeData \/ TakeBuffered \/ TakeClear \/ TakeCommand \/ FlushStream \/ PartialTimeout
  BY <1>5, NothingKeepsOrder, DataKeepsOrder, BufferedKeepsOrder, ClearKeepsOrder,
     CommandKeepsOrder, FlushKeepsOrder, DropKeepsOrder
<1>6. CASE DeviceByte \/ Settle \/ Fault \/ Reconnect \/ OtherEndpoint
           \/ \E n \in Names : Identify(n) \/ TypedRequest(n)
  <2>1. ASSUME NEW answer, Actor(answer)
        PROVE  UNCHANGED <<perms, input, opened, meant, out, pc>>
    BY <2>1 DEF Actor
  <2> QED
    BY <1>2, <1>6, <2>1 DEF DeviceByte, Settle, Fault, Reconnect, OtherEndpoint, Identify, TypedRequest
<1>7. CASE ReadEvent \/ Lag \/ HangUp \/ EndSession \/ Handle \/ Publish \/ Enter
  BY <1>2, <1>7 DEF ReadEvent, Lag, HangUp, EndSession, End, Handle, Publish, Enter
<1>8. CASE UNCHANGED vars
  BY <1>2, <1>8 DEF vars
<1> QED
  BY <1>3, <1>4, <1>5, <1>6, <1>7, <1>8 DEF Next

\* However the bytes a client writes are cut into reads, and whatever others ask of the
\* broker in between, what a session hands on and holds is what the client meant, in its
\* order (endpoint.rs, the batches of one read; protocol.rs, ClientParser::push).
THEOREM EndpointKeepsOrder == Spec => []BytesInOrder
<1>1. Init => OrderInv
  <2> SUFFICES ASSUME Init PROVE OrderInv
    OBVIOUS
  <2>1. <<>> \in Seq(Bytes) /\ <<>> \o (<<>> \o <<>>) = <<>>
    OBVIOUS
  <2> QED
    BY <2>1 DEF Init, OrderInv, AllBytes, Agreed, NothingOut, BytesInOrder, Pending, Intended
<1>2. OrderInv => BytesInOrder
  BY DEF OrderInv
<1> QED
  BY <1>1, <1>2, NextOrder, PTL DEF Spec
------------------------------------------------------------------------------
\* The broker's state, as far as an endpoint is concerned with it.
Job == [client : Nat, stream : BOOLEAN, size : Nat, seen : BOOLEAN, sawBusy : BOOLEAN]
DeviceStatus == [busy : BOOLEAN, waiting : BOOLEAN, key_down : BOOLEAN, break_in : BOOLEAN]
Broker == [up : BOOLEAN, status : DeviceStatus, jobs : Seq(Job), maint : Nat,
           reopening : BOOLEAN, clients : SUBSET Nat]
News == [e : {"canceled", "completed", "connected", "maintenance", "pot"}, arg : Nat]
        \cup [e : {"status"}, arg : DeviceStatus]

\* It keeps jobs of clients it knows, none too long and not too many of them.
Belongs(job, b) == job.client \in b.clients /\ job.size <= MaxSize
Sound(b) ==
  /\ b \in Broker
  /\ b.maint \in b.clients \cup {Nobody}
  /\ Len(b.jobs) <= MaxQueue + 1
  /\ \A i \in 1 .. Len(b.jobs) : Belongs(b.jobs[i], b)

\* What an event says of the keyer's status, and what the last one of a ring says.
Relevant(event) == event.e \in {"status", "completed", "canceled"}
Says(event, st) ==
  /\ event.e = "status" => event.arg = st
  /\ event.e = "completed" => ~Sounds(st)
Quiet(events) == \A i \in 1 .. Len(events) : ~Relevant(events[i])
LastSays(events, st) ==
  \A i \in 1 .. Len(events) :
    Relevant(events[i]) /\ (\A j \in i + 1 .. Len(events) : ~Relevant(events[j]))
      => Says(events[i], st)

\* The broker tells what it does: of each change of the status, and of the last job's end.
Tells(b, answer) ==
  /\ answer.events \in Seq(News)
  /\ LastSays(answer.events, answer.core.status)
  /\ Quiet(answer.events) => /\ answer.core.status = b.status
                             /\ answer.core.jobs = <<>> => b.jobs = <<>>
Fair(b, answer) == Sound(answer.core) /\ Tells(b, answer)

\* Events that say nothing of the status.
LEMMA QuietTells ==
  ASSUME NEW b, NEW new, NEW events \in Seq(News), Quiet(events),
         new.status = b.status, new.jobs = <<>> => b.jobs = <<>>
  PROVE  Tells(b, Granted(new, events))
BY DEF Tells, Quiet, LastSays, Granted

\* No event at all.
LEMMA SilentTells ==
  ASSUME NEW b, NEW new, new.status = b.status, new.jobs = <<>> => b.jobs = <<>>
  PROVE  Tells(b, Granted(new, <<>>)) /\ Tells(b, Refused(b))
<1>1. <<>> \in Seq(News) /\ Quiet(<<>>)
  BY DEF Quiet
<1>2. Refused(b).events = <<>> /\ Refused(b).core = b
  BY DEF Refused
<1>3. Tells(b, Refused(b))
  BY <1>1, <1>2 DEF Tells, LastSays
<1> QED
  BY <1>1, <1>3, QuietTells

\* Canceled jobs.
LEMMA CanceledTells ==
  ASSUME NEW b, NEW new, NEW n \in Nat, new.status = b.status, n = 0 => (new.jobs = <<>> => b.jobs = <<>>)
  PROVE  Tells(b, Granted(new, Canceled(n)))
<1>1. PICK events \in Seq(News) : events = Canceled(n) /\ Len(events) = n
                                  /\ \A i \in 1 .. n : events[i].e = "canceled"
  <2>1. Event("canceled", Nobody) \in News
    BY DEF Event, News, Nobody
  <2>2. Canceled(n) \in Seq(News) /\ Len(Canceled(n)) = n
    BY <2>1 DEF Canceled
  <2>3. \A i \in 1 .. n : Canceled(n)[i].e = "canceled"
    BY DEF Canceled, Event
  <2> QED
    BY <2>2, <2>3
<1>2. LastSays(events, new.status)
  BY <1>1 DEF LastSays, Says
<1>3. Quiet(events) => n = 0
  <2> SUFFICES ASSUME n # 0 PROVE ~Quiet(events)
    OBVIOUS
  <2>1. 1 \in 1 .. n
    OBVIOUS
  <2> QED
    BY <1>1, <2>1 DEF Quiet, Relevant
<1> QED
  BY <1>1, <1>2, <1>3 DEF Tells, Granted

\* A status alone, or with the completion of a job.
LEMMA StatusTells ==
  ASSUME NEW b, NEW new, NEW st \in DeviceStatus, new.status = st
  PROVE  /\ Tells(b, Granted(new, <<Event("status", st)>>))
         /\ ~Sounds(st) => Tells(b, Granted(new, <<Event("status", st), Event("completed", Nobody)>>))
         /\ ~Sounds(st) => Tells(b, Granted(new, <<Event("completed", Nobody)>>))
<1>1. Event("status", st) \in News /\ Event("completed", Nobody) \in News
  BY DEF Event, News, Nobody
<1>2. Tells(b, Granted(new, <<Event("status", st)>>))
  BY <1>1 DEF Tells, Granted, LastSays, Says, Quiet, Relevant, Event
<1>3. ASSUME ~Sounds(st)
      PROVE  Tells(b, Granted(new, <<Event("status", st), Event("completed", Nobody)>>))
  BY <1>1, <1>3 DEF Tells, Granted, LastSays, Says, Quiet, Relevant, Event
<1>4. ASSUME ~Sounds(st)
      PROVE  Tells(b, Granted(new, <<Event("completed", Nobody)>>))
  BY <1>1, <1>4 DEF Tells, Granted, LastSays, Says, Quiet, Relevant, Event
<1> QED
  BY <1>2, <1>3, <1>4

\* A broker with other jobs, when they are sound.
LEMMA JobsSound ==
  ASSUME NEW b, Sound(b), NEW jobs \in Seq(Job), Len(jobs) <= MaxQueue + 1,
         \A i \in 1 .. Len(jobs) : Belongs(jobs[i], b), NEW new, new = [b EXCEPT !.jobs = jobs]
  PROVE  /\ Sound(new) /\ new.jobs = jobs /\ new.status = b.status
         /\ new.clients = b.clients /\ new.maint = b.maint
<1>1. /\ new \in Broker /\ new.jobs = jobs /\ new.clients = b.clients /\ new.maint = b.maint
      /\ new.status = b.status
  BY DEF Sound, Broker
<1>2. Sound(new)
  BY <1>1 DEF Sound, Belongs
<1> QED
  BY <1>1, <1>2

\* A job grows within its bound.
LEMMA GrowFair ==
  ASSUME NEW b, Sound(b), NEW i \in 1 .. Len(b.jobs), NEW n \in Nat
  PROVE  Fair(b, Grow(b, i, n))
<1>1. /\ b \in Broker /\ b.jobs \in Seq(Job) /\ b.jobs[i] \in Job /\ MaxSize \in Nat /\ MaxQueue \in Nat
      /\ Len(b.jobs) \in Nat
  BY EndpointAssumption DEF Sound, Broker
<1>2. CASE b.jobs[i].size + n > MaxSize
  <2>1. Grow(b, i, n) = Refused(b)
    BY <1>2 DEF Grow
  <2>2. Refused(b).core = b
    BY DEF Refused
  <2> QED
    BY <2>1, <2>2, SilentTells DEF Fair
<1>3. CASE b.jobs[i].size + n <= MaxSize
  <2>0. PICK old \in Job : old = b.jobs[i]
    BY <1>1
  <2> DEFINE job == [old EXCEPT !.size = @ + n]
             jobs == [b.jobs EXCEPT ![i] = job]
  <2>1. job \in Job /\ job.size = b.jobs[i].size + n /\ job.client = b.jobs[i].client
    <3>1. old.size \in Nat /\ old.size + n \in Nat
      BY DEF Job
    <3>2. job.size = old.size + n /\ job.client = old.client
      BY DEF Job
    <3>3. job \in Job
      BY <3>1 DEF Job
    <3> QED
      BY <2>0, <3>2, <3>3
  <2>2. Grow(b, i, n) = Granted([b EXCEPT !.jobs = jobs], <<>>)
    <3>1. [b EXCEPT !.jobs[i].size = @ + n] = [b EXCEPT !.jobs = jobs]
      BY <1>1, <2>0 DEF Broker
    <3> QED
      BY <1>1, <1>3, <3>1, SMTT(40) DEF Grow, Job
  <2> HIDE DEF job
  <2>3. /\ jobs \in Seq(Job) /\ Len(jobs) = Len(b.jobs) /\ jobs[i] = job
        /\ \A j \in 1 .. Len(b.jobs) : j # i => jobs[j] = b.jobs[j]
    BY <1>1, <2>1
  <2> HIDE DEF jobs
  <2>4. \A j \in 1 .. Len(jobs) : Belongs(jobs[j], b)
    BY <1>1, <1>3, <2>1, <2>3 DEF Sound, Belongs
  <2>5. PICK new : new = [b EXCEPT !.jobs = jobs]
    OBVIOUS
  <2>6. Sound(new) /\ new.status = b.status /\ new.jobs = jobs
    BY <2>3, <2>4, <2>5, JobsSound DEF Sound
  <2>7. jobs = <<>> => b.jobs = <<>>
    BY <1>1, <2>3
  <2>8. Grow(b, i, n) = Granted(new, <<>>) /\ Granted(new, <<>>).core = new
    BY <2>2, <2>5 DEF Granted
  <2>9. Tells(b, Granted(new, <<>>))
    BY <2>6, <2>7, SilentTells
  <2> QED
    BY <2>6, <2>8, <2>9 DEF Fair
<1>4. b.jobs[i].size + n > MaxSize \/ b.jobs[i].size + n <= MaxSize
  BY <1>1, SMTT(40) DEF Job
<1> QED
  BY <1>2, <1>3, <1>4

\* A job is added to what grew, or is the queue's last.
LEMMA EnqueueFair ==
  ASSUME NEW b, Sound(b), NEW c \in Nat, NEW n \in Nat, NEW stream \in BOOLEAN, NEW cat
  PROVE  Fair(b, Enqueue(b, c, n, stream, cat))
<1> DEFINE last == Len(b.jobs)
           job == [client |-> c, stream |-> stream, size |-> n, seen |-> FALSE, sawBusy |-> FALSE]
           jobs == Append(b.jobs, job)
           answer == Enqueue(b, c, n, stream, cat)
<1>1. /\ b \in Broker /\ b.jobs \in Seq(Job) /\ MaxSize \in Nat /\ MaxQueue \in Nat \ {0}
      /\ last \in Nat
  BY EndpointAssumption DEF Sound, Broker
<1>2. \/ answer = Refused(b)
      \/ last > 0 /\ answer = Grow(b, 1, n)
      \/ last > 1 /\ answer = Grow(b, last, n)
      \/ /\ c \in b.clients /\ ~(n > MaxSize) /\ ~(Len(Queue(b)) >= MaxQueue)
         /\ answer = Granted([b EXCEPT !.jobs = jobs], <<>>)
  BY DEF Enqueue
<1> HIDE DEF answer
<1>3. CASE answer = Refused(b)
  <2>1. Refused(b).core = b
    BY DEF Refused
  <2> QED
    BY <1>3, <2>1, SilentTells DEF Fair, answer
<1>4. CASE last > 0 /\ answer = Grow(b, 1, n)
  BY <1>1, <1>4, GrowFair DEF answer
<1>5. CASE last > 1 /\ answer = Grow(b, last, n)
  BY <1>1, <1>5, GrowFair DEF answer
<1>6. CASE /\ c \in b.clients /\ ~(n > MaxSize) /\ ~(Len(Queue(b)) >= MaxQueue)
           /\ answer = Granted([b EXCEPT !.jobs = jobs], <<>>)
  <2>1. job \in Job /\ Belongs(job, b)
    BY <1>1, <1>6 DEF Job, Belongs
  <2> HIDE DEF job
  <2>2. /\ jobs \in Seq(Job) /\ Len(jobs) = last + 1 /\ jobs # <<>>
        /\ \A i \in 1 .. last : jobs[i] = b.jobs[i]
        /\ jobs[last + 1] = job
    BY <1>1, <2>1
  <2>3. Len(jobs) <= MaxQueue + 1
    <3>1. CASE b.jobs = <<>>
      BY <1>1, <2>2, <3>1
    <3>2. CASE b.jobs # <<>>
      <4>1. Len(Tail(b.jobs)) = last - 1
        BY <1>1, <3>2
      <4> QED
        BY <1>1, <1>6, <2>2, <3>2, <4>1 DEF Queue
    <3> QED
      BY <3>1, <3>2
  <2> HIDE DEF jobs
  <2>4. \A i \in 1 .. Len(jobs) : Belongs(jobs[i], b)
    <3>1. \A i \in 1 .. Len(jobs) : i \in 1 .. last \/ i = last + 1
      BY <1>1, <2>2
    <3> QED
      BY <2>1, <2>2, <3>1 DEF Sound
  <2>5. PICK new : new = [b EXCEPT !.jobs = jobs]
    OBVIOUS
  <2>6. Sound(new) /\ new.status = b.status /\ new.jobs = jobs
    BY <2>2, <2>3, <2>4, <2>5, JobsSound
  <2>7. answer = Granted(new, <<>>) /\ Granted(new, <<>>).core = new
    BY <1>6, <2>5 DEF Granted
  <2>8. Tells(b, Granted(new, <<>>))
    BY <2>2, <2>6, SilentTells
  <2> QED
    BY <2>6, <2>7, <2>8 DEF Fair, answer
<1> QED
  BY <1>2, <1>3, <1>4, <1>5, <1>6

\* The jobs of a client are removed, none of another's.
LEMMA CancelFair ==
  ASSUME NEW b, Sound(b), NEW c
  PROVE  /\ Fair(b, Cancel(b, c))
         /\ \A i \in 1 .. Len(Cancel(b, c).core.jobs) : Cancel(b, c).core.jobs[i].client # c
<1> DEFINE others == {j \in Range(b.jobs) : j.client # c}
           kept == Selection(b.jobs, others)
<1>1. b.jobs \in Seq(Job) /\ Len(b.jobs) \in Nat /\ Len(b.jobs) <= MaxQueue + 1 /\ MaxQueue \in Nat
  BY EndpointAssumption DEF Sound, Broker
<1>2. kept \in Seq(Job \cap others) /\ Len(kept) <= Len(b.jobs)
  <2> HIDE DEF others
  <2> QED
    BY <1>1, SelectionTyped
<1>3. \A j \in others : j.client # c /\ Belongs(j, b)
  <2>1. Range(b.jobs) = {b.jobs[i] : i \in 1 .. Len(b.jobs)}
    BY <1>1 DEF Range
  <2> QED
    BY <2>1 DEF Sound
<1>4. Cancel(b, c) = Granted([b EXCEPT !.jobs = kept], Canceled(Len(b.jobs) - Len(kept)))
  BY DEF Cancel
<1> HIDE DEF kept, others
<1>5. kept \in Seq(Job) /\ Len(kept) \in Nat /\ Len(kept) <= MaxQueue + 1
  BY <1>1, <1>2
<1>6. \A i \in 1 .. Len(kept) : kept[i].client # c /\ Belongs(kept[i], b)
  BY <1>2, <1>3
<1>7. PICK new : new = [b EXCEPT !.jobs = kept]
  OBVIOUS
<1>8. Sound(new) /\ new.status = b.status /\ new.jobs = kept
  BY <1>5, <1>6, <1>7, JobsSound
<1>9. Len(b.jobs) - Len(kept) \in Nat
  BY <1>1, <1>2, <1>5
<1>10. PICK n \in Nat : n = Len(b.jobs) - Len(kept)
  BY <1>9
<1>11. Cancel(b, c) = Granted(new, Canceled(n)) /\ Cancel(b, c).core = new
  BY <1>4, <1>7, <1>10 DEF Granted
<1>12. n = 0 => (new.jobs = <<>> => b.jobs = <<>>)
  BY <1>1, <1>5, <1>8, <1>10
<1>13. Tells(b, Granted(new, Canceled(n)))
  BY <1>8, <1>12, CanceledTells
<1> QED
  BY <1>6, <1>8, <1>11, <1>13 DEF Fair

\* Only who asked holds the keyer, and only if that was granted.
LEMMA MaintainFair ==
  ASSUME NEW b, Sound(b), NEW c \in b.clients
  PROVE  /\ Fair(b, Maintain(b, c))
         /\ Maintain(b, c).core.maint # b.maint => Maintain(b, c).ok /\ Maintain(b, c).core.maint = c
<1>1. CASE Maintain(b, c) = Refused(b)
  <2>1. Refused(b).core = b
    BY DEF Refused
  <2> QED
    BY <1>1, <2>1, SilentTells DEF Fair
<1>2. CASE Maintain(b, c) = Granted([b EXCEPT !.maint = c], <<>>)
  <2>1. PICK new : new = [b EXCEPT !.maint = c]
    OBVIOUS
  <2>2. /\ new \in Broker /\ new.maint = c /\ new.jobs = b.jobs /\ new.status = b.status
        /\ new.clients = b.clients
    BY <2>1 DEF Sound, Broker
  <2>3. Sound(new)
    BY <2>2 DEF Sound, Belongs
  <2>4. Maintain(b, c) = Granted(new, <<>>) /\ Granted(new, <<>>).core = new /\ Granted(new, <<>>).ok
    BY <1>2, <2>1 DEF Granted
  <2>5. Tells(b, Granted(new, <<>>))
    BY <2>2, SilentTells
  <2> QED
    BY <2>2, <2>3, <2>4, <2>5 DEF Fair
<1> QED
  BY <1>1, <1>2 DEF Maintain

\* Who releases no longer holds it.
LEMMA ReleaseFair ==
  ASSUME NEW b, Sound(b), NEW c \in Nat \ {Nobody}
  PROVE  /\ Fair(b, Release(b, c))
         /\ Release(b, c).core.maint \in {b.maint, Nobody} /\ Release(b, c).core.maint # c
<1>1. PICK new : new = IF b.maint = c THEN [b EXCEPT !.maint = Nobody, !.reopening = TRUE] ELSE b
  OBVIOUS
<1>2. /\ new \in Broker /\ new.jobs = b.jobs /\ new.status = b.status /\ new.clients = b.clients
      /\ new.maint = IF b.maint = c THEN Nobody ELSE b.maint
  BY <1>1 DEF Sound, Broker, Nobody
<1>3. Sound(new)
  BY <1>2 DEF Sound, Belongs
<1>4. Release(b, c) = Granted(new, <<>>) /\ Granted(new, <<>>).core = new
  BY <1>1 DEF Release, Granted
<1>5. Tells(b, Granted(new, <<>>))
  BY <1>2, SilentTells
<1> QED
  BY <1>2, <1>3, <1>4, <1>5 DEF Fair

\* A client that leaves holds neither the keyer nor a job.
LEMMA UnregisterFair ==
  ASSUME NEW b, Sound(b), NEW c \in Nat \ {Nobody}
  PROVE  /\ Fair(b, Unregister(b, c))
         /\ Unregister(b, c).core.maint \in {b.maint, Nobody} /\ Unregister(b, c).core.maint # c
         /\ Unregister(b, c).core.clients = b.clients \ {c}
<1>1. PICK kept : kept = Selection(b.jobs, {j \in Range(b.jobs) : j.client # c})
  OBVIOUS
<1>2. PICK cut : cut = [b EXCEPT !.jobs = kept]
  OBVIOUS
<1>3. Cancel(b, c).core = cut
  BY <1>1, <1>2 DEF Cancel, Granted
<1>4. Sound(cut) /\ cut.jobs = kept /\ cut.clients = b.clients /\ cut.maint = b.maint /\ cut.status = b.status
  <2>1. Sound(cut)
    BY <1>3, CancelFair DEF Fair
  <2>2. b \in Broker
    BY DEF Sound
  <2> QED
    BY <1>2, <2>1, <2>2 DEF Broker
<1>5. \A i \in 1 .. Len(kept) : kept[i].client # c
  BY <1>3, <1>4, CancelFair
<1>6. PICK freed : freed = Release([b EXCEPT !.clients = @ \ {c}], c).core
  OBVIOUS
<1>7. /\ freed \in Broker /\ freed.jobs = b.jobs /\ freed.clients = b.clients \ {c}
      /\ freed.maint = (IF b.maint = c THEN Nobody ELSE b.maint) /\ freed.status = b.status
  <2>1. PICK less : less = [b EXCEPT !.clients = @ \ {c}]
    OBVIOUS
  <2>2. /\ less \in Broker /\ less.jobs = b.jobs /\ less.clients = b.clients \ {c}
        /\ less.maint = b.maint /\ less.status = b.status
    BY <2>1 DEF Sound, Broker
  <2>3. freed = IF less.maint = c THEN [less EXCEPT !.maint = Nobody, !.reopening = TRUE] ELSE less
    BY <1>6, <2>1 DEF Release, Granted
  <2> QED
    BY <2>2, <2>3 DEF Broker, Nobody
<1>8. PICK new : new = [freed EXCEPT !.jobs = kept]
  OBVIOUS
<1>9. /\ new.jobs = kept /\ new.clients = b.clients \ {c} /\ new.status = b.status
      /\ new.maint = IF b.maint = c THEN Nobody ELSE b.maint
  BY <1>7, <1>8 DEF Broker
<1>10. new \in Broker
  BY <1>4, <1>7, <1>8 DEF Sound, Broker
<1>11. Sound(new)
  BY <1>4, <1>5, <1>9, <1>10 DEF Sound, Belongs
<1>12. /\ Unregister(b, c) = Granted(new, Canceled(Len(b.jobs) - Len(kept)))
       /\ Cancel(b, c) = Granted(cut, Canceled(Len(b.jobs) - Len(kept)))
  BY <1>1, <1>2, <1>6, <1>7, <1>8 DEF Unregister, Cancel
<1>13. Tells(b, Unregister(b, c))
  <2>1. Tells(b, Cancel(b, c))
    BY CancelFair DEF Fair
  <2>2. Unregister(b, c).events = Cancel(b, c).events
    BY <1>12 DEF Granted
  <2>3. Unregister(b, c).core = new /\ Cancel(b, c).core = cut
    BY <1>12 DEF Granted
  <2> QED
    BY <1>4, <1>9, <2>1, <2>2, <2>3 DEF Tells
<1>14. Unregister(b, c).core = new
  BY <1>12 DEF Granted
<1> QED
  BY <1>9, <1>11, <1>13, <1>14 DEF Fair, Nobody

\* Stopping and losing the keyer end every job and the maintenance.
LEMMA StopFair ==
  ASSUME NEW b, Sound(b)
  PROVE  /\ Fair(b, Stop(b)) /\ Stop(b).core.maint = Nobody
         /\ Fair(b, Lose(b)) /\ Lose(b).core.maint = Nobody
<1>1. Len(b.jobs) \in Nat /\ b.jobs \in Seq(Job)
  BY DEF Sound, Broker
<1>2. ASSUME NEW new, NEW on \in BOOLEAN,
             new = [b EXCEPT !.jobs = <<>>, !.maint = Nobody, !.reopening = FALSE, !.up = on]
      PROVE  Sound(new) /\ new.maint = Nobody /\ Tells(b, Granted(new, Canceled(Len(b.jobs))))
  <2>1. <<>> \in Seq(Job) /\ Len(<<>>) = 0 /\ MaxQueue \in Nat
    BY EndpointAssumption
  <2>2. new.jobs = <<>> /\ new.maint = Nobody /\ new.status = b.status
    BY <1>2 DEF Sound, Broker
  <2>3. new \in Broker
    BY <1>2, <2>1 DEF Sound, Broker, Nobody
  <2>4. Sound(new)
    BY <2>1, <2>2, <2>3 DEF Sound
  <2>5. Len(b.jobs) = 0 => b.jobs = <<>>
    BY <1>1
  <2> QED
    BY <1>1, <2>2, <2>4, <2>5, CanceledTells
<1>3. PICK st : st = [b EXCEPT !.jobs = <<>>, !.maint = Nobody, !.reopening = FALSE]
  OBVIOUS
<1>4. PICK on \in BOOLEAN : st = [b EXCEPT !.jobs = <<>>, !.maint = Nobody, !.reopening = FALSE, !.up = on]
  <2>1. b.up \in BOOLEAN
    BY DEF Sound, Broker
  <2>2. st = [b EXCEPT !.jobs = <<>>, !.maint = Nobody, !.reopening = FALSE, !.up = b.up]
    BY <1>3 DEF Sound, Broker
  <2> QED
    BY <2>1, <2>2
<1>5. PICK lost : lost = [b EXCEPT !.jobs = <<>>, !.maint = Nobody, !.reopening = FALSE, !.up = FALSE]
  OBVIOUS
<1>6. /\ Stop(b) = Granted(st, Canceled(Len(b.jobs))) /\ Stop(b).core = st
      /\ Lose(b) = Granted(lost, Canceled(Len(b.jobs))) /\ Lose(b).core = lost
  BY <1>3, <1>5 DEF Stop, Lose, Granted
<1>7. Sound(st) /\ st.maint = Nobody /\ Tells(b, Stop(b))
  BY <1>2, <1>4, <1>6
<1>8. Sound(lost) /\ lost.maint = Nobody /\ Tells(b, Lose(b))
  BY <1>2, <1>5, <1>6
<1> QED
  BY <1>6, <1>7, <1>8 DEF Fair

\* Of a status that it is told the broker tells, and it ends a job that it completes.
LEMMA ObserveFair ==
  ASSUME NEW b, Sound(b), NEW st \in DeviceStatus
  PROVE  Fair(b, Observe(b, st))
<1>1. PICK seen : seen = [b EXCEPT !.status = st]
  OBVIOUS
<1>2. Sound(seen) /\ seen.jobs = b.jobs /\ seen.status = st
  <2>1. /\ seen \in Broker /\ seen.jobs = b.jobs /\ seen.maint = b.maint /\ seen.clients = b.clients
        /\ seen.status = st
    BY <1>1 DEF Sound, Broker
  <2> QED
    BY <2>1 DEF Sound, Belongs
<1>3. PICK q \in Seq(Job) : q = b.jobs /\ Len(q) <= MaxQueue + 1 /\ MaxQueue \in Nat
  BY EndpointAssumption DEF Sound, Broker
<1>4. CASE q = <<>>
  <2>1. Observe(b, st) = Granted(seen, <<Event("status", st)>>) /\ Observe(b, st).core = seen
    BY <1>1, <1>3, <1>4 DEF Observe, Granted
  <2> QED
    BY <1>2, <2>1, StatusTells DEF Fair
<1>5. CASE q # <<>>
  <2>1. PICK old \in Job : old = Head(q) /\ old = q[1]
    BY <1>5
  <2>2. PICK job : job = [old EXCEPT !.seen = TRUE, !.sawBusy = @ \/ Sounds(st)]
    OBVIOUS
  <2>3. job \in Job /\ job.client = old.client /\ job.size = old.size
    BY <2>2 DEF Job
  <2>4. Belongs(job, seen)
    <3>1. Belongs(old, seen)
      <4>1. 1 \in 1 .. Len(q)
        BY <1>5
      <4> QED
        BY <1>2, <1>3, <2>1, <4>1 DEF Sound
    <3> QED
      BY <2>3, <3>1 DEF Belongs
  <2>5. CASE ~Sounds(st) /\ job.sawBusy
    <3>0. Tail(q) \in Seq(Job)
      BY <1>5
    <3>1. PICK rest \in Seq(Job) : rest = Tail(q)
      BY <3>0
    <3>2. PICK done : done = [seen EXCEPT !.jobs = rest]
      OBVIOUS
    <3>3. Len(rest) <= MaxQueue + 1 /\ \A i \in 1 .. Len(rest) : Belongs(rest[i], seen)
      <4>1. Len(rest) = Len(q) - 1 /\ Len(q) \in Nat
        BY <1>5, <3>1
      <4>2. \A i \in 1 .. Len(rest) : rest[i] = q[i + 1]
        <5>1. \A i \in 1 .. Len(Tail(q)) : Tail(q)[i] = q[i + 1]
          BY <1>5
        <5> QED
          BY <3>1, <5>1
      <4>3. \A i \in 1 .. Len(rest) : i + 1 \in 1 .. Len(q)
        BY <4>1
      <4> QED
        BY <1>2, <1>3, <4>1, <4>2, <4>3 DEF Sound
    <3>4. Sound(done) /\ done.status = st
      BY <1>2, <3>2, <3>3, JobsSound
    <3>5. /\ Observe(b, st) = Granted(done, <<Event("status", st), Event("completed", Nobody)>>)
          /\ Observe(b, st).core = done
      <4>1. [seen EXCEPT !.jobs = Tail(@)] = done
        BY <1>2, <1>3, <3>1, <3>2 DEF Sound, Broker
      <4> QED
        BY <1>1, <1>3, <1>5, <2>1, <2>2, <2>5, <4>1 DEF Observe, Granted
    <3> QED
      BY <2>5, <3>4, <3>5, StatusTells DEF Fair
  <2>6. CASE ~(~Sounds(st) /\ job.sawBusy)
    <3>1. PICK jobs : jobs = [q EXCEPT ![1] = job]
      OBVIOUS
    <3>2. /\ jobs \in Seq(Job) /\ Len(jobs) = Len(q)
          /\ \A i \in 1 .. Len(q) : jobs[i] = IF i = 1 THEN job ELSE q[i]
      BY <1>5, <2>3, <3>1
    <3>3. \A i \in 1 .. Len(jobs) : Belongs(jobs[i], seen)
      BY <1>2, <1>3, <2>4, <3>2 DEF Sound
    <3>4. PICK new : new = [seen EXCEPT !.jobs = jobs]
      OBVIOUS
    <3>5. Sound(new) /\ new.status = st
      BY <1>2, <1>3, <3>2, <3>3, <3>4, JobsSound, SMTT(40)
    <3>6. Observe(b, st) = Granted(new, <<Event("status", st)>>) /\ Observe(b, st).core = new
      <4>1. [seen EXCEPT !.jobs[1] = job] = new
        BY <1>2, <1>3, <3>1, <3>4 DEF Sound, Broker
      <4> QED
        BY <1>1, <1>3, <1>5, <2>1, <2>2, <2>6, <4>1 DEF Observe, Granted
    <3> QED
      BY <3>5, <3>6, StatusTells DEF Fair
  <2> QED
    BY <2>5, <2>6
<1> QED
  BY <1>4, <1>5

\* The active job ends when the keyer has settled.
LEMMA SettleFair ==
  ASSUME NEW b, Sound(b), b.jobs # <<>>, ~Sounds(b.status)
  PROVE  Fair(b, Granted([b EXCEPT !.jobs = Tail(@)], <<Event("completed", Nobody)>>))
<1>1. PICK q \in Seq(Job) : q = b.jobs /\ Len(q) <= MaxQueue + 1 /\ MaxQueue \in Nat /\ q # <<>>
  BY EndpointAssumption DEF Sound, Broker
<1>0. Tail(q) \in Seq(Job)
  BY <1>1
<1>2. PICK rest \in Seq(Job) : rest = Tail(q)
  BY <1>0
<1>3. PICK new : new = [b EXCEPT !.jobs = rest]
  OBVIOUS
<1>4. Len(rest) <= MaxQueue + 1 /\ \A i \in 1 .. Len(rest) : Belongs(rest[i], b)
  <2>1. Len(rest) = Len(q) - 1 /\ Len(q) \in Nat
    BY <1>1, <1>2
  <2>2. \A i \in 1 .. Len(rest) : rest[i] = q[i + 1]
    <3>1. \A i \in 1 .. Len(Tail(q)) : Tail(q)[i] = q[i + 1]
      BY <1>1
    <3> QED
      BY <1>2, <3>1
  <2>3. \A i \in 1 .. Len(rest) : i + 1 \in 1 .. Len(q)
    BY <2>1
  <2> QED
    BY <1>1, <2>1, <2>2, <2>3 DEF Sound
<1>5. Sound(new) /\ new.status = b.status
  BY <1>3, <1>4, JobsSound
<1>6. [b EXCEPT !.jobs = Tail(@)] = new
  BY <1>1, <1>2, <1>3 DEF Sound, Broker
<1>7. Granted(new, <<Event("completed", Nobody)>>).core = new /\ b.status \in DeviceStatus
  BY DEF Granted, Sound, Broker
<1>8. Tells(b, Granted(new, <<Event("completed", Nobody)>>))
  BY <1>5, <1>7, StatusTells
<1> QED
  BY <1>5, <1>6, <1>7, <1>8 DEF Fair

\* Anything else that the keyer does, and a new client.
LEMMA OtherFair ==
  ASSUME NEW b, Sound(b)
  PROVE  /\ \A e \in {"connected", "pot"} : Fair(b, Granted(b, <<Event(e, Nobody)>>))
         /\ Fair(b, Granted(b, <<Event("maintenance", b.maint)>>))
         /\ Fair(b, Granted([b EXCEPT !.reopening = FALSE], <<Event("connected", Nobody)>>))
         /\ Fair(b, Granted([b EXCEPT !.up = TRUE], <<Event("connected", Nobody)>>))
         /\ \A c \in Nat : Fair(b, Granted([b EXCEPT !.clients = @ \cup {c}], <<>>))
<1>1. b \in Broker
  BY DEF Sound
<1>2. ASSUME NEW e \in {"connected", "pot", "maintenance"}, NEW arg \in Nat
      PROVE  <<Event(e, arg)>> \in Seq(News) /\ Quiet(<<Event(e, arg)>>)
  BY <1>2 DEF Event, News, Quiet, Relevant
<1>3. ASSUME NEW new, Sound(new), new.jobs = b.jobs, new.status = b.status,
             NEW events \in Seq(News), Quiet(events)
      PROVE  Fair(b, Granted(new, events))
  <2>1. Granted(new, events).core = new
    BY DEF Granted
  <2> QED
    BY <1>3, <2>1, QuietTells DEF Fair
<1>4. ASSUME NEW new, new \in Broker, new.jobs = b.jobs, new.status = b.status, new.maint = b.maint,
             b.clients \subseteq new.clients
      PROVE  Sound(new)
  BY <1>4 DEF Sound, Belongs
<1>5. \A e \in {"connected", "pot"} : Fair(b, Granted(b, <<Event(e, Nobody)>>))
  BY <1>2, <1>3 DEF Nobody
<1>6. Fair(b, Granted(b, <<Event("maintenance", b.maint)>>))
  <2>1. b.maint \in Nat
    BY <1>1 DEF Broker
  <2> QED
    BY <1>2, <1>3, <2>1
<1>7. Fair(b, Granted([b EXCEPT !.reopening = FALSE], <<Event("connected", Nobody)>>))
  <2>1. PICK new : new = [b EXCEPT !.reopening = FALSE]
    OBVIOUS
  <2>2. /\ new \in Broker /\ new.jobs = b.jobs /\ new.status = b.status /\ new.maint = b.maint
        /\ new.clients = b.clients
    BY <1>1, <2>1 DEF Broker
  <2> QED
    BY <1>2, <1>3, <1>4, <2>1, <2>2 DEF Nobody
<1>8. Fair(b, Granted([b EXCEPT !.up = TRUE], <<Event("connected", Nobody)>>))
  <2>1. PICK new : new = [b EXCEPT !.up = TRUE]
    OBVIOUS
  <2>2. /\ new \in Broker /\ new.jobs = b.jobs /\ new.status = b.status /\ new.maint = b.maint
        /\ new.clients = b.clients
    BY <1>1, <2>1 DEF Broker
  <2> QED
    BY <1>2, <1>3, <1>4, <2>1, <2>2 DEF Nobody
<1>9. ASSUME NEW c \in Nat
      PROVE  Fair(b, Granted([b EXCEPT !.clients = @ \cup {c}], <<>>))
  <2>1. PICK new : new = [b EXCEPT !.clients = @ \cup {c}]
    OBVIOUS
  <2>2. /\ new \in Broker /\ new.jobs = b.jobs /\ new.status = b.status /\ new.maint = b.maint
        /\ new.clients = b.clients \cup {c}
    BY <1>1, <2>1 DEF Broker
  <2>3. <<>> \in Seq(News) /\ Quiet(<<>>)
    BY DEF Quiet
  <2> QED
    BY <1>3, <1>4, <2>1, <2>2, <2>3
<1> QED
  BY <1>5, <1>6, <1>7, <1>8, <1>9

\* Requests that leave the maintenance as it is.
LEMMA MaintenanceKept ==
  ASSUME NEW b, "maint" \in DOMAIN b, NEW c
  PROVE  /\ \A n, stream, cat : Enqueue(b, c, n, stream, cat).core.maint = b.maint
         /\ Cancel(b, c).core.maint = b.maint /\ Observe(b, c).core.maint = b.maint
<1> USE DEF Granted, Refused
<1>1. \A i, n : Grow(b, i, n).core.maint = b.maint
  BY DEF Grow
<1>2. \A n, stream, cat : Enqueue(b, c, n, stream, cat).core.maint = b.maint
  BY <1>1 DEF Enqueue
<1>3. Cancel(b, c).core.maint = b.maint
  BY DEF Cancel
<1>4. Observe(b, c).core.maint = b.maint
  BY DEF Observe
<1> QED
  BY <1>2, <1>3, <1>4

\* What the session has to read ends with the keyer's status, and if there is nothing of
\* it to read, the client was last told of it, but for break-in if by a job's completion.
Truth(st, m) == StatusForMode(Showing(st), m)
As(truth, from) == IF from = "completed" THEN [truth EXCEPT !.break_in = FALSE] ELSE truth
RingInv == ring \in Seq(News) /\ Len(ring) <= RingCap /\ LastSays(ring, core.status)
ShownInv ==
  Quiet(ring) /\ ~lagged /\ shown.known /\ basis # "early" /\ core.jobs = <<>>
    => shown = As(Truth(core.status, mode), basis)
BrokerInv == Sound(core) /\ RingInv /\ ShownInv

\* The larger of zero and a number.
LEMMA MaxZero == ASSUME NEW x \in Int PROVE Max({0, x}) = IF x > 0 THEN x ELSE 0
<1>1. CASE x > 0
  <2>1. x \in {0, x} /\ \A y \in {0, x} : x >= y
    BY <1>1
  <2>2. \A z \in {0, x} : (\A y \in {0, x} : z >= y) => z = x
    BY <1>1
  <2> QED
    BY <1>1, <2>1, <2>2 DEF Max
<1>2. CASE ~(x > 0)
  <2>1. 0 \in {0, x} /\ \A y \in {0, x} : 0 >= y
    BY <1>2
  <2>2. \A z \in {0, x} : (\A y \in {0, x} : z >= y) => z = 0
    BY <1>2
  <2> QED
    BY <1>2, <2>1, <2>2 DEF Max
<1> QED
  BY <1>1, <1>2

\* Of what was in the ring and what is sent now it keeps an end, that is all of it or has
\* its size.
LEMMA RingKept ==
  ASSUME ring \in Seq(News), NEW answer, answer.events \in Seq(News), Does(answer)
  PROVE  \E k \in Nat :
           /\ ring' \in Seq(News) /\ Len(ring') <= RingCap
           /\ Len(ring) + Len(answer.events) = Len(ring') + k
           /\ \A i \in 1 .. Len(ring') :
                ring'[i] = IF i + k <= Len(ring) THEN ring[i + k]
                           ELSE answer.events[i + k - Len(ring)]
           /\ k # 0 => lagged'
           /\ ~lagged' => ~lagged
<1>1. PICK o \in Seq(News), ev \in Seq(News) : o = ring /\ ev = answer.events
  OBVIOUS
<1>2. PICK a \in Nat, n \in Nat : a = Len(o) /\ n = Len(ev)
  OBVIOUS
<1>3. PICK sent \in Seq(News) : sent = o \o ev
  <2>1. o \o ev \in Seq(News)
    OBVIOUS
  <2> QED
    BY <2>1
<1>4. Len(sent) = a + n /\ \A i \in 1 .. a + n : sent[i] = IF i <= a THEN o[i] ELSE ev[i - a]
  BY <1>2, <1>3
<1>5. RingCap \in Nat
  BY EndpointAssumption
<1>6. Max({0, a + n - RingCap}) = IF a + n - RingCap > 0 THEN a + n - RingCap ELSE 0
  BY <1>5, MaxZero
<1>7. PICK c \in Nat, k \in Nat : c = RingCap /\ k = Max({0, a + n - RingCap}) /\ k <= a + n /\ a + n - k <= c
  <2>1. PICK c \in Nat : c = RingCap
    BY <1>5
  <2>2. a + n - c \in Int
    BY <1>2
  <2>3. PICK d \in Int : d = a + n - c
    BY <2>2
  <2>4. Max({0, d}) = IF d > 0 THEN d ELSE 0
    BY MaxZero
  <2>5. PICK k : k = Max({0, d})
    OBVIOUS
  <2>6. k = IF d > 0 THEN d ELSE 0
    BY <2>4, <2>5
  <2>7. k \in Nat /\ k <= a + n /\ a + n - k <= c
    BY <1>2, <2>3, <2>6
  <2> QED
    BY <2>1, <2>3, <2>5, <2>7
<1>8. ring' = SubSeq(sent, k + 1, a + n) /\ lagged' = (lagged \/ k > 0)
  <2>1. sent = ring \o answer.events
    BY <1>1, <1>3
  <2>2. Len(ring \o answer.events) = a + n
    BY <1>4, <2>1
  <2> QED
    BY <1>7, <2>1, <2>2 DEF Does
<1>9. PICK r \in Seq(News) : r = ring' /\ Len(r) = a + n - k /\ \A i \in 1 .. a + n - k : r[i] = sent[i + k]
  <2>1. PICK m \in Nat : m = a + n /\ m = Len(sent) /\ k <= m
    BY <1>4, <1>7
  <2>2. SubSeq(sent, k + 1, m) \in Seq(News)
    <3>1. \A i \in k + 1 .. m : i \in 1 .. Len(sent)
      BY <2>1
    <3>2. \A i \in k + 1 .. m : sent[i] \in News
      BY <3>1
    <3> QED
      BY <2>1, <3>2
  <2>3. Len(SubSeq(sent, k + 1, m)) = m - k
    BY <2>1
  <2>4. \A i \in 1 .. m - k : SubSeq(sent, k + 1, m)[i] = sent[i + k]
    BY <2>1
  <2>5. PICK r \in Seq(News) : r = SubSeq(sent, k + 1, m)
    BY <2>2
  <2>6. Len(r) = m - k
    BY <2>3, <2>5
  <2>7. \A i \in 1 .. m - k : r[i] = sent[i + k]
    BY <2>4, <2>5
  <2>8. r = ring'
    BY <1>8, <2>1, <2>5
  <2> QED
    BY <2>1, <2>6, <2>7, <2>8
<1>10. \A i \in 1 .. Len(r) : r[i] = IF i + k <= a THEN o[i + k] ELSE ev[i + k - a]
  <2> SUFFICES ASSUME NEW i \in 1 .. a + n - k
               PROVE  r[i] = IF i + k <= a THEN o[i + k] ELSE ev[i + k - a]
    BY <1>9
  <2>1. PICK p \in 1 .. a + n : p = i + k
    BY <1>7, SMTT(40)
  <2>2. r[i] = sent[p] /\ sent[p] = IF p <= a THEN o[p] ELSE ev[p - a]
    BY <1>4, <1>9, <2>1
  <2> QED
    BY <2>1, <2>2, SMTT(40)
<1>11. Len(r) <= c /\ a + n = Len(r) + k
  BY <1>2, <1>7, <1>9
<1>12. (k # 0 => lagged') /\ (~lagged' => ~lagged)
  <2>1. k # 0 => k > 0
    BY <1>7
  <2>2. lagged' <=> lagged \/ k > 0
    BY <1>8
  <2> QED
    BY <2>1, <2>2
<1>13. /\ ring' \in Seq(News) /\ Len(ring') <= RingCap /\ Len(ring) + Len(answer.events) = Len(ring') + k
  BY <1>1, <1>2, <1>7, <1>9, <1>11
<1>14. \A i \in 1 .. Len(ring') :
         ring'[i] = IF i + k <= Len(ring) THEN ring[i + k] ELSE answer.events[i + k - Len(ring)]
  BY <1>1, <1>2, <1>9, <1>10
<1> QED
  BY <1>12, <1>13, <1>14

\* So what the session has to read still ends with the status, and what it has told is true.
LEMMA DoesKeeps ==
  ASSUME BrokerInv, NEW answer, Fair(core, answer), Does(answer), UNCHANGED <<shown, basis, mode>>
  PROVE  BrokerInv'
<1>1. core' = answer.core
  BY DEF Does
<1>2. answer.events \in Seq(News) /\ ring \in Seq(News)
  BY DEF Fair, Tells, BrokerInv, RingInv
<1>3. PICK ev \in Seq(News), n \in Nat, a \in Nat : ev = answer.events /\ n = Len(ev) /\ a = Len(ring)
  BY <1>2
<1>4. PICK k \in Nat :
        /\ ring' \in Seq(News) /\ Len(ring') <= RingCap
        /\ a + n = Len(ring') + k
        /\ \A i \in 1 .. Len(ring') :
             ring'[i] = IF i + k <= a THEN ring[i + k] ELSE ev[i + k - a]
        /\ k # 0 => lagged'
        /\ ~lagged' => ~lagged
  BY <1>2, <1>3, RingKept
<1>5. PICK m \in Nat : m = Len(ring')
  BY <1>4
<1>6. /\ LastSays(ev, core'.status) /\ LastSays(ring, core.status)
      /\ Quiet(ev) => core'.status = core.status /\ (core'.jobs = <<>> => core.jobs = <<>>)
  BY <1>1, <1>3 DEF Fair, Tells, BrokerInv, RingInv
<1>7. LastSays(ring', core'.status)
  <2> SUFFICES ASSUME NEW i \in 1 .. m, Relevant(ring'[i]), \A j \in i + 1 .. m : ~Relevant(ring'[j])
               PROVE  Says(ring'[i], core'.status)
    BY <1>5 DEF LastSays
  <2>1. CASE i + k <= a
    <3>1. Quiet(ev)
      <4> SUFFICES ASSUME NEW j \in 1 .. n PROVE ~Relevant(ev[j])
        BY <1>3 DEF Quiet
      <4>1. j + a - k \in i + 1 .. m /\ ~(j + a - k + k <= a) /\ j + a - k + k - a = j
        BY <1>4, <1>5, <2>1
      <4>2. j + a - k \in 1 .. m
        BY <4>1
      <4>3. ring'[j + a - k] = ev[j]
        BY <1>4, <1>5, <4>1, <4>2
      <4> QED
        BY <4>1, <4>3
    <3>2. i + k \in 1 .. a /\ ring'[i] = ring[i + k]
      BY <1>4, <1>5, <2>1
    <3>3. ASSUME NEW j \in (i + k) + 1 .. a
          PROVE  ~Relevant(ring[j])
      <4>1. j - k \in i + 1 .. m /\ j - k \in 1 .. m /\ (j - k) + k = j /\ j <= a
        BY <1>4, <1>5
      <4>2. ring'[j - k] = ring[j]
        BY <1>4, <1>5, <4>1
      <4> QED
        BY <4>1, <4>2
    <3>4. Says(ring[i + k], core.status)
      BY <1>3, <1>6, <3>2, <3>3 DEF LastSays
    <3> QED
      BY <1>6, <3>1, <3>2, <3>4
  <2>2. CASE ~(i + k <= a)
    <3>1. PICK p \in 1 .. n : p = i + k - a
      <4>1. i + k - a \in 1 .. n
        BY <1>4, <1>5, <2>2
      <4> QED
        BY <4>1
    <3>2. ring'[i] = ev[p]
      BY <1>4, <1>5, <2>2, <3>1
    <3>3. ASSUME NEW j \in p + 1 .. n
          PROVE  ~Relevant(ev[j])
      <4>1. /\ j + a - k \in i + 1 .. m /\ j + a - k \in 1 .. m
            /\ ~(j + a - k + k <= a) /\ j + a - k + k - a = j
        BY <1>4, <1>5, <3>1
      <4>2. ring'[j + a - k] = ev[j]
        BY <1>4, <1>5, <4>1
      <4> QED
        BY <4>1, <4>2
    <3> QED
      BY <1>3, <1>6, <3>2, <3>3 DEF LastSays
  <2> QED
    BY <2>1, <2>2
<1>8. ShownInv'
  <2> SUFFICES ASSUME Quiet(ring'), ~lagged', shown.known, basis # "early", core'.jobs = <<>>
               PROVE  shown = As(Truth(core'.status, mode), basis)
    BY DEF ShownInv, Truth, As
  <2>1. k = 0 /\ ~lagged /\ m = a + n
    BY <1>4, <1>5
  <2>2. Quiet(ring)
    <3> SUFFICES ASSUME NEW i \in 1 .. a PROVE ~Relevant(ring[i])
      BY <1>3 DEF Quiet
    <3>1. i \in 1 .. m /\ ring'[i] = ring[i]
      BY <1>4, <1>5, <2>1
    <3> QED
      BY <1>5, <3>1 DEF Quiet
  <2>3. Quiet(ev)
    <3> SUFFICES ASSUME NEW i \in 1 .. n PROVE ~Relevant(ev[i])
      BY <1>3 DEF Quiet
    <3>1. i + a \in 1 .. m /\ ~(i + a + 0 <= a) /\ i + a + 0 - a = i
      BY <2>1
    <3>2. ring'[i + a] = ev[i]
      BY <1>4, <1>5, <2>1, <3>1
    <3> QED
      BY <1>5, <3>1, <3>2 DEF Quiet
  <2> QED
    BY <1>6, <2>1, <2>2, <2>3 DEF BrokerInv, ShownInv
<1>9. Sound(core')
  BY <1>1 DEF Fair
<1>10. BrokerInv' <=> Sound(core') /\ RingInv' /\ ShownInv'
  BY DEF BrokerInv, Sound, Belongs
<1>11. RingInv'
  BY <1>4, <1>7 DEF RingInv
<1> QED
  BY <1>8, <1>9, <1>10, <1>11

------------------------------------------------------------------------------
\* The session's own state, its place among the broker's clients and its maintenance.
SessionInv ==
  /\ perms \subseteq WkTokens
  /\ partial # <<>> => Len(partial) < ExpectedLen(partial)
  /\ opened \in BOOLEAN /\ maintaining \in BOOLEAN /\ mode \in {"wk1", "wk2", "wk3"}
  /\ pc \in {"live", "releasing", "leaving", "over"}
  /\ snap \in [busy : BOOLEAN, key_down : BOOLEAN, break_in : BOOLEAN]
  /\ shown \in [busy : BOOLEAN, key_down : BOOLEAN, break_in : BOOLEAN, known : BOOLEAN]
ClientsInv ==
  /\ Tool \in core.clients
  /\ core.clients \subseteq {Me, Tool} \cup FirstTyped .. next
  /\ pc # "over" => Me \in core.clients
  /\ pc = "over" /\ box = <<>> => Me \notin core.clients
HeldInv == core.maint = Me => (maintaining /\ pc \in {"live", "releasing"}) \/ box # <<>>

\* Of what the session has sent and the actor not come to: releases, and last of all, when
\* it is over, that it leaves.
BoxInv ==
  /\ box \in Seq({"release", "unregister"})
  /\ pc # "over" => \A i \in 1 .. Len(box) : box[i] = "release"
  /\ pc = "over" /\ box # <<>> => box[Len(box)] = "unregister"
WholeInv == BrokerInv /\ SessionInv /\ ClientsInv /\ HeldInv /\ BoxInv /\ TypedInv /\ OrderInv

\* A request that is not the session's own maintenance, and no one coming or going.
Fits(answer) ==
  /\ Fair(core, answer)
  /\ answer.core.maint \in {core.maint, Nobody, Tool} /\ answer.core.clients = core.clients

\* Such requests are all but three.
LEMMA OthersFit ==
  ASSUME Sound(core), Tool \in core.clients
  PROVE  /\ \A c, n \in Nat : \A stream, cat \in BOOLEAN : Fits(Enqueue(core, c, n, stream, cat))
         /\ \A c \in Nat : Fits(Cancel(core, c))
         /\ Fits(Stop(core)) /\ Fits(Lose(core)) /\ Fits(Maintain(core, Tool))
         /\ Fits(Release(core, Tool)) /\ Fits(Release(core, Me)) /\ Release(core, Me).core.maint # Me
         /\ \A st \in DeviceStatus : Fits(Observe(core, st))
<1>1. "maint" \in DOMAIN core /\ "clients" \in DOMAIN core
  BY DEF Sound, Broker
<1>2. Tool \in Nat \ {Nobody} /\ Me \in Nat \ {Nobody}
  BY DEF Tool, Me, Nobody
<1>3. ASSUME NEW c \in Nat, NEW n \in Nat, NEW stream \in BOOLEAN, NEW cat \in BOOLEAN
      PROVE  Fits(Enqueue(core, c, n, stream, cat))
  <2>1. Fair(core, Enqueue(core, c, n, stream, cat))
    BY EnqueueFair
  <2>2. Enqueue(core, c, n, stream, cat).core.maint = core.maint
    BY <1>1, MaintenanceKept
  <2>3. Enqueue(core, c, n, stream, cat).core.clients = core.clients
    BY <1>1, ClientsKept DEF Keeps
  <2> QED
    BY <2>1, <2>2, <2>3 DEF Fits
<1>4. ASSUME NEW c \in Nat
      PROVE  Fits(Cancel(core, c))
  BY <1>1, <1>4, CancelFair, MaintenanceKept, ClientsKept DEF Fits, Keeps
<1>5. Fits(Stop(core)) /\ Fits(Lose(core))
  BY <1>1, StopFair, ClientsKept DEF Fits, Keeps
<1>6. Fits(Maintain(core, Tool))
  BY <1>1, MaintainFair, ClientsKept DEF Fits, Keeps
<1>7. Fits(Release(core, Tool)) /\ Fits(Release(core, Me)) /\ Release(core, Me).core.maint # Me
  BY <1>1, <1>2, ReleaseFair, ClientsKept DEF Fits, Keeps
<1>8. ASSUME NEW st \in DeviceStatus
      PROVE  Fits(Observe(core, st))
  BY <1>1, <1>8, ObserveFair, MaintenanceKept, ClientsKept DEF Fits, Keeps
<1> QED
  BY <1>3, <1>4, <1>5, <1>6, <1>7, <1>8

\* What the keyer does by itself is too.
LEMMA KeyerFits ==
  ASSUME Sound(core)
  PROVE  /\ \A e \in {"connected", "pot"} : Fits(Granted(core, <<Event(e, Nobody)>>))
         /\ Fits(Granted(core, <<Event("maintenance", core.maint)>>))
         /\ Fits(Granted([core EXCEPT !.reopening = FALSE], <<Event("connected", Nobody)>>))
         /\ Fits(Granted([core EXCEPT !.up = TRUE], <<Event("connected", Nobody)>>))
         /\ core.jobs # <<>> /\ ~Sounds(core.status)
              => Fits(Granted([core EXCEPT !.jobs = Tail(@)], <<Event("completed", Nobody)>>))
<1>1. "maint" \in DOMAIN core /\ "clients" \in DOMAIN core
  BY DEF Sound, Broker
<1>2. \A events : /\ Granted(core, events).core.maint = core.maint
                  /\ Granted(core, events).core.clients = core.clients
  BY DEF Granted
<1>3. \A events : LET new == Granted([core EXCEPT !.reopening = FALSE], events).core
                  IN new.maint = core.maint /\ new.clients = core.clients
  BY <1>1 DEF Granted
<1>4. \A events : LET new == Granted([core EXCEPT !.up = TRUE], events).core
                  IN new.maint = core.maint /\ new.clients = core.clients
  BY <1>1 DEF Granted
<1>5. \A events : LET new == Granted([core EXCEPT !.jobs = Tail(@)], events).core
                  IN new.maint = core.maint /\ new.clients = core.clients
  BY <1>1 DEF Granted
<1>6. \A e \in {"connected", "pot"} : Fits(Granted(core, <<Event(e, Nobody)>>))
  BY <1>2, OtherFair DEF Fits
<1>7. Fits(Granted(core, <<Event("maintenance", core.maint)>>))
  BY <1>2, OtherFair DEF Fits
<1>8. Fits(Granted([core EXCEPT !.reopening = FALSE], <<Event("connected", Nobody)>>))
  BY <1>3, OtherFair DEF Fits
<1>9. Fits(Granted([core EXCEPT !.up = TRUE], <<Event("connected", Nobody)>>))
  BY <1>4, OtherFair DEF Fits
<1>10. core.jobs # <<>> /\ ~Sounds(core.status)
         => Fits(Granted([core EXCEPT !.jobs = Tail(@)], <<Event("completed", Nobody)>>))
  BY <1>5, SettleFair DEF Fits
<1> QED
  BY <1>6, <1>7, <1>8, <1>9, <1>10

\* The session goes on, or begins to end.
GoesOn == pc' = pc \/ (pc = "live" /\ pc' = "releasing")

\* Such a request keeps everything.
LEMMA FitsKeeps ==
  ASSUME WholeInv, NEW answer, Fits(answer), Does(answer), GoesOn,
         UNCHANGED <<shown, basis, mode, next, maintaining, box>>
  PROVE  BrokerInv' /\ ClientsInv' /\ HeldInv'
<1>1. core' = answer.core
  BY DEF Does
<1>2. BrokerInv'
  BY DoesKeeps DEF WholeInv, Fits
<1>3. core'.clients = core.clients /\ core'.maint \in {core.maint, Nobody, Tool}
  BY <1>1 DEF Fits
<1>4. (pc' = "over" <=> pc = "over") /\ (pc \in {"live", "releasing"} => pc' \in {"live", "releasing"})
  BY DEF GoesOn
<1>5. Nobody # Me /\ Tool # Me
  BY DEF Me, Nobody, Tool
<1> QED
  BY <1>2, <1>3, <1>4, <1>5 DEF WholeInv, ClientsInv, HeldInv

\* And so does no request.
LEMMA IdleKeeps ==
  ASSUME WholeInv, GoesOn, UNCHANGED <<core, ring, lagged, shown, basis, mode, next, maintaining, box>>
  PROVE  BrokerInv' /\ ClientsInv' /\ HeldInv'
<1>1. BrokerInv'
  BY DEF WholeInv, BrokerInv, Sound, Belongs, RingInv, ShownInv, LastSays, Quiet, Truth, As
<1>2. (pc' = "over" <=> pc = "over") /\ (pc \in {"live", "releasing"} => pc' \in {"live", "releasing"})
  BY DEF GoesOn
<1> QED
  BY <1>1, <1>2 DEF WholeInv, ClientsInv, HeldInv

\* A snapshot that is published says what the broker has, when it has no job.
LEMMA SynthesizedTrue ==
  ASSUME WholeInv, ~Unpublished, core.jobs = <<>>
  PROVE  Synthesized = Truth(core.status, mode)
<1>1. core.status.busy \in BOOLEAN
  BY DEF WholeInv, BrokerInv, Sound, Broker, DeviceStatus
<1>2. /\ snap.busy = core.status.busy /\ snap.key_down = core.status.key_down
      /\ snap.break_in = core.status.break_in
  <2>1. PICK st : st = core.status /\ (st.busy = TRUE \/ st.busy = FALSE)
    BY <1>1
  <2>2. (st.busy \/ core.jobs # <<>>) = st.busy
    BY <2>1
  <2>3. snap = [busy |-> st.busy, key_down |-> st.key_down, break_in |-> st.break_in]
    BY <2>1, <2>2, Zenon DEF Unpublished, Snapshot
  <2> QED
    BY <2>1, <2>3
<1> QED
  BY <1>2 DEF Synthesized, Showing, Truth

\* An event that is read: what the client is told then is true, unless more is to come.
LEMMA ReadKeeps ==
  ASSUME WholeInv, ReadEvent
  PROVE  BrokerInv'
<1>1. PICK r \in Seq(News) : r = ring /\ Len(r) <= RingCap /\ LastSays(r, core.status)
  BY DEF WholeInv, BrokerInv, RingInv
<1>2. /\ r # <<>> /\ ring' = Tail(r) /\ ~lagged /\ UNCHANGED <<core, mode, snap, lagged>>
      /\ CASE Head(r).e = "status" ->
                Shows(StatusForMode(Showing(Head(r).arg), mode), "told")
           [] Head(r).e = "completed" -> Shows(Showing(AtRest), "completed")
           [] Head(r).e = "canceled" -> Shows(Synthesized, FromSnapshot)
           [] OTHER -> UNCHANGED <<shown, basis>>
  BY <1>1 DEF ReadEvent, flags, client
<1>3. Tail(r) \in Seq(News) /\ Head(r) \in News /\ Len(Tail(r)) = Len(r) - 1 /\ Len(r) \in Nat
  BY <1>2, SMTT(40)
<1>4. PICK m \in Nat : m + 1 = Len(r)
  <2>1. Len(r) # 0
    BY <1>2
  <2>2. Len(r) - 1 \in Nat /\ (Len(r) - 1) + 1 = Len(r)
    BY <1>3, <2>1
  <2> QED
    BY <2>2
<1>5. \A i \in 1 .. m : Tail(r)[i] = r[i + 1]
  BY <1>2, <1>4
<1>6. PICK t \in Seq(News) : t = Tail(r) /\ Len(t) = m /\ \A i \in 1 .. m : t[i] = r[i + 1]
  <2>1. PICK t \in Seq(News) : t = Tail(r)
    BY <1>3
  <2>2. Len(Tail(r)) = Len(r) - 1
    BY <1>2
  <2>3. Len(t) = Len(r) - 1
    BY <2>1, <2>2
  <2>4. Len(t) = m
    BY <1>4, <2>3
  <2> QED
    BY <1>5, <2>1, <2>4
<1>7. RingCap \in Nat
  BY EndpointAssumption
<1>8. Len(t) <= RingCap
  BY <1>1, <1>4, <1>6, <1>7
<1>9. LastSays(t, core.status)
  <2> SUFFICES ASSUME NEW i \in 1 .. m, Relevant(t[i]), \A j \in i + 1 .. m : ~Relevant(t[j])
               PROVE  Says(t[i], core.status)
    BY <1>6 DEF LastSays
  <2>1. t[i] = r[i + 1] /\ i + 1 \in 1 .. m + 1
    BY <1>6
  <2>2. ASSUME NEW j \in (i + 1) + 1 .. m + 1
        PROVE  ~Relevant(r[j])
    <3>1. j - 1 \in i + 1 .. m /\ j - 1 \in 1 .. m /\ (j - 1) + 1 = j
      OBVIOUS
    <3>2. t[j - 1] = r[j]
      BY <1>6, <3>1
    <3> QED
      BY <3>1, <3>2
  <2>3. Relevant(r[i + 1])
    BY <2>1
  <2> QED
    BY <1>1, <1>4, <2>1, <2>2, <2>3 DEF LastSays
<1>10. RingInv'
  BY <1>2, <1>6, <1>8, <1>9 DEF RingInv
<1>11. ShownInv'
  <2> SUFFICES ASSUME Quiet(t), shown'.known, basis' # "early", core.jobs = <<>>
               PROVE  shown' = As(Truth(core.status, mode), basis')
    BY <1>2, <1>6 DEF ShownInv, Truth, As
  <2>1. \A j \in 1 + 1 .. m + 1 : ~Relevant(r[j])
    <3> SUFFICES ASSUME NEW j \in 1 + 1 .. m + 1 PROVE ~Relevant(r[j])
      OBVIOUS
    <3>1. j - 1 \in 1 .. m /\ (j - 1) + 1 = j
      OBVIOUS
    <3>2. t[j - 1] = r[j]
      BY <1>6, <3>1
    <3> QED
      BY <1>6, <3>1, <3>2 DEF Quiet
  <2>2. Head(r) = r[1] /\ 1 \in 1 .. m + 1
    BY <1>2
  <2>3. Relevant(Head(r)) => Says(Head(r), core.status)
    BY <1>1, <1>4, <2>1, <2>2 DEF LastSays
  <2>4. CASE Head(r).e = "status"
    BY <1>2, <2>3, <2>4 DEF Relevant, Says, Shows, Truth, As
  <2>5. CASE Head(r).e = "completed"
    <3>1. ~Sounds(core.status) /\ shown' = Showing(AtRest) /\ basis' = "completed"
      BY <1>2, <2>3, <2>5 DEF Relevant, Says, Shows
    <3>2. core.status.busy = FALSE /\ core.status.key_down = FALSE
      BY <3>1 DEF WholeInv, BrokerInv, Sound, Broker, DeviceStatus, Sounds
    <3>3. As(Truth(core.status, mode), basis') = Showing(AtRest)
      BY <3>1, <3>2 DEF As, Truth, Showing, StatusForMode, AtRest
    <3> QED
      BY <3>1, <3>3
  <2>6. CASE Head(r).e = "canceled"
    <3>1. shown' = Synthesized /\ ~Unpublished /\ basis' = "told"
      BY <1>2, <2>6 DEF Shows, FromSnapshot
    <3> QED
      BY <3>1, SynthesizedTrue DEF As
  <2>7. CASE Head(r).e \notin {"status", "completed", "canceled"}
    <3>1. UNCHANGED <<shown, basis>> /\ ~Relevant(r[1])
      BY <1>2, <2>2, <2>7 DEF Relevant
    <3>2. Quiet(r)
      <4> SUFFICES ASSUME NEW j \in 1 .. m + 1 PROVE ~Relevant(r[j])
        BY <1>4 DEF Quiet
      <4>1. j = 1 \/ j \in 1 + 1 .. m + 1
        OBVIOUS
      <4> QED
        BY <2>1, <3>1, <4>1
    <3> QED
      BY <1>1, <1>2, <3>1, <3>2 DEF WholeInv, BrokerInv, ShownInv
  <2> QED
    BY <2>4, <2>5, <2>6, <2>7
<1> QED
  BY <1>2, <1>10, <1>11 DEF WholeInv, BrokerInv, Sound, Belongs

\* A gap in what was read: the snapshot stands for it.
LEMMA LagKeeps ==
  ASSUME WholeInv, Lag
  PROVE  BrokerInv'
<1>1. /\ UNCHANGED <<core, ring, mode, snap>> /\ shown' = Synthesized
      /\ basis' # "completed" /\ (basis' # "early" => ~Unpublished)
  BY DEF Lag, Shows, FromSnapshot, flags
<1>2. ShownInv'
  <2> SUFFICES ASSUME basis' # "early", core.jobs = <<>>
               PROVE  shown' = As(Truth(core.status, mode), basis')
    BY <1>1 DEF ShownInv, Truth, As
  <2>1. shown' = Synthesized /\ ~Unpublished
    BY <1>1
  <2> QED
    BY <1>1, <2>1, SynthesizedTrue DEF As
<1> QED
  BY <1>1, <1>2 DEF WholeInv, BrokerInv, Sound, Belongs, RingInv, LastSays

\* A command: a request for maintenance or its release, a status, a mode, or nothing of
\* these.
LEMMA CommandKeeps ==
  ASSUME WholeInv, TakeCommand
  PROVE  BrokerInv' /\ ClientsInv' /\ HeldInv'
<1> DEFINE act == HandleCommand(Parsed.item.bytes)
<1>1. /\ pc = "live" /\ Me \in core.clients /\ Sound(core) /\ Tool \in core.clients /\ UNCHANGED <<next, snap>>
      /\ Me \in Nat \ {Nobody} /\ Tool # Me
  BY DEF TakeCommand, Take, WholeInv, ClientsInv, BrokerInv, typed, Me, Nobody, Tool
<1>5. /\ Answered(act) \/ (Answers(act) /\ Unanswered)
      /\ act.do \notin {"open", "mode"} => mode' = mode
  BY DEF TakeCommand
<1> HIDE DEF act
<1>2. CASE Answered(act) /\ act.do = "request" /\ act.req = "maintenance"
  <2>1. PICK answer : answer = Maintain(core, Me)
    OBVIOUS
  <2>2. /\ Does(answer) /\ maintaining' = (maintaining \/ answer.ok) /\ UNCHANGED box
        /\ pc' = (IF answer.ok THEN pc ELSE "releasing") /\ UNCHANGED <<shown, basis, mode>>
    BY <1>2, <1>5, <2>1 DEF Answered, Ask, Awaited, client
  <2>3. /\ Fair(core, answer) /\ answer.core.clients = core.clients
        /\ answer.core.maint # core.maint => answer.ok /\ answer.core.maint = Me
    <3>1. "clients" \in DOMAIN core
      BY <1>1 DEF Sound, Broker
    <3> QED
      BY <1>1, <2>1, <3>1, MaintainFair, ClientsKept DEF Keeps
  <2>4. BrokerInv'
    BY <2>2, <2>3, DoesKeeps DEF WholeInv
  <2>5. core' = answer.core
    BY <2>2 DEF Does
  <2>6. ClientsInv'
    BY <1>1, <2>2, <2>3, <2>5 DEF WholeInv, ClientsInv
  <2>7. HeldInv'
    <3>1. pc' \in {"live", "releasing"}
      BY <1>1, <2>2
    <3>2. core'.maint = Me => maintaining' \/ box' # <<>>
      BY <2>2, <2>3, <2>5 DEF WholeInv, HeldInv
    <3> QED
      BY <3>1, <3>2 DEF HeldInv
  <2> QED
    BY <2>4, <2>6, <2>7
<1>4. CASE Unanswered \/ (Answered(act) /\ ~(act.do = "request" /\ act.req = "maintenance"))
  <2>1. /\ UNCHANGED <<core, ring, lagged>> /\ (pc' = pc \/ pc' = "releasing")
        /\ UNCHANGED <<maintaining, box>> \/ box' = Append(box, "release")
    <3>1. CASE Unanswered
      BY <3>1 DEF Unanswered, receiver
    <3>2. CASE Answered(act) /\ ~(act.do = "request" /\ act.req = "maintenance")
      BY <3>2 DEF Answered, Ask, receiver
    <3> QED
      BY <1>4, <3>1, <3>2
  <2>2. ShownInv'
    <3> SUFFICES ASSUME Quiet(ring), ~lagged, shown'.known, basis' # "early", core.jobs = <<>>
                 PROVE  shown' = As(Truth(core.status, mode'), basis')
      BY <2>1 DEF ShownInv, Truth, As
    <3>1. CASE shown' = Unknown
      BY <3>1 DEF Unknown
    <3>2. CASE Answered(act) /\ act.do = "status"
      <4>1. shown' = Synthesized /\ basis' = FromSnapshot /\ mode' = mode
        BY <1>5, <3>2 DEF Answered
      <4>2. ~Unpublished /\ basis' = "told"
        BY <4>1 DEF FromSnapshot
      <4> QED
        BY <4>1, <4>2, SynthesizedTrue DEF As
    <3>3. CASE Answered(act) /\ act.do \notin {"open", "mode", "status"}
      <4>1. UNCHANGED <<shown, basis, mode>>
        BY <1>5, <3>3 DEF Answered, client
      <4> QED
        BY <4>1 DEF WholeInv, BrokerInv, ShownInv
    <3>4. shown' = Unknown \/ (Answered(act) /\ act.do \notin {"open", "mode"})
      BY <1>4 DEF Answered, Unanswered
    <3> QED
      BY <3>1, <3>2, <3>3, <3>4
  <2>3. BrokerInv'
    BY <2>1, <2>2 DEF WholeInv, BrokerInv, Sound, Belongs, RingInv, LastSays
  <2>4. box' # <<>> \/ UNCHANGED <<maintaining, box>>
    BY <2>1 DEF WholeInv, BoxInv
  <2> QED
    BY <1>1, <2>1, <2>3, <2>4 DEF WholeInv, ClientsInv, HeldInv
<1> QED
  BY <1>2, <1>4, <1>5

\* The session sends that it releases the keyer and leaves, and the broker is as it was.
LEMMA EndKeeps ==
  ASSUME WholeInv, EndSession
  PROVE  BrokerInv' /\ ClientsInv' /\ HeldInv'
<1>1. /\ UNCHANGED <<core, ring, lagged, shown, basis, mode, next, maintaining>>
      /\ pc \in {"releasing", "leaving"} /\ \E x \in {"release", "unregister"} : box' = Append(box, x)
  BY DEF EndSession, End, receiver, client, typed
<1>2. box' # <<>>
  BY <1>1 DEF WholeInv, BoxInv
<1>3. BrokerInv'
  BY <1>1 DEF WholeInv, BrokerInv, Sound, Belongs, RingInv, ShownInv, LastSays, Quiet, Truth, As
<1> QED
  BY <1>1, <1>2, <1>3 DEF WholeInv, ClientsInv, HeldInv

\* The actor comes to what was sent: the keyer is no longer the session's, and after the
\* last of what a session sent that is over the broker does not know it any more.
LEMMA HandleKeeps ==
  ASSUME WholeInv, Handle
  PROVE  BrokerInv' /\ ClientsInv' /\ HeldInv' /\ BoxInv'
<1>1. /\ Sound(core) /\ Tool \in core.clients /\ Me \in Nat \ {Nobody} /\ Tool # Me /\ Nobody # Me
      /\ UNCHANGED <<shown, basis, mode, next, maintaining, pc>>
      /\ box # <<>> /\ box' = Tail(box)
  BY DEF Handle, WholeInv, ClientsInv, BrokerInv, client, typed, flags, Me, Nobody, Tool
<1>2. PICK old \in Seq({"release", "unregister"}) : old = box
  BY DEF WholeInv, BoxInv
<1>3. PICK n \in Nat : n + 1 = Len(old)
  <2>1. Len(old) # 0 /\ Len(old) \in Nat
    BY <1>1, <1>2
  <2>2. Len(old) - 1 \in Nat /\ (Len(old) - 1) + 1 = Len(old)
    BY <2>1
  <2> QED
    BY <2>2
<1>4. PICK rest \in Seq({"release", "unregister"}) :
        rest = box' /\ Len(rest) = n /\ \A i \in 1 .. n : rest[i] = old[i + 1]
  <2>1. Tail(old) \in Seq({"release", "unregister"}) /\ Len(Tail(old)) = Len(old) - 1
    BY <1>1, <1>2
  <2>2. \A i \in 1 .. Len(old) - 1 : Tail(old)[i] = old[i + 1]
    BY <1>1, <1>2
  <2> QED
    BY <1>1, <1>2, <1>3, <2>1, <2>2
<1>5. BoxInv'
  <2>1. pc # "over" => \A i \in 1 .. n : rest[i] = "release"
    <3>1. \A i \in 1 .. n : i + 1 \in 1 .. Len(old)
      BY <1>3
    <3> QED
      BY <1>2, <1>4, <3>1 DEF WholeInv, BoxInv
  <2>2. pc = "over" /\ rest # <<>> => rest[n] = "unregister"
    <3> SUFFICES ASSUME pc = "over", rest # <<>> PROVE rest[n] = "unregister"
      OBVIOUS
    <3>1. n \in 1 .. n
      BY <1>4
    <3>2. old[n + 1] = "unregister"
      BY <1>1, <1>2, <1>3 DEF WholeInv, BoxInv
    <3> QED
      BY <1>4, <3>1, <3>2
  <2> QED
    BY <1>1, <1>4, <2>1, <2>2 DEF BoxInv
<1>6. PICK answer : answer = IF Head(box) = "release" THEN Release(core, Me) ELSE Unregister(core, Me)
  OBVIOUS
<1>7. Does(answer) /\ core' = answer.core
  BY <1>6 DEF Handle, Does
<1>8. CASE Head(box) = "release"
  <2>1. Fits(answer) /\ answer.core.maint # Me
    BY <1>1, <1>6, <1>8, OthersFit
  <2>2. BrokerInv'
    BY <1>1, <1>7, <2>1, DoesKeeps DEF WholeInv, Fits
  <2>3. pc = "over" => box' # <<>>
    <3> SUFFICES ASSUME pc = "over", n = 0 PROVE FALSE
      BY <1>4
    <3>1. old[1] = "unregister" /\ old[1] = "release"
      BY <1>1, <1>2, <1>3, <1>8 DEF WholeInv, BoxInv
    <3> QED
      BY <3>1
  <2> QED
    BY <1>1, <1>5, <1>7, <2>1, <2>2, <2>3 DEF WholeInv, ClientsInv, HeldInv, Fits
<1>9. CASE Head(box) # "release"
  <2>1. Fair(core, answer) /\ answer.core.maint # Me /\ answer.core.clients = core.clients \ {Me}
    BY <1>1, <1>6, <1>9, UnregisterFair
  <2>2. BrokerInv'
    BY <1>1, <1>7, <2>1, DoesKeeps DEF WholeInv
  <2>3. pc = "over"
    <3> SUFFICES ASSUME pc # "over" PROVE FALSE
      OBVIOUS
    <3>1. 1 \in 1 .. Len(old) /\ Head(old) = old[1]
      BY <1>1, <1>2, <1>3
    <3>2. old[1] = "release"
      BY <1>2, <3>1 DEF WholeInv, BoxInv
    <3> QED
      BY <1>2, <1>9, <3>1, <3>2
  <2> QED
    BY <1>1, <1>5, <1>7, <2>1, <2>2, <2>3 DEF WholeInv, ClientsInv, HeldInv
<1> QED
  BY <1>8, <1>9, <1>5

\* What is sent is a release, but at the very end.
LEMMA NextBox == WholeInv /\ [Next]_vars => BoxInv'
<1> SUFFICES ASSUME WholeInv, [Next]_vars PROVE BoxInv'
  OBVIOUS
<1> USE DEF input, flags, receiver, client, typed, history
<1>0. /\ BoxInv /\ "release" \in {"release", "unregister"} /\ "unregister" \in {"release", "unregister"}
  BY DEF WholeInv
<1>1. CASE box' = box /\ GoesOn
  BY <1>0, <1>1 DEF BoxInv, GoesOn
<1>2. ASSUME NEW x \in {"release", "unregister"}, box' = Append(box, x), pc # "over",
             pc' = "over" <=> x = "unregister"
      PROVE  BoxInv'
  <2>1. PICK old \in Seq({"release", "unregister"}) : old = box
    BY <1>0 DEF BoxInv
  <2>2. PICK n \in Nat : n = Len(old)
    OBVIOUS
  <2>3. PICK new \in Seq({"release", "unregister"}) : new = box' /\ Len(new) = n + 1 /\ new[n + 1] = x
                                                  /\ \A i \in 1 .. n : new[i] = old[i]
    <3>1. Append(old, x) \in Seq({"release", "unregister"})
      OBVIOUS
    <3> QED
      BY <1>2, <2>1, <2>2, <3>1
  <2>4. pc' # "over" => \A i \in 1 .. Len(new) : new[i] = "release"
    <3>1. \A i \in 1 .. Len(new) : i \in 1 .. n \/ i = n + 1
      BY <2>3
    <3> QED
      BY <1>0, <1>2, <2>1, <2>2, <2>3, <3>1 DEF BoxInv
  <2>5. pc' = "over" => new[Len(new)] = "unregister"
    BY <1>2, <2>3
  <2> QED
    BY <2>3, <2>4, <2>5 DEF BoxInv
<1>3. CASE TakeCommand
  <2>1. pc = "live" /\ \E act : Answered(act) \/ Unanswered
    BY <1>3 DEF TakeCommand, Take
  <2>2. \/ box' = box /\ GoesOn
        \/ box' = Append(box, "release") /\ pc' = pc
    BY <2>1 DEF Answered, Ask, Unanswered, GoesOn
  <2> QED
    BY <1>0, <1>1, <1>2, <2>1, <2>2
<1>4. CASE EndSession
  <2>1. \/ box' = Append(box, "release") /\ pc = "releasing" /\ pc' = "leaving"
        \/ box' = Append(box, "unregister") /\ pc = "leaving" /\ pc' = "over"
    BY <1>4 DEF EndSession, End
  <2>2. ASSUME box' = Append(box, "release"), pc = "releasing", pc' = "leaving"
        PROVE  BoxInv'
    <3>1. PICK x \in {"release", "unregister"} : x = "release"
      BY <1>0
    <3> QED
      BY <1>2, <2>2, <3>1
  <2>3. ASSUME box' = Append(box, "unregister"), pc = "leaving", pc' = "over"
        PROVE  BoxInv'
    <3>1. PICK x \in {"release", "unregister"} : x = "unregister"
      BY <1>0
    <3> QED
      BY <1>2, <2>3, <3>1
  <2> QED
    BY <2>1, <2>2, <2>3
<1>5. CASE Handle
  BY <1>5, HandleKeeps
<1>6. ASSUME NEW answer, Actor(answer)
      PROVE  BoxInv'
  BY <1>1, <1>6 DEF Actor, GoesOn
<1>7. CASE DeviceByte \/ Settle \/ Fault \/ Reconnect \/ OtherEndpoint
           \/ \E n \in Names : Identify(n) \/ TypedRequest(n)
  BY <1>6, <1>7 DEF DeviceByte, Settle, Fault, Reconnect, OtherEndpoint, Identify, TypedRequest
<1>8. CASE TakeData \/ TakeNothing \/ TakeBuffered \/ TakeClear
  BY <1>1, <1>8 DEF TakeData, TakeNothing, TakeBuffered, TakeClear, GoesOn
<1>9. CASE Read \/ PartialTimeout \/ FlushStream \/ \E msg \in Messages : Write(msg)
  BY <1>1, <1>9 DEF Read, PartialTimeout, FlushStream, Write, GoesOn
<1>10. CASE ReadEvent \/ Lag \/ HangUp \/ Publish \/ Enter
  BY <1>1, <1>10 DEF ReadEvent, Lag, HangUp, Publish, Enter, GoesOn
<1>11. CASE UNCHANGED vars
  BY <1>1, <1>11 DEF vars, GoesOn
<1> QED
  BY <1>3, <1>4, <1>5, <1>7, <1>8, <1>9, <1>10, <1>11 DEF Next

\* What is left of a command is short of its length: its length is known from its second
\* byte on, and more than that.
LEMMA PartialShort ==
  ASSUME NEW p \in Seq(Bytes), NEW b \in Bytes, p # <<>> => Len(p) < ExpectedLen(p),
         Push(p, b).rest # <<>>
  PROVE  Len(Push(p, b).rest) < ExpectedLen(Push(p, b).rest)
<1>1. PICK cmd \in Seq(Bytes) : cmd = Append(p, b)
  <2>1. Append(p, b) \in Seq(Bytes)
    OBVIOUS
  <2> QED
    BY <2>1
<1>2. PICK n \in Nat : n = Len(p)
  OBVIOUS
<1>3. Len(cmd) = n + 1 /\ (\A i \in 1 .. n : cmd[i] = p[i])
  BY <1>1, <1>2
<1>4. Push(p, b).rest = cmd /\ Len(cmd) # ExpectedLen(cmd)
  BY <1>1 DEF Push
<1>5. PICK c \in Nat, a \in Nat : c = InitialLen(cmd[1]) /\ c >= 1 /\ a = AdminLen(cmd[2]) /\ a >= 2
  BY DEF InitialLen, AdminLen
<1>6. PICK e \in Nat : e = ExpectedLen(cmd) /\ e \in {3, a, c}
  <2>1. ExpectedLen(cmd) \in {3, a, c}
    BY <1>5 DEF ExpectedLen
  <2> QED
    BY <1>5, <2>1
<1>7. SUFFICES n + 1 < e
  BY <1>3, <1>4, <1>6
<1>8. n + 1 # e
  BY <1>3, <1>4, <1>6
<1>9. CASE n = 0
  <2>1. PICK l \in Nat : l = Len(cmd) /\ l = 1
    BY <1>3, <1>9
  <2>2. e = c
    BY <1>5, <1>6, <2>1 DEF ExpectedLen
  <2> QED
    BY <1>5, <1>8, <1>9, <2>2
<1>10. CASE n = 1
  <2>1. cmd[1] = p[1] /\ p # <<>> /\ ~(Len(p) >= 2)
    <3>1. p # <<>>
      <4>1. Len(<<>>) = 0
        OBVIOUS
      <4>2. n # 0
        BY <1>10
      <4> QED
        BY <1>2, <4>1, <4>2, Zenon
    <3>2. ~(Len(p) >= 2)
      BY <1>2, <1>10
    <3> QED
      BY <1>3, <1>10, <3>1, <3>2
  <2>2. ExpectedLen(p) = c
    BY <1>5, <2>1 DEF ExpectedLen
  <2>3. n < c
    BY <1>2, <2>1, <2>2
  <2> QED
    BY <1>5, <1>6, <1>8, <1>10, <2>3
<1>11. CASE n >= 2
  <2>1. cmd[1] = p[1] /\ cmd[2] = p[2] /\ p # <<>> /\ Len(p) >= 2 /\ Len(cmd) >= 2
    BY <1>2, <1>3, <1>11
  <2>2. ExpectedLen(p) = e
    BY <1>6, <2>1 DEF ExpectedLen
  <2>3. n < e
    BY <1>2, <2>1, <2>2
  <2> QED
    BY <1>8, <2>3
<1> QED
  BY <1>9, <1>10, <1>11

\* What a client can be told.
Sayable == [busy : BOOLEAN, key_down : BOOLEAN, break_in : BOOLEAN, known : BOOLEAN]
LEMMA ShownTyped ==
  /\ \A st, m : st.busy \in BOOLEAN /\ st.key_down \in BOOLEAN /\ st.break_in \in BOOLEAN
                => StatusForMode(Showing(st), m) \in Sayable
  /\ Showing(AtRest) \in Sayable /\ Unknown \in Sayable
BY DEF Sayable, StatusForMode, Showing, Unknown, AtRest

\* What a command asks a session's mode to be.
LEMMA ModeTyped ==
  ASSUME NEW cmd, HandleCommand(cmd).do = "mode"
  PROVE  HandleCommand(cmd).mode \in {"wk1", "wk2", "wk3"}
<1> USE DEF Say, Request, Nothing
<1>1. CASE cmd[1] = 0
  <2>1. HandleCommand(cmd) = HandleAdmin(cmd)
    BY <1>1 DEF HandleCommand
  <2> QED
    BY <2>1 DEF HandleAdmin
<1>2. CASE cmd[1] # 0
  BY <1>2 DEF HandleCommand
<1> QED
  BY <1>1, <1>2

\* The session's own state keeps its types.
LEMMA NextSession == WholeInv /\ [Next]_vars => SessionInv'
<1> SUFFICES ASSUME WholeInv, [Next]_vars PROVE SessionInv'
  OBVIOUS
<1> USE DEF input, flags, receiver, client, typed, history
<1>0. SessionInv /\ partial \in Seq(Bytes) /\ chunk \in Seq(Bytes) /\ shown \in Sayable
  BY DEF WholeInv, OrderInv, AllBytes, SessionInv, Sayable
<1>a. Synthesized \in Sayable
  <2>1. snap.busy \in BOOLEAN /\ snap.key_down \in BOOLEAN /\ snap.break_in \in BOOLEAN
    BY <1>0 DEF SessionInv
  <2> QED
    BY <2>1, ShownTyped DEF Synthesized
<1>1. ASSUME UNCHANGED <<perms, opened, maintaining, mode, snap, partial>>, GoesOn \/ pc' \in {"leaving", "over"},
             shown' \in Sayable
      PROVE  SessionInv'
  BY <1>0, <1>1 DEF SessionInv, GoesOn, Sayable
<1>2. ASSUME UNCHANGED <<perms, opened, maintaining, mode, snap, partial, shown>>, GoesOn \/ pc' \in {"leaving", "over"}
      PROVE  SessionInv'
  BY <1>0, <1>1, <1>2
<1>3. ASSUME Take, UNCHANGED <<perms, opened, maintaining, mode, snap, shown, pc>>
      PROVE  SessionInv'
  <2>1. partial' # <<>> => Len(partial') < ExpectedLen(partial')
    <3>1. PICK b \in Bytes : Parsed = Push(partial, b)
      BY <1>0, <1>3 DEF Take, Parsed
    <3>2. partial' = Push(partial, b).rest
      BY <1>3, <3>1 DEF Take
    <3> QED
      BY <1>0, <3>2, PartialShort DEF SessionInv
  <2> QED
    BY <1>0, <1>3, <2>1 DEF SessionInv
<1>4. CASE TakeData \/ TakeNothing \/ TakeBuffered \/ TakeClear
  BY <1>3, <1>4 DEF TakeData, TakeNothing, TakeBuffered, TakeClear
<1>5. CASE TakeCommand
  <2> DEFINE act == HandleCommand(Parsed.item.bytes)
  <2>1. /\ Take /\ UNCHANGED <<perms, snap>> /\ pc' \in {pc, "releasing"}
        /\ opened' \in {TRUE, FALSE, opened}
        /\ \/ mode' \in {"wk1", mode}
           \/ act.do = "mode" /\ mode' = act.mode
        /\ shown' \in {Synthesized, Unknown, shown}
    <3>1. /\ Take /\ UNCHANGED <<perms, snap>> /\ opened' \in {TRUE, FALSE, opened}
          /\ mode' \in {"wk1", mode} \/ (act.do = "mode" /\ mode' = act.mode)
      BY <1>5 DEF TakeCommand
    <3>2. Answered(act) \/ Unanswered
      BY <1>5 DEF TakeCommand
    <3> HIDE DEF act
    <3>3. pc' \in {pc, "releasing"} /\ shown' \in {Synthesized, Unknown, shown}
      BY <3>2 DEF Answered, Ask, Unanswered
    <3> QED
      BY <3>1, <3>3
  <2>2. maintaining' \in BOOLEAN
    <3>1. \/ maintaining' = (maintaining \/ Maintain(core, Me).ok)
          \/ maintaining' = FALSE \/ maintaining' = maintaining
      <4>1. Answered(act) \/ Unanswered
        BY <1>5 DEF TakeCommand
      <4> HIDE DEF act
      <4> QED
        BY <4>1 DEF Answered, Ask, Unanswered
    <3> QED
      BY <1>0, <3>1 DEF SessionInv
  <2>3. mode' \in {"wk1", "wk2", "wk3"}
    BY <1>0, <2>1, ModeTyped DEF SessionInv
  <2>4. shown' \in Sayable
    BY <1>0, <1>a, <2>1, ShownTyped DEF SessionInv
  <2>5. partial' # <<>> => Len(partial') < ExpectedLen(partial')
    <3>1. PICK b \in Bytes : Parsed = Push(partial, b)
      BY <1>0, <2>1 DEF Take, Parsed
    <3>2. partial' = Push(partial, b).rest
      BY <2>1, <3>1 DEF Take
    <3> QED
      BY <1>0, <3>2, PartialShort DEF SessionInv
  <2>6. opened' \in BOOLEAN
    <3>1. opened \in BOOLEAN /\ (opened' = TRUE \/ opened' = FALSE \/ opened' = opened)
      BY <1>0, <2>1 DEF SessionInv
    <3> QED
      BY <3>1
  <2>7. pc' \in {"live", "releasing", "leaving", "over"}
    BY <1>0, <2>1 DEF SessionInv
  <2> QED
    BY <1>0, <2>1, <2>2, <2>3, <2>4, <2>5, <2>6, <2>7 DEF SessionInv, Sayable
<1>6. CASE PartialTimeout
  BY <1>0, <1>6 DEF PartialTimeout, SessionInv
<1>7. CASE Read \/ HangUp \/ EndSession \/ Handle \/ FlushStream \/ Enter \/ \E msg \in Messages : Write(msg)
  BY <1>2, <1>7 DEF Read, HangUp, EndSession, End, Handle, FlushStream, Enter, Write, GoesOn
<1>8. ASSUME NEW answer, Actor(answer)
      PROVE  SessionInv'
  BY <1>2, <1>8 DEF Actor, GoesOn
<1>9. CASE DeviceByte \/ Settle \/ Fault \/ Reconnect \/ OtherEndpoint
           \/ \E n \in Names : Identify(n) \/ TypedRequest(n)
  BY <1>8, <1>9 DEF DeviceByte, Settle, Fault, Reconnect, OtherEndpoint, Identify, TypedRequest
<1>10. CASE Lag
  <2>1. shown' = Synthesized /\ UNCHANGED <<perms, opened, maintaining, mode, snap, partial, pc>>
    BY <1>10 DEF Lag, Shows
  <2> QED
    BY <1>1, <1>a, <2>1 DEF GoesOn
<1>11. CASE ReadEvent
  <2>1. UNCHANGED <<perms, opened, maintaining, mode, snap, partial, pc>>
    BY <1>11 DEF ReadEvent
  <2>2. \/ Head(ring).e = "status" /\ shown' = StatusForMode(Showing(Head(ring).arg), mode)
        \/ shown' \in {Showing(AtRest), Synthesized, shown}
    BY <1>11 DEF ReadEvent, Shows
  <2>3. shown' \in Sayable
    <3>1. CASE Head(ring).e = "status" /\ shown' = StatusForMode(Showing(Head(ring).arg), mode)
      <4>1. Head(ring) \in News
        BY <1>11 DEF ReadEvent, WholeInv, BrokerInv, RingInv
      <4>2. Head(ring).arg \in DeviceStatus
        BY <3>1, <4>1 DEF News
      <4>3. /\ Head(ring).arg.busy \in BOOLEAN /\ Head(ring).arg.key_down \in BOOLEAN
            /\ Head(ring).arg.break_in \in BOOLEAN
        BY <4>2 DEF DeviceStatus
      <4> QED
        BY <3>1, <4>3, ShownTyped
    <3>2. CASE shown' \in {Showing(AtRest), Synthesized, shown}
      BY <1>0, <1>a, <3>2, ShownTyped
    <3> QED
      BY <2>2, <3>1, <3>2
  <2> QED
    BY <1>1, <2>1, <2>3 DEF GoesOn
<1>12. CASE Publish
  <2>1. Snapshot(core) \in [busy : BOOLEAN, key_down : BOOLEAN, break_in : BOOLEAN]
    BY DEF Snapshot, WholeInv, BrokerInv, Sound, Broker, DeviceStatus
  <2> QED
    BY <1>0, <1>12, <2>1 DEF Publish, SessionInv
<1>13. CASE UNCHANGED vars
  BY <1>2, <1>13 DEF vars, GoesOn
<1> QED
  BY <1>4, <1>5, <1>6, <1>7, <1>9, <1>10, <1>11, <1>12, <1>13 DEF Next

\* Every step keeps what the broker holds and what the session is told of it.
LEMMA NextWhole == WholeInv /\ [Next]_vars => WholeInv'
<1> SUFFICES ASSUME WholeInv, [Next]_vars PROVE WholeInv'
  OBVIOUS
<1> USE DEF input, flags, receiver, client, typed, history
<1>1. SUFFICES BrokerInv' /\ ClientsInv' /\ HeldInv'
  BY NextSession, NextTyped, NextOrder, NextBox DEF WholeInv
<1>2. Sound(core) /\ Tool \in core.clients /\ next \in Nat /\ ids \in [Names -> Nat]
  BY DEF WholeInv, BrokerInv, ClientsInv, TypedInv, Numbered, Nobody, FirstTyped
<1>3. CASE UNCHANGED <<core, ring, lagged, shown, basis, mode, next, maintaining, box>> /\ GoesOn
  BY <1>3, IdleKeeps
<1>4. CASE FlushStream
  <2>1. Len(Pending) \in Nat /\ Me \in Nat
    <3>1. PICK p \in Seq(Bytes), t \in Seq(Bytes) : p = prefix /\ t = text
      BY DEF WholeInv, OrderInv, AllBytes
    <3>2. Len(p \o t) \in Nat
      OBVIOUS
    <3> QED
      BY <3>1, <3>2 DEF Pending, Me
  <2>2. PICK cat, answer : /\ cat \in BOOLEAN /\ answer = Enqueue(core, Me, Len(Pending), TRUE, cat)
                           /\ Does(answer) /\ pc' = IF answer.ok THEN "live" ELSE "releasing"
    BY <1>4 DEF FlushStream, Awaited
  <2>3. Fits(answer)
    BY <1>2, <2>1, <2>2, OthersFit
  <2>4. GoesOn /\ UNCHANGED <<shown, basis, mode, next, maintaining, box>>
    BY <1>4, <2>2 DEF FlushStream, GoesOn
  <2> QED
    BY <2>2, <2>3, <2>4, FitsKeeps
<1>5. CASE TakeClear
  <2>1. GoesOn /\ UNCHANGED <<shown, basis, mode, next, maintaining, box>>
    BY <1>5 DEF TakeClear, GoesOn
  <2>2. CASE Has("send")
    <3>1. PICK answer : answer = Cancel(core, Me) /\ Does(answer)
      BY <1>5, <2>2 DEF TakeClear, Awaited
    <3>2. Me \in Nat
      BY DEF Me
    <3>3. Fits(answer)
      BY <1>2, <3>1, <3>2, OthersFit
    <3> QED
      BY <2>1, <3>1, <3>3, FitsKeeps
  <2>3. CASE ~Has("send")
    BY <1>3, <1>5, <2>1, <2>3 DEF TakeClear
  <2> QED
    BY <2>2, <2>3
<1>6. CASE TakeCommand
  BY <1>6, CommandKeeps
<1>7. CASE EndSession \/ Handle
  BY <1>7, EndKeeps, HandleKeeps
<1>8. CASE ReadEvent \/ Lag
  <2>1. UNCHANGED <<core, maintaining, next, pc, box>>
    BY <1>8 DEF ReadEvent, Lag
  <2>2. BrokerInv'
    BY <1>8, ReadKeeps, LagKeeps
  <2> QED
    BY <2>1, <2>2 DEF WholeInv, ClientsInv, HeldInv
<1>9. ASSUME NEW answer, Fits(answer), Actor(answer), next' = next
      PROVE  BrokerInv' /\ ClientsInv' /\ HeldInv'
  <2>1. Does(answer) /\ GoesOn /\ UNCHANGED <<shown, basis, mode, next, maintaining, box>>
    BY <1>9 DEF Actor, GoesOn
  <2> QED
    BY <1>9, <2>1, FitsKeeps
<1>10. CASE DeviceByte
  <2>1. next' = next
    BY <1>10 DEF DeviceByte
  <2>2. \/ Actor(Granted([core EXCEPT !.reopening = FALSE], <<Event("connected", Nobody)>>))
        \/ Actor(Lose(core)) \/ Actor(Granted(core, <<Event("maintenance", core.maint)>>))
        \/ (\E st \in DeviceStatus : Actor(Observe(core, st))) \/ Actor(Granted(core, <<Event("pot", Nobody)>>))
    BY <1>10, EndpointAssumption DEF DeviceByte, DeviceStatus
  <2> QED
    BY <1>2, <1>9, <2>1, <2>2, OthersFit, KeyerFits
<1>11. CASE Settle
  BY <1>2, <1>9, <1>11, KeyerFits DEF Settle
<1>12. CASE Fault \/ Reconnect
  BY <1>2, <1>9, <1>12, OthersFit, KeyerFits DEF Fault, Reconnect
<1>13. CASE OtherEndpoint
  <2>1. Tool \in Nat /\ 1 \in Nat
    BY DEF Tool
  <2>2. Fits(Enqueue(core, Tool, 1, TRUE, FALSE)) /\ Fits(Maintain(core, Tool)) /\ Fits(Release(core, Tool))
    BY <1>2, <2>1, OthersFit
  <2> QED
    BY <1>9, <1>13, <2>2 DEF OtherEndpoint
<1>14. CASE \E n \in Names : TypedRequest(n)
  <2>1. PICK n \in Names : TypedRequest(n)
    BY <1>14
  <2>2. ids[n] \in Nat /\ 1 \in Nat /\ next' = next
    BY <1>2, <2>1 DEF TypedRequest
  <2>3. \/ \E cat \in BOOLEAN : Actor(Enqueue(core, ids[n], 1, FALSE, cat))
        \/ Actor(Cancel(core, ids[n])) \/ Actor(Stop(core))
    BY <2>1 DEF TypedRequest
  <2>4. /\ \A cat \in BOOLEAN : Fits(Enqueue(core, ids[n], 1, FALSE, cat))
        /\ Fits(Cancel(core, ids[n])) /\ Fits(Stop(core))
    BY <1>2, <2>2, OthersFit
  <2> QED
    BY <1>9, <2>2, <2>3, <2>4
<1>15. CASE \E n \in Names : Identify(n)
  <2>1. PICK answer : answer = Granted([core EXCEPT !.clients = @ \cup {next}], <<>>)
    OBVIOUS
  <2>2. Does(answer) /\ next' = next + 1 /\ UNCHANGED <<shown, basis, mode, maintaining, pc, box>>
    BY <1>15, <2>1 DEF Identify, Actor
  <2>3. Fair(core, answer)
    BY <1>2, <2>1, OtherFair
  <2>4. core' = answer.core
    BY <2>2 DEF Does
  <2>5. core'.clients = core.clients \cup {next} /\ core'.maint = core.maint
    <3>1. "clients" \in DOMAIN core /\ "maint" \in DOMAIN core
      BY <1>2 DEF Sound, Broker
    <3> QED
      BY <2>1, <2>4, <3>1 DEF Granted
  <2>6. BrokerInv'
    BY <2>2, <2>3, DoesKeeps DEF WholeInv
  <2>7. next \in FirstTyped .. next + 1 /\ FirstTyped .. next \subseteq FirstTyped .. next + 1 /\ next # Me
    BY DEF WholeInv, TypedInv, Numbered, FirstTyped, Me
  <2>8. ClientsInv'
    BY <2>2, <2>5, <2>7 DEF WholeInv, ClientsInv
  <2> QED
    BY <2>2, <2>5, <2>6, <2>8 DEF WholeInv, HeldInv
<1>16. CASE TakeData \/ TakeNothing \/ TakeBuffered \/ PartialTimeout \/ Read \/ \E msg \in Messages : Write(msg)
  BY <1>3, <1>16 DEF TakeData, TakeNothing, TakeBuffered, PartialTimeout, Read, Write, GoesOn
<1>17. CASE HangUp \/ Publish \/ Enter
  BY <1>3, <1>17 DEF HangUp, Publish, Enter, GoesOn
<1>18. CASE UNCHANGED vars
  BY <1>3, <1>18 DEF vars, GoesOn
<1> QED
  BY <1>4, <1>5, <1>6, <1>7, <1>8, <1>10, <1>11, <1>12, <1>13, <1>14, <1>15, <1>16, <1>17, <1>18 DEF Next

\* It holds of a session that begins.
LEMMA InitWhole == Init => WholeInv
<1> SUFFICES ASSUME Init PROVE WholeInv
  OBVIOUS
<1>1. OrderInv
  <2>1. <<>> \in Seq(Bytes) /\ <<>> \o (<<>> \o <<>>) = <<>>
    OBVIOUS
  <2> QED
    BY <2>1 DEF Init, OrderInv, AllBytes, Agreed, NothingOut, BytesInOrder, Pending, Intended
<1>2. TypedInv
  <2>1. Entered = {}
    BY DEF Init, Entered
  <2>2. Cardinality(Entered) <= MaxTyped
    BY <2>1, FS_EmptySet, EndpointAssumption
  <2>3. "clients" \in DOMAIN core
    BY DEF Init
  <2> QED
    BY <2>1, <2>2, <2>3 DEF Init, TypedInv, Numbered, Apart, Known, Newest, FirstTyped
<1>3. Sound(core)
  <2>1. <<>> \in Seq(Job) /\ Len(<<>>) = 0 /\ Me \in Nat /\ Tool \in Nat /\ Nobody \in Nat /\ MaxQueue \in Nat
    BY EndpointAssumption DEF Me, Tool, Nobody
  <2> QED
    BY <2>1 DEF Init, Sound, Broker, DeviceStatus, AtRest
<1>4. RingInv
  <2>1. <<>> \in Seq(News) /\ Len(<<>>) = 0 /\ RingCap \in Nat
    BY EndpointAssumption
  <2> QED
    BY <2>1 DEF Init, RingInv, LastSays
<1>5. /\ core.status = AtRest /\ box = <<>> /\ basis = "told"
      /\ core.jobs = <<>> /\ core.maint = Nobody /\ core.clients = {Me, Tool}
      /\ mode = "wk1" /\ snap = Snapshot(core) /\ maintaining = FALSE /\ pc = "live"
      /\ perms \in Grants /\ partial = <<>>
  BY DEF Init
<1>11. opened \in BOOLEAN
  <2>1. opened \in {FALSE, "status" \in perms}
    BY DEF Init
  <2>2. ("status" \in perms) \in BOOLEAN
    OBVIOUS
  <2> QED
    BY <2>1, <2>2
<1>6. snap = [busy |-> FALSE, key_down |-> FALSE, break_in |-> FALSE]
  <2>1. ~core.status.busy /\ core.status.key_down = FALSE /\ core.status.break_in = FALSE
    BY <1>5 DEF AtRest
  <2>2. (core.status.busy \/ core.jobs # <<>>) = FALSE
    BY <1>5, <2>1
  <2> QED
    BY <1>5, <2>1, <2>2 DEF Snapshot
<1>7. shown = (IF opened THEN Showing(AtRest) ELSE Unknown)
  <2>1. Showing(snap) = Showing(AtRest)
    BY <1>6 DEF Showing, AtRest
  <2>2. shown = (IF opened THEN Showing(snap) ELSE Unknown)
    BY DEF Init
  <2> QED
    BY <2>1, <2>2
<1>8. ShownInv
  <2>1. As(Truth(core.status, mode), basis) = Showing(AtRest)
    BY <1>5 DEF As, Truth, StatusForMode
  <2> QED
    BY <1>7, <2>1 DEF ShownInv, Unknown
<1>9. SessionInv
  <2>1. perms \subseteq WkTokens
    BY <1>5, EndpointAssumption DEF Coherent
  <2>2. shown \in Sayable
    BY <1>7, ShownTyped
  <2>3. snap \in [busy : BOOLEAN, key_down : BOOLEAN, break_in : BOOLEAN]
    BY <1>6
  <2>4. maintaining \in BOOLEAN /\ mode \in {"wk1", "wk2", "wk3"} /\ partial = <<>>
        /\ pc \in {"live", "releasing", "leaving", "over"}
    BY <1>5
  <2> QED
    BY <1>11, <2>1, <2>2, <2>3, <2>4 DEF SessionInv, Sayable
<1>10. ClientsInv /\ HeldInv /\ BoxInv
  <2>1. <<>> \in Seq({"release", "unregister"}) /\ Len(<<>>) = 0
    OBVIOUS
  <2> QED
    BY <1>5, <2>1 DEF ClientsInv, HeldInv, BoxInv, Me, Nobody
<1> QED
  BY <1>1, <1>2, <1>3, <1>4, <1>8, <1>9, <1>10 DEF WholeInv, BrokerInv

\* For any bytes, permissions, names and bounds the state of a session and of the broker
\* before it keeps its types and its limits: no partial command is as long as it says, no
\* queue, ring or job too long, and no job or maintenance of a client the broker does not
\* know (protocol.rs; broker.rs, enqueue and unregister; grpc.rs, client_id).
THEOREM EndpointSound == Spec => []EndpointInv
<1>1. WholeInv => EndpointInv
  <2> SUFFICES ASSUME WholeInv PROVE EndpointInv
    OBVIOUS
  <2>1. TypedClients
    BY DEF WholeInv, TypedInv, Apart, Known, Entered, TypedClients
  <2>2. PICK q \in Seq(Job) : q = core.jobs /\ Len(q) <= MaxQueue + 1
    BY DEF WholeInv, BrokerInv, Sound, Broker
  <2>3. Len(Queue(core)) <= MaxQueue
    <3>1. MaxQueue \in Nat
      BY EndpointAssumption
    <3>2. CASE q = <<>>
      <4>1. Queue(core) = <<>> /\ Len(<<>>) = 0
        BY <2>2, <3>2 DEF Queue
      <4> QED
        BY <3>1, <4>1
    <3>3. CASE q # <<>>
      <4>1. Queue(core) = Tail(q)
        BY <2>2, <3>3 DEF Queue
      <4>2. Len(Tail(q)) = Len(q) - 1
        BY <3>3
      <4>3. PICK n \in Nat : n = Len(q)
        OBVIOUS
      <4> QED
        BY <2>2, <3>1, <4>1, <4>2, <4>3
    <3> QED
      BY <3>2, <3>3
  <2>4. \A i \in DOMAIN core.jobs : core.jobs[i].client \in core.clients /\ core.jobs[i].size <= MaxSize
    <3>1. DOMAIN q = 1 .. Len(q)
      OBVIOUS
    <3> QED
      BY <2>2, <3>1 DEF WholeInv, BrokerInv, Sound, Belongs
  <2>5. {wire, chunk, partial, prefix, text, out} \subseteq Seq(Bytes)
    BY DEF WholeInv, OrderInv, AllBytes
  <2>6. Len(ring) <= RingCap /\ core.maint \in core.clients \cup {Nobody} /\ asking \in Names \cup {Nobody}
    BY DEF WholeInv, BrokerInv, RingInv, Sound, TypedInv, Numbered
  <2> QED
    BY <2>1, <2>3, <2>4, <2>5, <2>6 DEF WholeInv, SessionInv, ClientsInv, BoxInv, EndpointInv, KeyerEndpointTypeOK
<1> QED
  BY <1>1, InitWhole, NextWhole, PTL DEF Spec

\* Who has the keyer for maintenance is a session that hears its replies, or one that has
\* sent what takes it away, and once the actor has come to that a session that is over has
\* left neither the keyer nor a job behind (endpoint.rs, the end of
\* run_endpoint_session_inner and Host Close; actor.rs, unregister and
\* release_maintenance, which nobody awaits).
THEOREM EndpointReleases == Spec => []MaintenanceHeld
<1>1. WholeInv => MaintenanceHeld
  <2> SUFFICES ASSUME WholeInv PROVE MaintenanceHeld
    OBVIOUS
  <2>1. PICK q \in Seq(Job) : q = core.jobs
    BY DEF WholeInv, BrokerInv, Sound, Broker
  <2>2. DOMAIN q = 1 .. Len(q)
    OBVIOUS
  <2>3. \A i \in DOMAIN core.jobs : core.jobs[i].client \in core.clients
    BY <2>1, <2>2 DEF WholeInv, BrokerInv, Sound, Belongs
  <2>4. core.maint \in core.clients \cup {Nobody} /\ Nobody # Me
    BY DEF WholeInv, BrokerInv, Sound, Me, Nobody
  <2> QED
    BY <2>3, <2>4 DEF WholeInv, ClientsInv, HeldInv, MaintenanceHeld
<1> QED
  BY <1>1, InitWhole, NextWhole, PTL DEF Spec

\* A client that has read all there is was last told of the status the broker has, also
\* past a gap in its ring, for a ring of any size, and all of it but for break-in if by the
\* 0xc0 of a completed job (endpoint.rs, event_byte and Lagged).
THEOREM EndpointTellsTruth == Spec => []StatusFollows
<1>1. WholeInv => StatusFollows
  <2> SUFFICES ASSUME WholeInv, ring = <<>>, ~lagged, ~Unpublished, core.jobs = <<>>, shown.known,
                      basis # "early"
               PROVE  shown = As(Synthesized, basis)
    BY DEF StatusFollows, As
  <2>1. Quiet(ring)
    BY DEF Quiet
  <2>2. shown = As(Truth(core.status, mode), basis)
    BY <2>1 DEF WholeInv, BrokerInv, ShownInv
  <2> QED
    BY <2>2, SynthesizedTrue
<1> QED
  BY <1>1, InitWhole, NextWhole, PTL DEF Spec
================================================================================

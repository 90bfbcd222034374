----------------------------- MODULE BridgeProofs -----------------------------
(***************************************************************************)
(* Hamlib clients over a radio behind rigctld, for any clients, modes,     *)
(* frequencies, levels and errors: after a poll that nothing came between  *)
(* they read what the radio is set to (BridgeInv), what they were told Ok  *)
(* holds (CommandHolds), a single-VFO client cannot tell the VFOs apart    *)
(* (HiddenFromLoggers), and an extended reply ends (ExtendedEnds).  Modes  *)
(* are plain or PKT; the exceptions are those which the two properties     *)
(* name.                                                                   *)
(*                                                                         *)
(* A poll is right one answer at a time (Heeded), and what it left is      *)
(* right until something goes by it (Trust, Freshness); a mode is set half *)
(* by half (Progress).                                                     *)
(***************************************************************************)
EXTENDS Bridge, SequenceTheorems, TLAPS

------------------------------------------------------------------------------
(* The invariant *)

\* What is true of the radio if a command holds.
Holds(cmd) ==
  CASE cmd.name = "set_freq" -> radio.freqA = cmd.args[1]
    [] cmd.name = "set_mode" -> radio.tokenA = cmd.args[1]
    [] cmd.name = "set_split_vfo" ->
         radio.split = IF cmd.args[1] = 1 THEN <<TRUE, cmd.args[2]>> ELSE <<FALSE, "A">>

\* The mutations of a command that is submitted.
Muts(cmd) ==
  CASE cmd.name = "set_freq" -> <<Change("freqA", cmd.args[1])>>
    [] cmd.name = "set_mode" -> <<Change("modeA", cmd.args[1].base), Change("dataA", cmd.args[1].pkt)>>
    [] cmd.name = "set_split_vfo" -> <<Change("split", <<cmd.args[1] = 1, cmd.args[2]>>)>>

\* What may be left of them.
Left(cmd) == {<<>>, Muts(cmd)} \cup IF cmd.name = "set_mode" THEN {<<Change("dataA", cmd.args[1].pkt)>>} ELSE {}

Sent == {cmd \in Commands : cmd.name = "set_mode" => cmd.args[1] # NoToken}

Fields == {"freqA", "freqB", "modeA", "modeB", "knownA", "knownB", "dataA", "dataB",
           "split", "rit", "xit", "ptt", "power", "rx"}

\* A snapshot is a function of its fields.
Whole(s) == s = [f \in Fields |-> s[f]]
Splits == {<<FALSE, "A">>, <<TRUE, "A">>, <<TRUE, "B">>}

\* VFO A has the plain and the PKT form of a mode.
BothForms(base) == \A data \in BOOLEAN : Token(base, data) \in MainTokens

Radios ==
  [freqA : Hz, freqB : Hz, tokenA : MainTokens, tokenB : SplitTokens, split : Splits, rel : Levels]
RadioTyped == radio \in Radios
Sane(s) ==
  /\ Whole(s)
  /\ s.rx = "A" /\ s.freqA \in Hz \cup {0} /\ s.freqB \in Hz \cup {0}
  /\ s.modeA \in Modes /\ BothForms(s.modeA)
  /\ s.split \in BOOLEAN \X Vfo
SnapTyped == Sane(snap)
Stages == {"none", "f", "m", "s", "i", "x", "l", "2"}
PollTyped ==
  poll \in [at : Stages, rel : Levels \cup {0}, mixed : BOOLEAN]
SessionTyped(s) ==
  /\ s = [st |-> s.st, cmd |-> s.cmd, muts |-> s.muts, clean |-> s.clean]
  /\ s.st \in {"idle", "wait", "resume"} /\ s.clean \in BOOLEAN
  /\ s.st = "idle" => s.muts = <<>>
  /\ s.st # "idle" => s.cmd \in Sent /\ s.muts \in Left(s.cmd)
  /\ s.st = "wait" => s.muts # <<>>
  /\ s.st = "resume" => s.muts # Muts(s.cmd)
SessionsTyped == /\ sess = [c \in Clients |-> sess[c]]
                 /\ \A c \in Clients : SessionTyped(sess[c])
PromiseTyped == promise \in Sent \cup {Nothing} /\ trusted \in BOOLEAN /\ fresh \in BOOLEAN
Typed == RadioTyped /\ SnapTyped /\ PollTyped /\ SessionsTyped /\ PromiseTyped

\* The cache on the VFO that transmits.
TxFreqRight == snap[FreqOf(radio.split[2])] = radio[FreqOf(radio.split[2])]
TxTokenRight == /\ TokenOf(snap, radio.split[2]) = radio[TokenField(radio.split[2])]
                /\ snap[KnownOf(radio.split[2])] = TRUE

\* What an undisturbed poll has told of at each query.
Heeded ==
  ~poll.mixed =>
    /\ poll.at \in {"m", "s", "i", "x", "l", "2"} => snap.freqA = radio.freqA
    /\ poll.at \in {"s", "i", "x", "l", "2"} => snap.modeA = radio.tokenA.base /\ ~radio.tokenA.pkt
    /\ poll.at \in {"i", "x", "l", "2"} => snap.split = radio.split
    /\ poll.at \in {"i", "x"} => radio.split[1]
    /\ poll.at \in {"x", "l", "2"} /\ radio.split[1] => TxFreqRight
    /\ poll.at \in {"l", "2"} /\ radio.split[1] => TxTokenRight
    /\ poll.at = "2" => poll.rel = radio.rel

\* What the cache has that was right after a poll and was told of all that went on since.
Trust ==
  trusted =>
    /\ ~poll.mixed
    /\ snap.freqA = radio.freqA
    /\ "modeA" \notin unsure => snap.modeA = radio.tokenA.base
    /\ "dataA" \notin unsure /\ radio.tokenA.pkt => snap.dataA = TRUE
    /\ snap.split[1] = radio.split[1] /\ (radio.split[1] => snap.split = radio.split)

\* ... and what it has if nothing went on.
Transmits == radio[TokenField(IF radio.split[1] THEN radio.split[2] ELSE "A")]
Freshness ==
  fresh =>
    /\ trusted
    /\ snap.modeA = radio.tokenA.base /\ snap.split = radio.split
    /\ radio.split[1] => TxFreqRight /\ TxTokenRight
    /\ snap.power = FromRelative(radio.rel, ToMilliwatts(radio.rel, Transmits.base))

\* A command that nothing came between holds as far as it got; of a mode that is its base,
\* which the cache knows, and in the end its data flag.
Advanced(cmd, muts) ==
  IF cmd.name = "set_mode"
  THEN /\ snap.modeA = cmd.args[1].base /\ radio.tokenA.base = cmd.args[1].base
       /\ poll.at = "none" \/ ~poll.mixed
       /\ muts = <<>> => radio.tokenA = cmd.args[1]
  ELSE Holds(cmd)
Progress(s) ==
  s.st # "idle" /\ s.clean /\ s.muts # Muts(s.cmd) => Advanced(s.cmd, s.muts)
Progresses == \A c \in Clients : Progress(sess[c])
Promised == promise # Nothing => Holds(promise)

IInv == Typed /\ Heeded /\ Trust /\ Freshness /\ Progresses /\ Promised

------------------------------------------------------------------------------
(* What is recorded *)

\* One change, recorded.
Step(was, ch, source) ==
  [snap   |-> ApplyChange(was.snap, ch),
   unsure |-> UncertainAfter(was.unsure, ch, source, Changes(was.snap, ch))]

\* Of at most two changes, one is recorded after the other (record).
LEMMA Chain ==
  ASSUME NEW changes, NEW n \in 0 .. 2, Len(changes) = n, NEW source, RecordAll(changes, source)
  PROVE  \E g : /\ g[0] = [snap |-> snap, unsure |-> unsure]
                /\ n # 0 => g[1] = Step(g[0], changes[1], source)
                /\ n = 2 => g[2] = Step(g[1], changes[2], source)
                /\ snap' = g[n].snap /\ unsure' = g[n].unsure
<1> DEFINE start == [snap |-> snap, unsure |-> unsure]
           after == CHOOSE f : f = [i \in 0 .. n |->
                      IF i = 0 THEN start ELSE Step(f[i - 1], changes[i], source)]
           one == Step(start, changes[1], source)
           h == [i \in 0 .. n |-> IF i = 0 THEN start
                                  ELSE IF i = 1 THEN one ELSE Step(one, changes[2], source)]
<1>1. snap' = after[n].snap /\ unsure' = after[n].unsure
  BY DEF RecordAll, Step
<1>2. h = [i \in 0 .. n |-> IF i = 0 THEN start ELSE Step(h[i - 1], changes[i], source)]
  <2>1. ASSUME NEW i \in 0 .. n
        PROVE  h[i] = IF i = 0 THEN start ELSE Step(h[i - 1], changes[i], source)
    <3> HIDE DEF start, one
    <3>1. CASE i = 0
      BY <3>1
    <3>2. CASE i = 1
      <4>1. 0 \in 0 .. n
        BY <3>2
      <4>2. h[0] = start
        BY <4>1
      <4>3. h[1] = one /\ 1 - 1 = 0
        BY <3>2
      <4>4. one = Step(start, changes[1], source)
        BY DEF one
      <4> QED
        BY <3>2, <4>2, <4>3, <4>4
    <3>3. CASE i = 2
      <4>1. h[1] = one /\ 2 - 1 = 1 /\ h[2] = Step(one, changes[2], source)
        BY <3>3
      <4> QED
        BY <3>3, <4>1
    <3> QED
      BY <3>1, <3>2, <3>3
  <2> QED
    BY <2>1
<1>3. after = [i \in 0 .. n |-> IF i = 0 THEN start ELSE Step(after[i - 1], changes[i], source)]
  <2> HIDE DEF h, start
  <2> QED
    BY <1>2
<1> HIDE DEF after, start
<1>4. after[0] = start
  BY <1>3
<1>5. n # 0 => after[1] = Step(after[0], changes[1], source)
  BY <1>3
<1>6. n = 2 => after[2] = Step(after[1], changes[2], source)
  BY <1>3
<1> QED
  BY <1>1, <1>4, <1>5, <1>6 DEF start

\* Nothing, one change, and two.
LEMMA RecordNone ==
  ASSUME NEW source, RecordAll(<<>>, source)
  PROVE  snap' = snap /\ unsure' = unsure
<1>1. Len(<<>>) = 0 /\ 0 \in 0 .. 2
  OBVIOUS
<1>2. PICK g : g[0] = [snap |-> snap, unsure |-> unsure] /\ snap' = g[0].snap /\ unsure' = g[0].unsure
  BY <1>1, Chain
<1> QED
  BY <1>2

\* One change is recorded as it is (record).
LEMMA RecordOne ==
  ASSUME NEW ch, NEW source, RecordAll(<<ch>>, source)
  PROVE  /\ snap' = ApplyChange(snap, ch)
         /\ unsure' = UncertainAfter(unsure, ch, source, Changes(snap, ch))
<1>1. Len(<<ch>>) = 1 /\ 1 \in 0 .. 2 /\ <<ch>>[1] = ch
  OBVIOUS
<1>2. PICK g : /\ g[0] = [snap |-> snap, unsure |-> unsure]
               /\ g[1] = Step(g[0], ch, source)
               /\ snap' = g[1].snap /\ unsure' = g[1].unsure
  BY <1>1, Chain
<1> QED
  BY <1>2 DEF Step

\* Two changes, one after the other (record).
LEMMA RecordTwo ==
  ASSUME NEW ch, NEW next, NEW source, RecordAll(<<ch, next>>, source)
  PROVE  snap' = ApplyChange(ApplyChange(snap, ch), next)
<1>1. Len(<<ch, next>>) = 2 /\ 2 \in 0 .. 2 /\ <<ch, next>>[1] = ch /\ <<ch, next>>[2] = next
  OBVIOUS
<1>2. PICK g : /\ g[0] = [snap |-> snap, unsure |-> unsure]
               /\ g[1] = Step(g[0], ch, source) /\ g[2] = Step(g[1], next, source)
               /\ snap' = g[2].snap /\ unsure' = g[2].unsure
  BY <1>1, Chain
<1> QED
  BY <1>2 DEF Step

\* A change changes its field, and a mode becomes known (apply_change).
With(s, f, v) == ApplyChange(s, Change(f, v))
Written(s, f, v, t) ==
  /\ Whole(t) /\ t[f] = v
  /\ \A g \in Fields \ {f, "knownA", "knownB"} : t[g] = s[g]
  /\ t["knownA"] = IF f = "modeA" THEN TRUE ELSE s["knownA"]
  /\ t["knownB"] = IF f = "modeB" THEN TRUE ELSE s["knownB"]

\* A field of a snapshot is changed, and the others stay (apply_change).
LEMMA Applied ==
  ASSUME NEW s, Whole(s), NEW f, f \in Fields, f \notin {"knownA", "knownB"}, NEW v
  PROVE  Written(s, f, v, With(s, f, v))
<1> USE DEF Written
<1>0. PICK t : t = With(s, f, v)
  OBVIOUS
<1>1. /\ "knownA" \in Fields /\ "knownB" \in Fields /\ "modeA" \in Fields /\ "modeB" \in Fields
      /\ "knownA" # "knownB" /\ "modeA" # "modeB"
  BY DEF Fields
<1>2. Change(f, v).field = f /\ Change(f, v).new = v
  BY DEF Change
<1> DEFINE u == [s EXCEPT ![f] = v]
<1>3. Whole(u) /\ u[f] = v /\ \A g \in Fields \ {f} : u[g] = s[g]
  BY DEF Whole
<1>4. CASE f \notin ModeFields
  <2>1. t = u
    BY <1>0, <1>2, <1>4 DEF ApplyChange, With
  <2> HIDE DEF u
  <2> QED
    BY <1>0, <1>1, <1>3, <1>4, <2>1 DEF ModeFields
<1>5. CASE f = "modeA"
  <2>1. t = [u EXCEPT !["knownA"] = TRUE]
    BY <1>0, <1>2, <1>5 DEF ApplyChange, With, ModeFields
  <2> HIDE DEF u
  <2>2. Whole(t) /\ t["knownA"] = TRUE /\ \A g \in Fields \ {"knownA"} : t[g] = u[g]
    BY <1>1, <1>3, <2>1 DEF Whole
  <2> QED
    BY <1>0, <1>1, <1>3, <1>5, <2>2 DEF Fields
<1>6. CASE f = "modeB"
  <2>1. t = [u EXCEPT !["knownB"] = TRUE]
    BY <1>0, <1>2, <1>6 DEF ApplyChange, With, ModeFields
  <2> HIDE DEF u
  <2>2. Whole(t) /\ t["knownB"] = TRUE /\ \A g \in Fields \ {"knownB"} : t[g] = u[g]
    BY <1>1, <1>3, <2>1 DEF Whole
  <2> QED
    BY <1>0, <1>1, <1>3, <1>6, <2>2 DEF Fields
<1> QED
  BY <1>4, <1>5, <1>6 DEF ModeFields

\* The fields of a VFO.
LEMMA VfoFields ==
  ASSUME NEW v \in Vfo
  PROVE  /\ FreqOf(v) \in {"freqA", "freqB"} /\ ModeOf(v) \in ModeFields
         /\ DataOf(v) \in DataFields /\ KnownOf(v) \in {"knownA", "knownB"}
         /\ ModeOf(v) \in Fields /\ DataOf(v) \in Fields /\ FreqOf(v) \in Fields
  BY DEF Vfo, FreqOf, ModeOf, DataOf, KnownOf, ModeFields, DataFields, Fields

\* A token is made of its mode and its data flag again.
LEMMA AnyToken ==
  ASSUME NEW t \in MainTokens \cup SplitTokens
  PROVE  /\ t.base \in Modes \ {"Unknown"} /\ t.pkt \in BOOLEAN
         /\ Token(t.base, t.pkt) = t /\ BothForms(t.base)
<1>1. t.base \in Modes \ {"Unknown"} /\ t = Token(t.base, t.pkt)
  BY BridgeAssumption
<1>2. BothForms(t.base)
  BY BridgeAssumption DEF BothForms
<1>3. PICK p \in BOOLEAN : t = [base |-> t.base, pkt |-> p]
  BY <1>1 DEF Token
<1>4. t.pkt = p
  BY <1>3
<1> QED
  BY <1>1, <1>2, <1>4

\* One of VFO A, which a poll tells of in its plain form.
LEMMA MainToken ==
  ASSUME NEW t \in MainTokens
  PROVE  /\ t.base \in Modes \ {"Unknown"} /\ t.pkt \in BOOLEAN
         /\ Token(t.base, t.pkt) = t /\ BothForms(t.base)
         /\ FromToken(t) = IF t.pkt THEN "Unknown" ELSE t.base
         /\ \A data \in BOOLEAN : Token(t.base, data).base = t.base
         /\ Token(t.base, FALSE).pkt = FALSE
<1>1. /\ \A data \in BOOLEAN : Token(t.base, data).base = t.base
      /\ Token(t.base, FALSE).pkt = FALSE
  <2>1. t.base # "Unknown"
    BY AnyToken
  <2> QED
    BY <2>1 DEF Token
<1> QED
  BY <1>1, AnyToken DEF FromToken

\* No mode is set as USB is.
LEMMA NoMode == Token("Unknown", FALSE) = Token("USB", FALSE) /\ BothForms("Unknown") /\ BothForms("USB")
<1>1. PICK t \in MainTokens : t = Token("USB", FALSE)
  BY BridgeAssumption
<1>2. t.base = "USB"
  BY <1>1 DEF Token
<1>3. BothForms("USB")
  BY <1>2, MainToken
<1>4. \A data \in BOOLEAN : Token("Unknown", data) = Token("USB", FALSE)
  BY DEF Token, DataModes
<1> QED
  BY <1>1, <1>3, <1>4 DEF BothForms

\* Modes that the digits cannot tell apart are the same, but for an unknown one.
LEMMA Digits ==
  ASSUME NEW m \in Modes \ {"Unknown"}, NEW n \in Modes \ {"Unknown"}, ToDigit(m) = ToDigit(n)
  PROVE  m = n
<1>1. /\ ToDigit("LSB") = 1 /\ ToDigit("USB") = 2 /\ ToDigit("CW") = 3 /\ ToDigit("FM") = 4
      /\ ToDigit("AM") = 5 /\ ToDigit("FSK") = 6 /\ ToDigit("CWR") = 7 /\ ToDigit("FSKR") = 9
  BY DEF ToDigit
<1> QED
  BY <1>1 DEF Modes

------------------------------------------------------------------------------
(* The start, and the operator *)

\* The invariant holds of a radio that a first poll told of.
LEMMA InitHolds == Init => IInv
<1> SUFFICES ASSUME Init PROVE IInv
  OBVIOUS
<1>1. PICK hz \in Hz, token \in MainTokens, other \in SplitTokens, rel \in Levels :
        /\ ~token.pkt
        /\ radio = [freqA |-> hz, freqB |-> hz, tokenA |-> token, tokenB |-> other,
                    split |-> <<FALSE, "A">>, rel |-> rel]
        /\ snap = [DefaultSnapshot EXCEPT !.freqA = hz, !.modeA = FromToken(token),
                                          !.knownA = TRUE, !.power = <<>>]
  <2>1. Hz # {} /\ SplitTokens # {} /\ Levels # {} /\ Token("USB", FALSE) \in MainTokens
    BY BridgeAssumption
  <2>2. Token("USB", FALSE).pkt = FALSE
    BY DEF Token
  <2>3. \E f \in MainTokens : ~f.pkt
    BY <2>1, <2>2
  <2>4. /\ (CHOOSE f \in Hz : TRUE) \in Hz
        /\ (CHOOSE f \in MainTokens : ~f.pkt) \in MainTokens /\ ~(CHOOSE f \in MainTokens : ~f.pkt).pkt
        /\ (CHOOSE f \in SplitTokens : TRUE) \in SplitTokens /\ (CHOOSE l \in Levels : TRUE) \in Levels
    BY <2>1, <2>3
  <2> QED
    BY <2>4 DEF Init
<1>2. /\ snap = [f \in Fields |-> snap[f]]
      /\ snap.rx = "A" /\ snap.freqA = hz /\ snap.freqB = 0 /\ snap.modeA = token.base
      /\ snap.split = <<FALSE, "A">>
  <2>1. FromToken(token) = token.base
    BY <1>1, MainToken
  <2> QED
    BY <1>1, <2>1 DEF DefaultSnapshot, Fields
<1>3. /\ poll = [at |-> "none", rel |-> 0, mixed |-> FALSE]
      /\ sess = [c \in Clients |-> Resting] /\ trusted = TRUE /\ fresh = FALSE /\ promise = Nothing
  BY DEF Init, NoPoll
<1>4. RadioTyped
  BY <1>1 DEF RadioTyped, Radios, Splits
<1>5. SnapTyped
  <2>1. token.base \in Modes /\ BothForms(token.base)
    BY MainToken
  <2>2. <<FALSE, "A">> \in BOOLEAN \X Vfo
    BY DEF Vfo
  <2>3. Whole(snap)
    BY <1>2 DEF Whole
  <2> QED
    BY <1>2, <2>1, <2>2, <2>3 DEF SnapTyped, Sane
<1>6. PollTyped
  BY <1>3 DEF PollTyped, Stages
<1>7. SessionsTyped
  <2>1. /\ Resting = [st |-> "idle", cmd |-> Nothing, muts |-> <<>>, clean |-> TRUE]
        /\ Resting.st = "idle" /\ Resting.cmd = Nothing /\ Resting.muts = <<>> /\ Resting.clean = TRUE
    BY DEF Resting
  <2>2. SessionTyped(Resting)
    BY <2>1 DEF SessionTyped
  <2> QED
    BY <1>3, <2>2 DEF SessionsTyped
<1>8. Typed
  BY <1>3, <1>4, <1>5, <1>6, <1>7 DEF Typed, PromiseTyped
<1>9. Heeded
  BY <1>3 DEF Heeded
<1>10. Trust
  BY <1>1, <1>2, <1>3 DEF Trust
<1>11. Freshness /\ Promised
  BY <1>3 DEF Freshness, Promised
<1>12. Progresses
  BY <1>3 DEF Progresses, Progress, Resting
<1> QED
  BY <1>8, <1>9, <1>10, <1>11, <1>12 DEF IInv

\* The radio that is tuned is a radio.
LEMMA Tuned ==
  ASSUME NEW r \in Radios, NEW v \in Vfo, NEW hz \in Hz, NEW s \in TunedTo(r, v, hz)
  PROVE  s \in Radios
<1>1. v = "A" \/ v = "B"
  BY DEF Vfo
<1>2. r["tokenA"] \in MainTokens /\ r["tokenB"] \in SplitTokens
  BY DEF Radios
<1>3. CASE v = "A"
  <2>1. PICK t \in MainTokens : s = [r EXCEPT !["freqA"] = hz, !["tokenA"] = t]
    BY <1>2, <1>3 DEF TunedTo, FreqOf, TokenField
  <2> QED
    BY <2>1 DEF Radios
<1>4. CASE v = "B"
  <2>1. PICK t \in SplitTokens : s = [r EXCEPT !["freqB"] = hz, !["tokenB"] = t]
    BY <1>2, <1>4 DEF TunedTo, FreqOf, TokenField
  <2> QED
    BY <2>1 DEF Radios
<1> QED
  BY <1>1, <1>3, <1>4

\* Whether a session is clean is not a matter of its type.
LEMMA Muddied ==
  ASSUME NEW s, SessionTyped(s), NEW b \in BOOLEAN
  PROVE  /\ SessionTyped([s EXCEPT !.clean = b])
         /\ [s EXCEPT !.clean = b].st = s.st /\ [s EXCEPT !.clean = b].cmd = s.cmd
         /\ [s EXCEPT !.clean = b].muts = s.muts /\ [s EXCEPT !.clean = b].clean = b
<1>1. PICK t : t = [s EXCEPT !.clean = b]
  OBVIOUS
<1>2. s = [st |-> s.st, cmd |-> s.cmd, muts |-> s.muts, clean |-> s.clean]
  BY DEF SessionTyped
<1>3. t = [st |-> s.st, cmd |-> s.cmd, muts |-> s.muts, clean |-> b]
  BY <1>1, <1>2
<1>4. t.st = s.st /\ t.cmd = s.cmd /\ t.muts = s.muts /\ t.clean = b
  BY <1>3
<1>5. t = [st |-> t.st, cmd |-> t.cmd, muts |-> t.muts, clean |-> t.clean]
  BY <1>3
<1>6. SessionTyped(t)
  BY <1>4, <1>5 DEF SessionTyped
<1> QED
  BY <1>1, <1>4, <1>6

\* No session is clean any more.
LEMMA AllMuddied ==
  ASSUME SessionsTyped, sess' = [c \in Clients |-> [sess[c] EXCEPT !.clean = FALSE]]
  PROVE  SessionsTyped' /\ Progresses'
<1>1. ASSUME NEW c \in Clients
      PROVE  SessionTyped(sess'[c]) /\ sess'[c].clean = FALSE
  <2>1. SessionTyped(sess[c]) /\ sess'[c] = [sess[c] EXCEPT !.clean = FALSE]
    BY DEF SessionsTyped
  <2> QED
    BY <2>1, Muddied
<1>2. sess' = [c \in Clients |-> sess'[c]]
  OBVIOUS
<1> QED
  BY <1>1, <1>2 DEF SessionsTyped, SessionTyped, Progresses, Progress

\* A turn of a knob leaves nothing that is relied on, until it is polled.
LEMMA KnobStep ==
  ASSUME IInv, Knob
  PROVE  IInv'
<1>1. /\ Typed /\ poll' = [poll EXCEPT !.mixed = TRUE] /\ snap' = snap
      /\ sess' = [c \in Clients |-> [sess[c] EXCEPT !.clean = FALSE]]
      /\ trusted' = FALSE /\ fresh' = FALSE /\ promise' = Nothing
  BY DEF IInv, Knob, cacheVars
<1>2. radio' \in Radios
  <2>1. radio \in Radios
    BY <1>1 DEF Typed, RadioTyped
  <2>2. CASE \E v \in Vfo, hz \in Hz : radio' \in TunedTo(radio, v, hz)
    BY <2>1, <2>2, Tuned
  <2>3. CASE \E t \in MainTokens : radio' = [radio EXCEPT !.tokenA = t]
    BY <2>1, <2>3 DEF Radios
  <2>4. CASE radio' = [radio EXCEPT !.split = IF @[1] THEN <<FALSE, "A">> ELSE <<TRUE, "B">>]
    BY <2>1, <2>4 DEF Radios, Splits
  <2>5. CASE \E l \in Levels : radio' = [radio EXCEPT !.rel = l]
    BY <2>1, <2>5 DEF Radios
  <2> QED
    BY <2>2, <2>3, <2>4, <2>5 DEF Knob
<1>3. poll'.mixed = TRUE /\ PollTyped'
  BY <1>1 DEF Typed, PollTyped
<1>4. SessionsTyped' /\ Progresses'
  BY <1>1, AllMuddied DEF Typed
<1>5. Typed'
  BY <1>1, <1>2, <1>3, <1>4 DEF Typed, RadioTyped, SnapTyped, PromiseTyped
<1> QED
  BY <1>1, <1>3, <1>4, <1>5 DEF IInv, Heeded, Trust, Freshness, Promised

------------------------------------------------------------------------------
(* The poll *)

\* What a field of the snapshot may be given.
Fits(f, v) ==
  /\ f \in Fields \ {"rx", "knownA", "knownB"}
  /\ f \in {"freqA", "freqB"} => v \in Hz \cup {0}
  /\ f = "modeA" => v \in Modes /\ BothForms(v)
  /\ f = "split" => v \in BOOLEAN \X Vfo

\* With that it keeps to its types.
LEMMA StaysSane ==
  ASSUME NEW s, Sane(s), NEW f, NEW v, Fits(f, v)
  PROVE  Sane(With(s, f, v))
<1>0. PICK t : t = With(s, f, v)
  OBVIOUS
<1>1. f \in Fields /\ f # "rx" /\ f \notin {"knownA", "knownB"} /\ Whole(s)
  BY DEF Fits, Sane
<1>2. Whole(t) /\ t[f] = v /\ \A g \in Fields \ {f, "knownA", "knownB"} : t[g] = s[g]
  <2>1. f \in Fields /\ f \notin {"knownA", "knownB"} /\ Whole(s)
    BY <1>1
  <2>2. Written(s, f, v, With(s, f, v))
    BY <2>1, Applied, Zenon
  <2> QED
    BY <1>0, <2>2 DEF Written
<1>3. /\ s["rx"] = "A" /\ s["freqA"] \in Hz \cup {0} /\ s["freqB"] \in Hz \cup {0}
      /\ s["modeA"] \in Modes /\ BothForms(s["modeA"])
      /\ s["split"] \in BOOLEAN \X Vfo
  BY DEF Sane
<1>4. t["rx"] = "A"
  BY <1>1, <1>2, <1>3 DEF Fields
<1>5. t["freqA"] \in Hz \cup {0}
  BY <1>1, <1>2, <1>3 DEF Fields, Fits
<1>6. t["freqB"] \in Hz \cup {0}
  BY <1>1, <1>2, <1>3 DEF Fields, Fits
<1>7. t["modeA"] \in Modes /\ BothForms(t["modeA"])
  <2>1. CASE f = "modeA"
    BY <1>2, <2>1 DEF Fits
  <2>2. CASE f # "modeA"
    <3>1. t["modeA"] = s["modeA"]
      BY <1>2, <2>2 DEF Fields
    <3> QED
      BY <1>3, <3>1
  <2> QED
    BY <2>1, <2>2
<1>8. t["split"] \in BOOLEAN \X Vfo
  <2>1. CASE f = "split"
    BY <1>2, <2>1 DEF Fits
  <2>2. CASE f # "split"
    <3>1. t["split"] = s["split"]
      BY <1>2, <2>2 DEF Fields
    <3> QED
      BY <1>3, <3>1
  <2> QED
    BY <2>1, <2>2
<1> QED
  BY <1>0, <1>2, <1>4, <1>5, <1>6, <1>7, <1>8 DEF Sane

\* What the radio has on a VFO.
LEMMA RadioHas ==
  ASSUME RadioTyped
  PROVE  /\ radio["freqA"] \in Hz /\ radio["freqB"] \in Hz /\ radio["rel"] \in Levels
         /\ radio["tokenA"] \in MainTokens /\ radio["tokenB"] \in SplitTokens
         /\ radio["split"] \in Splits /\ radio["split"][2] \in Vfo /\ radio["split"] \in BOOLEAN \X Vfo
         /\ ~radio["split"][1] => radio["split"] = <<FALSE, "A">>
         /\ radio["split"][1] => radio["split"][1] = TRUE
<1>1. /\ radio["freqA"] \in Hz /\ radio["freqB"] \in Hz /\ radio["rel"] \in Levels
      /\ radio["tokenA"] \in MainTokens /\ radio["tokenB"] \in SplitTokens /\ radio["split"] \in Splits
  BY DEF RadioTyped, Radios
<1>2. ASSUME NEW p \in Splits
      PROVE  /\ p[2] \in Vfo /\ p \in BOOLEAN \X Vfo /\ (~p[1] => p = <<FALSE, "A">>)
             /\ (p[1] => p[1] = TRUE)
  <2>1. CASE p = <<FALSE, "A">>
    BY <2>1 DEF Vfo
  <2>2. CASE p = <<TRUE, "A">>
    BY <2>2 DEF Vfo
  <2>3. CASE p = <<TRUE, "B">>
    BY <2>3 DEF Vfo
  <2> QED
    BY <2>1, <2>2, <2>3 DEF Splits
<1> QED
  BY <1>1, <1>2

\* A frequency and a token of a VFO.
LEMMA OnVfo ==
  ASSUME RadioTyped, NEW v \in Vfo
  PROVE  /\ radio[FreqOf(v)] \in Hz
         /\ radio[TokenField(v)] \in MainTokens \cup SplitTokens
         /\ radio[TokenField(v)].base \in Modes \ {"Unknown"}
         /\ BothForms(radio[TokenField(v)].base)
         /\ Token(radio[TokenField(v)].base, radio[TokenField(v)].pkt) = radio[TokenField(v)]
<1>1. /\ radio["freqA"] \in Hz /\ radio["freqB"] \in Hz
      /\ radio["tokenA"] \in MainTokens /\ radio["tokenB"] \in SplitTokens
  BY RadioHas
<1>2. v = "A" \/ v = "B"
  BY DEF Vfo
<1>3. radio[FreqOf(v)] \in Hz /\ radio[TokenField(v)] \in MainTokens \cup SplitTokens
  BY <1>1, <1>2 DEF FreqOf, TokenField
<1>4. PICK t \in MainTokens \cup SplitTokens : t = radio[TokenField(v)]
  BY <1>3
<1>5. /\ t.base \in Modes \ {"Unknown"} /\ BothForms(t.base)
      /\ Token(t.base, t.pkt) = t
  BY AnyToken
<1> QED
  BY <1>3, <1>4, <1>5

\* A poll records a change, and has no doubt of it.
LEMMA PolledOne ==
  ASSUME SnapTyped, NEW f, NEW v, Fits(f, v), RecordAll(<<Change(f, v)>>, "poll")
  PROVE  SnapTyped' /\ Written(snap, f, v, snap') /\ unsure' \subseteq unsure
         /\ \A g \in unsure \ {f} : g \in unsure'
<1>1. /\ snap' = With(snap, f, v)
      /\ unsure' = UncertainAfter(unsure, Change(f, v), "poll", Changes(snap, Change(f, v)))
  BY RecordOne DEF With
<1>2. unsure' = unsure \ {f}
  BY <1>1 DEF UncertainAfter, Change
<1>3. Sane(With(snap, f, v))
  BY StaysSane, Zenon DEF SnapTyped
<1>4. f \in Fields /\ f \notin {"knownA", "knownB"} /\ Whole(snap)
  BY DEF Fits, SnapTyped, Sane
<1>5. Written(snap, f, v, With(snap, f, v))
  BY <1>4, Applied, Zenon
<1> QED
  BY <1>1, <1>2, <1>3, <1>5 DEF SnapTyped

\* ... or two.
LEMMA PolledTwo ==
  ASSUME SnapTyped, NEW f, NEW v, Fits(f, v), NEW g, NEW w, Fits(g, w),
         RecordAll(<<Change(f, v), Change(g, w)>>, "poll")
  PROVE  /\ SnapTyped'
         /\ \E mid : Written(snap, f, v, mid) /\ Written(mid, g, w, snap')
<1>1. snap' = With(With(snap, f, v), g, w)
  BY RecordTwo DEF With
<1>2. PICK mid : mid = With(snap, f, v)
  OBVIOUS
<1>3. Sane(mid)
  BY <1>2, StaysSane, Zenon DEF SnapTyped
<1>4. Sane(With(mid, g, w))
  BY <1>3, StaysSane, Zenon
<1>5. f \in Fields /\ f \notin {"knownA", "knownB"} /\ Whole(snap)
  BY DEF Fits, SnapTyped, Sane
<1>6. Written(snap, f, v, With(snap, f, v))
  BY <1>5, Applied, Zenon
<1>7. g \in Fields /\ g \notin {"knownA", "knownB"} /\ Whole(mid)
  BY <1>3 DEF Fits, Sane
<1>8. Written(mid, g, w, With(mid, g, w))
  BY <1>7, Applied, Zenon
<1>9. snap' = With(mid, g, w)
  BY <1>1, <1>2, Zenon
<1> QED
  BY <1>2, <1>4, <1>6, <1>8, <1>9, Zenon DEF SnapTyped

\* Nothing has another value, and what was known is known.
Alike(s, t) ==
  /\ \A g \in Fields \ {"knownA", "knownB"} : t[g] = s[g]
  /\ \A g \in {"knownA", "knownB"} : s[g] = TRUE => t[g] = TRUE

\* What is recorded as it was leaves the cache alike (record).
LEMMA WrittenAgain ==
  ASSUME NEW s, NEW f \in Fields, NEW v, NEW t, Written(s, f, v, t), s[f] = v
  PROVE  Alike(s, t)
<1>1. /\ t[f] = v /\ \A g \in Fields \ {f, "knownA", "knownB"} : t[g] = s[g]
      /\ t["knownA"] = IF f = "modeA" THEN TRUE ELSE s["knownA"]
      /\ t["knownB"] = IF f = "modeB" THEN TRUE ELSE s["knownB"]
  BY DEF Written
<1>2. \A g \in Fields \ {"knownA", "knownB"} : g = f \/ g \in Fields \ {f, "knownA", "knownB"}
  OBVIOUS
<1>3. \A g \in Fields \ {"knownA", "knownB"} : t[g] = s[g]
  BY <1>1, <1>2
<1> QED
  BY <1>1, <1>3 DEF Alike

\* What is fresh stays so while the poll tells the same again.
LEMMA StaysFresh ==
  ASSUME IInv, fresh, trusted' = TRUE, radio' = radio, Alike(snap, snap')
  PROVE  Freshness'
<1>1. /\ snap.modeA = radio.tokenA.base /\ snap.split = radio.split
      /\ radio.split[1] => TxFreqRight /\ TxTokenRight
      /\ snap.power = FromRelative(radio.rel, ToMilliwatts(radio.rel, Transmits.base))
  BY DEF IInv, Freshness
<1>2. radio["split"][2] \in Vfo
  BY RadioHas DEF IInv, Typed
<1>3. PICK tx \in Vfo : tx = radio.split[2]
  BY <1>2
<1>4. /\ FreqOf(tx) \in Fields \ {"knownA", "knownB"} /\ ModeOf(tx) \in Fields \ {"knownA", "knownB"}
      /\ DataOf(tx) \in Fields \ {"knownA", "knownB"} /\ KnownOf(tx) \in {"knownA", "knownB"}
  BY DEF Vfo, FreqOf, ModeOf, DataOf, KnownOf, Fields
<1>5. /\ snap'["modeA"] = snap["modeA"] /\ snap'["split"] = snap["split"]
      /\ snap'["power"] = snap["power"]
  BY DEF Alike, Fields
<1>6. /\ snap'[FreqOf(tx)] = snap[FreqOf(tx)] /\ snap'[ModeOf(tx)] = snap[ModeOf(tx)]
      /\ snap'[DataOf(tx)] = snap[DataOf(tx)] /\ (snap[KnownOf(tx)] = TRUE => snap'[KnownOf(tx)] = TRUE)
  BY <1>4 DEF Alike
<1>7. TxFreqRight => TxFreqRight'
  BY <1>3, <1>6 DEF TxFreqRight
<1>8. TxTokenRight => TxTokenRight'
  BY <1>3, <1>6 DEF TxTokenRight, TokenOf
<1>9. Transmits' = Transmits
  BY DEF Transmits
<1> QED
  BY <1>1, <1>5, <1>7, <1>8, <1>9 DEF Freshness

\* What a query leaves as it was, and the mode that the cache has if it was right.
Steady(at, next) ==
  /\ poll.at = at /\ poll.mixed = FALSE /\ radio' = radio
  /\ poll'.at = next /\ poll'.mixed = FALSE
  /\ trusted' = trusted /\ fresh' = fresh
ModeStays == snap.modeA = radio.tokenA.base => snap'.modeA = radio.tokenA.base
Told == SnapTyped' /\ Heeded' /\ Trust' /\ Freshness' /\ ModeStays

\* The parts of the invariant, by name.
LEMMA Parts ==
  ASSUME IInv
  PROVE  /\ Typed /\ RadioTyped /\ SnapTyped /\ PollTyped /\ SessionsTyped /\ PromiseTyped
         /\ Heeded /\ Trust /\ Freshness /\ Progresses /\ Promised
         /\ trusted \in BOOLEAN /\ fresh \in BOOLEAN
  BY DEF IInv, Typed, PromiseTyped

\* It is enough that a query that tells of one field other than the mode leaves the
\* cache right as far as the poll has got.
LEMMA ToldOne ==
  ASSUME IInv, NEW at, NEW next, Steady(at, next), NEW f, NEW v, Fits(f, v), f # "modeA", f # "dataA",
         RecordAll(<<Change(f, v)>>, "poll"),
         f = "freqA" => v = radio.freqA, f = "split" => v = radio.split,
         fresh => snap[f] = v, Heeded'
  PROVE  Told
<1>1. /\ SnapTyped' /\ Written(snap, f, v, snap') /\ \A g \in unsure \ {f} : g \in unsure'
  BY Parts, PolledOne
<1>2. f \in Fields /\ f \notin {"knownA", "knownB"}
  BY DEF Fits
<1>3. /\ snap'[f] = v
      /\ \A g \in Fields \ {f, "knownA", "knownB"} : snap'[g] = snap[g]
  BY <1>1 DEF Written
<1>4. snap'["modeA"] = snap["modeA"] /\ snap'["dataA"] = snap["dataA"]
  BY <1>3 DEF Fields
<1>5. snap'["freqA"] = IF f = "freqA" THEN radio.freqA ELSE snap["freqA"]
  BY <1>3 DEF Fields
<1>6. snap'["split"] = IF f = "split" THEN radio.split ELSE snap["split"]
  BY <1>3 DEF Fields
<1>7. Trust'
  <2> SUFFICES ASSUME trusted PROVE Trust'
    BY DEF Trust, Steady
  <2>1. /\ snap.freqA = radio.freqA
        /\ "modeA" \notin unsure => snap.modeA = radio.tokenA.base
        /\ "dataA" \notin unsure /\ radio.tokenA.pkt => snap.dataA = TRUE
        /\ snap.split[1] = radio.split[1] /\ (radio.split[1] => snap.split = radio.split)
    BY Parts DEF Trust
  <2>2. /\ "modeA" \notin unsure' => "modeA" \notin unsure
        /\ "dataA" \notin unsure' => "dataA" \notin unsure
    BY <1>1
  <2>3. radio' = radio /\ poll'.mixed = FALSE
    BY DEF Steady
  <2> QED
    BY <1>4, <1>5, <1>6, <2>1, <2>2, <2>3 DEF Trust
<1>8. Freshness'
  <2> SUFFICES ASSUME fresh PROVE Freshness'
    BY DEF Freshness, Steady
  <2>1. Alike(snap, snap')
    BY <1>1, <1>2, WrittenAgain
  <2>2. trusted' = TRUE /\ radio' = radio
    BY Parts DEF Freshness, Steady
  <2> QED
    BY <2>1, <2>2, StaysFresh
<1> QED
  BY <1>1, <1>4, <1>7, <1>8 DEF Told, ModeStays

\* What a fresh cache has.
LEMMA FreshHas ==
  ASSUME IInv, fresh
  PROVE  /\ trusted = TRUE /\ poll.mixed = FALSE
         /\ snap["freqA"] = radio["freqA"] /\ snap["modeA"] = radio["tokenA"].base
         /\ snap["split"] = radio["split"]
         /\ radio.split[1] => TxFreqRight /\ TxTokenRight
         /\ snap["power"] = FromRelative(radio.rel, ToMilliwatts(radio.rel, Transmits.base))
<1>1. trusted = TRUE
  BY Parts DEF Freshness
<1>2. poll.mixed = FALSE /\ snap.freqA = radio.freqA
  BY <1>1, Parts DEF Trust, PollTyped
<1> QED
  BY <1>1, <1>2, Parts DEF Freshness

\* The frequency of VFO A.
LEMMA ToldFreq ==
  ASSUME IInv, Steady("f", "m"), RecordAll(Heard("f"), "poll")
  PROVE  Told
<1>1. RecordAll(<<Change("freqA", radio.freqA)>>, "poll")
  BY DEF Heard
<1>2. radio.freqA \in Hz
  BY RadioHas, Parts
<1>3. Fits("freqA", radio.freqA)
  BY <1>2 DEF Fits, Fields
<1>4. Written(snap, "freqA", radio.freqA, snap')
  BY <1>1, <1>3, PolledOne, Parts
<1>5. snap'["freqA"] = radio.freqA
  BY <1>4 DEF Written
<1>6. Heeded'
  BY <1>5 DEF Heeded, Steady
<1>7. fresh => snap["freqA"] = radio.freqA
  BY FreshHas
<1> QED
  BY <1>1, <1>3, <1>6, <1>7, ToldOne

\* Split.
LEMMA ToldSplit ==
  ASSUME IInv, NEW next, Steady("s", next), RecordAll(Heard("s"), "poll"),
         next = IF snap'.split[1] THEN "i" ELSE "l"
  PROVE  Told
<1>1. RecordAll(<<Change("split", radio.split)>>, "poll")
  BY DEF Heard
<1>2. radio.split \in BOOLEAN \X Vfo /\ (radio.split[1] => radio.split[1] = TRUE)
  BY RadioHas, Parts
<1>3. Fits("split", radio.split)
  BY <1>2 DEF Fits, Fields
<1>4. Written(snap, "split", radio.split, snap')
  BY <1>1, <1>3, PolledOne, Parts
<1>5. /\ snap'["split"] = radio.split /\ snap'["freqA"] = snap["freqA"]
      /\ snap'["modeA"] = snap["modeA"]
  BY <1>4 DEF Written, Fields
<1>6. snap.freqA = radio.freqA /\ snap.modeA = radio.tokenA.base /\ ~radio.tokenA.pkt
  BY Parts DEF Heeded, Steady
<1>7. Heeded'
  <2>1. CASE radio.split[1]
    <3>1. next = "i"
      BY <1>5, <2>1
    <3> QED
      BY <1>2, <1>5, <1>6, <2>1, <3>1 DEF Heeded, Steady
  <2>2. CASE ~radio.split[1]
    <3>1. next = "l"
      BY <1>5, <2>2
    <3> QED
      BY <1>5, <1>6, <2>2, <3>1 DEF Heeded, Steady
  <2> QED
    BY <2>1, <2>2
<1>8. fresh => snap["split"] = radio.split
  BY FreshHas
<1> QED
  BY <1>1, <1>3, <1>7, <1>8, ToldOne

\* The frequency of the VFO that transmits: the radio's and the cache's are one.
LEMMA ToldTxFreq ==
  ASSUME IInv, Steady("i", "x"), RecordAll(Heard("i"), "poll")
  PROVE  Told
<1>1. /\ snap.freqA = radio.freqA /\ snap.modeA = radio.tokenA.base /\ snap.split = radio.split
      /\ radio.split[1] /\ ~radio.tokenA.pkt
  BY Parts DEF Heeded, Steady
<1>2. radio["split"][2] \in Vfo
  BY RadioHas, Parts
<1>3. PICK tx \in Vfo : tx = radio.split[2] /\ tx = snap.split[2]
  BY <1>1, <1>2
<1>4. PICK f \in {"freqA", "freqB"} : f = FreqOf(tx)
  BY DEF FreqOf
<1>5. PICK v \in Hz : v = radio[f]
  BY <1>4, RadioHas, Parts
<1>6. RecordAll(<<Change(f, v)>>, "poll")
  BY <1>3, <1>4, <1>5 DEF Heard
<1>7. Fits(f, v)
  BY DEF Fits, Fields
<1>8. f = "freqA" => v = radio.freqA
  BY <1>5
<1>9. Written(snap, f, v, snap')
  BY <1>6, <1>7, PolledOne, Parts
<1>10. /\ snap'[f] = v /\ snap'["split"] = snap["split"] /\ snap'["modeA"] = snap["modeA"]
       /\ snap'["freqA"] = radio.freqA
  BY <1>1, <1>8, <1>9 DEF Written, Fields
<1>11. TxFreqRight'
  BY <1>3, <1>4, <1>5, <1>10 DEF TxFreqRight, Steady
<1>12. Heeded'
  BY <1>1, <1>10, <1>11 DEF Heeded, Steady
<1>13. fresh => snap[f] = v
  BY <1>1, <1>3, <1>4, <1>5, FreshHas DEF TxFreqRight
<1> QED
  BY <1>6, <1>7, <1>8, <1>12, <1>13, ToldOne

\* The mode that is received with.
LEMMA ToldMode ==
  ASSUME IInv, Steady("m", "s"), RecordAll(Heard("m"), "poll"), ~radio.tokenA.pkt
  PROVE  Told
<1>1. PICK t \in MainTokens : t = radio.tokenA
  BY RadioHas, Parts
<1>2. t.base \in Modes /\ FromToken(t) = t.base /\ BothForms(t.base)
  BY <1>1, MainToken
<1>3. PICK v : v = t.base
  OBVIOUS
<1>4. RecordAll(<<Change("modeA", v)>>, "poll")
  BY <1>1, <1>2, <1>3 DEF Heard
<1>5. Fits("modeA", v)
  BY <1>2, <1>3 DEF Fits, Fields
<1>6. SnapTyped' /\ Written(snap, "modeA", v, snap')
  BY <1>4, <1>5, PolledOne, Parts
<1>7. /\ snap'["modeA"] = radio.tokenA.base
      /\ snap'["freqA"] = snap["freqA"] /\ snap'["split"] = snap["split"]
  BY <1>1, <1>3, <1>6 DEF Written, Fields
<1>8. snap.freqA = radio.freqA
  BY Parts DEF Heeded, Steady
<1>9. Heeded'
  BY <1>7, <1>8 DEF Heeded, Steady
<1>10. Trust'
  BY <1>7, Parts DEF Trust, Steady
<1>11. Freshness'
  <2> SUFFICES ASSUME fresh PROVE Freshness'
    BY DEF Freshness, Steady
  <2>1. snap["modeA"] = v
    BY <1>1, <1>3, FreshHas
  <2>2. "modeA" \in Fields
    BY DEF Fields
  <2>3. Alike(snap, snap')
    BY <1>6, <2>1, <2>2, WrittenAgain
  <2>4. trusted' = TRUE /\ radio' = radio
    BY FreshHas DEF Steady
  <2> QED
    BY <2>3, <2>4, StaysFresh
<1> QED
  BY <1>6, <1>7, <1>9, <1>10, <1>11 DEF Told, ModeStays

\* The mode of the VFO that transmits, and its data flag.
LEMMA ToldTxToken ==
  ASSUME IInv, Steady("x", "l"), RecordAll(Heard("x"), "poll")
  PROVE  Told
<1>1. /\ snap.freqA = radio.freqA /\ snap.modeA = radio.tokenA.base /\ snap.split = radio.split
      /\ radio.split[1] /\ TxFreqRight /\ ~radio.tokenA.pkt
  BY Parts DEF Heeded, Steady
<1>2. radio["split"][2] \in Vfo
  BY RadioHas, Parts
<1>3. PICK tx \in Vfo : tx = radio.split[2] /\ tx = snap.split[2]
  BY <1>1, <1>2
<1>4. PICK token : token = radio[TokenField(tx)]
  OBVIOUS
<1>5. /\ token.base \in Modes \ {"Unknown"} /\ BothForms(token.base)
      /\ Token(token.base, token.pkt) = token
  BY <1>4, OnVfo, Parts
<1>6. PICK f \in {"modeA", "modeB"}, g \in {"dataA", "dataB"}, h \in {"freqA", "freqB"} :
        f = ModeOf(tx) /\ g = DataOf(tx) /\ h = FreqOf(tx)
  BY DEF ModeOf, DataOf, FreqOf
<1>7. PICK v, w : v = token.base /\ w = token.pkt
  OBVIOUS
<1>8. RecordAll(<<Change(f, v), Change(g, w)>>, "poll")
  BY <1>3, <1>4, <1>6, <1>7 DEF Heard
<1>9. Fits(f, v) /\ Fits(g, w)
  BY <1>5, <1>7 DEF Fits, Fields
<1>10. SnapTyped' /\ \E mid : Written(snap, f, v, mid) /\ Written(mid, g, w, snap')
  BY <1>8, <1>9, PolledTwo, Parts
<1>11. PICK mid : Written(snap, f, v, mid) /\ Written(mid, g, w, snap')
  BY <1>10
<1>12. /\ mid[f] = v /\ \A k \in Fields \ {f, "knownA", "knownB"} : mid[k] = snap[k]
       /\ snap'[g] = w /\ \A k \in Fields \ {g, "knownA", "knownB"} : snap'[k] = mid[k]
  BY <1>11 DEF Written
<1>13. /\ f \in Fields \ {g, "knownA", "knownB"} /\ h \in Fields \ {f, g, "knownA", "knownB"}
       /\ "freqA" \in Fields \ {f, g, "knownA", "knownB"} /\ "split" \in Fields \ {f, g, "knownA", "knownB"}
  BY DEF Fields
<1>14. /\ snap'[f] = v /\ snap'[g] = w /\ snap'[h] = snap[h]
       /\ snap'["freqA"] = snap["freqA"] /\ snap'["split"] = snap["split"]
  BY <1>12, <1>13
<1>15. snap'["modeA"] = radio.tokenA.base
  <2>1. CASE tx = "A"
    <3>1. f = "modeA" /\ token = radio.tokenA
      BY <1>4, <1>6, <2>1 DEF ModeOf, TokenField
    <3> QED
      BY <1>7, <1>14, <3>1
  <2>2. CASE tx = "B"
    <3>1. f = "modeB"
      BY <1>6, <2>2 DEF ModeOf
    <3>2. snap'["modeA"] = snap["modeA"]
      BY <1>12, <3>1 DEF Fields
    <3> QED
      BY <1>1, <3>2
  <2> QED
    BY <2>1, <2>2 DEF Vfo
<1>16. snap'[KnownOf(tx)] = TRUE
  <2>1. /\ mid["knownA"] = IF f = "modeA" THEN TRUE ELSE snap["knownA"]
        /\ mid["knownB"] = IF f = "modeB" THEN TRUE ELSE snap["knownB"]
        /\ snap'["knownA"] = mid["knownA"] /\ snap'["knownB"] = mid["knownB"]
    BY <1>11 DEF Written
  <2> QED
    BY <1>6, <2>1 DEF KnownOf, ModeOf
<1>17. TxFreqRight' /\ TxTokenRight'
  <2>1. TxFreqRight'
    BY <1>1, <1>3, <1>6, <1>14 DEF TxFreqRight, Steady
  <2>2. Token(snap'[f], snap'[g]) = token
    BY <1>5, <1>7, <1>14
  <2>3. TokenOf(snap', tx) = token
    BY <1>6, <2>2 DEF TokenOf
  <2>4. TxTokenRight'
    BY <1>3, <1>4, <1>16, <2>3 DEF TxTokenRight, Steady
  <2> QED
    BY <2>1, <2>4
<1>18. Heeded'
  BY <1>1, <1>14, <1>15, <1>17 DEF Heeded, Steady
<1>19. Trust'
  BY <1>1, <1>14, <1>15, Parts DEF Trust, Steady
<1>20. Freshness'
  <2> SUFFICES ASSUME fresh PROVE Freshness'
    BY DEF Freshness, Steady
  <2>1. trusted' = TRUE /\ radio' = radio /\ snap.split = radio.split
        /\ snap.power = FromRelative(radio.rel, ToMilliwatts(radio.rel, Transmits.base))
    BY FreshHas DEF Steady
  <2>2. snap'["power"] = snap["power"]
    BY <1>12 DEF Fields
  <2>3. Transmits' = Transmits
    BY <2>1 DEF Transmits
  <2> QED
    BY <1>14, <1>15, <1>17, <2>1, <2>2, <2>3 DEF Freshness
<1> QED
  BY <1>10, <1>15, <1>18, <1>19, <1>20 DEF Told, ModeStays

\* The level, which is converted next.
LEMMA ToldLevel ==
  ASSUME IInv, Steady("l", "2"), RecordAll(Heard("l"), "poll"), poll'.rel = radio.rel
  PROVE  Told
<1>1. snap' = snap /\ unsure' = unsure
  BY RecordNone DEF Heard
<1>2. /\ SnapTyped /\ snap.freqA = radio.freqA /\ snap.modeA = radio.tokenA.base /\ ~radio.tokenA.pkt
      /\ snap.split = radio.split /\ (radio.split[1] => TxFreqRight /\ TxTokenRight)
  BY Parts DEF Heeded, Steady
<1>3. radio' = radio /\ trusted' = trusted /\ fresh' = fresh /\ poll'.at = "2" /\ poll'.mixed = FALSE
  BY DEF Steady
<1>4. TxFreqRight' = TxFreqRight /\ TxTokenRight' = TxTokenRight
  BY <1>1, <1>3 DEF TxFreqRight, TxTokenRight
<1>5. Heeded'
  BY <1>1, <1>2, <1>3, <1>4 DEF Heeded
<1>6. Trust'
  BY <1>1, <1>3, Parts DEF Trust
<1>7. Freshness'
  <2>1. Transmits' = Transmits
    BY <1>3 DEF Transmits
  <2> QED
    BY <1>1, <1>3, <1>4, <2>1, Parts DEF Freshness
<1> QED
  BY <1>1, <1>2, <1>3, <1>5, <1>6, <1>7 DEF Told, ModeStays, SnapTyped

\* The milliwatts of it, for the mode that is transmitted with: the poll is done, and all
\* of the cache is right.
LEMMA ToldPower ==
  ASSUME IInv, poll.at = "2", poll.mixed = FALSE, radio' = radio, RecordAll(Heard("2"), "poll"),
         poll'.at = "none", poll'.mixed = FALSE, trusted' = TRUE, fresh' = TRUE
  PROVE  Told
<1>1. /\ snap["freqA"] = radio.freqA /\ snap["modeA"] = radio.tokenA.base
      /\ snap["split"] = radio.split
      /\ (radio.split[1] => TxFreqRight /\ TxTokenRight) /\ poll.rel = radio.rel
      /\ ~radio.tokenA.pkt
  BY Parts DEF Heeded
<1>2. PICK tx \in Vfo : tx = IF radio.split[1] THEN radio.split[2] ELSE "A"
  BY RadioHas, Parts DEF Vfo
<1>3. ConvertsFor(snap) = tx
  <2>1. snap["rx"] = "A"
    BY Parts DEF SnapTyped, Sane
  <2> QED
    BY <1>1, <1>2, <2>1 DEF ConvertsFor
<1>4. TokenOf(snap, tx).base = Transmits.base
  <2>1. CASE radio.split[1]
    BY <1>1, <1>2, <2>1 DEF TxTokenRight, Transmits
  <2>2. CASE ~radio.split[1]
    <3>1. PICK t \in MainTokens : t = radio.tokenA
      BY RadioHas, Parts
    <3>2. t.base \in Modes \ {"Unknown"}
      BY <3>1, MainToken
    <3>3. TokenOf(snap, "A").base = t.base
      BY <1>1, <3>1, <3>2 DEF TokenOf, ModeOf, Token
    <3>4. Transmits = t
      BY <2>2, <3>1 DEF Transmits, TokenField
    <3> QED
      BY <1>2, <2>2, <3>3, <3>4
  <2> QED
    BY <2>1, <2>2
<1>5. PICK v : v = FromRelative(radio.rel, ToMilliwatts(radio.rel, Transmits.base))
  OBVIOUS
<1>6. RecordAll(<<Change("power", v)>>, "poll")
  BY <1>1, <1>3, <1>4, <1>5 DEF Heard
<1>7. Fits("power", v)
  BY DEF Fits, Fields
<1>8. SnapTyped' /\ Written(snap, "power", v, snap')
  BY <1>6, <1>7, PolledOne, Parts
<1>9. /\ snap'["power"] = v
      /\ \A g \in Fields \ {"power", "knownA", "knownB"} : snap'[g] = snap[g]
      /\ snap'["knownA"] = snap["knownA"] /\ snap'["knownB"] = snap["knownB"]
  BY <1>8 DEF Written
<1>10. /\ snap'["freqA"] = snap["freqA"] /\ snap'["modeA"] = snap["modeA"]
       /\ snap'["split"] = snap["split"]
  BY <1>9 DEF Fields
<1>11. radio.split[1] => TxFreqRight' /\ TxTokenRight'
  <2> SUFFICES ASSUME radio.split[1] PROVE TxFreqRight' /\ TxTokenRight'
    OBVIOUS
  <2>1. tx = radio.split[2]
    BY <1>2
  <2>2. /\ FreqOf(tx) \in Fields \ {"power", "knownA", "knownB"}
        /\ ModeOf(tx) \in Fields \ {"power", "knownA", "knownB"}
        /\ DataOf(tx) \in Fields \ {"power", "knownA", "knownB"}
        /\ KnownOf(tx) \in {"knownA", "knownB"}
    BY DEF Vfo, FreqOf, ModeOf, DataOf, KnownOf, Fields
  <2>3. /\ snap'[FreqOf(tx)] = snap[FreqOf(tx)] /\ snap'[ModeOf(tx)] = snap[ModeOf(tx)]
        /\ snap'[DataOf(tx)] = snap[DataOf(tx)] /\ snap'[KnownOf(tx)] = snap[KnownOf(tx)]
    BY <1>9, <2>2
  <2> QED
    BY <1>1, <2>1, <2>3 DEF TxFreqRight, TxTokenRight, TokenOf
<1>12. Heeded'
  BY DEF Heeded
<1>13. Trust'
  BY <1>1, <1>10 DEF Trust
<1>14. Freshness'
  <2>1. Transmits' = Transmits
    BY DEF Transmits
  <2> QED
    BY <1>1, <1>5, <1>9, <1>10, <1>11, <2>1 DEF Freshness
<1> QED
  BY <1>1, <1>8, <1>10, <1>12, <1>13, <1>14 DEF Told, ModeStays

\* Whatever is answered, the cache keeps to its types.
LEMMA PollSane ==
  ASSUME IInv, poll.at # "none", NEW error \in BOOLEAN,
         RecordAll(IF error THEN HeardError(poll.at) ELSE Heard(poll.at), "poll")
  PROVE  SnapTyped'
<1>0. RadioTyped /\ SnapTyped
  BY Parts
<1>1. PICK tx, ty : tx = snap.split[2] /\ ty = radio.split[2]
  OBVIOUS
<1>2. tx \in Vfo /\ ty \in Vfo
  <2>1. snap["split"] \in BOOLEAN \X Vfo /\ radio["split"][2] \in Vfo
    BY <1>0, RadioHas DEF SnapTyped, Sane
  <2> QED
    BY <1>1, <2>1
<1>3. ASSUME NEW f, NEW v, Fits(f, v), RecordAll(<<Change(f, v)>>, "poll")
      PROVE  SnapTyped'
  BY <1>0, <1>3, PolledOne
<1>4. ASSUME RecordAll(<<>>, "poll")
      PROVE  SnapTyped'
  BY <1>0, <1>4, RecordNone DEF SnapTyped
<1>5. CASE ~error
  <2>0. RecordAll(Heard(poll.at), "poll")
    BY <1>5
  <2>1. CASE poll.at = "f"
    <3>1. radio.freqA \in Hz
      BY <1>0, RadioHas
    <3>2. Fits("freqA", radio.freqA) /\ RecordAll(<<Change("freqA", radio.freqA)>>, "poll")
      BY <2>0, <2>1, <3>1 DEF Heard, Fits, Fields
    <3> QED
      BY <1>3, <3>2
  <2>2. CASE poll.at = "m"
    <3>1. PICK t \in MainTokens : t = radio.tokenA
      BY <1>0, RadioHas
    <3>2. PICK v : v = FromToken(t)
      OBVIOUS
    <3>3. v \in Modes /\ BothForms(v)
      BY <3>2, MainToken, NoMode DEF Modes
    <3>4. Fits("modeA", v) /\ RecordAll(<<Change("modeA", v)>>, "poll")
      BY <2>0, <2>2, <3>1, <3>2, <3>3 DEF Heard, Fits, Fields
    <3> QED
      BY <1>3, <3>4
  <2>3. CASE poll.at = "s"
    <3>1. radio.split \in BOOLEAN \X Vfo
      BY <1>0, RadioHas
    <3>2. Fits("split", radio.split) /\ RecordAll(<<Change("split", radio.split)>>, "poll")
      BY <2>0, <2>3, <3>1 DEF Heard, Fits, Fields
    <3> QED
      BY <1>3, <3>2
  <2>4. CASE poll.at = "i"
    <3>1. radio[FreqOf(ty)] \in Hz /\ FreqOf(tx) \in {"freqA", "freqB"}
      BY <1>0, <1>2, OnVfo, VfoFields
    <3>2. /\ Fits(FreqOf(tx), radio[FreqOf(ty)])
          /\ RecordAll(<<Change(FreqOf(tx), radio[FreqOf(ty)])>>, "poll")
      BY <1>1, <2>0, <2>4, <3>1 DEF Heard, Fits, Fields
    <3> QED
      BY <1>3, <3>2
  <2>5. CASE poll.at = "x"
    <3>1. PICK token : token = radio[TokenField(ty)]
      OBVIOUS
    <3>2. token.base \in Modes /\ BothForms(token.base)
      BY <1>0, <1>2, <3>1, OnVfo
    <3>3. ModeOf(tx) \in {"modeA", "modeB"} /\ DataOf(tx) \in {"dataA", "dataB"}
      BY DEF ModeOf, DataOf
    <3>4. Fits(ModeOf(tx), token.base) /\ Fits(DataOf(tx), token.pkt)
      BY <3>2, <3>3 DEF Fits, Fields
    <3>5. RecordAll(<<Change(ModeOf(tx), token.base), Change(DataOf(tx), token.pkt)>>, "poll")
      BY <1>1, <2>0, <2>5, <3>1 DEF Heard
    <3> QED
      BY <1>0, <3>4, <3>5, PolledTwo
  <2>6. CASE poll.at = "l"
    BY <1>4, <2>0, <2>6 DEF Heard
  <2>7. CASE poll.at = "2"
    <3>1. \A v : Fits("power", v)
      BY DEF Fits, Fields
    <3>2. PICK v : RecordAll(<<Change("power", v)>>, "poll")
      BY <2>0, <2>7 DEF Heard
    <3> QED
      BY <1>3, <3>1, <3>2
  <2> QED
    BY <2>1, <2>2, <2>3, <2>4, <2>5, <2>6, <2>7, Parts DEF PollTyped, Stages
<1>6. CASE error
  <2>0. RecordAll(HeardError(poll.at), "poll")
    BY <1>6
  <2>1. CASE poll.at = "m"
    <3>1. Fits("modeA", "Unknown") /\ RecordAll(<<Change("modeA", "Unknown")>>, "poll")
      BY <2>0, <2>1, NoMode DEF HeardError, Fits, Fields, Modes
    <3> QED
      BY <1>3, <3>1
  <2>2. CASE poll.at = "s"
    <3>1. <<FALSE, "A">> \in BOOLEAN \X Vfo
      BY DEF Vfo
    <3>2. Fits("split", <<FALSE, "A">>) /\ RecordAll(<<Change("split", <<FALSE, "A">>)>>, "poll")
      BY <2>0, <2>2, <3>1 DEF HeardError, Fits, Fields
    <3> QED
      BY <1>3, <3>2
  <2>3. CASE poll.at \in {"l", "2"}
    <3>1. Fits("power", <<>>) /\ RecordAll(<<Change("power", <<>>)>>, "poll")
      BY <2>0, <2>3 DEF HeardError, Fits, Fields
    <3> QED
      BY <1>3, <3>1
  <2>4. CASE poll.at \notin {"m", "s", "l", "2"}
    BY <1>4, <2>0, <2>4 DEF HeardError
  <2> QED
    BY <2>1, <2>2, <2>3, <2>4
<1> QED
  BY <1>5, <1>6

\* What a command holds is a matter of the radio.
LEMMA HoldsStays ==
  ASSUME radio' = radio, NEW cmd, Holds(cmd)
  PROVE  Holds(cmd)'
  BY DEF Holds

\* A session's progress is that of its record.
LEMMA SessionProgress ==
  ASSUME NEW c \in Clients, NEW s, s = sess'[c], Progress(s)'
  PROVE  Progress(sess[c])'
  BY DEF Progress, Advanced, Holds

\* The sessions while a poll goes on: a session that is clean after a query was before.
LEMMA SessionsPolled ==
  ASSUME IInv, NEW untold \in BOOLEAN, radio' = radio, poll.at # "none",
         sess' = [c \in Clients |-> [sess[c] EXCEPT !.clean = @ /\ ~untold]],
         ~untold /\ ~poll.mixed => ModeStays /\ (poll'.at = "none" \/ ~poll'.mixed)
  PROVE  SessionsTyped' /\ Progresses'
<1>1. ASSUME NEW c \in Clients
      PROVE  /\ SessionTyped(sess'[c]) /\ sess'[c].st = sess[c].st /\ sess'[c].cmd = sess[c].cmd
             /\ sess'[c].muts = sess[c].muts /\ (sess'[c].clean => sess[c].clean /\ ~untold)
  <2>1. SessionTyped(sess[c]) /\ sess[c].clean \in BOOLEAN
    BY Parts DEF SessionsTyped, SessionTyped
  <2>2. PICK b \in BOOLEAN : b = (sess[c].clean /\ ~untold)
    OBVIOUS
  <2>3. sess'[c] = [sess[c] EXCEPT !.clean = b]
    BY <2>2
  <2>4. PICK s, t : s = sess[c] /\ t = [s EXCEPT !.clean = b]
    OBVIOUS
  <2>5. SessionTyped(t) /\ t.st = s.st /\ t.cmd = s.cmd /\ t.muts = s.muts /\ t.clean = b
    BY <2>1, <2>4, Muddied
  <2>6. sess'[c] = t
    BY <2>3, <2>4
  <2> QED
    BY <2>2, <2>4, <2>5, <2>6
<1>2. SessionsTyped'
  BY <1>1 DEF SessionsTyped, SessionTyped
<1>3. ASSUME NEW c \in Clients
      PROVE  Progress(sess[c])'
  <2>0. PICK s : s = sess'[c]
    OBVIOUS
  <2>1. PICK cmd : cmd = sess[c].cmd
    OBVIOUS
  <2> SUFFICES ASSUME s.st # "idle", s.clean, s.muts # Muts(s.cmd)
               PROVE  Advanced(s.cmd, s.muts)'
    <3> SUFFICES Progress(s)'
      BY <2>0, SessionProgress
    <3> QED
      BY DEF Progress
  <2>2. /\ s.cmd = cmd /\ s.muts = sess[c].muts
        /\ sess[c].st # "idle" /\ sess[c].clean /\ sess[c].muts # Muts(cmd) /\ ~untold
    BY <1>1, <2>0, <2>1
  <2>3. Advanced(cmd, s.muts)
    BY <2>1, <2>2, Parts DEF Progresses, Progress
  <2>4. CASE cmd.name # "set_mode"
    <3>1. Holds(cmd)
      BY <2>3, <2>4 DEF Advanced
    <3>2. Holds(cmd)'
      BY <3>1, HoldsStays
    <3> QED
      BY <2>2, <2>4, <3>2 DEF Advanced, Holds
  <2>5. CASE cmd.name = "set_mode"
    <3>1. /\ snap.modeA = cmd.args[1].base /\ radio.tokenA.base = cmd.args[1].base
          /\ ~poll.mixed /\ (s.muts = <<>> => radio.tokenA = cmd.args[1])
      BY <2>3, <2>5 DEF Advanced
    <3>2. ModeStays /\ (poll'.at = "none" \/ ~poll'.mixed)
      BY <2>2, <3>1
    <3>3. snap'.modeA = cmd.args[1].base
      BY <3>1, <3>2 DEF ModeStays
    <3> QED
      BY <2>2, <2>5, <3>1, <3>2, <3>3 DEF Advanced
  <2> QED
    BY <2>4, <2>5
<1> QED
  BY <1>2, <1>3 DEF Progresses

\* A query leaves the invariant: it tells of the radio as it is, or the poll is not
\* relied on.
LEMMA PollQueryStep ==
  ASSUME IInv, PollQuery
  PROVE  IInv'
<1>0. poll.at \in Stages \ {"none"} /\ poll.mixed \in BOOLEAN /\ radio["rel"] \in Levels
  BY Parts, RadioHas DEF PollQuery, PollTyped
<1>00. radio["tokenA"].pkt \in BOOLEAN
  BY Parts, RadioHas, MainToken
<1> DEFINE next(error) == After(poll.at, error, snap'.split[1])
<1>1. PICK error \in BOOLEAN, untold \in BOOLEAN :
        LET mixed == poll.mixed \/ untold
            done == next(error) = "none" /\ ~mixed
        IN /\ untold = Untold(poll.at, error)
           /\ RecordAll(IF error THEN HeardError(poll.at) ELSE Heard(poll.at), "poll")
           /\ poll' = IF next(error) = "none" THEN NoPoll
                      ELSE [at |-> next(error), mixed |-> mixed,
                            rel |-> IF poll.at = "l" THEN radio.rel ELSE poll.rel]
           /\ trusted' = (done \/ (trusted /\ ~untold)) /\ fresh' = (done \/ (fresh /\ ~untold))
           /\ sess' = [c \in Clients |-> [sess[c] EXCEPT !.clean = @ /\ ~untold]]
  <2>1. \A error \in BOOLEAN : Untold(poll.at, error) \in BOOLEAN
    BY <1>00 DEF Untold
  <2> QED
    BY <2>1 DEF PollQuery
<1>01. /\ error => untold
       /\ ~untold /\ poll.at = "m" => ~radio.tokenA.pkt
  BY <1>1 DEF Untold
<1>2. radio' = radio /\ promise' = promise
  BY DEF PollQuery
<1>3. PICK then : then = next(error)
  OBVIOUS
<1>4. then \in Stages /\ (then = "none" => error \/ poll.at = "2")
  <2>1. \A split : After(poll.at, error, split) \in Stages
    BY <1>0 DEF After, Stages
  <2>2. \A split : After(poll.at, error, split) = "none" => error \/ poll.at = "2"
    BY <1>0 DEF After, Stages
  <2> QED
    BY <1>3, <2>1, <2>2
<1> HIDE DEF next
<1>5. SnapTyped'
  BY <1>0, <1>1, PollSane
<1>6. PollTyped'
  <2>1. CASE then = "none"
    BY <1>1, <1>3, <2>1 DEF PollTyped, NoPoll, Stages
  <2>2. CASE then # "none"
    <3>1. poll.rel \in Levels \cup {0}
      BY Parts DEF PollTyped
    <3>2. PICK b \in BOOLEAN, r \in Levels \cup {0} :
            b = (poll.mixed \/ untold) /\ r = IF poll.at = "l" THEN radio.rel ELSE poll.rel
      BY <1>0, <3>1
    <3>3. poll' = [at |-> then, mixed |-> b, rel |-> r]
      BY <1>1, <1>3, <2>2, <3>2
    <3> QED
      BY <1>4, <3>3 DEF PollTyped
  <2> QED
    BY <2>1, <2>2
<1>7. RadioTyped' /\ Promised' /\ PromiseTyped'
  <2>1. RadioTyped'
    BY <1>2, Parts DEF RadioTyped
  <2>2. Promised'
    BY <1>2, HoldsStays, Parts DEF Promised
  <2>3. trusted' \in BOOLEAN /\ fresh' \in BOOLEAN
    BY <1>1
  <2> QED
    BY <1>2, <2>1, <2>2, <2>3, Parts DEF PromiseTyped
<1>8. CASE untold \/ poll.mixed
  <2>1. trusted' = FALSE /\ fresh' = FALSE
    <3>1. poll.mixed => ~trusted /\ ~fresh
      BY Parts DEF Trust, Freshness
    <3> QED
      BY <1>1, <1>8, <3>1
  <2>2. poll'.mixed = TRUE \/ poll'.at = "none"
    BY <1>1, <1>8 DEF NoPoll
  <2>3. Heeded'
    BY <2>2 DEF Heeded
  <2>4. SessionsTyped' /\ Progresses'
    BY <1>0, <1>1, <1>2, <1>8, SessionsPolled
  <2> QED
    BY <1>5, <1>6, <1>7, <2>1, <2>3, <2>4 DEF IInv, Typed, Trust, Freshness
<1>9. CASE ~untold /\ ~poll.mixed
  <2>1. /\ poll.mixed = FALSE /\ RecordAll(Heard(poll.at), "poll")
        /\ then = After(poll.at, FALSE, snap'.split[1])
    BY <1>0, <1>1, <1>01, <1>3, <1>9 DEF next
  <2>2. Told /\ poll'.mixed = FALSE
    <3>1. CASE poll.at = "2"
      <4>1. then = "none"
        BY <2>1, <3>1 DEF After
      <4>2. /\ trusted' = TRUE /\ fresh' = TRUE /\ poll'.at = "none" /\ poll'.mixed = FALSE
        BY <1>1, <1>3, <1>9, <4>1 DEF NoPoll
      <4>3. RecordAll(Heard("2"), "poll")
        BY <2>1, <3>1
      <4> QED
        BY <1>2, <2>1, <3>1, <4>2, <4>3, ToldPower
    <3>2. CASE poll.at # "2"
      <4>1. then # "none"
        BY <1>01, <1>4, <1>9, <3>2
      <4>2. /\ poll'.at = then /\ poll'.mixed = FALSE
            /\ poll'.rel = IF poll.at = "l" THEN radio.rel ELSE poll.rel
        BY <1>1, <1>3, <1>9, <2>1, <4>1
      <4>3. trusted' = trusted /\ fresh' = fresh
        BY <1>1, <1>3, <1>9, <4>1, Parts
      <4>4. Steady(poll.at, then)
        BY <1>2, <2>1, <4>2, <4>3 DEF Steady
      <4>5. CASE poll.at = "f"
        <5>1. then = "m"
          BY <2>1, <4>5 DEF After
        <5> QED
          BY <2>1, <4>2, <4>4, <4>5, <5>1, ToldFreq
      <4>6. CASE poll.at = "m"
        <5>1. then = "s"
          BY <2>1, <4>6 DEF After
        <5>2. ~radio.tokenA.pkt
          BY <1>01, <1>9, <4>6
        <5> QED
          BY <2>1, <4>2, <4>4, <4>6, <5>1, <5>2, ToldMode
      <4>7. CASE poll.at = "s"
        <5>1. then = IF snap'.split[1] THEN "i" ELSE "l"
          BY <2>1, <4>7 DEF After
        <5> QED
          BY <2>1, <4>2, <4>4, <4>7, <5>1, ToldSplit
      <4>8. CASE poll.at = "i"
        <5>1. then = "x"
          BY <2>1, <4>8 DEF After
        <5> QED
          BY <2>1, <4>2, <4>4, <4>8, <5>1, ToldTxFreq
      <4>9. CASE poll.at = "x"
        <5>1. then = "l"
          BY <2>1, <4>9 DEF After
        <5> QED
          BY <2>1, <4>2, <4>4, <4>9, <5>1, ToldTxToken
      <4>10. CASE poll.at = "l"
        <5>1. then = "2"
          BY <2>1, <4>10 DEF After
        <5> QED
          BY <2>1, <4>2, <4>4, <4>10, <5>1, ToldLevel
      <4> QED
        BY <1>0, <3>2, <4>5, <4>6, <4>7, <4>8, <4>9, <4>10 DEF Stages
    <3> QED
      BY <3>1, <3>2
  <2>3. SessionsTyped' /\ Progresses'
    <3>1. ModeStays /\ ~poll'.mixed
      BY <2>2 DEF Told
    <3> QED
      BY <1>0, <1>1, <1>2, <3>1, SessionsPolled
  <2> QED
    BY <1>5, <1>6, <1>7, <2>2, <2>3 DEF IInv, Typed, Told
<1> QED
  BY <1>0, <1>8, <1>9

\* A poll starts, or ends without an answer: nothing is recorded.
LEMMA PollEdge ==
  ASSUME IInv, StartPoll \/ PollFails
  PROVE  IInv'
<1>1. /\ radio' = radio /\ snap' = snap /\ unsure' = unsure /\ sess' = sess
      /\ trusted' = trusted /\ fresh' = fresh /\ promise' = promise
  BY DEF StartPoll, PollFails, cacheVars
<1>2. poll' \in {[NoPoll EXCEPT !.at = "f"], NoPoll}
  BY DEF StartPoll, PollFails
<1>3. poll'.at \in {"f", "none"} /\ poll'.mixed = FALSE /\ PollTyped'
  <2>1. PICK a \in {"f", "none"} : poll' = [at |-> a, rel |-> 0, mixed |-> FALSE]
    <3>1. PICK n : n = NoPoll
      OBVIOUS
    <3>2. n = [at |-> "none", rel |-> 0, mixed |-> FALSE]
      BY <3>1 DEF NoPoll
    <3>3. CASE poll' = n
      BY <3>2, <3>3
    <3>4. CASE poll' = [n EXCEPT !.at = "f"]
      BY <3>2, <3>4
    <3> QED
      BY <1>2, <3>1, <3>3, <3>4
  <2>2. a \in Stages
    BY DEF Stages
  <2> QED
    BY <2>1, <2>2 DEF PollTyped
<1>4. /\ RadioTyped' = RadioTyped /\ SnapTyped' = SnapTyped /\ PromiseTyped' = PromiseTyped
      /\ SessionsTyped' = SessionsTyped
  BY <1>1 DEF RadioTyped, SnapTyped, PromiseTyped, SessionsTyped
<1>5. Typed'
  BY <1>3, <1>4, Parts DEF Typed
<1>6. Heeded'
  BY <1>3 DEF Heeded
<1>7. Trust'
  BY <1>1, <1>3, Parts DEF Trust
<1>8. Freshness'
  <2>1. TxFreqRight' = TxFreqRight /\ TxTokenRight' = TxTokenRight /\ Transmits' = Transmits
    BY <1>1 DEF TxFreqRight, TxTokenRight, Transmits
  <2> QED
    BY <1>1, <2>1, Parts DEF Freshness
<1>9. Promised'
  BY <1>1, HoldsStays, Parts DEF Promised
<1>10. ASSUME NEW c \in Clients
       PROVE  Progress(sess[c])'
  <2>1. PICK s : s = sess[c]
    OBVIOUS
  <2>2. Progress(s)
    BY <2>1, Parts DEF Progresses
  <2>3. Progress(s)'
    BY <1>1, <1>3, <2>2, HoldsStays DEF Progress, Advanced
  <2> QED
    BY <1>1, <2>1, <2>3, SessionProgress
<1> QED
  BY <1>5, <1>6, <1>7, <1>8, <1>9, <1>10 DEF IInv, Progresses

------------------------------------------------------------------------------
(* The mutations *)

\* The commands, and those of them that are submitted.
LEMMA CommandKinds ==
  ASSUME NEW cmd \in Commands
  PROVE  \/ \E hz \in Hz : cmd = Command("set_freq", <<hz>>)
         \/ \E t \in MainTokens \cup {NoToken} : cmd = Command("set_mode", <<t>>)
         \/ \E on \in 0..1, v \in Vfo : cmd = Command("set_split_vfo", <<on, v>>)
<1>1. \/ cmd \in {Command("set_freq", <<hz>>) : hz \in Hz}
      \/ cmd \in {Command("set_mode", <<t>>) : t \in MainTokens \cup {NoToken}}
      \/ cmd \in {Command("set_split_vfo", how) : how \in (0..1) \X Vfo}
  BY Zenon DEF Commands
<1>2. CASE cmd \in {Command("set_freq", <<hz>>) : hz \in Hz}
  BY <1>2, Zenon
<1>3. CASE cmd \in {Command("set_mode", <<t>>) : t \in MainTokens \cup {NoToken}}
  BY <1>3, Zenon
<1>4. CASE cmd \in {Command("set_split_vfo", how) : how \in (0..1) \X Vfo}
  <2>1. PICK how \in (0..1) \X Vfo : cmd = Command("set_split_vfo", how)
    BY <1>4, Zenon
  <2>2. how = <<how[1], how[2]>> /\ how[1] \in 0..1 /\ how[2] \in Vfo
    OBVIOUS
  <2> QED
    BY <2>1, <2>2
<1> QED
  BY <1>1, <1>2, <1>3, <1>4

\* Those that are submitted: a mode among them is one that is known.
LEMMA SentKinds ==
  ASSUME NEW cmd \in Sent
  PROVE  \/ \E hz \in Hz : cmd = Command("set_freq", <<hz>>)
         \/ \E t \in MainTokens : cmd = Command("set_mode", <<t>>)
         \/ \E on \in 0..1, v \in Vfo : cmd = Command("set_split_vfo", <<on, v>>)
<1>1. cmd \in Commands /\ (cmd.name = "set_mode" => cmd.args[1] # NoToken)
  BY DEF Sent
<1>2. CASE \E t \in MainTokens \cup {NoToken} : cmd = Command("set_mode", <<t>>)
  <2>1. PICK t \in MainTokens \cup {NoToken} : cmd = Command("set_mode", <<t>>)
    BY <1>2
  <2>2. cmd.name = "set_mode" /\ cmd.args[1] = t
    BY <2>1 DEF Command
  <2>3. t \in MainTokens
    BY <1>1, <2>2
  <2> QED
    BY <2>1, <2>3
<1> QED
  BY <1>1, <1>2, CommandKinds

\* The names in a command.
LEMMA Named ==
  ASSUME NEW n, NEW a
  PROVE  Command(n, a).name = n /\ Command(n, a).args = a
  BY DEF Command

\* What the mutations that a session waits for are.
DueFreq(s)  == \E hz \in Hz : /\ s.cmd = Command("set_freq", <<hz>>)
                              /\ s.muts = <<Change("freqA", hz)>>
DueSplit(s) == \E on \in 0..1, v \in Vfo : /\ s.cmd = Command("set_split_vfo", <<on, v>>)
                                           /\ s.muts = <<Change("split", <<on = 1, v>>)>>
DueMode(s)  == \E t \in MainTokens : /\ s.cmd = Command("set_mode", <<t>>)
                                     /\ s.muts = <<Change("modeA", t.base), Change("dataA", t.pkt)>>
DueData(s)  == \E t \in MainTokens : /\ s.cmd = Command("set_mode", <<t>>)
                                     /\ s.muts = <<Change("dataA", t.pkt)>>

\* What a session waits for is one of these (apply_modeled).
LEMMA Due ==
  ASSUME NEW s, SessionTyped(s), s.st # "idle", s.muts # <<>>
  PROVE  DueFreq(s) \/ DueSplit(s) \/ DueMode(s) \/ DueData(s)
<1>1. s.cmd \in Sent /\ s.muts \in Left(s.cmd)
  BY DEF SessionTyped
<1>2. PICK cmd, muts : cmd \in Sent /\ cmd = s.cmd /\ muts = s.muts /\ muts \in Left(cmd)
  BY <1>1
<1>3. muts = Muts(cmd) \/ (cmd.name = "set_mode" /\ muts = <<Change("dataA", cmd.args[1].pkt)>>)
  BY <1>2 DEF Left
<1>4. CASE \E hz \in Hz : cmd = Command("set_freq", <<hz>>)
  <2>1. PICK hz \in Hz : cmd = Command("set_freq", <<hz>>)
    BY <1>4
  <2>2. cmd.name = "set_freq" /\ cmd.args = <<hz>>
    BY <2>1, Named
  <2>3. muts = <<Change("freqA", hz)>>
    BY <1>3, <2>2 DEF Muts
  <2> QED
    BY <1>2, <2>1, <2>3 DEF DueFreq
<1>5. CASE \E t \in MainTokens : cmd = Command("set_mode", <<t>>)
  <2>1. PICK t \in MainTokens : cmd = Command("set_mode", <<t>>)
    BY <1>5
  <2>2. cmd.name = "set_mode" /\ cmd.args[1] = t
    BY <2>1, Named
  <2>3. \/ muts = <<Change("modeA", t.base), Change("dataA", t.pkt)>>
        \/ muts = <<Change("dataA", t.pkt)>>
    BY <1>3, <2>2 DEF Muts
  <2> QED
    BY <1>2, <2>1, <2>3 DEF DueMode, DueData
<1>6. CASE \E on \in 0..1, v \in Vfo : cmd = Command("set_split_vfo", <<on, v>>)
  <2>1. PICK on \in 0..1, v \in Vfo : cmd = Command("set_split_vfo", <<on, v>>)
    BY <1>6
  <2>2. cmd.name = "set_split_vfo" /\ cmd.args[1] = on /\ cmd.args[2] = v
    BY <2>1, Named
  <2>3. muts = <<Change("split", <<on = 1, v>>)>>
    BY <1>3, <2>2 DEF Muts
  <2> QED
    BY <1>2, <2>1, <2>3 DEF DueSplit
<1>7. \/ \E hz \in Hz : cmd = Command("set_freq", <<hz>>)
      \/ \E t \in MainTokens : cmd = Command("set_mode", <<t>>)
      \/ \E on \in 0..1, v \in Vfo : cmd = Command("set_split_vfo", <<on, v>>)
  BY <1>2, SentKinds
<1> QED
  BY <1>4, <1>5, <1>6, <1>7

\* A client's change is recorded; a frequency that is new puts the mode in doubt.
LEMMA Wrote ==
  ASSUME SnapTyped, NEW f, NEW v, Fits(f, v), RecordAll(<<Change(f, v)>>, "write")
  PROVE  /\ SnapTyped' /\ Written(snap, f, v, snap')
         /\ f # "modeA" /\ "modeA" \notin unsure' => "modeA" \notin unsure
         /\ f # "dataA" /\ "dataA" \notin unsure' => "dataA" \notin unsure
         /\ f = "freqA" /\ snap["freqA"] # v => "modeA" \in unsure' /\ "dataA" \in unsure'
<1>1. /\ snap' = With(snap, f, v)
      /\ unsure' = UncertainAfter(unsure, Change(f, v), "write", Changes(snap, Change(f, v)))
  BY RecordOne DEF With
<1>2. Change(f, v).field = f /\ (Changes(snap, Change(f, v)) <=> snap[f] # v)
  BY DEF Change, Changes
<1>3. /\ f # "modeA" /\ "modeA" \notin unsure' => "modeA" \notin unsure
      /\ f # "dataA" /\ "dataA" \notin unsure' => "dataA" \notin unsure
      /\ f = "freqA" /\ snap["freqA"] # v => "modeA" \in unsure' /\ "dataA" \in unsure'
  BY <1>1, <1>2 DEF UncertainAfter
<1>4. Sane(With(snap, f, v))
  BY StaysSane, Zenon DEF SnapTyped
<1>5. f \in Fields /\ f \notin {"knownA", "knownB"} /\ Whole(snap)
  BY DEF Fits, SnapTyped, Sane
<1>6. Written(snap, f, v, With(snap, f, v))
  BY <1>5, Applied, Zenon
<1> QED
  BY <1>1, <1>3, <1>4, <1>6 DEF SnapTyped

\* The line for a change, and what the radio makes of it (apply).
LEMMA LineIs ==
  ASSUME NEW f, NEW v
  PROVE  /\ f = "freqA" => Line(snap, Change(f, v)) = <<"F", v>>
         /\ f = "modeA" => Line(snap, Change(f, v)) = <<"M", Token(v, FALSE)>>
         /\ f = "dataA" => Line(snap, Change(f, v)) = <<"M", Token(snap["modeA"], v)>>
         /\ f = "split" => Line(snap, Change(f, v)) = <<"S", v>>
<1>1. PICK mut : mut = Change(f, v)
  OBVIOUS
<1>2. mut.field = f /\ mut.new = v
  BY <1>1 DEF Change
<1>3. f = "freqA" => Line(snap, mut) = <<"F", v>>
  BY <1>2 DEF Line, ModeFields, DataFields
<1>4. f = "modeA" => Line(snap, mut) = <<"M", Token(v, FALSE)>>
  BY <1>2 DEF Line, ModeFields, DataFields
<1>5. f = "dataA" => Line(snap, mut) = <<"M", Token(snap["modeA"], v)>>
  BY <1>2 DEF Line, ModeFields, DataFields
<1>6. f = "split" => Line(snap, mut) = <<"S", v>>
  BY <1>2 DEF Line, ModeFields, DataFields
<1> QED
  BY <1>1, <1>3, <1>4, <1>5, <1>6

\* The radio tunes to the frequency of the line, and has another mode at most.
LEMMA ObeysFreq ==
  ASSUME RadioTyped, NEW hz \in Hz, NEW r \in Obeys(radio, Line(snap, Change("freqA", hz)))
  PROVE  /\ r \in Radios /\ r["freqA"] = hz /\ r["split"] = radio["split"]
         /\ radio["freqA"] = hz => r["tokenA"] = radio["tokenA"]
<1>1. Line(snap, Change("freqA", hz)) = <<"F", hz>>
  BY LineIs
<1>2. r \in TunedTo(radio, "A", hz)
  <2>1. Obeys(radio, <<"F", hz>>) = TunedTo(radio, "A", hz)
    BY DEF Obeys
  <2> QED
    BY <1>1, <2>1, Zenon
<1>3. r \in Radios
  <2>1. radio \in Radios /\ "A" \in Vfo
    BY DEF RadioTyped, Vfo
  <2> QED
    BY <1>2, <2>1, Tuned, Zenon
<1>4. PICK t : /\ r = [radio EXCEPT !["freqA"] = hz, !["tokenA"] = t]
               /\ radio["freqA"] = hz => t = radio["tokenA"]
  BY <1>2 DEF TunedTo, FreqOf, TokenField
<1>5. radio \in Radios
  BY DEF RadioTyped
<1> QED
  BY <1>3, <1>4, <1>5 DEF Radios

\* It works split as the line has it.
LEMMA ObeysSplit ==
  ASSUME RadioTyped, NEW on \in 0..1, NEW v \in Vfo,
         NEW r \in Obeys(radio, Line(snap, Change("split", <<on = 1, v>>)))
  PROVE  /\ r \in Radios /\ r["freqA"] = radio["freqA"] /\ r["tokenA"] = radio["tokenA"]
         /\ r["split"] = IF on = 1 THEN <<TRUE, v>> ELSE <<FALSE, "A">>
<1>1. PICK b \in BOOLEAN : b = (on = 1)
  OBVIOUS
<1>2. Line(snap, Change("split", <<b, v>>)) = <<"S", <<b, v>>>>
  BY LineIs
<1>3. PICK p : p = IF b THEN <<b, v>> ELSE <<FALSE, "A">>
  OBVIOUS
<1>4. p \in Splits /\ p = IF on = 1 THEN <<TRUE, v>> ELSE <<FALSE, "A">>
  BY <1>1, <1>3 DEF Splits, Vfo
<1>5. r = [radio EXCEPT !.split = p]
  <2>1. PICK n : n = <<b, v>>
    OBVIOUS
  <2>2. Obeys(radio, <<"S", n>>) = {[radio EXCEPT !.split = IF n[1] THEN n ELSE <<FALSE, "A">>]}
    BY DEF Obeys
  <2>3. (IF n[1] THEN n ELSE <<FALSE, "A">>) = p
    BY <1>3, <2>1
  <2>4. r \in Obeys(radio, <<"S", n>>)
    BY <1>1, <1>2, <2>1, Zenon
  <2> QED
    BY <2>2, <2>3, <2>4
<1>6. radio \in Radios
  BY DEF RadioTyped
<1> QED
  BY <1>1, <1>4, <1>5, <1>6 DEF Radios

\* It takes the mode of the line.
LEMMA ObeysToken ==
  ASSUME RadioTyped, NEW t \in MainTokens, NEW r \in Obeys(radio, <<"M", t>>)
  PROVE  /\ r \in Radios /\ r["tokenA"] = t /\ r["freqA"] = radio["freqA"]
         /\ r["split"] = radio["split"]
<1>1. r = [radio EXCEPT !.tokenA = t]
  BY DEF Obeys
<1>2. radio \in Radios
  BY DEF RadioTyped
<1> QED
  BY <1>1, <1>2 DEF Radios

\* That of a base mode is the mode without the data flag (set_mode).
LEMMA ObeysMode ==
  ASSUME RadioTyped, NEW t \in MainTokens,
         NEW r \in Obeys(radio, Line(snap, Change("modeA", t.base)))
  PROVE  /\ r \in Radios /\ r["tokenA"].base = t.base /\ ~r["tokenA"].pkt
         /\ r["freqA"] = radio["freqA"] /\ r["split"] = radio["split"]
<1>1. Line(snap, Change("modeA", t.base)) = <<"M", Token(t.base, FALSE)>>
  BY LineIs
<1>2. PICK u \in MainTokens : u = Token(t.base, FALSE)
  BY MainToken DEF BothForms
<1>3. u.base = t.base /\ ~u.pkt
  BY <1>2, MainToken
<1>4. r \in Obeys(radio, <<"M", u>>)
  BY <1>1, <1>2, Zenon
<1> QED
  BY <1>3, <1>4, ObeysToken

\* That of the data flag is composed on the mode in the cache (apply).
LEMMA ObeysData ==
  ASSUME RadioTyped, SnapTyped, NEW d \in BOOLEAN,
         NEW r \in Obeys(radio, Line(snap, Change("dataA", d)))
  PROVE  /\ r \in Radios /\ r["tokenA"] = Token(snap["modeA"], d)
         /\ r["freqA"] = radio["freqA"] /\ r["split"] = radio["split"]
<1>1. Line(snap, Change("dataA", d)) = <<"M", Token(snap["modeA"], d)>>
  BY LineIs
<1>2. PICK t \in MainTokens : t = Token(snap["modeA"], d)
  BY DEF SnapTyped, Sane, BothForms
<1>3. r \in Obeys(radio, <<"M", t>>)
  BY <1>1, <1>2, Zenon
<1> QED
  BY <1>2, <1>3, ObeysToken

\* A command has its mutations.
LEMMA MutsOf ==
  /\ \A hz : Muts(Command("set_freq", <<hz>>)) = <<Change("freqA", hz)>>
  /\ \A t : Muts(Command("set_mode", <<t>>)) = <<Change("modeA", t.base), Change("dataA", t.pkt)>>
  /\ \A on, v : Muts(Command("set_split_vfo", <<on, v>>)) = <<Change("split", <<on = 1, v>>)>>
<1>1. ASSUME NEW hz, NEW cmd, cmd = Command("set_freq", <<hz>>)
      PROVE  Muts(cmd) = <<Change("freqA", hz)>>
  <2>1. cmd.name = "set_freq" /\ cmd.args[1] = hz
    BY <1>1, Named
  <2> QED
    BY <2>1 DEF Muts
<1>2. ASSUME NEW t, NEW cmd, cmd = Command("set_mode", <<t>>)
      PROVE  Muts(cmd) = <<Change("modeA", t.base), Change("dataA", t.pkt)>>
  <2>1. cmd.name = "set_mode" /\ cmd.args[1] = t
    BY <1>2, Named
  <2> QED
    BY <2>1 DEF Muts
<1>3. ASSUME NEW on, NEW v, NEW cmd, cmd = Command("set_split_vfo", <<on, v>>)
      PROVE  Muts(cmd) = <<Change("split", <<on = 1, v>>)>>
  <2>1. cmd.name = "set_split_vfo" /\ cmd.args[1] = on /\ cmd.args[2] = v
    BY <1>3, Named
  <2> QED
    BY <2>1 DEF Muts
<1>4. \A hz : Muts(Command("set_freq", <<hz>>)) = <<Change("freqA", hz)>>
  BY <1>1
<1>5. \A t : Muts(Command("set_mode", <<t>>)) = <<Change("modeA", t.base), Change("dataA", t.pkt)>>
  BY <1>2
<1>6. \A on, v : Muts(Command("set_split_vfo", <<on, v>>)) = <<Change("split", <<on = 1, v>>)>>
  BY <1>3
<1> QED
  BY <1>4, <1>5, <1>6

\* Sequences of one and of two.
LEMMA Short ==
  /\ \A x : Head(<<x>>) = x /\ Tail(<<x>>) = <<>> /\ <<x>> # <<>>
  /\ \A x, y : /\ Head(<<x, y>>) = x /\ Tail(<<x, y>>) = <<y>>
               /\ <<y>> # <<x, y>> /\ <<x, y>> # <<>>
<1> SUFFICES ASSUME NEW x, NEW y
             PROVE  /\ Head(<<x>>) = x /\ Tail(<<x>>) = <<>> /\ <<x>> # <<>>
                    /\ Head(<<x, y>>) = x /\ Tail(<<x, y>>) = <<y>>
                    /\ <<y>> # <<x, y>> /\ <<x, y>> # <<>>
  OBVIOUS
<1>1. Head(<<x>>) = x /\ Head(<<x, y>>) = x
  OBVIOUS
<1>2. Tail(<<x>>) = <<>> /\ Tail(<<x, y>>) = <<y>>
  OBVIOUS
<1>3. Len(<<x>>) = 1 /\ Len(<<y>>) = 1 /\ Len(<<x, y>>) = 2 /\ Len(<<>>) = 0
  OBVIOUS
<1> QED
  BY <1>1, <1>2, <1>3

\* When the first is applied, what is left of them is less than all.
LEMMA Rest ==
  ASSUME NEW s, SessionTyped(s), s.st = "wait"
  PROVE  Tail(s.muts) \in Left(s.cmd) /\ Tail(s.muts) # Muts(s.cmd)
<1>1. DueFreq(s) \/ DueSplit(s) \/ DueMode(s) \/ DueData(s)
  BY Due DEF SessionTyped
<1>2. PICK cmd, muts : cmd = s.cmd /\ muts = s.muts
  OBVIOUS
<1>3. <<>> \in Left(cmd)
  BY DEF Left
<1>4. CASE DueFreq(s)
  <2>1. PICK hz \in Hz : cmd = Command("set_freq", <<hz>>) /\ muts = <<Change("freqA", hz)>>
    BY <1>2, <1>4 DEF DueFreq
  <2>2. PICK x : muts = <<x>>
    BY <2>1
  <2>3. Tail(muts) = <<>> /\ muts # <<>>
    BY <2>2, Short
  <2>4. Muts(cmd) # <<>>
    <3>1. Muts(cmd) = muts
      BY <2>1, MutsOf, Zenon
    <3> QED
      BY <2>3, <3>1
  <2> QED
    BY <1>2, <1>3, <2>3, <2>4
<1>5. CASE DueSplit(s)
  <2>1. PICK on \in 0..1, v \in Vfo : /\ cmd = Command("set_split_vfo", <<on, v>>)
                                      /\ muts = <<Change("split", <<on = 1, v>>)>>
    BY <1>2, <1>5 DEF DueSplit
  <2>2. PICK x : muts = <<x>>
    BY <2>1
  <2>3. Tail(muts) = <<>> /\ muts # <<>>
    BY <2>2, Short
  <2>4. Muts(cmd) # <<>>
    <3>1. Muts(cmd) = muts
      BY <2>1, MutsOf, Zenon
    <3> QED
      BY <2>3, <3>1
  <2> QED
    BY <1>2, <1>3, <2>3, <2>4
<1>6. CASE DueMode(s)
  <2>1. PICK t \in MainTokens : /\ cmd = Command("set_mode", <<t>>)
                                /\ muts = <<Change("modeA", t.base), Change("dataA", t.pkt)>>
    BY <1>2, <1>6 DEF DueMode
  <2>2. PICK x, y : y = Change("dataA", t.pkt) /\ muts = <<x, y>>
    BY <2>1
  <2>3. Tail(muts) = <<y>> /\ Tail(muts) # muts
    BY <2>2, Short
  <2>4. Muts(cmd) = muts
    BY <2>1, MutsOf
  <2>5. Tail(muts) \in Left(cmd)
    BY <2>1, <2>2, <2>3, Named DEF Left
  <2> QED
    BY <1>2, <2>3, <2>4, <2>5
<1>7. CASE DueData(s)
  <2>1. PICK t \in MainTokens : /\ cmd = Command("set_mode", <<t>>)
                                /\ muts = <<Change("dataA", t.pkt)>>
    BY <1>2, <1>7 DEF DueData
  <2>2. PICK x : muts = <<x>>
    BY <2>1
  <2>3. Tail(muts) = <<>> /\ muts # <<>>
    BY <2>2, Short
  <2>4. Muts(cmd) # <<>>
    <3>1. Muts(cmd) = <<Change("modeA", t.base), Change("dataA", t.pkt)>>
      BY <2>1, MutsOf
    <3> QED
      BY <3>1, Short
  <2> QED
    BY <1>2, <1>3, <2>3, <2>4
<1> QED
  BY <1>1, <1>4, <1>5, <1>6, <1>7

\* Whatever line it obeys, the radio is a radio.
LEMMA ObeysAny ==
  ASSUME IInv, NEW s, DueFreq(s) \/ DueSplit(s) \/ DueMode(s) \/ DueData(s),
         NEW r \in Obeys(radio, Line(snap, Head(s.muts)))
  PROVE  r \in Radios
<1>1. PICK mut : mut = Head(s.muts)
  OBVIOUS
<1>2. r \in Obeys(radio, Line(snap, mut))
  BY <1>1
<1>3. CASE DueFreq(s)
  <2>1. PICK hz \in Hz : s.muts = <<Change("freqA", hz)>>
    BY <1>3 DEF DueFreq
  <2>2. mut = Change("freqA", hz)
    BY <1>1, <2>1, Short
  <2> QED
    BY <1>2, <2>2, ObeysFreq, Parts
<1>4. CASE DueSplit(s)
  <2>1. PICK on \in 0..1, v \in Vfo : s.muts = <<Change("split", <<on = 1, v>>)>>
    BY <1>4 DEF DueSplit
  <2>2. mut = Change("split", <<on = 1, v>>)
    BY <1>1, <2>1, Short
  <2>3. r \in Obeys(radio, Line(snap, Change("split", <<on = 1, v>>)))
    BY <1>2, <2>2, Zenon
  <2> QED
    BY <2>3, ObeysSplit, Parts
<1>5. CASE DueMode(s)
  <2>1. PICK t \in MainTokens : s.muts = <<Change("modeA", t.base), Change("dataA", t.pkt)>>
    BY <1>5 DEF DueMode
  <2>2. PICK x, y : x = Change("modeA", t.base) /\ s.muts = <<x, y>>
    BY <2>1
  <2>3. mut = Change("modeA", t.base)
    BY <1>1, <2>2, Short
  <2>4. r \in Obeys(radio, Line(snap, Change("modeA", t.base)))
    BY <1>2, <2>3, Zenon
  <2> QED
    BY <2>4, ObeysMode, Parts
<1>6. CASE DueData(s)
  <2>0. PICK t \in MainTokens : s.muts = <<Change("dataA", t.pkt)>>
    BY <1>6 DEF DueData
  <2>00. PICK d \in BOOLEAN : d = t.pkt
    BY MainToken
  <2>1. PICK x : x = Change("dataA", d) /\ s.muts = <<x>>
    BY <2>0, <2>00
  <2>2. mut = Change("dataA", d)
    BY <1>1, <2>1, Short
  <2>3. r \in Obeys(radio, Line(snap, Change("dataA", d)))
    BY <1>2, <2>2, Zenon
  <2> QED
    BY <2>3, ObeysData, Parts
<1> QED
  BY <1>3, <1>4, <1>5, <1>6

\* What comes of a line that rigctld obeys: the cache is told, and the command holds as
\* far as it got.
Obeyed(s) ==
  /\ poll.at = "none" /\ poll' = poll /\ trusted' = trusted
  /\ radio' \in Obeys(radio, Line(snap, Head(s.muts)))
  /\ RecordAll(<<Head(s.muts)>>, "write")
Kept == radio' \in Radios /\ SnapTyped' /\ Trust'

\* A frequency is set: the radio and the cache have it (apply, record).
LEMMA AppliesFreq ==
  ASSUME IInv, NEW s, DueFreq(s), Obeyed(s)
  PROVE  Kept /\ Advanced(s.cmd, Tail(s.muts))'
<1>1. PICK hz \in Hz : s.cmd = Command("set_freq", <<hz>>) /\ s.muts = <<Change("freqA", hz)>>
  BY DEF DueFreq
<1>2. Head(s.muts) = Change("freqA", hz)
  BY <1>1, Short
<1>3. /\ radio' \in Radios /\ radio'["freqA"] = hz /\ radio'["split"] = radio["split"]
      /\ radio["freqA"] = hz => radio'["tokenA"] = radio["tokenA"]
  BY <1>2, ObeysFreq, Parts DEF Obeyed
<1>4. Fits("freqA", hz)
  BY DEF Fits, Fields
<1>5. /\ SnapTyped' /\ Written(snap, "freqA", hz, snap')
      /\ "modeA" \notin unsure' => "modeA" \notin unsure
      /\ "dataA" \notin unsure' => "dataA" \notin unsure
      /\ snap["freqA"] # hz => "modeA" \in unsure' /\ "dataA" \in unsure'
  BY <1>2, <1>4, Wrote, Parts DEF Obeyed
<1>6. /\ snap'["freqA"] = hz /\ snap'["split"] = snap["split"] /\ snap'["modeA"] = snap["modeA"]
      /\ snap'["dataA"] = snap["dataA"]
  BY <1>5 DEF Written, Fields
<1>7. Trust'
  <2> SUFFICES ASSUME trusted' PROVE Trust'
    BY DEF Trust
  <2>1. /\ ~poll.mixed /\ snap.freqA = radio.freqA
        /\ "modeA" \notin unsure => snap.modeA = radio.tokenA.base
        /\ "dataA" \notin unsure /\ radio.tokenA.pkt => snap.dataA = TRUE
        /\ snap.split[1] = radio.split[1] /\ (radio.split[1] => snap.split = radio.split)
    BY Parts DEF Trust, Obeyed
  <2>2. /\ "modeA" \notin unsure' => snap'.modeA = radio'.tokenA.base
        /\ "dataA" \notin unsure' /\ radio'.tokenA.pkt => snap'.dataA = TRUE
    BY <1>3, <1>5, <1>6, <2>1
  <2>3. poll' = poll
    BY DEF Obeyed
  <2> QED
    BY <1>3, <1>6, <2>1, <2>2, <2>3 DEF Trust
<1>8. s.cmd.name = "set_freq" /\ s.cmd.args[1] = hz
  BY <1>1, Named
<1>9. Advanced(s.cmd, Tail(s.muts))'
  BY <1>3, <1>8 DEF Advanced, Holds
<1> QED
  BY <1>3, <1>5, <1>7, <1>9 DEF Kept

\* Split is set: the radio and the cache have it (apply, record).
LEMMA AppliesSplit ==
  ASSUME IInv, NEW s, DueSplit(s), Obeyed(s)
  PROVE  Kept /\ Advanced(s.cmd, Tail(s.muts))'
<1>1. PICK on \in 0..1, v \in Vfo : /\ s.cmd = Command("set_split_vfo", <<on, v>>)
                                    /\ s.muts = <<Change("split", <<on = 1, v>>)>>
  BY DEF DueSplit
<1>2. Head(s.muts) = Change("split", <<on = 1, v>>)
  <2>1. PICK x : x = Change("split", <<on = 1, v>>)
    OBVIOUS
  <2> QED
    BY <1>1, <2>1, Short
<1>3. /\ radio' \in Radios /\ radio'["freqA"] = radio["freqA"] /\ radio'["tokenA"] = radio["tokenA"]
      /\ radio'["split"] = IF on = 1 THEN <<TRUE, v>> ELSE <<FALSE, "A">>
  <2>1. radio' \in Obeys(radio, Line(snap, Change("split", <<on = 1, v>>)))
    BY <1>2, Zenon DEF Obeyed
  <2> QED
    BY <2>1, ObeysSplit, Parts
<1>4. PICK b \in BOOLEAN : b = (on = 1)
  OBVIOUS
<1>5. Fits("split", <<b, v>>)
  BY DEF Fits, Fields
<1>6. RecordAll(<<Change("split", <<b, v>>)>>, "write")
  BY <1>2, <1>4 DEF Obeyed
<1>7. /\ SnapTyped' /\ Written(snap, "split", <<b, v>>, snap')
      /\ "modeA" \notin unsure' => "modeA" \notin unsure
      /\ "dataA" \notin unsure' => "dataA" \notin unsure
  BY <1>5, <1>6, Wrote, Parts
<1>8. /\ snap'["split"] = <<b, v>> /\ snap'["freqA"] = snap["freqA"] /\ snap'["modeA"] = snap["modeA"]
      /\ snap'["dataA"] = snap["dataA"]
  BY <1>7 DEF Written, Fields
<1>9. Trust'
  <2> SUFFICES ASSUME trusted' PROVE Trust'
    BY DEF Trust
  <2>1. /\ ~poll.mixed /\ snap.freqA = radio.freqA
        /\ "modeA" \notin unsure => snap.modeA = radio.tokenA.base
        /\ "dataA" \notin unsure /\ radio.tokenA.pkt => snap.dataA = TRUE
    BY Parts DEF Trust, Obeyed
  <2>2. snap'.split[1] = radio'.split[1] /\ (radio'.split[1] => snap'.split = radio'.split)
    <3>1. CASE on = 1
      <4>1. snap'["split"] = <<TRUE, v>> /\ radio'["split"] = <<TRUE, v>>
        BY <1>3, <1>4, <1>8, <3>1
      <4> QED
        BY <4>1
    <3>2. CASE on # 1
      <4>1. snap'["split"] = <<FALSE, v>> /\ radio'["split"] = <<FALSE, "A">>
        BY <1>3, <1>4, <1>8, <3>2
      <4>2. PICK p, q : p = snap'["split"] /\ q = radio'["split"]
        OBVIOUS
      <4>3. p[1] = FALSE /\ q[1] = FALSE
        BY <4>1, <4>2
      <4> QED
        BY <4>2, <4>3
    <3> QED
      BY <3>1, <3>2
  <2>3. poll' = poll
    BY DEF Obeyed
  <2> QED
    BY <1>3, <1>7, <1>8, <2>1, <2>2, <2>3 DEF Trust
<1>10. s.cmd.name = "set_split_vfo" /\ s.cmd.args[1] = on /\ s.cmd.args[2] = v
  BY <1>1, Named
<1>11. Advanced(s.cmd, Tail(s.muts))'
  BY <1>3, <1>10 DEF Advanced, Holds
<1> QED
  BY <1>3, <1>7, <1>9, <1>11 DEF Kept

\* The base mode is set: the radio and the cache have it (apply, record).
LEMMA AppliesMode ==
  ASSUME IInv, NEW s, DueMode(s), Obeyed(s)
  PROVE  Kept /\ Advanced(s.cmd, Tail(s.muts))'
<1>1. PICK t \in MainTokens : /\ s.cmd = Command("set_mode", <<t>>)
                              /\ s.muts = <<Change("modeA", t.base), Change("dataA", t.pkt)>>
  BY DEF DueMode
<1>2. Head(s.muts) = Change("modeA", t.base) /\ Tail(s.muts) # <<>>
  <2>1. PICK x, y : x = Change("modeA", t.base) /\ y = Change("dataA", t.pkt)
    OBVIOUS
  <2> QED
    BY <1>1, <2>1, Short
<1>3. /\ radio' \in Radios /\ radio'["tokenA"].base = t.base /\ ~radio'["tokenA"].pkt
      /\ radio'["freqA"] = radio["freqA"] /\ radio'["split"] = radio["split"]
  <2>1. radio' \in Obeys(radio, Line(snap, Change("modeA", t.base)))
    BY <1>2, Zenon DEF Obeyed
  <2> QED
    BY <2>1, ObeysMode, Parts
<1>4. PICK v : v = t.base
  OBVIOUS
<1>5. Fits("modeA", v)
  <2>1. t.base \in Modes /\ BothForms(t.base)
    BY MainToken
  <2> QED
    BY <1>4, <2>1 DEF Fits, Fields
<1>6. RecordAll(<<Change("modeA", v)>>, "write")
  BY <1>2, <1>4 DEF Obeyed
<1>7. SnapTyped' /\ Written(snap, "modeA", v, snap')
  BY <1>5, <1>6, Wrote, Parts
<1>8. /\ snap'["modeA"] = v /\ snap'["freqA"] = snap["freqA"] /\ snap'["split"] = snap["split"]
  BY <1>7 DEF Written, Fields
<1>9. Trust'
  <2> SUFFICES ASSUME trusted' PROVE Trust'
    BY DEF Trust
  <2>1. /\ ~poll.mixed /\ snap.freqA = radio.freqA
        /\ snap.split[1] = radio.split[1] /\ (radio.split[1] => snap.split = radio.split)
    BY Parts DEF Trust, Obeyed
  <2>2. poll' = poll
    BY DEF Obeyed
  <2> QED
    BY <1>3, <1>4, <1>8, <2>1, <2>2 DEF Trust
<1>10. s.cmd.name = "set_mode" /\ s.cmd.args[1] = t
  BY <1>1, Named
<1>11. poll'.at = "none"
  BY DEF Obeyed
<1>12. Advanced(s.cmd, Tail(s.muts))'
  BY <1>2, <1>3, <1>4, <1>8, <1>10, <1>11 DEF Advanced
<1> QED
  BY <1>3, <1>7, <1>9, <1>12 DEF Kept

\* The data flag is composed on the mode that the cache has: the radio's, for a command
\* that nothing came between.
LEMMA AppliesData ==
  ASSUME IInv, NEW s, DueData(s), Obeyed(s), Progress(s), s.st = "wait"
  PROVE  Kept /\ (s.clean => Advanced(s.cmd, Tail(s.muts))')
<1>1. PICK t \in MainTokens : /\ s.cmd = Command("set_mode", <<t>>)
                              /\ s.muts = <<Change("dataA", t.pkt)>>
  BY DEF DueData
<1>0. PICK d \in BOOLEAN : d = t.pkt
  BY MainToken
<1>2. Head(s.muts) = Change("dataA", d)
  <2>1. PICK x : x = Change("dataA", d)
    OBVIOUS
  <2> QED
    BY <1>0, <1>1, <2>1, Short
<1>3. /\ radio' \in Radios /\ radio'["tokenA"] = Token(snap["modeA"], d)
      /\ radio'["freqA"] = radio["freqA"] /\ radio'["split"] = radio["split"]
  <2>1. radio' \in Obeys(radio, Line(snap, Change("dataA", d)))
    BY <1>2, Zenon DEF Obeyed
  <2> QED
    BY <2>1, ObeysData, Parts
<1>4. Fits("dataA", d)
  BY DEF Fits, Fields
<1>5. RecordAll(<<Change("dataA", d)>>, "write")
  BY <1>2 DEF Obeyed
<1>6. /\ SnapTyped' /\ Written(snap, "dataA", d, snap')
      /\ "modeA" \notin unsure' => "modeA" \notin unsure
  <2>1. PICK f : f = "dataA"
    OBVIOUS
  <2>2. SnapTyped /\ Fits(f, d) /\ RecordAll(<<Change(f, d)>>, "write")
    BY <1>4, <1>5, <2>1, Parts
  <2>3. /\ SnapTyped' /\ Written(snap, f, d, snap')
        /\ f # "modeA" /\ "modeA" \notin unsure' => "modeA" \notin unsure
    BY <2>2, Wrote, Zenon
  <2> QED
    BY <2>1, <2>3
<1>7. /\ snap'["modeA"] = snap["modeA"] /\ snap'["freqA"] = snap["freqA"]
      /\ snap'["split"] = snap["split"] /\ snap'["dataA"] = d
  BY <1>6 DEF Written, Fields
<1>8. PICK u \in MainTokens : u = radio.tokenA
  BY RadioHas, Parts
<1>9. /\ radio'.tokenA.pkt => d = TRUE
      /\ snap.modeA = u.base => radio'.tokenA.base = u.base
  <2>1. PICK m : m = snap["modeA"]
    OBVIOUS
  <2>2. Token(m, d).pkt => d
    BY DEF Token
  <2>3. Token(u.base, d).base = u.base
    BY MainToken
  <2> QED
    BY <1>3, <2>1, <2>2, <2>3
<1>10. Trust'
  <2> SUFFICES ASSUME trusted' PROVE Trust'
    BY DEF Trust
  <2>1. /\ ~poll.mixed /\ snap.freqA = radio.freqA
        /\ "modeA" \notin unsure => snap.modeA = radio.tokenA.base
        /\ snap.split[1] = radio.split[1] /\ (radio.split[1] => snap.split = radio.split)
    BY Parts DEF Trust, Obeyed
  <2>2. /\ "modeA" \notin unsure' => snap'.modeA = radio'.tokenA.base
        /\ radio'.tokenA.pkt => snap'.dataA = TRUE
    BY <1>6, <1>7, <1>8, <1>9, <2>1
  <2>3. poll' = poll
    BY DEF Obeyed
  <2> QED
    BY <1>3, <1>7, <2>1, <2>2, <2>3 DEF Trust
<1>11. s.cmd.name = "set_mode" /\ s.cmd.args[1] = t
  BY <1>1, Named
<1>12. ASSUME s.clean
       PROVE  Advanced(s.cmd, Tail(s.muts))'
  <2>1. Muts(s.cmd) # s.muts
    <3>1. Muts(s.cmd) = <<Change("modeA", t.base), Change("dataA", t.pkt)>>
      BY <1>0, <1>1, MutsOf
    <3>2. PICK x, y : y = Change("dataA", d) /\ Muts(s.cmd) = <<x, y>>
      BY <1>0, <3>1
    <3>3. s.muts = <<y>>
      BY <1>0, <1>1, <3>2
    <3> QED
      BY <3>2, <3>3, Short
  <2>2. snap["modeA"] = t.base
    BY <1>11, <1>12, <2>1 DEF Progress, Advanced
  <2>3. radio'["tokenA"] = t
    BY <1>0, <1>3, <2>2, MainToken
  <2>4. poll'.at = "none"
    BY DEF Obeyed
  <2> QED
    BY <1>7, <1>11, <2>2, <2>3, <2>4 DEF Advanced
<1> QED
  BY <1>3, <1>6, <1>10, <1>12 DEF Kept

\* A session that goes on to what is left of its command.
LEMMA GoesOn ==
  ASSUME NEW s, SessionTyped(s), s.st = "wait", NEW t, t = [s EXCEPT !.st = "resume", !.muts = Tail(@)]
  PROVE  /\ SessionTyped(t) /\ t.st = "resume" /\ t.cmd = s.cmd /\ t.clean = s.clean
         /\ t.muts = Tail(s.muts)
<1>1. PICK m : m = Tail(s.muts)
  OBVIOUS
<1>2. /\ s = [st |-> s.st, cmd |-> s.cmd, muts |-> s.muts, clean |-> s.clean]
      /\ s.cmd \in Sent /\ s.clean \in BOOLEAN
  BY DEF SessionTyped
<1>3. t = [st |-> "resume", cmd |-> s.cmd, muts |-> m, clean |-> s.clean]
  <2>1. PICK u : u = [s EXCEPT !.st = "resume"]
    OBVIOUS
  <2>2. u = [st |-> "resume", cmd |-> s.cmd, muts |-> s.muts, clean |-> s.clean]
    BY <1>2, <2>1
  <2>3. t = [u EXCEPT !.muts = m]
    BY <1>1, <2>1
  <2> QED
    BY <2>2, <2>3
<1>4. /\ t.st = "resume" /\ t.cmd = s.cmd /\ t.muts = m /\ t.clean = s.clean
      /\ t = [st |-> t.st, cmd |-> t.cmd, muts |-> t.muts, clean |-> t.clean]
  <2>1. PICK u, a, k : u = t /\ a = s.cmd /\ k = s.clean
    OBVIOUS
  <2>2. u = [st |-> "resume", cmd |-> a, muts |-> m, clean |-> k]
    BY <1>3, <2>1
  <2>3. u.st = "resume" /\ u.cmd = a /\ u.muts = m /\ u.clean = k
    BY <2>2
  <2>4. u = [st |-> u.st, cmd |-> u.cmd, muts |-> u.muts, clean |-> u.clean]
    BY <2>2, <2>3, Zenon
  <2> QED
    BY <2>1, <2>3, <2>4, Zenon
<1>5. m \in Left(s.cmd) /\ m # Muts(s.cmd)
  BY <1>1, Rest
<1> QED
  BY <1>1, <1>2, <1>4, <1>5 DEF SessionTyped

\* The other sessions are not clean any more, and one is what it is.
LEMMA OneOfThem ==
  ASSUME SessionsTyped, NEW c \in Clients, NEW t, SessionTyped(t), Progress(t)',
         sess' = [d \in Clients |-> IF d = c THEN t ELSE [sess[d] EXCEPT !.clean = FALSE]]
  PROVE  SessionsTyped' /\ Progresses'
<1>1. ASSUME NEW d \in Clients
      PROVE  SessionTyped(sess'[d]) /\ Progress(sess[d])'
  <2>1. CASE d = c
    <3>1. t = sess'[d]
      BY <2>1
    <3> QED
      BY <3>1, SessionProgress
  <2>2. CASE d # c
    <3>1. PICK s : s = sess[d]
      OBVIOUS
    <3>2. PICK u : u = [s EXCEPT !.clean = FALSE]
      OBVIOUS
    <3>3. SessionTyped(s)
      BY <3>1 DEF SessionsTyped
    <3>4. SessionTyped(u) /\ u.clean = FALSE
      BY <3>2, <3>3, Muddied
    <3>5. u = sess'[d]
      BY <2>2, <3>1, <3>2
    <3>6. Progress(u)'
      BY <3>4 DEF Progress
    <3> QED
      BY <3>4, <3>5, <3>6, SessionProgress
  <2> QED
    BY <2>1, <2>2
<1>2. sess' = [d \in Clients |-> sess'[d]]
  OBVIOUS
<1> QED
  BY <1>1, <1>2 DEF SessionsTyped, Progresses

\* A session at rest has nothing to show.
LEMMA AtRest == SessionTyped(Resting) /\ Progress(Resting) /\ Progress(Resting)'
<1>1. /\ Resting = [st |-> "idle", cmd |-> Nothing, muts |-> <<>>, clean |-> TRUE]
      /\ Resting.st = "idle" /\ Resting.cmd = Nothing /\ Resting.muts = <<>> /\ Resting.clean = TRUE
  BY DEF Resting
<1>2. PICK r : r = Resting
  OBVIOUS
<1>3. SessionTyped(r)
  BY <1>1, <1>2 DEF SessionTyped
<1>4. Progress(r) /\ Progress(r)'
  BY <1>1, <1>2 DEF Progress
<1> QED
  BY <1>1, <1>2, <1>3, <1>4 DEF Progress

\* A mutation is applied, or is lost: the command holds as far as it got, or its session
\* is at rest and the cache is not relied on if the radio obeyed.
LEMMA ApplyMutationStep ==
  ASSUME IInv, NEW c \in Clients, ApplyMutation(c)
  PROVE  IInv'
<1>1. PICK s : s = sess[c]
  OBVIOUS
<1>2. /\ SessionTyped(s) /\ Progress(s) /\ s.st = "wait" /\ poll.at = "none"
  BY <1>1, Parts DEF SessionsTyped, Progresses, ApplyMutation
<1>3. DueFreq(s) \/ DueSplit(s) \/ DueMode(s) \/ DueData(s)
  BY <1>2, Due DEF SessionTyped
<1>4. promise' = Nothing /\ fresh' = FALSE /\ poll' = poll
  BY DEF ApplyMutation
<1>5. /\ PollTyped' /\ Heeded' /\ Freshness' /\ Promised'
  BY <1>2, <1>4, Parts DEF PollTyped, Heeded, Freshness, Promised
<1>6. CASE /\ radio' \in Obeys(radio, Line(snap, Head(s.muts)))
           /\ RecordAll(<<Head(s.muts)>>, "write") /\ trusted' = trusted
           /\ sess' = [d \in Clients |-> IF d = c THEN [s EXCEPT !.st = "resume", !.muts = Tail(@)]
                                         ELSE [sess[d] EXCEPT !.clean = FALSE]]
  <2>1. Obeyed(s)
    BY <1>2, <1>4, <1>6 DEF Obeyed
  <2>2. Kept /\ (s.clean => Advanced(s.cmd, Tail(s.muts))')
    <3>1. CASE DueFreq(s)
      BY <2>1, <3>1, AppliesFreq
    <3>2. CASE DueSplit(s)
      BY <2>1, <3>2, AppliesSplit
    <3>3. CASE DueMode(s)
      BY <2>1, <3>3, AppliesMode
    <3>4. CASE DueData(s)
      BY <1>2, <2>1, <3>4, AppliesData
    <3> QED
      BY <1>3, <3>1, <3>2, <3>3, <3>4
  <2>3. PICK t : t = [s EXCEPT !.st = "resume", !.muts = Tail(@)]
    OBVIOUS
  <2>4. /\ SessionTyped(t) /\ t.st = "resume" /\ t.cmd = s.cmd /\ t.clean = s.clean
        /\ t.muts = Tail(s.muts)
    BY <1>2, <2>3, GoesOn
  <2>5. Progress(t)'
    <3>1. t.clean => Advanced(t.cmd, t.muts)'
      BY <2>2, <2>4
    <3> QED
      BY <3>1 DEF Progress
  <2>6. SessionsTyped' /\ Progresses'
    BY <1>6, <2>3, <2>4, <2>5, Parts, OneOfThem
  <2>7. PromiseTyped'
    BY <1>4, <1>6, Parts DEF PromiseTyped
  <2> QED
    BY <1>5, <2>2, <2>6, <2>7 DEF IInv, Typed, Kept, RadioTyped
<1>7. CASE /\ radio' \in {radio} \cup Obeys(radio, Line(snap, Head(s.muts)))
           /\ sess' = [d \in Clients |-> IF d = c THEN Resting ELSE [sess[d] EXCEPT !.clean = FALSE]]
           /\ trusted' = (trusted /\ radio' = radio) /\ snap' = snap /\ unsure' = unsure
  <2>1. SessionsTyped' /\ Progresses'
    BY <1>7, Parts, AtRest, OneOfThem
  <2>2. SnapTyped' /\ PromiseTyped'
    BY <1>4, <1>7, Parts DEF SnapTyped, PromiseTyped
  <2>3. Trust'
    BY <1>4, <1>7, Parts DEF Trust
  <2>4. RadioTyped'
    <3>1. CASE radio' = radio
      BY <3>1, Parts DEF RadioTyped
    <3>2. CASE radio' \in Obeys(radio, Line(snap, Head(s.muts)))
      BY <1>2, <1>3, <3>2, ObeysAny DEF RadioTyped
    <3> QED
      BY <1>7, <3>1, <3>2
  <2> QED
    BY <1>5, <2>1, <2>2, <2>3, <2>4 DEF IInv, Typed
<1> QED
  BY <1>1, <1>6, <1>7 DEF ApplyMutation, cacheVars

------------------------------------------------------------------------------
(* The commands *)

Redundant(mut) == IsRedundant(snap, unsure, mut)

\* What a session may be told that a command holds upon.
Sure(muts, clean) ==
  /\ clean /\ ~\E i \in DOMAIN muts : DataAssumed(muts[i])
  /\ trusted \/ ~\E i \in DOMAIN muts : Redundant(muts[i])
Waits(cmd, muts, clean) == [st |-> "wait", cmd |-> cmd, clean |-> clean, muts |-> muts]

\* What comes of a command's mutations, of which there are at most two (apply_modeled):
\* all are redundant, the session waits for the first that is not, or it is denied.
LEMMA Proceeds ==
  ASSUME NEW c, NEW cmd, NEW muts, NEW class, NEW clean, NEW n \in 0..2, DOMAIN muts = 1..n,
         Proceed(c, cmd, muts, class, clean)
  PROVE  \/ /\ \A i \in 1..n : Redundant(muts[i])
            /\ sess' = [sess EXCEPT ![c] = Resting]
            /\ promise' = IF Sure(muts, clean) THEN cmd ELSE promise
         \/ sess' = [sess EXCEPT ![c] = Resting] /\ promise' = promise
         \/ \E k \in 1..n :
              /\ \A j \in 1..k - 1 : Redundant(muts[j])
              /\ sess' = [sess EXCEPT ![c] = Waits(cmd, SubSeq(muts, k, Len(muts)), Sure(muts, clean))]
              /\ promise' = promise
<1> DEFINE allowed(i) == AllowsMutation(Grant, class, muts[i])
           good(i) == allowed(i) /\ Redundant(muts[i])
           first(i) == ~good(i) /\ \A j \in 1..i - 1 : good(j)
           next == CHOOSE i \in DOMAIN muts : first(i)
           waiting == Waits(cmd, SubSeq(muts, next, Len(muts)), Sure(muts, clean))
<1>1. CASE \A i \in DOMAIN muts : good(i)
  <2>1. /\ sess' = [sess EXCEPT ![c] = Resting]
        /\ promise' = IF Sure(muts, clean) THEN cmd ELSE promise
    BY <1>1, Zenon DEF Proceed, Redundant, Sure
  <2> QED
    BY <1>1, <2>1
<1>2. CASE ~\A i \in DOMAIN muts : good(i)
  <2>1. /\ sess' = [sess EXCEPT ![c] = IF ~allowed(next) THEN Resting ELSE waiting]
        /\ promise' = promise
    BY <1>2, Zenon DEF Proceed, Redundant, Sure, Waits
  <2> HIDE DEF good
  <2>2. \E i \in DOMAIN muts : first(i)
    <3>1. PICK i \in 1..n : ~good(i)
      BY <1>2
    <3>2. CASE \E j \in 1..i - 1 : ~good(j)
      <4>1. i = 2 /\ ~good(1) /\ 1 \in 1..n
        BY <3>2
      <4>2. first(1)
        BY <4>1
      <4> QED
        BY <4>1, <4>2
    <3>3. CASE ~\E j \in 1..i - 1 : ~good(j)
      BY <3>1, <3>3
    <3> QED
      BY <3>2, <3>3
  <2>3. next \in DOMAIN muts /\ first(next)
    <3> HIDE DEF first
    <3> QED
      BY <2>2
  <2> HIDE DEF next
  <2>4. \A j \in 1..next - 1 : Redundant(muts[j])
    BY <2>3 DEF good
  <2>5. CASE ~allowed(next)
    BY <2>1, <2>5
  <2>6. CASE allowed(next)
    <3>1. sess' = [sess EXCEPT ![c] = waiting]
      BY <2>1, <2>6
    <3> QED
      BY <2>1, <2>3, <2>4, <3>1
  <2> QED
    BY <2>5, <2>6
<1> QED
  BY <1>1, <1>2

\* What a trusted cache makes redundant holds at the radio.
LEMMA RedundantIs ==
  ASSUME NEW f, NEW v, Redundant(Change(f, v)), snap["rx"] = "A"
  PROVE  /\ f \notin unsure
         /\ f \notin ModeFields => snap[f] = v
         /\ f \in ModeFields => ToDigit(snap["modeA"]) = ToDigit(v)
<1>1. PICK mut : mut = Change(f, v)
  OBVIOUS
<1>2. mut.field = f /\ mut.new = v
  BY <1>1 DEF Change
<1>3. IsRedundant(snap, unsure, mut) /\ ModeOf(snap.rx) = "modeA"
  BY <1>1 DEF Redundant, ModeOf
<1> QED
  BY <1>2, <1>3 DEF IsRedundant

\* A frequency that is redundant for certain is what the radio is tuned to.
LEMMA SureFreq ==
  ASSUME IInv, trusted, NEW hz, Redundant(Change("freqA", hz))
  PROVE  radio.freqA = hz
<1>1. snap["rx"] = "A" /\ snap.freqA = radio.freqA
  BY Parts DEF SnapTyped, Sane, Trust
<1> QED
  BY <1>1, RedundantIs DEF ModeFields

\* Split that is redundant for certain is how the radio works.
LEMMA SureSplit ==
  ASSUME IInv, trusted, NEW on \in 0..1, NEW v \in Vfo, Redundant(Change("split", <<on = 1, v>>))
  PROVE  radio.split = IF on = 1 THEN <<TRUE, v>> ELSE <<FALSE, "A">>
<1>1. /\ snap["rx"] = "A" /\ snap.split[1] = radio.split[1]
      /\ (radio.split[1] => snap.split = radio.split)
  BY Parts DEF SnapTyped, Sane, Trust
<1>2. PICK p : p = <<on = 1, v>>
  OBVIOUS
<1>3. snap["split"] = p
  BY <1>1, <1>2, RedundantIs DEF ModeFields
<1>4. CASE on = 1
  <2>1. p = <<TRUE, v>>
    BY <1>2, <1>4
  <2>2. radio.split[1]
    <3>1. p[1] = TRUE
      BY <2>1
    <3> QED
      BY <1>1, <1>3, <3>1
  <2> QED
    BY <1>1, <1>3, <1>4, <2>1, <2>2
<1>5. CASE on # 1
  <2>1. p = <<FALSE, v>>
    BY <1>2, <1>5
  <2>2. ~radio.split[1]
    <3>1. p[1] = FALSE
      BY <2>1
    <3> QED
      BY <1>1, <1>3, <3>1
  <2>3. radio["split"] = <<FALSE, "A">>
    BY <2>2, RadioHas, Parts
  <2> QED
    BY <1>5, <2>3
<1> QED
  BY <1>4, <1>5

\* A mode that is redundant for certain is the base of that of the radio.
LEMMA SureMode ==
  ASSUME IInv, trusted, NEW t \in MainTokens, Redundant(Change("modeA", t.base))
  PROVE  radio.tokenA.base = t.base /\ snap.modeA = t.base
<1>1. PICK u \in MainTokens : u = radio.tokenA
  BY RadioHas, Parts
<1>2. snap["rx"] = "A" /\ ("modeA" \notin unsure => snap.modeA = u.base)
  BY <1>1, Parts DEF SnapTyped, Sane, Trust
<1>3. "modeA" \notin unsure /\ ToDigit(snap["modeA"]) = ToDigit(t.base)
  BY <1>2, RedundantIs DEF ModeFields
<1>4. t.base \in Modes \ {"Unknown"} /\ u.base \in Modes \ {"Unknown"}
  BY MainToken
<1>5. u.base = t.base
  BY <1>2, <1>3, <1>4, Digits
<1> QED
  BY <1>1, <1>2, <1>3, <1>5

\* A data flag that is redundant for certain is off at the radio: it is not taken for on.
LEMMA SureData ==
  ASSUME IInv, trusted, NEW t \in MainTokens, radio.tokenA.base = t.base,
         Redundant(Change("dataA", t.pkt)), ~DataAssumed(Change("dataA", t.pkt))
  PROVE  radio.tokenA = t
<1>1. PICK u \in MainTokens, d \in BOOLEAN : u = radio.tokenA /\ d = t.pkt
  BY RadioHas, Parts, MainToken
<1>2. PICK mut : mut = Change("dataA", d)
  OBVIOUS
<1>3. mut.field = "dataA" /\ mut.new = d
  BY <1>2 DEF Change
<1>4. Redundant(mut) /\ ~DataAssumed(mut)
  BY <1>1, <1>2
<1>5. d = FALSE
  BY <1>3, <1>4 DEF DataAssumed, DataFields, Redundant
<1>6. "dataA" \notin unsure /\ snap["dataA"] = d
  <2>1. snap["rx"] = "A"
    BY Parts DEF SnapTyped, Sane
  <2>2. Redundant(Change("dataA", d))
    BY <1>2, <1>4
  <2> QED
    BY <2>1, <2>2, RedundantIs DEF ModeFields
<1>7. "dataA" \notin unsure /\ u.pkt => snap["dataA"] = TRUE
  BY <1>1, Parts DEF Trust
<1>8. u.pkt = FALSE
  BY <1>5, <1>6, <1>7, MainToken
<1>9. Token(u.base, u.pkt) = u /\ Token(t.base, t.pkt) = t
  BY MainToken
<1> QED
  BY <1>1, <1>5, <1>8, <1>9

\* A session that waits is typed.
LEMMA WaitsTyped ==
  ASSUME NEW cmd \in Sent, NEW muts \in Left(cmd), muts # <<>>, NEW clean \in BOOLEAN,
         NEW s, s = Waits(cmd, muts, clean)
  PROVE  /\ SessionTyped(s)
         /\ s.st = "wait" /\ s.cmd = cmd /\ s.muts = muts /\ s.clean = clean
<1>1. s = [st |-> "wait", cmd |-> cmd, clean |-> clean, muts |-> muts]
  BY DEF Waits
<1>2. s.st = "wait" /\ s.cmd = cmd /\ s.muts = muts /\ s.clean = clean
  BY <1>1
<1>3. s = [st |-> s.st, cmd |-> s.cmd, muts |-> s.muts, clean |-> s.clean]
  BY <1>1, <1>2
<1> QED
  BY <1>2, <1>3 DEF SessionTyped

\* The mutations that a command has left, by its kind.
KindFreq(cmd, muts)  == \E hz \in Hz : /\ cmd = Command("set_freq", <<hz>>)
                                       /\ muts = <<Change("freqA", hz)>>
KindSplit(cmd, muts) == \E on \in 0..1, v \in Vfo : /\ cmd = Command("set_split_vfo", <<on, v>>)
                                                    /\ muts = <<Change("split", <<on = 1, v>>)>>
KindMode(cmd, muts)  == \E t \in MainTokens : /\ cmd = Command("set_mode", <<t>>)
                                              /\ muts = <<Change("modeA", t.base), Change("dataA", t.pkt)>>
KindData(cmd, muts)  == \E t \in MainTokens : /\ cmd = Command("set_mode", <<t>>)
                                              /\ muts = <<Change("dataA", t.pkt)>>

\* Any mutations that are left are of one of these kinds (apply_modeled).
LEMMA Kinds ==
  ASSUME NEW cmd \in Sent, NEW muts \in Left(cmd), muts # <<>>
  PROVE  KindFreq(cmd, muts) \/ KindSplit(cmd, muts) \/ KindMode(cmd, muts) \/ KindData(cmd, muts)
<1>0. PICK b \in BOOLEAN : b = TRUE
  OBVIOUS
<1>1. PICK s : s = Waits(cmd, muts, b)
  OBVIOUS
<1>2. SessionTyped(s) /\ s.st = "wait" /\ s.cmd = cmd /\ s.muts = muts
  BY <1>1, WaitsTyped
<1>3. s.st # "idle" /\ s.muts # <<>>
  BY <1>2
<1>4. DueFreq(s) \/ DueSplit(s) \/ DueMode(s) \/ DueData(s)
  BY <1>2, <1>3, Due
<1>5. DueFreq(s) => KindFreq(cmd, muts)
  BY <1>2 DEF DueFreq, KindFreq
<1>6. DueSplit(s) => KindSplit(cmd, muts)
  BY <1>2 DEF DueSplit, KindSplit
<1>7. DueMode(s) => KindMode(cmd, muts)
  BY <1>2 DEF DueMode, KindMode
<1>8. DueData(s) => KindData(cmd, muts)
  BY <1>2 DEF DueData, KindData
<1> QED
  BY <1>4, <1>5, <1>6, <1>7, <1>8

\* Data left alone are not all that a command had.
LEMMA DataLeft ==
  ASSUME NEW cmd, NEW muts, KindData(cmd, muts)
  PROVE  muts # Muts(cmd)
<1>1. PICK t \in MainTokens : /\ cmd = Command("set_mode", <<t>>)
                              /\ muts = <<Change("dataA", t.pkt)>>
  BY DEF KindData
<1>2. Muts(cmd) = <<Change("modeA", t.base), Change("dataA", t.pkt)>>
  BY <1>1, MutsOf
<1>3. PICK x, y : y = Change("dataA", t.pkt) /\ Muts(cmd) = <<x, y>>
  BY <1>2
<1>4. muts = <<y>>
  BY <1>1, <1>3
<1> QED
  BY <1>3, <1>4, Short

\* How far a command got that nothing came between.
GotOn(cmd, muts, clean) ==
  clean /\ muts # Muts(cmd) => Advanced(cmd, muts)

\* What is redundant for certain holds.
LEMMA SureHolds ==
  ASSUME IInv, NEW cmd \in Sent, NEW muts \in Left(cmd), NEW clean, GotOn(cmd, muts, clean),
         Sure(muts, clean), \A i \in DOMAIN muts : Redundant(muts[i])
  PROVE  Holds(cmd)
<1>1. /\ clean /\ (trusted \/ DOMAIN muts = {})
      /\ \A i \in DOMAIN muts : ~DataAssumed(muts[i])
  BY DEF Sure
<1>2. CASE muts = <<>>
  <2>1. muts # Muts(cmd)
    <3>1. CASE \E hz \in Hz : cmd = Command("set_freq", <<hz>>)
      <4>1. PICK x : Muts(cmd) = <<x>>
        BY <3>1, MutsOf
      <4> QED
        BY <1>2, <4>1, Short
    <3>2. CASE \E t \in MainTokens : cmd = Command("set_mode", <<t>>)
      <4>1. PICK t \in MainTokens : cmd = Command("set_mode", <<t>>)
        BY <3>2
      <4>2. Muts(cmd) = <<Change("modeA", t.base), Change("dataA", t.pkt)>>
        BY <4>1, MutsOf
      <4> QED
        BY <1>2, <4>2, Short
    <3>3. CASE \E on \in 0..1, v \in Vfo : cmd = Command("set_split_vfo", <<on, v>>)
      <4>1. PICK on, v : cmd = Command("set_split_vfo", <<on, v>>)
        BY <3>3
      <4>2. Muts(cmd) = <<Change("split", <<on = 1, v>>)>>
        BY <4>1, MutsOf
      <4> QED
        BY <1>2, <4>2, Short
    <3> QED
      BY <3>1, <3>2, <3>3, SentKinds
  <2> QED
    BY <1>1, <1>2, <2>1 DEF GotOn, Advanced, Holds
<1>3. CASE muts # <<>>
  <2>1. CASE KindFreq(cmd, muts)
    <3>1. PICK hz \in Hz : cmd = Command("set_freq", <<hz>>) /\ muts = <<Change("freqA", hz)>>
      BY <2>1 DEF KindFreq
    <3>2. 1 \in DOMAIN muts /\ muts[1] = Change("freqA", hz)
      BY <3>1
    <3>3. Redundant(Change("freqA", hz))
      BY <3>2, Zenon
    <3>4. radio.freqA = hz
      BY <1>1, <3>2, <3>3, SureFreq
    <3>5. cmd.name = "set_freq" /\ cmd.args[1] = hz
      BY <3>1, Named
    <3> QED
      BY <3>4, <3>5 DEF Holds
  <2>2. CASE KindSplit(cmd, muts)
    <3>1. PICK on \in 0..1, v \in Vfo : /\ cmd = Command("set_split_vfo", <<on, v>>)
                                        /\ muts = <<Change("split", <<on = 1, v>>)>>
      BY <2>2 DEF KindSplit
    <3>2. 1 \in DOMAIN muts /\ muts[1] = Change("split", <<on = 1, v>>)
      BY <3>1
    <3>3. Redundant(Change("split", <<on = 1, v>>))
      BY <3>2, Zenon
    <3>4. radio.split = IF on = 1 THEN <<TRUE, v>> ELSE <<FALSE, "A">>
      BY <1>1, <3>2, <3>3, SureSplit
    <3>5. cmd.name = "set_split_vfo" /\ cmd.args[1] = on /\ cmd.args[2] = v
      BY <3>1, Named
    <3> QED
      BY <3>4, <3>5 DEF Holds
  <2>3. CASE KindMode(cmd, muts)
    <3>1. PICK t \in MainTokens : /\ cmd = Command("set_mode", <<t>>)
                                  /\ muts = <<Change("modeA", t.base), Change("dataA", t.pkt)>>
      BY <2>3 DEF KindMode
    <3>2. 1 \in DOMAIN muts /\ muts[1] = Change("modeA", t.base)
      BY <3>1
    <3>3. Redundant(Change("modeA", t.base))
      BY <3>2, Zenon
    <3>4. radio.tokenA.base = t.base
      BY <1>1, <3>2, <3>3, SureMode
    <3>5. cmd.name = "set_mode" /\ cmd.args[1] = t
      BY <3>1, Named
    <3>6. 2 \in DOMAIN muts /\ muts[2] = Change("dataA", t.pkt)
      BY <3>1
    <3>7. Redundant(Change("dataA", t.pkt)) /\ ~DataAssumed(Change("dataA", t.pkt))
      BY <1>1, <3>6, Zenon
    <3>8. radio.tokenA = t
      BY <1>1, <3>2, <3>4, <3>7, SureData
    <3> QED
      BY <3>5, <3>8 DEF Holds
  <2>4. CASE KindData(cmd, muts)
    <3>1. PICK t \in MainTokens : /\ cmd = Command("set_mode", <<t>>)
                                  /\ muts = <<Change("dataA", t.pkt)>>
      BY <2>4 DEF KindData
    <3>2. cmd.name = "set_mode" /\ cmd.args[1] = t
      BY <3>1, Named
    <3>3. radio.tokenA.base = t.base
      BY <1>1, <2>4, <3>2, DataLeft DEF GotOn, Advanced
    <3>4. 1 \in DOMAIN muts /\ muts[1] = Change("dataA", t.pkt)
      BY <3>1
    <3>5. Redundant(Change("dataA", t.pkt)) /\ ~DataAssumed(Change("dataA", t.pkt))
      BY <1>1, <3>4, Zenon
    <3>6. radio.tokenA = t
      BY <1>1, <3>3, <3>4, <3>5, SureData
    <3> QED
      BY <3>2, <3>6 DEF Holds
  <2> QED
    BY <1>3, <2>1, <2>2, <2>3, <2>4, Kinds
<1> QED
  BY <1>2, <1>3

\* Where there are one or two, what is left from the first on, or from the second.
LEMMA LeftFrom ==
  /\ \A x : SubSeq(<<x>>, 1, 1) = <<x>>
  /\ \A x, y : SubSeq(<<x, y>>, 1, 2) = <<x, y>> /\ SubSeq(<<x, y>>, 2, 2) = <<y>>
<1>1. ASSUME NEW S, NEW s \in Seq(S), NEW m \in 1..2, NEW n \in 1..2,
             m <= n, n <= Len(s), NEW t \in Seq(S), Len(t) = n - m + 1,
             \A i \in 1..Len(t) : t[i] = s[m + i - 1]
      PROVE  SubSeq(s, m, n) = t
  <2>1. \A i \in m..n : s[i] \in S
    BY <1>1
  <2>2. /\ SubSeq(s, m, n) \in Seq(S) /\ Len(SubSeq(s, m, n)) = n - m + 1
        /\ \A i \in 1..n - m + 1 : SubSeq(s, m, n)[i] = s[m + i - 1]
    BY <1>1, <2>1, SubSeqProperties
  <2>3. PICK u \in Seq(S) : u = SubSeq(s, m, n)
    BY <2>2
  <2>4. Len(u) = Len(t) /\ \A i \in 1..Len(u) : u[i] = t[i]
    BY <1>1, <2>2, <2>3
  <2> QED
    BY <1>1, <2>3, <2>4, SeqEqual
<1>2. ASSUME NEW x, NEW y
      PROVE  /\ SubSeq(<<x>>, 1, 1) = <<x>>
             /\ SubSeq(<<x, y>>, 1, 2) = <<x, y>> /\ SubSeq(<<x, y>>, 2, 2) = <<y>>
  <2>1. PICK one, two, last : one = <<x>> /\ two = <<x, y>> /\ last = <<y>>
    OBVIOUS
  <2>2. /\ one \in Seq({x, y}) /\ two \in Seq({x, y}) /\ last \in Seq({x, y})
        /\ Len(one) = 1 /\ Len(two) = 2 /\ Len(last) = 1
        /\ one[1] = x /\ two[1] = x /\ two[2] = y /\ last[1] = y
    BY <2>1
  <2>3. SubSeq(one, 1, 1) = one
    BY <1>1, <2>2
  <2>4. SubSeq(two, 1, 2) = two
    BY <1>1, <2>2
  <2>5. SubSeq(two, 2, 2) = last
    BY <1>1, <2>2
  <2> QED
    BY <2>1, <2>3, <2>4, <2>5
<1> QED
  BY <1>2

\* What a session then waits for: what it had, or the data flag alone of a mode that the
\* cache made redundant.
LEMMA WaitsFor ==
  ASSUME NEW cmd \in Sent, NEW muts \in Left(cmd), NEW n \in 0..2, DOMAIN muts = 1..n,
         NEW k \in 1..n
  PROVE  \/ SubSeq(muts, k, Len(muts)) = muts /\ muts # <<>>
         \/ /\ k = 2 /\ muts = Muts(cmd)
            /\ \E t \in MainTokens : /\ cmd = Command("set_mode", <<t>>)
                                     /\ muts[1] = Change("modeA", t.base)
                                     /\ SubSeq(muts, k, Len(muts)) = <<Change("dataA", t.pkt)>>
<1>1. muts # <<>>
  OBVIOUS
<1>2. ASSUME NEW x, muts = <<x>>
      PROVE  SubSeq(muts, k, Len(muts)) = muts
  <2>1. n = 1 /\ k = 1 /\ Len(muts) = 1
    BY <1>2
  <2> QED
    BY <1>2, <2>1, LeftFrom
<1>3. CASE KindFreq(cmd, muts)
  BY <1>1, <1>2, <1>3 DEF KindFreq
<1>4. CASE KindSplit(cmd, muts)
  BY <1>1, <1>2, <1>4 DEF KindSplit
<1>5. CASE KindData(cmd, muts)
  BY <1>1, <1>2, <1>5 DEF KindData
<1>6. CASE KindMode(cmd, muts)
  <2>1. PICK t \in MainTokens : /\ cmd = Command("set_mode", <<t>>)
                                /\ muts = <<Change("modeA", t.base), Change("dataA", t.pkt)>>
    BY <1>6 DEF KindMode
  <2>2. PICK x, y : x = Change("modeA", t.base) /\ y = Change("dataA", t.pkt)
    OBVIOUS
  <2>3. muts = <<x, y>> /\ muts = Muts(cmd)
    BY <2>1, <2>2, MutsOf
  <2>4. n = 2 /\ Len(muts) = 2 /\ muts[1] = x
    BY <2>3
  <2>5. k = 1 \/ k = 2
    BY <2>4
  <2>6. CASE k = 1
    BY <1>1, <2>3, <2>4, <2>6, LeftFrom
  <2>7. CASE k = 2
    BY <2>1, <2>2, <2>3, <2>4, <2>7, LeftFrom
  <2> QED
    BY <2>5, <2>6, <2>7
<1> QED
  BY <1>1, <1>3, <1>4, <1>5, <1>6, Kinds

\* Nothing but a session and the promise.
Quiet ==
  /\ radio' = radio /\ snap' = snap /\ unsure' = unsure /\ poll' = poll
  /\ trusted' = trusted /\ fresh' = fresh

\* A step of a session only keeps the rest of the invariant.
LEMMA QuietKeeps ==
  ASSUME IInv, Quiet, NEW c \in Clients, NEW t, SessionTyped(t), Progress(t),
         sess' = [sess EXCEPT ![c] = t], promise' \in Sent \cup {Nothing}, promise' # Nothing => Holds(promise')
  PROVE  IInv'
<1>1. /\ RadioTyped' = RadioTyped /\ SnapTyped' = SnapTyped /\ PollTyped' = PollTyped
      /\ Heeded' = Heeded /\ Trust' = Trust
  BY DEF Quiet, RadioTyped, SnapTyped, PollTyped, Heeded, Trust, TxFreqRight, TxTokenRight
<1>2. Freshness' = Freshness
  <2>1. TxFreqRight' = TxFreqRight /\ TxTokenRight' = TxTokenRight /\ Transmits' = Transmits
    BY DEF Quiet, TxFreqRight, TxTokenRight, Transmits
  <2> QED
    BY <2>1 DEF Quiet, Freshness
<1>3. PromiseTyped'
  BY Parts DEF Quiet, PromiseTyped
<1>4. Promised'
  BY DEF Quiet, Promised, Holds
<1>5. ASSUME NEW s, Progress(s)
      PROVE  Progress(s)'
  BY <1>5 DEF Quiet, Progress, Advanced, Holds
<1>6. ASSUME NEW d \in Clients
      PROVE  SessionTyped(sess'[d]) /\ Progress(sess[d])'
  <2>1. PICK s : s = sess'[d] /\ SessionTyped(s) /\ Progress(s)
    <3>1. CASE d = c
      <4>1. sess'[d] = t
        BY <3>1, Parts DEF SessionsTyped
      <4> QED
        BY <4>1
    <3>2. CASE d # c
      <4>1. sess'[d] = sess[d]
        BY <3>2, Parts DEF SessionsTyped
      <4>2. SessionTyped(sess[d]) /\ Progress(sess[d])
        BY Parts DEF SessionsTyped, Progresses
      <4> QED
        BY <4>1, <4>2
    <3> QED
      BY <3>1, <3>2
  <2>2. Progress(s)'
    BY <1>5, <2>1
  <2> QED
    BY <2>1, <2>2, SessionProgress
<1>7. SessionsTyped'
  <2>1. sess' = [d \in Clients |-> sess'[d]]
    BY Parts DEF SessionsTyped
  <2> QED
    BY <1>6, <2>1 DEF SessionsTyped
<1> QED
  BY <1>1, <1>2, <1>3, <1>4, <1>6, <1>7, Parts DEF IInv, Typed, Progresses

\* Whatever of it comes, the invariant stays: a promise is made of what holds.
LEMMA ProceedStep ==
  ASSUME IInv, Quiet, NEW c \in Clients, NEW cmd \in Sent, NEW muts \in Left(cmd), NEW class,
         NEW clean \in BOOLEAN, GotOn(cmd, muts, clean), Proceed(c, cmd, muts, class, clean)
  PROVE  IInv'
<1>1. PICK n \in 0..2 : DOMAIN muts = 1..n
  <2>1. CASE muts = <<>>
    <3>1. DOMAIN muts = 1..0
      BY <2>1
    <3> QED
      BY <3>1
  <2>2. CASE muts # <<>>
    <3>1. \/ \E x : muts = <<x>>
          \/ \E x, y : muts = <<x, y>>
      <4>1. KindFreq(cmd, muts) => \E x : muts = <<x>>
        BY DEF KindFreq
      <4>2. KindSplit(cmd, muts) => \E x : muts = <<x>>
        BY DEF KindSplit
      <4>3. KindData(cmd, muts) => \E x : muts = <<x>>
        BY DEF KindData
      <4>4. KindMode(cmd, muts) => \E x, y : muts = <<x, y>>
        BY DEF KindMode
      <4> QED
        BY <2>2, <4>1, <4>2, <4>3, <4>4, Kinds
    <3>2. DOMAIN muts = 1..1 \/ DOMAIN muts = 1..2
      BY <3>1
    <3> QED
      BY <3>2
  <2> QED
    BY <2>1, <2>2
<1>2. promise \in Sent \cup {Nothing} /\ (promise # Nothing => Holds(promise))
  BY Parts DEF PromiseTyped, Promised
<1>3. PICK sure \in BOOLEAN : sure = Sure(muts, clean)
  BY Parts DEF Sure
<1>4. PICK r : r = Resting /\ SessionTyped(r) /\ Progress(r)
  BY AtRest
<1>5. CASE /\ \A i \in 1..n : Redundant(muts[i])
           /\ sess' = [sess EXCEPT ![c] = Resting]
           /\ promise' = IF Sure(muts, clean) THEN cmd ELSE promise
  <2>1. Sure(muts, clean) => Holds(cmd)
    BY <1>1, <1>5, SureHolds
  <2>2. promise' \in Sent \cup {Nothing} /\ (promise' # Nothing => Holds(promise'))
    <3>1. CASE Sure(muts, clean)
      BY <1>5, <2>1, <3>1
    <3>2. CASE ~Sure(muts, clean)
      BY <1>2, <1>5, <3>2
    <3> QED
      BY <3>1, <3>2
  <2> QED
    BY <1>5, <1>4, <2>2, QuietKeeps
<1>6. CASE sess' = [sess EXCEPT ![c] = Resting] /\ promise' = promise
  BY <1>2, <1>6, <1>4, QuietKeeps
<1>7. ASSUME NEW k \in 1..n, \A j \in 1..k - 1 : Redundant(muts[j]),
             sess' = [sess EXCEPT ![c] = Waits(cmd, SubSeq(muts, k, Len(muts)), Sure(muts, clean))],
             promise' = promise
      PROVE  IInv'
  <2>1. PICK rest : rest = SubSeq(muts, k, Len(muts))
    OBVIOUS
  <2>2. PICK t : t = Waits(cmd, rest, sure)
    OBVIOUS
  <2>3. /\ rest \in Left(cmd) /\ rest # <<>>
        /\ sure /\ rest # Muts(cmd) => Advanced(cmd, rest)
    <3>1. CASE rest = muts /\ muts # <<>>
      BY <1>3, <3>1 DEF GotOn, Sure
    <3>2. CASE /\ k = 2 /\ muts = Muts(cmd)
               /\ \E tok \in MainTokens : /\ cmd = Command("set_mode", <<tok>>)
                                          /\ muts[1] = Change("modeA", tok.base)
                                          /\ rest = <<Change("dataA", tok.pkt)>>
      <4>1. PICK tok \in MainTokens : /\ cmd = Command("set_mode", <<tok>>)
                                      /\ muts[1] = Change("modeA", tok.base)
                                      /\ rest = <<Change("dataA", tok.pkt)>>
        BY <3>2
      <4>2. cmd.name = "set_mode" /\ cmd.args[1] = tok
        BY <4>1, Named
      <4>3. rest \in Left(cmd) /\ rest # <<>>
        BY <4>1, <4>2, Short DEF Left
      <4>4. 1 \in DOMAIN muts /\ Redundant(Change("modeA", tok.base))
        <5>1. 1 \in 1..k - 1 /\ 1 \in DOMAIN muts
          BY <1>1, <3>2
        <5>2. Redundant(muts[1])
          BY <1>7, <5>1
        <5> QED
          BY <4>1, <5>1, <5>2, Zenon
      <4>5. ASSUME sure
            PROVE  radio.tokenA.base = tok.base /\ snap.modeA = tok.base /\ ~poll.mixed
        <5>1. Redundant(muts[1])
          BY <4>1, <4>4
        <5>2. trusted
          BY <1>3, <4>4, <4>5, <5>1 DEF Sure
        <5> QED
          BY <4>4, <5>2, SureMode, Parts DEF Trust
      <4> QED
        BY <4>2, <4>3, <4>5 DEF Advanced
    <3>3. \/ rest = muts /\ muts # <<>>
          \/ /\ k = 2 /\ muts = Muts(cmd)
             /\ \E tok \in MainTokens : /\ cmd = Command("set_mode", <<tok>>)
                                        /\ muts[1] = Change("modeA", tok.base)
                                        /\ rest = <<Change("dataA", tok.pkt)>>
      <4>1. \/ SubSeq(muts, k, Len(muts)) = muts /\ muts # <<>>
            \/ /\ k = 2 /\ muts = Muts(cmd)
               /\ \E tok \in MainTokens :
                    /\ cmd = Command("set_mode", <<tok>>)
                    /\ muts[1] = Change("modeA", tok.base)
                    /\ SubSeq(muts, k, Len(muts)) = <<Change("dataA", tok.pkt)>>
        BY <1>1, WaitsFor, ZenonT(40)
      <4> QED
        BY <2>1, <4>1
    <3> QED
      BY <3>1, <3>2, <3>3
  <2>4. SessionTyped(t) /\ t.st = "wait" /\ t.cmd = cmd /\ t.muts = rest /\ t.clean = sure
    BY <2>2, <2>3, WaitsTyped
  <2>5. Progress(t)
    BY <2>3, <2>4 DEF Progress
  <2>6. sess' = [sess EXCEPT ![c] = t]
    BY <1>3, <1>7, <2>1, <2>2
  <2> QED
    BY <1>2, <1>7, <2>4, <2>5, <2>6, QuietKeeps
<1>8. \/ /\ \A i \in 1..n : Redundant(muts[i])
         /\ sess' = [sess EXCEPT ![c] = Resting]
         /\ promise' = IF Sure(muts, clean) THEN cmd ELSE promise
      \/ sess' = [sess EXCEPT ![c] = Resting] /\ promise' = promise
      \/ \E k \in 1..n :
           /\ \A j \in 1..k - 1 : Redundant(muts[j])
           /\ sess' = [sess EXCEPT ![c] = Waits(cmd, SubSeq(muts, k, Len(muts)), Sure(muts, clean))]
           /\ promise' = promise
  BY <1>1, Proceeds
<1> QED
  BY <1>5, <1>6, <1>7, <1>8

\* A mutation was accepted: on to the next.
LEMMA ResumeStep ==
  ASSUME IInv, NEW c \in Clients, Resume(c)
  PROVE  IInv'
<1>1. PICK s : s = sess[c]
  OBVIOUS
<1>2. SessionTyped(s) /\ Progress(s) /\ s.st = "resume"
  BY <1>1, Parts DEF SessionsTyped, Progresses, Resume
<1>3. /\ s.cmd \in Sent /\ s.muts \in Left(s.cmd) /\ s.clean \in BOOLEAN
      /\ GotOn(s.cmd, s.muts, s.clean)
  BY <1>2 DEF SessionTyped, Progress, GotOn
<1>4. Quiet
  BY DEF Resume, Quiet, cacheVars
<1>5. Proceed(c, s.cmd, s.muts, "ModeledWrite", s.clean)
  BY <1>1 DEF Resume
<1> QED
  BY <1>3, <1>4, <1>5, ProceedStep

\* A command that asks for mutations, in the plain form (handle_line, dispatch_plain).
LEMMA Plainly ==
  ASSUME NEW single, NEW perms, NEW hasRit, NEW sn, NEW ext, ~ext, NEW cmd,
         cmd.name \in {"set_freq", "set_mode", "set_split_vfo"}
  PROVE  HandleLine(single, perms, hasRit, sn, ext, cmd) = Set(single, perms, hasRit, sn, cmd)
<1>1. cmd.name \in Sets /\ cmd.name \notin Reads /\ cmd.name # "quit"
  BY DEF Sets, Reads
<1>2. Dispatch(single, perms, hasRit, sn, cmd) = Set(single, perms, hasRit, sn, cmd)
  BY <1>1 DEF Dispatch
<1> QED
  BY <1>1, <1>2 DEF HandleLine

\* A reply is no mutation, and a mutation has what it has.
LEMMA DeedIs ==
  /\ \A code : Failed(code).kind = "reply"
  /\ \A muts, class : Mutate(muts, class).kind = "apply" /\ Mutate(muts, class).muts = muts
  BY DEF Failed, Lines, Mutate

\* The sets of a frequency, of a mode and of split (dispatch_plain).
LEMMA SetFreqIs ==
  ASSUME NEW single, NEW perms, NEW hasRit, NEW sn, NEW cmd, cmd.name = "set_freq", cmd.args # <<>>
  PROVE  Set(single, perms, hasRit, sn, cmd) =
           Mutate(<<Change(FreqOf(sn.rx), cmd.args[1])>>, "ModeledWrite")
  BY DEF Set

\* A mode that is not known is refused (set_mode).
LEMMA SetNoModeIs ==
  ASSUME NEW single, NEW perms, NEW hasRit, NEW sn, NEW cmd, cmd.name = "set_mode", cmd.args # <<>>,
         ~Known(cmd.args[1])
  PROVE  Set(single, perms, hasRit, sn, cmd) = Failed("einval")
  BY DEF Set

\* One that is known is two mutations (set_mode).
LEMMA SetModeIs ==
  ASSUME NEW single, NEW perms, NEW hasRit, NEW sn, NEW cmd, cmd.name = "set_mode", cmd.args # <<>>,
         Known(cmd.args[1])
  PROVE  Set(single, perms, hasRit, sn, cmd) =
           Mutate(<<Change(ModeOf(sn.rx), cmd.args[1].base), Change(DataOf(sn.rx), cmd.args[1].pkt)>>,
                  "ModeledWrite")
  BY DEF Set

\* Split is refused, or is one mutation (set_split_vfo).
LEMMA SetSplitIs ==
  ASSUME NEW single, NEW perms, NEW hasRit, NEW sn, NEW cmd, cmd.name = "set_split_vfo"
  PROVE  Set(single, perms, hasRit, sn, cmd) =
           IF ~Allows(perms, "ModeledWrite") THEN Failed("einval")
           ELSE IF single THEN Failed(IF cmd.args[1] = 1 THEN "enavail" ELSE "ok")
           ELSE Mutate(<<Change("split", <<cmd.args[1] = 1, VfoArg(cmd.args, 2)>>)>>, "ModeledWrite")
  BY DEF Set

\* A client that sets a frequency submits that of VFO A.
LEMMA SubmitsFreq ==
  ASSUME SnapTyped, NEW hz \in Hz, NEW single, NEW perms, NEW off, ~off, NEW deed,
         deed = HandleLine(single, perms, off, snap, off, Command("set_freq", <<hz>>))
  PROVE  deed.muts = <<Change("freqA", hz)>>
<1>1. FreqOf(snap.rx) = "freqA"
  BY DEF SnapTyped, Sane, FreqOf
<1>2. PICK cmd : cmd = Command("set_freq", <<hz>>)
  OBVIOUS
<1>3. /\ cmd.name = "set_freq" /\ cmd.args # <<>> /\ cmd.args[1] = hz
      /\ cmd.name \in {"set_freq", "set_mode", "set_split_vfo"}
  <2>1. PICK n : n = <<hz>>
    OBVIOUS
  <2> QED
    BY <1>2, <2>1, Named, Short
<1>4. HandleLine(single, perms, off, snap, off, cmd) = Set(single, perms, off, snap, cmd)
  BY <1>3, Plainly
<1>5. Set(single, perms, off, snap, cmd) =
        Mutate(<<Change(FreqOf(snap.rx), cmd.args[1])>>, "ModeledWrite")
  BY <1>3, SetFreqIs
<1>6. deed = Mutate(<<Change("freqA", hz)>>, "ModeledWrite")
  BY <1>1, <1>2, <1>3, <1>4, <1>5, Zenon
<1> QED
  BY <1>6, DeedIs

\* One that sets split submits it, if it may.
LEMMA SubmitsSplit ==
  ASSUME NEW on \in 0..1, NEW v \in Vfo, NEW single, NEW perms, NEW off, ~off, NEW deed,
         deed = HandleLine(single, perms, off, snap, off, Command("set_split_vfo", <<on, v>>)),
         deed.kind = "apply"
  PROVE  deed.muts = <<Change("split", <<on = 1, v>>)>>
<1>1. PICK cmd : cmd = Command("set_split_vfo", <<on, v>>)
  OBVIOUS
<1>2. /\ cmd.name = "set_split_vfo" /\ cmd.args[1] = on /\ VfoArg(cmd.args, 2) = v
      /\ cmd.name \in {"set_freq", "set_mode", "set_split_vfo"}
  <2>1. PICK n : n = <<on, v>>
    OBVIOUS
  <2>2. cmd.name = "set_split_vfo" /\ cmd.args = n
    BY <1>1, <2>1, Named
  <2>3. n[1] = on /\ n[2] = v /\ 2 \in DOMAIN n
    BY <2>1
  <2>4. VfoArg(n, 2) = v
    BY <2>3 DEF VfoArg, Vfo
  <2> QED
    BY <2>2, <2>3, <2>4
<1>3. HandleLine(single, perms, off, snap, off, cmd) = Set(single, perms, off, snap, cmd)
  BY <1>2, Plainly
<1>4. PICK m : m = Mutate(<<Change("split", <<on = 1, v>>)>>, "ModeledWrite")
  OBVIOUS
<1>5. Set(single, perms, off, snap, cmd) =
        IF ~Allows(perms, "ModeledWrite") THEN Failed("einval")
        ELSE IF single THEN Failed(IF cmd.args[1] = 1 THEN "enavail" ELSE "ok")
        ELSE Mutate(<<Change("split", <<cmd.args[1] = 1, VfoArg(cmd.args, 2)>>)>>, "ModeledWrite")
  BY <1>2, SetSplitIs, ZenonT(40)
<1>6. Set(single, perms, off, snap, cmd) =
        IF ~Allows(perms, "ModeledWrite") THEN Failed("einval")
        ELSE IF single THEN Failed(IF on = 1 THEN "enavail" ELSE "ok") ELSE m
  BY <1>2, <1>4, <1>5, Zenon
<1>7. deed = Set(single, perms, off, snap, cmd)
  BY <1>1, <1>3, Zenon
<1>8. deed = m \/ \E code : deed = Failed(code)
  BY <1>6, <1>7
<1>9. deed = m
  BY <1>8, DeedIs
<1> QED
  BY <1>4, <1>9, DeedIs

\* One that sets a mode submits one that is known, without the data flag.
LEMMA SubmitsMode ==
  ASSUME SnapTyped, NEW t \in MainTokens \cup {NoToken}, NEW single, NEW perms, NEW off, ~off, NEW deed,
         deed = HandleLine(single, perms, off, snap, off, Command("set_mode", <<t>>)),
         deed.kind = "apply"
  PROVE  /\ t \in MainTokens /\ t # NoToken
         /\ deed.muts = <<Change("modeA", t.base), Change("dataA", t.pkt)>>
<1>1. ModeOf(snap.rx) = "modeA" /\ DataOf(snap.rx) = "dataA"
  BY DEF SnapTyped, Sane, ModeOf, DataOf
<1>2. PICK cmd : cmd = Command("set_mode", <<t>>)
  OBVIOUS
<1>3. /\ cmd.name = "set_mode" /\ cmd.args # <<>> /\ cmd.args[1] = t
      /\ cmd.name \in {"set_freq", "set_mode", "set_split_vfo"}
  <2>1. PICK n : n = <<t>>
    OBVIOUS
  <2> QED
    BY <1>2, <2>1, Named, Short
<1>4. HandleLine(single, perms, off, snap, off, cmd) = Set(single, perms, off, snap, cmd)
  BY <1>3, Plainly
<1>5. deed = Set(single, perms, off, snap, cmd)
  BY <1>2, <1>4, Zenon
<1>6. Known(t)
  <2> SUFFICES ASSUME ~Known(t) PROVE FALSE
    OBVIOUS
  <2>1. Set(single, perms, off, snap, cmd) = Failed("einval")
    BY <1>3, SetNoModeIs, Zenon
  <2> QED
    BY <1>5, <2>1, DeedIs
<1>7. t \in MainTokens /\ t # NoToken
  BY <1>6 DEF Known, NoToken
<1>9. Set(single, perms, off, snap, cmd) =
        Mutate(<<Change(ModeOf(snap.rx), cmd.args[1].base), Change(DataOf(snap.rx), cmd.args[1].pkt)>>,
               "ModeledWrite")
  BY <1>3, <1>6, SetModeIs
<1>10. deed = Mutate(<<Change("modeA", t.base), Change("dataA", t.pkt)>>, "ModeledWrite")
  BY <1>1, <1>3, <1>5, <1>9, Zenon
<1> QED
  BY <1>7, <1>10, DeedIs

\* What a command submits are its mutations (handle_line).
LEMMA Submits ==
  ASSUME SnapTyped, NEW single, NEW perms, NEW off, ~off, NEW cmd \in Commands, NEW deed,
         deed = HandleLine(single, perms, off, snap, off, cmd), deed.kind = "apply"
  PROVE  cmd \in Sent /\ deed.muts = Muts(cmd)
<1>1. CASE \E hz \in Hz : cmd = Command("set_freq", <<hz>>)
  <2>1. PICK hz \in Hz : cmd = Command("set_freq", <<hz>>)
    BY <1>1
  <2>2. deed.muts = <<Change("freqA", hz)>>
    BY <2>1, SubmitsFreq
  <2>3. cmd \in Sent
    BY <2>1, Named DEF Sent
  <2>4. deed.muts = Muts(cmd)
    BY <2>1, <2>2, MutsOf, Zenon
  <2> QED
    BY <2>3, <2>4
<1>2. CASE \E t \in MainTokens \cup {NoToken} : cmd = Command("set_mode", <<t>>)
  <2>1. PICK t \in MainTokens \cup {NoToken} : cmd = Command("set_mode", <<t>>)
    BY <1>2
  <2>2. /\ t \in MainTokens /\ t # NoToken
        /\ deed.muts = <<Change("modeA", t.base), Change("dataA", t.pkt)>>
    BY <2>1, SubmitsMode
  <2>3. cmd \in Sent
    BY <2>1, <2>2, Named DEF Sent
  <2>4. Muts(cmd) = <<Change("modeA", t.base), Change("dataA", t.pkt)>>
    BY <2>1, MutsOf
  <2> QED
    BY <2>2, <2>3, <2>4, Zenon
<1>3. CASE \E on \in 0..1, v \in Vfo : cmd = Command("set_split_vfo", <<on, v>>)
  <2>1. PICK on \in 0..1, v \in Vfo : cmd = Command("set_split_vfo", <<on, v>>)
    BY <1>3
  <2>2. deed.muts = <<Change("split", <<on = 1, v>>)>>
    BY <2>1, SubmitsSplit
  <2>3. cmd \in Sent
    BY <2>1, Named DEF Sent
  <2>4. Muts(cmd) = <<Change("split", <<on = 1, v>>)>>
    BY <2>1, MutsOf, Zenon
  <2> QED
    BY <2>2, <2>3, <2>4, Zenon
<1> QED
  BY <1>1, <1>2, <1>3, CommandKinds

\* A command starts.
LEMMA HandleCommandStep ==
  ASSUME IInv, NEW c \in Clients, HandleCommand(c)
  PROVE  IInv'
<1>0. PICK off : off = FALSE
  OBVIOUS
<1>1. PICK cmd, deed :
        /\ cmd \in Commands /\ deed = HandleLine(Single(c), Grant, off, snap, off, cmd)
        /\ deed.kind = "apply" /\ Proceed(c, cmd, deed.muts, deed.class, TRUE)
  BY <1>0, Zenon DEF HandleCommand
<1>2. Quiet
  BY DEF HandleCommand, Quiet, cacheVars
<1>3. cmd \in Sent /\ deed.muts = Muts(cmd)
  BY <1>0, <1>1, Submits, Parts
<1>4. PICK muts, class, clean : /\ muts = Muts(cmd) /\ class = deed.class /\ clean = TRUE
                                /\ Proceed(c, cmd, muts, class, clean)
  BY <1>1, <1>3
<1>5. muts \in Left(cmd) /\ clean \in BOOLEAN /\ GotOn(cmd, muts, clean)
  BY <1>4 DEF Left, GotOn
<1> QED
  BY <1>2, <1>3, <1>4, <1>5, ProceedStep

------------------------------------------------------------------------------
(* The invariant, of every behaviour *)

\* What stays the same stays right.
LEMMA Stutters ==
  ASSUME IInv, UNCHANGED vars
  PROVE  IInv'
<1>1. /\ radio' = radio /\ snap' = snap /\ unsure' = unsure /\ poll' = poll /\ sess' = sess
      /\ trusted' = trusted /\ fresh' = fresh /\ promise' = promise
  BY DEF vars, cacheVars
<1>2. Typed' = Typed
  BY <1>1 DEF Typed, RadioTyped, SnapTyped, PollTyped, SessionsTyped, PromiseTyped
<1>3. TxFreqRight' = TxFreqRight /\ TxTokenRight' = TxTokenRight /\ Transmits' = Transmits
  BY <1>1 DEF TxFreqRight, TxTokenRight, Transmits
<1>4. Heeded' = Heeded
  BY <1>1, <1>3 DEF Heeded
<1>5. Trust' = Trust
  BY <1>1 DEF Trust
<1>6. Freshness' = Freshness
  BY <1>1, <1>3 DEF Freshness
<1>7. Promised'
  BY <1>1, HoldsStays, Parts DEF Promised
<1>8. ASSUME NEW c \in Clients
      PROVE  Progress(sess[c])'
  <2>1. PICK s : s = sess[c]
    OBVIOUS
  <2>2. Progress(s)
    BY <2>1, Parts DEF Progresses
  <2>3. Progress(s)'
    BY <1>1, <2>2, HoldsStays DEF Progress, Advanced
  <2> QED
    BY <1>1, <2>1, <2>3, SessionProgress
<1> QED
  BY <1>2, <1>4, <1>5, <1>6, <1>7, <1>8 DEF IInv, Progresses

\* The invariant: the operator, the worker's poll and mutations, and the sessions keep it.
THEOREM BridgeInvariant == Spec => []IInv
<1>1. Init => IInv
  BY InitHolds
<1>2. IInv /\ [Next]_vars => IInv'
  <2> SUFFICES ASSUME IInv, [Next]_vars PROVE IInv'
    OBVIOUS
  <2>1. CASE Knob
    BY <2>1, KnobStep
  <2>2. CASE StartPoll \/ PollFails
    BY <2>2, PollEdge
  <2>3. CASE PollQuery
    BY <2>3, PollQueryStep
  <2>4. CASE \E c \in Clients : ApplyMutation(c)
    BY <2>4, ApplyMutationStep
  <2>5. CASE \E c \in Clients : HandleCommand(c)
    BY <2>5, HandleCommandStep
  <2>6. CASE \E c \in Clients : Resume(c)
    BY <2>6, ResumeStep
  <2>7. CASE UNCHANGED vars
    BY <2>7, Stutters
  <2> QED
    BY <2>1, <2>2, <2>3, <2>4, <2>5, <2>6, <2>7 DEF Next
<1> QED
  BY <1>1, <1>2, PTL DEF Spec

\* A command that was told Ok holds at the radio when nothing came after it, for any
\* clients, modes, polls and failures (apply_modeled, set_mode): unless the data flag it
\* asks for was on already as the cache has it, and so was not written, or the cache was
\* relied on after a poll that could not make out a PKT mode.
THEOREM OkHolds == Spec => []CommandHolds
<1>1. IInv => CommandHolds
  BY Parts DEF Promised, Holds, CommandHolds
<1> QED
  BY <1>1, BridgeInvariant, PTL

------------------------------------------------------------------------------
(* What clients read *)

\* The reads of dispatch_plain for a client that sees both VFOs.
LEMMA ReadsFreq ==
  ASSUME NEW sn, NEW off, ~off, NEW cmd, cmd.name = "get_freq"
  PROVE  Read(off, sn, cmd)[1][2] = sn[FreqOf(sn.rx)]
<1>1. Read(off, sn, cmd) = <<<<"Frequency", sn[FreqOf(sn.rx)]>>>>
  BY DEF Read
<1> QED
  BY <1>1

\* The mode that is read (get_mode).
LEMMA ReadsMode ==
  ASSUME NEW sn, NEW off, ~off, NEW cmd, cmd.name = "get_mode"
  PROVE  Read(off, sn, cmd)[1][2] = TokenOf(sn, sn.rx)
<1>1. Read(off, sn, cmd) = <<<<"Mode", TokenOf(sn, sn.rx)>>>>
  BY DEF Read
<1> QED
  BY <1>1
SplitLines(sn) == <<<<"Split", sn.split[1]>>, <<"TX VFO", sn.split[2]>>>>

\* Split as it is read (get_split_vfo).
LEMMA ReadsSplit ==
  ASSUME NEW sn, NEW off \in BOOLEAN, ~off, NEW cmd, cmd.name = "get_split_vfo", sn.rx = "A",
         sn.split[1] \in BOOLEAN, ~sn.split[1] => sn.split[2] = "A"
  PROVE  Read(off, sn, cmd) = SplitLines(sn)
<1>1. PICK p, tx : p \in BOOLEAN /\ p = sn.split[1] /\ tx = sn.split[2]
  OBVIOUS
<1>2. PresentedSplit(off, sn) = p
  BY <1>1 DEF PresentedSplit
<1>3. PresentedName(off, IF p THEN tx ELSE "A") = tx
  BY <1>1 DEF PresentedName
<1>4. Read(off, sn, cmd) =
        <<<<"Split", PresentedSplit(off, sn)>>,
          <<"TX VFO", PresentedName(off, IF PresentedSplit(off, sn) THEN sn.split[2] ELSE sn.rx)>>>>
  BY DEF Read
<1> QED
  BY <1>1, <1>2, <1>3, <1>4 DEF SplitLines

\* The frequency of the VFO that transmits (get_split_freq).
LEMMA ReadsSplitFreq ==
  ASSUME NEW sn, NEW off \in BOOLEAN, ~off, NEW cmd, cmd.name = "get_split_freq", NEW tx, tx = sn.split[2],
         sn[FreqOf(tx)] # 0
  PROVE  Read(off, sn, cmd)[1][2] = sn[FreqOf(tx)]
<1>1. ~(off \/ sn[FreqOf(sn.split[2])] = 0)
  OBVIOUS
<1>2. Read(off, sn, cmd) = IF off \/ sn[FreqOf(sn.split[2])] = 0 THEN <<Report("enavail")>>
                           ELSE <<<<"TX Frequency", sn[FreqOf(sn.split[2])]>>>>
  BY Zenon DEF Read
<1>3. PICK label : label = "TX Frequency"
  BY Zenon
<1>4. Read(off, sn, cmd) = <<<<label, sn[FreqOf(sn.split[2])]>>>>
  BY <1>1, <1>2, <1>3, Zenon
<1> QED
  BY <1>4

\* The mode of the VFO that transmits (get_split_mode).
LEMMA ReadsSplitMode ==
  ASSUME NEW sn, NEW off \in BOOLEAN, ~off, NEW cmd, cmd.name = "get_split_mode", NEW tx, tx = sn.split[2],
         sn[KnownOf(tx)] = TRUE
  PROVE  Read(off, sn, cmd)[1][2] = TokenOf(sn, tx)
<1>1. ~(off \/ ~sn[KnownOf(sn.split[2])])
  OBVIOUS
<1>2. Read(off, sn, cmd) = IF off \/ ~sn[KnownOf(sn.split[2])] THEN <<Report("enavail")>>
                           ELSE <<<<"TX Mode", TokenOf(sn, sn.split[2])>>>>
  BY Zenon DEF Read
<1>3. PICK label : label = "TX Mode"
  BY Zenon
<1>4. Read(off, sn, cmd) = <<<<label, TokenOf(sn, sn.split[2])>>>>
  BY <1>1, <1>2, <1>3, Zenon
<1> QED
  BY <1>4

\* The power that a poll recorded: at the level it is set to.
LEMMA Relative ==
  ASSUME NEW rel \in 1..Scale, NEW mw
  PROVE  \E max : FromRelative(rel, mw) = <<[rel |-> rel, mw |-> mw, max |-> max]>>
<1>1. ~(rel > Scale)
  BY HamlibAssumption
<1> QED
  BY <1>1 DEF FromRelative

\* The level that is read is the one that was recorded (get_level).
LEMMA ReadsLevel ==
  ASSUME NEW sn, NEW off \in BOOLEAN, ~off, NEW cmd, cmd.name = "get_level", NEW rel, NEW mw, NEW max,
         sn.power = <<[rel |-> rel, mw |-> mw, max |-> max]>>
  PROVE  Read(off, sn, cmd)[1][2] = rel
<1>1. PICK p : p = [rel |-> rel, mw |-> mw, max |-> max]
  OBVIOUS
<1>2. sn.power[1] = p /\ sn.power # <<>> /\ p.rel = rel
  BY <1>1
<1>3. Read(off, sn, cmd) = <<<<"RFPOWER", sn.power[1].rel>>>>
  BY <1>2 DEF Read
<1> QED
  BY <1>2, <1>3

\* The milliwatts at that level are those that were recorded (milliwatts_for_relative).
LEMMA ReadsPower ==
  ASSUME NEW sn, NEW off \in BOOLEAN, ~off, NEW cmd, cmd.name = "power2mW", NEW rel \in 1..Scale, NEW mw, NEW max,
         cmd.args[1] = rel, sn.power = <<[rel |-> rel, mw |-> mw, max |-> max]>>
  PROVE  Read(off, sn, cmd)[1][2] = mw
<1>1. PICK p : p = [rel |-> rel, mw |-> mw, max |-> max]
  OBVIOUS
<1>2. sn.power[1] = p /\ sn.power # <<>> /\ p.rel = rel /\ p.mw = mw
  BY <1>1
<1>3. ~(rel > Scale)
  BY HamlibAssumption
<1>4. Milliwatts(p, rel) = <<mw>>
  BY <1>2, <1>3 DEF Milliwatts
<1>5. PICK m : m = <<mw>>
  OBVIOUS
<1>6. m # <<>> /\ m[1] = mw
  BY <1>5
<1>7. m = IF sn.power = <<>> THEN <<>> ELSE Milliwatts(sn.power[1], cmd.args[1])
  BY <1>2, <1>4, <1>5
<1>8. Read(off, sn, cmd) = IF m = <<>> THEN <<Report("enavail")>> ELSE <<<<"Power mW", m[1]>>>>
  BY <1>7, Zenon DEF Read
<1>9. PICK label : label = "Power mW"
  BY Zenon
<1>10. Read(off, sn, cmd) = <<<<label, m[1]>>>>
  BY <1>6, <1>8, <1>9, Zenon
<1> QED
  BY <1>6, <1>10

\* What a client is told when the cache is fresh, a part at a time.
TellsMain(off) ==
  /\ Read(off, snap, Command("get_freq", <<>>))[1][2] = radio.freqA
  /\ Read(off, snap, Command("get_mode", <<>>))[1][2] = Token(radio.tokenA.base, snap.dataA)
TellsSplit(off) ==
  /\ Read(off, snap, Command("get_split_vfo", <<>>)) =
       <<<<"Split", radio.split[1]>>, <<"TX VFO", radio.split[2]>>>>
  /\ radio.split[1] =>
       /\ Read(off, snap, Command("get_split_freq", <<>>))[1][2] = radio[FreqOf(radio.split[2])]
       /\ Read(off, snap, Command("get_split_mode", <<>>))[1][2] = radio[TokenField(radio.split[2])]
TellsPower(off) ==
  /\ Read(off, snap, Command("get_level", <<>>))[1][2] = radio.rel
  /\ Read(off, snap, Command("power2mW", <<radio.rel>>))[1][2] = ToMilliwatts(radio.rel, Transmits.base)

\* Of the VFO that is received with (poll).
LEMMA FreshMain ==
  ASSUME IInv, fresh, NEW off \in BOOLEAN, ~off
  PROVE  TellsMain(off)
<1>1. snap["rx"] = "A" /\ snap["freqA"] = radio["freqA"] /\ snap["modeA"] = radio["tokenA"].base
  BY Parts, FreshHas DEF SnapTyped, Sane
<1>2. PICK freq : freq = Command("get_freq", <<>>)
  OBVIOUS
<1>3. PICK mode : mode = Command("get_mode", <<>>)
  OBVIOUS
<1>4. freq.name = "get_freq" /\ mode.name = "get_mode"
  BY <1>2, <1>3, Named
<1>5. Read(off, snap, freq)[1][2] = snap[FreqOf(snap.rx)]
  BY <1>4, ReadsFreq
<1>6. Read(off, snap, mode)[1][2] = TokenOf(snap, snap.rx)
  BY <1>4, ReadsMode
<1>7. FreqOf(snap.rx) = "freqA" /\ TokenOf(snap, snap.rx) = Token(snap["modeA"], snap["dataA"])
  BY <1>1 DEF FreqOf, TokenOf, ModeOf, DataOf
<1> QED
  BY <1>1, <1>2, <1>3, <1>5, <1>6, <1>7 DEF TellsMain

\* Of split and the VFO that transmits (poll_split_details).
LEMMA FreshSplit ==
  ASSUME IInv, fresh, NEW off \in BOOLEAN, ~off
  PROVE  TellsSplit(off)
<1>1. /\ snap["rx"] = "A" /\ snap["split"] = radio["split"]
      /\ radio.split[1] => TxFreqRight /\ TxTokenRight
  BY Parts, FreshHas DEF SnapTyped, Sane
<1>2. PICK p : p = radio["split"]
  OBVIOUS
<1>3. p[1] \in BOOLEAN /\ (~p[1] => p[2] = "A") /\ p[2] \in Vfo
  <2>1. p \in BOOLEAN \X Vfo /\ (~p[1] => p = <<FALSE, "A">>)
    BY <1>2, RadioHas, Parts
  <2>2. p[1] \in BOOLEAN /\ p[2] \in Vfo
    BY <2>1
  <2>3. ASSUME ~p[1] PROVE p[2] = "A"
    <3>1. PICK a : a = "A"
      OBVIOUS
    <3>2. PICK n : n = FALSE
      OBVIOUS
    <3>3. p = <<n, a>>
      BY <2>1, <2>3, <3>1, <3>2
    <3> QED
      BY <3>1, <3>3
  <2> QED
    BY <2>2, <2>3
<1>4. PICK cmd : cmd = Command("get_split_vfo", <<>>)
  OBVIOUS
<1>5. Read(off, snap, cmd) = <<<<"Split", p[1]>>, <<"TX VFO", p[2]>>>>
  <2>1. cmd.name = "get_split_vfo" /\ snap.rx = "A" /\ snap.split = p
    BY <1>1, <1>2, <1>4, Named
  <2>2. /\ cmd.name = "get_split_vfo" /\ snap.rx = "A" /\ snap.split[1] \in BOOLEAN
        /\ ~snap.split[1] => snap.split[2] = "A"
    BY <1>3, <2>1
  <2>3. Read(off, snap, cmd) = SplitLines(snap)
    BY <2>2, ReadsSplit
  <2> QED
    BY <2>1, <2>3, Zenon DEF SplitLines
<1>6. PICK freq : freq = Command("get_split_freq", <<>>)
  OBVIOUS
<1>7. PICK mode : mode = Command("get_split_mode", <<>>)
  OBVIOUS
<1>8. ASSUME p[1]
      PROVE  /\ Read(off, snap, freq)[1][2] = radio[FreqOf(p[2])]
             /\ Read(off, snap, mode)[1][2] = radio[TokenField(p[2])]
  <2>1. PICK tx \in Vfo : tx = p[2]
    BY <1>3
  <2>2. /\ snap[FreqOf(tx)] = radio[FreqOf(tx)] /\ TokenOf(snap, tx) = radio[TokenField(tx)]
        /\ snap[KnownOf(tx)] = TRUE /\ tx = snap.split[2]
    BY <1>1, <1>2, <1>8, <2>1 DEF TxFreqRight, TxTokenRight
  <2>3. snap[FreqOf(tx)] # 0
    BY <2>2, OnVfo, Parts, BridgeAssumption
  <2>4. freq.name = "get_split_freq" /\ mode.name = "get_split_mode"
    BY <1>6, <1>7, Named
  <2>5. Read(off, snap, freq)[1][2] = snap[FreqOf(tx)]
    BY <2>2, <2>3, <2>4, ReadsSplitFreq
  <2>6. Read(off, snap, mode)[1][2] = TokenOf(snap, tx)
    <3>1. tx = snap.split[2] /\ snap[KnownOf(tx)] = TRUE /\ mode.name = "get_split_mode"
      BY <2>2, <2>4
    <3> QED
      BY <3>1, ReadsSplitMode, ZenonT(40)
  <2> QED
    BY <2>1, <2>2, <2>5, <2>6
<1> QED
  BY <1>2, <1>4, <1>5, <1>6, <1>7, <1>8, Zenon DEF TellsSplit

\* Of the power (poll_tx_power).
LEMMA FreshPower ==
  ASSUME IInv, fresh, NEW off \in BOOLEAN, ~off
  PROVE  TellsPower(off)
<1>1. PICK rel \in 1..Scale : rel = radio.rel
  BY RadioHas, Parts, BridgeAssumption
<1>2. PICK mw : mw = ToMilliwatts(radio.rel, Transmits.base)
  OBVIOUS
<1>3. PICK max : FromRelative(rel, mw) = <<[rel |-> rel, mw |-> mw, max |-> max]>>
  BY Relative
<1>4. snap.power = <<[rel |-> rel, mw |-> mw, max |-> max]>>
  BY <1>1, <1>2, <1>3, FreshHas
<1>5. PICK level : level = Command("get_level", <<>>)
  OBVIOUS
<1>6. PICK power : power = Command("power2mW", <<rel>>)
  OBVIOUS
<1>7. level.name = "get_level" /\ power.name = "power2mW" /\ power.args[1] = rel
  BY <1>5, <1>6, Named
<1>8. Read(off, snap, level)[1][2] = rel
  BY <1>4, <1>7, ReadsLevel
<1>9. Read(off, snap, power)[1][2] = mw
  BY <1>4, <1>7, ReadsPower
<1> QED
  BY <1>1, <1>2, <1>5, <1>6, <1>8, <1>9 DEF TellsPower

\* Together: what clients read is what the radio is set to.
LEMMA Faithful ==
  ASSUME IInv
  PROVE  BridgeFaithful
<1> SUFFICES ASSUME fresh PROVE BridgeFaithful
  BY DEF BridgeFaithful
<1>1. PICK off \in BOOLEAN : off = FALSE
  OBVIOUS
<1>2. TellsMain(off) /\ TellsSplit(off) /\ TellsPower(off)
  BY <1>1, FreshMain, FreshSplit, FreshPower
<1>3. TellsMain(FALSE) /\ TellsSplit(FALSE) /\ TellsPower(FALSE)
  BY <1>1, <1>2, Zenon
<1> QED
  BY <1>3, Zenon DEF TellsMain, TellsSplit, TellsPower, Transmits, BridgeFaithful

\* No mode that the hub does not know is among the mutations of a session.
LEMMA MutsKnown ==
  ASSUME NEW s, SessionTyped(s), NEW i \in DOMAIN s.muts, s.muts[i].field \in ModeFields
  PROVE  s.muts[i].new # "Unknown"
<1>1. PICK muts : muts = s.muts
  OBVIOUS
<1>2. muts # <<>> /\ s.st # "idle"
  BY <1>1 DEF SessionTyped
<1>3. DueFreq(s) \/ DueSplit(s) \/ DueMode(s) \/ DueData(s)
  BY <1>1, <1>2, Due
<1>4. CASE DueFreq(s)
  <2>1. PICK hz, ch : ch = Change("freqA", hz) /\ muts = <<ch>>
    BY <1>1, <1>4 DEF DueFreq
  <2>2. i = 1 /\ muts[i] = ch
    BY <1>1, <2>1
  <2> QED
    BY <1>1, <2>1, <2>2 DEF Change, ModeFields
<1>5. CASE DueSplit(s)
  <2>1. PICK p, ch : ch = Change("split", p) /\ muts = <<ch>>
    BY <1>1, <1>5 DEF DueSplit
  <2>2. i = 1 /\ muts[i] = ch
    BY <1>1, <2>1
  <2> QED
    BY <1>1, <2>1, <2>2 DEF Change, ModeFields
<1>6. CASE DueMode(s)
  <2>1. PICK t, ch, data :
          t \in MainTokens /\ ch = Change("modeA", t.base) /\ data = Change("dataA", t.pkt) /\ muts = <<ch, data>>
    BY <1>1, <1>6 DEF DueMode
  <2>2. muts[i] \in {ch, data}
    <3>1. DOMAIN muts = 1..2 /\ muts[1] = ch /\ muts[2] = data
      BY <2>1
    <3>2. i = 1 \/ i = 2
      BY <1>1, <3>1
    <3> QED
      BY <3>1, <3>2
  <2>3. t.base # "Unknown"
    BY <2>1, MainToken
  <2> QED
    BY <1>1, <2>1, <2>2, <2>3 DEF Change, ModeFields
<1>7. CASE DueData(s)
  <2>1. PICK b, ch : ch = Change("dataA", b) /\ muts = <<ch>>
    BY <1>1, <1>7 DEF DueData
  <2>2. i = 1 /\ muts[i] = ch
    BY <1>1, <2>1
  <2> QED
    BY <1>1, <2>1, <2>2 DEF Change, ModeFields
<1> QED
  BY <1>3, <1>4, <1>5, <1>6, <1>7

\* The types that are checked.
LEMMA TypesHold ==
  ASSUME IInv
  PROVE  BridgeTypeOK
<1>1. radio.tokenA \in MainTokens /\ radio.freqA \in Hz /\ radio.split[2] \in Vfo
  BY RadioHas, Parts
<1>2. snap.modeA \in Modes /\ snap.freqA \in Hz \cup {0} /\ snap.split[2] \in Vfo
  BY Parts DEF SnapTyped, Sane
<1>3. poll.at \in Stages /\ poll.rel \in Levels \cup {0}
  BY Parts DEF PollTyped
<1>4. ASSUME NEW c \in Clients
      PROVE  /\ sess[c].st \in {"idle", "wait", "resume"}
             /\ sess[c].st = "wait" => sess[c].muts # <<>>
             /\ \A i \in DOMAIN sess[c].muts :
                  sess[c].muts[i].field \in ModeFields => sess[c].muts[i].new # "Unknown"
  <2>1. PICK s : s = sess[c] /\ SessionTyped(s)
    BY Parts DEF SessionsTyped
  <2>2. s.st \in {"idle", "wait", "resume"} /\ (s.st = "wait" => s.muts # <<>>)
    BY <2>1 DEF SessionTyped
  <2>3. \A i \in DOMAIN s.muts : s.muts[i].field \in ModeFields => s.muts[i].new # "Unknown"
    BY <2>1, MutsKnown
  <2> QED
    BY <2>1, <2>2, <2>3
<1> QED
  BY <1>1, <1>2, <1>3, <1>4 DEF BridgeTypeOK, Stages

\* After a poll that nothing came between clients read what the radio is set to, of both
\* VFOs, of split and of the power, and every variable has its type (poll,
\* poll_split_details, poll_tx_power; the reads of dispatch_plain).
THEOREM ReadsAreRight == Spec => []BridgeInv
<1>1. IInv => BridgeInv
  BY TypesHold, Faithful DEF BridgeInv
<1> QED
  BY <1>1, BridgeInvariant, PTL
------------------------------------------------------------------------------
(* What a single-VFO client can tell *)

\* What two deeds have in common that it cannot tell apart.
Hidden(here, there) ==
  /\ here.kind = there.kind /\ here.lines = there.lines
  /\ Len(here.muts) = Len(there.muts)
  /\ \A i \in DOMAIN here.muts : /\ there.muts[i] = MirrorChange(here.muts[i])
                                 /\ here.muts[i].field # "split"

\* What it is shown of a snapshot (presented_vfo, presented_vfo_name, presented_split).
SameView(sn, mi) ==
  /\ sn[FreqOf(sn.rx)] = mi[FreqOf(mi.rx)] /\ TokenOf(sn, sn.rx) = TokenOf(mi, mi.rx)
  /\ sn.power = mi.power /\ sn.ptt = mi.ptt /\ sn.rit = mi.rit /\ sn.xit = mi.xit

\* A single-VFO client sees VFO A, which is the one that is received with, and no split.
LEMMA Presenting ==
  ASSUME NEW one, one
  PROVE  /\ \A sn, v : Presented(one, sn, v) = sn.rx
         /\ \A v : PresentedName(one, v) = "A"
         /\ \A sn : PresentedSplit(one, sn) = FALSE
<1>1. \A sn, v : Presented(one, sn, v) = sn.rx
  BY DEF Presented
<1>2. \A v : PresentedName(one, v) = "A"
  BY DEF PresentedName
<1>3. \A sn : PresentedSplit(one, sn) = FALSE
  BY DEF PresentedSplit
<1> QED
  BY <1>1, <1>2, <1>3

\* The mirrored snapshot shows the same.
LEMMA MirrorHas ==
  ASSUME SnapTyped
  PROVE  SameView(snap, Mirror(snap)) /\ Mirror(snap).rx = "B" /\ snap.rx = "A"
<1>1. PICK mi : mi = Mirror(snap)
  OBVIOUS
<1>2. snap.rx = "A" /\ DOMAIN snap = Fields
  BY DEF SnapTyped, Sane, Whole
<1>3. /\ mi["rx"] = Other(snap.rx)
      /\ \A f \in Fields \ {"rx", "split"} : mi[f] = snap[MirrorField(f)]
  BY <1>1, <1>2 DEF Mirror, Fields
<1>4. mi["rx"] = "B"
  BY <1>2, <1>3 DEF Other
<1>5. /\ mi["freqB"] = snap["freqA"] /\ mi["modeB"] = snap["modeA"] /\ mi["dataB"] = snap["dataA"]
  BY <1>3 DEF Fields, MirrorField
<1>6. /\ mi["power"] = snap["power"] /\ mi["ptt"] = snap["ptt"]
      /\ mi["rit"] = snap["rit"] /\ mi["xit"] = snap["xit"]
  BY <1>3 DEF Fields, MirrorField
<1>7. SameView(snap, mi)
  BY <1>2, <1>4, <1>5, <1>6 DEF SameView, TokenOf, FreqOf, ModeOf, DataOf
<1> QED
  BY <1>1, <1>2, <1>4, <1>7

\* It reads the same of both.
ReadsAlike(one, sn, mi, cmd) == Read(one, sn, cmd) = Read(one, mi, cmd)

\* It is told the same (the reads of dispatch_plain).
LEMMA SameReads ==
  ASSUME NEW sn, NEW mi, SameView(sn, mi), NEW one, one, NEW cmd, cmd.name \in Reads
  PROVE  ReadsAlike(one, sn, mi, cmd)
<1>1. /\ sn[FreqOf(sn.rx)] = mi[FreqOf(mi.rx)] /\ TokenOf(sn, sn.rx) = TokenOf(mi, mi.rx)
      /\ sn.power = mi.power /\ sn.ptt = mi.ptt /\ sn.rit = mi.rit /\ sn.xit = mi.xit
  BY DEF SameView
<1>2. CASE cmd.name = "get_freq"
  BY <1>1, <1>2, Zenon DEF Read, ReadsAlike
<1>3. CASE cmd.name = "get_mode"
  BY <1>1, <1>3, Zenon DEF Read, ReadsAlike
<1>4. CASE cmd.name = "get_vfo"
  BY <1>4, Presenting, Zenon DEF Read, ReadsAlike
<1>5. CASE cmd.name = "get_vfo_info"
  BY <1>1, <1>5, Presenting, ZenonT(40) DEF Read, ReadsAlike
<1>6. CASE cmd.name = "get_split_vfo"
  BY <1>6, Presenting, Zenon DEF Read, ReadsAlike
<1>7. CASE cmd.name = "get_split_freq"
  BY <1>7, Zenon DEF Read, ReadsAlike
<1>8. CASE cmd.name = "get_split_mode"
  BY <1>8, Zenon DEF Read, ReadsAlike
<1>9. CASE cmd.name = "get_level"
  BY <1>1, <1>9, Zenon DEF Read, ReadsAlike
<1>10. CASE cmd.name = "power2mW"
  BY <1>1, <1>10, Zenon DEF Read, ReadsAlike
<1>11. CASE cmd.name = "get_ptt"
  BY <1>1, <1>11, Zenon DEF Read, ReadsAlike
<1>12. CASE cmd.name = "get_powerstat"
  BY <1>12, Zenon DEF Read, ReadsAlike
<1>13. CASE cmd.name = "get_rit"
  BY <1>1, <1>13, Zenon DEF Read, ReadsAlike
<1>14. CASE cmd.name = "get_xit"
  BY <1>1, <1>14, Zenon DEF Read, ReadsAlike
<1> QED
  BY <1>2, <1>3, <1>4, <1>5, <1>6, <1>7, <1>8, <1>9, <1>10, <1>11, <1>12, <1>13, <1>14 DEF Reads

\* Deeds that are hidden: a reply that is the same, one mutation, and two.
LEMMA SameHidden ==
  ASSUME NEW deed, deed.muts = <<>>
  PROVE  Hidden(deed, deed)
  BY DEF Hidden

\* One mutation, and its mirror image.
LEMMA OneHidden ==
  ASSUME NEW a, NEW b, NEW class, b = MirrorChange(a), a.field # "split"
  PROVE  Hidden(Mutate(<<a>>, class), Mutate(<<b>>, class))
<1>1. PICK here : here = Mutate(<<a>>, class)
  OBVIOUS
<1>2. PICK there : there = Mutate(<<b>>, class)
  OBVIOUS
<1>3. /\ here.kind = there.kind /\ here.lines = there.lines
      /\ here.muts = <<a>> /\ there.muts = <<b>>
  BY <1>1, <1>2 DEF Mutate
<1>4. Len(here.muts) = Len(there.muts)
  BY <1>3
<1>5. ASSUME NEW i \in DOMAIN here.muts
      PROVE  there.muts[i] = MirrorChange(here.muts[i]) /\ here.muts[i].field # "split"
  <2>1. i = 1 /\ here.muts[i] = a /\ there.muts[i] = b
    BY <1>3
  <2> QED
    BY <2>1
<1> QED
  BY <1>1, <1>2, <1>3, <1>4, <1>5 DEF Hidden

\* Two of them, and theirs.
LEMMA TwoHidden ==
  ASSUME NEW a, NEW b, NEW c, NEW d, NEW class, b = MirrorChange(a), a.field # "split",
         d = MirrorChange(c), c.field # "split"
  PROVE  Hidden(Mutate(<<a, c>>, class), Mutate(<<b, d>>, class))
<1>1. PICK here : here = Mutate(<<a, c>>, class)
  OBVIOUS
<1>2. PICK there : there = Mutate(<<b, d>>, class)
  OBVIOUS
<1>3. /\ here.kind = there.kind /\ here.lines = there.lines
      /\ here.muts = <<a, c>> /\ there.muts = <<b, d>>
  BY <1>1, <1>2 DEF Mutate
<1>4. Len(here.muts) = Len(there.muts)
  BY <1>3
<1>5. ASSUME NEW i \in DOMAIN here.muts
      PROVE  there.muts[i] = MirrorChange(here.muts[i]) /\ here.muts[i].field # "split"
  <2>1. /\ DOMAIN here.muts = 1..2 /\ here.muts[1] = a /\ here.muts[2] = c
        /\ there.muts[1] = b /\ there.muts[2] = d
    BY <1>3
  <2>2. i = 1 \/ i = 2
    BY <2>1
  <2> QED
    BY <2>1, <2>2
<1> QED
  BY <1>1, <1>2, <1>3, <1>4, <1>5 DEF Hidden

\* A change of the VFO that is received with is mirrored, others stay what they are.
LEMMA Mirrored ==
  /\ \A x : Change("freqB", x) = MirrorChange(Change("freqA", x)) /\ Change("freqA", x).field # "split"
  /\ \A x : Change("modeB", x) = MirrorChange(Change("modeA", x)) /\ Change("modeA", x).field # "split"
  /\ \A x : Change("dataB", x) = MirrorChange(Change("dataA", x)) /\ Change("dataA", x).field # "split"
  /\ \A f, x : f \in {"ptt", "rit", "xit"} =>
       Change(f, x) = MirrorChange(Change(f, x)) /\ Change(f, x).field # "split"
  BY DEF Change, MirrorChange, MirrorField

\* What it sets is mirrored (the sets of dispatch_plain); it does not change split.
LEMMA SetHidden ==
  ASSUME NEW sn, NEW mi, sn.rx = "A", mi.rx = "B", NEW one, one, NEW perms, NEW hasRit,
         NEW cmd, cmd.name \in Sets
  PROVE  Hidden(Set(one, perms, hasRit, sn, cmd), Set(one, perms, hasRit, mi, cmd))
<1>0. \A code : Failed(code).muts = <<>>
  BY DEF Failed, Lines
<1>1. /\ FreqOf(sn.rx) = "freqA" /\ ModeOf(sn.rx) = "modeA" /\ DataOf(sn.rx) = "dataA"
      /\ FreqOf(mi.rx) = "freqB" /\ ModeOf(mi.rx) = "modeB" /\ DataOf(mi.rx) = "dataB"
  BY DEF FreqOf, ModeOf, DataOf
<1>2. CASE cmd.name = "set_freq"
  <2>1. CASE cmd.args = <<>>
    <3>1. ASSUME NEW s PROVE Set(one, perms, hasRit, s, cmd) = Failed("einval")
      BY <1>2, <2>1, Zenon DEF Set
    <3> QED
      BY <1>0, <3>1, SameHidden
  <2>2. CASE cmd.args # <<>>
    <3>1. PICK a, b : a = Change("freqA", cmd.args[1]) /\ b = Change("freqB", cmd.args[1])
      OBVIOUS
    <3>2. b = MirrorChange(a) /\ a.field # "split"
      BY <3>1, Mirrored
    <3>3. ASSUME NEW s
          PROVE  Set(one, perms, hasRit, s, cmd) =
                   Mutate(<<Change(FreqOf(s.rx), cmd.args[1])>>, "ModeledWrite")
      BY <1>2, <2>2, Zenon DEF Set
    <3>4. PICK class : class = "ModeledWrite"
      OBVIOUS
    <3>5. Set(one, perms, hasRit, sn, cmd) = Mutate(<<a>>, class)
      BY <1>1, <3>1, <3>3, <3>4, Zenon
    <3>6. Set(one, perms, hasRit, mi, cmd) = Mutate(<<b>>, class)
      BY <1>1, <3>1, <3>3, <3>4, Zenon
    <3> QED
      BY <3>2, <3>5, <3>6, OneHidden
  <2> QED
    BY <2>1, <2>2
<1>3. CASE cmd.name = "set_mode"
  <2>1. CASE cmd.args = <<>>
    <3>1. ASSUME NEW s PROVE Set(one, perms, hasRit, s, cmd) = Failed("einval")
      BY <1>3, <2>1, Zenon DEF Set
    <3> QED
      BY <1>0, <3>1, SameHidden
  <2>2. CASE cmd.args # <<>> /\ ~Known(cmd.args[1])
    <3>1. ASSUME NEW s PROVE Set(one, perms, hasRit, s, cmd) = Failed("einval")
      BY <1>3, <2>2, SetNoModeIs
    <3> QED
      BY <1>0, <3>1, SameHidden
  <2>3. CASE cmd.args # <<>> /\ Known(cmd.args[1])
    <3>1. PICK arg, class : arg = cmd.args[1] /\ class = "ModeledWrite"
      OBVIOUS
    <3>2. PICK a, b : a = Change("modeA", arg.base) /\ b = Change("modeB", arg.base)
      OBVIOUS
    <3>3. PICK c, d : c = Change("dataA", arg.pkt) /\ d = Change("dataB", arg.pkt)
      OBVIOUS
    <3>4. b = MirrorChange(a) /\ a.field # "split" /\ d = MirrorChange(c) /\ c.field # "split"
      BY <3>2, <3>3, Mirrored
    <3>5. ASSUME NEW s
          PROVE  Set(one, perms, hasRit, s, cmd) =
                   Mutate(<<Change(ModeOf(s.rx), cmd.args[1].base), Change(DataOf(s.rx), cmd.args[1].pkt)>>,
                          "ModeledWrite")
      BY <1>3, <2>3, Zenon DEF Set
    <3>6. Set(one, perms, hasRit, sn, cmd) = Mutate(<<a, c>>, class)
      BY <1>1, <3>1, <3>2, <3>3, <3>5, Zenon
    <3>7. Set(one, perms, hasRit, mi, cmd) = Mutate(<<b, d>>, class)
      BY <1>1, <3>1, <3>2, <3>3, <3>5, Zenon
    <3> QED
      BY <3>4, <3>6, <3>7, TwoHidden
  <2> QED
    BY <2>1, <2>2, <2>3
<1>4. CASE cmd.name = "set_split_vfo"
  <2>1. PICK code : code = IF ~Allows(perms, "ModeledWrite") THEN "einval"
                           ELSE IF cmd.args[1] = 1 THEN "enavail" ELSE "ok"
    OBVIOUS
  <2>2. ASSUME NEW s PROVE Set(one, perms, hasRit, s, cmd) = Failed(code)
    BY <1>4, <2>1, SetSplitIs, ZenonT(40)
  <2> QED
    BY <1>0, <2>2, SameHidden
<1>5. CASE cmd.name = "set_ptt"
  <2>1. PICK a : a = Change("ptt", cmd.args[1] \in 1..3)
    OBVIOUS
  <2>2. a = MirrorChange(a) /\ a.field # "split"
    BY <2>1, Mirrored
  <2>3. /\ Set(one, perms, hasRit, sn, cmd) = Mutate(<<a>>, "PttWrite")
        /\ Set(one, perms, hasRit, mi, cmd) = Mutate(<<a>>, "PttWrite")
    BY <1>5, <2>1 DEF Set
  <2> QED
    BY <2>2, <2>3, OneHidden
<1>6. CASE cmd.name \in {"set_vfo", "list_vfos"}
  <2>1. PICK code : code = IF Allows(perms, "ModeledWrite") THEN "ok" ELSE "einval"
    OBVIOUS
  <2>2. /\ Set(one, perms, hasRit, sn, cmd) = Failed(code)
        /\ Set(one, perms, hasRit, mi, cmd) = Failed(code)
    BY <1>6, <2>1 DEF Set
  <2> QED
    BY <1>0, <2>2, SameHidden
<1>7. CASE cmd.name \in {"set_rit", "set_xit"}
  <2>1. PICK f \in {"rit", "xit"} : f = IF cmd.name = "set_rit" THEN "rit" ELSE "xit"
    OBVIOUS
  <2>2. PICK a : a = Change(f, <<cmd.args[1] # 0, cmd.args[1]>>)
    OBVIOUS
  <2>3. a = MirrorChange(a) /\ a.field # "split"
    BY <2>1, <2>2, Mirrored
  <2>4. PICK deed : deed = IF ~hasRit THEN Failed("enavail")
                           ELSE IF cmd.args = <<>> THEN Failed("einval") ELSE Mutate(<<a>>, "ModeledWrite")
    OBVIOUS
  <2>5. /\ Set(one, perms, hasRit, sn, cmd) = deed
        /\ Set(one, perms, hasRit, mi, cmd) = deed
    BY <1>7, <2>1, <2>2, <2>4 DEF Set
  <2>6. Hidden(deed, deed)
    BY <1>0, <2>3, <2>4, SameHidden, OneHidden
  <2> QED
    BY <2>5, <2>6
<1> QED
  BY <1>2, <1>3, <1>4, <1>5, <1>6, <1>7 DEF Sets

\* Whatever it asks for, in the plain form (dispatch_plain, handle_line).
LEMMA DispatchHidden ==
  ASSUME NEW sn, NEW mi, SameView(sn, mi), sn.rx = "A", mi.rx = "B", NEW one, one,
         NEW perms, NEW hasRit, NEW cmd
  PROVE  Hidden(Dispatch(one, perms, hasRit, sn, cmd), Dispatch(one, perms, hasRit, mi, cmd))
<1>1. /\ \A code : Failed(code).muts = <<>>
      /\ \A lines : Lines(lines).muts = <<>>
  BY DEF Failed, Lines
<1>2. CASE cmd.name \in Reads
  <2>1. PICK deed : deed = IF Allows(perms, "ModeledRead") THEN Lines(Read(one, sn, cmd)) ELSE Failed("einval")
    OBVIOUS
  <2>2. Read(one, sn, cmd) = Read(one, mi, cmd)
    <3>1. ReadsAlike(one, sn, mi, cmd)
      BY <1>2, SameReads
    <3> QED
      BY <3>1 DEF ReadsAlike
  <2>3. cmd.name \notin Sets /\ cmd.name \notin {"dump_state", "chk_vfo"}
    BY <1>2 DEF Reads, Sets
  <2>4. ASSUME NEW s
        PROVE  Dispatch(one, perms, hasRit, s, cmd) =
                 IF Allows(perms, "ModeledRead") THEN Lines(Read(one, s, cmd)) ELSE Failed("einval")
    BY <1>2, <2>3, Zenon DEF Dispatch
  <2>5. Dispatch(one, perms, hasRit, sn, cmd) = deed
    BY <2>1, <2>4, Zenon
  <2>6. Dispatch(one, perms, hasRit, mi, cmd) = deed
    BY <2>1, <2>2, <2>4, Zenon
  <2>7. deed.muts = <<>>
    BY <1>1, <2>1, Zenon
  <2> QED
    BY <2>5, <2>6, <2>7, SameHidden
<1>3. CASE cmd.name \in Sets
  <2>1. cmd.name \notin Reads /\ cmd.name \notin {"dump_state", "chk_vfo"}
    BY <1>3 DEF Reads, Sets
  <2>2. ASSUME NEW s
        PROVE  Dispatch(one, perms, hasRit, s, cmd) = Set(one, perms, hasRit, s, cmd)
    BY <1>3, <2>1, Zenon DEF Dispatch
  <2>3. Hidden(Set(one, perms, hasRit, sn, cmd), Set(one, perms, hasRit, mi, cmd))
    BY <1>3, SetHidden
  <2> QED
    BY <2>2, <2>3, Zenon
<1>4. CASE cmd.name \notin Reads \cup Sets
  <2>1. PICK deed : deed = Dispatch(one, perms, hasRit, sn, cmd)
    OBVIOUS
  <2>2. Dispatch(one, perms, hasRit, mi, cmd) = deed
    BY <1>4, <2>1, Zenon DEF Dispatch
  <2>3. \/ deed = Failed("enavail") \/ \E lines : deed = Lines(lines)
    BY <1>4, <2>1, Zenon DEF Dispatch
  <2>4. deed.muts = <<>>
    BY <1>1, <2>3, Zenon
  <2> QED
    BY <2>1, <2>2, <2>4, SameHidden
<1> QED
  BY <1>2, <1>3, <1>4

\* Nor does a line tell it (handle_line, in the plain form).
LEMMA LineHidden ==
  ASSUME NEW sn, NEW mi, SameView(sn, mi), sn.rx = "A", mi.rx = "B", NEW one, one,
         NEW perms, NEW hasRit, NEW off, ~off, NEW cmd
  PROVE  Hidden(HandleLine(one, perms, hasRit, sn, off, cmd), HandleLine(one, perms, hasRit, mi, off, cmd))
<1>1. CASE cmd.name = "quit"
  <2>1. PICK none : none = Lines(<<>>)
    OBVIOUS
  <2>2. none = [kind |-> "reply", muts |-> <<>>, class |-> "none", lines |-> <<>>]
    BY <2>1 DEF Lines
  <2>3. PICK kind : kind = IF off THEN "reply" ELSE "quit"
    OBVIOUS
  <2>4. PICK deed : deed = [none EXCEPT !.kind = kind]
    OBVIOUS
  <2>5. deed.muts = <<>>
    BY <2>2, <2>4
  <2>6. ASSUME NEW s PROVE HandleLine(one, perms, hasRit, s, off, cmd) = deed
    BY <1>1, <2>1, <2>3, <2>4, Zenon DEF HandleLine
  <2>7. Hidden(deed, deed)
    BY <2>5, SameHidden
  <2> QED
    BY <2>6, <2>7, Zenon
<1>2. CASE cmd.name # "quit"
  <2>1. ASSUME NEW s
        PROVE  HandleLine(one, perms, hasRit, s, off, cmd) = Dispatch(one, perms, hasRit, s, cmd)
    BY <1>2, Zenon DEF HandleLine
  <2>2. Hidden(Dispatch(one, perms, hasRit, sn, cmd), Dispatch(one, perms, hasRit, mi, cmd))
    BY DispatchHidden
  <2> QED
    BY <2>1, <2>2, Zenon
<1> QED
  BY <1>1, <1>2

\* What HiddenFromLoggers has before the first command, at any time.
AlwaysHidden ==
  \A cmd, perms : Hidden(HandleLine(TRUE, perms, TRUE, snap, FALSE, cmd),
                        HandleLine(TRUE, perms, TRUE, Mirror(snap), FALSE, cmd))

\* A single-VFO client cannot tell which of the radio's VFOs it works on, whatever it
\* asks and at any time, and does not change split (presented_vfo).
THEOREM LoggersHidden == Spec => [](AlwaysHidden /\ HiddenFromLoggers)
<1>1. ASSUME IInv
      PROVE  AlwaysHidden /\ HiddenFromLoggers
  <2>1. PICK mi : mi = Mirror(snap)
    OBVIOUS
  <2>2. SameView(snap, mi) /\ mi.rx = "B" /\ snap.rx = "A"
    BY <1>1, <2>1, MirrorHas, Parts
  <2>3. ASSUME NEW cmd, NEW perms
        PROVE  Hidden(HandleLine(TRUE, perms, TRUE, snap, FALSE, cmd),
                      HandleLine(TRUE, perms, TRUE, Mirror(snap), FALSE, cmd))
    <3>1. PICK one, off : one = TRUE /\ off = FALSE
      OBVIOUS
    <3>2. Hidden(HandleLine(one, perms, one, snap, off, cmd), HandleLine(one, perms, one, mi, off, cmd))
      BY <2>2, <3>1, LineHidden
    <3> QED
      BY <2>1, <3>1, <3>2, Zenon
  <2>4. AlwaysHidden
    BY <2>3, Zenon DEF AlwaysHidden
  <2>5. HiddenFromLoggers
    BY <2>3, ZenonT(40) DEF HiddenFromLoggers, Hidden
  <2> QED
    BY <2>4, <2>5
<1> QED
  BY <1>1, BridgeInvariant, PTL
------------------------------------------------------------------------------
(* Extended replies *)

\* None of the commands that are asked ends the connection.
LEMMA NoQuit ==
  ASSUME NEW cmd \in Asked
  PROVE  cmd.name # "quit"
<1> DEFINE others == {"dump_state", "chk_vfo", "set_vfo", "list_vfos", "halt"}
<1>1. \/ cmd \in {Command(n, <<>>) : n \in (Reads \ {"power2mW"}) \cup others}
      \/ cmd \in {Command("get_vfo_info", <<v>>) : v \in Vfo}
      \/ cmd \in {Command("power2mW", <<l>>) : l \in Levels}
      \/ cmd \in {Command(n, <<i>>) : n \in {"set_ptt", "set_rit", "set_xit"}, i \in 0..1}
      \/ cmd \in Commands
  BY DEF Asked
<1>2. CASE cmd \in {Command(n, <<>>) : n \in (Reads \ {"power2mW"}) \cup others}
  <2>1. PICK n, a : cmd = Command(n, a) /\ n \in Reads \cup others
    BY <1>2
  <2>2. "quit" \notin Reads
    BY DEF Reads
  <2> QED
    BY <2>1, <2>2, Named
<1>3. CASE cmd \in {Command("get_vfo_info", <<v>>) : v \in Vfo}
  <2>1. PICK v \in Vfo : cmd = Command("get_vfo_info", <<v>>)
    BY <1>3
  <2> QED
    BY <2>1, Named
<1>6. CASE cmd \in {Command("power2mW", <<l>>) : l \in Levels}
  <2>1. PICK l \in Levels : cmd = Command("power2mW", <<l>>)
    BY <1>6
  <2> QED
    BY <2>1, Named
<1>4. CASE cmd \in {Command(n, <<i>>) : n \in {"set_ptt", "set_rit", "set_xit"}, i \in 0..1}
  <2>1. PICK n \in {"set_ptt", "set_rit", "set_xit"}, i \in 0..1 : cmd = Command(n, <<i>>)
    BY <1>4
  <2> QED
    BY <2>1, Named
<1>5. CASE cmd \in Commands
  <2>1. PICK n, a : n # "quit" /\ cmd = Command(n, a)
    <3>1. CASE \E hz \in Hz : cmd = Command("set_freq", <<hz>>)
      BY <3>1
    <3>2. CASE \E t \in MainTokens \cup {NoToken} : cmd = Command("set_mode", <<t>>)
      BY <3>2
    <3>3. CASE \E on \in 0..1, v \in Vfo : cmd = Command("set_split_vfo", <<on, v>>)
      BY <3>3
    <3> QED
      BY <1>5, <3>1, <3>2, <3>3, CommandKinds
  <2> QED
    BY <2>1, Named
<1> QED
  BY <1>1, <1>2, <1>3, <1>4, <1>5, <1>6

\* How an extended reply is to be.
EndsWell(told) ==
  /\ told[1][1] = "echo"
  /\ \A i \in DOMAIN told : told[i][1] = "RPRT" <=> i = Len(told)

\* After the lines of a reply that has no report comes one (handle_ext).
LEMMA EndsAfter ==
  ASSUME NEW S, NEW lines \in Seq(S), NEW e, NEW r, e[1] = "echo", r[1] = "RPRT",
         \A i \in DOMAIN lines : lines[i][1] # "RPRT"
  PROVE  EndsWell(<<e>> \o lines \o <<r>>)
<1>1. PICK T : T = S \cup {e, r}
  OBVIOUS
<1>2. PICK n \in Nat : n = Len(lines)
  OBVIOUS
<1>3. <<e>> \in Seq(T) /\ lines \in Seq(T) /\ <<r>> \in Seq(T)
  BY <1>1
<1>4. PICK first : first = <<e>> \o lines
  OBVIOUS
<1>5. /\ first \in Seq(T) /\ Len(first) = n + 1 /\ first[1] = e
      /\ \A i \in 2..n + 1 : first[i] = lines[i - 1]
  BY <1>2, <1>3, <1>4
<1>6. PICK told : told = first \o <<r>>
  OBVIOUS
<1>7. /\ told \in Seq(T) /\ Len(told) = n + 2 /\ told[n + 2] = r
      /\ \A i \in 1..n + 1 : told[i] = first[i]
  BY <1>3, <1>5, <1>6
<1>8. told[1] = e
  BY <1>5, <1>7
<1>9. ASSUME NEW i \in DOMAIN told
      PROVE  told[i][1] = "RPRT" <=> i = Len(told)
  <2>1. i \in 1..n + 2
    BY <1>7
  <2>2. CASE i = n + 2
    BY <1>7, <2>2
  <2>3. CASE i = 1
    BY <1>7, <1>8, <2>3
  <2>4. CASE i \in 2..n + 1
    <3>1. told[i] = lines[i - 1] /\ i - 1 \in DOMAIN lines
      BY <1>2, <1>5, <1>7, <2>4
    <3> QED
      BY <1>7, <2>4, <3>1
  <2> QED
    BY <2>1, <2>2, <2>3, <2>4
<1> QED
  BY <1>4, <1>6, <1>8, <1>9 DEF EndsWell

\* One that is a report only follows the name at once.
LEMMA EndsAt ==
  ASSUME NEW e, NEW r, e[1] = "echo", r[1] = "RPRT"
  PROVE  EndsWell(<<e>> \o <<r>> \o <<>>)
<1>1. PICK told : told = <<e>> \o <<r>>
  OBVIOUS
<1>2. told \o <<>> = told
  <2>1. told \in Seq({e, r})
    BY <1>1
  <2> QED
    BY <2>1, ConcatEmptySeq
<1>3. Len(told) = 2 /\ DOMAIN told = 1..2 /\ told[1] = e /\ told[2] = r
  BY <1>1
<1>4. ASSUME NEW i \in DOMAIN told
      PROVE  told[i][1] = "RPRT" <=> i = Len(told)
  <2>1. i = 1 \/ i = 2
    BY <1>3
  <2> QED
    BY <1>3, <2>1
<1> QED
  BY <1>1, <1>2, <1>3, <1>4 DEF EndsWell

\* The lines of a reply: a report only, or none (Lines, Failed).
Fine(lines) ==
  \/ \E code : lines = <<Report(code)>>
  \/ \E S : lines \in Seq(S) /\ \A i \in DOMAIN lines : lines[i][1] # "RPRT"

\* Either is told of well (handle_ext).
LEMMA ExtendedWell ==
  ASSUME NEW name, NEW lines, Fine(lines)
  PROVE  EndsWell(Extended(name, lines))
<1>1. PICK e : e = <<"echo", name>>
  OBVIOUS
<1>2. e[1] = "echo"
  BY <1>1
<1>3. \A code : Report(code)[1] = "RPRT"
  BY DEF Report
<1>4. CASE \E code : lines = <<Report(code)>>
  <2>1. PICK r : lines = <<r>> /\ r[1] = "RPRT"
    BY <1>3, <1>4
  <2>2. 1 \in DOMAIN lines /\ lines[1][1] = "RPRT"
    BY <2>1
  <2>3. Extended(name, lines) = <<e>> \o lines \o <<>>
    BY <1>1, <2>2, Zenon DEF Extended
  <2> QED
    BY <1>2, <2>1, <2>3, EndsAt
<1>5. CASE \E S : lines \in Seq(S) /\ \A i \in DOMAIN lines : lines[i][1] # "RPRT"
  <2>1. PICK S : lines \in Seq(S) /\ \A i \in DOMAIN lines : lines[i][1] # "RPRT"
    BY <1>5
  <2>2. PICK r : r = Report("ok")
    OBVIOUS
  <2>3. Extended(name, lines) = <<e>> \o lines \o <<r>>
    BY <1>1, <2>1, <2>2, Zenon DEF Extended
  <2>4. r[1] = "RPRT"
    BY <1>3, <2>2
  <2> QED
    BY <1>2, <2>1, <2>3, <2>4, EndsAfter
<1> QED
  BY <1>4, <1>5 DEF Fine

\* Lines without a report: one, two and four of them.
LEMMA FineLines ==
  /\ \A x : x[1] # "RPRT" => Fine(<<x>>)
  /\ \A x, y : x[1] # "RPRT" /\ y[1] # "RPRT" => Fine(<<x, y>>)
  /\ \A x, y, z, w : x[1] # "RPRT" /\ y[1] # "RPRT" /\ z[1] # "RPRT" /\ w[1] # "RPRT" => Fine(<<x, y, z, w>>)
<1>1. ASSUME NEW x, x[1] # "RPRT"
      PROVE  Fine(<<x>>)
  <2>1. PICK lines : lines = <<x>>
    OBVIOUS
  <2>2. lines \in Seq({x}) /\ \A i \in DOMAIN lines : lines[i] = x
    BY <2>1
  <2> QED
    BY <1>1, <2>1, <2>2 DEF Fine
<1>2. ASSUME NEW x, NEW y, x[1] # "RPRT", y[1] # "RPRT"
      PROVE  Fine(<<x, y>>)
  <2>1. PICK lines : lines = <<x, y>>
    OBVIOUS
  <2>2. lines \in Seq({x, y}) /\ \A i \in DOMAIN lines : lines[i] \in {x, y}
    BY <2>1, ElementOfSeq
  <2> QED
    BY <1>2, <2>1, <2>2 DEF Fine
<1>3. ASSUME NEW x, NEW y, NEW z, NEW w, x[1] # "RPRT", y[1] # "RPRT", z[1] # "RPRT", w[1] # "RPRT"
      PROVE  Fine(<<x, y, z, w>>)
  <2>1. PICK lines : lines = <<x, y, z, w>>
    OBVIOUS
  <2>2. lines \in Seq({x, y, z, w}) /\ \A i \in DOMAIN lines : lines[i] \in {x, y, z, w}
    BY <2>1, ElementOfSeq
  <2> QED
    BY <1>3, <2>1, <2>2 DEF Fine
<1>4. /\ \A x : x[1] # "RPRT" => Fine(<<x>>)
  BY <1>1
<1>5. \A x, y : x[1] # "RPRT" /\ y[1] # "RPRT" => Fine(<<x, y>>)
  BY <1>2
<1>6. \A x, y, z, w : x[1] # "RPRT" /\ y[1] # "RPRT" /\ z[1] # "RPRT" /\ w[1] # "RPRT" => Fine(<<x, y, z, w>>)
  BY <1>3
<1> QED
  BY <1>4, <1>5, <1>6

\* Every labelled line is one without a report, but that with the label of one.
LEMMA Labelled ==
  /\ \A code : Fine(<<Report(code)>>)
  /\ \A label, x : label # "RPRT" => Fine(<<<<label, x>>>>)
  /\ \A label, x, other, y : label # "RPRT" /\ other # "RPRT" => Fine(<<<<label, x>>, <<other, y>>>>)
<1>1. \A label, x : <<label, x>>[1] = label
  OBVIOUS
<1>2. \A code : Fine(<<Report(code)>>)
  BY DEF Fine
<1>3. ASSUME NEW label, NEW x, label # "RPRT"
      PROVE  Fine(<<<<label, x>>>>)
  <2>1. PICK line : line = <<label, x>>
    OBVIOUS
  <2>2. line[1] # "RPRT"
    BY <1>1, <1>3, <2>1
  <2> QED
    BY <2>1, <2>2, FineLines
<1>4. ASSUME NEW label, NEW x, NEW other, NEW y, label # "RPRT", other # "RPRT"
      PROVE  Fine(<<<<label, x>>, <<other, y>>>>)
  <2>1. PICK line, next : line = <<label, x>> /\ next = <<other, y>>
    OBVIOUS
  <2>2. line[1] # "RPRT" /\ next[1] # "RPRT"
    BY <1>1, <1>4, <2>1
  <2> QED
    BY <2>1, <2>2, FineLines
<1> QED
  BY <1>2, <1>3, <1>4

\* The lines of every read are such (Read).
LEMMA ReadsFine ==
  ASSUME NEW sn, NEW single \in BOOLEAN, NEW cmd, cmd.name \in Reads
  PROVE  Fine(Read(single, sn, cmd))
<1>1. CASE cmd.name = "get_freq"
  BY <1>1, Labelled, Zenon DEF Read
<1>2. CASE cmd.name = "get_mode"
  BY <1>2, Labelled, Zenon DEF Read
<1>3. CASE cmd.name = "get_vfo"
  BY <1>3, Labelled, Zenon DEF Read
<1>4. CASE cmd.name = "get_vfo_info"
  <2>1. PICK a, b, c, d :
          Read(single, sn, cmd) = <<<<"get_vfo_info", a>>, <<"Freq", b>>, <<"Mode", c>>, <<"Split", d>>>>
    BY <1>4, Zenon DEF Read
  <2>2. PICK x, y, z, w : /\ x = <<"get_vfo_info", a>> /\ y = <<"Freq", b>>
                          /\ z = <<"Mode", c>> /\ w = <<"Split", d>>
    OBVIOUS
  <2>3. x[1] # "RPRT" /\ y[1] # "RPRT" /\ z[1] # "RPRT" /\ w[1] # "RPRT"
    BY <2>2
  <2> QED
    BY <2>1, <2>2, <2>3, FineLines
<1>5. CASE cmd.name = "get_split_vfo"
  BY <1>5, Labelled, Zenon DEF Read
<1>6. CASE cmd.name = "get_split_freq"
  BY <1>6, Labelled, Zenon DEF Read
<1>7. CASE cmd.name = "get_split_mode"
  BY <1>7, Labelled, Zenon DEF Read
<1>8. CASE cmd.name = "get_level"
  BY <1>8, Labelled, Zenon DEF Read
<1>9. CASE cmd.name = "power2mW"
  BY <1>9, Labelled, Zenon DEF Read
<1>10. CASE cmd.name = "get_ptt"
  BY <1>10, Labelled, Zenon DEF Read
<1>11. CASE cmd.name = "get_powerstat"
  BY <1>11, Labelled, Zenon DEF Read
<1>12. CASE cmd.name = "get_rit"
  BY <1>12, Labelled, Zenon DEF Read
<1>13. CASE cmd.name = "get_xit"
  BY <1>13, Labelled, Zenon DEF Read
<1> QED
  BY <1>1, <1>2, <1>3, <1>4, <1>5, <1>6, <1>7, <1>8, <1>9, <1>10, <1>11, <1>12, <1>13 DEF Reads

\* A set is refused, or asks for mutations (the sets of dispatch_plain).
Answered(deed) == \/ \E code : deed = Failed(code)
                  \/ \E muts, class : deed = Mutate(muts, class)

\* Every set is answered so (Set).
LEMMA SetAnswered ==
  ASSUME NEW sn, NEW single \in BOOLEAN, NEW perms, NEW hasRit, NEW cmd, cmd.name \in Sets
  PROVE  Answered(Set(single, perms, hasRit, sn, cmd))
<1>1. CASE cmd.name = "set_freq"
  BY <1>1, Zenon DEF Set, Answered
<1>2. CASE cmd.name = "set_mode"
  BY <1>2, Zenon DEF Set, Answered
<1>3. CASE cmd.name = "set_split_vfo"
  BY <1>3, Zenon DEF Set, Answered
<1>4. CASE cmd.name = "set_ptt"
  BY <1>4, Zenon DEF Set, Answered
<1>5. CASE cmd.name \in {"set_vfo", "list_vfos"}
  BY <1>5, Zenon DEF Set, Answered
<1>6. CASE cmd.name \in {"set_rit", "set_xit"}
  BY <1>6, Zenon DEF Set, Answered
<1> QED
  BY <1>1, <1>2, <1>3, <1>4, <1>5, <1>6 DEF Sets

\* Whatever is asked, the reply is lines of that kind, or there are mutations to apply.
LEMMA DispatchAnswers ==
  ASSUME NEW sn, NEW single \in BOOLEAN, NEW perms, NEW hasRit, NEW cmd
  PROVE  \/ \E lines : Dispatch(single, perms, hasRit, sn, cmd) = Lines(lines) /\ Fine(lines)
         \/ Dispatch(single, perms, hasRit, sn, cmd).kind = "apply"
<1>1. PICK deed : deed = Dispatch(single, perms, hasRit, sn, cmd)
  OBVIOUS
<1>2. ASSUME NEW code, deed = Failed(code)
      PROVE  \E lines : deed = Lines(lines) /\ Fine(lines)
  BY <1>2, Labelled DEF Failed
<1>3. CASE cmd.name \in Reads
  <2>1. cmd.name \notin Sets /\ cmd.name \notin {"dump_state", "chk_vfo"}
    BY <1>3 DEF Reads, Sets
  <2>2. deed = Lines(Read(single, sn, cmd)) \/ deed = Failed("einval")
    BY <1>1, <1>3, <2>1, Zenon DEF Dispatch
  <2>3. Fine(Read(single, sn, cmd))
    BY <1>3, ReadsFine
  <2> QED
    BY <1>1, <1>2, <2>2, <2>3
<1>4. CASE cmd.name \in Sets
  <2>1. cmd.name \notin Reads /\ cmd.name \notin {"dump_state", "chk_vfo"}
    BY <1>4 DEF Reads, Sets
  <2>2. deed = Set(single, perms, hasRit, sn, cmd)
    BY <1>1, <1>4, <2>1, Zenon DEF Dispatch
  <2>3. Answered(deed)
    BY <1>4, <2>2, SetAnswered
  <2>4. (\E muts, class : deed = Mutate(muts, class)) => deed.kind = "apply"
    BY DeedIs
  <2> QED
    BY <1>1, <1>2, <2>3, <2>4 DEF Answered
<1>5. CASE cmd.name \notin Reads \cup Sets
  <2>1. \/ deed = Lines(<<<<"dump", 0>>>>) \/ deed = Lines(<<<<"vfo mode", 0>>>>)
        \/ deed = Failed("enavail")
    BY <1>1, <1>5, Zenon DEF Dispatch
  <2>2. Fine(<<<<"dump", 0>>>>) /\ Fine(<<<<"vfo mode", 0>>>>)
    BY Labelled, Zenon
  <2>3. deed = Failed("enavail") \/ \E lines : deed = Lines(lines) /\ Fine(lines)
    BY <2>1, <2>2, Zenon
  <2> QED
    BY <1>1, <1>2, <2>3
<1> QED
  BY <1>3, <1>4, <1>5

\* What an extended client is told of a command, when its mutations are accepted.
Reply(deed, cmd) ==
  IF deed.kind = "apply" THEN Extended(cmd.name, <<OutcomeReport(TRUE)>>) ELSE deed.lines

\* Whatever line it sends, the reply ends well (handle_ext).
LEMMA LineEnds ==
  ASSUME NEW sn, NEW single \in BOOLEAN, NEW perms, NEW on \in BOOLEAN, on, NEW cmd, cmd.name # "quit"
  PROVE  EndsWell(Reply(HandleLine(single, perms, on, sn, on, cmd), cmd))
<1>1. PICK deed : deed = HandleLine(single, perms, on, sn, on, cmd)
  OBVIOUS
<1>2. PICK plain : plain = Dispatch(single, perms, on, sn, cmd)
  OBVIOUS
<1>3. \A lines : Lines(lines).kind = "reply" /\ Lines(lines).lines = lines
  BY DEF Lines
<1>4. CASE cmd.name = "list_vfos"
  <2>1. PICK e, line, r : /\ e = <<"echo", "set_vfo">> /\ r = Report("ok")
                          /\ line = <<"VFO list", IF single THEN {"A"} ELSE {"A", "B"}>>
    BY Zenon
  <2>2. deed = Lines(<<e, line, r>>)
    BY <1>1, <1>4, <2>1, Zenon DEF HandleLine
  <2>3. Reply(deed, cmd) = <<e, line, r>>
    BY <1>3, <2>2 DEF Reply
  <2>4. e[1] = "echo" /\ r[1] = "RPRT"
    BY <2>1 DEF Report
  <2>5. line[1] # "RPRT"
    <3>1. PICK label : label = "VFO list"
      BY Zenon
    <3>2. label # "RPRT"
      BY <3>1, Zenon
    <3>3. PICK x : line = <<label, x>>
      BY <2>1, <3>1, Zenon
    <3> QED
      BY <3>2, <3>3
  <2>6. PICK told : told = <<e, line, r>>
    OBVIOUS
  <2>7. Len(told) = 3 /\ DOMAIN told = 1..3 /\ told[1] = e /\ told[2] = line /\ told[3] = r
    BY <2>6
  <2>8. ASSUME NEW i \in DOMAIN told
        PROVE  told[i][1] = "RPRT" <=> i = Len(told)
    <3>1. i = 1 \/ i = 2 \/ i = 3
      BY <2>7
    <3> QED
      BY <2>4, <2>5, <2>7, <3>1
  <2>9. EndsWell(told)
    BY <2>4, <2>7, <2>8 DEF EndsWell
  <2> QED
    BY <1>1, <2>3, <2>6, <2>9
<1>5. CASE cmd.name # "list_vfos"
  <2>1. deed = IF plain.kind = "reply" THEN Lines(Extended(cmd.name, plain.lines)) ELSE plain
    BY <1>1, <1>2, <1>5, Zenon DEF HandleLine
  <2>2. CASE plain.kind = "apply"
    <3>1. deed.kind = "apply"
      BY <2>1, <2>2
    <3>2. \E code : <<OutcomeReport(TRUE)>> = <<Report(code)>>
      BY DEF OutcomeReport
    <3>3. EndsWell(Extended(cmd.name, <<OutcomeReport(TRUE)>>))
      BY <3>2, ExtendedWell DEF Fine
    <3> QED
      BY <1>1, <3>1, <3>3 DEF Reply
  <2>3. CASE \E lines : plain = Lines(lines) /\ Fine(lines)
    <3>1. PICK lines : plain = Lines(lines) /\ Fine(lines)
      BY <2>3
    <3>2. PICK told : told = Extended(cmd.name, lines)
      OBVIOUS
    <3>3. deed = Lines(told)
      BY <1>3, <2>1, <3>1, <3>2
    <3>4. Reply(deed, cmd) = told
      BY <1>3, <3>3 DEF Reply
    <3> QED
      BY <1>1, <3>1, <3>2, <3>4, ExtendedWell
  <2> QED
    BY <1>2, <2>2, <2>3, DispatchAnswers
<1> QED
  BY <1>4, <1>5

\* What ExtendedEnds has before the first command, at any time.
AlwaysEnds ==
  \A cmd \in Asked : \A single \in BOOLEAN : \A perms :
    EndsWell(Reply(HandleLine(single, perms, TRUE, snap, TRUE, cmd), cmd))

\* An extended reply names its command first, and its only report ends it, whatever the
\* cache, the endpoint and its permissions (handle_ext).
THEOREM RepliesEnd == Spec => [](AlwaysEnds /\ ExtendedEnds)
<1>1. ASSUME NEW cmd \in Asked, NEW single \in BOOLEAN, NEW perms
      PROVE  EndsWell(Reply(HandleLine(single, perms, TRUE, snap, TRUE, cmd), cmd))
  <2>1. PICK on \in BOOLEAN : on = TRUE
    OBVIOUS
  <2>2. EndsWell(Reply(HandleLine(single, perms, on, snap, on, cmd), cmd))
    BY <2>1, NoQuit, LineEnds
  <2> QED
    BY <2>1, <2>2, Zenon
<1>2. ASSUME NEW cmd \in Asked, NEW single \in BOOLEAN,
             NEW perms \in {{}, {"read"}, {"read", "write"}}
      PROVE  LET deed == HandleLine(single, perms, TRUE, snap, TRUE, cmd)
                 told == IF deed.kind = "apply" THEN Extended(cmd.name, <<OutcomeReport(TRUE)>>) ELSE deed.lines
             IN /\ told[1][1] = "echo"
                /\ \A i \in DOMAIN told : told[i][1] = "RPRT" <=> i = Len(told)
  <2>1. PICK deed : deed = HandleLine(single, perms, TRUE, snap, TRUE, cmd)
    OBVIOUS
  <2>2. PICK told : told = Reply(deed, cmd)
    OBVIOUS
  <2>3. EndsWell(told)
    BY <1>1, <2>1, <2>2, Zenon
  <2> QED
    BY <2>1, <2>2, <2>3, Zenon DEF EndsWell, Reply
<1>3. AlwaysEnds
  BY <1>1, Zenon DEF AlwaysEnds
<1>4. ExtendedEnds
  BY <1>2, Zenon DEF ExtendedEnds
<1> QED
  BY <1>3, <1>4, PTL
==============================================================================

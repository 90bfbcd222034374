------------------------------ MODULE RadioState ------------------------------
(***************************************************************************)
(* The cached state of the radio and those who share it: the transport     *)
(* task, which records what the radio pushes, the scheduler's worker,      *)
(* which polls and writes and records what came of it, and a client,       *)
(* whose writes are suppressed where the cache makes them redundant.  The  *)
(* radio is a TS-590; that it may or may not push (AI2) is chosen at the   *)
(* start.                                                                  *)
(*                                                                         *)
(* record changes the snapshot under one lock and the mode facts in doubt  *)
(* under another: two steps, which those of the other task may come        *)
(* between.  The events it broadcasts are the matter of CatSession; that a *)
(* command fails, of RadioLink.                                            *)
(***************************************************************************)
EXTENDS Cache, SequencesExt

CONSTANTS
  Hz,         \* frequencies, each on a band of its own
  RadioModes, \* modes the radio is put in
  Asks,       \* what the client writes: subset of {"freq", "mode", "split"}
  Knobs,      \* what is turned at the radio: subset of {"freq", "mode", "rx"}
  Unasked,    \* poll commands left out: what they tell of is not looked at
  MaxWrites, MaxKnobs  \* bound the behaviour

ASSUME StateAssumption ==
  /\ Hz \subseteq Nat \ {0} /\ Hz # {} /\ RadioModes \subseteq Modes \ {"Unknown"}
  /\ MaxWrites \in Nat /\ MaxKnobs \in Nat

VARIABLES
  radio,      \* the radio
  ai,         \* it pushes
  toRadio,    \* frames written and not obeyed yet
  fromRadio,  \* frames it sent and the transport task has not read
  snap,       \* the snapshot
  unsure,     \* uncertain_mode
  todo,       \* per recorder: what it is yet to record
  recording,  \* recorders that changed the snapshot and are not done with the rest
  op,         \* the worker: [st: "idle", "wait" (for a reply), "got" (it has the
              \* frame) or "rec"; k: the poll command it is at, 0 for a write]
  request,    \* the client's write the worker is to take, or NoRequest
  writes, knobs,    \* counters of the bounds
  fresh,      \* history: a whole poll was recorded, and no knob turned since then
              \* at a radio that does not push
  amiss,      \* history: what the hub did since that leaves the cache behind the
              \* radio, as far as the next poll
  promise     \* history: the last write told Ok, if nothing at the radio undid it

CONSTANT NoRequest
Recorders == {"transport", "worker"}
radioVars == <<radio, toRadio, fromRadio>>
cacheVars == <<snap, unsure, todo, recording>>
clientVars == <<request, writes>>
history == <<fresh, amiss, promise>>
vars == <<ai, radioVars, cacheVars, op, clientVars, knobs, history>>

------------------------------------------------------------------------------
(***************************************************************************)
(* The radio                                                               *)
(***************************************************************************)

Digits == {ToDigit(m) : m \in RadioModes}
DigitOf(v) == IF v = "A" THEN "digitA" ELSE "digitB"

Status(r) == Frame("IF", [rx |-> r.rx, split |-> r.rx # r.tx, freq |-> r[FreqOf(r.rx)],
                          digit |-> r[DigitOf(r.rx)], ptt |-> FALSE])

\* What it answers to a query.
Report(r, verb) ==
  CASE verb = "FA" -> Frame("FA", r.freqA) [] verb = "FB" -> Frame("FB", r.freqB)
    [] verb = "MD" -> Frame("MD", r[DigitOf(r.rx)]) [] verb = "DA" -> Frame("DA", r[DataOf(r.rx)])
    [] verb = "PC" -> Frame("PC", 100) [] verb = "IF" -> Status(r)

\* What it pushes when it went from r to s.
Pushed(r, s) ==
  LET verbs == <<"FA", "FB", "IF", "FT", "MD", "DA">>
      news(verb) ==
        CASE verb = "FA" -> r.freqA # s.freqA [] verb = "FB" -> r.freqB # s.freqB
          [] verb = "IF" -> r.rx # s.rx [] verb = "FT" -> r.tx # s.tx
          [] verb = "MD" -> r.rx # s.rx \/ r[DigitOf(r.rx)] # s[DigitOf(s.rx)]
          [] verb = "DA" -> r[DataOf(r.rx)] # s[DataOf(s.rx)]
      frame(verb) == IF verb = "FT" THEN Frame("FT", s.tx) ELSE Report(s, verb)
      sent == SelectSeq(verbs, news)
  IN IF ai THEN [i \in DOMAIN sent |-> frame(sent[i])] ELSE <<>>

\* A new frequency recalls the mode that its band was left in.
Tuned(r, v, hz) ==
  IF r[FreqOf(v)] = hz THEN {r}
  ELSE {[r EXCEPT ![FreqOf(v)] = hz, ![DigitOf(v)] = d, ![DataOf(v)] = FALSE] : d \in Digits}

Obeyed(r, frame) ==
  CASE frame.verb = "FA" -> Tuned(r, "A", frame.arg)
    [] frame.verb = "FB" -> Tuned(r, "B", frame.arg)
    [] frame.verb = "FR" -> {[r EXCEPT !.rx = frame.arg]}
    [] frame.verb = "FT" -> {[r EXCEPT !.tx = frame.arg]}
    [] frame.verb = "MD" -> {[r EXCEPT ![DigitOf(r.rx)] = frame.arg]}
    [] frame.verb = "DA" -> {[r EXCEPT ![DataOf(r.rx)] = frame.arg]}

RadioStep ==
  /\ toRadio # <<>>
  /\ LET frame == Head(toRadio)
     IN IF frame.verb = "query"
        THEN radio' = radio /\ fromRadio' = Append(fromRadio, Report(radio, frame.arg))
        ELSE /\ radio' \in Obeyed(radio, frame)
             /\ fromRadio' = fromRadio \o Pushed(radio, radio')
  /\ toRadio' = Tail(toRadio)
  /\ UNCHANGED <<ai, cacheVars, op, clientVars, knobs, history>>

\* The operator turns a knob.
KnobStep ==
  /\ knobs < MaxKnobs
  /\ radio' \in
       UNION {CASE k = "freq" -> UNION {Tuned(radio, radio.rx, hz) : hz \in Hz}
                [] k = "mode" -> {[radio EXCEPT ![DigitOf(radio.rx)] = d] : d \in Digits}
                [] k = "rx" -> {[radio EXCEPT !.rx = Other(@), !.tx = Other(radio.rx)]} : k \in Knobs}
  /\ radio' # radio
  /\ fromRadio' = fromRadio \o Pushed(radio, radio')
  /\ knobs' = knobs + 1 /\ promise' = NoRequest /\ fresh' = (fresh /\ ai)
  /\ op' = [op EXCEPT !.mixed = op.k > 0]
  /\ UNCHANGED <<ai, toRadio, cacheVars, clientVars, amiss>>

------------------------------------------------------------------------------
(***************************************************************************)
(* Recording                                                               *)
(***************************************************************************)

\* What a recorder does next: record a change that came from source ("write", "poll"
\* or "push").  Changes of ptt and power, which nothing here looks at, are left out.
Record(ch, source) == [ch |-> ch, source |-> source]
Records(changes, source) ==
  LET looked == SelectSeq(changes, LAMBDA ch : ch.field \notin {"ptt", "power"})
  IN [i \in DOMAIN looked |-> Record(looked[i], source)]

\* record, up to the snapshot; all of it when no value changes.
RecordChange(t) ==
  /\ todo[t] # <<>> /\ t \notin recording
  /\ LET ch == Head(todo[t]).ch
     IN /\ snap' = ApplyChange(snap, ch)
        /\ IF Changes(snap, ch)
           THEN recording' = recording \cup {t} /\ UNCHANGED <<todo, unsure>>
           ELSE /\ unsure' = UncertainAfter(unsure, ch, Head(todo[t]).source, FALSE)
                /\ todo' = [todo EXCEPT ![t] = Tail(@)] /\ UNCHANGED recording
  /\ IF t = "transport"
     THEN /\ amiss' = amiss \cup IF op.st \in {"got", "rec"} THEN {"overlaid"} ELSE {}
          /\ op' = [op EXCEPT !.mixed = op.k > 0]
     ELSE UNCHANGED <<amiss, op>>
  /\ UNCHANGED <<ai, radioVars, clientVars, knobs, fresh, promise>>

\* The rest of record: the mode facts in doubt.
RecordRest(t) ==
  /\ t \in recording
  /\ LET item == Head(todo[t]) IN unsure' = UncertainAfter(unsure, item.ch, item.source, TRUE)
  /\ todo' = [todo EXCEPT ![t] = Tail(@)] /\ recording' = recording \ {t}
  /\ UNCHANGED <<ai, radioVars, snap, op, clientVars, knobs, history>>

Polls == SelectSeq(PollCommands, LAMBDA verb : verb \notin Unasked)

\* The transport task reads a frame: the reply the worker waits for, by its verb, or
\* a push (route_event, record_event).
ReadFrame ==
  /\ fromRadio # <<>> /\ todo["transport"] = <<>>
  /\ fromRadio' = Tail(fromRadio)
  /\ LET frame == Head(fromRadio)
     IN IF op.st = "wait" /\ frame.verb = Polls[op.k]
        THEN op' = [op EXCEPT !.st = "got", !.frame = frame] /\ UNCHANGED todo
        ELSE /\ todo' = [todo EXCEPT !["transport"] =
                           Records(Observed(snap, frame), "push")]
             /\ UNCHANGED op
  /\ UNCHANGED <<ai, radio, toRadio, snap, unsure, recording, clientVars, knobs, history>>

------------------------------------------------------------------------------
(***************************************************************************)
(* The scheduler's worker.  op.st "got" and "rec" are its states between   *)
(* an answer (or a write) and the end of recording it.                     *)
(***************************************************************************)

Idle == [st |-> "idle", k |-> 0, frame |-> NoRequest, mixed |-> FALSE]
Settled == fromRadio = <<>> /\ toRadio = <<>> /\ \A t \in Recorders : todo[t] = <<>>

\* poll: ask the k-th command once the answer to the one before is recorded.
Ask(k, mixed) ==
  /\ op' = [st |-> "wait", k |-> k, frame |-> NoRequest, mixed |-> mixed]
  /\ toRadio' = Append(toRadio, Frame("query", Polls[k]))

StartPoll == op.st = "idle" /\ Ask(1, ~Settled) /\ UNCHANGED <<fresh, amiss, request>>
NextCommand ==
  /\ op.st = "rec" /\ todo["worker"] = <<>> /\ op.k \in 1..Len(Polls) - 1
  /\ Ask(op.k + 1, op.mixed) /\ UNCHANGED <<fresh, amiss, request>>

\* What a write leaves of the cache behind the radio once it is recorded.  Split is
\* written with FR0 and recorded as split alone: a radio on VFO B that does not push has
\* moved to A untold.  MD is about the VFO the radio is on, and is recorded for the one
\* the dialect named, which may have changed in between.
LeftBehind(mut) ==
  (IF mut.field = "split" /\ ~ai /\ snap.rx # "A" THEN {"moved"} ELSE {})
  \cup (IF mut.field \in ModeFields /\ mut.field # ModeOf(snap.rx) THEN {"misnamed"} ELSE {})

EndOp ==
  /\ op.st = "rec" /\ todo["worker"] = <<>> /\ op.k \in {0, Len(Polls)}
  /\ op' = Idle /\ UNCHANGED toRadio
  /\ IF op.k = 0
     THEN /\ amiss' = amiss \cup LeftBehind(request)
          /\ request' = NoRequest /\ UNCHANGED fresh
     ELSE /\ amiss' = IF op.mixed THEN amiss \ {"moved"} ELSE {}
          /\ fresh' = (fresh \/ ~op.mixed) /\ UNCHANGED request

PollStep ==
  /\ StartPoll \/ NextCommand \/ EndOp
  /\ UNCHANGED <<ai, radio, fromRadio, cacheVars, writes, knobs, promise>>

\* record_event of the answer, with what the snapshot says by then.
TakeReply ==
  /\ op.st = "got"
  /\ op' = [op EXCEPT !.st = "rec", !.frame = NoRequest]
  /\ todo' = [todo EXCEPT !["worker"] = Records(Observed(snap, op.frame), "poll")]
  /\ UNCHANGED <<ai, radioVars, snap, unsure, recording, clientVars, knobs, history>>

\* apply: the frames are written, what they mean is recorded afterwards.
ApplyWrite ==
  /\ op.st = "idle" /\ request # NoRequest
  /\ op' = [Idle EXCEPT !.st = "rec"]
  /\ toRadio' = toRadio \o Wire(snap, request)
  /\ todo' = [todo EXCEPT !["worker"] = Records(Recorded(snap, request), "write")]
  /\ UNCHANGED <<ai, radio, fromRadio, snap, unsure, recording, clientVars, knobs, history>>

------------------------------------------------------------------------------
(***************************************************************************)
(* The session                                                             *)
(***************************************************************************)

\* A write the cache makes redundant is a claim about the radio; made on a mode no frame
\* ever told of, or while the cache is not settled or is known to be behind, it is not
\* held to it.
Trusted(mut) ==
  /\ Settled /\ op.st = "idle" /\ fresh /\ amiss = {}
  /\ (mut.field \in ModeFields => snap[KnownOf(snap.rx)])

\* apply_modeled.
ApplyModeled(mut) ==
  LET redundant == IsRedundant(snap, unsure, mut)
  IN /\ request' = IF redundant THEN NoRequest ELSE mut
     /\ promise' = IF Trusted(mut) \/ ~redundant THEN mut ELSE NoRequest

\* A client writes a frequency, a mode (of the operating VFO: the dialects name rx_vfo)
\* or split.
Write ==
  /\ request = NoRequest /\ writes < MaxWrites
  /\ writes' = writes + 1
  /\ \/ "freq" \in Asks /\ \E v \in Vfo, hz \in Hz : ApplyModeled(Change(FreqOf(v), hz))
     \/ "mode" \in Asks /\ \E m \in RadioModes : ApplyModeled(Change(ModeOf(snap.rx), m))
     \/ "split" \in Asks /\ \E on \in BOOLEAN, v \in Vfo : ApplyModeled(Change("split", <<on, v>>))
  /\ UNCHANGED <<ai, radioVars, cacheVars, op, knobs, fresh, amiss>>

------------------------------------------------------------------------------

\* The VFOs are on frequencies and modes that differ (if two are given); a first poll
\* told of them (lib.rs).
Init ==
  /\ ai \in BOOLEAN
  /\ LET hz == CHOOSE f \in [1..2 -> Hz] : Cardinality(Hz) > 1 => f[1] # f[2]
         mode == CHOOSE f \in [1..2 -> RadioModes] : Cardinality(RadioModes) > 1 => f[1] # f[2]
     IN /\ radio = [rx |-> "A", tx |-> "A", freqA |-> hz[1], freqB |-> hz[2], dataA |-> FALSE,
                    dataB |-> FALSE, digitA |-> ToDigit(mode[1]), digitB |-> ToDigit(mode[2])]
        /\ snap = [DefaultSnapshot EXCEPT !.freqA = hz[1], !.freqB = hz[2], !.modeA = mode[1],
                                          !.knownA = TRUE, !.power = <<100, 100>>]
  /\ toRadio = <<>> /\ fromRadio = <<>>
  /\ unsure = {}
  /\ todo = [t \in Recorders |-> <<>>] /\ recording = {}
  /\ op = Idle /\ request = NoRequest
  /\ writes = 0 /\ knobs = 0
  /\ fresh = TRUE /\ amiss = {} /\ promise = NoRequest

Next ==
  \/ RadioStep \/ KnobStep \/ ReadFrame
  \/ \E t \in Recorders : RecordChange(t) \/ RecordRest(t)
  \/ PollStep \/ TakeReply \/ ApplyWrite
  \/ Write

Spec == Init /\ [][Next]_vars

------------------------------------------------------------------------------

\* Every variable has its type: what is recorded stays within the fields and values of
\* the snapshot, whatever the radio sends and in whatever order it is recorded.
StateTypeOK ==
  /\ DOMAIN snap = DOMAIN DefaultSnapshot
  /\ snap.rx \in Vfo /\ snap.freqA \in Hz \cup {0} /\ snap.freqB \in Hz \cup {0}
  /\ snap.modeA \in RadioModes \cup {"USB"} /\ snap.modeB \in RadioModes \cup {"USB"}
  /\ unsure \subseteq ModeFields \cup DataFields
  /\ op.st \in {"idle", "wait", "got", "rec"} /\ op.k \in 0..Len(Polls)
  /\ recording \subseteq Recorders

Quiet == Settled /\ op.st = "idle" /\ request = NoRequest

\* What the cache says of the frequencies, of the VFO in use and of its mode.
SameFrequencies == \A v \in Vfo : snap[FreqOf(v)] = radio[FreqOf(v)]
SameMode ==
  LET v == radio.rx
  IN snap[KnownOf(v)] /\ ModeOf(v) \notin unsure => ToDigit(snap[ModeOf(v)]) = radio[DigitOf(v)]

\* Clients read the cache and never the radio (state.rs, the module comment): when nothing
\* is under way and a whole poll was recorded, the cache agrees with the radio, and goes
\* on to do so through the client's own writes and through what is turned at a radio that
\* pushes; a whole poll makes good what was amiss.  It is behind in three ways, and in no
\* other.  A push recorded between an answer (or a write) of the worker and its being
\* recorded has the older value laid over it.  Split written at a radio that receives on
\* VFO B and does not push leaves the cache on B and the radio on A, nothing else being
\* wrong but the mode facts of what is written then.  A mode recorded for a VFO that is no
\* longer the one in use leaves the mode of the other behind.
CacheFaithful ==
  Quiet /\ fresh /\ "overlaid" \notin amiss =>
    /\ SameFrequencies
    /\ IF "moved" \in amiss THEN snap.rx = "B" /\ radio.rx = "A" ELSE snap.rx = radio.rx
    /\ (amiss = {} => SameMode)

\* A write that was told Ok holds at the radio unless the operator turned a knob since,
\* also when it was never sent because the cache made it redundant (is_redundant, and the
\* mode facts a frequency write puts in doubt).
WriteHolds ==
  Quiet /\ promise # NoRequest =>
    CASE promise.field = "split" ->
           IF promise.new[1] THEN radio.tx = promise.new[2] ELSE radio.tx = radio.rx
      [] promise.field \in {"freqA", "freqB"} -> radio[promise.field] = promise.new
      [] promise.field \in ModeFields -> radio[DigitOf(radio.rx)] = ToDigit(promise.new)

\* The cache keeps to its fields and values and is what the radio is set to.
CacheInv == StateTypeOK /\ CacheFaithful
==============================================================================

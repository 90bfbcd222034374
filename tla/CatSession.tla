----------------------------- MODULE CatSession -----------------------------
(***************************************************************************)
(* One client at a Kenwood endpoint (serial_endpoint.rs): its requests,    *)
(* and the events that tell it of changes made elsewhere.  The transport   *)
(* task and the scheduler's worker record changes in the snapshot and then *)
(* broadcast them (state.rs, record), two steps that those of the other    *)
(* may come between; the session reads them from a ring that drops what it *)
(* was too slow for, and then presents the snapshot anew.                  *)
(*                                                                         *)
(* That the snapshot is what the radio is set to is the matter of          *)
(* RadioState; who may transmit, of Station.                               *)
(***************************************************************************)
EXTENDS Endpoint, Selection

CONSTANTS
  Hz,          \* frequencies
  RadioModes,  \* modes
  Grants,      \* sets of permission tokens an endpoint is configured with
  RingCap,     \* capacity of the broadcast ring
  MaxMoves     \* bounds the behaviour

ASSUME CatAssumption ==
  /\ Hz \subseteq Nat \ {0} /\ RadioModes \subseteq Modes \ {"Unknown"} /\ {} \notin {Hz, RadioModes}
  /\ Nothing \notin {Change(f, hz) : f \in {"freqA", "freqB"}, hz \in Hz}
  /\ Nothing \notin {Change(f, m) : f \in ModeFields, m \in RadioModes}
  /\ Nothing \notin {Change("rx", v) : v \in Vfo}
  /\ RingCap \in Nat \ {0} /\ MaxMoves \in Nat

VARIABLES
  dialect, perms,  \* of the endpoint
  ai,       \* the session's auto-information flag
  op,       \* the operation it awaits, or Nothing
  snap,     \* the snapshot
  unsure,   \* uncertain_mode: mode facts a frequency written has put in doubt
  carry,    \* per recorder: events it is yet to send
  order,    \* recorders yet to send a change, in the order they made it
  ring,     \* events the session has not read
  lagged,   \* it lost some
  view,     \* what the client shows: [rx, freqA, freqB, digit]
  moves,    \* counter of the bound
  missed,   \* history: something was not told, as the client would not hear it
  astray    \* history: a change was sent before an earlier one

endpoint == <<dialect, perms>>
vars == <<endpoint, ai, op, snap, unsure, carry, order, ring, lagged, view, moves, missed, astray>>
Recorders == {"transport", "worker"}

Digits == {ToDigit(m) : m \in RadioModes}
Current(s) == [rx |-> s.rx, freqA |-> s.freqA, freqB |-> s.freqB, digit |-> ToDigit(s[ModeOf(s.rx)])]

\* A client that has read what it shows and turned auto-information on.
Init ==
  /\ dialect \in Dialects /\ perms \in {FromTokens(g) : g \in Grants}
  /\ ai = TRUE /\ op = Nothing
  /\ LET hz == CHOOSE f \in Hz : TRUE
         m  == CHOOSE f \in RadioModes : TRUE
     IN snap = [DefaultSnapshot EXCEPT !.freqA = hz, !.freqB = hz, !.modeA = m, !.modeB = m]
  /\ unsure = {}
  /\ carry = [t \in Recorders |-> <<>>] /\ order = <<>>
  /\ ring = <<>> /\ lagged = FALSE
  /\ view = Current(snap)
  /\ moves = 0
  /\ missed = FALSE /\ astray = FALSE

------------------------------------------------------------------------------
(***************************************************************************)
(* Recording and broadcasting                                              *)
(***************************************************************************)

Event(kind, ch, frame) == [kind |-> kind, ch |-> ch, frame |-> frame]

\* record: the snapshot changes; the event, if a value did, is yet to be sent, and
\* after it what the recorder relays of the radio's frame.
RecordBy(t, ch, relay) ==
  LET told == IF ch # Nothing /\ Changes(snap, ch) THEN <<Event("change", ch, Nothing)>> ELSE <<>>
  IN /\ snap' = IF ch = Nothing THEN snap ELSE ApplyChange(snap, ch)
     /\ carry' = [carry EXCEPT ![t] = told \o relay]
     /\ order' = IF told = <<>> THEN order ELSE Append(order, t)
     /\ missed' = (missed \/ (told # <<>> /\ t = "worker" /\ dialect = "transparent"))

\* The rest of record, on the mode facts in doubt; RadioState tells its two steps apart.
Doubt(ch, source) ==
  unsure' = IF ch = Nothing THEN unsure ELSE UncertainAfter(unsure, ch, source, Changes(snap, ch))

\* The radio pushes a frame: route_event.  "NB" is one the backend does not model.
Push ==
  /\ carry["transport"] = <<>> /\ moves < MaxMoves
  /\ \E frame \in {Frame("NB", 1)} \cup {Frame(v, hz) : v \in {"FA", "FB"}, hz \in Hz}
                  \cup {Frame("FR", v) : v \in Vfo} \cup {Frame("MD", d) : d \in Digits} :
       LET told == Observed(snap, frame)
           ch   == IF told = <<>> THEN Nothing ELSE told[1]
       IN /\ RecordBy("transport", ch, <<Event(IF told = <<>> THEN "raw" ELSE "native", Nothing, frame)>>)
          /\ Doubt(ch, "push")
  /\ moves' = moves + 1
  /\ UNCHANGED <<endpoint, ai, op, ring, lagged, view, astray>>

\* A poll, or a write of another session, tells the worker of a change.
Poll ==
  /\ carry["worker"] = <<>> /\ moves < MaxMoves /\ (op # Nothing => op.kind # "done")
  /\ \E frame \in {Frame(v, hz) : v \in {"FA", "FB"}, hz \in Hz}
                  \cup {Frame("FR", v) : v \in Vfo} \cup {Frame("MD", d) : d \in Digits} :
       /\ RecordBy("worker", Observed(snap, frame)[1], <<>>)
       /\ \E source \in {"poll", "write"} : Doubt(Observed(snap, frame)[1], source)
  /\ moves' = moves + 1
  /\ UNCHANGED <<endpoint, ai, op, ring, lagged, view, astray>>

\* The ring keeps the newest events.
Broadcast(t) ==
  /\ carry[t] # <<>>
  /\ carry' = [carry EXCEPT ![t] = Tail(@)]
  /\ LET sent == Append(ring, Head(carry[t]))
     IN IF Len(sent) > RingCap THEN ring' = Tail(sent) /\ lagged' = TRUE
        ELSE ring' = sent /\ UNCHANGED lagged
  /\ IF Head(carry[t]).kind = "change"
     THEN astray' = (astray \/ Head(order) # t) /\ order' = Selection(order, Recorders \ {t})
     ELSE UNCHANGED <<astray, order>>
  /\ UNCHANGED <<endpoint, ai, op, snap, unsure, view, moves, missed>>

------------------------------------------------------------------------------
(***************************************************************************)
(* The session                                                             *)
(***************************************************************************)

Requests ==
  {Request(v, <<>>) : v \in {"FA", "FB", "FR", "FT", "MD", "IF", "AI", "ID", "TX", "RX", "NB"}}
    \cup {Request(v, <<hz>>) : v \in {"FA", "FB"}, hz \in Hz}
    \cup {Request(v, <<w>>) : v \in {"FR", "FT"}, w \in Vfo}
    \cup {Request("MD", <<d>>) : d \in Digits} \cup {Request("AI", <<n>>) : n \in {0, 2}}
    \cup {Request("NB", <<1>>)}

\* handle, up to the operation it awaits.
HandleRequest ==
  /\ op = Nothing /\ moves < MaxMoves
  /\ \E req \in Requests :
       LET deed == Handle(dialect, snap, ai, req)
       IN /\ ai' = CASE deed.kind = "ai" -> TRUE [] deed.kind = "quiet" -> FALSE [] OTHER -> ai
          /\ op' = IF /\ deed.kind \in {"apply", "forward"} /\ Permitted(perms, deed)
                      /\ (deed.kind = "apply" => ~IsRedundant(snap, unsure, deed.mut))
                   THEN deed ELSE Nothing
  /\ moves' = moves + 1
  /\ UNCHANGED <<endpoint, snap, unsure, carry, order, ring, lagged, view, missed, astray>>

\* The worker executes the operation; a mutation that went well is recorded.
Execute ==
  /\ op # Nothing /\ op.kind # "done" /\ carry["worker"] = <<>>
  /\ \/ /\ op.kind = "apply"
        /\ op' = [op EXCEPT !.kind = "done"]
        /\ RecordBy("worker", op.mut, <<>>) /\ Doubt(op.mut, "write")
     \/ op' = Nothing /\ UNCHANGED <<snap, unsure, carry, order, missed>>
  /\ UNCHANGED <<endpoint, ai, ring, lagged, view, moves, astray>>

Resume ==
  /\ op # Nothing /\ op.kind = "done" /\ carry["worker"] = <<>>
  /\ op' = Nothing
  /\ UNCHANGED <<endpoint, ai, snap, unsure, carry, order, ring, lagged, view, moves, missed, astray>>

\* What the client reads of a frame.  A ts2000 client takes the frequency from FA only.
Show(shown, frame) ==
  CASE frame.verb = "FA" -> [shown EXCEPT !.freqA = frame.arg]
    [] frame.verb = "FB" -> [shown EXCEPT !.freqB = frame.arg]
    [] frame.verb = "FR" -> [shown EXCEPT !.rx = frame.arg]
    [] frame.verb = "MD" -> [shown EXCEPT !.digit = frame.arg]
    [] frame.verb = "IF" /\ dialect # "ts2000" ->
         [shown EXCEPT !.rx = frame.arg.rx, ![FreqOf(frame.arg.rx)] = frame.arg.freq,
                       !.digit = frame.arg.digit]
    [] OTHER -> shown

\* What it reads of several, one after the other.
ShowAll(shown, frames) ==
  LET after[i \in 0..Len(frames)] == IF i = 0 THEN shown ELSE Show(after[i - 1], frames[i])
  IN after[Len(frames)]

\* format_notification, format_passthrough and format_native_passthrough.
Told(snp, event) ==
  CASE event.kind = "change" -> Notification(dialect, snp, event.ch)
    [] event.kind = "raw"    -> IF dialect \in {"ts590", "transparent"} THEN <<event.frame>> ELSE <<>>
    [] event.kind = "native" -> IF dialect = "transparent" THEN <<event.frame>> ELSE <<>>

\* Lost events are skipped.
LagSkipped ==
  /\ op = Nothing /\ lagged
  /\ lagged' = FALSE
  /\ UNCHANGED <<endpoint, ai, op, snap, unsure, carry, order, ring, view, moves, missed, astray>>

\* A session that lost events presents the whole snapshot, then reads on.
Lag ==
  /\ op = Nothing /\ lagged
  /\ lagged' = FALSE
  /\ view' = IF ai THEN ShowAll(view, Resync(dialect, snap)) ELSE view
  /\ missed' = (IF dialect = "transparent" THEN missed \/ ~ai ELSE ~ai)
  /\ UNCHANGED <<endpoint, ai, op, snap, unsure, carry, order, ring, moves, astray>>

ReadEvent ==
  /\ op = Nothing /\ ~lagged /\ ring # <<>>
  /\ ring' = Tail(ring)
  /\ IF ai THEN view' = ShowAll(view, Told(snap, Head(ring))) /\ UNCHANGED missed
     ELSE missed' = TRUE /\ UNCHANGED view
  /\ UNCHANGED <<endpoint, ai, op, snap, unsure, carry, order, lagged, moves, astray>>

Next ==
  \/ Push \/ Poll \/ \E t \in Recorders : Broadcast(t)
  \/ HandleRequest \/ Execute \/ Resume
  \/ Lag \/ ReadEvent

Spec == Init /\ [][Next]_vars

------------------------------------------------------------------------------

\* Every variable has its type.
CatTypeOK ==
  /\ dialect \in Dialects /\ perms \subseteq Tokens
  /\ {ai, lagged, missed, astray} \subseteq BOOLEAN
  /\ op # Nothing => op.kind \in {"apply", "forward", "done"}
  /\ DOMAIN snap = DOMAIN DefaultSnapshot /\ snap.rx \in Vfo
  /\ unsure \subseteq ModeFields \cup DataFields
  /\ Len(ring) <= RingCap
  /\ view \in [rx : Vfo, freqA : Hz, freqB : Hz, digit : Digits]

\* A client that wants to be told of changes shows what the snapshot has, once it read
\* all events, also if it lost some; but not if two recorders sent their changes in the
\* other order than they made them, which the ring does not mend.
SessionFollows ==
  LET quiet == ring = <<>> /\ ~lagged /\ op = Nothing /\ \A t \in Recorders : carry[t] = <<>>
      op_freq == snap[FreqOf(snap.rx)]
      op_digit == ToDigit(snap[ModeOf(snap.rx)])
  IN quiet /\ ai /\ ~missed /\ ~astray =>
       CASE dialect = "ts590" -> view = Current(snap)
         [] dialect \in {"single", "ts2000"} -> view.freqA = op_freq /\ view.digit = op_digit
         [] dialect = "transparent" ->
              view.rx = snap.rx /\ view.freqA = snap.freqA /\ view.freqB = snap.freqB

\* What a session has submitted is within its endpoint's permissions, by its effect: a
\* frequency, another setting, the transmitter, a set or a query of the radio's own.
Authority ==
  op # Nothing =>
    IF op.frames # <<>>
    THEN IF op.frames[1].arg = <<>> THEN "read" \in perms ELSE "config_write" \in perms
    ELSE \/ op.mut.field = "ptt" /\ "ptt" \in perms
         \/ op.mut.field # "ptt" /\ "write" \in perms
         \/ op.mut.field \in {"freqA", "freqB"} /\ "frequency_write" \in perms

\* A single-VFO client cannot tell which of the radio's VFOs it works on: with the VFOs
\* exchanged it gets the same replies and notifications, and what it writes goes to the
\* other one (operating-VFO virtualization, ts590.rs).
HiddenVfo ==
  dialect = "single" =>
    /\ \A req \in Requests :
         LET here  == Handle(dialect, snap, ai, req)
             there == Handle(dialect, Mirror(snap), ai, req)
         IN /\ here.frames = there.frames /\ here.kind = there.kind
            /\ here.kind = "apply" => there.mut = MirrorChange(here.mut)
            /\ here.kind = "forward" => req.verb \notin {"FA", "FB", "FR", "FT", "IF"}
    /\ \A i \in DOMAIN ring :
         LET event == ring[i]
         IN IF event.kind = "change"
            THEN Told(snap, event) = Told(Mirror(snap), [event EXCEPT !.ch = MirrorChange(@)])
            ELSE Told(snap, event) = <<>>

\* No session acts beyond its permissions, and every variable has its type.
CatInv == CatTypeOK /\ Authority
==============================================================================

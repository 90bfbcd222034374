-------------------------------- MODULE Cache --------------------------------
(***************************************************************************)
(* What the hub knows of the radio: the cached snapshot and the changes    *)
(* that are recorded in it (state.rs, model.rs), and what the TS-590       *)
(* backend writes for a change and reads from a frame                      *)
(* (backend/kenwood/ts590.rs).  Operators only; RadioState and CatSession  *)
(* put them to use.                                                        *)
(*                                                                         *)
(* A change is a field of the snapshot and its new value.  A mutation is   *)
(* the change it asks for (StateMutation::into_change keeps both).         *)
(***************************************************************************)
EXTENDS Naturals, Sequences

Vfo == {"A", "B"}
Other(v) == IF v = "A" THEN "B" ELSE "A"

\* Mode, and the digit of MD for it.  Unknown is written as USB is.
Modes == {"LSB", "USB", "CW", "FM", "AM", "FSK", "CWR", "FSKR", "Unknown"}
ToDigit(mode) ==
  CASE mode = "LSB" -> 1 [] mode \in {"USB", "Unknown"} -> 2 [] mode = "CW" -> 3
    [] mode = "FM" -> 4 [] mode = "AM" -> 5 [] mode = "FSK" -> 6
    [] mode = "CWR" -> 7 [] mode = "FSKR" -> 9

FromDigit(d) ==
  LET known == {m \in Modes \ {"Unknown"} : ToDigit(m) = d}
  IN IF known = {} THEN "Unknown" ELSE CHOOSE m \in known : TRUE

FreqOf(v)  == IF v = "A" THEN "freqA" ELSE "freqB"
ModeOf(v)  == IF v = "A" THEN "modeA" ELSE "modeB"
DataOf(v)  == IF v = "A" THEN "dataA" ELSE "dataB"
KnownOf(v) == IF v = "A" THEN "knownA" ELSE "knownB"
ModeFields == {"modeA", "modeB"}
DataFields == {"dataA", "dataB"}

\* Values of one field are of one kind: Hz, a mode, a Boolean, a VFO, <<on, tx>>
\* for split, <<on, offset>> for RIT and XIT, <<watts, max>> for the power.
NoPower == <<0, 0>>
DefaultSnapshot ==
  [freqA |-> 0, freqB |-> 0, modeA |-> "USB", modeB |-> "USB",
   knownA |-> FALSE, knownB |-> FALSE, dataA |-> FALSE, dataB |-> FALSE,
   split |-> <<FALSE, "A">>, rit |-> <<FALSE, 0>>, xit |-> <<FALSE, 0>>,
   ptt |-> FALSE, power |-> NoPower, rx |-> "A"]

Change(field, new) == [field |-> field, new |-> new]

\* The fields as_changes replays, in its order.
AsChanges(snap) ==
  LET fields == <<"freqA", "freqB", "modeA", "modeB", "dataA", "dataB",
                  "split", "rit", "xit", "ptt", "power", "rx">>
  IN [i \in DOMAIN fields |-> Change(fields[i], snap[fields[i]])]

\* apply_change, and whether it changed a value.
Changes(snap, ch) == snap[ch.field] # ch.new
ApplyChange(snap, ch) ==
  LET new == [snap EXCEPT ![ch.field] = ch.new]
  IN IF ch.field \in ModeFields
     THEN [new EXCEPT ![IF ch.field = "modeA" THEN "knownA" ELSE "knownB"] = TRUE]
     ELSE new

\* A frequency written by a client may recall another mode.
NoDoubts(unsure, ch, source, changed) == unsure \ {ch.field}

\* record, on the mode facts that a frequency written to the radio has put in
\* doubt.
UncertainAfter(unsure, ch, source, changed) ==
  IF ch.field \in {"freqA", "freqB"} /\ source = "write" /\ changed
  THEN unsure \cup (IF ch.field = "freqA" THEN {"modeA", "dataA"} ELSE {"modeB", "dataB"})
  ELSE unsure \ {ch.field}

\* Snapshot::is_redundant compares a mode with that of the active VFO, by digit;
\* StateHandle::is_redundant passes the facts in doubt.
IsRedundant(snap, unsure, mut) ==
  /\ mut.field # "ptt" /\ mut.field \notin unsure
  /\ IF mut.field \in ModeFields
     THEN ToDigit(snap[ModeOf(snap.rx)]) = ToDigit(mut.new)
     ELSE snap[mut.field] = mut.new

------------------------------------------------------------------------------
(***************************************************************************)
(* The TS-590 backend                                                      *)
(***************************************************************************)

Frame(verb, arg) == [verb |-> verb, arg |-> arg]

\* apply: the frames written for a mutation.  A mode goes to the active VFO,
\* whatever VFO the mutation names; RIT and XIT go without their offset.
Wire(snap, mut) ==
  CASE mut.field = "rx" ->
         <<Frame("FR", mut.new), Frame("FT", IF snap.split[1] THEN snap.split[2] ELSE mut.new)>>
    [] mut.field \in {"freqA", "freqB"} ->
         <<Frame(IF mut.field = "freqA" THEN "FA" ELSE "FB", mut.new)>>
    [] mut.field \in ModeFields -> <<Frame("MD", ToDigit(mut.new))>>
    [] mut.field \in DataFields -> <<Frame("DA", mut.new)>>
    [] mut.field = "ptt"   -> <<Frame(IF mut.new THEN "TX" ELSE "RX", 0)>>
    [] mut.field = "split" ->
         <<Frame("FR", "A"), Frame("FT", IF mut.new[1] THEN mut.new[2] ELSE "A")>>
    [] mut.field = "rit" -> <<Frame("RT", mut.new[1])>>
    [] mut.field = "xit" -> <<Frame("XT", mut.new[1])>>

\* apply: the changes recorded once the frames are written.
Recorded(snap, mut) ==
  IF mut.field = "rx" /\ ~snap.split[1]
  THEN <<mut, Change("split", <<FALSE, mut.new>>)>>
  ELSE <<mut>>

\* parse_event takes MD and DA to be about VFO A.
AboutA(snap) == "A"

\* The VFO that MD and DA are about, which they do not say: the active one.
About(snap) == snap.rx

\* record_event: the changes a frame of the radio tells of.
Observed(snap, frame) ==
  LET val == frame.arg
      tx  == IF snap.split[1] THEN snap.split[2] ELSE snap.rx
      max == IF snap[ModeOf(tx)] = "AM" THEN 25 ELSE 100
  IN CASE frame.verb = "FA" -> <<Change("freqA", val)>>
       [] frame.verb = "FB" -> <<Change("freqB", val)>>
       [] frame.verb = "FR" -> <<Change("rx", val)>>
       [] frame.verb = "FT" -> <<Change("split", <<snap.rx # val, val>>)>>
       [] frame.verb = "MD" -> <<Change(ModeOf(About(snap)), FromDigit(val))>>
       [] frame.verb = "DA" -> <<Change(DataOf(About(snap)), val)>>
       [] frame.verb = "PC" -> <<Change("power", <<val, max>>)>>
       [] frame.verb = "IF" ->  \* record_if_status
            <<Change(FreqOf(val.rx), val.freq), Change(ModeOf(val.rx), FromDigit(val.digit)),
              Change("ptt", val.ptt),
              Change("split", <<val.split, IF val.split THEN Other(val.rx) ELSE val.rx>>),
              Change("rx", val.rx)>>
       [] OTHER -> <<>>

\* POLL_COMMANDS.
PollCommands == <<"FA", "FB", "IF", "MD", "DA", "PC">>
------------------------------------------------------------------------------
(***************************************************************************)
(* What a dialect tells its client of a change, as frames: "ts590",        *)
(* "single" (ts590 with single_vfo) and "ts2000" make them from the        *)
(* change and the snapshot, "transparent" relays the radio's own.          *)
(***************************************************************************)

Dialects == {"ts590", "single", "ts2000", "transparent"}

\* synth_if; a single-VFO client sees the operating VFO as A, without split.
SynthIf(snap, single) ==
  Frame("IF", [rx |-> IF single THEN "A" ELSE snap.rx, split |-> ~single /\ snap.split[1],
               freq |-> snap[FreqOf(snap.rx)], digit |-> ToDigit(snap[ModeOf(snap.rx)]),
               ptt |-> snap.ptt])

\* The frequency and mode of the operating VFO.
Represent(snap) ==
  <<Frame("FA", snap[FreqOf(snap.rx)]), Frame("MD", ToDigit(snap[ModeOf(snap.rx)]))>>

Active(snap, ch) == ch.field \in {FreqOf(snap.rx), ModeOf(snap.rx)}
ModeFrame(ch) == Frame("MD", ToDigit(ch.new))

\* format_notification, of a client with auto-information on.
NotifyTs590(snap, ch) ==
  CASE ch.field \in {"freqA", "freqB"} ->
         <<Frame(IF ch.field = "freqA" THEN "FA" ELSE "FB", ch.new)>>
           \o IF Active(snap, ch) THEN <<SynthIf(snap, FALSE)>> ELSE <<>>
    [] ch.field \in ModeFields /\ Active(snap, ch) -> <<ModeFrame(ch), SynthIf(snap, FALSE)>>
    [] ch.field = "rx" -> <<SynthIf(snap, FALSE)>>
    [] OTHER -> <<>>

\* single_vfo_notification: the operating VFO as VFO A.
NotifySingle(snap, ch) ==
  CASE ch.field = "rx" -> Represent(snap) \o <<SynthIf(snap, TRUE)>>
    [] ch.field \in {"freqA", "freqB"} /\ Active(snap, ch) -> <<Frame("FA", ch.new), SynthIf(snap, TRUE)>>
    [] ch.field \in ModeFields /\ Active(snap, ch) -> <<ModeFrame(ch), SynthIf(snap, TRUE)>>
    [] OTHER -> <<>>

\* Likewise, but the frequency is read from FA only.
NotifyTs2000(snap, ch) ==
  CASE ch.field = "rx" -> Represent(snap) \o <<SynthIf(snap, FALSE)>>
    [] ch.field \in {"freqA", "freqB"} /\ Active(snap, ch) -> <<Frame("FA", ch.new)>>
    [] ch.field \in ModeFields /\ Active(snap, ch) -> <<ModeFrame(ch)>>
    [] OTHER -> <<>>

\* A transparent client is told of nothing: it has the radio's own frames.
Notification(dialect, snap, ch) ==
  CASE dialect = "ts590" -> NotifyTs590(snap, ch)
    [] dialect = "single" -> NotifySingle(snap, ch)
    [] dialect = "ts2000" -> NotifyTs2000(snap, ch)
    [] dialect = "transparent" -> <<>>

\* resync: what a client that lost events is told.
Resync(dialect, snap) ==
  IF dialect = "transparent"
  THEN <<Frame("FA", snap.freqA), Frame("FB", snap.freqB), Frame("FR", snap.rx),
         Frame("FT", snap.split[2]), Frame("MD", ToDigit(snap[ModeOf(snap.rx)])),
         SynthIf(snap, FALSE)>>
  ELSE LET told[i \in 0..Len(AsChanges(snap))] ==
             IF i = 0 THEN <<>> ELSE told[i - 1] \o Notification(dialect, snap, AsChanges(snap)[i])
       IN told[Len(AsChanges(snap))]
==============================================================================

------------------------------- MODULE Hamlib -------------------------------
(***************************************************************************)
(* The rigctld protocol as the hub serves it (hamlib_net.rs), with its     *)
(* mode tokens and transmitter power (model.rs).  Operators only; Bridge   *)
(* puts them to use.                                                       *)
(*                                                                         *)
(* A reply is a sequence of lines <<label, value>>.  The plain protocol    *)
(* leaves the labels out; the extended one names the command first and     *)
(* ends with the report ("RPRT") of how it went.                           *)
(***************************************************************************)
EXTENDS Endpoint

CONSTANTS
  Scale,   \* RELATIVE_SCALE
  MaxU32   \* the greatest u32

ASSUME HamlibAssumption == Scale \in Nat \ {0} /\ MaxU32 \in Nat /\ MaxU32 >= Scale

\* hamlib_token_with_data: a base mode, in its PKT form or plain.
DataModes == {"LSB", "USB", "FM", "AM"}
Token(mode, data) ==
  [base |-> IF mode = "Unknown" THEN "USB" ELSE mode, pkt |-> data /\ mode \in DataModes]
\* from_hamlib_token knows no PKT form; decompose_hamlib_token takes it apart.
FromToken(token) == IF token.pkt THEN "Unknown" ELSE token.base

\* TxPower has relative power, milliwatts, and the most milliwatts or <<>>, unknown.
\* from_relative_millionths: the power, or <<>> for none.
FromRelative(rel, mw) ==
  LET max == (mw * Scale + rel \div 2) \div rel
  IN IF rel > Scale THEN <<>>
     ELSE <<[rel |-> rel, mw |-> mw, max |-> IF rel = 0 \/ max > MaxU32 THEN <<>> ELSE <<max>>]>>

\* milliwatts_for_relative, or <<>>.
Milliwatts(power, rel) ==
  IF rel > Scale THEN <<>>
  ELSE IF rel = power.rel THEN <<power.mw>>
  ELSE IF rel = 0 THEN <<0>>
  ELSE IF power.max = <<>> THEN <<>>
  ELSE LET mw == (power.max[1] * rel + Scale \div 2) \div Scale
       IN IF mw > MaxU32 THEN <<>> ELSE <<mw>>

------------------------------------------------------------------------------

\* A command: its long name and arguments, and whether it asks for the extended form.
Command(name, args) == [name |-> name, args |-> args]
Report(code) == <<"RPRT", code>>
Lines(lines) == [kind |-> "reply", muts |-> <<>>, class |-> "none", lines |-> lines]
Failed(code) == Lines(<<Report(code)>>)
Mutate(muts, class) == [kind |-> "apply", muts |-> muts, class |-> class, lines |-> <<>>]

\* outcome_rprt.
OutcomeReport(accepted) == Report(IF accepted THEN "ok" ELSE "einval")

\* The VFO that was named is the one that is shown.
PresentedNamed(single, snap, v) == v

\* presented_vfo, presented_vfo_name and presented_split: a single-VFO client has the
\* operating VFO, named A, and no split.
Presented(single, snap, v) == IF single THEN snap.rx ELSE v
PresentedName(single, v) == IF single THEN "A" ELSE v
PresentedSplit(single, snap) == ~single /\ snap.split[1]

\* parse_vfo_arg: A unless B is named.
VfoArg(args, i) == IF i \in DOMAIN args /\ args[i] = "B" THEN "B" ELSE "A"

TokenOf(snap, v) == Token(snap[ModeOf(v)], snap[DataOf(v)])

Reads == {"get_freq", "get_mode", "get_vfo", "get_vfo_info", "get_split_vfo", "get_split_freq",
          "get_split_mode", "get_level", "power2mW", "get_ptt", "get_powerstat", "get_rit", "get_xit"}

\* The reads of dispatch_plain, as the labelled ones of handle_ext have them; a read that
\* is not to be had has an error code only.
Read(single, snap, cmd) ==
  LET rx  == snap.rx
      tx  == snap.split[2]
      v   == Presented(single, snap, VfoArg(cmd.args, 1))
      sp  == PresentedSplit(single, snap)
      missing == <<Report("enavail")>>
      offset(pair) == IF pair[1] THEN pair[2] ELSE 0
      mw == IF snap.power = <<>> THEN <<>> ELSE Milliwatts(snap.power[1], cmd.args[1])
  IN CASE cmd.name = "get_freq" -> <<<<"Frequency", snap[FreqOf(rx)]>>>>
       [] cmd.name = "get_mode" -> <<<<"Mode", TokenOf(snap, rx)>>>>
       [] cmd.name = "get_vfo"  -> <<<<"VFO", PresentedName(single, rx)>>>>
       [] cmd.name = "get_vfo_info" ->
            <<<<"get_vfo_info", PresentedName(single, v)>>, <<"Freq", snap[FreqOf(v)]>>,
              <<"Mode", TokenOf(snap, v)>>, <<"Split", sp>>>>
       [] cmd.name = "get_split_vfo" ->
            <<<<"Split", sp>>, <<"TX VFO", PresentedName(single, IF sp THEN tx ELSE rx)>>>>
       [] cmd.name = "get_split_freq" ->
            IF single \/ snap[FreqOf(tx)] = 0 THEN missing ELSE <<<<"TX Frequency", snap[FreqOf(tx)]>>>>
       [] cmd.name = "get_split_mode" ->
            IF single \/ ~snap[KnownOf(tx)] THEN missing ELSE <<<<"TX Mode", TokenOf(snap, tx)>>>>
       [] cmd.name = "get_level" ->
            IF snap.power = <<>> THEN missing ELSE <<<<"RFPOWER", snap.power[1].rel>>>>
       [] cmd.name = "power2mW" -> IF mw = <<>> THEN missing ELSE <<<<"Power mW", mw[1]>>>>
       [] cmd.name = "get_ptt" -> <<<<"PTT", snap.ptt>>>>
       [] cmd.name = "get_powerstat" -> <<<<"Power", TRUE>>>>
       [] cmd.name = "get_rit" -> <<<<"RIT", offset(snap.rit)>>>>
       [] cmd.name = "get_xit" -> <<<<"XIT", offset(snap.xit)>>>>

\* A token that decomposes to a mode.
Known(token) == token.base # "Unknown"

\* The sets of dispatch_plain.  set_mode is two mutations, the second asked for when the
\* first was accepted; selecting a VFO is accepted and does nothing.
Set(single, perms, hasRit, snap, cmd) ==
  LET arg == cmd.args[1]
      mayWrite == Allows(perms, "ModeledWrite")
  IN CASE cmd.args = <<>> /\ cmd.name \in {"set_freq", "set_mode"} -> Failed("einval")
       [] cmd.name = "set_freq" /\ cmd.args # <<>> -> Mutate(<<Change(FreqOf(snap.rx), arg)>>, "ModeledWrite")
       [] cmd.name = "set_mode" /\ cmd.args # <<>> ->
            IF ~Known(arg) THEN Failed("einval")
            ELSE Mutate(<<Change(ModeOf(snap.rx), arg.base), Change(DataOf(snap.rx), arg.pkt)>>,
                        "ModeledWrite")
       [] cmd.name = "set_split_vfo" ->
            IF ~mayWrite THEN Failed("einval")
            ELSE IF single THEN Failed(IF arg = 1 THEN "enavail" ELSE "ok")
            ELSE Mutate(<<Change("split", <<arg = 1, VfoArg(cmd.args, 2)>>)>>, "ModeledWrite")
       [] cmd.name = "set_ptt" -> Mutate(<<Change("ptt", arg \in 1..3)>>, "PttWrite")
       [] cmd.name \in {"set_vfo", "list_vfos"} -> Failed(IF mayWrite THEN "ok" ELSE "einval")
       [] cmd.name \in {"set_rit", "set_xit"} ->
            IF ~hasRit THEN Failed("enavail")
            ELSE IF cmd.args = <<>> THEN Failed("einval")
            ELSE Mutate(<<Change(IF cmd.name = "set_rit" THEN "rit" ELSE "xit", <<arg # 0, arg>>)>>,
                        "ModeledWrite")

Sets ==
  {"set_freq", "set_mode", "set_split_vfo", "set_ptt", "set_vfo", "list_vfos", "set_rit", "set_xit"}

\* dispatch_plain.
Dispatch(single, perms, hasRit, snap, cmd) ==
  CASE cmd.name \in Reads ->  \* guard_read
         IF Allows(perms, "ModeledRead") THEN Lines(Read(single, snap, cmd)) ELSE Failed("einval")
    [] cmd.name \in Sets -> Set(single, perms, hasRit, snap, cmd)
    [] cmd.name = "dump_state" -> Lines(<<<<"dump", 0>>>>)
    [] cmd.name = "chk_vfo" -> Lines(<<<<"vfo mode", 0>>>>)
    [] OTHER -> Failed("enavail")

\* The plain reply after the name of the command.
ExtendedBare(name, lines) == <<<<"echo", name>>>> \o lines

\* handle_ext: the name, the lines, and a report if they have none.
Extended(name, lines) ==
  <<<<"echo", name>>>> \o lines
    \o IF \E i \in DOMAIN lines : lines[i][1] = "RPRT" THEN <<>> ELSE <<Report("ok")>>

\* handle_line: what comes of a command in either form; "list_vfos" is set_vfo with "?",
\* and a quit ends the connection in the plain form only.
HandleLine(single, perms, hasRit, snap, ext, cmd) ==
  LET deed == Dispatch(single, perms, hasRit, snap, cmd)
      vfos == IF single THEN {"A"} ELSE {"A", "B"}
  IN IF cmd.name = "quit" THEN [Lines(<<>>) EXCEPT !.kind = IF ext THEN "reply" ELSE "quit"]
     ELSE IF ext /\ cmd.name = "list_vfos"
     THEN Lines(<<<<"echo", "set_vfo">>, <<"VFO list", vfos>>, Report("ok")>>)
     ELSE IF ext /\ deed.kind = "reply" THEN Lines(Extended(cmd.name, deed.lines))
     ELSE deed
==============================================================================

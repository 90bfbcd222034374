----------------------------- MODULE KeyerDevice -----------------------------
(***************************************************************************)
(* The physical WinKeyer, which is not part of the repository, as far as   *)
(* the actor that owns its port relies on it: the commands the broker      *)
(* writes and what they do, and the bytes the keyer sends back.            *)
(*                                                                         *)
(* Commands arrive in the order they are written and are obeyed at once.   *)
(* What the keyer sends travels: a byte stays in "up" until the actor      *)
(* reads it, so that a status may describe a state that is past.           *)
(***************************************************************************)
EXTENDS Naturals, Sequences

CONSTANTS
  Regs,       \* transient registers a profile may set
  Vals,       \* their values
  Unset,      \* no value
  MaxReports  \* bytes under way to the host

\* What a status byte says: busy or key_down ("sending"), break_in alone
\* ("paddle"), or none of them.
Statuses == {"idle", "sending", "paddle"}
Bytes == Statuses \cup {"revision", "reply"}

\* The keyer before its first Host Open.
FreshDevice ==
  [open   |-> FALSE,   \* in host mode, as opposed to standalone or maintenance
   text   |-> <<>>,    \* its input FIFO: the pieces of text not yet keyed
   key    |-> FALSE,   \* Key Immediate (0x0b) holds the key down
   paddle |-> FALSE,   \* the operator is at the paddles
   regs   |-> [r \in Regs |-> Unset],
   speed  |-> "pot",
   said   |-> "nothing",  \* the status it last sent; "nothing" owes one
   up     |-> <<>>]       \* bytes under way to the host

DeviceStatus(d) ==
  IF d.text # <<>> \/ d.key THEN "sending"
  ELSE IF d.paddle THEN "paddle" ELSE "idle"

Send(d, byte) == [d EXCEPT !.up = Append(@, byte)]

\* A status is sent when it changed or was asked for.
MayReport(d) ==
  /\ d.open /\ d.said # DeviceStatus(d)
  /\ Len(d.up) < MaxReports

Reported(d) == Send([d EXCEPT !.said = DeviceStatus(d)], DeviceStatus(d))

\* A command that ends a transmission is reported before the next one is read.
Told(d) == IF MayReport(d) /\ d.said # "nothing" THEN Reported(d) ELSE d

\* The commands of PhysicalAction::Write.
Clear         == [do |-> "clear"]         \* 0x0a
KeyUp         == [do |-> "keyUp"]         \* 0x0b 0x00
KeyDown       == [do |-> "keyDown"]       \* 0x0b 0x01
HostOpen      == [do |-> "hostOpen"]      \* 0x00 0x02
HostClose     == [do |-> "hostClose"]     \* 0x00 0x03
StatusRequest == [do |-> "status"]        \* 0x15
Admin         == [do |-> "admin"]         \* a maintenance command
SetReg(r, v)  == [do |-> "reg", reg |-> r, val |-> v]
SetWpm(s)     == [do |-> "speed", speed |-> s]
Text(j, c)    == [do |-> "text", job |-> j, client |-> c]

\* Not a command: the host has taken the oldest byte.
ByteRead      == [do |-> "read"]

\* In host mode.
ObeyOpen(d, w) ==
  CASE w.do = "clear"     -> Told([d EXCEPT !.text = <<>>])
    [] w.do = "keyUp"     -> Told([d EXCEPT !.key = FALSE])
    [] w.do = "keyDown"   -> [d EXCEPT !.key = TRUE]
    [] w.do = "hostOpen"  -> Send([d EXCEPT !.said = "nothing"], "revision")
    [] w.do = "hostClose" -> [d EXCEPT !.open = FALSE]
    [] w.do = "status"    -> [d EXCEPT !.said = "nothing"]
    [] w.do = "reg"       -> [d EXCEPT !.regs[w.reg] = w.val]
    [] w.do = "speed"     -> [d EXCEPT !.speed = w.speed]
    [] w.do = "text"      -> [d EXCEPT !.text =
                                Append(@, [job |-> w.job, client |-> w.client])]
    [] OTHER              -> d

\* Out of host mode the keyer answers maintenance commands, any of which may
\* reset the transient registers; it ignores the rest.
ObeyClosed(d, w) ==
  CASE w.do = "hostOpen" -> Send([d EXCEPT !.open = TRUE, !.said = "nothing"], "revision")
    [] w.do = "admin"    -> Send([d EXCEPT !.regs = [r \in Regs |-> Unset]],
                                 "reply")
    [] OTHER             -> d

Obey(d, w) ==
  IF w.do = "read" THEN [d EXCEPT !.up = Tail(@)]
  ELSE IF d.open THEN ObeyOpen(d, w) ELSE ObeyClosed(d, w)

\* One after the other.
ObeyAll(d, writes) ==
  LET after[i \in 0 .. Len(writes)] == IF i = 0 THEN d ELSE Obey(after[i - 1], writes[i])
  IN after[Len(writes)]

\* One piece of text has been keyed.
Keyed(d) == [d EXCEPT !.text = Tail(@)]
==============================================================================

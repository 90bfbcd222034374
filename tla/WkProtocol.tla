------------------------------ MODULE WkProtocol ------------------------------
(***************************************************************************)
(* The WinKeyer host protocol as CatHub reads it: how a client's bytes are *)
(* cut into data and commands (winkeyer/protocol.rs), and what an endpoint *)
(* lets a client do (winkeyer/endpoint.rs).  Bytes are numbers; a partial  *)
(* command is the sequence of its bytes.                                   *)
(***************************************************************************)
EXTENDS Integers, Sequences

Bytes == 0 .. 255

InitialLen(op) ==
  CASE op \in {4, 27} -> 3
    [] op = 5 -> 4
    [] op \in {7, 8, 10, 19, 21, 30, 31} -> 1
    [] op = 15 -> 16
    [] OTHER -> 2

AdminLen(sub) ==
  CASE sub \in {0, 4, 14, 15, 22, 25} -> 3
    [] sub = 13 -> 258
    [] sub = 19 -> 4
    [] OTHER -> 2

\* The length of a command as far as its bytes tell: Admin and Pointer say in their
\* second byte what follows.
ExpectedLen(cmd) ==
  CASE cmd[1] = 0  /\ Len(cmd) >= 2 -> IF cmd[2] = 28 THEN 3 ELSE AdminLen(cmd[2])
    [] cmd[1] = 22 /\ Len(cmd) >= 2 /\ cmd[2] \in 1 .. 3 -> 3
    [] OTHER -> InitialLen(cmd[1])

None == [kind |-> "none"]
Data(b) == [kind |-> "data", byte |-> b]
Command(cmd) == [kind |-> "command", bytes |-> cmd]

\* ClientParser::push: what is left of a command, and what is complete.
Push(partial, b) ==
  LET cmd == Append(partial, b)
  IN IF partial = <<>> /\ b > 31 THEN [rest |-> <<>>, item |-> Data(b)]
     ELSE IF Len(cmd) = ExpectedLen(cmd) THEN [rest |-> <<>>, item |-> Command(cmd)]
     ELSE [rest |-> cmd, item |-> None]

Policy(cmd) ==
  CASE cmd[1] = 0 -> IF cmd[2] \in (2 .. 7) \cup (9 .. 11) \cup {20, 21, 23, 24}
                     THEN "virtualized" ELSE "maintenance"
    [] cmd[1] \in {10, 11, 20, 22, 24, 25, 26} -> "activeOwner"
    [] OTHER -> "transient"

IsClear(cmd) == cmd[1] = 10
IsBuffered(cmd) == cmd[1] \in 24 .. 31
\* Only Buffered Key needs the permission.
BufferedKeyOnly(cmd, perms) == cmd[1] = 25 => "ptt" \in perms

BufferedAllowed(cmd, perms) == cmd[1] \in {24, 25} => "ptt" \in perms

ParseSpeed(b) == IF b = 0 THEN "pot" ELSE IF b \in 5 .. 99 THEN "fixed" ELSE "none"

\* A status byte: Wk1 sees the key, the later modes do not.
StatusForMode(st, mode) == IF mode = "wk1" THEN st ELSE [st EXCEPT !.key_down = FALSE]

WkTokens == {"status", "send", "control", "ptt", "config_write"}
\* validate_winkeyer_endpoint: the sets of permissions a configuration may give.
Coherent(perms) ==
  /\ perms \subseteq WkTokens
  /\ "send" \in perms => "status" \in perms
  /\ "ptt" \in perms => {"send", "control"} \subseteq perms
  /\ "config_write" \in perms => {"status", "control"} \subseteq perms
=============================================================================

--------------------------- MODULE MCKeyerEndpoint ---------------------------
(* KeyerEndpoint for TLC. *)
EXTENDS KeyerEndpoint
CONSTANTS n1, n2, n3
MCGrants == {{"status", "send", "control"}, {"status", "control", "config_write"},
             {"status", "send", "control", "ptt"}}
\* Host Open; Host Close; text; Clear Buffer; Buffered Speed with a parameter that
\* is an opcode; PTT; text around a clear; a status request; EEPROM dump; WK2 mode;
\* the begin of a Pointer command and the rest of one.
MCMessages == {<<0, 2>>, <<0, 3>>, <<65, 66>>, <<10, 67>>, <<28, 24>>, <<24, 1, 68>>,
               <<21>>, <<0, 12>>, <<0, 11>>, <<22>>, <<2, 20>>}
\* Idle; sending; waiting; key down; break-in; sending under break-in.
MCStatuses == {AtRest, [AtRest EXCEPT !.busy = TRUE], [AtRest EXCEPT !.waiting = TRUE],
               [AtRest EXCEPT !.key_down = TRUE], [AtRest EXCEPT !.break_in = TRUE],
               [AtRest EXCEPT !.busy = TRUE, !.break_in = TRUE]}
=============================================================================

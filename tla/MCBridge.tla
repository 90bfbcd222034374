------------------------------ MODULE MCBridge ------------------------------
(* Bridge for TLC. *)
EXTENDS Bridge
MCMain == {Token(base, data) : base \in {"USB", "AM"}, data \in BOOLEAN}
MCSplit == {Token("AM", FALSE), Token("USB", TRUE)}
=============================================================================

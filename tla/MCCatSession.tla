---------------------------- MODULE MCCatSession ----------------------------
(* CatSession for TLC. *)
EXTENDS CatSession
MCGrants == {{"read", "frequency_write", "bogus"}, {"read", "write", "ptt", "config_write"}}
=============================================================================

------------------------------- MODULE MCSetup -------------------------------
(* Setup for TLC. *)
EXTENDS Setup
CONSTANTS d1, d2
Com(n, spelt) == [device |-> n, spelt |-> spelt]
Logger == [transport |-> Com(5, "upper"), application |-> Com(6, "upper"), dialect |-> "ts2000", singleVfo |-> TRUE]
Paddle(n, primary) == [transport |-> Com(n, "upper"), application |-> Absent, baud |-> 1200,
                       primary |-> primary, perms |-> {"status", "send", "control"}]
One == [backend |-> "ts590", transport |-> "serial", port |-> Com(1, "upper"),
        serial |-> <<Logger>>, hamlib |-> <<>>, keyer |-> Absent, keyerEndpoints |-> <<>>]
\* A second radio's, which has no port in common with the first one's.
Keyed == [One EXCEPT !.port = Com(3, "upper"), !.serial = <<>>, !.hamlib = <<4532>>,
            !.keyer = [port |-> Com(2, "lower"), baud |-> 1200, maxTx |-> 30000, loopback |-> TRUE],
            !.keyerEndpoints = <<Paddle(7, TRUE), Paddle(8, FALSE)>>]
\* Two primaries make the third one invalid.
MCSettings == {One, Keyed, [Keyed EXCEPT !.keyerEndpoints[2].primary = TRUE]}
MCSymmetry == Permutations(Daemons)
=============================================================================

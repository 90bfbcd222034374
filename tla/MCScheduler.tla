----------------------------- MODULE MCScheduler -----------------------------
(***************************************************************************)
(* Two CAT sessions, the PTT watchdog (which submits under the id of the   *)
(* first session) and the poller, each with the operations it submits in   *)
(* the code.                                                               *)
(***************************************************************************)
EXTENDS Scheduler

CONSTANTS c1, c2, watchdog, poller

MCOp(s, a, p, k) == [session |-> s, from |-> a, prio |-> p, kind |-> k]

MCRequests ==
  {MCOp(c1, c1, 0, "tx"), MCOp(c1, c1, 1, "write"),
   MCOp(c2, c2, 0, "rx"), MCOp(c2, c2, 2, "read"),
   MCOp(c1, watchdog, 0, "rx"),
   MCOp(poller, poller, 3, "poll")}
==============================================================================

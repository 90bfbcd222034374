------------------------------ MODULE RadioLink ------------------------------
(***************************************************************************)
(* The transport of the radio (radio/mod.rs): the command channel, the     *)
(* transport task with at most one solicited command in flight, the        *)
(* matching of frames to that command, and the supervisor that reopens a   *)
(* transport that closed.                                                  *)
(*                                                                         *)
(* A Kenwood radio ("verbs") answers queries with a frame of their verb,   *)
(* does not answer sets, and pushes frames of its own once an arming       *)
(* command was obeyed.  A rigctld ("lines") answers everything with lines  *)
(* that do not tell what they answer.                                      *)
(***************************************************************************)
EXTENDS Naturals, Sequences, FiniteSets, SequencesExt

CONSTANTS
  Callers,     \* tasks that submit: the scheduler's worker
  Verbs,       \* verbs of queries and of pushed frames
  Styles,      \* what radios are attached: subset of {"verbs", "lines"}
  NoCmd,       \* no command
  BackoffMax,  \* RECONNECT_MAX, in units of RECONNECT_INITIAL
  MaxCmds,     \* commands ever submitted: bounds the behaviour
  MaxPush,     \* frames the radio ever pushes
  MaxDrops     \* times the transport closes

ASSUME LinkAssumption ==
  /\ Styles \subseteq {"verbs", "lines"}
  /\ BackoffMax \in Nat \ {0}
  /\ MaxCmds \in Nat /\ MaxPush \in Nat /\ MaxDrops \in Nat
  /\ "error" \notin Verbs /\ "none" \notin Verbs

VARIABLES
  style,     \* the kind of backend
  nextId,    \* commands submitted so far, plus one
  queue,     \* raw_rx: commands not taken yet, oldest first
  pending,   \* the command in flight, what is left to come and what came
  conn,      \* "up", "down" (between two transports) or "off" (ended)
  cut,       \* the transport up is closed at the far end
  backoff,   \* the supervisor's backoff
  arming,    \* spawned tasks that are yet to submit the arming command
  drops,     \* how often the transport closed
  inbox,     \* commands the radio received and has not dealt with
  armed,     \* the radio pushes
  wire,      \* frames sent by the radio and not read by the transport task
  pushes,    \* frames pushed so far
  refused,   \* history: the radio refused to push since the transport was opened
  written,   \* history: commands written, in order
  answer,    \* history: what each command was answered with
  routed     \* history: pushed frames given to route_event, in order

radioVars == <<inbox, armed, wire, pushes, refused>>
supVars   == <<conn, cut, backoff, drops>>
vars == <<style, nextId, queue, pending, arming, supVars, radioVars, written, answer, routed>>

CmdIds == 1 .. MaxCmds
\* "get" expects a reply, "set" none (a line, in the lines style); "arm" is the
\* native push command.  Only the latter has no id: nobody looks at its answer.
Command == [id : CmdIds \cup {0}, from : Callers \cup {"armer"},
            kind : {"get", "set", "arm"}, verb : Verbs \cup {"none"}]
\* of: the command a frame answers, or 0; push: the number of a pushed frame.
Frame == [verb : Verbs \cup {"none", "error"}, of : CmdIds \cup {0}, push : 0 .. MaxPush]
\* "No command" is none.
ASSUME NoCmdAssumption == NoCmd \notin [cmd : Command, left : 1 .. 2, got : Seq(Frame)]

Unanswered == [res |-> "none", verb |-> "none", got |-> <<>>]

LinkTypeOK ==
  /\ style \in {"verbs", "lines"}
  /\ nextId \in 1 .. MaxCmds + 1
  /\ queue \in Seq(Command)
  /\ pending = NoCmd \/ pending \in [cmd : Command, left : 1 .. 2, got : Seq(Frame)]
  /\ conn \in {"up", "down", "off"} /\ cut \in BOOLEAN
  /\ backoff \in 1 .. BackoffMax
  /\ arming \in Nat /\ drops \in 0 .. MaxDrops
  /\ inbox \in Seq(Command) /\ armed \in BOOLEAN /\ refused \in BOOLEAN
  /\ wire \in Seq(Frame) /\ pushes \in 0 .. MaxPush
  /\ written \in Seq(CmdIds)
  /\ answer \in [CmdIds -> [res : {"none", "ok", "timeout", "transport"},
                            verb : Verbs \cup {"none"}, got : Seq(Frame)]]
  /\ routed \in Seq(1 .. MaxPush)

\* run_transport_supervised spawns the arming task with every transport.
ArmingTasks == IF style = "verbs" THEN 1 ELSE 0

Init ==
  /\ style \in Styles
  /\ nextId = 1 /\ queue = <<>> /\ pending = NoCmd
  /\ conn = "up" /\ cut = FALSE /\ backoff = 1 /\ drops = 0
  /\ arming = ArmingTasks
  /\ inbox = <<>> /\ armed = FALSE /\ wire = <<>> /\ pushes = 0 /\ refused = FALSE
  /\ written = <<>>
  /\ answer = [i \in CmdIds |-> Unanswered]
  /\ routed = <<>>

------------------------------------------------------------------------------
(***************************************************************************)
(* Callers                                                                 *)
(***************************************************************************)

Waits(c) ==
  \/ pending # NoCmd /\ pending.cmd.from = c
  \/ \E i \in DOMAIN queue : queue[i].from = c

\* Only Expect::Reply tells a verb.
Submit(c, kind, verb) ==
  /\ verb \in Verbs <=> style = "verbs" /\ kind = "get"
  /\ conn # "off" /\ ~Waits(c) /\ nextId <= MaxCmds
  /\ queue' = Append(queue, [id |-> nextId, from |-> c, kind |-> kind, verb |-> verb])
  /\ nextId' = nextId + 1
  /\ UNCHANGED <<style, pending, arming, supVars, radioVars, written, answer, routed>>

\* The spawned task: enable_native_push.
SubmitArm ==
  /\ arming > 0
  /\ arming' = arming - 1
  /\ queue' = Append(queue, [id |-> 0, from |-> "armer", kind |-> "arm", verb |-> "none"])
  /\ UNCHANGED <<style, nextId, pending, supVars, radioVars, written, answer, routed>>

------------------------------------------------------------------------------
(***************************************************************************)
(* The transport task                                                      *)
(***************************************************************************)

Noted(cmd, res, got) ==
  IF cmd.id = 0 THEN answer
  ELSE [answer EXCEPT ![cmd.id] = [res |-> res, verb |-> cmd.verb, got |-> got]]
AnswerOf(cmd, res, got) == answer' = Noted(cmd, res, got)

\* Expect: the frames a command waits for.
Expected(cmd) ==
  CASE style = "verbs" -> IF cmd.kind = "get" THEN 1 ELSE 0
    [] style = "lines" -> IF cmd.kind = "get" THEN 2 ELSE 1

\* A command is taken when none is in flight.  What is written to a transport
\* closed at the far end goes nowhere.
Write ==
  /\ conn = "up" /\ pending = NoCmd /\ queue # <<>>
  /\ LET cmd == Head(queue)
     IN /\ queue' = Tail(queue)
        /\ written' = IF cmd.id = 0 THEN written ELSE Append(written, cmd.id)
        /\ inbox' = IF cut THEN inbox ELSE Append(inbox, cmd)
        /\ IF Expected(cmd) = 0
           THEN AnswerOf(cmd, "ok", <<>>) /\ pending' = pending
           ELSE /\ pending' = [cmd |-> cmd, left |-> Expected(cmd), got |-> <<>>]
                /\ answer' = answer
  /\ UNCHANGED <<style, nextId, arming, supVars, armed, wire, pushes, refused, routed>>

\* The transport is left, with the frames not read yet.
Leave == conn' = "down" /\ cut' = TRUE /\ wire' = <<>> /\ inbox' = <<>>

WriteFails ==
  /\ conn = "up" /\ cut /\ pending = NoCmd /\ queue # <<>>
  /\ queue' = Tail(queue)
  /\ AnswerOf(Head(queue), "transport", <<>>)
  /\ Leave
  /\ UNCHANGED <<style, nextId, pending, arming, backoff, drops, armed, pushes, refused, written, routed>>

\* Frames that come while a reply is awaited are dropped.
RouteEventIdle(frame) ==
  routed' = IF frame.push = 0 \/ pending # NoCmd THEN routed ELSE Append(routed, frame.push)

\* route_event, for the frames the radio pushed.
RouteEvent(frame) ==
  routed' = IF frame.push = 0 THEN routed ELSE Append(routed, frame.push)

ReadIdle ==
  /\ conn = "up" /\ pending = NoCmd /\ wire # <<>>
  /\ RouteEvent(Head(wire))
  /\ wire' = Tail(wire)
  /\ UNCHANGED <<style, nextId, queue, pending, arming, supVars, inbox, armed, pushes, refused, written, answer>>

\* The next frame is taken for the reply.
MatchesAny(cmd, frame) == TRUE

\* frame_matches for verbs; every line counts, and an error line (RPRT) is the
\* last one.
Matches(cmd, frame) == (style = "lines") \/ (frame.verb = cmd.verb)
Completes(frame) == pending.left = 1 \/ (style = "lines" /\ frame.verb = "error")

ReadPending ==
  /\ conn = "up" /\ pending # NoCmd /\ wire # <<>>
  /\ LET frame == Head(wire)
         got   == Append(pending.got, frame)
     IN IF ~Matches(pending.cmd, frame)
        THEN RouteEvent(frame) /\ UNCHANGED <<pending, answer>>
        ELSE /\ routed' = routed
             /\ IF Completes(frame)
                THEN AnswerOf(pending.cmd, "ok", got) /\ pending' = NoCmd
                ELSE /\ pending' = [cmd |-> pending.cmd, left |-> pending.left - 1, got |-> got]
                     /\ answer' = answer
  /\ wire' = Tail(wire)
  /\ UNCHANGED <<style, nextId, queue, arming, supVars, inbox, armed, pushes, refused, written>>

\* Only queries time out.
TimeoutOfGets ==
  /\ conn = "up" /\ pending # NoCmd /\ pending.cmd.kind = "get"
  /\ AnswerOf(pending.cmd, "timeout", <<>>)
  /\ pending' = NoCmd
  /\ UNCHANGED <<style, nextId, queue, arming, supVars, radioVars, written, routed>>

\* REPLY_TIMEOUT passed.
Timeout ==
  /\ conn = "up" /\ pending # NoCmd
  /\ AnswerOf(pending.cmd, "timeout", <<>>)
  /\ pending' = NoCmd
  /\ UNCHANGED <<style, nextId, queue, arming, supVars, radioVars, written, routed>>

\* The command in flight is forgotten with the transport.
EofSilently ==
  /\ conn = "up" /\ cut /\ wire = <<>>
  /\ pending' = NoCmd
  /\ Leave
  /\ UNCHANGED <<style, nextId, queue, arming, backoff, drops, armed, pushes, refused, written, answer, routed>>

\* The command in flight is tried again on the next transport.
EofRetries ==
  /\ conn = "up" /\ cut /\ wire = <<>>
  /\ queue' = IF pending = NoCmd THEN queue ELSE <<pending.cmd>> \o queue
  /\ pending' = NoCmd
  /\ Leave
  /\ UNCHANGED <<style, nextId, arming, backoff, drops, armed, pushes, refused, written, answer, routed>>

\* The frames that had arrived are read before the end of the stream is.
Eof ==
  /\ conn = "up" /\ cut /\ wire = <<>>
  /\ IF pending = NoCmd THEN answer' = answer
     ELSE AnswerOf(pending.cmd, "transport", <<>>)
  /\ pending' = NoCmd
  /\ Leave
  /\ UNCHANGED <<style, nextId, queue, arming, backoff, drops, armed, pushes, refused, written, routed>>

\* Every RadioLink was dropped.  With native push the supervisor holds one.
Shutdown ==
  /\ conn = "up" /\ pending = NoCmd /\ queue = <<>> /\ style = "lines"
  /\ nextId > MaxCmds
  /\ conn' = "off"
  /\ UNCHANGED <<style, nextId, queue, pending, arming, cut, backoff, drops, radioVars, written, answer, routed>>

------------------------------------------------------------------------------
(***************************************************************************)
(* The supervisor                                                          *)
(***************************************************************************)

\* The push stream is armed at startup only.
ReopenUnarmed ==
  /\ conn = "down"
  /\ conn' = "up" /\ cut' = FALSE /\ backoff' = 1 /\ refused' = FALSE
  /\ UNCHANGED <<style, nextId, queue, pending, arming, drops, inbox, armed, wire, pushes, written, answer, routed>>

\* The queue is kept, the push stream is armed again.
Reopen ==
  /\ conn = "down"
  /\ conn' = "up" /\ cut' = FALSE /\ backoff' = 1 /\ refused' = FALSE
  /\ arming' = arming + ArmingTasks
  /\ UNCHANGED <<style, nextId, queue, pending, drops, inbox, armed, wire, pushes, written, answer, routed>>

ReopenFails ==
  /\ conn = "down"
  /\ backoff' = IF 2 * backoff > BackoffMax THEN BackoffMax ELSE 2 * backoff
  /\ UNCHANGED <<style, nextId, queue, pending, arming, conn, cut, drops, radioVars, written, answer, routed>>

------------------------------------------------------------------------------
(***************************************************************************)
(* The radio and the line to it                                            *)
(***************************************************************************)

LinesOf(cmd, err) ==
  LET line(v) == [verb |-> v, of |-> cmd.id, push |-> 0]
  IN CASE style = "verbs" -> IF cmd.kind = "get" THEN <<line(cmd.verb)>> ELSE <<>>
       [] style = "lines" /\ (err \/ cmd.kind # "get") -> <<line("error")>>
       [] style = "lines" /\ ~err /\ cmd.kind = "get" -> <<line(cmd.verb), line(cmd.verb)>>

\* The radio obeys a command, or refuses it.  A Kenwood then answers with a frame of
\* no verb (?;), which route_event passes on: no answer here; and if that was the
\* arming command, it does not push, and nobody knows.
IsArm(cmd) == cmd.kind = "arm"
RadioObeys(err) ==
  /\ inbox # <<>> /\ ~cut
  /\ inbox' = Tail(inbox)
  /\ armed' = (armed \/ (IsArm(Head(inbox)) /\ ~err))
  /\ refused' = (refused \/ (IsArm(Head(inbox)) /\ err))
  /\ wire' = IF style = "verbs" /\ err THEN wire ELSE wire \o LinesOf(Head(inbox), err)
  /\ UNCHANGED <<style, nextId, queue, pending, arming, supVars, pushes, written, answer, routed>>

RadioPushes(verb) ==
  /\ armed /\ ~cut /\ conn = "up" /\ pushes < MaxPush
  /\ pushes' = pushes + 1
  /\ wire' = Append(wire, [verb |-> verb, of |-> 0, push |-> pushes + 1])
  /\ UNCHANGED <<style, nextId, queue, pending, arming, supVars, inbox, armed, refused, written, answer, routed>>

\* The cable is pulled; or the radio is switched off and forgets that it is
\* to push.  Frames may be lost on the way.
Drop ==
  /\ conn = "up" /\ ~cut /\ drops < MaxDrops
  /\ cut' = TRUE /\ drops' = drops + 1
  /\ armed' \in {armed, FALSE}
  /\ \E n \in 0 .. Len(wire) : wire' = SubSeq(wire, 1, n)
  /\ inbox' = <<>>
  /\ UNCHANGED <<style, nextId, queue, pending, arming, conn, backoff, pushes, refused, written, answer, routed>>

------------------------------------------------------------------------------
Next ==
  \/ \E c \in Callers, k \in {"get", "set"}, v \in Verbs \cup {"none"} : Submit(c, k, v)
  \/ SubmitArm
  \/ Write \/ WriteFails \/ ReadIdle \/ ReadPending \/ Timeout \/ Eof \/ Shutdown
  \/ Reopen \/ ReopenFails
  \/ \E err \in BOOLEAN : RadioObeys(err)
  \/ \E v \in Verbs : RadioPushes(v)
  \/ Drop

Spec == Init /\ [][Next]_vars

\* Tokio polls every task that is ready, the deadline of a reply passes, and
\* the transport can be reopened in the end.  Nothing is asked of the radio.
FairSpec ==
  /\ Spec
  /\ WF_vars(SubmitArm)
  /\ WF_vars(Write \/ WriteFails \/ Timeout)
  /\ WF_vars(Eof)
  /\ WF_vars(ReadIdle \/ ReadPending)
  /\ WF_vars(Reopen)

------------------------------------------------------------------------------
(***************************************************************************)
(* Properties                                                              *)
(***************************************************************************)

InQueue(i)   == \E k \in DOMAIN queue : queue[k].id = i
InFlight(i)  == pending # NoCmd /\ pending.cmd.id = i
Answered(i)  == answer[i].res # "none"

\* A submitted command is waiting in the channel, or in flight, or answered, and
\* never two of these, whatever the transport did: no caller waits for a reply
\* nobody owes it and none is answered for a command that can still be sent.
Accounted ==
  \A i \in CmdIds :
    /\ (i < nextId) <=> (InQueue(i) \/ InFlight(i) \/ Answered(i))
    /\ ~(InQueue(i) /\ InFlight(i)) /\ ~(Answered(i) /\ (InQueue(i) \/ InFlight(i)))
    /\ \A k, l \in DOMAIN queue : queue[k].id = i /\ queue[l].id = i => k = l

\* Commands go to the radio in the order they were submitted and at most once,
\* also across reconnects: one that may have been obeyed is never repeated, and
\* one that waits in the channel has not been sent.
WrittenOnce ==
  /\ \A k, l \in DOMAIN written : k < l => written[k] < written[l]
  /\ \A k \in DOMAIN written : ~InQueue(written[k])

\* A command is answered with a frame of another command or with a pushed one
\* only if it has that verb, or if lines have no verb; and the frame of another
\* command only if that one timed out or had itself been given a frame that was
\* not its own.
Displaced(i) ==
  answer[i].res = "timeout" \/ \E k \in DOMAIN answer[i].got : answer[i].got[k].of # i
OwnReply ==
  \A i \in CmdIds : \A k \in DOMAIN answer[i].got :
    LET f == answer[i].got[k]
    IN \/ f.of = i
       \/ style = "verbs" /\ f.verb = answer[i].verb /\ f.of = 0
       \/ style = "verbs" /\ f.verb = answer[i].verb /\ Displaced(f.of)
       \/ style = "lines" /\ f.of \in 1 .. i - 1 /\ Displaced(f.of)

\* A frame the radio pushed reaches the state, or the caller whose query it
\* answers, unless the transport it came on was closed; and those routed to the
\* state arrive in the order they were pushed.
PushesKept ==
  /\ drops = 0 =>
       \A p \in 1 .. pushes :
         \/ p \in Range(routed)
         \/ \E k \in DOMAIN wire : wire[k].push = p
         \/ \E i \in CmdIds : \E k \in DOMAIN answer[i].got : answer[i].got[k].push = p
  /\ \A k, l \in DOMAIN routed : k < l => routed[k] < routed[l]

\* While a transport is up its radio pushes, or a command that makes it do so is on
\* its way: after a power cycle no session is left with a cache nobody feeds.  Only a
\* radio that answered the command on this transport with an error does not push: the
\* hub does not look at the answer and does not ask again.
Rearmed ==
  style = "verbs" /\ conn = "up" /\ ~cut =>
    \/ armed \/ refused \/ arming > 0
    \/ \E k \in DOMAIN queue : IsArm(queue[k])
    \/ \E k \in DOMAIN inbox : IsArm(inbox[k])

\* Once nobody submits, every command is answered in the end, by the radio or
\* with an error, though the radio stays silent and the transport breaks.
EveryCommandAnswered == <>[](\A i \in CmdIds : i < nextId => Answered(i))

\* The commands' bookkeeping is right: where each is, that it was written at most
\* once and in order, and the types of all variables.
LinkInv == LinkTypeOK /\ Accounted /\ WrittenOnce
==============================================================================

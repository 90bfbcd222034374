---------------------------- MODULE KeyerEndpoint ----------------------------
(***************************************************************************)
(* One virtual WinKeyer endpoint (winkeyer/endpoint.rs) and the typed API  *)
(* (winkeyer/grpc.rs) before the keyer's broker.  The session reads chunks *)
(* of its client's bytes, cuts them into items and makes one request after *)
(* the other to the actor (winkeyer/actor.rs, handle_request), which other *)
(* clients ask too; of the keyer it is told by a ring of events and by the *)
(* snapshot the actor publishes after it has answered and told.  Most      *)
(* requests the session awaits; what it sends on Host Close and at its end *)
(* it does not, and the actor comes to it later, before whatever the       *)
(* session asks next.                                                      *)
(*                                                                         *)
(* The broker is kept as small as its clients can tell: jobs without text, *)
(* one status.  What it makes of them is the matter of Keyer.              *)
(***************************************************************************)
EXTENDS WkProtocol, Selection, SequencesExt, FiniteSets

CONSTANTS
  Grants,     \* permissions the endpoint may have been configured with
  Messages,   \* what the client writes at a time
  Statuses,   \* what the keyer's status bytes may say
  Names,      \* of typed clients
  MaxTyped,   \* MAX_TYPED_CLIENTS
  MaxQueue,   \* MAX_QUEUED_JOBS
  MaxSize,    \* MAX_JOB_BYTES
  RingCap,    \* EVENT_CAPACITY
  MaxMoves    \* bounds the behaviour

ASSUME EndpointAssumption ==
  /\ \A g \in Grants : Coherent(g)
  /\ \A msg \in Messages : msg \in Seq(Bytes) /\ msg # <<>>
  /\ Statuses \subseteq [busy : BOOLEAN, waiting : BOOLEAN, key_down : BOOLEAN, break_in : BOOLEAN]
  /\ {MaxTyped, MaxQueue, MaxSize, RingCap, MaxMoves} \subseteq Nat \ {0}
  /\ IsFiniteSet(Names) /\ 0 \notin Names

Me == 1          \* this endpoint
Tool == 2        \* another endpoint, with config_write
FirstTyped == 3  \* FIRST_TYPED_CLIENT_ID
Nobody == 0

VARIABLES
  perms,
  wire,      \* bytes the client has written and the session not read
  chunk,     \* of the bytes read, those not yet looked at
  partial,   \* ClientParser.command
  prefix,    \* buffered_prefix
  text,      \* intended_text
  opened, maintaining, mode,    \* the session's flags
  pc,        \* "live", "releasing", "leaving", "over"
  box,       \* of the actor's channel, what the session sent and does not await
  core,      \* the broker
  snap,      \* the snapshot it published
  ring, lagged,                 \* the session's receiver
  shown,     \* the status last written to the client in this mode, or Unknown
  ids,       \* Service.clients: name -> id, Nobody if it has none
  next,      \* next_client
  asking,    \* name whose registration is awaited, under the lock
  moves,     \* counter of the bound
  meant,     \* history: what is to be made of the bytes looked at so far
  out,       \* history: bytes handed to the broker since the last Clear
  asked,     \* history: <<request, opcode>> this session made
  basis      \* history: shown is what the keyer or a snapshot said ("told"), what a
             \* snapshot not yet published said ("early"), or a job's "completed"

input   == <<wire, chunk, partial, prefix, text>>
flags   == <<opened, maintaining, mode, pc>>
receiver == <<ring, lagged>>
typed   == <<ids, next, asking>>
history == <<meant, out, asked>>
client  == <<shown, basis>>
vars == <<perms, input, flags, box, core, snap, receiver, client, typed, moves, history>>

Gap == -1
AtRest == [busy |-> FALSE, waiting |-> FALSE, key_down |-> FALSE, break_in |-> FALSE]
Sounds(st) == st.busy \/ st.waiting \/ st.key_down

\* A status byte as the client has it, 0xc0 with a bit for each; the bits of DeviceStatus
\* that no snapshot holds are left out.
Unknown == [busy |-> FALSE, key_down |-> FALSE, break_in |-> FALSE, known |-> FALSE]
Showing(st) == [busy |-> st.busy, key_down |-> st.key_down, break_in |-> st.break_in, known |-> TRUE]
Queue(b) == IF b.jobs = <<>> THEN <<>> ELSE Tail(b.jobs)
ActiveClient(b) == IF b.jobs = <<>> THEN Nobody ELSE Head(b.jobs).client

\* BrokerCore::snapshot, as far as an endpoint reads it.
Snapshot(b) == [busy |-> b.status.busy \/ b.jobs # <<>>, key_down |-> b.status.key_down,
                break_in |-> b.status.break_in]
Unpublished == snap # Snapshot(core)

\* A session that has just begun, or has answered Host Open and a status request.
Init ==
  /\ perms \in Grants
  /\ wire = <<>> /\ chunk = <<>> /\ partial = <<>> /\ prefix = <<>> /\ text = <<>>
  /\ opened \in {FALSE, "status" \in perms}
  /\ maintaining = FALSE /\ mode = "wk1" /\ pc = "live" /\ box = <<>>
  /\ core = [up |-> TRUE, status |-> AtRest, jobs |-> <<>>, maint |-> Nobody,
             reopening |-> FALSE, clients |-> {Me, Tool}]
  /\ snap = Snapshot(core)
  /\ ring = <<>> /\ lagged = FALSE
  /\ shown = (IF opened THEN Showing(snap) ELSE Unknown) /\ basis = "told"
  /\ ids = [n \in Names |-> Nobody] /\ next = FirstTyped /\ asking = Nobody
  /\ moves = 0
  /\ meant = [partial |-> <<>>, open |-> opened, out |-> <<>>]
  /\ out = <<>> /\ asked = {}

------------------------------------------------------------------------------
(***************************************************************************)
(* The broker's answers: whether it grants a request, the core after it    *)
(* and the events it sends.                                                *)
(***************************************************************************)

Refused(b) == [ok |-> FALSE, core |-> b, events |-> <<>>]
Granted(b, events) == [ok |-> TRUE, core |-> b, events |-> events]
Event(e, arg) == [e |-> e, arg |-> arg]
Canceled(n) == [i \in 1 .. n |-> Event("canceled", Nobody)]

\* Jobs of c: removed with the active one, and the next one starts.
Cancel(b, c) ==
  LET kept == Selection(b.jobs, {j \in Range(b.jobs) : j.client # c})
  IN Granted([b EXCEPT !.jobs = kept], Canceled(Len(b.jobs) - Len(kept)))

Grow(b, i, n) ==
  IF b.jobs[i].size + n > MaxSize THEN Refused(b)
  ELSE Granted([b EXCEPT !.jobs[i].size = @ + n], <<>>)

\* Request::Enqueue; "cat" says that a CAT session holds the station lease.
Enqueue(b, c, n, stream, cat) ==
  LET last == Len(b.jobs)
      transmits == b.status.busy \/ b.status.break_in \/ b.status.key_down
      Mine(i) == b.jobs[i].client = c /\ b.jobs[i].stream
  IN IF \/ b.maint # Nobody \/ b.reopening
        \/ n > MaxSize
        \/ Len(Queue(b)) >= MaxQueue /\ ~(stream /\ ActiveClient(b) = c)
        \/ b.jobs = <<>> /\ (transmits \/ cat)
        \/ ~b.up \/ c \notin b.clients
     THEN Refused(b)
     ELSE IF stream /\ last > 0 /\ Mine(1) THEN Grow(b, 1, n)
     ELSE IF stream /\ last > 1 /\ Mine(last) THEN Grow(b, last, n)
     ELSE IF Len(Queue(b)) >= MaxQueue THEN Refused(b)
     ELSE Granted([b EXCEPT !.jobs = Append(@, [client |-> c, stream |-> stream, size |-> n,
                                               seen |-> FALSE, sawBusy |-> FALSE])], <<>>)

Maintain(b, c) ==
  IF b.maint \notin {Nobody, c} \/ b.jobs # <<>> \/ ~b.up THEN Refused(b)
  ELSE Granted([b EXCEPT !.maint = c], <<>>)

Release(b, c) ==
  Granted(IF b.maint = c THEN [b EXCEPT !.maint = Nobody, !.reopening = TRUE] ELSE b, <<>>)

\* The jobs of who leaves stay.
UnregisterOnly(b, c) == Release([b EXCEPT !.clients = @ \ {c}], c)

\* Unregistering does what Cancel and Release do.
Unregister(b, c) ==
  LET freed == Release([b EXCEPT !.clients = @ \ {c}], c).core IN Cancel(freed, c)

Stop(b) ==
  Granted([b EXCEPT !.jobs = <<>>, !.maint = Nobody, !.reopening = FALSE], Canceled(Len(b.jobs)))

Lose(b) ==
  Granted([b EXCEPT !.jobs = <<>>, !.maint = Nobody, !.reopening = FALSE, !.up = FALSE],
          Canceled(Len(b.jobs)))

\* observe_status.
Observe(b, st) ==
  LET told == Event("status", st)
      job  == [Head(b.jobs) EXCEPT !.seen = TRUE, !.sawBusy = @ \/ Sounds(st)]
      seen == [b EXCEPT !.status = st]
  IN IF b.jobs = <<>> THEN Granted(seen, <<told>>)
     ELSE IF ~Sounds(st) /\ job.sawBusy
     THEN Granted([seen EXCEPT !.jobs = Tail(@)], <<told, Event("completed", Nobody)>>)
     ELSE Granted([seen EXCEPT !.jobs[1] = job], <<told>>)

\* The actor does what it grants and tells; the snapshot follows.
Does(answer) ==
  LET sent == ring \o answer.events
      lost == Max({0, Len(sent) - RingCap})
  IN /\ core' = answer.core
     /\ ring' = SubSeq(sent, lost + 1, Len(sent))
     /\ lagged' = (lagged \/ lost > 0)

Publish ==
  /\ Unpublished /\ snap' = Snapshot(core)
  /\ UNCHANGED <<perms, input, flags, box, core, receiver, client, typed, moves, history>>

------------------------------------------------------------------------------
(***************************************************************************)
(* The session: bytes                                                      *)
(***************************************************************************)

Has(p) == p \in perms
Sends == opened /\ Has("send")
Pending == prefix \o text

\* What a session with these permissions should hand on of the bytes it was sent,
\* whatever reads they arrived in: data and permitted buffered commands between Host
\* Open and Host Close, in their order, but for those before a Clear Buffer.  A partial
\* command is dropped at a gap.
Meaning(item) ==
  CASE item.kind = "data" -> <<item.byte>>
    [] item.kind = "command" -> IF /\ item.bytes[1] \in 24 .. 31
                                   /\ item.bytes[1] \in {24, 25} => Has("ptt")
                                THEN item.bytes ELSE <<>>
    [] OTHER -> <<>>

Hearing(s, b) ==
  IF b = Gap THEN [s EXCEPT !.partial = <<>>]
  ELSE LET got  == Push(s.partial, b)
           item == got.item
       IN [partial |-> got.rest,
           open |-> CASE item = Command(<<0, 2>>) /\ Has("status") -> TRUE
                      [] item = Command(<<0, 3>>) -> FALSE
                      [] OTHER -> s.open,
           out |-> IF item.kind = "command" /\ IsClear(item.bytes) THEN <<>>
                   ELSE IF s.open /\ Has("send") THEN s.out \o Meaning(item) ELSE s.out]

\* The client writes.
Write(msg) ==
  /\ pc = "live" /\ moves < MaxMoves
  /\ wire' = wire \o msg /\ moves' = moves + 1
  /\ UNCHANGED <<perms, chunk, partial, prefix, text, flags, box, core, snap, receiver, client, typed, history>>

\* A read returns some of what is there; what was read before is dealt with.
Read ==
  /\ pc = "live" /\ chunk = <<>> /\ Pending = <<>>
  /\ \E n \in 1 .. Len(wire) : /\ chunk' = SubSeq(wire, 1, n)
                               /\ wire' = SubSeq(wire, n + 1, Len(wire))
  /\ UNCHANGED <<perms, partial, prefix, text, flags, box, core, snap, receiver, client, typed, moves, history>>

\* Half a second after its last byte was looked at a partial command is dropped, also
\* when the rest of it waits to be read: select! takes either.
PartialTimeout ==
  /\ pc = "live" /\ chunk = <<>> /\ Pending = <<>> /\ partial # <<>>
  /\ partial' = <<>> /\ meant' = Hearing(meant, Gap)
  /\ UNCHANGED <<perms, wire, chunk, prefix, text, flags, box, core, snap, receiver, client, typed, moves, out, asked>>

Parsed == Push(partial, Head(chunk))

Take ==
  /\ pc = "live" /\ chunk # <<>>
  /\ chunk' = Tail(chunk) /\ partial' = Parsed.rest /\ meant' = Hearing(meant, Head(chunk))

\* Text waits while buffered commands are gathered.
FlushesLate(item) ==
  item.kind = "command" /\ ~IsClear(item.bytes) /\ ~IsBuffered(item.bytes) /\ Pending # <<>>

\* What has to reach the broker before the item at hand.
FlushesFirst(item) ==
  /\ item.kind = "command" /\ ~IsClear(item.bytes)
  /\ IF IsBuffered(item.bytes) THEN Sends /\ BufferedAllowed(item.bytes, perms) /\ text # <<>>
                               ELSE Pending # <<>>

\* A request the session awaits: the actor has come to all it sent before.
Awaited(answer) == ~Unpublished /\ box = <<>> /\ Does(answer)

\* flush_stream; a refusal ends the session.
FlushStream ==
  /\ pc = "live" /\ Pending # <<>>
  /\ chunk # <<>> => FlushesFirst(Parsed.item)
  /\ \E cat \in BOOLEAN :
       LET answer == Enqueue(core, Me, Len(Pending), TRUE, cat)
       IN /\ Awaited(answer)
          /\ pc' = IF answer.ok THEN "live" ELSE "releasing"
          /\ out' = IF answer.ok THEN out \o Pending ELSE out
  /\ asked' = asked \cup {<<"stream", 32>>}
  /\ prefix' = <<>> /\ text' = <<>>
  /\ UNCHANGED <<perms, wire, chunk, partial, opened, maintaining, mode, box, snap, client, typed, moves, meant>>

TakeData ==
  /\ Take /\ Parsed.item.kind = "data"
  /\ text' = IF Sends THEN Append(text, Parsed.item.byte) ELSE text
  /\ UNCHANGED <<perms, wire, prefix, flags, box, core, snap, receiver, client, typed, moves, out, asked>>

TakeNothing ==
  /\ Take /\ Parsed.item.kind = "none"
  /\ UNCHANGED <<perms, wire, prefix, text, flags, box, core, snap, receiver, client, typed, moves, out, asked>>

TakeBuffered ==
  /\ Take /\ Parsed.item.kind = "command"
  /\ IsBuffered(Parsed.item.bytes) /\ ~FlushesFirst(Parsed.item)
  /\ IF Sends /\ BufferedAllowed(Parsed.item.bytes, perms)
     THEN /\ prefix' = prefix \o Parsed.item.bytes
          /\ asked' = asked \cup {<<"stream", Parsed.item.bytes[1]>>}
     ELSE UNCHANGED <<prefix, asked>>
  /\ UNCHANGED <<perms, wire, text, flags, box, core, snap, receiver, client, typed, moves, out>>

\* Clear Buffer drops what of this read has not reached the broker, then cancels.
TakeClear ==
  /\ Take /\ Parsed.item.kind = "command" /\ IsClear(Parsed.item.bytes)
  /\ prefix' = <<>> /\ text' = <<>>
  /\ IF Has("send")
     THEN /\ Awaited(Cancel(core, Me))
          /\ out' = <<>> /\ asked' = asked \cup {<<"cancel", 10>>}
     ELSE UNCHANGED <<core, receiver, out, asked>>
  /\ UNCHANGED <<perms, wire, flags, box, snap, client, typed, moves>>

------------------------------------------------------------------------------
(***************************************************************************)
(* The session: commands                                                   *)
(***************************************************************************)

\* What a command makes the session do: a request to the broker, a flag, an answer.
Nothing == [do |-> "nothing"]
Say(what) == [do |-> what]
Request(req) == [do |-> "request", req |-> req]

HandleAdmin(cmd) ==
  LET sub == cmd[2]
  IN CASE sub = 2 /\ Has("status") -> Say("open")
       [] sub = 3 -> Say("close")
       [] sub \in {4, 5, 6, 7, 9, 21, 23, 24} /\ Has("status") -> Say("answer")
       [] sub \in {10, 11, 20} /\ Has("control") ->
            [do |-> "mode", mode |-> CASE sub = 10 -> "wk1" [] sub = 11 -> "wk2" [] OTHER -> "wk3"]
       [] sub \in {15, 19, 22, 25} /\ Has("control") -> Request("configure")
       [] OTHER -> IF Has("config_write") THEN Request("maintenance") ELSE Say("end")

HandleCommand(cmd) ==
  IF cmd[1] = 0 THEN HandleAdmin(cmd)
  ELSE IF ~opened THEN Nothing
  ELSE CASE cmd[1] = 2 /\ Has("control") ->
              IF ParseSpeed(cmd[2]) = "none" THEN Nothing ELSE Request("speed")
         [] cmd[1] = 7 /\ Has("status") -> Say("answer")
         [] cmd[1] = 21 /\ Has("status") -> Say("status")
         [] /\ Policy(cmd) = "transient" /\ Has("control")
            /\ cmd[1] # 2 /\ (cmd[1] \in {7, 21} => ~Has("status")) -> Request("configure")
         [] Policy(cmd) = "activeOwner" /\ Has("control") /\ (cmd[1] # 11 \/ Has("ptt")) -> Request("owner")
         [] OTHER -> Nothing

\* synthesize_status.
Synthesized == StatusForMode(Showing(snap), mode)
FromSnapshot == IF Unpublished THEN "early" ELSE "told"

\* Host Close sends the release and goes on at once.
Ask(act) ==
  CASE act.do = "request" /\ act.req = "maintenance" ->
         LET answer == Maintain(core, Me)
         IN /\ Awaited(answer) /\ UNCHANGED box
            /\ maintaining' = (maintaining \/ answer.ok)
            /\ pc' = IF answer.ok THEN pc ELSE "releasing"
    [] act.do = "request" /\ act.req # "maintenance" ->
         box = <<>> /\ UNCHANGED <<maintaining, pc, box, core, receiver>>
    [] act.do = "close" ->
         box' = Append(box, "release") /\ maintaining' = FALSE /\ UNCHANGED <<pc, core, receiver>>
    [] act.do = "end" -> pc' = "releasing" /\ UNCHANGED <<maintaining, box, core, receiver>>
    [] OTHER -> UNCHANGED <<maintaining, pc, box, core, receiver>>

\* What a command is answered with may not reach the client; that ends the session, and
\* the rest of the read is lost.
Answers(act) == act.do \in {"open", "answer", "status"}
Unanswered ==
  pc' = "releasing" /\ shown' = Unknown /\ UNCHANGED <<maintaining, box, core, receiver, basis>>

Answered(act) ==
  /\ Ask(act)
  /\ CASE act.do = "status" -> shown' = Synthesized /\ basis' = FromSnapshot
       [] act.do \in {"open", "mode"} -> shown' = Unknown /\ UNCHANGED basis
       [] OTHER -> UNCHANGED client

TakeCommand ==
  /\ Take /\ Parsed.item.kind = "command"
  /\ ~IsClear(Parsed.item.bytes) /\ ~IsBuffered(Parsed.item.bytes) /\ ~FlushesFirst(Parsed.item)
  /\ LET cmd == Parsed.item.bytes
         act == HandleCommand(cmd)
     IN /\ asked' = IF act.do = "request" THEN asked \cup {<<act.req, cmd[1]>>} ELSE asked
        /\ opened' = CASE act.do = "open" -> TRUE [] act.do = "close" -> FALSE [] OTHER -> opened
        /\ mode' = CASE act.do = "open" -> "wk1" [] act.do = "mode" -> act.mode [] OTHER -> mode
        /\ Answered(act) \/ (Answers(act) /\ Unanswered)
  /\ UNCHANGED <<perms, wire, prefix, text, snap, typed, moves, out>>

------------------------------------------------------------------------------
(***************************************************************************)
(* The session: events and its end                                         *)
(***************************************************************************)

Reading == chunk = <<>> /\ Pending = <<>>
Listens == pc = "live" /\ Reading /\ Has("status") /\ (opened \/ maintaining)

Shows(status, from) == shown' = status /\ basis' = from

\* event_byte: the raw status, plain idle for a completed job, what the snapshot
\* says for a canceled one.
ReadEvent ==
  /\ Listens /\ ~lagged /\ ring # <<>>
  /\ LET ev == Head(ring)
     IN CASE ev.e = "status" ->
               Shows(StatusForMode(Showing(ev.arg), mode), "told")
          [] ev.e = "completed" -> Shows(Showing(AtRest), "completed")
          [] ev.e = "canceled" -> Shows(Synthesized, FromSnapshot)
          [] OTHER -> UNCHANGED client
  /\ ring' = Tail(ring)
  /\ UNCHANGED <<perms, input, flags, box, core, snap, lagged, typed, moves, history>>

\* What was lost is passed over.
LagSilently ==
  /\ Listens /\ lagged
  /\ lagged' = FALSE /\ UNCHANGED client
  /\ UNCHANGED <<perms, input, flags, box, core, snap, ring, typed, moves, history>>

\* The session was too slow for some events: the status of the snapshot stands for
\* them; the newer ones are read next.
Lag ==
  /\ Listens /\ lagged
  /\ lagged' = FALSE /\ Shows(Synthesized, FromSnapshot)
  /\ UNCHANGED <<perms, input, flags, box, core, snap, ring, typed, moves, history>>

\* The client closes its port, or writing to it fails.
HangUp ==
  /\ pc = "live" /\ Reading
  /\ pc' = "releasing"
  /\ UNCHANGED <<perms, input, opened, maintaining, mode, box, core, snap, receiver, client, typed, moves, history>>

\* The session sends and does not wait.
End(at, then, request) ==
  /\ pc = at /\ pc' = then /\ box' = Append(box, request)
  /\ UNCHANGED <<perms, input, opened, maintaining, mode, core, snap, receiver, client, typed, moves, history>>

EndSession == End("releasing", "leaving", "release") \/ End("leaving", "over", "unregister")

\* The actor comes to the first of what was sent.
Handle ==
  /\ box # <<>> /\ ~Unpublished
  /\ Does(IF Head(box) = "release" THEN Release(core, Me) ELSE Unregister(core, Me))
  /\ box' = Tail(box)
  /\ UNCHANGED <<perms, input, flags, snap, client, typed, moves, history>>

------------------------------------------------------------------------------
(***************************************************************************)
(* The keyer and the other clients                                         *)
(***************************************************************************)

Actor(answer) ==
  /\ ~Unpublished /\ Does(answer)
  /\ UNCHANGED <<perms, input, flags, box, snap, client, history>>

\* A byte from the keyer.  While maintenance lasts it is its owner's; the first one
\* after it says that the keyer is back, or (0xff) that it is not.
DeviceByte ==
  /\ core.up /\ moves < MaxMoves /\ moves' = moves + 1 /\ UNCHANGED typed
  /\ \/ /\ core.reopening
        /\ \/ Actor(Granted([core EXCEPT !.reopening = FALSE], <<Event("connected", Nobody)>>))
           \/ Actor(Lose(core))
     \/ /\ ~core.reopening /\ core.maint # Nobody
        /\ Actor(Granted(core, <<Event("maintenance", core.maint)>>))
     \/ /\ ~core.reopening /\ core.maint = Nobody
        /\ \/ \E st \in Statuses : Actor(Observe(core, st))
           \/ Actor(Granted(core, <<Event("pot", Nobody)>>))

\* confirm_idle_after_settle.
Settle ==
  /\ core.up /\ core.jobs # <<>> /\ Head(core.jobs).seen /\ ~Sounds(core.status)
  /\ Actor(Granted([core EXCEPT !.jobs = Tail(@)], <<Event("completed", Nobody)>>))
  /\ UNCHANGED <<typed, moves>>

Fault ==
  /\ core.up /\ moves < MaxMoves /\ moves' = moves + 1
  /\ Actor(Lose(core)) /\ UNCHANGED typed

Reconnect ==
  /\ ~core.up
  /\ Actor(Granted([core EXCEPT !.up = TRUE], <<Event("connected", Nobody)>>))
  /\ UNCHANGED <<typed, moves>>

\* The maintenance tool at another endpoint.
OtherEndpoint ==
  /\ moves < MaxMoves /\ moves' = moves + 1
  /\ Actor(Maintain(core, Tool)) \/ Actor(Release(core, Tool)) \/ Actor(Enqueue(core, Tool, 1, TRUE, FALSE))
  /\ UNCHANGED typed

\* Names are looked up without the lock.
IdentifyUnlocked(n) ==
  /\ ids[n] = Nobody
  /\ Cardinality({k \in Names : ids[k] # Nobody}) < MaxTyped
  /\ moves < MaxMoves /\ moves' = moves + 1
  /\ asking' = n /\ next' = next + 1
  /\ ids' = IF asking = Nobody THEN ids ELSE [ids EXCEPT ![asking] = next - 1]
  /\ Actor(Granted([core EXCEPT !.clients = @ \cup {next}], <<>>))

\* Service::client_id: under the lock an unknown name gets the next id, if there is
\* room, and is entered once the broker has registered it.
Identify(n) ==
  /\ asking = Nobody /\ ids[n] = Nobody
  /\ Cardinality({k \in Names : ids[k] # Nobody}) < MaxTyped
  /\ moves < MaxMoves /\ moves' = moves + 1
  /\ asking' = n /\ next' = next + 1
  /\ Actor(Granted([core EXCEPT !.clients = @ \cup {next}], <<>>))
  /\ UNCHANGED ids

\* The caller may have gone by then, and with it the entry.
Enter ==
  /\ asking # Nobody /\ asking' = Nobody
  /\ ids' \in {ids, [ids EXCEPT ![asking] = next - 1]}
  /\ UNCHANGED <<perms, input, flags, box, core, snap, receiver, client, next, moves, history>>

\* send_text, abort_client and cancel_job of a typed client.
TypedRequest(n) ==
  /\ ids[n] # Nobody /\ moves < MaxMoves /\ moves' = moves + 1
  /\ \/ \E cat \in BOOLEAN : Actor(Enqueue(core, ids[n], 1, FALSE, cat))
     \/ Actor(Cancel(core, ids[n]))
     \/ Actor(Stop(core))
  /\ UNCHANGED typed

Next ==
  \/ \E msg \in Messages : Write(msg)
  \/ Read \/ PartialTimeout \/ FlushStream
  \/ TakeData \/ TakeNothing \/ TakeBuffered \/ TakeClear \/ TakeCommand
  \/ ReadEvent \/ Lag \/ HangUp \/ EndSession \/ Handle
  \/ Publish \/ DeviceByte \/ Settle \/ Fault \/ Reconnect \/ OtherEndpoint
  \/ \E n \in Names : Identify(n) \/ TypedRequest(n)
  \/ Enter

Spec == Init /\ [][Next]_vars

------------------------------------------------------------------------------
(***************************************************************************)
(* Properties                                                              *)
(***************************************************************************)

KeyerEndpointTypeOK ==
  /\ perms \subseteq WkTokens
  /\ {wire, chunk, partial, prefix, text, out} \subseteq Seq(Bytes)
  /\ partial # <<>> => Len(partial) < ExpectedLen(partial)
  /\ opened \in BOOLEAN /\ maintaining \in BOOLEAN /\ mode \in {"wk1", "wk2", "wk3"}
  /\ pc \in {"live", "releasing", "leaving", "over"}
  /\ core.clients \subseteq {Me, Tool} \cup FirstTyped .. next
  /\ core.maint \in core.clients \cup {Nobody}
  /\ Len(Queue(core)) <= MaxQueue
  /\ \A i \in DOMAIN core.jobs : core.jobs[i].client \in core.clients /\ core.jobs[i].size <= MaxSize
  /\ Len(ring) <= RingCap
  /\ box \in Seq({"release", "unregister"})
  /\ shown \in [busy : BOOLEAN, key_down : BOOLEAN, break_in : BOOLEAN, known : BOOLEAN]
  /\ asking \in Names \cup {Nobody}

Intended == meant.out

\* "CatHub keeps authorized WinKeyer command and text bytes in their original order"
\* (winkeyer-broker.md): what was handed to the broker since the last Clear, and
\* what the read at hand still holds, is what the client meant, however the bytes
\* were cut into reads and whatever the broker was asked by others in between.
BytesInOrder == pc = "live" => out \o Pending = Intended

\* A client that is told of the keyer's status ends with the one the broker has, in
\* its mode's form, also when it read late or lost events.  There are two exceptions.  If
\* the last it was told was read off the snapshot before the actor had published it, it
\* may be anything.  If it was a job's completion, which is told as 0xc0 whatever the
\* status was, it is the broker's but for break-in.
StatusFollows ==
  (/\ Listens /\ ring = <<>> /\ ~lagged /\ ~Unpublished /\ core.jobs = <<>>
   /\ shown.known /\ basis # "early")
    => shown = IF basis = "completed" THEN [Synthesized EXCEPT !.break_in = FALSE] ELSE Synthesized

\* The keyer is in the hands of an endpoint only while its session hears the keyer's
\* replies, or what the session has sent and the actor not yet come to takes it away;
\* once that is dealt with, a session that is over holds neither the keyer nor a job.
MaintenanceHeld ==
  /\ core.maint = Me => \/ maintaining /\ pc \in {"live", "releasing"}
                        \/ box # <<>>
  /\ pc = "over" /\ box = <<>> =>
       core.maint # Me /\ Me \notin core.clients /\ \A i \in DOMAIN core.jobs : core.jobs[i].client # Me

\* No byte sequence gets past the permissions: not as the parameter of another
\* command, not split over reads, not before Host Open.
Authority ==
  \A a \in asked :
    /\ a[1] \in {"stream", "cancel"} => Has("send")
    /\ a[1] \in {"configure", "speed", "owner"} => Has("control")
    /\ a[1] = "maintenance" => Has("config_write")
    /\ a[2] \in {11, 24, 25} => Has("ptt")

\* Typed clients are told apart: no two names share an id, each id is known to the
\* broker, and there are at most so many, though names are registered across an await.
TypedClients ==
  LET entered == {n \in Names : ids[n] # Nobody}
  IN /\ Cardinality(entered) <= MaxTyped
     /\ \A n, k \in entered : ids[n] = ids[k] => n = k
     /\ \A n \in entered : ids[n] \in core.clients

\* The broker's clients are told apart, and every variable has its type.
EndpointInv == KeyerEndpointTypeOK /\ TypedClients
=============================================================================

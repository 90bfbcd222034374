------------------------------- MODULE Bridge -------------------------------
(***************************************************************************)
(* Hamlib clients of the hub and the radio behind a private rigctld, which *)
(* the hub is the client of (hamlib_net.rs, backend/rigctld.rs).  rigctld  *)
(* pushes nothing: what is turned at the radio is known from the next poll *)
(* on.  The scheduler's worker does one operation at a time, and a poll is *)
(* one with several queries; a client's mode is two operations, which the  *)
(* other client's may come between.                                        *)
(*                                                                         *)
(* What the link makes of lines is the matter of RadioLink, who may        *)
(* transmit that of Station.  The radio receives on VFO A.                 *)
(***************************************************************************)
EXTENDS Hamlib

CONSTANTS
  Clients,     \* Hamlib sessions
  SingleVfo,   \* those at an endpoint with single_vfo
  Grant,       \* permissions of a client
  Hz,          \* frequencies
  MainTokens, SplitTokens,  \* mode tokens for VFO A, and for VFO B
  Levels,      \* power levels
  Errors,      \* queries that rigctld may answer with an error
  MaxEvents    \* bounds the behaviour: commands and turns of knobs

ASSUME BridgeAssumption ==
  /\ SingleVfo \subseteq Clients /\ MaxEvents \in Nat
  /\ Hz # {} /\ Hz \subseteq Nat \ {0} /\ Levels # {} /\ Levels \subseteq 1..Scale
  \* VFO A has the plain and the PKT form of USB and of every mode there is.
  /\ \A t \in MainTokens \cup SplitTokens :
       /\ t.base \in Modes \ {"Unknown"} /\ t = Token(t.base, t.pkt)
       /\ \A data \in BOOLEAN : Token(t.base, data) \in MainTokens
  /\ Token("USB", FALSE) \in MainTokens /\ SplitTokens # {}

VARIABLES
  radio,    \* [freqA, freqB: Hz; tokenA, tokenB; split: <<on, tx>>; rel: power]
  snap, unsure,  \* the cache
  poll,     \* [at: the next query, or "none"; rel: the level it was told, or 0; mixed]
  sess,     \* per client: [st, cmd, muts it is yet to apply, clean (history)]
  commands, knobs,  \* how many there were, for the bound
  trusted,  \* history: the cache was right after a poll, and what went on since it was told of
  fresh,    \* history: nothing went on since
  promise   \* history: the last command that was told Ok, if nothing came after it

cacheVars == <<snap, unsure>>
vars == <<radio, cacheVars, poll, sess, commands, knobs, trusted, fresh, promise>>

TokenField(v) == IF v = "A" THEN "tokenA" ELSE "tokenB"
Resting == [st |-> "idle", cmd |-> Nothing, muts |-> <<>>, clean |-> TRUE]
NoPoll == [at |-> "none", rel |-> 0, mixed |-> FALSE]
Single(c) == c \in SingleVfo

\* A first poll told of the radio, which is in a plain mode (lib.rs).
Init ==
  /\ LET hz == CHOOSE f \in Hz : TRUE
         token == CHOOSE f \in MainTokens : ~f.pkt
         other == CHOOSE f \in SplitTokens : TRUE
         rel == CHOOSE l \in Levels : TRUE
     IN /\ radio = [freqA |-> hz, freqB |-> hz, tokenA |-> token, tokenB |-> other,
                    split |-> <<FALSE, "A">>, rel |-> rel]
        /\ snap = [DefaultSnapshot EXCEPT !.freqA = hz, !.modeA = FromToken(token),
                                          !.knownA = TRUE, !.power = <<>>]
  /\ unsure = {} /\ poll = NoPoll
  /\ sess = [c \in Clients |-> Resting]
  /\ commands = 0 /\ knobs = 0
  /\ trusted = TRUE /\ fresh = FALSE /\ promise = Nothing

------------------------------------------------------------------------------
(***************************************************************************)
(* The radio                                                               *)
(***************************************************************************)

\* The most milliwatts it makes in a mode.
Most(base) == IF base = "AM" THEN 25 ELSE 100
ToMilliwatts(rel, base) == (rel * Most(base)) \div Scale

\* A new frequency may recall another mode.
TunedTo(r, v, hz) ==
  {[r EXCEPT ![FreqOf(v)] = hz, ![TokenField(v)] = t] :
     t \in IF r[FreqOf(v)] = hz THEN {r[TokenField(v)]}
           ELSE IF v = "A" THEN MainTokens ELSE SplitTokens}

\* What a mutation makes of it.
Obeys(r, line) ==
  CASE line[1] = "F" -> TunedTo(r, "A", line[2])
    [] line[1] = "M" -> {[r EXCEPT !.tokenA = line[2]]}
    [] line[1] = "S" -> {[r EXCEPT !.split = IF line[2][1] THEN line[2] ELSE <<FALSE, "A">>]}

\* The operator: tunes, changes a mode, works split, or sets the power.
Knob ==
  /\ commands + knobs < MaxEvents /\ knobs' = knobs + 1
  /\ \/ \E v \in Vfo, hz \in Hz : radio' \in TunedTo(radio, v, hz)
     \/ \E t \in MainTokens : radio' = [radio EXCEPT !.tokenA = t]
     \/ radio' = [radio EXCEPT !.split = IF @[1] THEN <<FALSE, "A">> ELSE <<TRUE, "B">>]
     \/ \E l \in Levels : radio' = [radio EXCEPT !.rel = l]
  /\ radio' # radio
  /\ poll' = [poll EXCEPT !.mixed = TRUE]
  /\ sess' = [c \in Clients |-> [sess[c] EXCEPT !.clean = FALSE]]
  /\ trusted' = FALSE /\ fresh' = FALSE /\ promise' = Nothing
  /\ UNCHANGED <<cacheVars, commands>>

------------------------------------------------------------------------------
(***************************************************************************)
(* The backend                                                             *)
(***************************************************************************)

\* record, of each change in turn, by the one worker.
RecordAll(changes, source) ==
  LET after[i \in 0..Len(changes)] ==
        IF i = 0 THEN [snap |-> snap, unsure |-> unsure]
        ELSE LET was == after[i - 1]
                 ch  == changes[i]
             IN [snap   |-> ApplyChange(was.snap, ch),
                 unsure |-> UncertainAfter(was.unsure, ch, source, Changes(was.snap, ch))]
  IN snap' = after[Len(changes)].snap /\ unsure' = after[Len(changes)].unsure

\* The power is converted for the mode that is received with.
ConvertsForRx(s) == s.rx

\* poll_tx_power: the VFO that transmits.
ConvertsFor(s) == IF s.split[1] THEN s.split[2] ELSE s.rx

\* What an answer to a query of the poll tells of.
Heard(at) ==
  LET tx == snap.split[2]
      mw == ToMilliwatts(poll.rel, TokenOf(snap, ConvertsFor(snap)).base)
  IN CASE at = "f" -> <<Change("freqA", radio.freqA)>>
       [] at = "m" -> <<Change("modeA", FromToken(radio.tokenA))>>
       [] at = "s" -> <<Change("split", radio.split)>>
       [] at = "i" -> <<Change(FreqOf(tx), radio[FreqOf(radio.split[2])])>>
       [] at = "x" -> LET token == radio[TokenField(radio.split[2])]
                      IN <<Change(ModeOf(tx), token.base), Change(DataOf(tx), token.pkt)>>
       [] at = "l" -> <<>>
       [] at = "2" -> <<Change("power", FromRelative(poll.rel, mw))>>

\* And what an error in its place does.
HeardError(at) ==
  CASE at = "m" -> <<Change("modeA", "Unknown")>>
    [] at = "s" -> <<Change("split", <<FALSE, "A">>)>>
    [] at \in {"l", "2"} -> <<Change("power", <<>>)>>
    [] OTHER -> <<>>

After(at, error, split) ==
  CASE at = "f" -> "m" [] at = "m" -> "s"
    [] at = "s" -> IF split THEN "i" ELSE "l"
    [] at = "i" -> "x" [] at = "x" -> "l"
    [] at = "l" -> IF error THEN "none" ELSE "2"
    [] at = "2" -> "none"

StartPoll ==
  /\ poll.at = "none" /\ poll' = [NoPoll EXCEPT !.at = "f"]
  /\ UNCHANGED <<radio, cacheVars, sess, commands, knobs, trusted, fresh, promise>>

\* An error tells of nothing; neither does the PKT form of VFO A's mode, which
\* from_hamlib_token takes for no mode it knows.
Untold(at, error) == error \/ (at = "m" /\ radio.tokenA.pkt)

\* poll, poll_split_details and poll_tx_power: one query, its answer and the recording.
PollQuery ==
  /\ poll.at # "none"
  /\ \E error \in BOOLEAN :
       LET at == poll.at
           then == After(at, error, snap'.split[1])
           untold == Untold(at, error)
           mixed == poll.mixed \/ untold
           done == then = "none" /\ ~mixed
       IN /\ error => at \in Errors
          /\ RecordAll(IF error THEN HeardError(at) ELSE Heard(at), "poll")
          /\ poll' = IF then = "none" THEN NoPoll
                     ELSE [at |-> then, mixed |-> mixed, rel |-> IF at = "l" THEN radio.rel ELSE poll.rel]
          /\ trusted' = (done \/ (trusted /\ ~untold)) /\ fresh' = (done \/ (fresh /\ ~untold))
          /\ sess' = [c \in Clients |-> [sess[c] EXCEPT !.clean = @ /\ ~untold]]
  /\ UNCHANGED <<radio, commands, knobs, promise>>

\* A query is not answered: the poll ends there.
PollFails ==
  /\ poll.at # "none" /\ poll' = NoPoll
  /\ UNCHANGED <<radio, cacheVars, sess, commands, knobs, trusted, fresh, promise>>

\* apply: the line for a mutation.  The data flag is composed on the base mode the cache
\* has for its VFO.
Line(s, mut) ==
  CASE mut.field \in {"freqA", "freqB"} -> <<"F", mut.new>>
    [] mut.field \in ModeFields -> <<"M", Token(mut.new, FALSE)>>
    [] mut.field \in DataFields ->
         <<"M", Token(s[IF mut.field = "dataA" THEN "modeA" ELSE "modeB"], mut.new)>>
    [] mut.field = "split" -> <<"S", mut.new>>

\* The worker applies a client's mutation: rigctld obeys or reports an error, or the
\* line or its answer is lost.
ApplyMutation(c) ==
  /\ poll.at = "none" /\ sess[c].st = "wait"
  /\ LET mut == Head(sess[c].muts)
     IN \/ /\ radio' \in Obeys(radio, Line(snap, mut))
           /\ RecordAll(<<mut>>, "write")
           /\ sess' = [d \in Clients |-> IF d = c THEN [sess[c] EXCEPT !.st = "resume", !.muts = Tail(@)]
                                         ELSE [sess[d] EXCEPT !.clean = FALSE]]
           /\ UNCHANGED trusted
        \/ /\ radio' \in {radio} \cup Obeys(radio, Line(snap, mut))
           /\ sess' = [d \in Clients |-> IF d = c THEN Resting ELSE [sess[d] EXCEPT !.clean = FALSE]]
           /\ trusted' = (trusted /\ radio' = radio)
           /\ UNCHANGED cacheVars
  /\ promise' = Nothing /\ fresh' = FALSE
  /\ UNCHANGED <<poll, commands, knobs>>

------------------------------------------------------------------------------
(***************************************************************************)
(* The sessions                                                            *)
(***************************************************************************)

\* The cache takes the data flag for on already.  No poll tells that it is not.
DataAssumed(mut) == mut.field \in DataFields /\ mut.new /\ IsRedundant(snap, unsure, mut)

\* apply_modeled, of the mutations a command has left: what the cache makes redundant is
\* accepted; the first that is not, submitted; at one that is denied the command fails.
Proceed(c, cmd, muts, class, clean) ==
  LET allowed(m) == AllowsMutation(Grant, class, m)
      skipped == \A i \in DOMAIN muts : allowed(muts[i]) /\ IsRedundant(snap, unsure, muts[i])
      next == CHOOSE i \in DOMAIN muts :
                /\ ~(allowed(muts[i]) /\ IsRedundant(snap, unsure, muts[i]))
                /\ \A j \in 1..i - 1 : allowed(muts[j]) /\ IsRedundant(snap, unsure, muts[j])
      sure == /\ clean /\ ~\E i \in DOMAIN muts : DataAssumed(muts[i])
              /\ trusted \/ ~\E i \in DOMAIN muts : IsRedundant(snap, unsure, muts[i])
  IN IF skipped
     THEN /\ sess' = [sess EXCEPT ![c] = Resting]
          /\ promise' = IF sure THEN cmd ELSE promise
     ELSE /\ sess' = [sess EXCEPT ![c] =
                        IF ~allowed(muts[next]) THEN Resting
                        ELSE [st |-> "wait", cmd |-> cmd, clean |-> sure,
                              muts |-> SubSeq(muts, next, Len(muts))]]
          /\ UNCHANGED promise

NoToken == [base |-> "Unknown", pkt |-> FALSE]  \* not the name of a mode
Commands ==
  {Command("set_freq", <<hz>>) : hz \in Hz} \cup {Command("set_mode", <<t>>) : t \in MainTokens \cup {NoToken}}
    \cup {Command("set_split_vfo", how) : how \in (0..1) \X Vfo}

\* A command that asks for mutations; those that do not change nothing here.
HandleCommand(c) ==
  /\ sess[c].st = "idle" /\ commands + knobs < MaxEvents
  /\ commands' = commands + 1
  /\ \E cmd \in Commands :
       LET deed == HandleLine(Single(c), Grant, FALSE, snap, FALSE, cmd)
       IN deed.kind = "apply" /\ Proceed(c, cmd, deed.muts, deed.class, TRUE)
  /\ UNCHANGED <<radio, cacheVars, poll, knobs, trusted, fresh>>

\* A mutation was accepted: on to the next, or to the report.
Resume(c) ==
  /\ sess[c].st = "resume"
  /\ Proceed(c, sess[c].cmd, sess[c].muts, "ModeledWrite", sess[c].clean)
  /\ UNCHANGED <<radio, cacheVars, poll, commands, knobs, trusted, fresh>>

Next ==
  \/ Knob
  \/ StartPoll \/ PollQuery \/ PollFails
  \/ \E c \in Clients : ApplyMutation(c) \/ HandleCommand(c) \/ Resume(c)

Spec == Init /\ [][Next]_vars

------------------------------------------------------------------------------

\* Every variable has its type; a mode that the hub does not know is never submitted, as
\* it would be set as USB (hamlib_net.rs, the comment in set_mode).
BridgeTypeOK ==
  /\ radio.tokenA \in MainTokens /\ radio.freqA \in Hz /\ radio.split[2] \in Vfo
  /\ snap.modeA \in Modes /\ snap.freqA \in Hz \cup {0} /\ snap.split[2] \in Vfo
  /\ poll.at \in {"none", "f", "m", "s", "i", "x", "l", "2"} /\ poll.rel \in Levels \cup {0}
  /\ \A c \in Clients : /\ sess[c].st \in {"idle", "wait", "resume"}
                        /\ sess[c].st = "wait" => sess[c].muts # <<>>
                        /\ \A i \in DOMAIN sess[c].muts :
                             LET mut == sess[c].muts[i]
                             IN mut.field \in ModeFields => mut.new # "Unknown"

\* After a poll that nothing came between, clients read what the radio is set to, also of
\* the VFO it transmits on in split, of its mode with the data flag and of its power
\* (poll, poll_split_details, poll_tx_power); at the level it is set to they are told the
\* milliwatts it makes.  Of the mode that is received with a poll tells the base only,
\* and of a PKT mode not even that: its data flag is what was last written, or what a
\* poll during which the operator worked split took for VFO A's.
BridgeFaithful ==
  fresh =>
    LET says(name, args) == Read(FALSE, snap, Command(name, args))
        tx == radio.split[2]
        mw == ToMilliwatts(radio.rel, radio[TokenField(IF radio.split[1] THEN tx ELSE "A")].base)
    IN /\ says("get_freq", <<>>)[1][2] = radio.freqA
       /\ says("get_mode", <<>>)[1][2] = Token(radio.tokenA.base, snap.dataA)
       /\ says("get_split_vfo", <<>>) = <<<<"Split", radio.split[1]>>, <<"TX VFO", tx>>>>
       /\ radio.split[1] => /\ says("get_split_freq", <<>>)[1][2] = radio[FreqOf(tx)]
                            /\ says("get_split_mode", <<>>)[1][2] = radio[TokenField(tx)]
       /\ says("get_level", <<>>)[1][2] = radio.rel
       /\ says("power2mW", <<radio.rel>>)[1][2] = mw

\* A command that was told Ok holds at the radio when nothing came after it, also where
\* the cache made a part of it redundant, and where the other client's commands or a
\* poll came between its two operations; of a PKT mode both have had their effect.
\* Two things are left to the code: a data flag the cache takes for on already is not
\* written, and the base mode that was has switched it off, or the operator had; and what
\* a poll makes of a PKT mode is nothing to rely on, be it for what is redundant or for
\* the base of the flag.
CommandHolds ==
  promise # Nothing =>
    CASE promise.name = "set_freq" -> radio.freqA = promise.args[1]
      [] promise.name = "set_mode" -> radio.tokenA = promise.args[1]
      [] promise.name = "set_split_vfo" ->
           radio.split = IF promise.args[1] = 1 THEN <<TRUE, promise.args[2]>> ELSE <<FALSE, "A">>

\* What clients may ask, of every kind.  What they are told depends on the snapshot only:
\* it is enough to look at it before the first command.
Asked ==
  {Command(n, <<>>) : n \in (Reads \ {"power2mW"}) \cup {"dump_state", "chk_vfo", "set_vfo", "list_vfos", "halt"}}
    \cup {Command("get_vfo_info", <<v>>) : v \in Vfo} \cup {Command("power2mW", <<l>>) : l \in Levels}
    \cup {Command(n, <<i>>) : n \in {"set_ptt", "set_rit", "set_xit"}, i \in 0..1}
    \cup Commands

\* A single-VFO client cannot tell which of the radio's VFOs it works on, and does not
\* change split (presented_vfo, the comment of hamlib_net.rs).
HiddenFromLoggers ==
  commands = 0 => \A cmd \in Asked, perms \in {{"read"}, {"read", "write"}} :
    LET here  == HandleLine(TRUE, perms, TRUE, snap, FALSE, cmd)
        there == HandleLine(TRUE, perms, TRUE, Mirror(snap), FALSE, cmd)
    IN /\ here.kind = there.kind /\ here.lines = there.lines
       /\ Len(here.muts) = Len(there.muts)
       /\ \A i \in DOMAIN here.muts : /\ there.muts[i] = MirrorChange(here.muts[i])
                                      /\ here.muts[i].field # "split"

\* An extended reply names its command first and ends with a report, and has no other
\* before it: the client reads on until it sees one (handle_ext, the comment).
ExtendedEnds ==
  commands = 0 => \A cmd \in Asked, single \in BOOLEAN, perms \in {{}, {"read"}, {"read", "write"}} :
    LET deed == HandleLine(single, perms, TRUE, snap, TRUE, cmd)
        told == IF deed.kind = "apply" THEN Extended(cmd.name, <<OutcomeReport(TRUE)>>) ELSE deed.lines
    IN /\ told[1][1] = "echo"
       /\ \A i \in DOMAIN told : told[i][1] = "RPRT" <=> i = Len(told)

\* What clients read is what the radio is set to, and every variable has its type.
BridgeInv == BridgeTypeOK /\ BridgeFaithful
==============================================================================

------------------------------ MODULE Endpoint ------------------------------
(***************************************************************************)
(* What an endpoint may do (permissions.rs) and what a Kenwood dialect     *)
(* makes of a request (dialect/kenwood/*.rs): the reply, or the operation  *)
(* that a session submits and awaits.  Operators only.                     *)
(***************************************************************************)
EXTENDS Cache

CONSTANT Nothing   \* no operation, no change

Tokens == {"read", "write", "frequency_write", "ptt", "config_write"}

\* from_tokens: unknown tokens grant nothing.
FromTokens(tokens) == tokens \cap Tokens

Allows(perms, class) ==
  CASE class \in {"ModeledRead", "PassthroughRead"} -> "read" \in perms
    [] class = "ModeledWrite" -> "write" \in perms
    [] class = "PttWrite" -> "ptt" \in perms
    [] class = "ConfigWrite" -> "config_write" \in perms

\* frequency_write is taken for write.
AllowsAnyMutation(perms, class, mut) ==
  Allows(perms, class) \/ (class = "ModeledWrite" /\ "frequency_write" \in perms)

AllowsMutation(perms, class, mut) ==
  \/ Allows(perms, class)
  \/ class = "ModeledWrite" /\ "frequency_write" \in perms /\ mut.field \in {"freqA", "freqB"}

------------------------------------------------------------------------------

\* A request: a verb, and an argument or none (a read).
Request(verb, arg) == [verb |-> verb, arg |-> arg]

\* What comes of it: frames to reply with, an operation (a mutation or a frame to
\* forward) with its class, or the session's auto-information flag.
Deed(kind, class, mut, frames) == [kind |-> kind, class |-> class, mut |-> mut, frames |-> frames]
Say(frames) == Deed("reply", "none", Nothing, frames)
Refuse      == Say(<<Frame("?", 0)>>)
Apply(mut, class) == Deed("apply", class, mut, <<>>)
SetAi(on)   == Deed(IF on THEN "ai" ELSE "quiet", "none", Nothing, <<>>)

\* What every dialect answers alike: the virtual auto-information flag, the identity.
Common(req) == req.verb = "AI" \/ (req.verb \in {"ID", "PS"} /\ req.arg = <<>>)
HandleCommon(id, ai, req) ==
  CASE req.verb = "ID" -> Say(<<Frame("ID", id)>>)
    [] req.verb = "PS" -> Say(<<Frame("PS", 1)>>)
    [] req.verb = "AI" -> IF req.arg = <<>> THEN Say(<<Frame("AI", IF ai THEN 2 ELSE 0)>>)
                          ELSE SetAi(req.arg[1] # 0)

\* A request about a frequency or the mode, v being the VFO that FA or FB means.
HandleModeled(v, snap, req) ==
  LET field == IF req.verb = "MD" THEN ModeOf(snap.rx) ELSE FreqOf(v)
      told(val) == IF req.verb = "MD" THEN ToDigit(val) ELSE val
      asked(val) == IF req.verb = "MD" THEN FromDigit(val) ELSE val
  IN IF req.arg = <<>> THEN Say(<<Frame(req.verb, told(snap[field]))>>)
     ELSE Apply(Change(field, asked(req.arg[1])), "ModeledWrite")

Forward(req) ==
  Deed("forward", IF req.arg = <<>> THEN "PassthroughRead" ELSE "ConfigWrite", Nothing, <<req>>)
Transmit(on) == Apply(Change("ptt", on), "PttWrite")
Label(verb) == IF verb = "FA" THEN "A" ELSE "B"

\* VFO A and B by their names for a single-VFO client too.
HandleByLabel(single, snap, ai, req) ==
  IF req.verb \in {"FA", "FB", "MD"} THEN HandleModeled(Label(req.verb), snap, req) ELSE Refuse

\* Ts590Dialect::handle: a single-VFO client has the operating VFO under either name.
HandleTs590(single, snap, ai, req) ==
  CASE Common(req) -> HandleCommon(21, ai, req)
    [] req.verb \in {"FA", "FB", "MD"} ->
         HandleModeled(IF single THEN snap.rx ELSE Label(req.verb), snap, req)
    [] req.verb \in {"FR", "FT"} /\ single -> Say(IF req.arg = <<>> THEN <<Frame(req.verb, "A")>> ELSE <<>>)
    [] req.verb \in {"TX", "RX"} -> Transmit(req.verb = "TX")
    [] req.verb = "IF" /\ req.arg = <<>> -> Say(<<SynthIf(snap, single)>>)
    [] OTHER -> Forward(req)

\* Ts2000Dialect::handle: what it does not translate is refused.
HandleTs2000(snap, ai, req) ==
  LET tx == IF snap.split[1] THEN snap.split[2] ELSE snap.rx
  IN CASE Common(req) -> HandleCommon(19, ai, req)
       [] req.verb \in {"FA", "FB", "MD"} -> HandleModeled(snap.rx, snap, req)
       [] req.verb = "IF" /\ req.arg = <<>> -> Say(<<SynthIf(snap, FALSE)>>)
       [] req.verb = "FR" /\ req.arg = <<>> -> Say(<<Frame("FR", snap.rx)>>)
       [] req.verb = "FT" /\ req.arg = <<>> -> Say(<<Frame("FT", tx)>>)
       [] OTHER -> Refuse

\* TransparentTs590Dialect::handle: all but transmission goes to the radio.
HandleTransparent(ai, req) ==
  CASE Common(req) -> HandleCommon(21, ai, req)
    [] req.verb \in {"TX", "RX"} -> Transmit(req.verb = "TX")
    [] OTHER -> Forward(req)

\* handle.
Handle(dialect, snap, ai, req) ==
  CASE dialect = "ts590"  -> HandleTs590(FALSE, snap, ai, req)
    [] dialect = "single" -> HandleTs590(TRUE, snap, ai, req)
    [] dialect = "ts2000" -> HandleTs2000(snap, ai, req)
    [] dialect = "transparent" -> HandleTransparent(ai, req)

\* What the permissions leave of it (apply_modeled, passthrough).
Permitted(perms, deed) ==
  CASE deed.kind = "apply"   -> AllowsMutation(perms, deed.class, deed.mut)
    [] deed.kind = "forward" -> Allows(perms, deed.class)
    [] OTHER -> TRUE

\* The radio with its VFOs exchanged and its split the other way round.
MirrorField(f) ==
  CASE f = "freqA" -> "freqB" [] f = "freqB" -> "freqA" [] f = "modeA" -> "modeB"
    [] f = "modeB" -> "modeA" [] f = "dataA" -> "dataB" [] f = "dataB" -> "dataA"
    [] f = "knownA" -> "knownB" [] f = "knownB" -> "knownA" [] OTHER -> f
Mirror(s) ==
  [f \in DOMAIN s |-> CASE f = "rx" -> Other(s.rx) [] f = "split" -> <<~s.split[1], s.split[2]>>
                        [] OTHER -> s[MirrorField(f)]]
MirrorChange(ch) ==
  IF ch.field = "rx" THEN Change("rx", Other(ch.new)) ELSE Change(MirrorField(ch.field), ch.new)
==============================================================================

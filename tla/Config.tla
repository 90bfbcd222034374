-------------------------------- MODULE Config --------------------------------
(***************************************************************************)
(* CatHub's configuration (config.rs): what a document says, which         *)
(* settings are accepted, and what the daemon opens for them, in the order *)
(* of lib.rs's run.                                                        *)
(*                                                                         *)
(* A port's name is a device and a spelling: names are compared without    *)
(* regard to case, and in places to surrounding blanks, while the system   *)
(* opens the same device for both cases and none for a padded name.        *)
(***************************************************************************)
EXTENDS Integers, Sequences, SequencesExt, WkProtocol

CONSTANT Absent  \* an option that is not given, an empty string

Spellings == {"upper", "lower", "padded"}
IsName(name) == DOMAIN name = {"device", "spelt"} /\ name.device \in Nat /\ name.spelt \in Spellings

\* The sections, as far as what is opened and accepted depends on them.
IsSerialEndpoint(e) ==
  /\ DOMAIN e = {"transport", "application", "dialect", "singleVfo"}
  /\ IsName(e.transport) /\ (e.application = Absent \/ IsName(e.application)) /\ e.singleVfo \in BOOLEAN

IsKeyer(k) ==
  /\ DOMAIN k = {"port", "baud", "maxTx", "loopback"}
  /\ (k.port = Absent \/ IsName(k.port)) /\ {k.baud, k.maxTx} \subseteq Nat /\ k.loopback \in BOOLEAN

IsKeyerEndpoint(e) ==
  /\ DOMAIN e = {"transport", "application", "baud", "primary", "perms"}
  /\ (e.transport = Absent \/ IsName(e.transport)) /\ (e.application = Absent \/ IsName(e.application))
  /\ e.baud \in Nat /\ e.primary \in BOOLEAN

IsSettings(c) ==
  /\ DOMAIN c = {"backend", "transport", "port", "serial", "hamlib", "keyer", "keyerEndpoints"}
  /\ c.port = Absent \/ IsName(c.port)
  /\ \A part \in {"serial", "hamlib", "keyerEndpoints"} : c[part] \in Seq(Range(c[part]))
  /\ \A i \in DOMAIN c.serial : IsSerialEndpoint(c.serial[i])
  /\ \A i \in DOMAIN c.hamlib : c.hamlib[i] \in Nat
  /\ c.keyer = Absent \/ IsKeyer(c.keyer)
  /\ \A i \in DOMAIN c.keyerEndpoints : IsKeyerEndpoint(c.keyerEndpoints[i])

Trimmed(name) == name.device
AnyCase(name) == <<name.device, name.spelt = "padded">>

\* The application's port, if it is recorded, is not the hub's.
ApplicationElsewhere(e) ==
  e.application # Absent => Trimmed(e.application) # Trimmed(e.transport)

ValidRadio(c) ==
  /\ c.backend \in {"ts590", "rigctld", "loopback"}
  /\ c.backend # "loopback" =>
       \/ c.transport = "serial" /\ c.port # Absent
       \/ c.transport = "tcp"

ValidSerial(e) ==
  /\ ApplicationElsewhere(e)
  /\ e.dialect \in {"ts590", "ts590-transparent", "ts2000"}
  /\ ~(e.dialect = "ts590-transparent" /\ e.singleVfo)

\* validate_winkeyer_endpoint.
ValidKeyerEndpoint(e) ==
  /\ e.transport # Absent /\ e.baud = 1200
  /\ ApplicationElsewhere(e)
  /\ Coherent(e.perms)

PrimariesOf(c) == {i \in DOMAIN c.keyerEndpoints : c.keyerEndpoints[i].primary}

\* Any number of endpoints is primary.
ManyPrimaries(c) ==
  IF c.keyer = Absent THEN c.keyerEndpoints = <<>>
  ELSE /\ c.keyer.port # Absent /\ c.keyer.loopback
       /\ \A i \in DOMAIN c.keyerEndpoints : ValidKeyerEndpoint(c.keyerEndpoints[i])

\* validate_winkeyer.
ValidKeyer(c) ==
  IF c.keyer = Absent THEN c.keyerEndpoints = <<>>
  ELSE /\ c.keyer.port # Absent /\ c.keyer.baud = 1200
       /\ 1000 <= c.keyer.maxTx /\ c.keyer.maxTx <= 300000
       /\ c.keyer.loopback
       /\ c.port # Absent => AnyCase(c.keyer.port) # AnyCase(c.port)
       /\ \A i, k \in PrimariesOf(c) : i = k
       /\ \A i \in DOMAIN c.keyerEndpoints : ValidKeyerEndpoint(c.keyerEndpoints[i])
       /\ \A i, k \in DOMAIN c.keyerEndpoints :
            AnyCase(c.keyerEndpoints[i].transport) = AnyCase(c.keyerEndpoints[k].transport) => i = k

\* Config::validate.
Valid(c) ==
  /\ ValidRadio(c)
  /\ \A i \in DOMAIN c.serial : ValidSerial(c.serial[i])
  /\ c.serial # <<>> \/ c.hamlib # <<>>
  /\ ValidKeyer(c)

------------------------------------------------------------------------------
(***************************************************************************)
(* Documents                                                               *)
(***************************************************************************)

\* A file's content: the settings of its [cat_hub] section, those at its top level,
\* and whether other programs' sections are in it.
Document(hub, top, other) == [whole |-> TRUE, hub |-> hub, top |-> top, other |-> other]
NoFile == [whole |-> TRUE, hub |-> Absent, top |-> Absent, other |-> FALSE, none |-> TRUE]
Torn == [whole |-> FALSE, hub |-> Absent, top |-> Absent, other |-> FALSE]
Exists(doc) == doc # NoFile

Accepted(settings) == IF settings # Absent /\ Valid(settings) THEN settings ELSE Absent

\* Config::load_selected; parse_document takes the section if there is one,
\* parse_section nothing else.
Load(doc, sectionOnly) ==
  IF ~Exists(doc) \/ ~doc.whole THEN Absent
  ELSE IF doc.hub # Absent \/ sectionOnly THEN Accepted(doc.hub)
  ELSE Accepted(doc.top)

\* to_standalone_toml, and the source with another section, or without one.
Standalone(settings) == Document(Absent, settings, FALSE)
WithSection(doc, hub) == Document(hub, doc.top, doc.other)

------------------------------------------------------------------------------
(***************************************************************************)
(* What the daemon opens                                                   *)
(***************************************************************************)

Device(name) == [what |-> "device", id |-> IF name.spelt = "padded" THEN Absent ELSE name.device]
Bind(port) == [what |-> "bind", id |-> port]
Opens(kind, resource) == [kind |-> kind, resource |-> resource, primary |-> FALSE]

\* The keyer and its API, the radio, then the endpoints.
Bringup(c) ==
  LET Keyer   == IF c.keyer = Absent THEN <<>>
                 ELSE <<Opens("keyer", Device(c.keyer.port)), Opens("api", [what |-> "api", id |-> 1])>>
      Radio   == IF c.backend = "loopback" THEN <<>>
                 ELSE <<Opens("radio", IF c.transport = "tcp" THEN [what |-> "dial", id |-> 1]
                                                              ELSE Device(c.port))>>
      Virtual == [i \in DOMAIN c.keyerEndpoints |->
                    [Opens("keyerEndpoint", Device(c.keyerEndpoints[i].transport))
                       EXCEPT !.primary = c.keyerEndpoints[i].primary]]
      Serial  == [i \in DOMAIN c.serial |-> Opens("serial", Device(c.serial[i].transport))]
      Net     == [i \in DOMAIN c.hamlib |-> Opens("hamlib", Bind(c.hamlib[i]))]
  IN Keyer \o Radio \o Virtual \o Serial \o Net
=============================================================================

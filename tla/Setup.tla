-------------------------------- MODULE Setup --------------------------------
(***************************************************************************)
(* CatHub around its run: the configuration files, `cathub config migrate` *)
(* on them (config.rs, migrate_to_standalone), daemons that load them,     *)
(* open what they name and publish where they listen (lib.rs, run;         *)
(* runtime_info.rs).  Every step of a process is a step here, and it may   *)
(* be the last: by a crash, a file system that fails, a port that is held. *)
(*                                                                         *)
(* A port is opened by one process at a time, and freed when it exits.     *)
(***************************************************************************)
EXTENDS Config, FiniteSets

CONSTANTS
  Settings,   \* what users write
  Daemons,    \* processes, each started once
  Nobody,
  MaxEdits,   \* bounds what the user does to the files ...
  MaxRuns     \* ... and the migrations run

ASSUME SetupAssumption ==
  /\ MaxEdits \in Nat /\ MaxRuns \in Nat /\ Nobody \notin Daemons
  /\ (\A c \in Settings : IsSettings(c)) /\ (\E c \in Settings : Valid(c))

VARIABLES
  file,      \* content of "source" and "destination", of their backups and temporaries
  mig,       \* the migration under way
  daemon,    \* each daemon: [pc, todo, opened, sessions]
  info,      \* the runtime info: the daemon it names, or Nobody
  edits, runs,
  written,   \* history: the source as the user last left it
  raced,     \* history: the user came between the copy of the source and its rewriting
  killed,    \* history: daemons that did not end by themselves
  crossed    \* history: daemons whose publication another's met

bounds == <<edits, runs>>
vars == <<file, mig, daemon, info, bounds, written, raced, killed, crossed>>

Places == {"source", "destination"}
Idle == [pc |-> "idle"]
Off == [pc |-> "off", todo |-> <<>>, opened |-> <<>>, sessions |-> {}]

Init ==
  /\ written \in {Document(c, Absent, TRUE) : c \in Settings}
  /\ file = [p \in Places |->
               [at  |-> IF p = "source" THEN written ELSE NoFile,
                bak |-> NoFile, tmp |-> NoFile]]
  /\ mig = Idle
  /\ daemon = [d \in Daemons |-> Off] /\ info = Nobody
  /\ edits = 0 /\ runs = 0 /\ raced = FALSE /\ killed = {} /\ crossed = {}

------------------------------------------------------------------------------
(***************************************************************************)
(* Migration                                                               *)
(***************************************************************************)

NoDaemon == UNCHANGED <<daemon, info, killed, crossed>>
OnFiles == NoDaemon /\ UNCHANGED written
Put(p, what, doc) == file' = [file EXCEPT ![p][what] = doc]

\* What is checked before anything is written.
Migrate(force, remove) ==
  /\ mig = Idle /\ runs < MaxRuns /\ runs' = runs + 1
  /\ LET doc == file["source"].at
     IN mig' = IF \/ Load(doc, FALSE) = Absent \/ doc.hub = Absent
                  \/ Exists(file["destination"].at) /\ ~force
                  \/ remove /\ Exists(file["source"].bak)
               THEN Idle
               ELSE [pc |-> "write", place |-> "destination", replace |-> force, remove |-> remove,
                     doc |-> Standalone(Load(doc, FALSE)), rest |-> WithSection(doc, Absent), part |-> FALSE]
  /\ raced' = (raced /\ mig' = Idle)
  /\ OnFiles /\ UNCHANGED <<file, edits>>

At(pc) == mig.pc = pc /\ UNCHANGED <<bounds, raced>> /\ OnFiles
Then(pc) == mig' = [mig EXCEPT !.pc = pc, !.part = FALSE]
Here == file[mig.place]

\* A file is written, or copied, in parts.
Fill(what, doc, then) ==
  IF mig.part THEN Put(mig.place, what, doc) /\ Then(then)
  ELSE Put(mig.place, what, Torn) /\ mig' = [mig EXCEPT !.part = TRUE]

\* A file is written where it is.
WriteInPlace == At("write") /\ Fill("at", mig.doc, "replace")

\* atomic_write: to the temporary ...
WriteTemporary == At("write") /\ Fill("tmp", mig.doc, "replace")

\* ... over a file only once there is a backup of it, the first one made ...
KeepBackup ==
  /\ At("replace") /\ mig.replace /\ Exists(Here.at)
  /\ (mig.part \/ ~Exists(Here.bak))
  /\ Fill("bak", Here.at, "unlink")

NeedsNone ==
  /\ At("replace") /\ ~mig.part /\ UNCHANGED file
  /\ IF mig.replace /\ Exists(Here.at) THEN Exists(Here.bak) /\ Then("unlink") ELSE Then("rename")

Unlink == At("unlink") /\ Put(mig.place, "at", NoFile) /\ Then("rename")

\* The source is written over without a backup.
RenameOver ==
  /\ At("rename")
  /\ \/ /\ file' = [file EXCEPT ![mig.place].at = Here.tmp, ![mig.place].tmp = NoFile]
        /\ IF mig.place = "destination" /\ mig.remove
           THEN mig' = [mig EXCEPT !.pc = "write", !.place = "source", !.replace = FALSE, !.doc = mig.rest]
           ELSE mig' = Idle
     \/ Put(mig.place, "tmp", NoFile) /\ mig' = Idle

\* ... and then the temporary takes its name, or is removed.
Rename ==
  /\ At("rename")
  /\ \/ /\ file' = [file EXCEPT ![mig.place].at = Here.tmp, ![mig.place].tmp = NoFile]
        /\ IF mig.place = "destination" /\ mig.remove
           THEN mig' = [mig EXCEPT !.pc = "backup", !.place = "source", !.replace = TRUE, !.doc = mig.rest]
           ELSE mig' = Idle
     \/ Put(mig.place, "tmp", NoFile) /\ mig' = Idle

\* The section is removed from the source after a copy of it was made.
BackupSource == At("backup") /\ Fill("bak", Here.at, "write")

\* The process is killed, or a step fails.
Abandon ==
  /\ mig # Idle /\ mig' = Idle
  /\ OnFiles /\ UNCHANGED <<file, bounds, raced>>

\* The migration copies the source, or has a copy, and is to write the source over
\* with what it read of it at its start.
Overtaking == mig # Idle /\ mig.place = "source" /\ (mig.pc = "backup" => mig.part)

\* The user writes new settings into the source, and removes its backup when the
\* source is as it should be; a migration that runs does not keep him from either.
Edit(c) ==
  /\ edits < MaxEdits /\ edits' = edits + 1
  /\ Exists(file["source"].at)
  /\ written' = WithSection(file["source"].at, c) /\ Put("source", "at", written')
  /\ raced' = Overtaking
  /\ NoDaemon /\ UNCHANGED <<mig, runs>>

Tidy ==
  /\ edits < MaxEdits /\ edits' = edits + 1
  /\ Exists(file["source"].at) /\ file["source"].at.hub # Absent
  /\ Put("source", "bak", NoFile)
  /\ raced' = (raced \/ Overtaking)
  /\ OnFiles /\ UNCHANGED <<mig, runs>>

------------------------------------------------------------------------------
(***************************************************************************)
(* Daemons                                                                 *)
(***************************************************************************)

OnDaemon == UNCHANGED <<file, mig, bounds, written, raced>>
Becomes(d, state) == daemon' = [daemon EXCEPT ![d] = state]
Held(r) ==
  r.what # "dial" /\ \E k \in Daemons : \E i \in DOMAIN daemon[k].opened : daemon[k].opened[i].resource = r

\* load_selected, of either file.
Start(d, place) ==
  /\ daemon[d] = Off
  /\ LET c == Load(file[place].at, FALSE)
     IN Becomes(d, IF c = Absent THEN [Off EXCEPT !.pc = "ended"]
                   ELSE [Off EXCEPT !.pc = "opening", !.todo = Bringup(c)])
  /\ UNCHANGED <<info, killed, crossed>> /\ OnDaemon

\* The session of a keyer endpoint registers as primary if it is configured so,
\* which the broker refuses a second one.
Registers(d, o, id) ==
  CASE o.kind = "keyerEndpoint" ->
         IF o.primary /\ \E s \in daemon[d].sessions : s.primary THEN {}
         ELSE {[id |-> id, kind |-> o.kind, primary |-> o.primary]}
    [] o.kind \in {"serial", "hamlib"} -> {[id |-> id, kind |-> o.kind, primary |-> FALSE]}
    [] OTHER -> {}

\* One resource after the other; the first that cannot be opened ends the daemon.
Open(d) ==
  LET me == daemon[d]
      o  == Head(me.todo)
      ids == 1 + Cardinality({i \in DOMAIN me.opened :
                                me.opened[i].kind \in {"keyerEndpoint", "serial", "hamlib"}})
  IN /\ me.pc = "opening" /\ me.todo # <<>>
     /\ \/ /\ ~Held(o.resource) /\ o.resource.id # Absent
           /\ Becomes(d, [me EXCEPT !.todo = Tail(@), !.opened = Append(@, o),
                                    !.sessions = @ \cup Registers(d, o, ids)])
        \/ Becomes(d, [Off EXCEPT !.pc = "ended"])
     /\ UNCHANGED <<info, killed, crossed>> /\ OnDaemon

\* publish: a file that is there is removed, then the new one gets the name.  A
\* failure, as of a removal when the file has gone meanwhile, ends the daemon.
Publish(d) ==
  /\ \/ /\ daemon[d].pc = "opening" /\ daemon[d].todo = <<>>
        /\ Becomes(d, [daemon[d] EXCEPT !.pc = IF info = Nobody THEN "publishing" ELSE "clearing"])
        /\ UNCHANGED <<info, crossed>>
     \/ /\ daemon[d].pc = "clearing" /\ info # Nobody
        /\ info' = Nobody /\ Becomes(d, [daemon[d] EXCEPT !.pc = "publishing"])
        /\ crossed' = crossed \cup {info}
     \/ /\ daemon[d].pc = "publishing"
        /\ info' = d /\ Becomes(d, [daemon[d] EXCEPT !.pc = "up"])
        /\ crossed' = crossed \cup ({info} \ {Nobody})
                             \cup {k \in {d} : \E e \in Daemons : daemon[e].pc = "removing"}
     \/ /\ daemon[d].pc \in {"opening", "clearing", "publishing"} /\ daemon[d].todo = <<>>
        /\ UNCHANGED <<info, crossed>> /\ Becomes(d, [Off EXCEPT !.pc = "ended"])
  /\ UNCHANGED killed /\ OnDaemon

\* The file is left behind.
QuitSilently(d) ==
  /\ daemon[d].pc = "up" /\ Becomes(d, [Off EXCEPT !.pc = "ended"])
  /\ UNCHANGED <<info, killed, crossed>> /\ OnDaemon

\* The file is removed, whoever it names.
QuitUnasked(d) ==
  /\ \/ /\ daemon[d].pc = "up" /\ Becomes(d, [daemon[d] EXCEPT !.pc = "exiting"])
        /\ info' = Nobody
     \/ /\ daemon[d].pc = "exiting"
        /\ UNCHANGED info /\ Becomes(d, [Off EXCEPT !.pc = "ended"])
  /\ UNCHANGED <<killed, crossed>> /\ OnDaemon

\* The end of run drops the lease, which reads the file and removes it if it named
\* this process; the ports are freed with the process.
Quit(d) ==
  /\ \/ /\ daemon[d].pc = "up"
        /\ Becomes(d, [daemon[d] EXCEPT !.pc = IF info = d THEN "removing" ELSE "exiting"])
        /\ UNCHANGED info
     \/ /\ daemon[d].pc = "removing"
        /\ info' = Nobody /\ Becomes(d, [daemon[d] EXCEPT !.pc = "exiting"])
     \/ /\ daemon[d].pc = "exiting"
        /\ UNCHANGED info /\ Becomes(d, [Off EXCEPT !.pc = "ended"])
  /\ UNCHANGED <<killed, crossed>> /\ OnDaemon

Kill(d) ==
  /\ daemon[d].pc \notin {"off", "ended"}
  /\ Becomes(d, [Off EXCEPT !.pc = "ended"]) /\ killed' = killed \cup {d}
  /\ UNCHANGED <<info, crossed>> /\ OnDaemon

Next ==
  \/ \E force, remove \in BOOLEAN : Migrate(force, remove)
  \/ WriteTemporary \/ KeepBackup \/ NeedsNone \/ Unlink \/ Rename \/ BackupSource \/ Abandon
  \/ \E c \in Settings : Edit(c)
  \/ Tidy
  \/ \E d \in Daemons : \/ \E p \in Places : Start(d, p)
                        \/ Open(d) \/ Publish(d) \/ Quit(d) \/ Kill(d)

Spec == Init /\ [][Next]_vars

------------------------------------------------------------------------------
(***************************************************************************)
(* Properties                                                              *)
(***************************************************************************)

SetupTypeOK ==
  /\ mig.pc \in {"idle", "write", "replace", "unlink", "rename", "backup"}
  /\ mig.pc = "rename" => Exists(Here.tmp) /\ Here.tmp.whole
  /\ \A d \in Daemons : daemon[d].pc \in {"off", "opening", "clearing", "publishing", "up", "removing", "exiting", "ended"}
  /\ info \in Daemons \cup {Nobody}

\* "--remove-source-section creates a .bak copy before it changes the managed
\* document" (README.md), with what other programs have in it: at whatever step a
\* migration stops, fails or is run again, the source is as the user left it, or
\* its backup is.  Only what he does between that copy and the rewriting of the
\* source may go: nothing keeps him from it, and the migration does not look again.
NothingLost == file["source"].at = written \/ file["source"].bak = written \/ raced

\* What a daemon may load is never half a file.
NeverTorn == \A p \in Places : file[p].at.whole

\* A daemon that has started serves every endpoint of its configuration: no session
\* was refused its registration, and none shares its id.
EndpointsServed ==
  \A d \in Daemons : daemon[d].pc \in {"publishing", "up"} =>
    LET ends == {i \in DOMAIN daemon[d].opened :
                   daemon[d].opened[i].kind \in {"keyerEndpoint", "serial", "hamlib"}}
    IN Cardinality({s.id : s \in daemon[d].sessions}) = Cardinality(ends)

\* The runtime info names a daemon that has opened all it is configured with, or one
\* that was killed; and a daemon that is up is the one it names, whoever else of
\* another configuration is up, ends or tries to start.  Two races are left to it:
\* another daemon publishes over it, as its publish asks nothing; or one that ends
\* had read its own name, which this one's publication then replaced, and removes
\* the file after that.
InfoTrue ==
  /\ info # Nobody => daemon[info].pc \in {"up", "removing"} \/ info \in killed
  /\ \A d \in Daemons : daemon[d].pc = "up" => info = d \/ d \in crossed

\* Neither of the two files is lost or torn, wherever a migration stops.
FilesSafe == SetupTypeOK /\ NothingLost /\ NeverTorn
=============================================================================

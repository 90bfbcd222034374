------------------------------ MODULE SetupProofs ------------------------------
(***************************************************************************)
(* What holds of the configuration files, and of the daemons that load     *)
(* them, for any settings, daemons and any number of edits and migrations. *)
(***************************************************************************)
EXTENDS Setup, FiniteSetTheorems, TLAPS

\* What files may hold: whole documents, nothing, or the part of one.
Sections == Settings \cup {Absent}
Whole == {Document(h, t, o) : h \in Sections, t \in Sections, o \in BOOLEAN}
Docs  == Whole \cup {NoFile, Torn}
Files == [Places -> [at : Whole \cup {NoFile}, bak : Docs, tmp : Docs]]
Working == [pc : {"write", "replace", "unlink", "rename", "backup"}, place : Places,
            replace : BOOLEAN, remove : BOOLEAN, doc : Whole, rest : Whole, part : BOOLEAN]

FilesTyped == file \in Files /\ written \in Whole /\ (mig = Idle \/ mig \in Working)

\* A whole document is a file, and not the part of one.
LEMMA WholeDocument ==
  ASSUME NEW d \in Whole
  PROVE  d # NoFile /\ d.whole /\ d.hub \in Sections /\ d.top \in Sections /\ d.other \in BOOLEAN
<1>1. PICK h \in Sections, t \in Sections, o \in BOOLEAN : d = Document(h, t, o)
  BY DEF Whole
<1>2. d.whole = TRUE /\ d.hub = h /\ d.top = t /\ d.other = o
  BY <1>1 DEF Document
<1>3. "none" \notin DOMAIN d /\ "none" \in DOMAIN NoFile
  BY <1>1 DEF Document, NoFile
<1> QED
  BY <1>1, <1>2, <1>3

\* Sections make a document.
LEMMA MadeDocument ==
  ASSUME NEW h \in Sections, NEW t \in Sections, NEW o \in BOOLEAN
  PROVE  Document(h, t, o) \in Whole /\ Document(h, t, o).hub = h
<1>1. Document(h, t, o) \in Whole
  BY DEF Whole
<1>2. Document(h, t, o).hub = h
  BY DEF Document
<1> QED
  BY <1>1, <1>2

\* Settings put into a document, or taken out of it, leave a document.
LEMMA HubDocument ==
  ASSUME NEW d \in Whole, NEW c \in Sections
  PROVE  WithSection(d, c) \in Whole /\ WithSection(d, c).hub = c
BY WholeDocument, MadeDocument DEF WithSection

\* What is loaded is settings, from a whole document.
LEMMA LoadedSettings ==
  ASSUME NEW d \in Whole \cup {NoFile}, Load(d, FALSE) # Absent
  PROVE  d \in Whole /\ Load(d, FALSE) \in Settings
<1>1. d # NoFile
  BY DEF Load, Exists
<1>2. d \in Whole /\ d.hub \in Sections /\ d.top \in Sections
  BY <1>1, WholeDocument
<1> QED
  BY <1>2 DEF Load, Accepted, Sections

\* What Put makes of the files.
Placed(p, w, doc) == [file EXCEPT ![p][w] = doc]

\* One part of one file is written.
LEMMA PutOne ==
  ASSUME file \in Files, NEW p \in Places, NEW w \in {"at", "bak", "tmp"}, NEW doc \in Docs,
         w = "at" => doc \in Whole \cup {NoFile}
  PROVE  LET new == Placed(p, w, doc)
         IN /\ new \in Files
            /\ \A q \in Places :
                 /\ new[q].at  = IF q = p /\ w = "at" THEN doc ELSE file[q].at
                 /\ new[q].bak = IF q = p /\ w = "bak" THEN doc ELSE file[q].bak
                 /\ new[q].tmp = IF q = p /\ w = "tmp" THEN doc ELSE file[q].tmp
<1> USE DEF Placed
<1> DEFINE new == Placed(p, w, doc)
           Parts == [at : Whole \cup {NoFile}, bak : Docs, tmp : Docs]
<1>1. /\ DOMAIN new = Places /\ \A q \in Places : q # p => new[q] = file[q]
      /\ new[p] = [file[p] EXCEPT ![w] = doc]
  BY DEF Files
<1>2. \A q \in Places : file[q] \in Parts
  BY DEF Files
<1>3. /\ new[p] \in Parts
      /\ new[p].at  = IF w = "at" THEN doc ELSE file[p].at
      /\ new[p].bak = IF w = "bak" THEN doc ELSE file[p].bak
      /\ new[p].tmp = IF w = "tmp" THEN doc ELSE file[p].tmp
  <2>1. CASE w = "at"
    BY <1>1, <1>2, <2>1
  <2>2. CASE w = "bak"
    BY <1>1, <1>2, <2>2
  <2>3. CASE w = "tmp"
    BY <1>1, <1>2, <2>3
  <2> QED
    BY <2>1, <2>2, <2>3
<1>4. new \in Files
  BY <1>1, <1>2, <1>3 DEF Files
<1> QED
  BY <1>1, <1>3, <1>4

------------------------------------------------------------------------------
\* What NothingLost needs to be inductive.  Between runs the source is as the user
\* left it, or it has no section and its backup is; while a migration runs the source
\* has not been touched before its backup is complete.  What the user did after that
\* may be missing from the backup, though the source has it until it is written over.
Kept == \/ file["source"].at = written
        \/ file["source"].at.hub = Absent /\ (file["source"].bak = written \/ raced)
Untouched ==
  mig.place = "destination" =>
    /\ mig.pc # "backup" /\ file["source"].at = written
    /\ mig.remove => file["source"].bak = NoFile
    /\ mig.rest.hub = Absent
Secured ==
  mig.place = "source" =>
    /\ mig.replace /\ mig.doc.hub = Absent
    /\ mig.pc \in {"backup", "write", "replace", "unlink"} => file["source"].at = written
    /\ mig.pc # "backup" => file["source"].bak = written \/ raced
    /\ mig.pc = "rename" => file["source"].at = NoFile
    /\ mig.pc = "replace" => ~mig.part \/ raced
Complete == mig.pc \in {"replace", "unlink", "rename"} => file[mig.place].tmp = mig.doc

FilesInv == FilesTyped /\ Kept /\ (mig # Idle => Untouched /\ Secured /\ Complete)

\* The invariant is enough.
LEMMA FilesEnough ==
  FilesInv => /\ NothingLost /\ NeverTorn
              /\ mig.pc \in {"idle", "write", "replace", "unlink", "rename", "backup"}
              /\ mig.pc = "rename" => Exists(Here.tmp) /\ Here.tmp.whole
<1> SUFFICES ASSUME FilesInv
             PROVE  /\ NothingLost /\ NeverTorn
                    /\ mig.pc \in {"idle", "write", "replace", "unlink", "rename", "backup"}
                    /\ mig.pc = "rename" => Exists(Here.tmp) /\ Here.tmp.whole
  OBVIOUS
<1>1. NothingLost
  BY DEF FilesInv, Kept, NothingLost
<1>2. NeverTorn
  <2>1. \A p \in Places : file[p].at \in Whole \cup {NoFile}
    BY DEF FilesInv, FilesTyped, Files
  <2>2. NoFile.whole
    BY DEF NoFile
  <2> QED
    BY <2>1, <2>2, WholeDocument DEF NeverTorn
<1>3. CASE mig = Idle
  BY <1>1, <1>2, <1>3 DEF Idle
<1>4. CASE mig # Idle
  <2>1. mig \in Working /\ mig.doc \in Whole
    BY <1>4 DEF FilesInv, FilesTyped, Working
  <2>2. mig.pc = "rename" => Here.tmp = mig.doc
    BY <1>4 DEF FilesInv, Complete, Here
  <2>3. mig.pc \in {"write", "replace", "unlink", "rename", "backup"}
    BY <2>1 DEF Working
  <2> QED
    BY <1>1, <1>2, <2>1, <2>2, <2>3, WholeDocument DEF Exists
<1> QED
  BY <1>3, <1>4

\* Users begin with a document of settings.
LEMMA InitFiles == Init => FilesInv
<1> SUFFICES ASSUME Init PROVE FilesInv
  OBVIOUS
<1>1. written \in Whole
  BY MadeDocument DEF Init, Sections
<1>2. file \in Files
  BY <1>1 DEF Init, Files, Places, Docs
<1>3. file["source"].at = written
  BY DEF Init, Places
<1> QED
  BY <1>1, <1>2, <1>3 DEF Init, FilesInv, FilesTyped, Kept

\* A migration begins only with settings that can be loaded, and with a section to
\* move; the source is then as the user left it.
LEMMA MigrateFiles ==
  ASSUME FilesInv, NEW force \in BOOLEAN, NEW remove \in BOOLEAN, Migrate(force, remove)
  PROVE  FilesInv'
<1> DEFINE doc == file["source"].at
           next == [pc |-> "write", place |-> "destination", replace |-> force, remove |-> remove,
                    doc |-> Standalone(Load(doc, FALSE)), rest |-> WithSection(doc, Absent), part |-> FALSE]
<1>1. /\ UNCHANGED <<file, written>> /\ FilesTyped /\ Kept
      /\ mig' = Idle => (raced => raced')
  BY DEF Migrate, OnFiles, FilesInv
<1>2. file["source"].at \in Whole \cup {NoFile}
  BY <1>1 DEF FilesTyped, Files, Places
<1>3. CASE mig' = Idle
  BY <1>1, <1>3 DEF FilesInv, FilesTyped, Kept
<1>4. CASE mig' # Idle
  <2>1. /\ mig' = next /\ Load(doc, FALSE) # Absent /\ doc.hub # Absent
        /\ remove => ~Exists(file["source"].bak)
    BY <1>4 DEF Migrate
  <2>2. doc \in Whole /\ Load(doc, FALSE) \in Settings
    BY <1>2, <2>1, LoadedSettings
  <2>3. Standalone(Load(doc, FALSE)) \in Whole
    BY <2>2, MadeDocument DEF Standalone, Sections
  <2>4. WithSection(doc, Absent) \in Whole /\ WithSection(doc, Absent).hub = Absent
    BY <2>2, HubDocument DEF Sections
  <2>5. doc = written
    BY <1>1, <2>1 DEF Kept
  <2> HIDE DEF doc
  <2>6. next \in Working
    BY <2>3, <2>4 DEF Working, Places
  <2>7. next.pc = "write" /\ next.place = "destination" /\ next.remove = remove /\ next.rest = WithSection(doc, Absent)
    OBVIOUS
  <2> HIDE DEF next
  <2> QED
    BY <1>1, <2>1, <2>4, <2>5, <2>6, <2>7 DEF doc, FilesInv, FilesTyped, Kept, Untouched, Secured, Complete, Exists
<1> QED
  BY <1>3, <1>4

\* A migration's record is of the same file and to the same end.
Same(new) ==
  /\ new.place = mig.place /\ new.replace = mig.replace /\ new.remove = mig.remove
  /\ new.doc = mig.doc /\ new.rest = mig.rest

\* The next phase of a migration; and the same one, with a part written.
Advance(pc) == [mig EXCEPT !.pc = pc, !.part = FALSE]
Partway == [mig EXCEPT !.part = TRUE]

\* They are the same migration's.
LEMMA NextPhase ==
  ASSUME mig \in Working, NEW pc \in {"write", "replace", "unlink", "rename", "backup"}
  PROVE  /\ Advance(pc) \in Working /\ Advance(pc).pc = pc /\ Advance(pc).part = FALSE
         /\ Same(Advance(pc))
         /\ Partway \in Working /\ Partway.pc = mig.pc /\ Same(Partway)
BY DEF Working, Same, Advance, Partway

\* A migration under way is not idle.
LEMMA WorkingIdle == ASSUME NEW m \in Working PROVE m # Idle
BY DEF Working, Idle

\* What a step of a migration may be taken for: its phases are those of a migration.
LEMMA AtPhase ==
  ASSUME FilesInv, mig.pc \in {"write", "replace", "unlink", "rename", "backup"}
  PROVE  /\ mig # Idle /\ mig \in Working /\ mig.place \in Places /\ mig.doc \in Whole
         /\ Untouched /\ Secured /\ Complete /\ Kept /\ FilesTyped
<1>1. Idle.pc = "idle"
  BY DEF Idle
<1> QED
  BY <1>1 DEF FilesInv, FilesTyped, Working

\* The temporary is written.
LEMMA TemporaryFiles ==
  ASSUME FilesInv, WriteTemporary
  PROVE  FilesInv'
<1>1. /\ mig.pc = "write" /\ UNCHANGED <<written, raced>>
      /\ \/ file' = Placed(mig.place, "tmp", mig.doc) /\ mig' = Advance("replace")
         \/ file' = Placed(mig.place, "tmp", Torn) /\ mig' = Partway
  BY DEF WriteTemporary, At, OnFiles, Fill, Put, Then, Placed, Advance, Partway
<1>2. /\ mig # Idle /\ mig \in Working /\ mig.place \in Places /\ mig.doc \in Whole
      /\ Untouched /\ Secured /\ Complete /\ Kept /\ FilesTyped
  BY <1>1, AtPhase
<1>3. /\ mig' \in Working /\ Same(mig')
      /\ \/ mig'.pc = "replace" /\ mig'.part = FALSE /\ file' = Placed(mig.place, "tmp", mig.doc)
         \/ mig'.pc = "write" /\ file' = Placed(mig.place, "tmp", Torn)
  BY <1>1, <1>2, NextPhase
<1>4. /\ file' \in Files /\ \A q \in Places : file'[q].at = file[q].at /\ file'[q].bak = file[q].bak
      /\ mig'.pc = "replace" => file'[mig.place].tmp = mig.doc
  <2>1. mig.doc \in Docs /\ Torn \in Docs /\ file \in Files
    BY <1>2 DEF Docs, FilesTyped
  <2> QED
    BY <1>2, <1>3, <2>1, PutOne
<1>5. FilesTyped' /\ Kept'
  BY <1>1, <1>2, <1>3, <1>4 DEF FilesTyped, Kept, Places
<1>6. Untouched'
  BY <1>1, <1>2, <1>3, <1>4 DEF Untouched, Places, Same
<1>7. Secured'
  BY <1>1, <1>2, <1>3, <1>4 DEF Secured, Places, Same
<1>8. Complete'
  BY <1>3, <1>4 DEF Complete, Same
<1> QED
  BY <1>5, <1>6, <1>7, <1>8 DEF FilesInv

\* The backup of the destination, made once; that of the source is there already,
\* if the user has not removed it meanwhile.
LEMMA BackupFiles ==
  ASSUME FilesInv, KeepBackup
  PROVE  FilesInv'
<1>1. /\ mig.pc = "replace" /\ UNCHANGED <<written, raced>> /\ (mig.part \/ ~Exists(file[mig.place].bak))
      /\ \/ file' = Placed(mig.place, "bak", file[mig.place].at) /\ mig' = Advance("unlink")
         \/ file' = Placed(mig.place, "bak", Torn) /\ mig' = Partway
  BY DEF KeepBackup, At, OnFiles, Fill, Put, Then, Placed, Advance, Partway, Here
<1>2. /\ mig # Idle /\ mig \in Working /\ mig.place \in Places /\ mig.doc \in Whole
      /\ Untouched /\ Secured /\ Complete /\ Kept /\ FilesTyped
  BY <1>1, AtPhase
<1>3. mig.place = "source" => raced
  <2> SUFFICES ASSUME mig.place = "source", ~raced PROVE FALSE
    OBVIOUS
  <2>1. ~mig.part /\ file["source"].bak = written
    BY <1>1, <1>2 DEF Secured
  <2>2. written # NoFile
    BY <1>2, WholeDocument DEF FilesTyped
  <2> QED
    BY <1>1, <2>1, <2>2 DEF Exists
<1>4. /\ mig' \in Working /\ Same(mig') /\ mig'.pc \in {"replace", "unlink"}
  BY <1>1, <1>2, NextPhase
<1>5. /\ file' \in Files /\ \A q \in Places : file'[q].at = file[q].at /\ file'[q].tmp = file[q].tmp
      /\ mig.place = "destination" => file'["source"].bak = file["source"].bak
  <2>1. /\ file[mig.place].at \in Docs /\ Torn \in Docs /\ file \in Files /\ "source" \in Places
    BY <1>2 DEF Docs, FilesTyped, Files, Places
  <2> QED
    BY <1>1, <1>2, <2>1, PutOne
<1>6. FilesTyped'
  BY <1>1, <1>2, <1>4, <1>5 DEF FilesTyped
<1>7. Kept'
  BY <1>1, <1>2, <1>3, <1>5 DEF Kept, Places
<1>8. Untouched'
  BY <1>1, <1>2, <1>4, <1>5 DEF Untouched, Places, Same
<1>9. Secured'
  BY <1>1, <1>2, <1>3, <1>4, <1>5 DEF Secured, Places, Same
<1>10. Complete'
  BY <1>1, <1>2, <1>4, <1>5 DEF Complete, Same
<1> QED
  BY <1>6, <1>7, <1>8, <1>9, <1>10 DEF FilesInv

\* With a backup, or nothing to back up, it goes on.
LEMMA NeedlessFiles ==
  ASSUME FilesInv, NeedsNone
  PROVE  FilesInv'
<1>1. /\ mig.pc = "replace" /\ UNCHANGED <<written, raced>> /\ file' = file
      /\ \/ mig.replace /\ Exists(file[mig.place].at) /\ mig' = Advance("unlink")
         \/ ~(mig.replace /\ Exists(file[mig.place].at)) /\ mig' = Advance("rename")
  BY DEF NeedsNone, At, OnFiles, Then, Advance, Here
<1>2. /\ mig # Idle /\ mig \in Working /\ mig.place \in Places /\ mig.doc \in Whole
      /\ Untouched /\ Secured /\ Complete /\ Kept /\ FilesTyped
  BY <1>1, AtPhase
<1>3. mig.place = "source" => mig' = Advance("unlink")
  <2>1. mig.place = "source" => mig.replace /\ file["source"].at = written
    BY <1>1, <1>2 DEF Secured
  <2>2. written # NoFile
    BY <1>2, WholeDocument DEF FilesTyped
  <2> QED
    BY <1>1, <2>1, <2>2 DEF Exists
<1>4. /\ mig' \in Working /\ Same(mig') /\ mig'.pc \in {"unlink", "rename"}
      /\ mig.place = "source" => mig'.pc = "unlink"
  BY <1>1, <1>2, <1>3, NextPhase
<1>5. FilesTyped' /\ Kept'
  BY <1>1, <1>2, <1>4 DEF FilesTyped, Kept
<1>6. Untouched' /\ Secured' /\ Complete'
  BY <1>1, <1>2, <1>4 DEF Untouched, Secured, Complete, Same
<1> QED
  BY <1>5, <1>6 DEF FilesInv

\* The old file is removed; of the source there is a backup.
LEMMA UnlinkFiles ==
  ASSUME FilesInv, Unlink
  PROVE  FilesInv'
<1>1. /\ mig.pc = "unlink" /\ UNCHANGED <<written, raced>>
      /\ file' = Placed(mig.place, "at", NoFile) /\ mig' = Advance("rename")
  BY DEF Unlink, At, OnFiles, Put, Then, Placed, Advance
<1>2. /\ mig # Idle /\ mig \in Working /\ mig.place \in Places /\ mig.doc \in Whole
      /\ Untouched /\ Secured /\ Complete /\ Kept /\ FilesTyped
  BY <1>1, AtPhase
<1>3. mig' \in Working /\ Same(mig') /\ mig'.pc = "rename"
  BY <1>1, <1>2, NextPhase
<1>4. /\ file' \in Files
      /\ \A q \in Places : /\ file'[q].bak = file[q].bak /\ file'[q].tmp = file[q].tmp
                           /\ file'[q].at = IF q = mig.place THEN NoFile ELSE file[q].at
  <2>1. NoFile \in Docs /\ NoFile \in Whole \cup {NoFile} /\ file \in Files
    BY <1>2 DEF Docs, FilesTyped
  <2> QED
    BY <1>1, <1>2, <2>1, PutOne
<1>5. NoFile.hub = Absent
  BY DEF NoFile
<1>6. FilesTyped' /\ Kept'
  BY <1>1, <1>2, <1>3, <1>4, <1>5 DEF FilesTyped, Kept, Secured, Places
<1>7. Untouched'
  BY <1>1, <1>2, <1>3, <1>4 DEF Untouched, Places, Same
<1>8. Secured'
  BY <1>1, <1>2, <1>3, <1>4 DEF Secured, Places, Same
<1>9. Complete'
  BY <1>1, <1>2, <1>3, <1>4 DEF Complete, Same
<1> QED
  BY <1>6, <1>7, <1>8, <1>9 DEF FilesInv

\* The copy of the source is made.
LEMMA SourceFiles ==
  ASSUME FilesInv, BackupSource
  PROVE  FilesInv'
<1>1. /\ mig.pc = "backup" /\ UNCHANGED <<written, raced>>
      /\ \/ file' = Placed(mig.place, "bak", file[mig.place].at) /\ mig' = Advance("write")
         \/ file' = Placed(mig.place, "bak", Torn) /\ mig' = Partway
  BY DEF BackupSource, At, OnFiles, Fill, Put, Then, Placed, Advance, Partway, Here
<1>2. /\ mig # Idle /\ mig \in Working /\ mig.place \in Places /\ mig.doc \in Whole
      /\ Untouched /\ Secured /\ Complete /\ Kept /\ FilesTyped
  BY <1>1, AtPhase
<1>3. mig.place = "source" /\ file["source"].at = written
  BY <1>1, <1>2 DEF Untouched, Secured, Places
<1>4. /\ mig' \in Working /\ Same(mig')
      /\ \/ mig'.pc = "write" /\ file' = Placed(mig.place, "bak", file[mig.place].at)
         \/ mig'.pc = "backup" /\ file' = Placed(mig.place, "bak", Torn)
  BY <1>1, <1>2, NextPhase
<1>5. /\ file' \in Files /\ \A q \in Places : file'[q].at = file[q].at /\ file'[q].tmp = file[q].tmp
      /\ mig'.pc = "write" => file'["source"].bak = written
  <2>1. file[mig.place].at \in Docs /\ Torn \in Docs /\ file \in Files
    BY <1>2 DEF Docs, FilesTyped, Files
  <2> QED
    BY <1>2, <1>3, <1>4, <2>1, PutOne
<1>6. FilesTyped' /\ Kept'
  BY <1>1, <1>2, <1>3, <1>4, <1>5 DEF FilesTyped, Kept, Places
<1>7. Untouched' /\ Complete'
  BY <1>3, <1>4 DEF Untouched, Complete, Same
<1>8. Secured'
  BY <1>1, <1>2, <1>3, <1>4, <1>5 DEF Secured, Places, Same
<1> QED
  BY <1>6, <1>7, <1>8 DEF FilesInv
\* What a rename makes of the files, and where the migration goes from it.
Renamed(p) == [file EXCEPT ![p].at = file[p].tmp, ![p].tmp = NoFile]
Onward == [mig EXCEPT !.pc = "backup", !.place = "source", !.replace = TRUE, !.doc = mig.rest]

\* The temporary is the file.
LEMMA RenamedFile ==
  ASSUME file \in Files, NEW p \in Places, file[p].tmp \in Whole
  PROVE  /\ Renamed(p) \in Files
         /\ \A q \in Places :
              /\ Renamed(p)[q].at  = IF q = p THEN file[p].tmp ELSE file[q].at
              /\ Renamed(p)[q].bak = file[q].bak
              /\ q # p => Renamed(p)[q].tmp = file[q].tmp
<1> DEFINE Parts == [at : Whole \cup {NoFile}, bak : Docs, tmp : Docs]
<1>1. \A q \in Places : file[q] \in Parts
  BY DEF Files
<1>2. /\ DOMAIN Renamed(p) = Places /\ \A q \in Places : q # p => Renamed(p)[q] = file[q]
      /\ Renamed(p)[p] = [at |-> file[p].tmp, bak |-> file[p].bak, tmp |-> NoFile]
  BY <1>1 DEF Renamed, Files
<1>3. Renamed(p) = [q \in Places |-> Renamed(p)[q]]
  BY DEF Renamed, Files
<1>4. Renamed(p)[p] \in Parts
  BY <1>1, <1>2 DEF Docs
<1>5. Renamed(p) \in Files
  BY <1>1, <1>2, <1>3, <1>4 DEF Files
<1> QED
  BY <1>2, <1>5

\* After the destination comes the source.
LEMMA OnwardPhase ==
  ASSUME mig \in Working
  PROVE  /\ Onward \in Working /\ Onward.pc = "backup" /\ Onward.place = "source"
         /\ Onward.replace = TRUE /\ Onward.doc = mig.rest
BY DEF Working, Onward, Places

\* The temporary takes its name, or is removed.
LEMMA RenameFiles ==
  ASSUME FilesInv, Rename
  PROVE  FilesInv'
<1>1. /\ mig.pc = "rename" /\ UNCHANGED <<written, raced>>
      /\ \/ file' = Renamed(mig.place) /\ mig' = Onward /\ mig.place = "destination"
         \/ file' = Renamed(mig.place) /\ mig' = Idle
         \/ file' = Placed(mig.place, "tmp", NoFile) /\ mig' = Idle
  BY DEF Rename, At, OnFiles, Put, Placed, Renamed, Onward, Here
<1>2. /\ mig # Idle /\ mig \in Working /\ mig.place \in Places /\ mig.doc \in Whole
      /\ Untouched /\ Secured /\ Complete /\ Kept /\ FilesTyped
  BY <1>1, AtPhase
<1>3. file[mig.place].tmp = mig.doc
  BY <1>1, <1>2 DEF Complete
<1>4. mig' \in Working \/ mig' = Idle
  BY <1>1, <1>2, OnwardPhase
<1>5. CASE file' = Renamed(mig.place)
  <2>1. /\ file' \in Files
        /\ \A q \in Places : /\ file'[q].at = IF q = mig.place THEN mig.doc ELSE file[q].at
                             /\ file'[q].bak = file[q].bak
    BY <1>2, <1>3, <1>5, RenamedFile DEF FilesTyped
  <2>2. FilesTyped'
    BY <1>1, <1>2, <1>4, <2>1 DEF FilesTyped
  <2>3. CASE mig.place = "destination"
    <3>1. file'["source"].at = written /\ mig.rest.hub = Absent
      BY <1>2, <2>1, <2>3 DEF Untouched, Places
    <3>2. Kept'
      BY <1>1, <3>1 DEF Kept
    <3>3. CASE mig' = Idle
      BY <2>2, <3>2, <3>3 DEF FilesInv
    <3>4. CASE mig' = Onward
      BY <1>1, <1>2, <2>2, <3>1, <3>2, <3>4, OnwardPhase DEF FilesInv, Untouched, Secured, Complete
    <3> QED
      BY <1>1, <3>3, <3>4
  <2>4. CASE mig.place = "source"
    <3>1. mig' = Idle
      BY <1>1, <1>5, <2>4, <1>2, OnwardPhase
    <3>2. (file'["source"].bak = written \/ raced') /\ file'["source"].at.hub = Absent
      BY <1>1, <1>2, <2>1, <2>4 DEF Secured, Places
    <3> QED
      BY <1>1, <2>2, <3>1, <3>2 DEF FilesInv, Kept
  <2> QED
    BY <1>2, <2>3, <2>4 DEF Places
<1>6. CASE file' = Placed(mig.place, "tmp", NoFile) /\ mig' = Idle
  <2>1. NoFile \in Docs /\ file \in Files
    BY <1>2 DEF Docs, FilesTyped
  <2>2. /\ file' \in Files
        /\ \A q \in Places : file'[q].at = file[q].at /\ file'[q].bak = file[q].bak
    BY <1>2, <1>6, <2>1, PutOne
  <2> QED
    BY <1>1, <1>2, <1>6, <2>2 DEF FilesInv, FilesTyped, Kept, Places
<1> QED
  BY <1>1, <1>5, <1>6

\* A migration that stops leaves what there is.
LEMMA AbandonFiles == ASSUME FilesInv, Abandon PROVE FilesInv'
BY DEF FilesInv, FilesTyped, Kept, Abandon, OnFiles

\* The user's own changes, also while a migration runs: the source is then as he left
\* it, and what the backup misses of it is known to be missing.
LEMMA EditFiles ==
  ASSUME FilesInv, NEW c \in Settings, Edit(c)
  PROVE  FilesInv'
<1> DEFINE new == WithSection(file["source"].at, c)
<1>1. mig' = mig /\ file' = Placed("source", "at", new) /\ written' = new
      /\ file["source"].at # NoFile /\ raced' = Overtaking
  BY DEF Edit, Put, Placed, Exists
<1>2. file \in Files /\ file["source"].at \in Whole
  BY <1>1 DEF FilesInv, FilesTyped, Files, Places
<1>3. new \in Whole
  BY <1>2, HubDocument DEF Sections
<1> HIDE DEF new
<1>4. /\ file' \in Files /\ file'["source"].at = new /\ file'["source"].bak = file["source"].bak
      /\ \A q \in Places : file'[q].tmp = file[q].tmp
  BY <1>1, <1>2, <1>3, PutOne DEF Docs, Places
<1>5. FilesTyped' /\ Kept'
  BY <1>1, <1>3, <1>4 DEF FilesInv, FilesTyped, Kept
<1>6. ASSUME mig # Idle PROVE Untouched' /\ Secured' /\ Complete'
  <2>1. mig \in Working /\ mig.place \in Places /\ Untouched /\ Secured /\ Complete
    BY <1>6 DEF FilesInv, FilesTyped, Working
  <2>2. Untouched'
    BY <1>1, <1>4, <2>1 DEF Untouched
  <2>3. Secured'
    BY <1>1, <1>4, <1>6, <2>1 DEF Secured, Overtaking
  <2>4. Complete'
    BY <1>1, <1>4, <2>1 DEF Complete
  <2> QED
    BY <2>2, <2>3, <2>4
<1> QED
  BY <1>1, <1>5, <1>6 DEF FilesInv

\* A backup is removed of a source that has its section.
LEMMA TidyFiles ==
  ASSUME FilesInv, Tidy
  PROVE  FilesInv'
<1>1. mig' = mig /\ file' = Placed("source", "bak", NoFile) /\ written' = written
      /\ file["source"].at.hub # Absent /\ raced' = (raced \/ Overtaking)
  BY DEF Tidy, OnFiles, Put, Placed
<1>2. file \in Files /\ file["source"].at = written /\ written \in Whole
  BY <1>1 DEF FilesInv, FilesTyped, Kept
<1>3. /\ file' \in Files /\ file'["source"].at = written /\ file'["source"].bak = NoFile
      /\ \A q \in Places : file'[q].tmp = file[q].tmp
  BY <1>1, <1>2, PutOne DEF Docs, Places
<1>4. FilesTyped' /\ Kept'
  BY <1>1, <1>2, <1>3 DEF FilesInv, FilesTyped, Kept
<1>5. ASSUME mig # Idle PROVE Untouched' /\ Secured' /\ Complete'
  <2>1. mig \in Working /\ mig.place \in Places /\ Untouched /\ Secured /\ Complete
    BY <1>5 DEF FilesInv, FilesTyped, Working
  <2>2. Untouched'
    BY <1>1, <1>2, <1>3, <2>1 DEF Untouched
  <2>3. Secured'
    <3>1. written # NoFile
      BY <1>2, WholeDocument
    <3> QED
      BY <1>1, <1>2, <1>3, <1>5, <2>1, <3>1 DEF Secured, Overtaking
  <2>4. Complete'
    BY <1>1, <1>3, <2>1 DEF Complete
  <2> QED
    BY <2>2, <2>3, <2>4
<1> QED
  BY <1>1, <1>4, <1>5 DEF FilesInv

\* Every step keeps the files.
LEMMA NextFiles == FilesInv /\ [Next]_vars => FilesInv'
<1> SUFFICES ASSUME FilesInv, [Next]_vars PROVE FilesInv'
  OBVIOUS
<1>1. CASE \E force, remove \in BOOLEAN : Migrate(force, remove)
  BY <1>1, MigrateFiles
<1>2. CASE WriteTemporary
  BY <1>2, TemporaryFiles
<1>3. CASE KeepBackup
  BY <1>3, BackupFiles
<1>4. CASE NeedsNone
  BY <1>4, NeedlessFiles
<1>5. CASE Unlink
  BY <1>5, UnlinkFiles
<1>6. CASE Rename
  BY <1>6, RenameFiles
<1>7. CASE BackupSource
  BY <1>7, SourceFiles
<1>8. CASE Abandon
  BY <1>8, AbandonFiles
<1>9. CASE \E c \in Settings : Edit(c)
  BY <1>9, EditFiles
<1>10. CASE Tidy
  BY <1>10, TidyFiles
<1>11. CASE UNCHANGED <<file, mig, written, raced>>
  BY <1>11 DEF FilesInv, FilesTyped, Kept, Untouched, Secured, Complete
<1>12. ASSUME NEW d \in Daemons,
              (\E p \in Places : Start(d, p)) \/ Open(d) \/ Publish(d) \/ Quit(d) \/ Kill(d)
       PROVE  UNCHANGED <<file, mig, written, raced>>
  BY <1>12 DEF Start, Open, Publish, Quit, Kill, OnDaemon
<1> QED
  BY <1>1, <1>2, <1>3, <1>4, <1>5, <1>6, <1>7, <1>8, <1>9, <1>10, <1>11, <1>12 DEF Next, vars

------------------------------------------------------------------------------
\* Daemons go through their phases, and the runtime info names one or none.
Phases == {"off", "opening", "clearing", "publishing", "up", "removing", "exiting", "ended"}
DaemonsInv ==
  /\ DOMAIN daemon = Daemons /\ info \in Daemons \cup {Nobody}
  /\ \A d \in Daemons : /\ daemon[d].pc \in Phases
                        /\ DOMAIN daemon[d] = {"pc", "todo", "opened", "sessions"}

\* A daemon becomes one that is in some phase.
LEMMA DaemonBecomes ==
  ASSUME DaemonsInv, NEW d \in Daemons, NEW state, Becomes(d, state), info' \in Daemons \cup {Nobody},
         state.pc \in Phases, DOMAIN state = {"pc", "todo", "opened", "sessions"}
  PROVE  DaemonsInv'
<1>1. daemon' = [daemon EXCEPT ![d] = state] /\ DOMAIN daemon = Daemons
  BY DEF DaemonsInv, Becomes
<1>2. DOMAIN daemon' = Daemons
  BY <1>1
<1>3. ASSUME NEW e \in Daemons
      PROVE  daemon'[e].pc \in Phases /\ DOMAIN daemon'[e] = {"pc", "todo", "opened", "sessions"}
  <2>1. CASE e = d
    <3>1. daemon'[e] = state
      BY <1>1, <2>1, Zenon
    <3> QED
      BY <3>1
  <2>2. CASE e # d
    <3>1. daemon'[e] = daemon[e]
      BY <1>1, <2>2, Zenon
    <3> QED
      BY <3>1 DEF DaemonsInv
  <2> QED
    BY <2>1, <2>2
<1> QED
  BY <1>2, <1>3 DEF DaemonsInv

\* Daemons' steps.
LEMMA NextDaemons == DaemonsInv /\ [Next]_vars => DaemonsInv'
<1> SUFFICES ASSUME DaemonsInv, [Next]_vars PROVE DaemonsInv'
  OBVIOUS
<1> USE DEF Phases
<1>1. ASSUME NEW d \in Daemons, NEW p \in Places, Start(d, p) PROVE DaemonsInv'
  BY <1>1, DaemonBecomes DEF Start, Off, DaemonsInv, Becomes
<1>2. ASSUME NEW d \in Daemons, Open(d) PROVE DaemonsInv'
  <2>1. PICK me : me = daemon[d] /\ me.pc \in Phases /\ DOMAIN me = {"pc", "todo", "opened", "sessions"}
    BY DEF DaemonsInv
  <2>2. info' \in Daemons \cup {Nobody}
    BY <1>2 DEF Open, DaemonsInv
  <2>3. CASE Becomes(d, [Off EXCEPT !.pc = "ended"])
    BY <2>2, <2>3, DaemonBecomes DEF Off
  <2>4. CASE \E t, o, s : Becomes(d, [me EXCEPT !.todo = t, !.opened = o, !.sessions = s])
    <3>1. PICK t, o, s : Becomes(d, [me EXCEPT !.todo = t, !.opened = o, !.sessions = s])
      BY <2>4
    <3>2. PICK new : new = [me EXCEPT !.todo = t, !.opened = o, !.sessions = s]
      OBVIOUS
    <3>3. Becomes(d, new) /\ new.pc \in Phases /\ DOMAIN new = {"pc", "todo", "opened", "sessions"}
      BY <2>1, <3>1, <3>2
    <3> QED
      BY <2>2, <3>3, DaemonBecomes
  <2>5. Becomes(d, [Off EXCEPT !.pc = "ended"])
        \/ \E t, o, s : Becomes(d, [me EXCEPT !.todo = t, !.opened = o, !.sessions = s])
    BY <1>2, <2>1, Zenon DEF Open
  <2> QED
    BY <2>3, <2>4, <2>5
<1>3. ASSUME NEW d \in Daemons, Publish(d) PROVE DaemonsInv'
  BY <1>3, DaemonBecomes DEF Publish, Off, DaemonsInv, Becomes
<1>4. ASSUME NEW d \in Daemons, Quit(d) PROVE DaemonsInv'
  BY <1>4, DaemonBecomes DEF Quit, Off, DaemonsInv, Becomes
<1>5. ASSUME NEW d \in Daemons, Kill(d) PROVE DaemonsInv'
  BY <1>5, DaemonBecomes DEF Kill, Off, DaemonsInv, Becomes
<1>6. CASE UNCHANGED <<daemon, info>>
  BY <1>6 DEF DaemonsInv
<1>7. CASE \/ \E force, remove \in BOOLEAN : Migrate(force, remove)
           \/ WriteTemporary \/ KeepBackup \/ NeedsNone \/ Unlink \/ Rename \/ BackupSource \/ Abandon
           \/ \E c \in Settings : Edit(c)
           \/ Tidy
  BY <1>6, <1>7 DEF Migrate, WriteTemporary, KeepBackup, NeedsNone, Unlink, Rename, BackupSource,
                    Abandon, Edit, Tidy, At, OnFiles, NoDaemon
<1> QED
  BY <1>1, <1>2, <1>3, <1>4, <1>5, <1>6, <1>7 DEF Next, vars

\* What the runs check of the files holds for every configuration and any number of
\* daemons, edits and migrations, wherever a migration stops.
THEOREM MigrationKeepsFiles == Spec => []FilesSafe
<1>1. Init => FilesInv /\ DaemonsInv
  <2>1. Init => DaemonsInv
    BY DEF Init, DaemonsInv, Off, Phases
  <2> QED
    BY <2>1, InitFiles
<1>2. FilesInv /\ DaemonsInv => FilesSafe
  BY FilesEnough DEF DaemonsInv, Phases, FilesSafe, SetupTypeOK
<1> QED
  BY <1>1, <1>2, NextFiles, NextDaemons, PTL DEF Spec

------------------------------------------------------------------------------
\* What run opens: for which part of the settings, and which port or device.
Opening ==
  [kind : {"keyer", "api", "radio", "keyerEndpoint", "serial", "hamlib"},
   resource : [what : {"device", "bind", "api", "dial"}, id : Nat \cup {Absent}],
   primary : BOOLEAN]

\* No primary endpoint is among them, or one only.
NonePrimary(s) == \A i \in DOMAIN s : s[i].primary = FALSE
OnePrimary(s) == \A i, j \in DOMAIN s : s[i].primary /\ s[j].primary => i = j

\* None of two parts is primary, or only one of one part.
LEMMA PrimaryOfParts ==
  ASSUME NEW s \in Seq(Opening), NEW t \in Seq(Opening)
  PROVE  /\ s \o t \in Seq(Opening)
         /\ NonePrimary(s) /\ NonePrimary(t) => NonePrimary(s \o t)
         /\ NonePrimary(s) /\ OnePrimary(t) => OnePrimary(s \o t)
         /\ OnePrimary(s) /\ NonePrimary(t) => OnePrimary(s \o t)
<1>1. /\ DOMAIN (s \o t) = 1 .. Len(s) + Len(t) /\ DOMAIN s = 1 .. Len(s) /\ DOMAIN t = 1 .. Len(t)
      /\ Len(s) \in Nat /\ Len(t) \in Nat /\ s \o t \in Seq(Opening)
  OBVIOUS
<1>2. \A i \in DOMAIN (s \o t) :
        \/ i \in DOMAIN s /\ (s \o t)[i] = s[i]
        \/ i - Len(s) \in DOMAIN t /\ (s \o t)[i] = t[i - Len(s)]
  OBVIOUS
<1>3. PICK u : u = s \o t
  OBVIOUS
<1>4. NonePrimary(s) /\ NonePrimary(t) => NonePrimary(u)
  BY <1>2, <1>3 DEF NonePrimary
<1>5. ASSUME NEW i \in DOMAIN u, NEW j \in DOMAIN u, u[i].primary, u[j].primary,
             \/ NonePrimary(s) /\ OnePrimary(t)
             \/ OnePrimary(s) /\ NonePrimary(t)
      PROVE  i = j
  <2>1. CASE NonePrimary(s) /\ OnePrimary(t)
    <3>1. /\ i - Len(s) \in DOMAIN t /\ t[i - Len(s)].primary
          /\ j - Len(s) \in DOMAIN t /\ t[j - Len(s)].primary
      BY <1>2, <1>3, <1>5, <2>1 DEF NonePrimary
    <3>2. i - Len(s) = j - Len(s)
      BY <2>1, <3>1 DEF OnePrimary
    <3>3. i \in Nat /\ j \in Nat
      BY <1>1, <1>3
    <3> QED
      BY <1>1, <3>2, <3>3
  <2>2. CASE OnePrimary(s) /\ NonePrimary(t)
    <3>1. /\ i \in DOMAIN s /\ s[i].primary
          /\ j \in DOMAIN s /\ s[j].primary
      BY <1>2, <1>3, <1>5, <2>2 DEF NonePrimary
    <3> QED
      BY <2>2, <3>1 DEF OnePrimary
  <2> QED
    BY <1>5, <2>1, <2>2
<1> QED
  BY <1>1, <1>3, <1>4, <1>5 DEF OnePrimary

\* A port or a device that is named is opened.
LEMMA DeviceTyped ==
  ASSUME NEW name, IsName(name)
  PROVE  Device(name) \in [what : {"device", "bind", "api", "dial"}, id : Nat \cup {Absent}]
BY DEF IsName, Device

\* The parts of what run opens.
Resources == [what : {"device", "bind", "api", "dial"}, id : Nat \cup {Absent}]
KeyerPart(c) ==
  IF c.keyer = Absent THEN <<>>
  ELSE <<Opens("keyer", Device(c.keyer.port)), Opens("api", [what |-> "api", id |-> 1])>>
RadioPart(c) ==
  IF c.backend = "loopback" THEN <<>>
  ELSE <<Opens("radio", IF c.transport = "tcp" THEN [what |-> "dial", id |-> 1] ELSE Device(c.port))>>
VirtualOf(e) == [Opens("keyerEndpoint", Device(e.transport)) EXCEPT !.primary = e.primary]
VirtualPart(c) == [i \in DOMAIN c.keyerEndpoints |-> VirtualOf(c.keyerEndpoints[i])]
SerialPart(c) == [i \in DOMAIN c.serial |-> Opens("serial", Device(c.serial[i].transport))]
NetPart(c) == [i \in DOMAIN c.hamlib |-> Opens("hamlib", Bind(c.hamlib[i]))]

\* They are all there is.
LEMMA Parts ==
  ASSUME NEW c
  PROVE  Bringup(c) = KeyerPart(c) \o RadioPart(c) \o VirtualPart(c) \o SerialPart(c) \o NetPart(c)
BY DEF Bringup, KeyerPart, RadioPart, VirtualPart, VirtualOf, SerialPart, NetPart

\* What is opened is not of a primary endpoint unless it is made so.
LEMMA Opened ==
  ASSUME NEW k \in {"keyer", "api", "radio", "keyerEndpoint", "serial", "hamlib"}, NEW r \in Resources
  PROVE  Opens(k, r) \in Opening /\ Opens(k, r).primary = FALSE
BY DEF Opens, Opening, Resources

\* The keyer's and the radio's.
LEMMA KeyerPartTyped ==
  ASSUME NEW c \in Settings, Valid(c)
  PROVE  KeyerPart(c) \in Seq(Opening) /\ NonePrimary(KeyerPart(c))
<1>1. CASE c.keyer = Absent
  BY <1>1 DEF NonePrimary, KeyerPart
<1>2. CASE c.keyer # Absent
  <2>1. IsKeyer(c.keyer) /\ c.keyer.port # Absent
    BY <1>2, SetupAssumption DEF IsSettings, ValidKeyer, Valid
  <2>2. Device(c.keyer.port) \in Resources /\ [what |-> "api", id |-> 1] \in Resources
    BY <2>1, DeviceTyped DEF IsKeyer, Resources
  <2>3. PICK a \in Opening, b \in Opening : KeyerPart(c) = <<a, b>> /\ a.primary = FALSE /\ b.primary = FALSE
    BY <1>2, <2>2, Opened DEF KeyerPart
  <2> QED
    BY <2>3 DEF NonePrimary
<1> QED
  BY <1>1, <1>2

LEMMA RadioPartTyped ==
  ASSUME NEW c \in Settings, Valid(c)
  PROVE  RadioPart(c) \in Seq(Opening) /\ NonePrimary(RadioPart(c))
<1>1. CASE c.backend = "loopback"
  BY <1>1 DEF NonePrimary, RadioPart
<1>2. CASE c.backend # "loopback"
  <2>1. c.transport = "tcp" \/ IsName(c.port)
    BY <1>2, SetupAssumption DEF IsSettings, ValidRadio, Valid
  <2>2. c.transport # "tcp" => Device(c.port) \in Resources
    BY <2>1, DeviceTyped DEF Resources
  <2>3. [what |-> "dial", id |-> 1] \in Resources
    BY DEF Resources
  <2>4. PICK r \in Resources : RadioPart(c) = <<Opens("radio", r)>>
    BY <1>2, <2>2, <2>3 DEF RadioPart
  <2>5. PICK a \in Opening : RadioPart(c) = <<a>> /\ a.primary = FALSE
    BY <2>4, Opened
  <2> QED
    BY <2>5 DEF NonePrimary
<1> QED
  BY <1>1, <1>2

\* A function of a sequence's positions is a sequence.
LEMMA PositionsOf ==
  ASSUME NEW S, NEW s \in Seq(S), NEW T, NEW f, DOMAIN f = DOMAIN s, f = [i \in DOMAIN s |-> f[i]],
         \A i \in DOMAIN s : f[i] \in T
  PROVE  f \in Seq(T)
<1>1. DOMAIN s = 1 .. Len(s) /\ Len(s) \in Nat
  OBVIOUS
<1> QED
  BY <1>1

\* The endpoints', of which one is primary at most.
LEMMA VirtualPartTyped ==
  ASSUME NEW c \in Settings, Valid(c)
  PROVE  VirtualPart(c) \in Seq(Opening) /\ OnePrimary(VirtualPart(c))
<1>1. DOMAIN VirtualPart(c) = DOMAIN c.keyerEndpoints /\ IsSettings(c) /\ ValidKeyer(c)
  BY SetupAssumption DEF VirtualPart, Valid
<1>2. \A i \in DOMAIN c.keyerEndpoints :
        /\ VirtualPart(c)[i] \in Opening
        /\ VirtualPart(c)[i].primary = c.keyerEndpoints[i].primary
  <2> SUFFICES ASSUME NEW i \in DOMAIN c.keyerEndpoints
               PROVE  /\ VirtualPart(c)[i] \in Opening
                      /\ VirtualPart(c)[i].primary = c.keyerEndpoints[i].primary
    OBVIOUS
  <2>1. c.keyer # Absent
    <3>1. ASSUME c.keyer = Absent PROVE FALSE
      <4>1. c.keyerEndpoints = <<>>
        BY <1>1, <3>1 DEF ValidKeyer
      <4> QED
        BY <4>1
    <3> QED
      BY <3>1
  <2>2. PICK e : e = c.keyerEndpoints[i]
    OBVIOUS
  <2>3. IsKeyerEndpoint(e) /\ ValidKeyerEndpoint(e)
    BY <1>1, <2>1, <2>2 DEF IsSettings, ValidKeyer
  <2>4. IsName(e.transport) /\ e.primary \in BOOLEAN
    BY <2>3 DEF IsKeyerEndpoint, ValidKeyerEndpoint
  <2>5. PICK r \in Resources : Device(e.transport) = r
    BY <2>4, DeviceTyped DEF Resources
  <2>6. VirtualOf(e) = [kind |-> "keyerEndpoint", resource |-> r, primary |-> e.primary]
    BY <2>5 DEF VirtualOf, Opens
  <2>7. VirtualPart(c)[i] = VirtualOf(e)
    BY <2>2 DEF VirtualPart
  <2> QED
    BY <2>2, <2>4, <2>6, <2>7 DEF Opening, Resources
<1>3. VirtualPart(c) \in Seq(Opening)
  <2>1. VirtualPart(c) = [i \in DOMAIN c.keyerEndpoints |-> VirtualPart(c)[i]]
    BY DEF VirtualPart
  <2>2. c.keyerEndpoints \in Seq(Range(c.keyerEndpoints))
    BY <1>1 DEF IsSettings
  <2> QED
    BY <1>1, <1>2, <2>1, <2>2, PositionsOf
<1>4. \A i, j \in DOMAIN c.keyerEndpoints :
        c.keyerEndpoints[i].primary /\ c.keyerEndpoints[j].primary => i = j
  <2>1. CASE c.keyer = Absent
    <3>1. c.keyerEndpoints = <<>>
      BY <1>1, <2>1 DEF ValidKeyer
    <3> QED
      BY <3>1
  <2>2. CASE c.keyer # Absent
    BY <1>1, <2>2 DEF ValidKeyer, PrimariesOf
  <2> QED
    BY <2>1, <2>2
<1> QED
  BY <1>1, <1>2, <1>3, <1>4 DEF OnePrimary

LEMMA SerialPartTyped ==
  ASSUME NEW c \in Settings
  PROVE  SerialPart(c) \in Seq(Opening) /\ NonePrimary(SerialPart(c))
<1>1. DOMAIN SerialPart(c) = DOMAIN c.serial /\ IsSettings(c)
  BY SetupAssumption DEF SerialPart
<1>2. \A i \in DOMAIN c.serial : SerialPart(c)[i] \in Opening /\ SerialPart(c)[i].primary = FALSE
  <2> SUFFICES ASSUME NEW i \in DOMAIN c.serial
               PROVE  SerialPart(c)[i] \in Opening /\ SerialPart(c)[i].primary = FALSE
    OBVIOUS
  <2>1. IsName(c.serial[i].transport)
    BY <1>1 DEF IsSettings, IsSerialEndpoint
  <2>2. PICK r \in Resources : Device(c.serial[i].transport) = r
    BY <2>1, DeviceTyped DEF Resources
  <2>3. SerialPart(c)[i] = Opens("serial", r)
    BY <2>2 DEF SerialPart
  <2> QED
    BY <2>3, Opened
<1>3. SerialPart(c) = [i \in DOMAIN c.serial |-> SerialPart(c)[i]]
  BY DEF SerialPart
<1>4. c.serial \in Seq(Range(c.serial))
  BY <1>1 DEF IsSettings
<1>5. SerialPart(c) \in Seq(Opening)
  BY <1>1, <1>2, <1>3, <1>4, PositionsOf
<1> QED
  BY <1>1, <1>2, <1>5 DEF NonePrimary

LEMMA NetPartTyped ==
  ASSUME NEW c \in Settings
  PROVE  NetPart(c) \in Seq(Opening) /\ NonePrimary(NetPart(c))
<1>1. DOMAIN NetPart(c) = DOMAIN c.hamlib /\ IsSettings(c)
  BY SetupAssumption DEF NetPart
<1>2. \A i \in DOMAIN c.hamlib : NetPart(c)[i] \in Opening /\ NetPart(c)[i].primary = FALSE
  <2> SUFFICES ASSUME NEW i \in DOMAIN c.hamlib
               PROVE  NetPart(c)[i] \in Opening /\ NetPart(c)[i].primary = FALSE
    OBVIOUS
  <2>1. c.hamlib[i] \in Nat
    BY <1>1 DEF IsSettings
  <2>2. PICK r \in Resources : Bind(c.hamlib[i]) = r
    BY <2>1 DEF Bind, Resources
  <2>3. NetPart(c)[i] = Opens("hamlib", r)
    BY <2>2 DEF NetPart
  <2> QED
    BY <2>3, Opened
<1>3. NetPart(c) = [i \in DOMAIN c.hamlib |-> NetPart(c)[i]]
  BY DEF NetPart
<1>4. c.hamlib \in Seq(Range(c.hamlib))
  BY <1>1 DEF IsSettings
<1>5. NetPart(c) \in Seq(Opening)
  BY <1>1, <1>2, <1>3, <1>4, PositionsOf
<1> QED
  BY <1>1, <1>2, <1>5 DEF NonePrimary

\* What run opens for settings that are accepted: openings, of which one is of a
\* primary endpoint at most.
LEMMA BringupTyped ==
  ASSUME NEW c \in Settings, Valid(c)
  PROVE  Bringup(c) \in Seq(Opening) /\ OnePrimary(Bringup(c))
<1>1. PICK k \in Seq(Opening) : k = KeyerPart(c) /\ NonePrimary(k)
  BY KeyerPartTyped
<1>2. PICK r \in Seq(Opening) : r = RadioPart(c) /\ NonePrimary(r)
  BY RadioPartTyped
<1>3. PICK v \in Seq(Opening) : v = VirtualPart(c) /\ OnePrimary(v)
  BY VirtualPartTyped
<1>4. PICK s \in Seq(Opening) : s = SerialPart(c) /\ NonePrimary(s)
  BY SerialPartTyped
<1>5. PICK n \in Seq(Opening) : n = NetPart(c) /\ NonePrimary(n)
  BY NetPartTyped
<1>6. Bringup(c) = (((k \o r) \o v) \o s) \o n
  BY <1>1, <1>2, <1>3, <1>4, <1>5, Parts
<1>7. PICK u \in Seq(Opening) : u = k \o r /\ NonePrimary(u)
  BY <1>1, <1>2, PrimaryOfParts
<1>8. PICK w \in Seq(Opening) : w = u \o v /\ OnePrimary(w)
  BY <1>3, <1>7, PrimaryOfParts
<1>9. PICK x \in Seq(Opening) : x = w \o s /\ OnePrimary(x)
  BY <1>4, <1>8, PrimaryOfParts
<1>10. x \o n \in Seq(Opening) /\ OnePrimary(x \o n)
  BY <1>5, <1>9, PrimaryOfParts
<1> QED
  BY <1>6, <1>7, <1>8, <1>9, <1>10

------------------------------------------------------------------------------
\* The endpoints among what is open.
EndKinds == {"keyerEndpoint", "serial", "hamlib"}
Ends(s) == {i \in DOMAIN s : s[i].kind \in EndKinds}

\* A daemon that runs has opened a first part of what its settings, which were
\* accepted, call for, and the rest is to do; a session of each endpoint that is open
\* has an id of its own, and is the primary one only if its endpoint is.
Running == {"opening", "clearing", "publishing", "up", "removing", "exiting"}
Serves(me, c) ==
  /\ Valid(c) /\ me.opened \in Seq(Opening) /\ me.todo \in Seq(Opening)
  /\ me.opened \o me.todo = Bringup(c)
  /\ me.pc # "opening" => me.todo = <<>>
  /\ {s.id : s \in me.sessions} = 1 .. Cardinality(Ends(me.opened))
  /\ \A s \in me.sessions : s.primary => \E i \in DOMAIN me.opened : me.opened[i].primary
Sound(me) == IF me.pc \in Running THEN \E c \in Settings : Serves(me, c) ELSE me.opened = <<>>
ServingInv == \A d \in Daemons : Sound(daemon[d])

\* What is loaded was accepted.
LEMMA LoadedValid ==
  ASSUME NEW d, Load(d, FALSE) # Absent
  PROVE  Valid(Load(d, FALSE))
BY DEF Load, Accepted

\* Endpoints are counted one by one.
LEMMA EndsGrow ==
  ASSUME NEW s \in Seq(Opening), NEW o \in Opening
  PROVE  /\ IsFiniteSet(Ends(s)) /\ Cardinality(Ends(s)) \in Nat
         /\ Cardinality(Ends(Append(s, o))) =
              IF o.kind \in EndKinds THEN Cardinality(Ends(s)) + 1 ELSE Cardinality(Ends(s))
<1>1. DOMAIN s = 1 .. Len(s) /\ Len(s) \in Nat
  OBVIOUS
<1>2. IsFiniteSet(1 .. Len(s))
  BY <1>1, FS_Interval
<1>3. IsFiniteSet(Ends(s)) /\ Cardinality(Ends(s)) \in Nat
  <2>1. Ends(s) \subseteq 1 .. Len(s)
    BY <1>1 DEF Ends
  <2>2. IsFiniteSet(Ends(s))
    BY <1>2, <2>1, FS_Subset
  <2> QED
    BY <2>2, FS_CardinalityType
<1>4. PICK t \in Seq(Opening) : t = Append(s, o)
  <2>1. Append(s, o) \in Seq(Opening)
    OBVIOUS
  <2> QED
    BY <2>1
<1>5. /\ DOMAIN t = 1 .. Len(s) + 1 /\ t[Len(s) + 1] = o /\ \A i \in 1 .. Len(s) : t[i] = s[i]
  BY <1>1, <1>4
<1>6. CASE o.kind \in EndKinds
  <2>1. Ends(t) = Ends(s) \cup {Len(s) + 1}
    BY <1>1, <1>5, <1>6 DEF Ends
  <2>2. Len(s) + 1 \notin Ends(s)
    BY <1>1 DEF Ends
  <2> QED
    BY <1>3, <1>4, <1>6, <2>1, <2>2, FS_AddElement
<1>7. CASE o.kind \notin EndKinds
  <2>1. Ends(t) = Ends(s)
    BY <1>1, <1>5, <1>7 DEF Ends
  <2> QED
    BY <1>3, <1>4, <1>7, <2>1
<1> QED
  BY <1>6, <1>7

\* One more id of as many as there are.
LEMMA NextId ==
  ASSUME NEW S, NEW n \in Nat, {s.id : s \in S} = 1 .. n, NEW r, r.id = n + 1
  PROVE  {s.id : s \in S \cup {r}} = 1 .. n + 1
<1>1. {s.id : s \in S \cup {r}} = {s.id : s \in S} \cup {n + 1}
  OBVIOUS
<1>2. (1 .. n) \cup {n + 1} = 1 .. n + 1
  OBVIOUS
<1> QED
  BY <1>1, <1>2

\* The next of what is to do is opened.
LEMMA Moved ==
  ASSUME NEW s \in Seq(Opening), NEW t \in Seq(Opening), t # <<>>
  PROVE  /\ Head(t) \in Opening /\ Tail(t) \in Seq(Opening) /\ Append(s, Head(t)) \in Seq(Opening)
         /\ Append(s, Head(t)) \o Tail(t) = s \o t
         /\ (s \o t)[Len(s) + 1] = Head(t) /\ \A i \in DOMAIN s : (s \o t)[i] = s[i]
         /\ Len(s) + 1 \in DOMAIN (s \o t) /\ \A i \in DOMAIN s : i \in DOMAIN (s \o t) /\ i # Len(s) + 1
<1>1. /\ DOMAIN s = 1 .. Len(s) /\ Len(s) \in Nat /\ DOMAIN t = 1 .. Len(t) /\ Len(t) \in Nat
      /\ Len(t) > 0 /\ Head(t) = t[1]
  OBVIOUS
<1>2. Head(t) \in Opening /\ Tail(t) \in Seq(Opening) /\ Append(s, Head(t)) \in Seq(Opening)
  OBVIOUS
<1>3. PICK u : u = s \o t
  OBVIOUS
<1>4. /\ u \in Seq(Opening) /\ DOMAIN u = 1 .. Len(s) + Len(t)
      /\ \A i \in 1 .. Len(s) : u[i] = s[i]
      /\ \A i \in 1 .. Len(t) : u[Len(s) + i] = t[i]
  BY <1>1, <1>3
<1>5. Append(s, Head(t)) \o Tail(t) = u
  BY <1>1, <1>2, <1>3, SMTT(40)
<1> QED
  BY <1>1, <1>2, <1>3, <1>4, <1>5

\* A daemon that has all open which it is to open is sound as it goes through its
\* last phases, and one that is not running is.
LEMMA SoundPhases ==
  ASSUME NEW me, Sound(me), me.pc \in Running, me.todo = <<>>, DOMAIN me = {"pc", "todo", "opened", "sessions"},
         NEW pc \in Running
  PROVE  Sound([me EXCEPT !.pc = pc])
<1>1. PICK c \in Settings : Serves(me, c)
  BY DEF Sound
<1>2. PICK new : new = [me EXCEPT !.pc = pc]
  OBVIOUS
<1>3. new.pc = pc /\ new.todo = me.todo /\ new.opened = me.opened /\ new.sessions = me.sessions
  BY <1>2
<1>4. Serves(new, c)
  BY <1>1, <1>3 DEF Serves
<1> QED
  BY <1>2, <1>3, <1>4 DEF Sound

LEMMA SoundOff == Sound(Off) /\ Sound([Off EXCEPT !.pc = "ended"])
BY DEF Sound, Off, Running

\* What Load gives a daemon to open.
LEMMA SoundStart ==
  ASSUME NEW c \in Settings, Valid(c)
  PROVE  Sound([Off EXCEPT !.pc = "opening", !.todo = Bringup(c)])
<1>1. PICK new : new = [Off EXCEPT !.pc = "opening", !.todo = Bringup(c)]
  OBVIOUS
<1>2. new.pc = "opening" /\ new.todo = Bringup(c) /\ new.opened = <<>> /\ new.sessions = {}
  BY <1>1 DEF Off
<1>3. Bringup(c) \in Seq(Opening) /\ <<>> \in Seq(Opening) /\ <<>> \o Bringup(c) = Bringup(c)
  BY BringupTyped
<1>4. Ends(<<>>) = {}
  BY DEF Ends
<1>5. Cardinality(Ends(<<>>)) = 0
  BY <1>4, FS_EmptySet
<1>6. {s.id : s \in new.sessions} = 1 .. Cardinality(Ends(new.opened))
  BY <1>2, <1>5
<1>7. Serves(new, c)
  BY <1>2, <1>3, <1>6 DEF Serves
<1> QED
  BY <1>1, <1>2, <1>7 DEF Sound, Running

\* The session that registers has the next id, and it is never refused: of what is
\* opened one endpoint is primary at most.
LEMMA SoundOpen ==
  ASSUME DaemonsInv, NEW d \in Daemons, Sound(daemon[d]), daemon[d].pc = "opening", daemon[d].todo # <<>>,
         NEW new,
         new = [daemon[d] EXCEPT !.todo = Tail(@), !.opened = Append(@, Head(daemon[d].todo)),
                                 !.sessions = @ \cup Registers(d, Head(daemon[d].todo),
                                                1 + Cardinality(Ends(daemon[d].opened)))]
  PROVE  Sound(new)
<1>1. PICK me : me = daemon[d]
  OBVIOUS
<1>2. PICK c \in Settings : Serves(me, c)
  BY <1>1 DEF Sound, Running
<1>3. PICK o : o = Head(me.todo)
  OBVIOUS
<1>4. PICK n : n = Cardinality(Ends(me.opened))
  OBVIOUS
<1>5. PICK r : r = Registers(d, o, 1 + n)
  OBVIOUS
<1>6. /\ me.opened \in Seq(Opening) /\ me.todo \in Seq(Opening) /\ me.todo # <<>>
      /\ me.opened \o me.todo = Bringup(c) /\ Valid(c)
  BY <1>1, <1>2 DEF Serves
<1>7. /\ o \in Opening /\ Tail(me.todo) \in Seq(Opening) /\ Append(me.opened, o) \in Seq(Opening)
      /\ Append(me.opened, o) \o Tail(me.todo) = Bringup(c)
  <2>1. PICK s \in Seq(Opening), t \in Seq(Opening) : s = me.opened /\ t = me.todo
    BY <1>6
  <2>2. t # <<>> /\ s \o t = Bringup(c) /\ o = Head(t)
    BY <1>3, <1>6, <2>1, Zenon
  <2>3. /\ o \in Opening /\ Tail(t) \in Seq(Opening) /\ Append(s, o) \in Seq(Opening)
        /\ Append(s, o) \o Tail(t) = s \o t
    BY <2>2, Moved, Zenon
  <2> QED
    BY <2>1, <2>2, <2>3, Zenon
<1>8. new.pc = "opening" /\ new.todo = Tail(me.todo) /\ new.opened = Append(me.opened, o)
      /\ new.sessions = me.sessions \cup r
  BY <1>1, <1>3, <1>4, <1>5 DEF DaemonsInv
<1>9. /\ n \in Nat /\ {s.id : s \in me.sessions} = 1 .. n
      /\ Cardinality(Ends(new.opened)) = IF o.kind \in EndKinds THEN n + 1 ELSE n
  BY <1>2, <1>4, <1>6, <1>7, <1>8, EndsGrow DEF Serves
<1>10. ASSUME o.primary PROVE \A s \in me.sessions : ~s.primary
  <2>1. SUFFICES ASSUME NEW s \in me.sessions, s.primary PROVE FALSE
    OBVIOUS
  <2>2. PICK i \in DOMAIN me.opened : me.opened[i].primary
    BY <1>2, <2>1 DEF Serves
  <2>3. /\ Bringup(c)[Len(me.opened) + 1] = o /\ Bringup(c)[i] = me.opened[i]
        /\ Len(me.opened) + 1 \in DOMAIN Bringup(c) /\ i \in DOMAIN Bringup(c) /\ i # Len(me.opened) + 1
    <3>1. PICK x \in Seq(Opening), y \in Seq(Opening) : x = me.opened /\ y = me.todo
      BY <1>6
    <3>2. y # <<>> /\ x \o y = Bringup(c) /\ o = Head(y) /\ i \in DOMAIN x
      BY <1>3, <1>6, <2>2, <3>1
    <3>3. /\ (x \o y)[Len(x) + 1] = Head(y) /\ (x \o y)[i] = x[i]
          /\ Len(x) + 1 \in DOMAIN (x \o y) /\ i \in DOMAIN (x \o y) /\ i # Len(x) + 1
      BY <3>2, Moved
    <3> QED
      BY <3>1, <3>2, <3>3
  <2>4. OnePrimary(Bringup(c))
    BY <1>6, BringupTyped
  <2> QED
    BY <1>10, <2>2, <2>3, <2>4 DEF OnePrimary
<1>11. ASSUME {t.id : t \in new.sessions} = 1 .. Cardinality(Ends(new.opened)),
              \A t \in new.sessions : t.primary => \E i \in DOMAIN new.opened : new.opened[i].primary
       PROVE  Sound(new)
  <2>1. new.opened \in Seq(Opening) /\ new.todo \in Seq(Opening) /\ new.opened \o new.todo = Bringup(c)
    BY <1>7, <1>8
  <2>2. new.pc = "opening" /\ Valid(c)
    BY <1>6, <1>8
  <2>3. Serves(new, c)
    BY <1>11, <2>1, <2>2 DEF Serves
  <2> QED
    BY <2>2, <2>3 DEF Sound, Running
<1>12. CASE o.kind \in EndKinds
  <2>1. r = {[id |-> 1 + n, kind |-> o.kind, primary |-> o.kind = "keyerEndpoint" /\ o.primary]}
    <3>1. o.primary \in BOOLEAN
      BY <1>7 DEF Opening
    <3>2. CASE o.kind = "keyerEndpoint"
      BY <1>1, <1>5, <1>10, <3>1, <3>2 DEF Registers
    <3>3. CASE o.kind \in {"serial", "hamlib"}
      BY <1>5, <3>3 DEF Registers
    <3> QED
      BY <1>12, <3>2, <3>3 DEF EndKinds
  <2>2. PICK s : s = [id |-> 1 + n, kind |-> o.kind, primary |-> o.kind = "keyerEndpoint" /\ o.primary]
    OBVIOUS
  <2>3. s.id = n + 1 /\ (s.primary => o.primary) /\ new.sessions = me.sessions \cup {s}
    <3>1. s.id = n + 1 /\ s.primary = (o.kind = "keyerEndpoint" /\ o.primary)
      BY <1>9, <2>2
    <3>2. new.sessions = me.sessions \cup {s}
      BY <1>8, <2>1, <2>2
    <3> QED
      BY <3>1, <3>2
  <2>4. {t.id : t \in new.sessions} = 1 .. Cardinality(Ends(new.opened))
    BY <1>9, <1>12, <2>3, NextId
  <2>5. \A t \in new.sessions : t.primary => \E i \in DOMAIN new.opened : new.opened[i].primary
    <3>1. /\ \A i \in DOMAIN me.opened : i \in DOMAIN new.opened /\ new.opened[i] = me.opened[i]
          /\ Len(me.opened) + 1 \in DOMAIN new.opened /\ new.opened[Len(me.opened) + 1] = o
      <4>1. PICK x \in Seq(Opening) : x = me.opened
        BY <1>6
      <4>2. PICK y : y = Append(x, o)
        OBVIOUS
      <4>3. /\ \A i \in DOMAIN x : i \in DOMAIN y /\ y[i] = x[i]
            /\ Len(x) + 1 \in DOMAIN y /\ y[Len(x) + 1] = o
        BY <4>2
      <4>4. new.opened = y
        BY <1>8, <4>1, <4>2, Zenon
      <4> QED
        BY <4>1, <4>3, <4>4
    <3>2. \A t \in me.sessions : t.primary => \E i \in DOMAIN me.opened : me.opened[i].primary
      BY <1>2 DEF Serves
    <3> QED
      BY <2>3, <3>1, <3>2
  <2> QED
    BY <1>6, <1>7, <1>8, <1>11, <2>4, <2>5
<1>13. CASE o.kind \notin EndKinds
  <2>1. r = {}
    BY <1>5, <1>13 DEF Registers, EndKinds
  <2>2. \A t \in new.sessions : t.primary => \E i \in DOMAIN new.opened : new.opened[i].primary
    <3>1. \A i \in DOMAIN me.opened : i \in DOMAIN new.opened /\ new.opened[i] = me.opened[i]
      BY <1>6, <1>7, <1>8
    <3>2. \A t \in me.sessions : t.primary => \E i \in DOMAIN me.opened : me.opened[i].primary
      BY <1>2 DEF Serves
    <3> QED
      BY <1>8, <2>1, <3>1, <3>2
  <2>3. {t.id : t \in new.sessions} = 1 .. Cardinality(Ends(new.opened))
    BY <1>8, <1>9, <1>13, <2>1
  <2> QED
    BY <1>6, <1>7, <1>8, <1>11, <2>2, <2>3
<1> QED
  BY <1>12, <1>13

\* Only a daemon's own step changes it.
LEMMA SoundBecomes ==
  ASSUME DaemonsInv, ServingInv, NEW d \in Daemons, NEW state, Becomes(d, state), Sound(state)
  PROVE  ServingInv'
<1>1. \A k \in Daemons : daemon'[k] = IF k = d THEN state ELSE daemon[k]
  BY DEF Becomes, DaemonsInv
<1>2. SUFFICES ASSUME NEW k \in Daemons PROVE Sound(daemon[k])'
  BY DEF ServingInv
<1>3. Sound(daemon[k])
  BY DEF ServingInv
<1>4. PICK next : next = daemon'[k]
  OBVIOUS
<1>5. Sound(next)
  BY <1>1, <1>3, <1>4
<1> QED
  BY <1>4, <1>5 DEF Sound, Serves

\* Every step of a daemon keeps them serving what their settings call for.
LEMMA NextServing ==
  ASSUME FilesInv, DaemonsInv, ServingInv, [Next]_vars
  PROVE  ServingInv'
<1>1. \A d \in Daemons : Sound(daemon[d]) /\ DOMAIN daemon[d] = {"pc", "todo", "opened", "sessions"}
  BY DEF ServingInv, DaemonsInv
<1>2. ASSUME NEW d \in Daemons, NEW p \in Places, Start(d, p) PROVE ServingInv'
  <2>1. PICK c : c = Load(file[p].at, FALSE)
    OBVIOUS
  <2>2. file[p].at \in Whole \cup {NoFile}
    BY DEF FilesInv, FilesTyped, Files
  <2>3. CASE c = Absent
    <3>1. Becomes(d, [Off EXCEPT !.pc = "ended"])
      BY <1>2, <2>1, <2>3 DEF Start
    <3> QED
      BY <3>1, SoundOff, SoundBecomes
  <2>4. CASE c # Absent
    <3>1. Becomes(d, [Off EXCEPT !.pc = "opening", !.todo = Bringup(c)])
      BY <1>2, <2>1, <2>4 DEF Start
    <3>2. c \in Settings /\ Valid(c)
      BY <2>1, <2>2, <2>4, LoadedSettings, LoadedValid
    <3> QED
      BY <3>1, <3>2, SoundStart, SoundBecomes
  <2> QED
    BY <2>3, <2>4
<1>3. ASSUME NEW d \in Daemons, Open(d) PROVE ServingInv'
  <2>1. CASE Becomes(d, [Off EXCEPT !.pc = "ended"])
    BY <2>1, SoundOff, SoundBecomes
  <2>2. CASE ~Becomes(d, [Off EXCEPT !.pc = "ended"])
    <3>1. PICK new :
            /\ new = [daemon[d] EXCEPT !.todo = Tail(@), !.opened = Append(@, Head(daemon[d].todo)),
                                       !.sessions = @ \cup Registers(d, Head(daemon[d].todo),
                                                      1 + Cardinality(Ends(daemon[d].opened)))]
            /\ Becomes(d, new) /\ daemon[d].pc = "opening" /\ daemon[d].todo # <<>>
      BY <1>3, <2>2 DEF Open, Ends, EndKinds
    <3>2. Sound(new)
      BY <1>1, <3>1, SoundOpen
    <3> QED
      BY <3>1, <3>2, SoundBecomes, SMTT(40)
  <2> QED
    BY <2>1, <2>2, SMTT(40)
<1>4. ASSUME NEW d \in Daemons, NEW pc \in Running, Becomes(d, [daemon[d] EXCEPT !.pc = pc]),
             (daemon[d].pc = "opening" /\ daemon[d].todo = <<>>) \/ daemon[d].pc \in Running \ {"opening"}
      PROVE  ServingInv'
  <2>1. daemon[d].todo = <<>> /\ daemon[d].pc \in Running
    BY <1>1, <1>4 DEF Sound, Serves, Running
  <2>2. Sound([daemon[d] EXCEPT !.pc = pc])
    BY <1>1, <2>1, SoundPhases
  <2> QED
    BY <1>4, <2>2, SoundBecomes
<1>5. ASSUME NEW d \in Daemons, Publish(d) \/ Quit(d) PROVE ServingInv'
  <2>1. \/ Becomes(d, [Off EXCEPT !.pc = "ended"])
        \/ /\ \E pc \in Running : Becomes(d, [daemon[d] EXCEPT !.pc = pc])
           /\ (daemon[d].pc = "opening" /\ daemon[d].todo = <<>>) \/ daemon[d].pc \in Running \ {"opening"}
    BY <1>5 DEF Publish, Quit, Running
  <2> QED
    BY <1>4, <2>1, SoundOff, SoundBecomes
<1>6. ASSUME NEW d \in Daemons, Kill(d) PROVE ServingInv'
  BY <1>6, SoundOff, SoundBecomes DEF Kill
<1>7. CASE UNCHANGED daemon
  BY <1>7 DEF ServingInv
<1>8. CASE \/ \E force, remove \in BOOLEAN : Migrate(force, remove)
           \/ WriteTemporary \/ KeepBackup \/ NeedsNone \/ Unlink \/ Rename \/ BackupSource \/ Abandon
           \/ \E c \in Settings : Edit(c)
           \/ Tidy
  BY <1>7, <1>8 DEF Migrate, WriteTemporary, KeepBackup, NeedsNone, Unlink, Rename, BackupSource,
                    Abandon, Edit, Tidy, At, OnFiles, NoDaemon
<1> QED
  BY <1>2, <1>3, <1>5, <1>6, <1>7, <1>8 DEF Next, vars

\* As many ids as endpoints are open.
LEMMA ServingEnough == ServingInv => EndpointsServed
<1> SUFFICES ASSUME ServingInv, NEW d \in Daemons, daemon[d].pc \in {"publishing", "up"}
             PROVE  Cardinality({s.id : s \in daemon[d].sessions}) = Cardinality(Ends(daemon[d].opened))
  BY DEF EndpointsServed, Ends, EndKinds
<1>1. PICK c \in Settings : Serves(daemon[d], c)
  BY DEF ServingInv, Sound, Running
<1>2. PICK n : n = Cardinality(Ends(daemon[d].opened))
  OBVIOUS
<1>3. n \in Nat /\ {s.id : s \in daemon[d].sessions} = 1 .. n
  <2>1. PICK o \in Seq(Opening) : o = daemon[d].opened
    BY <1>1 DEF Serves
  <2>2. IsFiniteSet(Ends(o)) /\ Cardinality(Ends(o)) \in Nat
    <3>1. IsFiniteSet(1 .. Len(o)) /\ Ends(o) \subseteq 1 .. Len(o)
      BY FS_Interval DEF Ends
    <3>2. IsFiniteSet(Ends(o))
      BY <3>1, FS_Subset
    <3> QED
      BY <3>2, FS_CardinalityType
  <2> QED
    BY <1>1, <1>2, <2>1, <2>2 DEF Serves
<1>4. Cardinality(1 .. n) = n
  BY <1>3, FS_Interval
<1> QED
  BY <1>2, <1>3, <1>4

------------------------------------------------------------------------------
\* What a step of one daemon makes of all.
LEMMA OneBecomes ==
  ASSUME DaemonsInv, NEW d \in Daemons, NEW state, Becomes(d, state)
  PROVE  \A k \in Daemons : daemon'[k] = IF k = d THEN state ELSE daemon[k]
BY DEF Becomes, DaemonsInv

\* A daemon that removes the file has read its own name in it: what it removes is its
\* own, nobody's, or that of one that published after it had read.
Crossing ==
  \A d, k \in Daemons : daemon[d].pc = "removing" /\ daemon[k].pc = "up" => k \in crossed

\* The daemon that reads its own name is the only one up that is not crossed.
LEMMA NextInfo ==
  ASSUME DaemonsInv, Crossing, InfoTrue, [Next]_vars
  PROVE  Crossing' /\ InfoTrue'
<1>1. \A d \in Daemons : DOMAIN daemon[d] = {"pc", "todo", "opened", "sessions"}
  BY DEF DaemonsInv
<1>2. (info # Nobody => info \in Daemons) /\ Nobody \notin Daemons
  BY SetupAssumption DEF DaemonsInv
\* A step that leaves the file alone, and the phase is none in which it matters.
<1>3. ASSUME NEW d \in Daemons, NEW state, Becomes(d, state), UNCHANGED <<info, crossed>>,
             killed' = killed \/ killed' = killed \cup {d},
             state.pc \notin {"up", "removing"}, info = d => d \in killed'
      PROVE  Crossing' /\ InfoTrue'
  <2>1. \A k \in Daemons : daemon'[k] = IF k = d THEN state ELSE daemon[k]
    BY <1>3, OneBecomes
  <2>2. \A k \in Daemons : daemon'[k].pc \in {"up", "removing"} => k # d /\ daemon'[k].pc = daemon[k].pc
    BY <1>3, <2>1
  <2>3. Crossing'
    BY <1>3, <2>2 DEF Crossing
  <2>4. info' # Nobody => daemon'[info'].pc \in {"up", "removing"} \/ info' \in killed'
    <3>1. CASE info = d
      BY <1>3, <3>1
    <3>2. CASE info # d /\ info # Nobody
      BY <1>2, <1>3, <2>1, <3>2 DEF InfoTrue
    <3> QED
      BY <1>3, <3>1, <3>2
  <2> QED
    BY <1>3, <2>2, <2>3, <2>4 DEF InfoTrue
<1>4. ASSUME NEW d \in Daemons, daemon[d].pc \notin {"up", "removing"} PROVE info = d => d \in killed
  BY <1>2, <1>4 DEF InfoTrue
<1>5. ASSUME NEW d \in Daemons, NEW p \in Places, Start(d, p) PROVE Crossing' /\ InfoTrue'
  <2>1. daemon[d].pc = "off"
    BY <1>5 DEF Start, Off
  <2>2. PICK state : /\ Becomes(d, state) /\ state.pc \notin {"up", "removing"}
                     /\ UNCHANGED <<info, crossed, killed>>
    BY <1>5 DEF Start, Off
  <2> QED
    BY <1>3, <1>4, <2>1, <2>2
<1>6. ASSUME NEW d \in Daemons, Open(d) PROVE Crossing' /\ InfoTrue'
  <2>1. daemon[d].pc = "opening"
    BY <1>6 DEF Open
  <2>2. PICK state : /\ Becomes(d, state) /\ state.pc \notin {"up", "removing"}
                     /\ UNCHANGED <<info, crossed, killed>>
    BY <1>1, <1>6, <2>1 DEF Open, Off
  <2> QED
    BY <1>3, <1>4, <2>1, <2>2
<1>7. ASSUME NEW d \in Daemons, Publish(d) PROVE Crossing' /\ InfoTrue'
  <2>1. killed' = killed /\ daemon[d].pc \in {"opening", "clearing", "publishing"}
    BY <1>7 DEF Publish
  <2>2. CASE /\ daemon[d].pc = "clearing" /\ info # Nobody
             /\ info' = Nobody /\ Becomes(d, [daemon[d] EXCEPT !.pc = "publishing"])
             /\ crossed' = crossed \cup {info}
    <3>1. PICK state : Becomes(d, state) /\ state.pc = "publishing"
      BY <1>1, <2>2
    <3>2. \A k \in Daemons : daemon'[k].pc \in {"up", "removing"} => k # d /\ daemon'[k].pc = daemon[k].pc
      BY <3>1, OneBecomes
    <3>3. Crossing'
      BY <2>2, <3>2 DEF Crossing
    <3> QED
      BY <2>2, <3>2, <3>3 DEF InfoTrue
  <2>3. CASE /\ daemon[d].pc = "publishing" /\ info' = d
             /\ Becomes(d, [daemon[d] EXCEPT !.pc = "up"])
             /\ crossed' = crossed \cup ({info} \ {Nobody})
                                  \cup {k \in {d} : \E e \in Daemons : daemon[e].pc = "removing"}
    <3>1. PICK state : Becomes(d, state) /\ state.pc = "up"
      BY <1>1, <2>3
    <3>2. /\ daemon'[d].pc = "up"
          /\ \A k \in Daemons : k # d => daemon'[k].pc = daemon[k].pc
      BY <3>1, OneBecomes
    <3>3. crossed \subseteq crossed' /\ (info # Nobody => info \in crossed')
          /\ (d \in crossed' \/ \A e \in Daemons : daemon[e].pc # "removing")
      BY <2>3
    <3>4. Crossing'
      BY <3>2, <3>3 DEF Crossing
    <3>5. ASSUME NEW k \in Daemons, daemon'[k].pc = "up" PROVE info' = k \/ k \in crossed'
      <4>1. CASE k = d
        BY <2>3, <4>1
      <4>2. CASE k # d
        <5>1. info = k \/ k \in crossed
          BY <1>2, <3>2, <3>5, <4>2 DEF InfoTrue
        <5> QED
          BY <1>2, <3>3, <5>1
      <4> QED
        BY <4>1, <4>2
    <3> QED
      BY <2>3, <3>2, <3>4, <3>5 DEF InfoTrue
  <2>4. CASE \E state : Becomes(d, state) /\ state.pc \notin {"up", "removing"} /\ UNCHANGED <<info, crossed>>
    BY <1>3, <1>4, <2>1, <2>4
  <2>5. ASSUME NEW pc \in {"clearing", "publishing"}
        PROVE  [daemon[d] EXCEPT !.pc = pc].pc \notin {"up", "removing"}
    BY <1>1, <2>5
  <2>6. [Off EXCEPT !.pc = "ended"].pc = "ended"
    BY DEF Off
  <2> QED
    BY <1>7, <2>2, <2>3, <2>4, <2>5, <2>6 DEF Publish
<1>8. ASSUME NEW d \in Daemons, Quit(d) PROVE Crossing' /\ InfoTrue'
  <2>1. UNCHANGED <<killed, crossed>>
    BY <1>8 DEF Quit
  <2>2. CASE daemon[d].pc = "up" /\ UNCHANGED info /\ info = d
             /\ Becomes(d, [daemon[d] EXCEPT !.pc = "removing"])
    <3>1. PICK state : Becomes(d, state) /\ state.pc = "removing"
      BY <1>1, <2>2
    <3>2. /\ daemon'[d].pc = "removing"
          /\ \A k \in Daemons : k # d => daemon'[k].pc = daemon[k].pc
      BY <3>1, OneBecomes
    <3>3. \A k \in Daemons : daemon'[k].pc = "up" => k # d /\ k \in crossed
      BY <2>2, <3>2 DEF InfoTrue
    <3> QED
      BY <2>1, <2>2, <3>2, <3>3 DEF InfoTrue, Crossing
  <2>3. CASE daemon[d].pc = "up" /\ UNCHANGED info /\ info # d
             /\ Becomes(d, [daemon[d] EXCEPT !.pc = "exiting"])
    <3>1. PICK state : Becomes(d, state) /\ state.pc = "exiting"
      BY <1>1, <2>3
    <3> QED
      BY <1>3, <2>1, <2>3, <3>1
  <2>4. CASE daemon[d].pc = "removing" /\ info' = Nobody
             /\ Becomes(d, [daemon[d] EXCEPT !.pc = "exiting"])
    <3>1. PICK state : Becomes(d, state) /\ state.pc = "exiting"
      BY <1>1, <2>4
    <3>2. \A k \in Daemons : daemon'[k].pc \in {"up", "removing"} => k # d /\ daemon'[k].pc = daemon[k].pc
      BY <3>1, OneBecomes
    <3>3. \A k \in Daemons : daemon'[k].pc = "up" => k \in crossed
      BY <2>4, <3>2 DEF Crossing
    <3> QED
      BY <2>1, <2>4, <3>2, <3>3 DEF InfoTrue, Crossing
  <2>5. CASE daemon[d].pc = "exiting" /\ UNCHANGED info /\ Becomes(d, [Off EXCEPT !.pc = "ended"])
    <3>1. PICK state : Becomes(d, state) /\ state.pc = "ended"
      BY <2>5 DEF Off
    <3> QED
      BY <1>3, <1>4, <2>1, <2>5, <3>1
  <2> QED
    BY <1>8, <2>2, <2>3, <2>4, <2>5 DEF Quit
<1>9. ASSUME NEW d \in Daemons, Kill(d) PROVE Crossing' /\ InfoTrue'
  <2>1. PICK state : /\ Becomes(d, state) /\ state.pc = "ended" /\ UNCHANGED <<info, crossed>>
                     /\ killed' = killed \cup {d}
    BY <1>9 DEF Kill, Off
  <2> QED
    BY <1>3, <2>1
<1>10. CASE UNCHANGED <<daemon, info, killed, crossed>>
  BY <1>10 DEF InfoTrue, Crossing
<1>11. CASE \/ \E force, remove \in BOOLEAN : Migrate(force, remove)
            \/ WriteTemporary \/ KeepBackup \/ NeedsNone \/ Unlink \/ Rename \/ BackupSource \/ Abandon
            \/ \E c \in Settings : Edit(c)
            \/ Tidy
  BY <1>10, <1>11 DEF Migrate, WriteTemporary, KeepBackup, NeedsNone, Unlink, Rename, BackupSource,
                      Abandon, Edit, Tidy, At, OnFiles, NoDaemon
<1> QED
  BY <1>5, <1>6, <1>7, <1>8, <1>9, <1>10, <1>11 DEF Next, vars

\* No daemon runs at first.
LEMMA InitDaemons == Init => DaemonsInv /\ ServingInv /\ Crossing /\ InfoTrue
<1> SUFFICES ASSUME Init PROVE DaemonsInv /\ ServingInv /\ Crossing /\ InfoTrue
  OBVIOUS
<1>1. \A d \in Daemons : daemon[d] = Off
  BY DEF Init
<1>2. DaemonsInv
  BY DEF Init, DaemonsInv, Off, Phases
<1>3. ServingInv
  BY <1>1, SoundOff DEF ServingInv
<1>4. Off.opened = <<>> /\ DOMAIN <<>> = {} /\ Off.pc = "off"
  BY DEF Off
<1>5. Crossing /\ InfoTrue
  BY <1>1, <1>4 DEF Crossing, InfoTrue, Init
<1> QED
  BY <1>2, <1>3, <1>5

\* A daemon that has started has registered a session, under an id of its own, for
\* every endpoint its settings name: validate_winkeyer let one be primary at most, so
\* the broker refuses none.
THEOREM DaemonServesEndpoints == Spec => []EndpointsServed
<1>1. Init => FilesInv /\ DaemonsInv /\ ServingInv
  BY InitFiles, InitDaemons
<1>2. FilesInv /\ DaemonsInv /\ ServingInv /\ [Next]_vars => (FilesInv /\ DaemonsInv /\ ServingInv)'
  BY NextFiles, NextDaemons, NextServing
<1> QED
  BY <1>1, <1>2, ServingEnough, PTL DEF Spec

\* However many daemons of whatever configurations run, end, fail or are killed beside
\* each other: the runtime info names one that is up, one that ends, or one that was
\* killed and could not remove it; and one that is up is named unless another has
\* published after it, or it published while another was about to remove its own.
THEOREM InfoNamesDaemon == Spec => []InfoTrue
<1>1. Init => DaemonsInv /\ Crossing /\ InfoTrue
  BY InitDaemons
<1>2. DaemonsInv /\ Crossing /\ InfoTrue /\ [Next]_vars => (DaemonsInv /\ Crossing /\ InfoTrue)'
  BY NextDaemons, NextInfo
<1> QED
  BY <1>1, <1>2, PTL DEF Spec
=============================================================================

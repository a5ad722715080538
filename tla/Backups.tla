------------------------------ MODULE Backups ------------------------------
(***************************************************************************)
(* The backups of panel-core and the master key that they are encrypted    *)
(* with.                                                                   *)
(*                                                                         *)
(* CreateBackup of internal/backup/backup.go reads panel.db as a file,     *)
(* beside a connection in WAL mode that goes on writing: a commit goes to  *)
(* panel.db-wal and reaches panel.db only when SQLite makes a checkpoint,  *)
(* page by page.  It then asks the connection for the stack definitions,   *)
(* encrypts both and writes them to a file named after the second.         *)
(* loadOrCreateKey of internal/secrets/crypto.go reads the key when the    *)
(* core starts, or makes one.                                              *)
(*                                                                         *)
(* The content of a page is the number of the last commit that wrote it.   *)
(***************************************************************************)
EXTENDS Naturals, Sequences

CONSTANTS
  Reqs,        \* slots for backups in progress; bounds the concurrency
  NumPages,    \* pages of the database
  StacksPage,  \* the page that the stacks table is on
  MaxCommits,  \* bounds the commits
  MaxKeys,     \* bounds the keys that are made
  LastSecond,  \* bounds the clock
  NoImage, NoDefs, NoArchive, Broken

ASSUME BackupsAssumption ==
  /\ NumPages \in Nat
  /\ StacksPage \in 1..NumPages
  /\ MaxCommits \in Nat
  /\ MaxKeys \in Nat
  /\ LastSecond \in Nat \ {0}
  /\ NoDefs \notin 0..MaxCommits
  /\ NoImage \notin [1..NumPages -> 0..MaxCommits]
  /\ NoArchive # Broken

Pages == 1..NumPages

VARIABLES
  history,   \* the database after each commit
  mainFile,  \* panel.db
  copying,   \* the page that a checkpoint copies next, 0 if there is none
  keyFile,   \* the key in master.key, 0 if it is missing or too short
  issued,    \* how many keys have been made
  core,      \* "down", "keyless" while it writes a new key, or "up"
  key,       \* the key that the core works with
  second,    \* the clock
  archives,  \* the files of the backup directory, by the second they are named after
  pc,        \* where each request is
  part,      \* what each request has
  promised,  \* the files of backups that were answered with success
  mishaps    \* what the properties except

database == <<history, mainFile, copying>>
secrets == <<keyFile, issued, core, key>>
files == <<archives, promised>>
vars == <<database, secrets, second, files, pc, part, mishaps>>

-----------------------------------------------------------------------------
(* Types *)

Image == [Pages -> 0..MaxCommits]
Definitions == 0..MaxCommits \cup {NoDefs}
Archive == [image : Image \cup {NoImage}, defs : Definitions, key : 1..MaxKeys]

ASSUME FilesAssumption == Archive \cap {NoArchive, Broken} = {}

\* idle         the slot is free
\* database     os.ReadFile of panel.db, a page at a time
\* definitions  GetAllStacks is next
\* encrypt      Encrypt is next, and the opening of the file
\* write        the file is open, truncated and not yet written
Stages == {"idle", "database", "definitions", "encrypt", "write"}

\* asked is the length of history when the backup was asked for, next the page to read.
Work ==
  [name : 1..LastSecond, asked : 0..MaxCommits + 1, next : 1..NumPages + 1,
   image : Image \cup {NoImage}, defs : Definitions]
NoWork == [name |-> 1, asked |-> 0, next |-> 1, image |-> NoImage, defs |-> NoDefs]

Mishaps == {"key_unreadable", "same_second", "checkpoint_read", "checkpoint_cut"}

TypeOK ==
  /\ history \in Seq(Image) /\ Len(history) \in 1..MaxCommits + 1
  /\ mainFile \in Image
  /\ copying \in 0..NumPages
  /\ keyFile \in 0..MaxKeys
  /\ issued \in 0..MaxKeys
  /\ core \in {"down", "keyless", "up"}
  /\ key \in 0..MaxKeys
  /\ second \in 1..LastSecond
  /\ archives \in [1..LastSecond -> Archive \cup {NoArchive, Broken}]
  /\ pc \in [Reqs -> Stages]
  /\ part \in [Reqs -> Work]
  /\ promised \in SUBSET (1..LastSecond)
  /\ mishaps \in SUBSET Mishaps

Current == history[Len(history)]
Goto(r, stage) == pc' = [pc EXCEPT ![r] = stage]

\* Request r ends, with an answer or without.
Finish(r) ==
  /\ Goto(r, "idle")
  /\ part' = [part EXCEPT ![r] = NoWork]

\* A core that has never run: an empty database, no backup and no key.
Init ==
  /\ mainFile = [p \in Pages |-> 0]
  /\ history = <<mainFile>>
  /\ copying = 0
  /\ keyFile = 0
  /\ issued = 0
  /\ core = "down"
  /\ key = 0
  /\ second = 1
  /\ archives = [n \in 1..LastSecond |-> NoArchive]
  /\ pc = [r \in Reqs |-> "idle"]
  /\ part = [r \in Reqs |-> NoWork]
  /\ promised = {}
  /\ mishaps = {}

-----------------------------------------------------------------------------
(* Mutants: one mistake each, used by no specification. *)

\* The key is used although it could not be written.
CreateKeyUnwritten ==
  /\ core = "down"
  /\ keyFile = 0
  /\ issued < MaxKeys
  /\ issued' = issued + 1
  /\ key' = issued + 1
  /\ core' = "up"
  /\ UNCHANGED <<database, keyFile, second, files, pc, part, mishaps>>

\* The definitions are those of when the request came.
ReadDefinitionsEarly(r) ==
  /\ pc[r] = "definitions"
  /\ copying = 0
  /\ part' = [part EXCEPT ![r].defs = history[part[r].asked][StacksPage]]
  /\ Goto(r, "encrypt")
  /\ UNCHANGED <<database, secrets, second, files, mishaps>>

\* The definitions are those of the copy of panel.db, not of the connection.
ReadDefinitionsFromFile(r) ==
  /\ pc[r] = "definitions"
  /\ copying = 0
  /\ part' = [part EXCEPT ![r].defs = mainFile[StacksPage]]
  /\ Goto(r, "encrypt")
  /\ UNCHANGED <<database, secrets, second, files, mishaps>>

\* The connection is not in WAL mode.
CommitInPlace ==
  /\ core = "up"
  /\ copying = 0
  /\ Len(history) <= MaxCommits
  /\ \E written \in SUBSET Pages \ {{}} :
       history' = Append(history, [p \in Pages |-> IF p \in written THEN Len(history) ELSE Current[p]])
  /\ mainFile' = Current'
  /\ UNCHANGED <<copying, secrets, second, files, pc, part, mishaps>>

-----------------------------------------------------------------------------
(* The database *)

\* Some handler writes, a transaction at a time.
Commit ==
  /\ core = "up"
  /\ copying = 0
  /\ Len(history) <= MaxCommits
  /\ \E written \in SUBSET Pages \ {{}} :
       history' = Append(history, [p \in Pages |-> IF p \in written THEN Len(history) ELSE Current[p]])
  /\ UNCHANGED <<mainFile, copying, secrets, second, files, pc, part, mishaps>>

\* The log has become long: the connection that wrote last copies it into panel.db.
BeginCheckpoint ==
  /\ core = "up"
  /\ copying = 0
  /\ mainFile # Current
  /\ copying' = 1
  /\ UNCHANGED <<history, mainFile, secrets, second, files, pc, part, mishaps>>

HalfRead(r) == pc[r] = "database" /\ part[r].next > 1

CopyPage ==
  /\ copying > 0
  /\ mainFile' = [mainFile EXCEPT ![copying] = Current[copying]]
  /\ copying' = IF copying = NumPages THEN 0 ELSE copying + 1
  /\ mishaps' = IF \E r \in Reqs : HalfRead(r) THEN mishaps \cup {"checkpoint_read"} ELSE mishaps
  /\ UNCHANGED <<history, secrets, second, files, pc, part>>

-----------------------------------------------------------------------------
(* The core and its key *)

\* loadOrCreateKey finds a key of the right length.
LoadKey ==
  /\ core = "down"
  /\ keyFile > 0
  /\ key' = keyFile
  /\ core' = "up"
  /\ UNCHANGED <<database, keyFile, issued, second, files, pc, part, mishaps>>

\* It finds none, or cannot read the one there is, and makes another: the file is
\* truncated first.
CreateKey ==
  /\ core = "down"
  /\ issued < MaxKeys
  /\ issued' = issued + 1
  /\ key' = issued + 1
  /\ keyFile' = 0
  /\ core' = "keyless"
  /\ mishaps' = IF keyFile > 0 THEN mishaps \cup {"key_unreadable"} ELSE mishaps
  /\ UNCHANGED <<database, second, files, pc, part>>

WriteKey ==
  /\ core = "keyless"
  /\ keyFile' = key
  /\ core' = "up"
  /\ UNCHANGED <<database, issued, key, second, files, pc, part, mishaps>>

\* The core ends, with all its requests; the log survives.
Die ==
  /\ core # "down"
  /\ core' = "down"
  /\ key' = 0
  /\ pc' = [r \in Reqs |-> "idle"]
  /\ part' = [r \in Reqs |-> NoWork]
  /\ copying' = 0
  /\ UNCHANGED <<history, keyFile, issued, second, files>>

\* By a crash, or by log.Fatalf because the key cannot be written.
Crash ==
  /\ Die
  /\ mishaps' = IF copying > 1 THEN mishaps \cup {"checkpoint_cut"} ELSE mishaps
  /\ UNCHANGED mainFile

\* By a signal: closing the last connection makes a checkpoint.
Stop ==
  /\ core = "up"
  /\ copying = 0
  /\ Die
  /\ mainFile' = Current
  /\ UNCHANGED mishaps

Tick ==
  /\ second < LastSecond
  /\ second' = second + 1
  /\ UNCHANGED <<database, secrets, files, pc, part, mishaps>>

-----------------------------------------------------------------------------
(* CreateBackup *)

\* handleCreateBackup: the name is settled first.
BeginBackup(r) ==
  /\ core = "up"
  /\ pc[r] = "idle"
  /\ part' = [part EXCEPT ![r] = [NoWork EXCEPT !.name = second, !.asked = Len(history),
                                                !.image = [p \in Pages |-> 0]]]
  /\ Goto(r, "database")
  /\ UNCHANGED <<database, secrets, second, files, mishaps>>

\* The next page as it is now.
ReadPage(r) ==
  /\ pc[r] = "database"
  /\ LET p == part[r].next
     IN  /\ part' = [part EXCEPT ![r].image[p] = mainFile[p], ![r].next = p + 1]
         /\ IF p = NumPages THEN Goto(r, "definitions") ELSE UNCHANGED pc
  /\ mishaps' = IF copying > 1 THEN mishaps \cup {"checkpoint_read"} ELSE mishaps
  /\ UNCHANGED <<database, secrets, second, files>>

\* panel.db cannot be read: the backup goes on without it.
ReadFileFails(r) ==
  /\ pc[r] = "database"
  /\ part' = [part EXCEPT ![r].image = NoImage, ![r].next = 1]
  /\ Goto(r, "definitions")
  /\ UNCHANGED <<database, secrets, second, files, mishaps>>

\* GetAllStacks, through the connection.
ReadDefinitions(r) ==
  /\ pc[r] = "definitions"
  /\ copying = 0
  /\ part' = [part EXCEPT ![r].defs = Current[StacksPage]]
  /\ Goto(r, "encrypt")
  /\ UNCHANGED <<database, secrets, second, files, mishaps>>

\* It fails: the backup goes on without definitions.
ReadDefinitionsFails(r) ==
  /\ pc[r] = "definitions"
  /\ Goto(r, "encrypt")
  /\ UNCHANGED <<database, secrets, second, files, part, mishaps>>

\* The archive is encrypted and os.WriteFile truncates its file.
OpenFile(r) ==
  /\ pc[r] = "encrypt"
  /\ archives' = [archives EXCEPT ![part[r].name] = Broken]
  /\ mishaps' = IF archives[part[r].name] # NoArchive THEN mishaps \cup {"same_second"} ELSE mishaps
  /\ Goto(r, "write")
  /\ UNCHANGED <<database, secrets, second, promised, part>>

\* It writes and answers.  Where another backup has written since, what is longer of it stays.
WriteFile(r) ==
  /\ pc[r] = "write"
  /\ LET n == part[r].name
         mine == [image |-> part[r].image, defs |-> part[r].defs, key |-> key]
     IN  /\ archives' \in {[archives EXCEPT ![n] = mine]} \cup
                          (IF archives[n] = Broken THEN {} ELSE {[archives EXCEPT ![n] = Broken]})
         /\ promised' = promised \cup {n}
  /\ Finish(r)
  /\ UNCHANGED <<database, secrets, second, mishaps>>

\* Encryption, the opening of the file or the write fails; what was written stays.
BackupFails(r) ==
  /\ pc[r] \in {"encrypt", "write"}
  /\ Finish(r)
  /\ UNCHANGED <<database, secrets, second, files, mishaps>>

-----------------------------------------------------------------------------
Next ==
  \/ Commit \/ BeginCheckpoint \/ CopyPage
  \/ LoadKey \/ CreateKey \/ WriteKey \/ Crash \/ Stop \/ Tick
  \/ \E r \in Reqs :
       \/ BeginBackup(r) \/ ReadPage(r) \/ ReadFileFails(r)
       \/ ReadDefinitions(r) \/ ReadDefinitionsFails(r)
       \/ OpenFile(r) \/ WriteFile(r) \/ BackupFails(r)

Spec == Init /\ [][Next]_vars

-----------------------------------------------------------------------------
(* Properties *)

Whole(n) == archives[n] \notin {NoArchive, Broken}

\* A backup that was answered with success can be opened with master.key for ever, whatever
\* crashes come while keys and archives are written (crypto.go:31-55, backup.go:126-139).
\* Excepted are a key that is there and cannot be read, which the core replaces, and two
\* backups of one second, which share a file.
KeptBackupsOpen ==
  mishaps \cap {"key_unreadable", "same_second"} = {} =>
    \A n \in promised : Whole(n) /\ archives[n].key = keyFile

\* The definitions in an archive are no older than the stacks table in it, so that nothing
\* the database knows is missing there (backup.go:57-94).
RightDefinitions(a) ==
  a.image # NoImage /\ a.defs # NoDefs => a.defs >= a.image[StacksPage]
DefinitionsFollow == \A n \in 1..LastSecond : Whole(n) => RightDefinitions(archives[n])

\* Where the stacks can be read, their definitions in a backup have every commit that was
\* there when it was asked for, whatever is committed, copied or stopped meanwhile: they
\* come through the connection, which sees the log (backup.go:69-94).
DefinitionsAreCurrent ==
  \A r \in Reqs :
    pc[r] \in {"encrypt", "write"} /\ part[r].defs # NoDefs =>
      part[r].defs >= history[part[r].asked][StacksPage]

\* What was answered with success is on disk as it was written, whole, and nothing ever
\* touches it again, neither another backup nor the end of the core nor a new key, as long
\* as no two backups share a second (backup.go:50, 132-147).
PromisedAreWhole == "same_second" \notin mishaps => \A n \in promised : Whole(n)
KeptBackupsStay ==
  [][\A n \in promised :
       /\ n \in promised'
       /\ "same_second" \notin mishaps' => archives'[n] = archives[n]]_vars

\* The database in an archive is one that was there after some commit, unless a checkpoint
\* was copying pages while it was read, or was cut short by a crash (backup.go:58).
WasCurrent(image) == \E i \in 1..Len(history) : image = history[i]
RightImage(a) == a.image # NoImage => WasCurrent(a.image)
ImagesAreStates ==
  mishaps \cap {"checkpoint_read", "checkpoint_cut"} = {} =>
    \A n \in 1..LastSecond : Whole(n) => RightImage(archives[n])

\* README.md:85, "backups containing database and stack definitions": where panel.db can be
\* read, the archive of a backup has every commit that was there when it was asked for.  It
\* does not hold: what is in panel.db-wal is in no archive.
ContainsDatabase ==
  [][\A r \in Reqs :
       WriteFile(r) /\ part[r].image # NoImage =>
         \A p \in Pages : part[r].image[p] >= history[part[r].asked][p]]_vars
=============================================================================

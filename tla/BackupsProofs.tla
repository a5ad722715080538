--------------------------- MODULE BackupsProofs ---------------------------
(***************************************************************************)
(* Theorems about Backups.  IInv follows what a request has read on its    *)
(* way to the archive, and says who holds the key meanwhile.               *)
(***************************************************************************)
EXTENDS Backups, TLAPS

\* Whoever works has the key of the file; who makes one has emptied it.
KeyHeld ==
  /\ core = "up" => key = keyFile
  /\ core = "keyless" => keyFile = 0
  /\ core # "down" => key > 0
  /\ \A r \in Reqs : pc[r] # "idle" => core = "up"

\* A request that reads has a page to read, and no definitions yet.
Reading ==
  \A r \in Reqs :
    /\ pc[r] = "database" => part[r].next \in Pages /\ part[r].image \in Image
    /\ pc[r] \in {"database", "definitions"} => part[r].defs = NoDefs

\* Pages only get newer, panel.db later than the log.
PagesGrow == \A p \in Pages : mainFile[p] <= Current[p] /\ Current[p] < Len(history)

Advances == \A p \in Pages : Current[p] <= Current'[p]

\* What was read is no newer than the database, nor, in the end, than the definitions.
ReadFollows(r) ==
  /\ pc[r] \in {"database", "definitions"} /\ part[r].image # NoImage =>
       \A p \in Pages : part[r].image[p] <= Current[p]
  /\ pc[r] \in {"encrypt", "write"} => RightDefinitions(part[r])
ReadsFollow == \A r \in Reqs : ReadFollows(r)

\* No page of an earlier state is newer than the last.
HistoryGrows == \A i \in 1..Len(history), p \in Pages : history[i][p] <= Current[p]

\* A backup was asked for at a commit that was made, and its definitions are as new.
AskedFor(r) ==
  /\ pc[r] # "idle" => part[r].asked \in 1..Len(history)
  /\ pc[r] \in {"encrypt", "write"} /\ part[r].defs # NoDefs =>
       part[r].defs >= history[part[r].asked][StacksPage]
AskedIsKnown == \A r \in Reqs : AskedFor(r)

\* An open file is empty and has one writer, unless backups share a second.
OpenFiles ==
  "same_second" \notin mishaps =>
    \A r \in Reqs : pc[r] = "write" =>
      /\ archives[part[r].name] = Broken
      /\ \A q \in Reqs \ {r} : pc[q] = "write" => part[q].name # part[r].name

\* No checkpoint has met a reader or a crash.
Undisturbed == mishaps \cap {"checkpoint_read", "checkpoint_cut"} = {}

\* Between checkpoints panel.db is a former state; during one its first pages are new.
FileIsState ==
  Undisturbed =>
    /\ copying <= 1 => WasCurrent(mainFile)
    /\ \A p \in Pages : p < copying => mainFile[p] = Current[p]

\* Nothing is copied under a reader, so that what it has is what is there.
ReadIsState(r) ==
  /\ HalfRead(r) =>
       /\ copying <= 1
       /\ \A p \in Pages : p < part[r].next => part[r].image[p] = mainFile[p]
  /\ pc[r] \in {"definitions", "encrypt", "write"} => RightImage(part[r])
ReadsAreStates == Undisturbed => \A r \in Reqs : ReadIsState(r)

IInv ==
  /\ TypeOK
  /\ KeyHeld
  /\ Reading
  /\ PagesGrow
  /\ ReadsFollow
  /\ HistoryGrows
  /\ AskedIsKnown
  /\ OpenFiles
  /\ FileIsState
  /\ ReadsAreStates
  /\ KeptBackupsOpen
  /\ DefinitionsFollow
  /\ ImagesAreStates

\* The slot of a request that is not under way.
LEMMA NothingDone == NoWork \in Work
  BY BackupsAssumption DEF NoWork, Work, Definitions, Pages

\* The last image is one.
LEMMA CurrentIsImage ==
  ASSUME TypeOK
  PROVE  Current \in Image /\ Len(history) \in 1..MaxCommits + 1
  BY DEF TypeOK, Current

\* A commit adds an image to the end.
LEMMA CommitAppends ==
  ASSUME TypeOK, Commit
  PROVE  /\ history' \in Seq(Image)
         /\ Len(history') = Len(history) + 1
         /\ Len(history') \in 1..MaxCommits + 1
         /\ \A i \in 1..Len(history) : history'[i] = history[i]
         /\ \A p \in Pages : Current'[p] \in {Current[p], Len(history)}
<1>1. PICK written \in SUBSET Pages :
        history' = Append(history, [p \in Pages |-> IF p \in written THEN Len(history) ELSE Current[p]])
  BY DEF Commit
<1> DEFINE new == [p \in Pages |-> IF p \in written THEN Len(history) ELSE Current[p]]
<1>2. Len(history) \in 1..MaxCommits
  BY CurrentIsImage, BackupsAssumption DEF Commit
<1>3. new \in Image
  BY <1>2, CurrentIsImage DEF Image
<1>4. history \in Seq(Image)
  BY DEF TypeOK
<1>5. history' = Append(history, new)
  BY <1>1
<1> HIDE DEF new
<1>6. /\ history' \in Seq(Image)
      /\ Len(history') = Len(history) + 1
      /\ history'[Len(history) + 1] = new
      /\ \A i \in 1..Len(history) : history'[i] = history[i]
  BY <1>3, <1>4, <1>5
<1>7. Current' = new
  BY <1>6 DEF Current
<1>8. QED
  BY <1>2, <1>6, <1>7, BackupsAssumption DEF new

\* The parts of what a request has.
LEMMA WorkColumns ==
  ASSUME NEW w \in Work
  PROVE  /\ w = [name |-> w.name, asked |-> w.asked, next |-> w.next, image |-> w.image, defs |-> w.defs]
         /\ w.name \in 1..LastSecond /\ w.asked \in 0..MaxCommits + 1
         /\ w.next \in 1..NumPages + 1
         /\ w.image \in Image \cup {NoImage} /\ w.defs \in Definitions
  BY DEF Work

\* And what it may become.
LEMMA WorkChanges ==
  ASSUME NEW w \in Work
  PROVE  /\ \A image \in Image \cup {NoImage}, next \in 1..NumPages + 1 :
              [w EXCEPT !.image = image, !.next = next] \in Work
         /\ \A image \in Image \cup {NoImage}, name \in 1..LastSecond, asked \in 0..MaxCommits + 1 :
              [w EXCEPT !.name = name, !.asked = asked, !.image = image] \in Work
         /\ \A defs \in Definitions : [w EXCEPT !.defs = defs] \in Work
  BY DEF Work

\* Each step keeps the types.
LEMMA TypeStep ==
  ASSUME IInv, [Next]_vars
  PROVE  TypeOK'
<1>0. TypeOK
  BY DEF IInv
<1> USE BackupsAssumption DEF TypeOK, Stages, Mishaps, Pages, database, secrets, files
<1>1. CASE Commit
  BY <1>1, <1>0, CommitAppends DEF Commit
<1>2. CASE BeginCheckpoint
  BY <1>2, <1>0 DEF BeginCheckpoint
<1>3. CASE CopyPage
  <2>1. copying \in Pages /\ Current[copying] \in 0..MaxCommits
    BY <1>3, <1>0, CurrentIsImage, SMTT(30) DEF CopyPage, Pages, Image
  <2>2. mainFile' \in Image
    BY <1>3, <1>0, <2>1 DEF CopyPage, Image
  <2>3. QED
    BY <1>3, <1>0, <2>1, <2>2 DEF CopyPage, Pages
<1>4. CASE LoadKey
  BY <1>4, <1>0 DEF LoadKey
<1>5. CASE CreateKey
  BY <1>5, <1>0 DEF CreateKey
<1>6. CASE WriteKey
  BY <1>6, <1>0 DEF WriteKey
<1>7. CASE Crash
  BY <1>7, <1>0, NothingDone DEF Crash, Die
<1>8. CASE Stop
  BY <1>8, <1>0, NothingDone, CurrentIsImage DEF Stop, Die
<1>9. CASE Tick
  BY <1>9, <1>0 DEF Tick
<1>10. ASSUME NEW r \in Reqs, BeginBackup(r) PROVE TypeOK'
  <2>1. [p \in Pages |-> 0] \in Image
    BY DEF Image
  <2>a. second \in 1..LastSecond /\ Len(history) \in 0..MaxCommits + 1
    BY <1>0, CurrentIsImage
  <2>2. [NoWork EXCEPT !.name = second, !.asked = Len(history), !.image = [p \in Pages |-> 0]] \in Work
    BY <2>a, <2>1, NothingDone, WorkChanges
  <2>3. QED
    BY <1>10, <1>0, <2>2 DEF BeginBackup, Goto
<1>11. ASSUME NEW r \in Reqs, ReadPage(r) PROVE TypeOK'
  <2>1. part[r] \in Work /\ part[r].next \in Pages /\ part[r].image \in Image
    BY <1>11, <1>0 DEF IInv, Reading, ReadPage
  <2>2. [part[r].image EXCEPT ![part[r].next] = mainFile[part[r].next]] \in Image
    BY <1>0, <2>1 DEF Image
  <2>a. part[r].next + 1 \in 1..NumPages + 1
    BY <2>1
  <2>3. [part[r] EXCEPT !.image = [part[r].image EXCEPT ![part[r].next] = mainFile[part[r].next]],
                        !.next = part[r].next + 1] \in Work
    BY <2>a, <2>1, <2>2, WorkChanges
  <2>4. part' = [part EXCEPT ![r] =
          [part[r] EXCEPT !.image = [part[r].image EXCEPT ![part[r].next] = mainFile[part[r].next]],
                          !.next = part[r].next + 1]]
    BY <1>11, <1>0 DEF ReadPage
  <2>5. part' \in [Reqs -> Work]
    BY <1>0, <2>3, <2>4
  <2>6. QED
    BY <1>11, <1>0, <2>5 DEF ReadPage, Goto
<1>12. ASSUME NEW r \in Reqs, ReadFileFails(r) PROVE TypeOK'
  <2>a. part[r] \in Work /\ 1 \in 1..NumPages + 1
    BY <1>0
  <2>1. [part[r] EXCEPT !.image = NoImage, !.next = 1] \in Work
    BY <2>a, WorkChanges
  <2>2. part' = [part EXCEPT ![r] = [part[r] EXCEPT !.image = NoImage, !.next = 1]]
    BY <1>12, <1>0 DEF ReadFileFails
  <2>3. QED
    BY <1>12, <1>0, <2>1, <2>2 DEF ReadFileFails, Goto
<1>13. ASSUME NEW r \in Reqs, ReadDefinitions(r) PROVE TypeOK'
  <2>1. Current[StacksPage] \in Definitions
    BY <1>0, CurrentIsImage DEF Image, Definitions
  <2>2. [part[r] EXCEPT !.defs = Current[StacksPage]] \in Work
    BY <1>0, <2>1, WorkChanges
  <2>3. part' = [part EXCEPT ![r] = [part[r] EXCEPT !.defs = Current[StacksPage]]]
    BY <1>13, <1>0 DEF ReadDefinitions
  <2>4. QED
    BY <1>13, <1>0, <2>2, <2>3 DEF ReadDefinitions, Goto
<1>14. ASSUME NEW r \in Reqs, ReadDefinitionsFails(r) PROVE TypeOK'
  BY <1>14, <1>0 DEF ReadDefinitionsFails, Goto
<1>15. ASSUME NEW r \in Reqs, OpenFile(r) PROVE TypeOK'
  BY <1>15, <1>0 DEF OpenFile, Goto
<1>16. ASSUME NEW r \in Reqs, WriteFile(r) PROVE TypeOK'
  <2>1. part[r] \in Work /\ key \in 1..MaxKeys
    BY <1>16, <1>0 DEF IInv, KeyHeld, WriteFile
  <2>2. [image |-> part[r].image, defs |-> part[r].defs, key |-> key] \in Archive
    BY <2>1, WorkColumns DEF Archive
  <2>3. archives' \in [1..LastSecond -> Archive \cup {NoArchive, Broken}]
    BY <1>16, <1>0, <2>2 DEF WriteFile
  <2>4. promised' \in SUBSET (1..LastSecond)
    BY <1>16, <1>0, <2>1, WorkColumns, SMTT(30) DEF WriteFile
  <2>5. QED
    BY <1>16, <1>0, <2>3, <2>4, NothingDone DEF WriteFile, Finish, Goto
<1>17. ASSUME NEW r \in Reqs, BackupFails(r) PROVE TypeOK'
  BY <1>17, <1>0, NothingDone DEF BackupFails, Finish, Goto
<1>18. CASE UNCHANGED vars
  BY <1>0, <1>18 DEF vars, database, secrets, files
<1>19. QED
  BY <1>1, <1>2, <1>3, <1>4, <1>5, <1>6, <1>7, <1>8, <1>9, <1>10, <1>11, <1>12,
     <1>13, <1>14, <1>15, <1>16, <1>17, <1>18 DEF Next

\* The key stays with whoever works.
LEMMA KeyStep ==
  ASSUME IInv, [Next]_vars
  PROVE  KeyHeld'
<1> USE DEF IInv, TypeOK, KeyHeld, database, secrets, files
<1>1. CASE Commit
  BY <1>1 DEF Commit
<1>2. CASE BeginCheckpoint
  BY <1>2 DEF BeginCheckpoint
<1>3. CASE CopyPage
  BY <1>3 DEF CopyPage
<1>4. CASE LoadKey
  BY <1>4 DEF LoadKey
<1>5. CASE CreateKey
  BY <1>5 DEF CreateKey
<1>6. CASE WriteKey
  BY <1>6 DEF WriteKey
<1>7. CASE Crash
  BY <1>7 DEF Crash, Die
<1>8. CASE Stop
  BY <1>8 DEF Stop, Die
<1>9. CASE Tick
  BY <1>9 DEF Tick
<1>10. ASSUME NEW r \in Reqs, BeginBackup(r) PROVE KeyHeld'
  BY <1>10 DEF BeginBackup, Goto
<1>11. ASSUME NEW r \in Reqs, ReadPage(r) PROVE KeyHeld'
  BY <1>11 DEF ReadPage, Goto
<1>12. ASSUME NEW r \in Reqs, ReadFileFails(r) PROVE KeyHeld'
  BY <1>12 DEF ReadFileFails, Goto
<1>13. ASSUME NEW r \in Reqs, ReadDefinitions(r) PROVE KeyHeld'
  BY <1>13 DEF ReadDefinitions, Goto
<1>14. ASSUME NEW r \in Reqs, ReadDefinitionsFails(r) PROVE KeyHeld'
  BY <1>14 DEF ReadDefinitionsFails, Goto
<1>15. ASSUME NEW r \in Reqs, OpenFile(r) PROVE KeyHeld'
  BY <1>15 DEF OpenFile, Goto
<1>16. ASSUME NEW r \in Reqs, WriteFile(r) PROVE KeyHeld'
  BY <1>16 DEF WriteFile, Finish, Goto
<1>17. ASSUME NEW r \in Reqs, BackupFails(r) PROVE KeyHeld'
  BY <1>17 DEF BackupFails, Finish, Goto
<1>18. CASE UNCHANGED vars
  BY <1>18 DEF vars, database, secrets, files
<1>19. QED
  BY <1>1, <1>2, <1>3, <1>4, <1>5, <1>6, <1>7, <1>8, <1>9, <1>10, <1>11, <1>12,
     <1>13, <1>14, <1>15, <1>16, <1>17, <1>18 DEF Next

\* Readers stay within the pages.
LEMMA ReadingStep ==
  ASSUME IInv, [Next]_vars
  PROVE  Reading'
<1> USE DEF IInv, TypeOK, Reading, database, secrets, files
<1>1. CASE Commit
  BY <1>1 DEF Commit
<1>2. CASE BeginCheckpoint
  BY <1>2 DEF BeginCheckpoint
<1>3. CASE CopyPage
  BY <1>3 DEF CopyPage
<1>4. CASE LoadKey
  BY <1>4 DEF LoadKey
<1>5. CASE CreateKey
  BY <1>5 DEF CreateKey
<1>6. CASE WriteKey
  BY <1>6 DEF WriteKey
<1>7. CASE Crash
  BY <1>7 DEF Crash, Die
<1>8. CASE Stop
  BY <1>8 DEF Stop, Die
<1>9. CASE Tick
  BY <1>9 DEF Tick
<1>10. ASSUME NEW r \in Reqs, BeginBackup(r) PROVE Reading'
  <2>1. part' = [part EXCEPT ![r] = [NoWork EXCEPT !.name = second, !.asked = Len(history),
                                                   !.image = [p \in Pages |-> 0]]]
    BY <1>10 DEF BeginBackup
  <2>2. part'[r].next = 1 /\ part'[r].image = [p \in Pages |-> 0] /\ part'[r].defs = NoDefs
    BY <2>1 DEF NoWork
  <2>3. part'[r].next \in Pages /\ part'[r].image \in Image
    BY <2>2, BackupsAssumption DEF Pages, Image
  <2>4. \A q \in Reqs \ {r} : part'[q] = part[q] /\ pc'[q] = pc[q]
    BY <1>10, <2>1 DEF BeginBackup, Goto
  <2>5. QED
    BY <2>2, <2>3, <2>4
<1>11. ASSUME NEW r \in Reqs, ReadPage(r) PROVE Reading'
  <2>1. part[r].next \in Pages /\ part[r].image \in Image /\ part[r] \in Work
    BY <1>11 DEF ReadPage
  <2>2. part' = [part EXCEPT ![r] =
          [part[r] EXCEPT !.image = [part[r].image EXCEPT ![part[r].next] = mainFile[part[r].next]],
                          !.next = part[r].next + 1]]
    BY <1>11 DEF ReadPage
  <2>3. part'[r].image = [part[r].image EXCEPT ![part[r].next] = mainFile[part[r].next]]
    BY <2>1, <2>2 DEF Work
  <2>4. part'[r].image \in Image
    BY <2>1, <2>3 DEF Image
  <2>5. part'[r].next = part[r].next + 1 /\ part'[r].defs = part[r].defs
    BY <2>1, <2>2 DEF Work
  <2>6. pc'[r] = "database" => part'[r].next \in Pages
    <3>1. part[r].next = NumPages => pc'[r] = "definitions"
      BY <1>11 DEF ReadPage, Goto
    <3>2. part[r].next # NumPages => part[r].next + 1 \in Pages
      BY <2>1, BackupsAssumption DEF Pages
    <3>3. QED
      BY <2>5, <3>1, <3>2
  <2>7. \A q \in Reqs \ {r} : part'[q] = part[q] /\ pc'[q] = pc[q]
    BY <1>11, <2>2 DEF ReadPage, Goto
  <2>8. pc[r] = "database"
    BY <1>11 DEF ReadPage
  <2>9. QED
    BY <2>4, <2>5, <2>6, <2>7, <2>8
<1>12. ASSUME NEW r \in Reqs, ReadFileFails(r) PROVE Reading'
  <2>1. part'[r].defs = part[r].defs
    BY <1>12 DEF ReadFileFails, Work
  <2>2. QED
    BY <1>12, <2>1 DEF ReadFileFails, Goto
<1>13. ASSUME NEW r \in Reqs, ReadDefinitions(r) PROVE Reading'
  BY <1>13 DEF ReadDefinitions, Goto
<1>14. ASSUME NEW r \in Reqs, ReadDefinitionsFails(r) PROVE Reading'
  BY <1>14 DEF ReadDefinitionsFails, Goto
<1>15. ASSUME NEW r \in Reqs, OpenFile(r) PROVE Reading'
  BY <1>15 DEF OpenFile, Goto
<1>16. ASSUME NEW r \in Reqs, WriteFile(r) PROVE Reading'
  BY <1>16 DEF WriteFile, Finish, Goto
<1>17. ASSUME NEW r \in Reqs, BackupFails(r) PROVE Reading'
  BY <1>17 DEF BackupFails, Finish, Goto
<1>18. CASE UNCHANGED vars
  BY <1>18 DEF vars, database, secrets, files
<1>19. QED
  BY <1>1, <1>2, <1>3, <1>4, <1>5, <1>6, <1>7, <1>8, <1>9, <1>10, <1>11, <1>12,
     <1>13, <1>14, <1>15, <1>16, <1>17, <1>18 DEF Next

\* Pages only get newer.
LEMMA PagesStep ==
  ASSUME IInv, [Next]_vars
  PROVE  PagesGrow' /\ Advances
<1>0. /\ TypeOK /\ PagesGrow
      /\ \A p \in Pages : Current[p] \in Nat /\ mainFile[p] \in Nat
      /\ Len(history) \in Nat
  BY CurrentIsImage, BackupsAssumption DEF IInv, TypeOK, Image
<1> USE DEF database, secrets, files
<1>1. CASE Commit
  <2>1. /\ mainFile' = mainFile
        /\ Len(history') = Len(history) + 1
        /\ \A p \in Pages : Current'[p] \in {Current[p], Len(history)}
    BY <1>1, <1>0, CommitAppends DEF Commit
  <2>2. QED
    BY <1>0, <2>1 DEF PagesGrow, Advances
<1>2. CASE BeginCheckpoint
  BY <1>2, <1>0 DEF BeginCheckpoint, PagesGrow, Advances, Current
<1>3. CASE CopyPage
  <2>1. history' = history /\ Current' = Current
    BY <1>3 DEF CopyPage, Current
  <2>2. \A p \in Pages : mainFile'[p] \in {mainFile[p], Current[p]}
    BY <1>3, <1>0 DEF CopyPage, TypeOK, Image
  <2>3. QED
    BY <1>0, <2>1, <2>2 DEF PagesGrow, Advances
<1>4. CASE LoadKey
  BY <1>4, <1>0 DEF LoadKey, PagesGrow, Advances, Current
<1>5. CASE CreateKey
  BY <1>5, <1>0 DEF CreateKey, PagesGrow, Advances, Current
<1>6. CASE WriteKey
  BY <1>6, <1>0 DEF WriteKey, PagesGrow, Advances, Current
<1>7. CASE Crash
  BY <1>7, <1>0 DEF Crash, Die, PagesGrow, Advances, Current
<1>8. CASE Stop
  <2>1. history' = history /\ Current' = Current /\ mainFile' = Current
    BY <1>8 DEF Stop, Die, Current
  <2>2. QED
    BY <1>0, <2>1 DEF PagesGrow, Advances
<1>9. CASE Tick
  BY <1>9, <1>0 DEF Tick, PagesGrow, Advances, Current
<1>10. ASSUME NEW r \in Reqs, BeginBackup(r) PROVE PagesGrow' /\ Advances
  BY <1>10, <1>0 DEF BeginBackup, Goto, PagesGrow, Advances, Current
<1>11. ASSUME NEW r \in Reqs, ReadPage(r) PROVE PagesGrow' /\ Advances
  BY <1>11, <1>0 DEF ReadPage, Goto, PagesGrow, Advances, Current
<1>12. ASSUME NEW r \in Reqs, ReadFileFails(r) PROVE PagesGrow' /\ Advances
  BY <1>12, <1>0 DEF ReadFileFails, Goto, PagesGrow, Advances, Current
<1>13. ASSUME NEW r \in Reqs, ReadDefinitions(r) PROVE PagesGrow' /\ Advances
  BY <1>13, <1>0 DEF ReadDefinitions, Goto, PagesGrow, Advances, Current
<1>14. ASSUME NEW r \in Reqs, ReadDefinitionsFails(r) PROVE PagesGrow' /\ Advances
  BY <1>14, <1>0 DEF ReadDefinitionsFails, Goto, PagesGrow, Advances, Current
<1>15. ASSUME NEW r \in Reqs, OpenFile(r) PROVE PagesGrow' /\ Advances
  BY <1>15, <1>0 DEF OpenFile, Goto, PagesGrow, Advances, Current
<1>16. ASSUME NEW r \in Reqs, WriteFile(r) PROVE PagesGrow' /\ Advances
  BY <1>16, <1>0 DEF WriteFile, Finish, Goto, PagesGrow, Advances, Current
<1>17. ASSUME NEW r \in Reqs, BackupFails(r) PROVE PagesGrow' /\ Advances
  BY <1>17, <1>0 DEF BackupFails, Finish, Goto, PagesGrow, Advances, Current
<1>18. CASE UNCHANGED vars
  BY <1>0, <1>18 DEF vars, PagesGrow, Advances, Current, database, secrets, files
<1>19. QED
  BY <1>1, <1>2, <1>3, <1>4, <1>5, <1>6, <1>7, <1>8, <1>9, <1>10, <1>11, <1>12,
     <1>13, <1>14, <1>15, <1>16, <1>17, <1>18 DEF Next

\* Pages hold the numbers of commits.
LEMMA PagesAreNumbers ==
  ASSUME TypeOK
  PROVE  /\ \A p \in Pages : Current[p] \in Nat /\ mainFile[p] \in Nat
         /\ \A r \in Reqs, p \in Pages : part[r].image # NoImage => part[r].image[p] \in Nat
         /\ StacksPage \in Pages /\ NumPages \in Pages
<1>1. Image = [Pages -> 0..MaxCommits]
  BY DEF Image
<1>2. mainFile \in Image /\ Current \in Image
  BY CurrentIsImage DEF TypeOK
<1>3. \A r \in Reqs : part[r].image # NoImage => part[r].image \in Image
  BY WorkColumns DEF TypeOK
<1>4. StacksPage \in Pages /\ NumPages \in Pages
  BY BackupsAssumption DEF Pages
<1>5. ASSUME NEW image \in Image, NEW p \in Pages PROVE image[p] \in Nat
  BY <1>1, BackupsAssumption
<1>6. QED
  BY <1>2, <1>3, <1>4, <1>5

\* What requests have stays behind the database.
LEMMA ReadsStep ==
  ASSUME IInv, [Next]_vars
  PROVE  ReadsFollow'
<1>0. /\ TypeOK /\ Reading /\ ReadsFollow /\ PagesGrow
      /\ \A p \in Pages : Current[p] \in Nat /\ mainFile[p] \in Nat
      /\ \A p \in Pages : Current'[p] \in Nat /\ Current[p] <= Current'[p]
      /\ \A r \in Reqs, p \in Pages : part[r].image # NoImage => part[r].image[p] \in Nat
      /\ StacksPage \in Pages
  <2>1. Current' \in Image
    BY TypeStep DEF TypeOK, Current
  <2>2. \A p \in Pages : Current'[p] \in Nat
    BY <2>1, BackupsAssumption DEF Image
  <2>3. QED
    BY <2>2, PagesAreNumbers, PagesStep DEF IInv, Advances
\* A request that has not moved has not overtaken the database.
<1>a. ASSUME NEW q \in Reqs, part'[q] = part[q], pc'[q] = pc[q] PROVE ReadFollows(q)'
  BY <1>0, <1>a DEF ReadsFollow, ReadFollows, RightDefinitions
<1>b. ASSUME part' = part, pc' = pc PROVE ReadsFollow'
  BY <1>a, <1>b DEF ReadsFollow
<1>c. ASSUME pc' = [r \in Reqs |-> "idle"] PROVE ReadsFollow'
  BY <1>c DEF ReadsFollow, ReadFollows
<1>d. ASSUME NEW r \in Reqs, ReadFollows(r)',
             \A q \in Reqs \ {r} : part'[q] = part[q] /\ pc'[q] = pc[q]
      PROVE  ReadsFollow'
  BY <1>a, <1>d DEF ReadsFollow
<1>1. CASE Commit
  BY <1>1, <1>b DEF Commit
<1>2. CASE BeginCheckpoint
  BY <1>2, <1>b DEF BeginCheckpoint
<1>3. CASE CopyPage
  BY <1>3, <1>b DEF CopyPage
<1>4. CASE LoadKey
  BY <1>4, <1>b DEF LoadKey
<1>5. CASE CreateKey
  BY <1>5, <1>b DEF CreateKey
<1>6. CASE WriteKey
  BY <1>6, <1>b DEF WriteKey
<1>7. CASE Crash
  BY <1>7, <1>c DEF Crash, Die
<1>8. CASE Stop
  BY <1>8, <1>c DEF Stop, Die
<1>9. CASE Tick
  BY <1>9, <1>b DEF Tick
<1>10. ASSUME NEW r \in Reqs, BeginBackup(r) PROVE ReadsFollow'
  <2>1. part'[r].image = [p \in Pages |-> 0] /\ pc'[r] = "database"
    BY <1>10, <1>0 DEF BeginBackup, Goto, TypeOK, NoWork
  <2>2. ReadFollows(r)'
    BY <1>0, <2>1 DEF ReadFollows
  <2>3. \A q \in Reqs \ {r} : part'[q] = part[q] /\ pc'[q] = pc[q]
    BY <1>10, <1>0 DEF BeginBackup, Goto, TypeOK
  <2>4. QED
    BY <1>d, <2>2, <2>3
<1>11. ASSUME NEW r \in Reqs, ReadPage(r) PROVE ReadsFollow'
  <2>1. /\ part[r].image \in Image /\ part[r].next \in Pages /\ pc[r] = "database"
        /\ part[r] \in Work /\ part[r].image # NoImage
    BY <1>11, <1>0, BackupsAssumption DEF ReadPage, Reading, TypeOK, Image, Pages
  <2>2. part'[r].image = [part[r].image EXCEPT ![part[r].next] = mainFile[part[r].next]]
    BY <1>11, <1>0, <2>1 DEF ReadPage, TypeOK, Work
  <2>3. \A p \in Pages : part'[r].image[p] \in {part[r].image[p], mainFile[p]}
    BY <2>1, <2>2 DEF Image
  <2>4. pc'[r] \in {"database", "definitions"} /\ Current' = Current
    BY <1>11, <1>0 DEF ReadPage, Goto, TypeOK, Current, database
  <2>5. \A p \in Pages : part[r].image[p] <= Current[p] /\ mainFile[p] <= Current[p]
    BY <1>0, <2>1 DEF ReadsFollow, ReadFollows, PagesGrow
  <2>6. ReadFollows(r)'
    BY <2>3, <2>4, <2>5 DEF ReadFollows
  <2>7. \A q \in Reqs \ {r} : part'[q] = part[q] /\ pc'[q] = pc[q]
    BY <1>11, <1>0 DEF ReadPage, Goto, TypeOK
  <2>8. QED
    BY <1>d, <2>6, <2>7
<1>12. ASSUME NEW r \in Reqs, ReadFileFails(r) PROVE ReadsFollow'
  <2>1. part'[r].image = NoImage /\ pc'[r] = "definitions"
    BY <1>12, <1>0 DEF ReadFileFails, Goto, TypeOK, Work
  <2>2. ReadFollows(r)'
    BY <2>1 DEF ReadFollows
  <2>3. \A q \in Reqs \ {r} : part'[q] = part[q] /\ pc'[q] = pc[q]
    BY <1>12, <1>0 DEF ReadFileFails, Goto, TypeOK
  <2>4. QED
    BY <1>d, <2>2, <2>3
<1>13. ASSUME NEW r \in Reqs, ReadDefinitions(r) PROVE ReadsFollow'
  <2>1. /\ part'[r].image = part[r].image /\ part'[r].defs = Current[StacksPage]
        /\ pc[r] = "definitions" /\ pc'[r] = "encrypt"
    BY <1>13, <1>0 DEF ReadDefinitions, Goto, TypeOK, Work
  <2>2. part[r].image # NoImage => part[r].image[StacksPage] <= Current[StacksPage]
    BY <1>0, <2>1 DEF ReadsFollow, ReadFollows
  <2>3. ReadFollows(r)'
    BY <1>0, <2>1, <2>2 DEF ReadFollows, RightDefinitions
  <2>4. \A q \in Reqs \ {r} : part'[q] = part[q] /\ pc'[q] = pc[q]
    BY <1>13, <1>0 DEF ReadDefinitions, Goto, TypeOK
  <2>5. QED
    BY <1>d, <2>3, <2>4
<1>14. ASSUME NEW r \in Reqs, ReadDefinitionsFails(r) PROVE ReadsFollow'
  <2>1. part'[r] = part[r] /\ part[r].defs = NoDefs /\ pc'[r] = "encrypt"
    BY <1>14, <1>0 DEF ReadDefinitionsFails, Goto, TypeOK, Reading
  <2>2. ReadFollows(r)'
    BY <2>1 DEF ReadFollows, RightDefinitions
  <2>3. \A q \in Reqs \ {r} : part'[q] = part[q] /\ pc'[q] = pc[q]
    BY <1>14, <1>0 DEF ReadDefinitionsFails, Goto, TypeOK
  <2>4. QED
    BY <1>d, <2>2, <2>3
<1>15. ASSUME NEW r \in Reqs, OpenFile(r) PROVE ReadsFollow'
  <2>1. part'[r] = part[r] /\ pc[r] = "encrypt" /\ pc'[r] = "write"
    BY <1>15, <1>0 DEF OpenFile, Goto, TypeOK
  <2>2. ReadFollows(r)'
    BY <1>0, <2>1 DEF ReadsFollow, ReadFollows, RightDefinitions
  <2>3. \A q \in Reqs \ {r} : part'[q] = part[q] /\ pc'[q] = pc[q]
    BY <1>15, <1>0 DEF OpenFile, Goto, TypeOK
  <2>4. QED
    BY <1>d, <2>2, <2>3
<1>16. ASSUME NEW r \in Reqs, WriteFile(r) PROVE ReadsFollow'
  <2>1. pc'[r] = "idle"
    BY <1>16, <1>0 DEF WriteFile, Finish, Goto, TypeOK
  <2>2. ReadFollows(r)'
    BY <2>1 DEF ReadFollows
  <2>3. \A q \in Reqs \ {r} : part'[q] = part[q] /\ pc'[q] = pc[q]
    BY <1>16, <1>0 DEF WriteFile, Finish, Goto, TypeOK
  <2>4. QED
    BY <1>d, <2>2, <2>3
<1>17. ASSUME NEW r \in Reqs, BackupFails(r) PROVE ReadsFollow'
  <2>1. pc'[r] = "idle"
    BY <1>17, <1>0 DEF BackupFails, Finish, Goto, TypeOK
  <2>2. ReadFollows(r)'
    BY <2>1 DEF ReadFollows
  <2>3. \A q \in Reqs \ {r} : part'[q] = part[q] /\ pc'[q] = pc[q]
    BY <1>17, <1>0 DEF BackupFails, Finish, Goto, TypeOK
  <2>4. QED
    BY <1>d, <2>2, <2>3
<1>18. CASE UNCHANGED vars
  BY <1>b, <1>18 DEF vars, database, secrets, files
<1>19. QED
  BY <1>1, <1>2, <1>3, <1>4, <1>5, <1>6, <1>7, <1>8, <1>9, <1>10, <1>11, <1>12,
     <1>13, <1>14, <1>15, <1>16, <1>17, <1>18 DEF Next

\* History is only added to, at its end, and what is added is no older.
LEMMA HistoryStep ==
  ASSUME IInv, [Next]_vars
  PROVE  /\ HistoryGrows'
         /\ Len(history) \in Nat /\ Len(history') \in Nat /\ Len(history) <= Len(history')
         /\ \A i \in 1..Len(history) : history'[i] = history[i]
<1>0. /\ TypeOK /\ HistoryGrows /\ PagesGrow
      /\ Len(history) \in Nat
      /\ \A p \in Pages : Current[p] \in Nat /\ Current[p] <= Current'[p]
      /\ \A i \in 1..Len(history), p \in Pages : history[i][p] \in Nat
  <2>1. \A i \in 1..Len(history) : history[i] \in Image
    BY DEF IInv, TypeOK
  <2>2. \A i \in 1..Len(history), p \in Pages : history[i][p] \in Nat
    BY <2>1, BackupsAssumption DEF Image
  <2>3. Len(history) \in Nat
    BY CurrentIsImage, BackupsAssumption DEF IInv
  <2>4. QED
    BY <2>2, <2>3, PagesAreNumbers, PagesStep DEF IInv, Advances
<1>1. CASE Commit
  <2>1. /\ Len(history') = Len(history) + 1
        /\ \A i \in 1..Len(history) : history'[i] = history[i]
        /\ \A p \in Pages : Current'[p] \in {Current[p], Len(history)}
    BY <1>0, <1>1, CommitAppends
  <2>2. ASSUME NEW i \in 1..Len(history'), NEW p \in Pages
        PROVE  history'[i][p] <= Current'[p]
    <3>1. CASE i \in 1..Len(history)
      <4>1. history'[i][p] = history[i][p] /\ history[i][p] <= Current[p]
        BY <1>0, <2>1, <3>1 DEF HistoryGrows
      <4>2. Current[p] \in Nat /\ Current'[p] \in Nat /\ Current[p] <= Current'[p]
        BY <1>0, <2>1
      <4>3. history[i][p] \in Nat
        BY <1>0, <3>1
      <4>4. QED
        BY <4>1, <4>2, <4>3
    <3>2. CASE i = Len(history')
      <4>1. history'[i][p] = Current'[p]
        BY <3>2 DEF Current
      <4>2. Current'[p] \in Nat
        BY <1>0, <2>1
      <4>3. QED
        BY <4>1, <4>2
    <3>3. QED
      BY <1>0, <2>1, <2>2, <3>1, <3>2
  <2>3. QED
    BY <1>0, <2>1, <2>2 DEF HistoryGrows
<1>2. CASE ~Commit
  <2>1. history' = history
    BY <1>2 DEF Next, vars, database, BeginCheckpoint, CopyPage, LoadKey, CreateKey, WriteKey,
       Crash, Stop, Die, Tick, BeginBackup, ReadPage, ReadFileFails, ReadDefinitions,
       ReadDefinitionsFails, OpenFile, WriteFile, BackupFails
  <2>2. QED
    BY <1>0, <2>1 DEF HistoryGrows, Current
<1>3. QED
  BY <1>1, <1>2

\* The commits that a backup must have stay where they were when it was asked for.
LEMMA AskedStep ==
  ASSUME IInv, [Next]_vars
  PROVE  AskedIsKnown'
<1>0. /\ TypeOK /\ Reading /\ AskedIsKnown /\ HistoryGrows
      /\ Len(history) \in 1..Len(history)
      /\ Current[StacksPage] \in Nat
  <2>1. Len(history) \in 1..Len(history)
    BY CurrentIsImage, BackupsAssumption DEF IInv
  <2>2. QED
    BY <2>1, PagesAreNumbers, BackupsAssumption DEF IInv, Pages
<1>a. ASSUME NEW q \in Reqs, part'[q] = part[q], pc'[q] = pc[q] PROVE AskedFor(q)'
  <2>1. AskedFor(q)
    BY <1>0 DEF AskedIsKnown
  <2>2. pc[q] # "idle" =>
          /\ part[q].asked \in 1..Len(history')
          /\ history'[part[q].asked] = history[part[q].asked]
    BY <2>1, HistoryStep DEF AskedFor
  <2>3. QED
    BY <1>a, <2>1, <2>2 DEF AskedFor
<1>b. ASSUME part' = part, pc' = pc PROVE AskedIsKnown'
  BY <1>a, <1>b DEF AskedIsKnown
<1>c. ASSUME pc' = [r \in Reqs |-> "idle"] PROVE AskedIsKnown'
  BY <1>c DEF AskedIsKnown, AskedFor
<1>d. ASSUME NEW r \in Reqs, AskedFor(r)',
             \A q \in Reqs \ {r} : part'[q] = part[q] /\ pc'[q] = pc[q]
      PROVE  AskedIsKnown'
  BY <1>a, <1>d DEF AskedIsKnown
<1>1. CASE Commit \/ BeginCheckpoint \/ CopyPage \/ LoadKey \/ CreateKey \/ WriteKey \/ Tick
  BY <1>1, <1>b DEF Commit, BeginCheckpoint, CopyPage, LoadKey, CreateKey, WriteKey, Tick
<1>2. CASE Crash \/ Stop
  BY <1>2, <1>c DEF Crash, Stop, Die
<1>3. ASSUME NEW r \in Reqs, BeginBackup(r) PROVE AskedIsKnown'
  <2>1. part'[r].asked = Len(history) /\ pc'[r] = "database" /\ history' = history
    BY <1>3, <1>0 DEF BeginBackup, Goto, TypeOK, NoWork, database
  <2>2. AskedFor(r)'
    BY <1>0, <2>1 DEF AskedFor
  <2>3. \A q \in Reqs \ {r} : part'[q] = part[q] /\ pc'[q] = pc[q]
    BY <1>3, <1>0 DEF BeginBackup, Goto, TypeOK
  <2>4. QED
    BY <1>d, <2>2, <2>3
<1>4. ASSUME NEW r \in Reqs, ReadPage(r) \/ ReadFileFails(r) PROVE AskedIsKnown'
  <2>1. part'[r].asked = part[r].asked /\ pc[r] = "database" /\ history' = history
    BY <1>4, <1>0 DEF ReadPage, ReadFileFails, TypeOK, Work, database
  <2>2. pc'[r] \in {"database", "definitions"}
    BY <1>4, <1>0 DEF ReadPage, ReadFileFails, Goto, TypeOK
  <2>3. AskedFor(r)'
    BY <1>0, <2>1, <2>2 DEF AskedIsKnown, AskedFor
  <2>4. \A q \in Reqs \ {r} : part'[q] = part[q] /\ pc'[q] = pc[q]
    BY <1>4, <1>0 DEF ReadPage, ReadFileFails, Goto, TypeOK
  <2>5. QED
    BY <1>d, <2>3, <2>4
<1>5. ASSUME NEW r \in Reqs, ReadDefinitions(r) PROVE AskedIsKnown'
  <2>1. /\ part'[r].asked = part[r].asked /\ part'[r].defs = Current[StacksPage]
        /\ pc[r] = "definitions" /\ history' = history
    BY <1>5, <1>0 DEF ReadDefinitions, TypeOK, Work, database
  <2>2. part[r].asked \in 1..Len(history)
    BY <1>0, <2>1 DEF AskedIsKnown, AskedFor
  <2>3. StacksPage \in Pages
    BY BackupsAssumption DEF Pages
  <2>4. history[part[r].asked][StacksPage] <= Current[StacksPage]
    BY <1>0, <2>2, <2>3 DEF HistoryGrows
  <2>5. AskedFor(r)'
    BY <2>1, <2>2, <2>4 DEF AskedFor
  <2>6. \A q \in Reqs \ {r} : part'[q] = part[q] /\ pc'[q] = pc[q]
    BY <1>5, <1>0 DEF ReadDefinitions, Goto, TypeOK
  <2>7. QED
    BY <1>d, <2>5, <2>6
<1>6. ASSUME NEW r \in Reqs, ReadDefinitionsFails(r) PROVE AskedIsKnown'
  <2>1. part' = part /\ part[r].defs = NoDefs /\ pc[r] = "definitions" /\ history' = history
    BY <1>6, <1>0 DEF ReadDefinitionsFails, Reading, database
  <2>2. AskedFor(r)'
    BY <1>0, <2>1 DEF AskedIsKnown, AskedFor
  <2>3. \A q \in Reqs \ {r} : part'[q] = part[q] /\ pc'[q] = pc[q]
    BY <1>6, <1>0 DEF ReadDefinitionsFails, Goto, TypeOK
  <2>4. QED
    BY <1>d, <2>2, <2>3
<1>7. ASSUME NEW r \in Reqs, OpenFile(r) PROVE AskedIsKnown'
  <2>1. part' = part /\ pc[r] = "encrypt" /\ pc'[r] = "write" /\ history' = history
    BY <1>7, <1>0 DEF OpenFile, Goto, TypeOK, database
  <2>2. AskedFor(r)'
    BY <1>0, <2>1 DEF AskedIsKnown, AskedFor
  <2>3. \A q \in Reqs \ {r} : part'[q] = part[q] /\ pc'[q] = pc[q]
    BY <1>7, <1>0 DEF OpenFile, Goto, TypeOK
  <2>4. QED
    BY <1>d, <2>2, <2>3
<1>8. ASSUME NEW r \in Reqs, WriteFile(r) \/ BackupFails(r) PROVE AskedIsKnown'
  <2>1. pc'[r] = "idle"
    BY <1>8, <1>0 DEF WriteFile, BackupFails, Finish, Goto, TypeOK
  <2>2. AskedFor(r)'
    BY <2>1 DEF AskedFor
  <2>3. \A q \in Reqs \ {r} : part'[q] = part[q] /\ pc'[q] = pc[q]
    BY <1>8, <1>0 DEF WriteFile, BackupFails, Finish, Goto, TypeOK
  <2>4. QED
    BY <1>d, <2>2, <2>3
<1>9. CASE UNCHANGED vars
  BY <1>9, <1>b DEF vars
<1>10. QED
  BY <1>1, <1>2, <1>3, <1>4, <1>5, <1>6, <1>7, <1>8, <1>9 DEF Next

\* Where no key was lost there is none only before the first backup.
LEMMA NoKeyNoPromise ==
  ASSUME TypeOK, KeptBackupsOpen, keyFile = 0,
         mishaps \cap {"key_unreadable", "same_second"} = {}
  PROVE  promised = {}
<1>1. \A n \in promised : archives[n] \in Archive /\ archives[n].key = 0
  BY DEF KeptBackupsOpen, TypeOK, Whole
<1>2. QED
  BY <1>1, BackupsAssumption DEF Archive

\* What was promised stays, and opens.
LEMMA KeptStep ==
  ASSUME IInv, [Next]_vars
  PROVE  OpenFiles' /\ KeptBackupsOpen'
<1>0. TypeOK /\ KeyHeld /\ OpenFiles /\ KeptBackupsOpen
  BY DEF IInv
<1>1. CASE Commit
  BY <1>1, <1>0 DEF Commit, OpenFiles, KeptBackupsOpen, Whole, TypeOK, KeyHeld, secrets, files, database
<1>2. CASE BeginCheckpoint
  BY <1>2, <1>0 DEF BeginCheckpoint, OpenFiles, KeptBackupsOpen, Whole, TypeOK, KeyHeld, secrets, files, database
<1>3. CASE CopyPage
  BY <1>3, <1>0 DEF CopyPage, OpenFiles, KeptBackupsOpen, Whole, TypeOK, KeyHeld, secrets, files, database
<1>4. CASE LoadKey
  BY <1>4, <1>0 DEF LoadKey, OpenFiles, KeptBackupsOpen, Whole, TypeOK, KeyHeld, secrets, files, database
<1>5. CASE CreateKey
  <2>1. /\ pc' = pc /\ part' = part /\ archives' = archives /\ promised' = promised
        /\ mishaps' = IF keyFile > 0 THEN mishaps \cup {"key_unreadable"} ELSE mishaps
    BY <1>5 DEF CreateKey, files
  <2>2. OpenFiles'
    BY <2>1, <1>0 DEF OpenFiles
  <2>3. ASSUME mishaps' \cap {"key_unreadable", "same_second"} = {} PROVE promised' = {}
    <3>1. keyFile = 0 /\ mishaps' = mishaps
      <4>1. keyFile > 0 => "key_unreadable" \in mishaps'
        BY <2>1
      <4>2. keyFile = 0
        BY <1>0, <2>3, <4>1, BackupsAssumption DEF TypeOK
      <4>3. QED
        BY <2>1, <4>2
    <3>2. QED
      BY <1>0, <2>1, <2>3, <3>1, NoKeyNoPromise
  <2>4. QED
    BY <2>2, <2>3 DEF KeptBackupsOpen
<1>6. CASE WriteKey
  <2>1. /\ pc' = pc /\ part' = part /\ archives' = archives /\ promised' = promised
        /\ mishaps' = mishaps /\ keyFile = 0
    BY <1>6, <1>0 DEF WriteKey, KeyHeld, files
  <2>2. OpenFiles'
    BY <2>1, <1>0 DEF OpenFiles
  <2>3. KeptBackupsOpen'
    BY <1>0, <2>1, NoKeyNoPromise DEF KeptBackupsOpen
  <2>4. QED
    BY <2>2, <2>3
<1>7. CASE Crash
  BY <1>7, <1>0 DEF Crash, Die, OpenFiles, KeptBackupsOpen, Whole, TypeOK, KeyHeld, secrets, files, database
<1>8. CASE Stop
  BY <1>8, <1>0 DEF Stop, Die, OpenFiles, KeptBackupsOpen, Whole, TypeOK, KeyHeld, secrets, files, database
<1>9. CASE Tick
  BY <1>9, <1>0 DEF Tick, OpenFiles, KeptBackupsOpen, Whole, TypeOK, KeyHeld, secrets, files, database
<1>10. ASSUME NEW r \in Reqs, BeginBackup(r) PROVE OpenFiles' /\ KeptBackupsOpen'
  <2>1. /\ \A q \in Reqs : pc'[q] = "write" => pc[q] = "write" /\ part'[q] = part[q]
        /\ archives' = archives /\ promised' = promised /\ keyFile' = keyFile
        /\ mishaps' \in {mishaps, mishaps \cup {"checkpoint_read"}}
    BY <1>10, <1>0 DEF BeginBackup, Goto, secrets, files, TypeOK
  <2>2. QED
    BY <1>0, <2>1 DEF OpenFiles, KeptBackupsOpen, Whole, TypeOK
<1>11. ASSUME NEW r \in Reqs, ReadPage(r) PROVE OpenFiles' /\ KeptBackupsOpen'
  <2>1. /\ \A q \in Reqs : pc'[q] = "write" => pc[q] = "write" /\ part'[q] = part[q]
        /\ archives' = archives /\ promised' = promised /\ keyFile' = keyFile
        /\ mishaps' \in {mishaps, mishaps \cup {"checkpoint_read"}}
    BY <1>11, <1>0 DEF ReadPage, Goto, secrets, files, TypeOK
  <2>2. QED
    BY <1>0, <2>1 DEF OpenFiles, KeptBackupsOpen, Whole, TypeOK
<1>12. ASSUME NEW r \in Reqs, ReadFileFails(r) PROVE OpenFiles' /\ KeptBackupsOpen'
  <2>1. /\ \A q \in Reqs : pc'[q] = "write" => pc[q] = "write" /\ part'[q] = part[q]
        /\ archives' = archives /\ promised' = promised /\ keyFile' = keyFile
        /\ mishaps' \in {mishaps, mishaps \cup {"checkpoint_read"}}
    BY <1>12, <1>0 DEF ReadFileFails, Goto, secrets, files, TypeOK
  <2>2. QED
    BY <1>0, <2>1 DEF OpenFiles, KeptBackupsOpen, Whole, TypeOK
<1>13. ASSUME NEW r \in Reqs, ReadDefinitions(r) PROVE OpenFiles' /\ KeptBackupsOpen'
  <2>1. /\ \A q \in Reqs : pc'[q] = "write" => pc[q] = "write" /\ part'[q] = part[q]
        /\ archives' = archives /\ promised' = promised /\ keyFile' = keyFile
        /\ mishaps' \in {mishaps, mishaps \cup {"checkpoint_read"}}
    BY <1>13, <1>0 DEF ReadDefinitions, Goto, secrets, files, TypeOK
  <2>2. QED
    BY <1>0, <2>1 DEF OpenFiles, KeptBackupsOpen, Whole, TypeOK
<1>14. ASSUME NEW r \in Reqs, ReadDefinitionsFails(r) PROVE OpenFiles' /\ KeptBackupsOpen'
  <2>1. /\ \A q \in Reqs : pc'[q] = "write" => pc[q] = "write" /\ part'[q] = part[q]
        /\ archives' = archives /\ promised' = promised /\ keyFile' = keyFile
        /\ mishaps' \in {mishaps, mishaps \cup {"checkpoint_read"}}
    BY <1>14, <1>0 DEF ReadDefinitionsFails, Goto, secrets, files, TypeOK
  <2>2. QED
    BY <1>0, <2>1 DEF OpenFiles, KeptBackupsOpen, Whole, TypeOK
<1>15. ASSUME NEW r \in Reqs, OpenFile(r) PROVE OpenFiles' /\ KeptBackupsOpen'
  <2>1. /\ pc[r] = "encrypt" /\ promised' = promised /\ keyFile' = keyFile /\ part' = part
        /\ archives' = [archives EXCEPT ![part[r].name] = Broken]
        /\ part[r].name \in 1..LastSecond
        /\ pc' = [pc EXCEPT ![r] = "write"]
        /\ mishaps' = IF archives[part[r].name] # NoArchive THEN mishaps \cup {"same_second"} ELSE mishaps
    BY <1>15, <1>0, WorkColumns DEF OpenFile, Goto, TypeOK, secrets
  <2>2. ASSUME "same_second" \notin mishaps'
        PROVE  "same_second" \notin mishaps /\ mishaps' = mishaps /\ archives[part[r].name] = NoArchive
    BY <2>1, <2>2
  <2>3. OpenFiles'
    BY <1>0, <2>1, <2>2, BackupsAssumption DEF OpenFiles, TypeOK
  <2>4. KeptBackupsOpen'
    BY <1>0, <2>1, <2>2 DEF KeptBackupsOpen, TypeOK, Whole
  <2>5. QED
    BY <2>3, <2>4
<1>16. ASSUME NEW r \in Reqs, WriteFile(r) PROVE OpenFiles' /\ KeptBackupsOpen'
  <2> DEFINE mine == [image |-> part[r].image, defs |-> part[r].defs, key |-> key]
             n == part[r].name
  <2>1. /\ pc[r] = "write" /\ n \in 1..LastSecond /\ mishaps' = mishaps /\ keyFile' = keyFile
        /\ promised' = promised \cup {n} /\ pc' = [pc EXCEPT ![r] = "idle"]
        /\ part' = [part EXCEPT ![r] = NoWork] /\ key = keyFile
    BY <1>16, <1>0, WorkColumns DEF WriteFile, Finish, Goto, TypeOK, KeyHeld, secrets
  <2>2. mine \in Archive /\ mine.key = key
    BY <1>16, <1>0, <2>1, WorkColumns DEF TypeOK, KeyHeld, Archive
  <2>3. archives[n] = Broken => archives' = [archives EXCEPT ![n] = mine]
    BY <1>16 DEF WriteFile
  <2>4. ASSUME "same_second" \notin mishaps
        PROVE  /\ archives' = [archives EXCEPT ![n] = mine]
               /\ \A q \in Reqs \ {r} : pc[q] = "write" => part[q].name # n /\ archives[part[q].name] = Broken
    BY <1>0, <2>1, <2>3, <2>4 DEF OpenFiles
  <2> HIDE DEF mine, n
  <2>5. OpenFiles'
    <3>1. SUFFICES ASSUME "same_second" \notin mishaps', NEW q \in Reqs, pc'[q] = "write"
                   PROVE  /\ archives'[part'[q].name] = Broken
                          /\ \A p \in Reqs \ {q} : pc'[p] = "write" => part'[p].name # part'[q].name
      BY DEF OpenFiles
    <3>2. q # r /\ pc[q] = "write" /\ part'[q] = part[q]
      BY <1>0, <2>1, <3>1 DEF TypeOK
    <3>3. part[q].name # n /\ archives[part[q].name] = Broken /\ archives' = [archives EXCEPT ![n] = mine]
      BY <2>1, <2>4, <3>1, <3>2
    <3>4. archives'[part[q].name] = Broken
      BY <1>0, <3>2, <3>3, WorkColumns DEF TypeOK
    <3>5. \A p \in Reqs \ {q} : pc'[p] = "write" => p # r /\ pc[p] = "write" /\ part'[p] = part[p]
      BY <1>0, <2>1 DEF TypeOK
    <3>6. QED
      BY <1>0, <2>1, <3>1, <3>2, <3>4, <3>5 DEF OpenFiles
  <2>6. KeptBackupsOpen'
    <3>1. SUFFICES ASSUME mishaps' \cap {"key_unreadable", "same_second"} = {}, NEW m \in promised'
                   PROVE  Whole(m)' /\ archives'[m].key = keyFile'
      BY DEF KeptBackupsOpen
    <3>2. archives' = [archives EXCEPT ![n] = mine]
      BY <2>1, <2>4, <3>1
    <3>3. CASE m = n
      BY <1>0, <2>1, <2>2, <3>2, <3>3, FilesAssumption DEF TypeOK, Whole
    <3>4. CASE m # n
      BY <1>0, <2>1, <3>1, <3>2, <3>4 DEF TypeOK, Whole, KeptBackupsOpen
    <3>5. QED
      BY <3>3, <3>4
  <2>7. QED
    BY <2>5, <2>6
<1>17. ASSUME NEW r \in Reqs, BackupFails(r) PROVE OpenFiles' /\ KeptBackupsOpen'
  <2>1. /\ pc' = [pc EXCEPT ![r] = "idle"] /\ part' = [part EXCEPT ![r] = NoWork]
        /\ archives' = archives /\ promised' = promised /\ mishaps' = mishaps /\ keyFile' = keyFile
    BY <1>17 DEF BackupFails, Finish, Goto, secrets, files
  <2>2. QED
    BY <1>0, <2>1 DEF OpenFiles, KeptBackupsOpen, Whole, TypeOK
<1>18. CASE UNCHANGED vars
  BY <1>0, <1>18 DEF vars, OpenFiles, KeptBackupsOpen, Whole, database, secrets, files
<1>19. QED
  BY <1>1, <1>2, <1>3, <1>4, <1>5, <1>6, <1>7, <1>8, <1>9, <1>10, <1>11, <1>12,
     <1>13, <1>14, <1>15, <1>16, <1>17, <1>18 DEF Next

\* The archives of requests keep what the requests had.
LEMMA ShelfStep ==
  ASSUME IInv, [Next]_vars
  PROVE  DefinitionsFollow'
<1>0. TypeOK /\ ReadsFollow /\ DefinitionsFollow
  BY DEF IInv
<1>1. CASE Commit
  BY <1>1, <1>0 DEF Commit, DefinitionsFollow, RightDefinitions, Whole, files
<1>2. CASE BeginCheckpoint
  BY <1>2, <1>0 DEF BeginCheckpoint, DefinitionsFollow, RightDefinitions, Whole, files
<1>3. CASE CopyPage
  BY <1>3, <1>0 DEF CopyPage, DefinitionsFollow, RightDefinitions, Whole, files
<1>4. CASE LoadKey
  BY <1>4, <1>0 DEF LoadKey, DefinitionsFollow, RightDefinitions, Whole, files
<1>5. CASE CreateKey
  BY <1>5, <1>0 DEF CreateKey, DefinitionsFollow, RightDefinitions, Whole, files
<1>6. CASE WriteKey
  BY <1>6, <1>0 DEF WriteKey, DefinitionsFollow, RightDefinitions, Whole, files
<1>7. CASE Crash
  BY <1>7, <1>0 DEF Crash, Die, DefinitionsFollow, RightDefinitions, Whole, files
<1>8. CASE Stop
  BY <1>8, <1>0 DEF Stop, Die, DefinitionsFollow, RightDefinitions, Whole, files
<1>9. CASE Tick
  BY <1>9, <1>0 DEF Tick, DefinitionsFollow, RightDefinitions, Whole, files
<1>10. ASSUME NEW r \in Reqs, BeginBackup(r) PROVE DefinitionsFollow'
  BY <1>10, <1>0 DEF BeginBackup, Goto, DefinitionsFollow, RightDefinitions, Whole, files
<1>11. ASSUME NEW r \in Reqs, ReadPage(r) PROVE DefinitionsFollow'
  BY <1>11, <1>0 DEF ReadPage, Goto, DefinitionsFollow, RightDefinitions, Whole, files
<1>12. ASSUME NEW r \in Reqs, ReadFileFails(r) PROVE DefinitionsFollow'
  BY <1>12, <1>0 DEF ReadFileFails, Goto, DefinitionsFollow, RightDefinitions, Whole, files
<1>13. ASSUME NEW r \in Reqs, ReadDefinitions(r) PROVE DefinitionsFollow'
  BY <1>13, <1>0 DEF ReadDefinitions, Goto, DefinitionsFollow, RightDefinitions, Whole, files
<1>14. ASSUME NEW r \in Reqs, ReadDefinitionsFails(r) PROVE DefinitionsFollow'
  BY <1>14, <1>0 DEF ReadDefinitionsFails, Goto, DefinitionsFollow, RightDefinitions, Whole, files
<1>15. ASSUME NEW r \in Reqs, OpenFile(r) PROVE DefinitionsFollow'
  <2>1. archives' = [archives EXCEPT ![part[r].name] = Broken]
    BY <1>15 DEF OpenFile
  <2>2. QED
    BY <1>0, <2>1 DEF DefinitionsFollow, Whole, TypeOK
<1>16. ASSUME NEW r \in Reqs, WriteFile(r) PROVE DefinitionsFollow'
  <2> DEFINE mine == [image |-> part[r].image, defs |-> part[r].defs, key |-> key]
             n == part[r].name
  <2>1. /\ archives' \in {[archives EXCEPT ![n] = mine], archives, [archives EXCEPT ![n] = Broken]}
        /\ pc[r] = "write"
    BY <1>16 DEF WriteFile
  <2>2. RightDefinitions(part[r])
    BY <1>0, <2>1 DEF ReadsFollow, ReadFollows
  <2>3. RightDefinitions(mine)
    BY <2>2 DEF RightDefinitions
  <2> HIDE DEF mine, n
  <2>4. \A m \in 1..LastSecond : archives'[m] \in {archives[m], mine, Broken}
    BY <1>0, <2>1 DEF TypeOK
  <2>5. QED
    BY <1>0, <2>3, <2>4 DEF DefinitionsFollow, Whole
<1>17. ASSUME NEW r \in Reqs, BackupFails(r) PROVE DefinitionsFollow'
  BY <1>17, <1>0 DEF BackupFails, Finish, Goto, DefinitionsFollow, RightDefinitions, Whole, files
<1>18. CASE UNCHANGED vars
  BY <1>0, <1>18 DEF vars, files, DefinitionsFollow, RightDefinitions, Whole, database, secrets, files
<1>19. QED
  BY <1>1, <1>2, <1>3, <1>4, <1>5, <1>6, <1>7, <1>8, <1>9, <1>10, <1>11, <1>12,
     <1>13, <1>14, <1>15, <1>16, <1>17, <1>18 DEF Next

\* What was a state of the database will always have been one.
LEMMA HistoryStays ==
  ASSUME IInv, [Next]_vars
  PROVE  /\ \A image : WasCurrent(image) => \E i \in 1..Len(history') : image = history'[i]
         /\ Undisturbed' => Undisturbed
<1>0. TypeOK /\ Len(history) \in Nat
  BY CurrentIsImage, BackupsAssumption DEF IInv
<1>a. ASSUME history' = history, mishaps \subseteq mishaps'
      PROVE  /\ \A image : WasCurrent(image) => \E i \in 1..Len(history') : image = history'[i]
             /\ Undisturbed' => Undisturbed
  BY <1>a DEF WasCurrent, Undisturbed
<1>b. CASE Commit
  <2>1. /\ Len(history') = Len(history) + 1 /\ mishaps' = mishaps
        /\ \A i \in 1..Len(history) : history'[i] = history[i]
    BY <1>0, <1>b, CommitAppends DEF Commit
  <2>2. \A i \in 1..Len(history) : i \in 1..Len(history')
    BY <1>0, <2>1
  <2>3. QED
    BY <2>1, <2>2 DEF WasCurrent, Undisturbed
<1>c. CASE ~Commit
  <2>1. history' = history
    BY <1>c DEF Next, vars, database, BeginCheckpoint, CopyPage, LoadKey, CreateKey, WriteKey,
       Crash, Stop, Die, Tick, BeginBackup, ReadPage, ReadFileFails, ReadDefinitions,
       ReadDefinitionsFails, OpenFile, WriteFile, BackupFails
  <2>2. mishaps \subseteq mishaps'
    BY <1>c DEF Next, vars, database, BeginCheckpoint, CopyPage, LoadKey, CreateKey, WriteKey,
       Crash, Stop, Die, Tick, BeginBackup, ReadPage, ReadFileFails, ReadDefinitions,
       ReadDefinitionsFails, OpenFile, WriteFile, BackupFails
  <2>3. QED
    BY <1>a, <2>1, <2>2
<1>1. QED
  BY <1>b, <1>c

\* The states that panel.db goes through.
LEMMA FileStep ==
  ASSUME IInv, [Next]_vars
  PROVE  FileIsState'
<1> SUFFICES ASSUME Undisturbed'
             PROVE  FileIsState'
  BY DEF FileIsState
<1>0. /\ TypeOK
      /\ copying <= 1 => WasCurrent(mainFile)
      /\ \A p \in Pages : p < copying => mainFile[p] = Current[p]
      /\ copying \in 0..NumPages /\ NumPages \in Nat
      /\ Pages = 1..NumPages
      /\ WasCurrent(Current)
  <2>1. Undisturbed
    BY HistoryStays
  <2>2. Len(history) \in 1..Len(history)
    BY CurrentIsImage, BackupsAssumption DEF IInv
  <2>3. WasCurrent(Current)
    BY <2>2 DEF WasCurrent, Current
  <2>4. QED
    BY <2>1, <2>3, BackupsAssumption DEF IInv, FileIsState, TypeOK, Pages
<1>a. WasCurrent(mainFile) /\ mainFile' = mainFile => WasCurrent(mainFile)'
  BY HistoryStays DEF WasCurrent
<1>b. ASSUME mainFile' = mainFile, copying' = copying, history' = history
      PROVE  FileIsState'
  BY <1>0, <1>a, <1>b DEF Current, FileIsState
<1>1. CASE Commit
  BY <1>1, <1>0, <1>a DEF Commit, FileIsState
<1>2. CASE BeginCheckpoint
  BY <1>2, <1>0, <1>a DEF BeginCheckpoint, FileIsState
<1>3. CASE CopyPage
  <2>1. /\ copying \in Pages /\ history' = history /\ Current' = Current
        /\ mainFile' = [mainFile EXCEPT ![copying] = Current[copying]]
        /\ copying' = IF copying = NumPages THEN 0 ELSE copying + 1
    BY <1>3, <1>0 DEF CopyPage, Current
  <2>2. mainFile \in Image /\ Current \in Image
    BY <1>0, CurrentIsImage DEF TypeOK
  <2>3. \A p \in Pages : p <= copying => mainFile'[p] = Current[p]
    BY <1>0, <2>1, <2>2 DEF Image
  <2>4. CASE copying = NumPages
    <3>1. \A p \in Pages : mainFile'[p] = Current[p]
      BY <1>0, <2>3, <2>4
    <3>2. mainFile' = Current
      BY <2>1, <2>2, <3>1 DEF Image
    <3>3. QED
      BY <1>0, <2>1, <2>4, <3>2 DEF WasCurrent, FileIsState
  <2>5. CASE copying # NumPages
    BY <1>0, <2>1, <2>3, <2>5 DEF FileIsState
  <2>6. QED
    BY <2>4, <2>5
<1>4. CASE LoadKey
  BY <1>4, <1>b DEF LoadKey, database
<1>5. CASE CreateKey
  BY <1>5, <1>b DEF CreateKey, database
<1>6. CASE WriteKey
  BY <1>6, <1>b DEF WriteKey, database
<1>7. CASE Crash
  <2>1. copying <= 1
    <3>1. copying > 1 => "checkpoint_cut" \in mishaps'
      BY <1>7 DEF Crash
    <3>2. QED
      BY <1>0, <3>1 DEF Undisturbed
  <2>2. mainFile' = mainFile /\ copying' = 0
    BY <1>7 DEF Crash, Die
  <2>3. QED
    BY <1>0, <1>a, <2>1, <2>2 DEF FileIsState
<1>8. CASE Stop
  <2>1. mainFile' = Current /\ copying' = 0 /\ history' = history
    BY <1>8 DEF Stop, Die
  <2>2. QED
    BY <1>0, <2>1 DEF WasCurrent, FileIsState
<1>9. CASE Tick
  BY <1>9, <1>b DEF Tick, database
<1>10. ASSUME NEW r \in Reqs, BeginBackup(r) PROVE FileIsState'
  BY <1>10, <1>b DEF BeginBackup, Goto, database
<1>11. ASSUME NEW r \in Reqs, ReadPage(r) PROVE FileIsState'
  BY <1>11, <1>b DEF ReadPage, Goto, database
<1>12. ASSUME NEW r \in Reqs, ReadFileFails(r) PROVE FileIsState'
  BY <1>12, <1>b DEF ReadFileFails, Goto, database
<1>13. ASSUME NEW r \in Reqs, ReadDefinitions(r) PROVE FileIsState'
  BY <1>13, <1>b DEF ReadDefinitions, Goto, database
<1>14. ASSUME NEW r \in Reqs, ReadDefinitionsFails(r) PROVE FileIsState'
  BY <1>14, <1>b DEF ReadDefinitionsFails, Goto, database
<1>15. ASSUME NEW r \in Reqs, OpenFile(r) PROVE FileIsState'
  BY <1>15, <1>b DEF OpenFile, Goto, database
<1>16. ASSUME NEW r \in Reqs, WriteFile(r) PROVE FileIsState'
  BY <1>16, <1>b DEF WriteFile, Finish, Goto, database
<1>17. ASSUME NEW r \in Reqs, BackupFails(r) PROVE FileIsState'
  BY <1>17, <1>b DEF BackupFails, Finish, Goto, database
<1>18. CASE UNCHANGED vars
  BY <1>18, <1>b DEF vars, database, database, secrets, files
<1>19. QED
  BY <1>1, <1>2, <1>3, <1>4, <1>5, <1>6, <1>7, <1>8, <1>9, <1>10, <1>11, <1>12,
     <1>13, <1>14, <1>15, <1>16, <1>17, <1>18 DEF Next

\* What requests have are states of the database.
LEMMA StatesStep ==
  ASSUME IInv, [Next]_vars
  PROVE  ReadsAreStates'
<1> SUFFICES ASSUME Undisturbed'
             PROVE  ReadsAreStates'
  BY DEF ReadsAreStates
<1>0. /\ TypeOK /\ Reading
      /\ copying <= 1 => WasCurrent(mainFile)
      /\ copying \in 0..NumPages /\ NumPages \in Nat /\ Pages = 1..NumPages
      /\ \A r \in Reqs : ReadIsState(r)
  BY HistoryStays, BackupsAssumption DEF IInv, FileIsState, ReadsAreStates, TypeOK, Pages
<1>w. \A image : WasCurrent(image) => \E i \in 1..Len(history') : image = history'[i]
  BY HistoryStays
<1>a. ASSUME NEW q \in Reqs, part'[q] = part[q], pc'[q] = pc[q],
             HalfRead(q) => copying' <= 1 /\ mainFile' = mainFile
      PROVE  ReadIsState(q)'
  <2>1. HalfRead(q)' <=> HalfRead(q)
    BY <1>a DEF HalfRead
  <2>2. HalfRead(q)' => /\ copying' <= 1
                        /\ \A p \in Pages : p < part'[q].next => part'[q].image[p] = mainFile'[p]
    BY <1>0, <1>a, <2>1 DEF ReadIsState
  <2>3. pc'[q] \in {"definitions", "encrypt", "write"} => RightImage(part[q])'
    BY <1>0, <1>a, <1>w DEF ReadIsState, RightImage, WasCurrent
  <2>4. QED
    BY <2>2, <2>3 DEF ReadIsState
<1>b. ASSUME part' = part, pc' = pc, copying' = copying, mainFile' = mainFile PROVE ReadsAreStates'
  BY <1>0, <1>a, <1>b DEF ReadsAreStates, ReadIsState
<1>c. ASSUME pc' = [r \in Reqs |-> "idle"] PROVE ReadsAreStates'
  BY <1>c DEF ReadsAreStates, ReadIsState, HalfRead
<1>d. ASSUME NEW r \in Reqs, ReadIsState(r)', copying' = copying, mainFile' = mainFile,
             \A q \in Reqs \ {r} : part'[q] = part[q] /\ pc'[q] = pc[q]
      PROVE  ReadsAreStates'
  BY <1>0, <1>a, <1>d DEF ReadsAreStates, ReadIsState
<1>1. CASE Commit
  BY <1>1, <1>b DEF Commit
<1>2. CASE BeginCheckpoint
  <2>1. part' = part /\ pc' = pc /\ mainFile' = mainFile /\ copying' = 1
    BY <1>2 DEF BeginCheckpoint
  <2>2. QED
    BY <1>0, <1>a, <2>1 DEF ReadsAreStates
<1>3. CASE CopyPage
  <2>1. part' = part /\ pc' = pc
    BY <1>3 DEF CopyPage
  <2>2. ASSUME NEW q \in Reqs, HalfRead(q) PROVE FALSE
    <3>1. "checkpoint_read" \in mishaps'
      BY <1>3, <2>2 DEF CopyPage
    <3>2. QED
      BY <3>1 DEF Undisturbed
  <2>3. QED
    BY <1>a, <2>1, <2>2 DEF ReadsAreStates
<1>4. CASE LoadKey
  BY <1>4, <1>b DEF LoadKey, database
<1>5. CASE CreateKey
  BY <1>5, <1>b DEF CreateKey, database
<1>6. CASE WriteKey
  BY <1>6, <1>b DEF WriteKey, database
<1>7. CASE Crash
  BY <1>7, <1>c DEF Crash, Die, database
<1>8. CASE Stop
  BY <1>8, <1>c DEF Stop, Die, database
<1>9. CASE Tick
  BY <1>9, <1>b DEF Tick, database
<1>10. ASSUME NEW r \in Reqs, BeginBackup(r) PROVE ReadsAreStates'
  <2>1. part'[r].next = 1 /\ pc'[r] = "database"
    BY <1>10, <1>0 DEF BeginBackup, Goto, TypeOK, NoWork
  <2>2. ReadIsState(r)'
    BY <2>1 DEF ReadIsState, HalfRead
  <2>3. \A q \in Reqs \ {r} : part'[q] = part[q] /\ pc'[q] = pc[q]
    BY <1>10, <1>0 DEF BeginBackup, Goto, TypeOK
  <2>4. copying' = copying /\ mainFile' = mainFile
    BY <1>10 DEF BeginBackup, Goto, database
  <2>5. QED
    BY <1>d, <2>2, <2>3, <2>4
<1>11. ASSUME NEW r \in Reqs, ReadPage(r) PROVE ReadsAreStates'
  <2>1. /\ part[r].image \in Image /\ part[r].next \in Pages /\ pc[r] = "database"
        /\ part[r] \in Work /\ part[r].image # NoImage /\ mainFile \in Image
    BY <1>11, <1>0, BackupsAssumption DEF ReadPage, Reading, TypeOK, Image, Pages
  <2>2. /\ part'[r].image = [part[r].image EXCEPT ![part[r].next] = mainFile[part[r].next]]
        /\ part'[r].next = part[r].next + 1
    BY <1>11, <1>0, <2>1 DEF ReadPage, TypeOK, Work
  <2>3. copying <= 1
    <3>1. copying > 1 => "checkpoint_read" \in mishaps'
      BY <1>11 DEF ReadPage
    <3>2. QED
      BY <1>0, <3>1 DEF Undisturbed
  <2>4. \A p \in Pages : p < part[r].next => part[r].image[p] = mainFile[p]
    BY <1>0, <2>1 DEF ReadIsState, HalfRead
  <2>5. \A p \in Pages : p < part'[r].next => part'[r].image[p] = mainFile[p]
    BY <1>0, <2>1, <2>2, <2>4, SMTT(30) DEF Image
  <2>6. mainFile' = mainFile /\ copying' = copying /\ history' = history
    BY <1>11 DEF ReadPage, database
  <2>7. ASSUME part[r].next = NumPages PROVE ReadIsState(r)'
    <3>1. \A p \in Pages : part'[r].image[p] = mainFile[p]
      BY <1>0, <2>2, <2>5, <2>7
    <3>2. part'[r].image = mainFile
      BY <2>1, <2>2, <3>1 DEF Image
    <3>3. pc'[r] = "definitions"
      BY <1>11, <1>0, <2>7 DEF ReadPage, Goto, TypeOK
    <3>4. QED
      BY <1>0, <2>3, <2>6, <3>2, <3>3 DEF ReadIsState, HalfRead, RightImage, WasCurrent
  <2>8. ASSUME part[r].next # NumPages PROVE ReadIsState(r)'
    <3>1. pc'[r] = "database"
      BY <1>11, <2>1, <2>8 DEF ReadPage
    <3>2. QED
      BY <2>3, <2>5, <2>6, <3>1 DEF ReadIsState
  <2>9. ReadIsState(r)'
    BY <2>7, <2>8
  <2>10. \A q \in Reqs \ {r} : part'[q] = part[q] /\ pc'[q] = pc[q]
    BY <1>11, <1>0 DEF ReadPage, Goto, TypeOK
  <2>11. copying' = copying /\ mainFile' = mainFile
    BY <1>11 DEF ReadPage, Goto, database
  <2>12. QED
    BY <1>d, <2>9, <2>10, <2>11
<1>12. ASSUME NEW r \in Reqs, ReadFileFails(r) PROVE ReadsAreStates'
  <2>1. part'[r].image = NoImage /\ pc'[r] = "definitions"
    BY <1>12, <1>0 DEF ReadFileFails, Goto, TypeOK, Work
  <2>2. ReadIsState(r)'
    BY <2>1 DEF ReadIsState, HalfRead, RightImage
  <2>3. \A q \in Reqs \ {r} : part'[q] = part[q] /\ pc'[q] = pc[q]
    BY <1>12, <1>0 DEF ReadFileFails, Goto, TypeOK
  <2>4. copying' = copying /\ mainFile' = mainFile
    BY <1>12 DEF ReadFileFails, Goto, database
  <2>5. QED
    BY <1>d, <2>2, <2>3, <2>4
<1>13. ASSUME NEW r \in Reqs, ReadDefinitions(r) PROVE ReadsAreStates'
  <2>1. part'[r].image = part[r].image /\ pc[r] = "definitions" /\ pc'[r] = "encrypt"
    BY <1>13, <1>0 DEF ReadDefinitions, Goto, TypeOK, Work
  <2>2. ReadIsState(r)'
    <3>1. part[r].image # NoImage => WasCurrent(part[r].image)
      BY <1>0, <2>1 DEF ReadIsState, RightImage
    <3>2. part[r].image # NoImage => \E i \in 1..Len(history') : part[r].image = history'[i]
      BY <1>w, <3>1
    <3>3. RightImage(part[r])'
      BY <2>1, <3>2 DEF RightImage, WasCurrent
    <3>4. QED
      BY <2>1, <3>3 DEF ReadIsState, HalfRead
  <2>3. \A q \in Reqs \ {r} : part'[q] = part[q] /\ pc'[q] = pc[q]
    BY <1>13, <1>0 DEF ReadDefinitions, Goto, TypeOK
  <2>4. copying' = copying /\ mainFile' = mainFile
    BY <1>13 DEF ReadDefinitions, Goto, database
  <2>5. QED
    BY <1>d, <2>2, <2>3, <2>4
<1>14. ASSUME NEW r \in Reqs, ReadDefinitionsFails(r) PROVE ReadsAreStates'
  <2>1. part'[r].image = part[r].image /\ pc[r] = "definitions" /\ pc'[r] = "encrypt"
    BY <1>14, <1>0 DEF ReadDefinitionsFails, Goto, TypeOK, Work
  <2>2. ReadIsState(r)'
    <3>1. part[r].image # NoImage => WasCurrent(part[r].image)
      BY <1>0, <2>1 DEF ReadIsState, RightImage
    <3>2. part[r].image # NoImage => \E i \in 1..Len(history') : part[r].image = history'[i]
      BY <1>w, <3>1
    <3>3. RightImage(part[r])'
      BY <2>1, <3>2 DEF RightImage, WasCurrent
    <3>4. QED
      BY <2>1, <3>3 DEF ReadIsState, HalfRead
  <2>3. \A q \in Reqs \ {r} : part'[q] = part[q] /\ pc'[q] = pc[q]
    BY <1>14, <1>0 DEF ReadDefinitionsFails, Goto, TypeOK
  <2>4. copying' = copying /\ mainFile' = mainFile
    BY <1>14 DEF ReadDefinitionsFails, Goto, database
  <2>5. QED
    BY <1>d, <2>2, <2>3, <2>4
<1>15. ASSUME NEW r \in Reqs, OpenFile(r) PROVE ReadsAreStates'
  <2>1. part'[r].image = part[r].image /\ pc[r] = "encrypt" /\ pc'[r] = "write"
    BY <1>15, <1>0 DEF OpenFile, Goto, TypeOK, Work
  <2>2. ReadIsState(r)'
    <3>1. part[r].image # NoImage => WasCurrent(part[r].image)
      BY <1>0, <2>1 DEF ReadIsState, RightImage
    <3>2. part[r].image # NoImage => \E i \in 1..Len(history') : part[r].image = history'[i]
      BY <1>w, <3>1
    <3>3. RightImage(part[r])'
      BY <2>1, <3>2 DEF RightImage, WasCurrent
    <3>4. QED
      BY <2>1, <3>3 DEF ReadIsState, HalfRead
  <2>3. \A q \in Reqs \ {r} : part'[q] = part[q] /\ pc'[q] = pc[q]
    BY <1>15, <1>0 DEF OpenFile, Goto, TypeOK
  <2>4. copying' = copying /\ mainFile' = mainFile
    BY <1>15 DEF OpenFile, Goto, database
  <2>5. QED
    BY <1>d, <2>2, <2>3, <2>4
<1>16. ASSUME NEW r \in Reqs, WriteFile(r) PROVE ReadsAreStates'
  <2>1. pc'[r] = "idle"
    BY <1>16, <1>0 DEF WriteFile, Finish, Goto, TypeOK
  <2>2. ReadIsState(r)'
    BY <2>1 DEF ReadIsState, HalfRead
  <2>3. \A q \in Reqs \ {r} : part'[q] = part[q] /\ pc'[q] = pc[q]
    BY <1>16, <1>0 DEF WriteFile, Finish, Goto, TypeOK
  <2>4. copying' = copying /\ mainFile' = mainFile
    BY <1>16 DEF WriteFile, Finish, Goto, database
  <2>5. QED
    BY <1>d, <2>2, <2>3, <2>4
<1>17. ASSUME NEW r \in Reqs, BackupFails(r) PROVE ReadsAreStates'
  <2>1. pc'[r] = "idle"
    BY <1>17, <1>0 DEF BackupFails, Finish, Goto, TypeOK
  <2>2. ReadIsState(r)'
    BY <2>1 DEF ReadIsState, HalfRead
  <2>3. \A q \in Reqs \ {r} : part'[q] = part[q] /\ pc'[q] = pc[q]
    BY <1>17, <1>0 DEF BackupFails, Finish, Goto, TypeOK
  <2>4. copying' = copying /\ mainFile' = mainFile
    BY <1>17 DEF BackupFails, Finish, Goto, database
  <2>5. QED
    BY <1>d, <2>2, <2>3, <2>4
<1>18. CASE UNCHANGED vars
  BY <1>18, <1>b DEF vars, database, database, secrets, files
<1>19. QED
  BY <1>1, <1>2, <1>3, <1>4, <1>5, <1>6, <1>7, <1>8, <1>9, <1>10, <1>11, <1>12,
     <1>13, <1>14, <1>15, <1>16, <1>17, <1>18 DEF Next

\* The archives have states of the database.
LEMMA ImagesStep ==
  ASSUME IInv, [Next]_vars
  PROVE  ImagesAreStates'
<1> SUFFICES ASSUME Undisturbed'
             PROVE  \A n \in 1..LastSecond : Whole(n)' => RightImage(archives[n])'
  BY DEF ImagesAreStates, Undisturbed
<1>0. /\ TypeOK
      /\ \A r \in Reqs : ReadIsState(r)
      /\ \A n \in 1..LastSecond : Whole(n) => RightImage(archives[n])
  BY HistoryStays DEF IInv, ReadsAreStates, ImagesAreStates, Undisturbed
<1>1. \A a : RightImage(a) /\ a.image # NoImage => \E i \in 1..Len(history') : a.image = history'[i]
  BY HistoryStays DEF RightImage
<1>a. ASSUME NEW n \in 1..LastSecond, archives'[n] = archives[n], Whole(n)'
      PROVE  RightImage(archives[n])'
  BY <1>0, <1>1, <1>a DEF Whole, RightImage, WasCurrent
<1>2. CASE archives' = archives
  BY <1>a, <1>2
<1>3. CASE \E r \in Reqs : OpenFile(r)
  <2>1. PICK r \in Reqs : OpenFile(r)
    BY <1>3
  <2>2. \A n \in 1..LastSecond : archives'[n] \in {archives[n], Broken}
    BY <1>0, <2>1 DEF OpenFile, TypeOK
  <2>3. QED
    BY <1>a, <2>2 DEF Whole
<1>4. CASE \E r \in Reqs : WriteFile(r)
  <2>1. PICK r \in Reqs : WriteFile(r)
    BY <1>4
  <2> DEFINE mine == [image |-> part[r].image, defs |-> part[r].defs, key |-> key]
             m == part[r].name
  <2>2. /\ archives' \in {[archives EXCEPT ![m] = mine], archives, [archives EXCEPT ![m] = Broken]}
        /\ pc[r] = "write"
    BY <2>1 DEF WriteFile
  <2>3. RightImage(part[r])
    BY <1>0, <2>2 DEF ReadIsState
  <2>4. mine.image # NoImage => \E i \in 1..Len(history') : mine.image = history'[i]
    BY <1>1, <2>3
  <2> HIDE DEF mine, m
  <2>5. \A n \in 1..LastSecond : archives'[n] \in {archives[n], mine, Broken}
    BY <1>0, <2>2 DEF TypeOK
  <2>6. ASSUME NEW n \in 1..LastSecond, archives'[n] = mine PROVE RightImage(archives[n])'
    BY <2>4, <2>6 DEF RightImage, WasCurrent
  <2>7. QED
    BY <1>a, <2>5, <2>6 DEF Whole
<1>5. archives' = archives \/ (\E r \in Reqs : OpenFile(r)) \/ (\E r \in Reqs : WriteFile(r))
  BY DEF Next, vars, files, Commit, BeginCheckpoint, CopyPage, LoadKey, CreateKey, WriteKey,
     Crash, Stop, Die, Tick, BeginBackup, ReadPage, ReadFileFails, ReadDefinitions,
     ReadDefinitionsFails, BackupFails
<1>6. QED
  BY <1>2, <1>3, <1>4, <1>5

\* The invariant holds at the start.
LEMMA InitInv == Init => IInv
<1> SUFFICES ASSUME Init PROVE IInv
  OBVIOUS
<1> USE BackupsAssumption DEF Init
<1>1. mainFile \in Image
  BY DEF Image
<1>2. history = <<mainFile>> /\ Len(history) = 1 /\ Current = mainFile
  BY DEF Current
<1>3. TypeOK
  BY <1>1, <1>2, NothingDone DEF TypeOK, Stages
<1>4. KeyHeld /\ Reading /\ ReadsFollow /\ OpenFiles /\ ReadsAreStates
  BY DEF KeyHeld, Reading, ReadsFollow, ReadFollows, OpenFiles, ReadsAreStates, ReadIsState, HalfRead
<1>5. PagesGrow
  BY <1>2 DEF PagesGrow
<1>h. HistoryGrows /\ AskedIsKnown
  BY <1>2 DEF HistoryGrows, AskedIsKnown, AskedFor
<1>6. FileIsState
  BY <1>2 DEF FileIsState, WasCurrent, Pages
<1>7. KeptBackupsOpen /\ DefinitionsFollow /\ ImagesAreStates
  BY DEF KeptBackupsOpen, DefinitionsFollow, ImagesAreStates, Whole
<1>8. QED
  BY <1>3, <1>4, <1>5, <1>h, <1>6, <1>7 DEF IInv

\* Every reachable state satisfies IInv.
THEOREM Invariant == Spec => []IInv
<1>1. IInv /\ [Next]_vars => IInv'
  BY TypeStep, KeyStep, ReadingStep, PagesStep, ReadsStep, HistoryStep, AskedStep, KeptStep, ShelfStep, FileStep,
     StatesStep, ImagesStep DEF IInv
<1>2. QED
  BY InitInv, <1>1, PTL DEF Spec

\* The types of the database, the key, the files and the requests.
THEOREM TypeCorrect == Spec => []TypeOK
<1>1. IInv => TypeOK
  BY DEF IInv
<1>2. QED
  BY Invariant, <1>1, PTL

\* A backup that was answered with success can be opened with master.key for ever, unless a
\* key was unreadable or two backups had one second (crypto.go:31-55, backup.go:126-139).
THEOREM BackupsStayOpen == Spec => []KeptBackupsOpen
<1>1. IInv => KeptBackupsOpen
  BY DEF IInv
<1>2. QED
  BY Invariant, <1>1, PTL

\* The definitions in an archive are no older than its stacks table (backup.go:57-94).
THEOREM DefinitionsAreNewer == Spec => []DefinitionsFollow
<1>1. IInv => DefinitionsFollow
  BY DEF IInv
<1>2. QED
  BY Invariant, <1>1, PTL

\* The definitions in a backup have every commit that was there when it was asked for
\* (backup.go:69-94).
THEOREM DefinitionsKeepUp == Spec => []DefinitionsAreCurrent
<1>1. IInv => DefinitionsAreCurrent
  BY DEF IInv, AskedIsKnown, AskedFor, DefinitionsAreCurrent
<1>2. QED
  BY Invariant, <1>1, PTL

\* The database in an archive is one that was there after some commit, unless a checkpoint
\* met its reader or a crash (backup.go:58).
THEOREM ArchivesHoldStates == Spec => []ImagesAreStates
<1>1. IInv => ImagesAreStates
  BY DEF IInv
<1>2. QED
  BY Invariant, <1>1, PTL

-----------------------------------------------------------------------------
(* Archives stay *)

\* No step but OpenFile and WriteFile writes an archive, or promises one.
LEMMA OthersLeaveFiles ==
  ASSUME [Next]_vars
  PROVE  UNCHANGED files \/ (\E r \in Reqs : OpenFile(r) \/ WriteFile(r))
  BY DEF Next, vars, files, Commit, BeginCheckpoint, CopyPage, LoadKey, CreateKey, WriteKey,
     Crash, Stop, Die, Tick, BeginBackup, ReadPage, ReadFileFails, ReadDefinitions,
     ReadDefinitionsFails, BackupFails

\* Two backups that share a second are never forgotten.
LEMMA MishapsStay ==
  ASSUME [Next]_vars
  PROVE  mishaps \subseteq mishaps'
  BY DEF Next, vars, Commit, BeginCheckpoint, CopyPage, LoadKey, CreateKey, WriteKey,
     Crash, Stop, Die, Tick, BeginBackup, ReadPage, ReadFileFails, ReadDefinitions,
     ReadDefinitionsFails, OpenFile, WriteFile, BackupFails

\* Whoever opens the file of a promised backup shares its second; whoever writes one has
\* opened it, so it is not whole.
LEMMA ArchivesStep ==
  ASSUME IInv, PromisedAreWhole, [Next]_vars
  PROVE  /\ promised \subseteq promised'
         /\ "same_second" \notin mishaps' =>
              /\ \A n \in promised : archives'[n] = archives[n]
              /\ \A n \in promised' : Whole(n)'
<1>1. TypeOK /\ OpenFiles /\ KeyHeld
  BY DEF IInv
<1>2. CASE UNCHANGED files
  BY <1>2, MishapsStay DEF files, PromisedAreWhole, Whole
<1>3. ASSUME NEW r \in Reqs, OpenFile(r)
      PROVE  /\ promised' = promised
             /\ "same_second" \notin mishaps' => \A n \in promised : archives'[n] = archives[n]
  <2>1. promised' = promised /\ archives' = [archives EXCEPT ![part[r].name] = Broken]
    BY <1>3 DEF OpenFile
  <2>2. archives[part[r].name] # NoArchive => "same_second" \in mishaps'
    BY <1>3 DEF OpenFile
  <2>3. \A n \in promised : "same_second" \notin mishaps' => archives[n] # NoArchive
    BY MishapsStay DEF PromisedAreWhole, Whole
  <2>4. \A n \in promised : archives'[n] = archives[n] \/ n = part[r].name
    BY <1>1, <2>1 DEF TypeOK
  <2> QED
    BY <2>1, <2>2, <2>3, <2>4
<1>4. ASSUME NEW r \in Reqs, WriteFile(r)
      PROVE  /\ promised' = promised \cup {part[r].name}
             /\ "same_second" \notin mishaps' =>
                  /\ \A n \in promised : archives'[n] = archives[n]
                  /\ archives'[part[r].name] \notin {NoArchive, Broken}
  <2> DEFINE m == part[r].name
             mine == [image |-> part[r].image, defs |-> part[r].defs, key |-> key]
  <2>1. /\ pc[r] = "write" /\ promised' = promised \cup {m} /\ mishaps' = mishaps
        /\ archives' \in {[archives EXCEPT ![m] = mine]} \cup
                           (IF archives[m] = Broken THEN {} ELSE {[archives EXCEPT ![m] = Broken]})
    BY <1>4 DEF WriteFile
  <2>2. part[r] \in Work /\ m \in 1..LastSecond
    BY <1>1 DEF TypeOK, Work
  <2>3. mine \in Archive
    BY <1>1, <2>1, <2>2 DEF TypeOK, KeyHeld, Work, Archive
  <2>4. mine \notin {NoArchive, Broken}
    BY <2>3, FilesAssumption
  <2> HIDE DEF mine, m
  <2>5. ASSUME "same_second" \notin mishaps'
        PROVE  /\ \A n \in promised : archives'[n] = archives[n]
               /\ archives'[m] \notin {NoArchive, Broken}
    <3>1. archives[m] = Broken
      BY <1>1, <2>1, <2>5 DEF OpenFiles, m
    <3>2. archives' = [archives EXCEPT ![m] = mine]
      BY <2>1, <3>1
    <3>3. m \notin promised
      BY <2>1, <2>5, <3>1 DEF PromisedAreWhole, Whole
    <3>4. archives'[m] = mine
      BY <1>1, <2>2, <3>2 DEF TypeOK
    <3>5. \A n \in promised : archives'[n] = archives[n]
      <4> TAKE n \in promised
      <4>1. n \in 1..LastSecond /\ n # m
        BY <1>1, <3>3 DEF TypeOK
      <4> QED
        BY <1>1, <3>2, <4>1 DEF TypeOK
    <3> QED
      BY <2>4, <3>4, <3>5
  <2> QED
    BY <2>1, <2>5 DEF m
<1>5. ASSUME NEW r \in Reqs, OpenFile(r) \/ WriteFile(r)
      PROVE  /\ promised \subseteq promised'
             /\ "same_second" \notin mishaps' =>
                  /\ \A n \in promised : archives'[n] = archives[n]
                  /\ \A n \in promised' : Whole(n)'
  <2>1. "same_second" \notin mishaps' => \A n \in promised : Whole(n)
    BY MishapsStay DEF PromisedAreWhole
  <2>2. CASE OpenFile(r)
    BY <1>3, <2>1, <2>2 DEF Whole
  <2>3. CASE WriteFile(r)
    <3>1. \A n \in promised' : n \in promised \/ n = part[r].name
      BY <1>4, <2>3
    <3> QED
      BY <1>4, <2>1, <2>3, <3>1 DEF Whole
  <2> QED
    BY <1>5, <2>2, <2>3
<1> QED
  BY <1>2, <1>5, OthersLeaveFiles

\* A backup that was answered with success stays on disk as it was written, whatever other
\* backups, ends of the core and new keys come, unless two backups have one second
\* (backup.go:50, 132-147).
THEOREM KeptBackupsAreLeft == Spec => []PromisedAreWhole /\ KeptBackupsStay
<1>1. Init => PromisedAreWhole
  BY DEF Init, PromisedAreWhole
<1>2. IInv /\ PromisedAreWhole /\ [Next]_vars => PromisedAreWhole'
  BY ArchivesStep DEF PromisedAreWhole
<1>3. IInv /\ PromisedAreWhole /\ [Next]_vars =>
        [\A n \in promised :
           /\ n \in promised'
           /\ "same_second" \notin mishaps' => archives'[n] = archives[n]]_vars
  BY ArchivesStep
<1>4. QED
  BY Invariant, <1>1, <1>2, <1>3, PTL DEF Spec, KeptBackupsStay
=============================================================================

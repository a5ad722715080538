-------------------------- MODULE StackStoreProofs --------------------------
(***************************************************************************)
(* What StackStore guarantees for any number of stacks, contents, ids and  *)
(* concurrent requests.  The invariant IInv of StackStore carries it: one  *)
(* lemma for each of its conjuncts, then the theorems.                     *)
(***************************************************************************)
EXTENDS StackStore, TLAPS

-----------------------------------------------------------------------------
(* Facts about ids and copies *)

\* Where ids come from, and that none of them is NoId.
LEMMA IdFacts ==
  /\ FreshIds \subseteq Ids
  /\ \A n \in Names : DiscoveredId(n) \in Ids
  /\ NoId \notin Ids
  /\ Importer \in Procs
  /\ Reqs \subseteq Procs
  /\ Importer \notin Reqs
BY StoreAssumption DEF Ids, Keys, Procs

\* A stack is its three columns.
LEMMA StackColumns ==
  ASSUME NEW d \in Stack
  PROVE  /\ d.id \in Ids /\ d.id # NoId
         /\ d.name \in Names
         /\ d.content \in EmptyOr(Contents)
         /\ d # NoStack
BY IdFacts, StoreAssumption DEF Stack, NoStack

\* A row that is there has an id, and the copy of it is a stack.
LEMMA CopyIsStack ==
  ASSUME TypeOK, NEW n \in Names, Exists(n)
  PROVE  /\ rows[n].id \in Ids
         /\ rows[n].content \in EmptyOr(Contents)
         /\ CopyOf(n) \in Stack
         /\ CopyOf(n).id = rows[n].id
         /\ CopyOf(n).name = n
         /\ CopyOf(n).content = rows[n].content
BY IdFacts DEF TypeOK, Exists, CopyOf, NoRow, Stack

\* The upsert writes a row of the right type.
LEMMA UpsertTypes ==
  ASSUME TypeOK, NEW d \in Stack, UpsertStack(d)
  PROVE  /\ rows' \in [Names -> [id : Ids, content : EmptyOr(Contents)] \cup {NoRow}]
         /\ mishaps' \in SUBSET {"delete", "collision", "db_error"}
<1>1. d.id \in Ids /\ d.name \in Names /\ d.content \in EmptyOr(Contents)
  BY StackColumns
<1>2. (IF Exists(d.name) THEN rows[d.name].id ELSE d.id) \in Ids
  BY <1>1, CopyIsStack
<1>3. QED
  BY <1>1, <1>2 DEF UpsertStack, TypeOK

-----------------------------------------------------------------------------
(* The parts of the invariant, step by step *)

\* Every variable starts out within its type and with nothing in progress.
LEMMA InitInvariant == Init => IInv
<1> SUFFICES ASSUME Init PROVE IInv
  OBVIOUS
<1> USE StoreAssumption DEF Init, NoRow, NoStack, EmptyOr
<1>1. TypeOK
  BY DEF TypeOK, Stages
<1>2. HasStack /\ LocksHeld
  BY IdFacts DEF HasStack, LocksHeld, Working
<1>3. CopiesMatchRows
  BY IdFacts DEF CopiesMatchRows, FromRow, Working
<1>4. CopiesAreKept
  BY IdFacts DEF CopiesAreKept, FromRow, Working, Kept
<1>5. IdsAreMeant /\ IdsNameOneRow /\ RevisionsHaveRows
  BY IdFacts DEF IdsAreMeant, IdsNameOneRow, RevisionsHaveRows, Exists
<1>6. QED
  BY <1>1, <1>2, <1>3, <1>4, <1>5 DEF IInv

\* Each step keeps the types; the upserts need to know that there is a stack.
LEMMA TypeStep ==
  ASSUME TypeOK, HasStack, [Next]_vars
  PROVE  TypeOK'
<1> USE IdFacts DEF TypeOK, Stages, AllHandlers, EmptyOr, store, agentSide, local
<1>1. ASSUME NEW r \in Reqs, NEW h \in Handlers, NEW k \in Keys, NEW c \in EmptyOr(Contents), Begin(r, h, k, c)
     PROVE  TypeOK'
  BY <1>1, CopyIsStack DEF Begin, Lookup, Goto
<1>2. ASSUME NEW r \in Reqs, List(r) PROVE TypeOK'
  BY <1>2 DEF List, Goto
<1>3. ASSUME NEW r \in Reqs, ListContainers(r) PROVE TypeOK'
  BY <1>3, IdFacts DEF ListContainers, Goto, Stack
<1>4. ASSUME NEW r \in Reqs, ReadRows(r) PROVE TypeOK'
  BY <1>4, CopyIsStack DEF ReadRows, Goto
<1>5. ASSUME NEW r \in Reqs, NEW d \in todo[r], FillFromFile(r, d) PROVE TypeOK'
  BY <1>5 DEF FillFromFile, Stack
<1>6. ASSUME NEW r \in Reqs, NEW d \in todo[r], SyncWrite(r, d) PROVE TypeOK'
  BY <1>6, UpsertTypes DEF SyncWrite
<1>7. ASSUME NEW r \in Reqs, SyncEnds(r) PROVE TypeOK'
  BY <1>7 DEF SyncEnds, Finish, Goto
<1>8. ASSUME NEW r \in Reqs, NEW n \in Names, NEW i \in FreshIds, NEW c \in Contents, BeginCreate(r, n, i, c)
     PROVE  TypeOK'
  BY <1>8, IdFacts DEF BeginCreate, Goto, Stack
<1>9. ASSUME NEW r \in Reqs, NEW n \in Names, NEW c \in Contents, BeginRestore(r, n, c)
     PROVE  TypeOK'
  BY <1>9, CopyIsStack DEF BeginRestore, Goto
<1>10. ASSUME NEW r \in Reqs, SaveContent(r) PROVE TypeOK'
  <2> DEFINE d == [st[r] EXCEPT !.content = new[r]]
  <2>1. d \in Stack /\ UpsertStack(d)
    BY <1>10 DEF SaveContent, HasStack, Stack
  <2> HIDE DEF d
  <2>2. /\ rows' \in [Names -> [id : Ids, content : EmptyOr(Contents)] \cup {NoRow}]
        /\ mishaps' \in SUBSET {"delete", "collision", "db_error"}
    BY <2>1, UpsertTypes
  <2>3. /\ Finish(r) \/ (Goto(r, "saved") /\ UNCHANGED local)
        /\ UNCHANGED <<revisions, issued, agentSide, locks>>
    BY <1>10 DEF SaveContent
  <2>4. QED
    BY <2>2, <2>3 DEF Finish, Goto
<1>11. ASSUME NEW r \in Reqs, Refuse(r) PROVE TypeOK'
  BY <1>11 DEF Refuse, Finish, Goto
<1>12. ASSUME NEW r \in Reqs, AddRevision(r) PROVE TypeOK'
  BY <1>12, StackColumns DEF AddRevision, Finish, Goto, HasStack
<1>13. ASSUME NEW r \in Reqs, RevisionFails(r) PROVE TypeOK'
  BY <1>13 DEF RevisionFails, Finish, Goto
<1>14. ASSUME NEW r \in Reqs, StartDelete(r) PROVE TypeOK'
  BY <1>14 DEF StartDelete, Goto
<1>15. ASSUME NEW r \in Reqs, EndDelete(r) PROVE TypeOK'
  BY <1>15 DEF EndDelete, Goto
<1>16. ASSUME NEW r \in Reqs, DeleteRow(r) PROVE TypeOK'
  BY <1>16 DEF DeleteRow, Finish, Goto
<1>17. ASSUME NEW r \in Reqs, Submit(r) PROVE TypeOK'
  BY <1>17 DEF Submit, Goto
<1>18. ASSUME NEW r \in Reqs, Conflict(r) PROVE TypeOK'
  BY <1>18 DEF Conflict, Finish, Goto
<1>19. ASSUME NEW r \in Reqs, SaveFiles(r) PROVE TypeOK'
  BY <1>19, StackColumns DEF SaveFiles, Goto, HasStack, Working
<1>20. ASSUME NEW r \in Reqs, StartCompose(r) PROVE TypeOK'
  BY <1>20, StackColumns DEF StartCompose, Goto, HasStack, Working
<1>21. ASSUME NEW r \in Reqs, EndJob(r) PROVE TypeOK'
  <2>1. PICK c \in {new[r], NoContent, deployed[st[r].name]} :
          deployed' = [deployed EXCEPT ![st[r].name] = c]
    BY <1>21 DEF EndJob
  <2>2. st[r] \in Stack
    BY <1>21 DEF EndJob, HasStack, Working
  <2>3. c \in EmptyOr(Contents)
    BY <2>2, StackColumns DEF EmptyOr
  <2>4. deployed' \in [Names -> EmptyOr(Contents)]
    BY <2>1, <2>3
  <2>5. QED
    BY <1>21, <2>4 DEF EndJob, Finish, Goto
<1>22. ASSUME NEW r \in Reqs, FailJob(r) PROVE TypeOK'
  BY <1>22 DEF FailJob, Finish, Goto
<1>23. ASSUME Discover PROVE TypeOK'
  BY <1>23, IdFacts DEF Discover, Goto, Stack
<1>24. ASSUME NEW d \in todo[Importer], TakeUnknown(d) PROVE TypeOK'
  BY <1>24 DEF TakeUnknown, Goto
<1>25. ASSUME NEW d \in todo[Importer], SkipKnown(d) PROVE TypeOK'
  BY <1>25 DEF SkipKnown, Goto
<1>26. ASSUME Import PROVE TypeOK'
  <2>1. st[Importer] \in Stack
    BY <1>26, IdFacts DEF Import, HasStack
  <2>2. QED
    BY <1>26, <2>1, UpsertTypes DEF Import, Goto
<1>27. CASE UNCHANGED vars
  BY <1>27 DEF vars
<1>28. QED
  BY <1>1, <1>2, <1>3, <1>4, <1>5, <1>6, <1>7, <1>8, <1>9, <1>10, <1>11, <1>12, <1>13,
     <1>14, <1>15, <1>16, <1>17, <1>18, <1>19, <1>20, <1>21, <1>22, <1>23, <1>24, <1>25, <1>26, <1>27
     DEF Next, Request, DiscoverExistingStacks

\* A request reaches the stages that use its copy only with one in hand.
LEMMA HasStackStep ==
  ASSUME TypeOK, HasStack, [Next]_vars
  PROVE  HasStack'
<1> USE IdFacts DEF TypeOK, HasStack, Working, EmptyOr, store, agentSide, local
<1>1. ASSUME NEW r \in Reqs, NEW h \in Handlers, NEW k \in Keys, NEW c \in EmptyOr(Contents), Begin(r, h, k, c)
     PROVE  HasStack'
  BY <1>1, CopyIsStack DEF Begin, Lookup, Goto
<1>2. ASSUME NEW r \in Reqs, List(r) PROVE HasStack'
  BY <1>2 DEF List, Goto
<1>3. ASSUME NEW r \in Reqs, ListContainers(r) PROVE HasStack'
  BY <1>3 DEF ListContainers, Goto
<1>4. ASSUME NEW r \in Reqs, ReadRows(r) PROVE HasStack'
  BY <1>4 DEF ReadRows, Goto
<1>5. ASSUME NEW r \in Reqs, NEW d \in todo[r], FillFromFile(r, d) PROVE HasStack'
  BY <1>5 DEF FillFromFile, Goto
<1>6. ASSUME NEW r \in Reqs, NEW d \in todo[r], SyncWrite(r, d) PROVE HasStack'
  BY <1>6 DEF SyncWrite, Goto
<1>7. ASSUME NEW r \in Reqs, SyncEnds(r) PROVE HasStack'
  BY <1>7 DEF SyncEnds, Finish, Goto
<1>8. ASSUME NEW r \in Reqs, NEW n \in Names, NEW i \in FreshIds, NEW c \in Contents, BeginCreate(r, n, i, c)
     PROVE  HasStack'
  BY <1>8, IdFacts DEF BeginCreate, Goto, Stack
<1>9. ASSUME NEW r \in Reqs, NEW n \in Names, NEW c \in Contents, BeginRestore(r, n, c)
     PROVE  HasStack'
  BY <1>9, CopyIsStack DEF BeginRestore, Goto
<1>10. ASSUME NEW r \in Reqs, SaveContent(r) PROVE HasStack'
  BY <1>10 DEF SaveContent, Finish, Goto
<1>11. ASSUME NEW r \in Reqs, Refuse(r) PROVE HasStack'
  BY <1>11 DEF Refuse, Finish, Goto
<1>12. ASSUME NEW r \in Reqs, AddRevision(r) PROVE HasStack'
  BY <1>12 DEF AddRevision, Finish, Goto
<1>13. ASSUME NEW r \in Reqs, RevisionFails(r) PROVE HasStack'
  BY <1>13 DEF RevisionFails, Finish, Goto
<1>14. ASSUME NEW r \in Reqs, StartDelete(r) PROVE HasStack'
  BY <1>14 DEF StartDelete, Goto
<1>15. ASSUME NEW r \in Reqs, EndDelete(r) PROVE HasStack'
  BY <1>15 DEF EndDelete, Goto
<1>16. ASSUME NEW r \in Reqs, DeleteRow(r) PROVE HasStack'
  BY <1>16 DEF DeleteRow, Finish, Goto
<1>17. ASSUME NEW r \in Reqs, Submit(r) PROVE HasStack'
  BY <1>17 DEF Submit, Goto
<1>18. ASSUME NEW r \in Reqs, Conflict(r) PROVE HasStack'
  BY <1>18 DEF Conflict, Finish, Goto
<1>19. ASSUME NEW r \in Reqs, SaveFiles(r) PROVE HasStack'
  BY <1>19 DEF SaveFiles, Goto
<1>20. ASSUME NEW r \in Reqs, StartCompose(r) PROVE HasStack'
  BY <1>20 DEF StartCompose, Goto
<1>21. ASSUME NEW r \in Reqs, EndJob(r) PROVE HasStack'
  BY <1>21 DEF EndJob, Finish, Goto
<1>22. ASSUME NEW r \in Reqs, FailJob(r) PROVE HasStack'
  BY <1>22 DEF FailJob, Finish, Goto
<1>23. ASSUME Discover PROVE HasStack'
  BY <1>23 DEF Discover, Goto
<1>24. ASSUME NEW d \in todo[Importer], TakeUnknown(d) PROVE HasStack'
  BY <1>24 DEF TakeUnknown, Goto
<1>25. ASSUME NEW d \in todo[Importer], SkipKnown(d) PROVE HasStack'
  BY <1>25 DEF SkipKnown, Goto
<1>26. ASSUME Import PROVE HasStack'
  BY <1>26 DEF Import, Goto
<1>27. CASE UNCHANGED vars
  BY <1>27 DEF vars
<1>28. QED
  BY <1>1, <1>2, <1>3, <1>4, <1>5, <1>6, <1>7, <1>8, <1>9, <1>10, <1>11, <1>12, <1>13,
     <1>14, <1>15, <1>16, <1>17, <1>18, <1>19, <1>20, <1>21, <1>22, <1>23, <1>24, <1>25, <1>26, <1>27
     DEF Next, Request, DiscoverExistingStacks

\* A job takes a mutex that nobody holds and gives back only its own.
LEMMA LocksHeldStep ==
  ASSUME TypeOK, HasStack, LocksHeld, [Next]_vars
  PROVE  LocksHeld'
<1> USE IdFacts, StoreAssumption DEF TypeOK, HasStack, LocksHeld, Working, store, agentSide, local
<1>1. ASSUME NEW r \in Reqs, NEW h \in Handlers, NEW k \in Keys, NEW c \in EmptyOr(Contents), Begin(r, h, k, c)
     PROVE  LocksHeld'
  BY <1>1 DEF Begin, Goto
<1>2. ASSUME NEW r \in Reqs, List(r) PROVE LocksHeld'
  BY <1>2 DEF List, Goto
<1>3. ASSUME NEW r \in Reqs, ListContainers(r) PROVE LocksHeld'
  BY <1>3 DEF ListContainers, Goto
<1>4. ASSUME NEW r \in Reqs, ReadRows(r) PROVE LocksHeld'
  BY <1>4 DEF ReadRows, Goto
<1>5. ASSUME NEW r \in Reqs, NEW d \in todo[r], FillFromFile(r, d) PROVE LocksHeld'
  BY <1>5 DEF FillFromFile, Goto
<1>6. ASSUME NEW r \in Reqs, NEW d \in todo[r], SyncWrite(r, d) PROVE LocksHeld'
  BY <1>6 DEF SyncWrite, Goto
<1>7. ASSUME NEW r \in Reqs, SyncEnds(r) PROVE LocksHeld'
  BY <1>7 DEF SyncEnds, Finish, Goto
<1>8. ASSUME NEW r \in Reqs, NEW n \in Names, NEW i \in FreshIds, NEW c \in Contents, BeginCreate(r, n, i, c)
     PROVE  LocksHeld'
  BY <1>8 DEF BeginCreate, Goto
<1>9. ASSUME NEW r \in Reqs, NEW n \in Names, NEW c \in Contents, BeginRestore(r, n, c)
     PROVE  LocksHeld'
  BY <1>9 DEF BeginRestore, Goto
<1>10. ASSUME NEW r \in Reqs, SaveContent(r) PROVE LocksHeld'
  BY <1>10 DEF SaveContent, Finish, Goto
<1>11. ASSUME NEW r \in Reqs, Refuse(r) PROVE LocksHeld'
  BY <1>11 DEF Refuse, Finish, Goto
<1>12. ASSUME NEW r \in Reqs, AddRevision(r) PROVE LocksHeld'
  BY <1>12 DEF AddRevision, Finish, Goto
<1>13. ASSUME NEW r \in Reqs, RevisionFails(r) PROVE LocksHeld'
  BY <1>13 DEF RevisionFails, Finish, Goto
<1>14. ASSUME NEW r \in Reqs, StartDelete(r) PROVE LocksHeld'
  BY <1>14 DEF StartDelete, Goto
<1>15. ASSUME NEW r \in Reqs, EndDelete(r) PROVE LocksHeld'
  BY <1>15 DEF EndDelete, Goto
<1>16. ASSUME NEW r \in Reqs, DeleteRow(r) PROVE LocksHeld'
  BY <1>16 DEF DeleteRow, Finish, Goto
<1>17. ASSUME NEW r \in Reqs, Submit(r) PROVE LocksHeld'
  BY <1>17, StackColumns DEF Submit, Goto, HasStack
<1>18. ASSUME NEW r \in Reqs, Conflict(r) PROVE LocksHeld'
  BY <1>18 DEF Conflict, Finish, Goto
<1>19. ASSUME NEW r \in Reqs, SaveFiles(r) PROVE LocksHeld'
  BY <1>19 DEF SaveFiles, Goto
<1>20. ASSUME NEW r \in Reqs, StartCompose(r) PROVE LocksHeld'
  BY <1>20 DEF StartCompose, Goto
<1>21. ASSUME NEW r \in Reqs, EndJob(r) PROVE LocksHeld'
  BY <1>21, StackColumns DEF EndJob, Finish, Goto
<1>22. ASSUME NEW r \in Reqs, FailJob(r) PROVE LocksHeld'
  BY <1>22, StackColumns DEF FailJob, Finish, Goto
<1>23. ASSUME Discover PROVE LocksHeld'
  BY <1>23 DEF Discover, Goto
<1>24. ASSUME NEW d \in todo[Importer], TakeUnknown(d) PROVE LocksHeld'
  BY <1>24 DEF TakeUnknown, Goto
<1>25. ASSUME NEW d \in todo[Importer], SkipKnown(d) PROVE LocksHeld'
  BY <1>25 DEF SkipKnown, Goto
<1>26. ASSUME Import PROVE LocksHeld'
  BY <1>26 DEF Import, Goto
<1>27. CASE UNCHANGED vars
  BY <1>27 DEF vars
<1>28. QED
  BY <1>1, <1>2, <1>3, <1>4, <1>5, <1>6, <1>7, <1>8, <1>9, <1>10, <1>11, <1>12, <1>13,
     <1>14, <1>15, <1>16, <1>17, <1>18, <1>19, <1>20, <1>21, <1>22, <1>23, <1>24, <1>25, <1>26, <1>27
     DEF Next, Request, DiscoverExistingStacks

-----------------------------------------------------------------------------
(* What a step does to rows *)

\* The upsert changes one row at most, keeps its id if it has one, and owns up to it if
\* it is refused or if that is not the id of the copy.
LEMMA UpsertRow ==
  ASSUME TypeOK, NEW d \in Stack, UpsertStack(d)
  PROVE  /\ \A n \in Names \ {d.name} : rows'[n] = rows[n]
         /\ Exists(d.name) => rows'[d.name].id = rows[d.name].id
         /\ "collision" \notin mishaps' =>
              /\ ~Refused(d)
              /\ rows'[d.name].id = d.id
              /\ rows'[d.name].content = d.content
         /\ mishaps \subseteq mishaps'
BY StackColumns, CopyIsStack DEF UpsertStack, Refused, TypeOK

\* Mishaps are never forgotten, and without deletes rows and revisions stay.
LEMMA RowsKeepIds ==
  ASSUME TypeOK, HasStack, [Next]_vars
  PROVE  /\ mishaps \subseteq mishaps'
         /\ "delete" \notin mishaps' =>
              /\ \A n \in Names : Exists(n) => rows'[n].id = rows[n].id
              /\ revisions \subseteq revisions'
<1> DEFINE Goal ==
         /\ mishaps \subseteq mishaps'
         /\ "delete" \notin mishaps' =>
              /\ \A n \in Names : Exists(n) => rows'[n].id = rows[n].id
              /\ revisions \subseteq revisions'
<1> USE IdFacts DEF store, agentSide, local
<1>1. ASSUME NEW r \in Reqs, NEW h \in Handlers, NEW k \in Keys, NEW c \in EmptyOr(Contents), Begin(r, h, k, c)
     PROVE  Goal
  BY <1>1 DEF Begin, Goto
<1>2. ASSUME NEW r \in Reqs, List(r) PROVE Goal
  BY <1>2 DEF List, Goto
<1>3. ASSUME NEW r \in Reqs, ListContainers(r) PROVE Goal
  BY <1>3 DEF ListContainers, Goto
<1>4. ASSUME NEW r \in Reqs, ReadRows(r) PROVE Goal
  BY <1>4 DEF ReadRows, Goto
<1>5. ASSUME NEW r \in Reqs, NEW d \in todo[r], FillFromFile(r, d) PROVE Goal
  BY <1>5 DEF FillFromFile, Goto
<1>6. ASSUME NEW r \in Reqs, NEW d \in todo[r], SyncWrite(r, d) PROVE Goal
  <2>1. d \in Stack
    BY IdFacts DEF TypeOK
  <2>2. QED
    BY <1>6, <2>1, UpsertRow DEF SyncWrite
<1>7. ASSUME NEW r \in Reqs, SyncEnds(r) PROVE Goal
  BY <1>7 DEF SyncEnds, Goto
<1>8. ASSUME NEW r \in Reqs, NEW n \in Names, NEW i \in FreshIds, NEW c \in Contents, BeginCreate(r, n, i, c)
     PROVE  Goal
  BY <1>8 DEF BeginCreate, Goto
<1>9. ASSUME NEW r \in Reqs, NEW n \in Names, NEW c \in Contents, BeginRestore(r, n, c) PROVE Goal
  BY <1>9 DEF BeginRestore, Goto
<1>10. ASSUME NEW r \in Reqs, SaveContent(r) PROVE Goal
  <2>1. [st[r] EXCEPT !.content = new[r]] \in Stack
    BY <1>10 DEF SaveContent, HasStack, Stack, TypeOK
  <2>2. QED
    BY <1>10, <2>1, UpsertRow DEF SaveContent
<1>11. ASSUME NEW r \in Reqs, Refuse(r) PROVE Goal
  BY <1>11 DEF Refuse, Goto
<1>12. ASSUME NEW r \in Reqs, AddRevision(r) PROVE Goal
  BY <1>12 DEF AddRevision, Finish, Goto
<1>13. ASSUME NEW r \in Reqs, RevisionFails(r) PROVE Goal
  BY <1>13 DEF RevisionFails, Finish, Goto
<1>14. ASSUME NEW r \in Reqs, StartDelete(r) PROVE Goal
  BY <1>14 DEF StartDelete, Goto
<1>15. ASSUME NEW r \in Reqs, EndDelete(r) PROVE Goal
  BY <1>15 DEF EndDelete, Goto
<1>16. ASSUME NEW r \in Reqs, DeleteRow(r) PROVE Goal
  BY <1>16 DEF DeleteRow, Finish, Goto, NoRow, Exists, TypeOK
<1>17. ASSUME NEW r \in Reqs, Submit(r) PROVE Goal
  BY <1>17 DEF Submit, Goto
<1>18. ASSUME NEW r \in Reqs, Conflict(r) PROVE Goal
  BY <1>18 DEF Conflict, Goto
<1>19. ASSUME NEW r \in Reqs, SaveFiles(r) PROVE Goal
  BY <1>19 DEF SaveFiles, Goto
<1>20. ASSUME NEW r \in Reqs, StartCompose(r) PROVE Goal
  BY <1>20 DEF StartCompose, Goto
<1>21. ASSUME NEW r \in Reqs, EndJob(r) PROVE Goal
  BY <1>21 DEF EndJob, Goto
<1>22. ASSUME NEW r \in Reqs, FailJob(r) PROVE Goal
  BY <1>22 DEF FailJob, Goto
<1>23. ASSUME Discover PROVE Goal
  BY <1>23 DEF Discover, Goto
<1>24. ASSUME NEW d \in todo[Importer], TakeUnknown(d) PROVE Goal
  BY <1>24 DEF TakeUnknown, Goto
<1>25. ASSUME NEW d \in todo[Importer], SkipKnown(d) PROVE Goal
  BY <1>25 DEF SkipKnown, Goto
<1>26. ASSUME Import PROVE Goal
  <2>1. st[Importer] \in Stack
    BY <1>26, IdFacts DEF Import, HasStack
  <2>2. QED
    BY <1>26, <2>1, UpsertRow DEF Import
<1>27. CASE UNCHANGED vars
  BY <1>27 DEF vars
<1>28. QED
  BY <1>1, <1>2, <1>3, <1>4, <1>5, <1>6, <1>7, <1>8, <1>9, <1>10, <1>11, <1>12, <1>13,
     <1>14, <1>15, <1>16, <1>17, <1>18, <1>19, <1>20, <1>21, <1>22, <1>23, <1>24, <1>25, <1>26, <1>27
     DEF Next, Request, DiscoverExistingStacks

\* The copies that came from rows keep up with them: the ids do not change.
LEMMA CopiesMatchRowsStep ==
  ASSUME TypeOK, HasStack, CopiesMatchRows, [Next]_vars
  PROVE  CopiesMatchRows'
<1> SUFFICES ASSUME mishaps' \cap {"delete", "collision"} = {}
             PROVE  \A p \in Reqs : FromRow(p)' => rows'[st'[p].name].id = st'[p].id
  BY DEF CopiesMatchRows
<1> DEFINE Goal == \A p \in Reqs : FromRow(p)' => rows'[st'[p].name].id = st'[p].id
<1>a. \A p \in Reqs : FromRow(p) =>
         /\ st[p] \in Stack
         /\ rows[st[p].name].id = st[p].id
         /\ rows'[st[p].name].id = st[p].id
  <2>1. mishaps \cap {"delete", "collision"} = {}
    BY RowsKeepIds
  <2>2. ASSUME NEW p \in Reqs, FromRow(p)
        PROVE  st[p] \in Stack /\ rows[st[p].name].id = st[p].id
    BY <2>1, <2>2, IdFacts DEF CopiesMatchRows, FromRow, HasStack, TypeOK
  <2>3. QED
    BY <2>2, RowsKeepIds, StackColumns DEF Exists
<1> USE <1>a, IdFacts DEF TypeOK, HasStack, FromRow, Working, store, agentSide, local
<1>1. ASSUME NEW r \in Reqs, NEW h \in Handlers, NEW k \in Keys, NEW c \in EmptyOr(Contents), Begin(r, h, k, c)
     PROVE  Goal
  BY <1>1, CopyIsStack DEF Begin, Lookup, Goto
<1>2. ASSUME NEW r \in Reqs, List(r) PROVE Goal
  BY <1>2 DEF List, Goto
<1>3. ASSUME NEW r \in Reqs, ListContainers(r) PROVE Goal
  BY <1>3 DEF ListContainers, Goto
<1>4. ASSUME NEW r \in Reqs, ReadRows(r) PROVE Goal
  BY <1>4 DEF ReadRows, Goto
<1>5. ASSUME NEW r \in Reqs, NEW d \in todo[r], FillFromFile(r, d) PROVE Goal
  BY <1>5 DEF FillFromFile, Goto
<1>6. ASSUME NEW r \in Reqs, NEW d \in todo[r], SyncWrite(r, d) PROVE Goal
  <2>1. d \in Stack
    OBVIOUS
  <2>2. rows'[d.name].id = d.id
    BY <1>6, <2>1, UpsertRow DEF SyncWrite
  <2>3. QED
    BY <1>6, <2>1, <2>2, StackColumns DEF SyncWrite
<1>7. ASSUME NEW r \in Reqs, SyncEnds(r) PROVE Goal
  BY <1>7 DEF SyncEnds, Finish, Goto
<1>8. ASSUME NEW r \in Reqs, NEW n \in Names, NEW i \in FreshIds, NEW c \in Contents, BeginCreate(r, n, i, c)
     PROVE  Goal
  BY <1>8 DEF BeginCreate, Goto
<1>9. ASSUME NEW r \in Reqs, NEW n \in Names, NEW c \in Contents, BeginRestore(r, n, c) PROVE Goal
  BY <1>9, CopyIsStack DEF BeginRestore, Goto
<1>10. ASSUME NEW r \in Reqs, SaveContent(r) PROVE Goal
  <2> DEFINE d == [st[r] EXCEPT !.content = new[r]]
  <2>1. d \in Stack /\ d.name = st[r].name /\ d.id = st[r].id
    BY <1>10 DEF SaveContent, Stack
  <2> HIDE DEF d
  <2>2. ~Refused(d) /\ rows'[d.name].id = d.id
    BY <1>10, <2>1, UpsertRow DEF SaveContent, d
  <2>3. QED
    BY <1>10, <2>1, <2>2 DEF SaveContent, Goto, d
<1>11. ASSUME NEW r \in Reqs, Refuse(r) PROVE Goal
  BY <1>11 DEF Refuse, Finish, Goto
<1>12. ASSUME NEW r \in Reqs, AddRevision(r) PROVE Goal
  BY <1>12 DEF AddRevision, Finish, Goto
<1>13. ASSUME NEW r \in Reqs, RevisionFails(r) PROVE Goal
  BY <1>13 DEF RevisionFails, Finish, Goto
<1>14. ASSUME NEW r \in Reqs, StartDelete(r) PROVE Goal
  BY <1>14 DEF StartDelete, Goto
<1>15. ASSUME NEW r \in Reqs, EndDelete(r) PROVE Goal
  BY <1>15 DEF EndDelete, Goto
<1>16. ASSUME NEW r \in Reqs, DeleteRow(r) PROVE Goal
  BY <1>16 DEF DeleteRow, Finish, Goto
<1>17. ASSUME NEW r \in Reqs, Submit(r) PROVE Goal
  BY <1>17 DEF Submit, Goto
<1>18. ASSUME NEW r \in Reqs, Conflict(r) PROVE Goal
  BY <1>18 DEF Conflict, Finish, Goto
<1>19. ASSUME NEW r \in Reqs, SaveFiles(r) PROVE Goal
  BY <1>19 DEF SaveFiles, Goto
<1>20. ASSUME NEW r \in Reqs, StartCompose(r) PROVE Goal
  BY <1>20 DEF StartCompose, Goto
<1>21. ASSUME NEW r \in Reqs, EndJob(r) PROVE Goal
  BY <1>21 DEF EndJob, Finish, Goto
<1>22. ASSUME NEW r \in Reqs, FailJob(r) PROVE Goal
  BY <1>22 DEF FailJob, Finish, Goto
<1>23. ASSUME Discover PROVE Goal
  BY <1>23 DEF Discover, Goto
<1>24. ASSUME NEW d \in todo[Importer], TakeUnknown(d) PROVE Goal
  BY <1>24 DEF TakeUnknown, Goto
<1>25. ASSUME NEW d \in todo[Importer], SkipKnown(d) PROVE Goal
  BY <1>25 DEF SkipKnown, Goto
<1>26. ASSUME Import PROVE Goal
  BY <1>26 DEF Import, Goto
<1>27. CASE UNCHANGED vars
  BY <1>27 DEF vars
<1>28. QED
  BY <1>1, <1>2, <1>3, <1>4, <1>5, <1>6, <1>7, <1>8, <1>9, <1>10, <1>11, <1>12, <1>13,
     <1>14, <1>15, <1>16, <1>17, <1>18, <1>19, <1>20, <1>21, <1>22, <1>23, <1>24, <1>25, <1>26, <1>27
     DEF Next, Request, DiscoverExistingStacks

\* A request that is about to record its content does so or fails to.
LEMMA SavedStep ==
  ASSUME TypeOK, [Next]_vars, NEW q \in Reqs, pc[q] = "saved"
  PROVE  \/ pc'[q] = "saved" /\ st'[q] = st[q] /\ new'[q] = new[q]
         \/ AddRevision(q)
         \/ RevisionFails(q)
<1> DEFINE Goal == \/ pc'[q] = "saved" /\ st'[q] = st[q] /\ new'[q] = new[q]
                   \/ AddRevision(q)
                   \/ RevisionFails(q)
<1> USE IdFacts DEF TypeOK, Working, store, agentSide, local
<1>1. ASSUME NEW r \in Reqs, NEW h \in Handlers, NEW k \in Keys, NEW c \in EmptyOr(Contents), Begin(r, h, k, c)
     PROVE  Goal
  BY <1>1 DEF Begin, Goto
<1>2. ASSUME NEW r \in Reqs, List(r) PROVE Goal
  BY <1>2 DEF List, Goto
<1>3. ASSUME NEW r \in Reqs, ListContainers(r) PROVE Goal
  BY <1>3 DEF ListContainers, Goto
<1>4. ASSUME NEW r \in Reqs, ReadRows(r) PROVE Goal
  BY <1>4 DEF ReadRows, Goto
<1>5. ASSUME NEW r \in Reqs, NEW d \in todo[r], FillFromFile(r, d) PROVE Goal
  BY <1>5 DEF FillFromFile, Goto
<1>6. ASSUME NEW r \in Reqs, NEW d \in todo[r], SyncWrite(r, d) PROVE Goal
  BY <1>6 DEF SyncWrite, Goto
<1>7. ASSUME NEW r \in Reqs, SyncEnds(r) PROVE Goal
  BY <1>7 DEF SyncEnds, Finish, Goto
<1>8. ASSUME NEW r \in Reqs, NEW n \in Names, NEW i \in FreshIds, NEW c \in Contents, BeginCreate(r, n, i, c)
     PROVE  Goal
  BY <1>8 DEF BeginCreate, Goto
<1>9. ASSUME NEW r \in Reqs, NEW n \in Names, NEW c \in Contents, BeginRestore(r, n, c) PROVE Goal
  BY <1>9 DEF BeginRestore, Goto
<1>10. ASSUME NEW r \in Reqs, SaveContent(r) PROVE Goal
  BY <1>10 DEF SaveContent, Finish, Goto
<1>11. ASSUME NEW r \in Reqs, Refuse(r) PROVE Goal
  BY <1>11 DEF Refuse, Finish, Goto
<1>12. ASSUME NEW r \in Reqs, AddRevision(r) PROVE Goal
  BY <1>12 DEF AddRevision, Finish, Goto
<1>13. ASSUME NEW r \in Reqs, RevisionFails(r) PROVE Goal
  BY <1>13 DEF RevisionFails, Finish, Goto
<1>14. ASSUME NEW r \in Reqs, StartDelete(r) PROVE Goal
  BY <1>14 DEF StartDelete, Goto
<1>15. ASSUME NEW r \in Reqs, EndDelete(r) PROVE Goal
  BY <1>15 DEF EndDelete, Goto
<1>16. ASSUME NEW r \in Reqs, DeleteRow(r) PROVE Goal
  BY <1>16 DEF DeleteRow, Finish, Goto
<1>17. ASSUME NEW r \in Reqs, Submit(r) PROVE Goal
  BY <1>17 DEF Submit, Goto
<1>18. ASSUME NEW r \in Reqs, Conflict(r) PROVE Goal
  BY <1>18 DEF Conflict, Finish, Goto
<1>19. ASSUME NEW r \in Reqs, SaveFiles(r) PROVE Goal
  BY <1>19 DEF SaveFiles, Goto
<1>20. ASSUME NEW r \in Reqs, StartCompose(r) PROVE Goal
  BY <1>20 DEF StartCompose, Goto
<1>21. ASSUME NEW r \in Reqs, EndJob(r) PROVE Goal
  BY <1>21 DEF EndJob, Finish, Goto
<1>22. ASSUME NEW r \in Reqs, FailJob(r) PROVE Goal
  BY <1>22 DEF FailJob, Finish, Goto
<1>23. ASSUME Discover PROVE Goal
  BY <1>23 DEF Discover, Goto
<1>24. ASSUME NEW d \in todo[Importer], TakeUnknown(d) PROVE Goal
  BY <1>24 DEF TakeUnknown, Goto
<1>25. ASSUME NEW d \in todo[Importer], SkipKnown(d) PROVE Goal
  BY <1>25 DEF SkipKnown, Goto
<1>26. ASSUME Import PROVE Goal
  BY <1>26 DEF Import, Goto
<1>27. CASE UNCHANGED vars
  BY <1>27 DEF vars
<1>28. QED
  BY <1>1, <1>2, <1>3, <1>4, <1>5, <1>6, <1>7, <1>8, <1>9, <1>10, <1>11, <1>12, <1>13,
     <1>14, <1>15, <1>16, <1>17, <1>18, <1>19, <1>20, <1>21, <1>22, <1>23, <1>24, <1>25, <1>26, <1>27
     DEF Next, Request, DiscoverExistingStacks

\* Without mishaps what is in the history of a stack stays there.
LEMMA KeptStays ==
  ASSUME IInv, [Next]_vars, mishaps' = {}, NEW n \in Names, NEW c, Kept(n, c)
  PROVE  Kept(n, c)'
<1> USE DEF IInv
<1>1. mishaps = {} /\ revisions \subseteq revisions'
  BY RowsKeepIds
<1>2. CASE c \in EmptyOr(Found)
  BY <1>2 DEF Kept
<1>3. CASE <<rows[n].id, c>> \in revisions
  <2>1. Exists(n)
    BY <1>3, IdFacts DEF TypeOK, Exists
  <2>2. rows'[n].id = rows[n].id
    BY <2>1, RowsKeepIds
  <2>3. QED
    BY <1>1, <1>3, <2>2 DEF Kept
<1>4. CASE Recording(n, c)
  <2>1. PICK q \in Reqs : pc[q] = "saved" /\ st[q].name = n /\ new[q] = c
    BY <1>4 DEF Recording
  <2>2. CASE pc'[q] = "saved" /\ st'[q] = st[q] /\ new'[q] = new[q]
    BY <2>1, <2>2 DEF Kept, Recording
  <2>3. CASE AddRevision(q)
    <3>1. st[q] \in Stack /\ rows[n].id = st[q].id
      BY <1>1, <2>1, IdFacts DEF HasStack, CopiesMatchRows, FromRow
    <3>2. Exists(n)
      BY <3>1, StackColumns DEF Exists
    <3>3. <<rows[n].id, c>> \in revisions' /\ rows' = rows
      BY <2>1, <2>3, <3>1, <3>2 DEF AddRevision
    <3>4. QED
      BY <3>3 DEF Kept
  <2>4. CASE RevisionFails(q)
    BY <2>4 DEF RevisionFails
  <2>5. QED
    BY <2>1, <2>2, <2>3, <2>4, SavedStep
<1>5. QED
  BY <1>2, <1>3, <1>4 DEF Kept

\* Nothing is copied from one place to another that is not in the history, and
\* a new content is on its way to the history when it enters a row.
LEMMA CopiesAreKeptStep ==
  ASSUME IInv, [Next]_vars
  PROVE  CopiesAreKept'
<1> DEFINE KeptNext(n, c) ==
             \/ c \in EmptyOr(Found)
             \/ <<rows'[n].id, c>> \in revisions'
             \/ \E q \in Reqs : pc'[q] = "saved" /\ st'[q].name = n /\ new'[q] = c
<1> DEFINE Goal ==
             /\ \A n \in Names : KeptNext(n, rows'[n].content)
             /\ \A n \in Names : KeptNext(n, disk'[n]) /\ KeptNext(n, deployed'[n])
             /\ \A p \in Procs : \A e \in todo'[p] : KeptNext(e.name, e.content)
             /\ \A p \in Procs :
                  \/ pc'[p] = "writing"
                  \/ pc'[p] \in Working
                  \/ pc'[p] = "found" /\ op'[p] # "create"
                  \/ pc'[p] = "syncing" /\ st'[p] # NoStack
                  => KeptNext(st'[p].name, st'[p].content)
             /\ \A p \in Procs : pc'[p] = "executing" => KeptNext(st'[p].name, new'[p])
<1> SUFFICES ASSUME mishaps' = {} PROVE Goal
  BY DEF CopiesAreKept, Kept, Recording, FromRow, Working
<1>a. \A n \in Names : \A c : Kept(n, c) => KeptNext(n, c)
  BY KeptStays DEF Kept, Recording
<1>b. \A n \in Names : KeptNext(n, NoContent)
  BY DEF EmptyOr
<1>c. mishaps = {} /\ TypeOK /\ HasStack /\ CopiesAreKept
  BY RowsKeepIds DEF IInv
<1>d. /\ \A n \in Names : Kept(n, rows[n].content) /\ Kept(n, disk[n]) /\ Kept(n, deployed[n])
      /\ \A p \in Procs : \A e \in todo[p] : Kept(e.name, e.content) /\ e \in Stack /\ e.name \in Names
      /\ \A p \in Procs :
           \/ pc[p] = "writing"
           \/ pc[p] \in Working
           \/ pc[p] = "found" /\ op[p] # "create"
           \/ pc[p] = "syncing" /\ st[p] # NoStack
           => /\ Kept(st[p].name, st[p].content)
              /\ st[p] \in Stack /\ st[p].name \in Names
      /\ \A p \in Procs : pc[p] = "executing" => Kept(st[p].name, new[p])
  BY <1>c, StackColumns, IdFacts DEF CopiesAreKept, FromRow, Working, TypeOK, HasStack
<1> HIDE DEF KeptNext
<1> USE <1>a, <1>b, <1>c, <1>d, IdFacts DEF TypeOK, HasStack, Working, store, agentSide, local
<1>1. ASSUME NEW r \in Reqs, NEW h \in Handlers, NEW k \in Keys, NEW c \in EmptyOr(Contents), Begin(r, h, k, c)
     PROVE  Goal
  BY <1>1, CopyIsStack DEF Begin, Lookup, Goto
<1>2. ASSUME NEW r \in Reqs, List(r) PROVE Goal
  BY <1>2 DEF List, Goto
<1>3. ASSUME NEW r \in Reqs, ListContainers(r) PROVE Goal
  BY <1>3 DEF ListContainers, Goto, Stack
<1>4. ASSUME NEW r \in Reqs, ReadRows(r) PROVE Goal
  BY <1>4, CopyIsStack DEF ReadRows, Goto, Stack
<1>5. ASSUME NEW r \in Reqs, NEW d \in todo[r], FillFromFile(r, d) PROVE Goal
  BY <1>5, StackColumns DEF FillFromFile, Stack
<1>6. ASSUME NEW r \in Reqs, NEW d \in todo[r], SyncWrite(r, d) PROVE Goal
  <2>1. d \in Stack
    OBVIOUS
  <2>2. /\ \A n \in Names \ {d.name} : rows'[n] = rows[n]
        /\ rows'[d.name].content = d.content
    BY <1>6, <2>1, UpsertRow DEF SyncWrite
  <2>3. d.name \in Names /\ KeptNext(d.name, d.content)
    BY <2>1, StackColumns
  <2>4. \A n \in Names : KeptNext(n, rows'[n].content)
    BY <2>2, <2>3
  <2>5. \A p \in Procs : \A e \in todo'[p] : KeptNext(e.name, e.content)
    BY <1>6 DEF SyncWrite
  <2>6. \A p \in Procs : st'[p] = st[p] \/ KeptNext(st'[p].name, st'[p].content)
    BY <1>6, <2>3 DEF SyncWrite
  <2>7. QED
    BY <1>6, <2>4, <2>5, <2>6 DEF SyncWrite
<1>7. ASSUME NEW r \in Reqs, SyncEnds(r) PROVE Goal
  <2>1. CASE Finish(r)
    BY <1>7, <2>1 DEF SyncEnds, Finish, Goto
  <2>2. CASE st[r] # NoStack /\ Goto(r, "found") /\ UNCHANGED local
    BY <1>7, <2>2 DEF SyncEnds, Goto
  <2>3. QED
    BY <1>7, <2>1, <2>2 DEF SyncEnds
<1>8. ASSUME NEW r \in Reqs, NEW n \in Names, NEW i \in FreshIds, NEW c \in Contents, BeginCreate(r, n, i, c)
     PROVE  Goal
  BY <1>8 DEF BeginCreate, Goto
<1>9. ASSUME NEW r \in Reqs, NEW n \in Names, NEW c \in Contents, BeginRestore(r, n, c) PROVE Goal
  BY <1>9, CopyIsStack DEF BeginRestore, Goto
<1>10. ASSUME NEW r \in Reqs, SaveContent(r) PROVE Goal
  <2> DEFINE d == [st[r] EXCEPT !.content = new[r]]
  <2>1. d \in Stack /\ d.name = st[r].name /\ d.content = new[r]
    BY <1>10 DEF SaveContent, Stack
  <2> HIDE DEF d
  <2>2. /\ \A n \in Names \ {d.name} : rows'[n] = rows[n]
        /\ rows'[d.name].content = d.content
        /\ ~Refused(d)
    BY <1>10, <2>1, UpsertRow DEF SaveContent, d
  <2>3. Goto(r, "saved") /\ UNCHANGED <<local, revisions, issued, agentSide, locks>>
    BY <1>10, <2>2 DEF SaveContent, d
  <2>4. KeptNext(d.name, d.content)
    BY <2>1, <2>3 DEF Goto, KeptNext
  <2>5. \A n \in Names : KeptNext(n, rows'[n].content)
    BY <2>1, <2>2, <2>4, StackColumns
  <2>6. \A p \in Procs \ {r} : pc'[p] = pc[p]
    BY <2>3 DEF Goto
  <2>7. pc'[r] = "saved"
    BY <2>3 DEF Goto
  <2>8. QED
    BY <2>3, <2>5, <2>6, <2>7
<1>11. ASSUME NEW r \in Reqs, Refuse(r) PROVE Goal
  BY <1>11 DEF Refuse, Finish, Goto
<1>12. ASSUME NEW r \in Reqs, AddRevision(r) PROVE Goal
  BY <1>12 DEF AddRevision, Finish, Goto
<1>13. ASSUME NEW r \in Reqs, RevisionFails(r) PROVE Goal
  BY <1>13 DEF RevisionFails, Finish, Goto
<1>14. ASSUME NEW r \in Reqs, StartDelete(r) PROVE Goal
  BY <1>14 DEF StartDelete, Goto
<1>15. ASSUME NEW r \in Reqs, EndDelete(r) PROVE Goal
  BY <1>15 DEF EndDelete, Goto
<1>16. ASSUME NEW r \in Reqs, DeleteRow(r) PROVE Goal
  BY <1>16 DEF DeleteRow, Finish, Goto
<1>17. ASSUME NEW r \in Reqs, Submit(r) PROVE Goal
  BY <1>17 DEF Submit, Goto
<1>18. ASSUME NEW r \in Reqs, Conflict(r) PROVE Goal
  BY <1>18 DEF Conflict, Finish, Goto
<1>19. ASSUME NEW r \in Reqs, SaveFiles(r) PROVE Goal
  BY <1>19, StackColumns DEF SaveFiles, Goto
<1>20. ASSUME NEW r \in Reqs, StartCompose(r) PROVE Goal
  BY <1>20, StackColumns DEF StartCompose, Goto
<1>21. ASSUME NEW r \in Reqs, EndJob(r) PROVE Goal
  BY <1>21, StackColumns DEF EndJob, Finish, Goto
<1>22. ASSUME NEW r \in Reqs, FailJob(r) PROVE Goal
  BY <1>22 DEF FailJob, Finish, Goto
<1>23. ASSUME Discover PROVE Goal
  BY <1>23 DEF Discover, Goto
<1>24. ASSUME NEW d \in todo[Importer], TakeUnknown(d) PROVE Goal
  BY <1>24 DEF TakeUnknown, Goto
<1>25. ASSUME NEW d \in todo[Importer], SkipKnown(d) PROVE Goal
  BY <1>25 DEF SkipKnown, Goto
<1>26. ASSUME Import PROVE Goal
  <2>1. st[Importer] \in Stack /\ Kept(st[Importer].name, st[Importer].content)
    BY <1>26 DEF Import
  <2>2. /\ \A n \in Names \ {st[Importer].name} : rows'[n] = rows[n]
        /\ rows'[st[Importer].name].content = st[Importer].content
    BY <1>26, <2>1, UpsertRow DEF Import
  <2>3. QED
    BY <1>26, <2>1, <2>2, StackColumns DEF Import, Goto
<1>27. CASE UNCHANGED vars
  BY <1>27 DEF vars
<1>28. QED
  BY <1>1, <1>2, <1>3, <1>4, <1>5, <1>6, <1>7, <1>8, <1>9, <1>10, <1>11, <1>12, <1>13,
     <1>14, <1>15, <1>16, <1>17, <1>18, <1>19, <1>20, <1>21, <1>22, <1>23, <1>24, <1>25, <1>26, <1>27
     DEF Next, Request, DiscoverExistingStacks

-----------------------------------------------------------------------------
(* What ids stand for *)

\* An id is handed out while the tables stay as they are.
LEMMA IssuedStep ==
  ASSUME TypeOK, [Next]_vars
  PROVE  \/ issued' = issued
         \/ \E n \in Names, i \in FreshIds :
              /\ issued' = issued \cup {<<i, n>>}
              /\ UNCHANGED store
<1>1. ASSUME NEW r \in Reqs, NEW n \in Names, NEW i \in FreshIds, NEW c \in Contents,
             BeginCreate(r, n, i, c)
      PROVE  issued' = issued \cup {<<i, n>>} /\ UNCHANGED store
  BY <1>1 DEF BeginCreate
<1>2. ASSUME NEW r \in Reqs, Request(r),
             ~ \E n \in Names, i \in FreshIds, c \in Contents : BeginCreate(r, n, i, c)
      PROVE  issued' = issued
  <2>1. CASE \/ \E h \in Handlers, k \in Keys, c \in EmptyOr(Contents) : Begin(r, h, k, c)
             \/ List(r) \/ ListContainers(r) \/ ReadRows(r)
             \/ \E d \in todo[r] : FillFromFile(r, d) \/ SyncWrite(r, d)
             \/ SyncEnds(r)
             \/ \E n \in Names, c \in Contents : BeginRestore(r, n, c)
    BY <2>1 DEF Begin, List, ListContainers, ReadRows, FillFromFile, SyncWrite, SyncEnds, BeginRestore
  <2>2. CASE \/ SaveContent(r) \/ Refuse(r) \/ AddRevision(r) \/ RevisionFails(r)
             \/ StartDelete(r) \/ EndDelete(r) \/ DeleteRow(r)
    BY <2>2 DEF SaveContent, Refuse, AddRevision, RevisionFails, StartDelete, EndDelete, DeleteRow
  <2>3. CASE Submit(r) \/ Conflict(r) \/ SaveFiles(r) \/ StartCompose(r) \/ EndJob(r) \/ FailJob(r)
    BY <2>3 DEF Submit, Conflict, SaveFiles, StartCompose, EndJob, FailJob
  <2>4. QED
    BY <1>2, <2>1, <2>2, <2>3 DEF Request
<1>3. DiscoverExistingStacks \/ UNCHANGED vars => issued' = issued
  BY DEF DiscoverExistingStacks, Discover, TakeUnknown, SkipKnown, Import, vars
<1>4. QED
  BY <1>1, <1>2, <1>3 DEF Next

\* What an id was made for is not forgotten.
LEMMA MeantStays ==
  ASSUME TypeOK, [Next]_vars
  PROVE  Meant \subseteq Meant'
BY IssuedStep DEF Meant

\* Handlers copy ids together with names, and take new ones from where they are made.
LEMMA IdsAreMeantStep ==
  ASSUME TypeOK, HasStack, IdsAreMeant, [Next]_vars
  PROVE  IdsAreMeant'
<1> DEFINE meant == Meant'
<1> DEFINE Fits(i, n) == <<i, n>> \in meant
<1> DEFINE Goal ==
             /\ \A n \in Names : rows'[n].id # NoId => Fits(rows'[n].id, n)
             /\ \A p \in Procs : st'[p] # NoStack => Fits(st'[p].id, st'[p].name)
             /\ \A p \in Procs : \A e \in todo'[p] : Fits(e.id, e.name)
<1>0. \A i, n : <<i, n>> \in Meant => Fits(i, n)
  BY MeantStays
<1>a. \A n \in Names : Exists(n) => Fits(rows[n].id, n)
  BY <1>0, CopyIsStack DEF IdsAreMeant
<1>b. \A p \in Procs : st[p] # NoStack => Fits(st[p].id, st[p].name) /\ st[p] \in Stack
  BY <1>0, StackColumns DEF IdsAreMeant, TypeOK
<1>c. ASSUME NEW p \in Procs, NEW e \in todo[p]
      PROVE  Fits(e.id, e.name) /\ e \in Stack
  <2>1. e \in Stack
    BY DEF TypeOK
  <2>2. <<e.id, e.name>> \in Meant
    BY DEF IdsAreMeant
  <2>3. QED
    BY <1>0, <2>1, <2>2
<1>d. \A n \in Names : Fits(DiscoveredId(n), n)
  BY DEF Meant
<1>e. issued' \subseteq meant
  BY DEF Meant
<1>f. ASSUME NEW d \in Stack, UpsertStack(d), Fits(d.id, d.name)
      PROVE  \A n \in Names : rows'[n].id # NoId => Fits(rows'[n].id, n)
  <2>1. /\ \A n \in Names \ {d.name} : rows'[n] = rows[n]
        /\ rows'[d.name].id \in {rows[d.name].id, d.id}
    BY <1>f, StackColumns DEF UpsertStack, TypeOK
  <2>2. QED
    BY <1>a, <1>f, <2>1 DEF Exists
<1> SUFFICES Goal
  BY DEF IdsAreMeant, Exists
<1> HIDE DEF Fits, meant
<1> USE <1>a, <1>b, <1>c, <1>d, IdFacts DEF TypeOK, Exists, store, agentSide, local
<1>1. ASSUME NEW r \in Reqs, NEW h \in Handlers, NEW k \in Keys, NEW c \in EmptyOr(Contents), Begin(r, h, k, c)
     PROVE  Goal
  <2>1. CASE UNCHANGED st
    BY <1>1, <2>1 DEF Begin
  <2>2. ASSUME NEW n \in Lookup(k), st' = [st EXCEPT ![r] = CopyOf(n)]
        PROVE  Goal
    <3>1. n \in Names /\ Exists(n)
      BY DEF Lookup
    <3>2. Fits(CopyOf(n).id, CopyOf(n).name)
      BY <3>1, CopyIsStack
    <3>3. QED
      BY <1>1, <2>2, <3>2 DEF Begin
  <2>3. QED
    BY <1>1, <2>1, <2>2 DEF Begin
<1>2. ASSUME NEW r \in Reqs, List(r) PROVE Goal
  BY <1>2 DEF List, Goto
<1>3. ASSUME NEW r \in Reqs, ListContainers(r) PROVE Goal
  BY <1>3 DEF ListContainers, Goto
<1>4. ASSUME NEW r \in Reqs, ReadRows(r) PROVE Goal
  BY <1>4, CopyIsStack DEF ReadRows, Goto
<1>5. ASSUME NEW r \in Reqs, NEW d \in todo[r], FillFromFile(r, d) PROVE Goal
  <2> DEFINE filled == [d EXCEPT !.content = disk[d.name]]
  <2>1. filled.id = d.id /\ filled.name = d.name
    BY DEF Stack
  <2>2. \A p \in Procs : \A e \in todo'[p] : e \in todo[p] \/ (p = r /\ e = filled)
    BY <1>5 DEF FillFromFile
  <2> HIDE DEF filled
  <2>3. \A p \in Procs : \A e \in todo'[p] : Fits(e.id, e.name)
    BY <2>1, <2>2
  <2>4. QED
    BY <1>5, <2>3 DEF FillFromFile
<1>6. ASSUME NEW r \in Reqs, NEW d \in todo[r], SyncWrite(r, d) PROVE Goal
  <2>1. d \in Stack /\ Fits(d.id, d.name) /\ UpsertStack(d)
    BY <1>6 DEF SyncWrite
  <2>2. \A n \in Names : rows'[n].id # NoId => Fits(rows'[n].id, n)
    BY <1>f, <2>1
  <2>3. QED
    BY <1>6, <2>1, <2>2 DEF SyncWrite
<1>7. ASSUME NEW r \in Reqs, SyncEnds(r) PROVE Goal
  BY <1>7 DEF SyncEnds, Finish, Goto
<1>8. ASSUME NEW r \in Reqs, NEW n \in Names, NEW i \in FreshIds, NEW c \in Contents, BeginCreate(r, n, i, c)
     PROVE  Goal
  <2>1. <<i, n>> \in issued'
    BY <1>8 DEF BeginCreate
  <2>2. Fits(i, n)
    BY <1>e, <2>1 DEF Fits
  <2>3. QED
    BY <1>8, <2>2 DEF BeginCreate, Goto
<1>9. ASSUME NEW r \in Reqs, NEW n \in Names, NEW c \in Contents, BeginRestore(r, n, c)
     PROVE  Goal
  BY <1>9, CopyIsStack DEF BeginRestore, Goto
<1>10. ASSUME NEW r \in Reqs, SaveContent(r) PROVE Goal
  <2> DEFINE d == [st[r] EXCEPT !.content = new[r]]
  <2>1. d \in Stack /\ d.name = st[r].name /\ d.id = st[r].id /\ st[r] # NoStack
    BY <1>10, StackColumns DEF SaveContent, HasStack, Stack
  <2> HIDE DEF d
  <2>2. UpsertStack(d)
    BY <1>10 DEF SaveContent, d
  <2>3. \A n \in Names : rows'[n].id # NoId => Fits(rows'[n].id, n)
    BY <1>b, <1>f, <2>1, <2>2
  <2>4. QED
    BY <1>10, <2>3 DEF SaveContent, Finish, Goto
<1>11. ASSUME NEW r \in Reqs, Refuse(r) PROVE Goal
  BY <1>11 DEF Refuse, Finish, Goto
<1>12. ASSUME NEW r \in Reqs, AddRevision(r) PROVE Goal
  BY <1>12 DEF AddRevision, Finish, Goto
<1>13. ASSUME NEW r \in Reqs, RevisionFails(r) PROVE Goal
  BY <1>13 DEF RevisionFails, Finish, Goto
<1>14. ASSUME NEW r \in Reqs, StartDelete(r) PROVE Goal
  BY <1>14 DEF StartDelete, Goto
<1>15. ASSUME NEW r \in Reqs, EndDelete(r) PROVE Goal
  BY <1>15 DEF EndDelete, Goto
<1>16. ASSUME NEW r \in Reqs, DeleteRow(r) PROVE Goal
  <2>1. \A n \in Names : rows'[n] = IF rows[n].id = key[r] THEN NoRow ELSE rows[n]
    BY <1>16 DEF DeleteRow
  <2>2. \A n \in Names : rows'[n].id # NoId => rows'[n].id = rows[n].id
    BY <2>1 DEF NoRow
  <2>3. QED
    BY <1>16, <2>2 DEF DeleteRow, Finish, Goto
<1>17. ASSUME NEW r \in Reqs, Submit(r) PROVE Goal
  BY <1>17 DEF Submit, Goto
<1>18. ASSUME NEW r \in Reqs, Conflict(r) PROVE Goal
  BY <1>18 DEF Conflict, Finish, Goto
<1>19. ASSUME NEW r \in Reqs, SaveFiles(r) PROVE Goal
  BY <1>19 DEF SaveFiles, Goto
<1>20. ASSUME NEW r \in Reqs, StartCompose(r) PROVE Goal
  BY <1>20 DEF StartCompose, Goto
<1>21. ASSUME NEW r \in Reqs, EndJob(r) PROVE Goal
  BY <1>21 DEF EndJob, Finish, Goto
<1>22. ASSUME NEW r \in Reqs, FailJob(r) PROVE Goal
  BY <1>22 DEF FailJob, Finish, Goto
<1>23. ASSUME Discover PROVE Goal
  BY <1>23 DEF Discover, Goto
<1>24. ASSUME NEW d \in todo[Importer], TakeUnknown(d) PROVE Goal
  BY <1>24 DEF TakeUnknown, Goto
<1>25. ASSUME NEW d \in todo[Importer], SkipKnown(d) PROVE Goal
  BY <1>25 DEF SkipKnown, Goto
<1>26. ASSUME Import PROVE Goal
  <2>1. st[Importer] \in Stack /\ UpsertStack(st[Importer]) /\ st[Importer] # NoStack
    BY <1>26, StackColumns DEF Import, HasStack
  <2>2. \A n \in Names : rows'[n].id # NoId => Fits(rows'[n].id, n)
    BY <1>b, <1>f, <2>1
  <2>3. QED
    BY <1>26, <2>2 DEF Import, Goto
<1>27. CASE UNCHANGED vars
  BY <1>27 DEF vars
<1>28. QED
  BY <1>1, <1>2, <1>3, <1>4, <1>5, <1>6, <1>7, <1>8, <1>9, <1>10, <1>11, <1>12, <1>13,
     <1>14, <1>15, <1>16, <1>17, <1>18, <1>19, <1>20, <1>21, <1>22, <1>23, <1>24, <1>25, <1>26, <1>27
     DEF Next, Request, DiscoverExistingStacks

\* The tables change by an upsert of a copy, by a revision or by a delete.
LEMMA TablesStep ==
  ASSUME TypeOK, HasStack, [Next]_vars
  PROVE  \/ UNCHANGED store
         \/ \E d \in Stack :
              /\ UpsertStack(d)
              /\ UNCHANGED <<revisions, issued>>
              /\ \E r \in Procs :
                   \/ d \in todo[r]
                   \/ st[r] # NoStack /\ d.id = st[r].id /\ d.name = st[r].name
         \/ \E r \in Reqs : AddRevision(r) \/ DeleteRow(r)
<1> DEFINE Writes(d) ==
             /\ UpsertStack(d)
             /\ UNCHANGED <<revisions, issued>>
             /\ \E r \in Procs :
                  \/ d \in todo[r]
                  \/ st[r] # NoStack /\ d.id = st[r].id /\ d.name = st[r].name
<1>1. ASSUME NEW r \in Reqs, NEW d \in todo[r], SyncWrite(r, d)
      PROVE  d \in Stack /\ Writes(d)
  BY <1>1, IdFacts DEF SyncWrite, TypeOK
<1>2. ASSUME NEW r \in Reqs, SaveContent(r)
      PROVE  \E d \in Stack : Writes(d)
  <2> DEFINE d == [st[r] EXCEPT !.content = new[r]]
  <2>1. d \in Stack /\ d.name = st[r].name /\ d.id = st[r].id /\ st[r] # NoStack
    BY <1>2, IdFacts, StackColumns DEF SaveContent, HasStack, Stack, TypeOK
  <2> HIDE DEF d
  <2>2. UpsertStack(d) /\ UNCHANGED <<revisions, issued>>
    BY <1>2 DEF SaveContent, d
  <2>3. QED
    BY <2>1, <2>2, IdFacts
<1>3. ASSUME Import
      PROVE  st[Importer] \in Stack /\ Writes(st[Importer])
  BY <1>3, IdFacts, StackColumns DEF Import, HasStack
<1>4. ASSUME NEW r \in Reqs, Request(r), ~SaveContent(r), ~AddRevision(r), ~DeleteRow(r),
             ~ \E d \in todo[r] : SyncWrite(r, d)
      PROVE  UNCHANGED store
  <2>1. CASE \/ \E h \in Handlers, k \in Keys, c \in EmptyOr(Contents) : Begin(r, h, k, c)
             \/ List(r) \/ ListContainers(r) \/ ReadRows(r)
             \/ \E d \in todo[r] : FillFromFile(r, d)
             \/ SyncEnds(r)
             \/ \E n \in Names, c \in Contents : BeginRestore(r, n, c)
             \/ \E n \in Names, i \in FreshIds, c \in Contents : BeginCreate(r, n, i, c)
    BY <2>1 DEF Begin, List, ListContainers, ReadRows, FillFromFile, SyncEnds, BeginRestore,
       BeginCreate
  <2>2. CASE \/ Refuse(r) \/ RevisionFails(r) \/ StartDelete(r) \/ EndDelete(r)
    BY <2>2 DEF Refuse, RevisionFails, StartDelete, EndDelete
  <2>3. CASE Submit(r) \/ Conflict(r) \/ SaveFiles(r) \/ StartCompose(r) \/ EndJob(r) \/ FailJob(r)
    BY <2>3 DEF Submit, Conflict, SaveFiles, StartCompose, EndJob, FailJob
  <2>4. QED
    BY <1>4, <2>1, <2>2, <2>3 DEF Request
<1>5. (DiscoverExistingStacks /\ ~Import) \/ UNCHANGED vars => UNCHANGED store
  BY DEF DiscoverExistingStacks, Discover, TakeUnknown, SkipKnown, vars, store
<1>6. QED
  BY <1>1, <1>2, <1>3, <1>4, <1>5 DEF Next

\* The upsert leaves every id that it meets, and adds that of its copy if it meets none
\* and the id is free.
LEMMA UpsertIds ==
  ASSUME TypeOK, NEW d \in Stack, UpsertStack(d)
  PROVE  /\ d.id \in Ids /\ d.name \in Names
         /\ \/ \A n \in Names : rows'[n].id = rows[n].id
            \/ /\ ~Exists(d.name)
               /\ \A n \in Names : rows[n].id # d.id
               /\ rows'[d.name].id = d.id
               /\ \A n \in Names \ {d.name} : rows'[n].id = rows[n].id
<1>1. d.id \in Ids /\ d.name \in Names
  BY StackColumns
<1>2. CASE Refused(d)
  BY <1>1, <1>2 DEF UpsertStack
<1>3. CASE ~Refused(d)
  <2>1. /\ rows'[d.name].id = IF Exists(d.name) THEN rows[d.name].id ELSE d.id
        /\ \A n \in Names \ {d.name} : rows'[n] = rows[n]
    BY <1>1, <1>3 DEF UpsertStack, TypeOK
  <2>2. QED
    BY <1>1, <1>3, <2>1 DEF Refused
<1>4. QED
  BY <1>2, <1>3

\* Rows keep their ids apart: the upsert meets the primary key, the delete removes rows.
LEMMA IdsNameOneRowStep ==
  ASSUME TypeOK, HasStack, IdsNameOneRow, [Next]_vars
  PROVE  IdsNameOneRow'
<1>1. CASE UNCHANGED store
  BY <1>1 DEF store, IdsNameOneRow, Exists
<1>2. ASSUME NEW d \in Stack, UpsertStack(d) PROVE IdsNameOneRow'
  <2>1. CASE \A n \in Names : rows'[n].id = rows[n].id
    BY <2>1 DEF IdsNameOneRow, Exists
  <2>2. CASE /\ \A n \in Names : rows[n].id # d.id
             /\ rows'[d.name].id = d.id
             /\ \A n \in Names \ {d.name} : rows'[n].id = rows[n].id
    BY <2>2 DEF IdsNameOneRow, Exists
  <2>3. QED
    BY <1>2, <2>1, <2>2, UpsertIds
<1>3. ASSUME NEW r \in Reqs, AddRevision(r) PROVE IdsNameOneRow'
  BY <1>3 DEF AddRevision, IdsNameOneRow, Exists
<1>4. ASSUME NEW r \in Reqs, DeleteRow(r) PROVE IdsNameOneRow'
  <2>1. \A n \in Names : rows'[n] = IF rows[n].id = key[r] THEN NoRow ELSE rows[n]
    BY <1>4 DEF DeleteRow
  <2>2. \A n \in Names : rows'[n].id # NoId => rows'[n].id = rows[n].id
    BY <2>1 DEF NoRow
  <2>3. QED
    BY <2>2 DEF IdsNameOneRow, Exists
<1>5. QED
  BY <1>1, <1>2, <1>3, <1>4, TablesStep

\* Revisions are added to rows and go with them.
LEMMA RevisionsHaveRowsStep ==
  ASSUME TypeOK, HasStack, RevisionsHaveRows, [Next]_vars
  PROVE  RevisionsHaveRows'
<1>1. CASE UNCHANGED store
  BY <1>1 DEF store, RevisionsHaveRows, Exists
<1>2. ASSUME NEW d \in Stack, UpsertStack(d), UNCHANGED revisions
      PROVE  RevisionsHaveRows'
  <2>1. \A n \in Names : Exists(n) => rows'[n].id = rows[n].id
    BY <1>2, UpsertIds
  <2>2. QED
    BY <1>2, <2>1 DEF RevisionsHaveRows, Exists
<1>3. ASSUME NEW r \in Reqs, AddRevision(r) PROVE RevisionsHaveRows'
  BY <1>3 DEF AddRevision, RevisionsHaveRows, Exists
<1>4. ASSUME NEW r \in Reqs, DeleteRow(r) PROVE RevisionsHaveRows'
  <2>1. \A n \in Names : rows'[n] = IF rows[n].id = key[r] THEN NoRow ELSE rows[n]
    BY <1>4 DEF DeleteRow
  <2>2. \A v \in revisions' : v \in revisions /\ v[1] # key[r]
    BY <1>4 DEF DeleteRow
  <2>3. QED
    BY <2>1, <2>2 DEF RevisionsHaveRows, Exists
<1>5. QED
  BY <1>1, <1>2, <1>3, <1>4, TablesStep

-----------------------------------------------------------------------------
(* Theorems *)

\* The inductive invariant holds in every reachable state of the stack store.
THEOREM Invariant == Spec => []IInv
<1>1. IInv /\ [Next]_vars => IInv'
  BY TypeStep, HasStackStep, LocksHeldStep, CopiesMatchRowsStep, CopiesAreKeptStep,
     IdsAreMeantStep, IdsNameOneRowStep, RevisionsHaveRowsStep DEF IInv
<1>2. QED
  BY InitInvariant, <1>1, PTL DEF Spec

\* Every variable keeps its type.
THEOREM TypeCorrect == Spec => []TypeOK
<1>1. IInv => TypeOK
  BY DEF IInv
<1>2. QED
  BY Invariant, <1>1, PTL

\* The content of a row can always be found in the history of its stack, for any
\* number of concurrent edits, restores, lists, jobs and imports: only a delete, an
\* upsert that met another id, or a failing CreateRevision can break this.
THEOREM HistoryIsKept == Spec => []HistoryKeepsContent
<1>1. IInv => HistoryKeepsContent
  BY DEF IInv, CopiesAreKept, HistoryKeepsContent, ContentIsKept
<1>2. QED
  BY Invariant, <1>1, PTL

\* Under the same conditions compose never brings up, and the disk never holds, a
\* content that is not in the history of its stack.
THEOREM DeploymentsAreKept == Spec => []HistoryKeepsDeployments
<1>1. IInv => HistoryKeepsDeployments
  BY DEF IInv, CopiesAreKept, HistoryKeepsDeployments
<1>2. QED
  BY Invariant, <1>1, PTL

\* The mutex of an id keeps the compose jobs of a name apart, as long as nothing
\* was deleted or met under another id.
THEOREM JobExclusion == Spec => []JobsExclude
<1>1. IInv => JobsExclude
  <2> SUFFICES ASSUME IInv, mishaps \cap {"delete", "collision"} = {},
                      NEW p \in Reqs, NEW r \in Reqs,
                      pc[p] = "executing", pc[r] = "executing", st[p].name = st[r].name
               PROVE  p = r
    BY DEF JobsExclude
  <2>1. st[p].id = st[r].id
    BY DEF IInv, CopiesMatchRows, FromRow, Working
  <2>2. locks[st[p].id] = p /\ locks[st[r].id] = r
    BY DEF IInv, LocksHeld, Working
  <2>3. QED
    BY <2>1, <2>2
<1>2. QED
  BY Invariant, <1>1, PTL

\* The history never holds a revision of a stack that is not there.
THEOREM RevisionsAreOwned == Spec => []RevisionsHaveRows
<1>1. IInv => RevisionsHaveRows
  BY DEF IInv
<1>2. QED
  BY Invariant, <1>1, PTL

\* Every step of the handlers is a step of StackRegistry or leaves its view alone:
\* an upsert registers a stack or nothing, a revision is recorded or refused, a delete
\* removes one stack with its history or nothing at all.  No id is assumed to be new.
THEOREM ImplementsRegistry == Spec => RegistrySpec
<1> DEFINE ids == [n \in Names |-> rows[n].id]
<1>1. Init => Registry!Init
  <2> SUFFICES ASSUME Init PROVE Registry!Init
    OBVIOUS
  <2>1. Meant \subseteq Ids \X Names
    BY IdFacts DEF Meant, Init
  <2>2. QED
    BY <2>1 DEF Init, Registry!Init, NoRow
<1>2. IInv /\ [Next]_vars => [Registry!Next]_(Registry!registryVars)
  <2> SUFFICES ASSUME IInv, [Next]_vars
               PROVE  Registry!Next \/ UNCHANGED Registry!registryVars
    OBVIOUS
  <2> USE DEF IInv
  <2>1. CASE UNCHANGED store /\ issued' = issued
    BY <2>1 DEF Registry!registryVars, store, Meant
  <2>2. ASSUME NEW n \in Names, NEW i \in FreshIds,
               issued' = issued \cup {<<i, n>>}, UNCHANGED store
        PROVE  Registry!Issue(n, i)
    <3>1. Meant' = Meant \cup {<<i, n>>}
      BY <2>2 DEF Meant
    <3>2. QED
      BY <2>2, <3>1 DEF Registry!Issue, store
  <2>3. ASSUME NEW d \in Stack, UpsertStack(d), UNCHANGED <<revisions, issued>>,
               NEW r \in Procs,
               \/ d \in todo[r]
               \/ st[r] # NoStack /\ d.id = st[r].id /\ d.name = st[r].name
        PROVE  Registry!Register(d.name, d.id) \/ UNCHANGED Registry!registryVars
    <3>1. d.id \in Ids /\ d.name \in Names /\ <<d.id, d.name>> \in Meant
      BY <2>3, StackColumns DEF IdsAreMeant
    <3>2. Meant' = Meant /\ revisions' = revisions
      BY <2>3 DEF Meant
    <3>3. CASE \A n \in Names : rows'[n].id = rows[n].id
      BY <3>2, <3>3 DEF Registry!registryVars
    <3>4. CASE /\ ~Exists(d.name)
               /\ \A n \in Names : rows[n].id # d.id
               /\ rows'[d.name].id = d.id
               /\ \A n \in Names \ {d.name} : rows'[n].id = rows[n].id
      <4>1. ids' = [ids EXCEPT ![d.name] = d.id]
        BY <3>1, <3>4
      <4>2. ids[d.name] = NoId /\ \A n \in Names : ids[n] # d.id
        BY <3>1, <3>4 DEF Exists
      <4>3. QED
        BY <3>1, <3>2, <4>1, <4>2 DEF Registry!Register
    <3>5. QED
      BY <2>3, <3>3, <3>4, UpsertIds
  <2>4. ASSUME NEW r \in Reqs, AddRevision(r)
        PROVE  Registry!Next \/ UNCHANGED Registry!registryVars
    <3>1. Meant' = Meant /\ rows' = rows
      BY <2>4 DEF AddRevision, Meant
    <3>2. new[r] \in EmptyOr(Contents)
      BY IdFacts DEF TypeOK
    <3>3. ASSUME NEW n \in Names, Exists(n), rows[n].id = st[r].id
          PROVE  Registry!Record(n, new[r])
      <4>1. ids[n] \in Ids /\ ids[n] = rows[n].id
        BY <3>3, CopyIsStack
      <4>2. revisions' = revisions \cup {<<rows[n].id, new[r]>>}
        BY <2>4, <3>3 DEF AddRevision
      <4>3. QED
        BY <3>1, <4>1, <4>2 DEF Registry!Record
    <3>4. CASE ~ \E n \in Names : Exists(n) /\ rows[n].id = st[r].id
      BY <2>4, <3>1, <3>4 DEF AddRevision, Registry!registryVars
    <3>5. QED
      BY <3>2, <3>3, <3>4 DEF Registry!Next
  <2>5. ASSUME NEW r \in Reqs, DeleteRow(r)
        PROVE  Registry!Next \/ UNCHANGED Registry!registryVars
    <3>1. Meant' = Meant
      BY <2>5 DEF DeleteRow, Meant
    <3>2. \A n \in Names : rows'[n] = IF rows[n].id = key[r] THEN NoRow ELSE rows[n]
      BY <2>5 DEF DeleteRow
    <3>3. revisions' = {v \in revisions : v[1] # key[r]}
      BY <2>5 DEF DeleteRow
    <3>4. ASSUME NEW n \in Names, Exists(n), rows[n].id = key[r]
          PROVE  Registry!Remove(n)
      <4>1. ids[n] \in Ids /\ ids[n] = key[r]
        BY <3>4, CopyIsStack
      <4>2. \A m \in Names \ {n} : rows'[m].id = rows[m].id
        BY <3>2, <3>4 DEF IdsNameOneRow
      <4>3. rows'[n].id = NoId
        BY <3>2, <3>4 DEF NoRow
      <4>4. ids' = [ids EXCEPT ![n] = NoId]
        BY <4>2, <4>3
      <4>5. QED
        BY <3>1, <3>3, <4>1, <4>4 DEF Registry!Remove
    <3>5. CASE ~ \E n \in Names : Exists(n) /\ rows[n].id = key[r]
      <4>1. \A n \in Names : rows'[n].id = rows[n].id
        BY <3>2, <3>5 DEF Exists, NoRow
      <4>2. revisions' = revisions
        BY <3>3, <3>5 DEF RevisionsHaveRows
      <4>3. QED
        BY <3>1, <4>1, <4>2 DEF Registry!registryVars
    <3>6. QED
      BY <3>4, <3>5 DEF Registry!Next
  <2>6. ASSUME NEW n \in Names, NEW i \in Ids, Registry!Issue(n, i) \/ Registry!Register(n, i)
        PROVE  Registry!Next
    BY <2>6 DEF Registry!Next
  <2>7. CASE UNCHANGED store
    BY <2>1, <2>2, <2>6, <2>7, IssuedStep, IdFacts
  <2>8. ASSUME NEW d \in Stack, UpsertStack(d), UNCHANGED <<revisions, issued>>,
               \E r \in Procs :
                 \/ d \in todo[r]
                 \/ st[r] # NoStack /\ d.id = st[r].id /\ d.name = st[r].name
        PROVE  Registry!Next \/ UNCHANGED Registry!registryVars
    BY <2>3, <2>6, <2>8, StackColumns
  <2>9. QED
    BY <2>4, <2>5, <2>7, <2>8, TablesStep
<1>3. QED
  BY Invariant, <1>1, <1>2, PTL DEF Spec, RegistrySpec, Registry!Spec

=============================================================================

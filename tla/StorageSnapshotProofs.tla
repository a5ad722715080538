----------------------- MODULE StorageSnapshotProofs -----------------------
(***************************************************************************)
(* Theorems about StorageSnapshot.  IInv adds to FreshAfterAck that every  *)
(* change which is acknowledged or shown, or whose handler has dropped the *)
(* cache, is known to the cache and to the measurement in progress: the    *)
(* mutex lets no measurement span an invalidation, and no two overlap.     *)
(***************************************************************************)
EXTENDS StorageSnapshot, FiniteSetTheorems, TLAPS

\* A count of some of the containers is in range.
LEMMA CountInRange ==
  ASSUME NEW U \in SUBSET Containers
  PROVE  IsFiniteSet(U) /\ Cardinality(U) \in 0..Cardinality(Containers)
<1>1. IsFiniteSet(U) /\ Cardinality(U) <= Cardinality(Containers)
  BY FS_Subset, StorageAssumption
<1>2. Cardinality(U) \in Nat /\ Cardinality(Containers) \in Nat
  BY <1>1, FS_CardinalityType, StorageAssumption
<1>3. QED
  BY <1>1, <1>2

\* A measurement that is done makes a snapshot.
LEMMA StoredIsSnapshot ==
  ASSUME TypeOK, NEW r \in Reqs, StoreSnapshot(r)
  PROVE  /\ cache' \in Snapshot
         /\ CountsMatchOwners'
<1>1. \A v \in Volumes : Users(v) \in SUBSET Containers
  BY DEF Users, TypeOK, Measurement
<1>2. \A v \in Volumes : Cardinality(Users(v)) \in 0..Cardinality(Containers)
  BY <1>1, CountInRange
<1>3. \A v \in Volumes : {StackOf[c] : c \in Users(v)} \ {NoStack} \in SUBSET Stacks
  BY <1>1, StorageAssumption
<1>4. cache' \in Snapshot
  BY <1>2, <1>3 DEF StoreSnapshot, Snapshot, TypeOK, Measurement
<1>5. \A v \in Volumes :
        /\ cache'.refs[v] = Cardinality(Users(v))
        /\ cache'.owners[v] \subseteq {StackOf[c] : c \in Users(v)}
  BY DEF StoreSnapshot
<1>6. QED
  BY <1>1, <1>4, <1>5 DEF CountsMatchOwners

\* The measurement that nobody makes has the type of one.
LEMMA NothingMeasured == NoMeasurement \in Measurement
<1>1. [c \in Containers |-> {}] \in [Containers -> SUBSET Volumes]
  OBVIOUS
<1>2. 0 \in 0..MaxChanges
  BY StorageAssumption
<1>3. QED
  BY <1>1, <1>2 DEF NoMeasurement, Measurement

\* Nor has an idle slot a change.
LEMMA NothingAsked == [r \in Reqs |-> 0] \in [Reqs -> 0..MaxChanges]
<1>1. 0 \in 0..MaxChanges
  BY StorageAssumption
<1>2. QED
  BY <1>1

LEMMA InitInv == Init => IInv
<1> SUFFICES ASSUME Init PROVE IInv
  OBVIOUS
<1> USE StorageAssumption DEF Init, Measuring
<1>1. TypeOK
  <2>1. pc \in [Reqs -> Stages]
    BY DEF Stages
  <2>2. changes \in 0..MaxChanges
    OBVIOUS
  <2>3. QED
    BY <2>1, <2>2, NothingMeasured, NothingAsked DEF TypeOK
<1>2. OneMeasures /\ Acknowledged /\ CountsMatchOwners /\ FreshAfterAck
  BY DEF OneMeasures, Acknowledged, KnownTo, CountsMatchOwners, FreshAfterAck
<1>3. QED
  BY <1>1, <1>2 DEF IInv

\* Each step keeps the types.
LEMMA TypeStep ==
  ASSUME TypeOK, [Next]_vars
  PROVE  TypeOK'
<1> USE StorageAssumption DEF TypeOK, Stages, Measuring, daemon, Goto
<1>1. ASSUME NEW r \in Reqs, Ask(r) PROVE TypeOK'
  BY <1>1 DEF Ask
<1>2. ASSUME NEW r \in Reqs, AnswerFromCache(r) PROVE TypeOK'
  BY <1>2 DEF AnswerFromCache, Snapshot
<1>3. ASSUME NEW r \in Reqs, BeginMeasurement(r) PROVE TypeOK'
  BY <1>3 DEF BeginMeasurement
<1>4. ASSUME NEW r \in Reqs, ReadContainers(r) PROVE TypeOK'
  BY <1>4 DEF ReadContainers, Measurement
<1>5. ASSUME NEW r \in Reqs, ReadVolumes(r) PROVE TypeOK'
  BY <1>5 DEF ReadVolumes, Measurement
<1>6. ASSUME NEW r \in Reqs, MeasurementFails(r) PROVE TypeOK'
  BY <1>6, NothingMeasured DEF MeasurementFails, Release, Finish
<1>7. ASSUME NEW r \in Reqs, NEW c \in Containers, InspectMounts(r, c) PROVE TypeOK'
  <2>1. PICK mounts \in SUBSET Volumes :
          part' = [part EXCEPT !.todo = @ \ {c}, !.mounts[c] = mounts]
    BY <1>7 DEF InspectMounts
  <2>2. part' \in Measurement
    BY <2>1 DEF Measurement
  <2>3. QED
    BY <1>7, <2>2 DEF InspectMounts
<1>8. ASSUME NEW r \in Reqs, StoreSnapshot(r) PROVE TypeOK'
  <2>1. cache' \in Snapshot
    BY <1>8, StoredIsSnapshot
  <2>2. part' \in Measurement
    BY <1>8, NothingMeasured DEF StoreSnapshot, Release
  <2>3. part.seen \in 0..MaxChanges
    BY DEF Measurement
  <2>4. QED
    BY <1>8, <2>1, <2>2, <2>3 DEF StoreSnapshot, Release
<1>9. ASSUME NEW r \in Reqs, Answered(r) PROVE TypeOK'
  BY <1>9 DEF Answered, Finish, Newer
<1>10. ASSUME NEW r \in Reqs, BeginAction(r) PROVE TypeOK'
  BY <1>10 DEF BeginAction
<1>11. ASSUME NEW r \in Reqs, ActionSucceeds(r) PROVE TypeOK'
  BY <1>11 DEF ActionSucceeds, Effect
<1>12. ASSUME NEW r \in Reqs, ActionFails(r) PROVE TypeOK'
  BY <1>12 DEF ActionFails, Effect, Finish
<1>13. ASSUME NEW r \in Reqs, InvalidateStorageCache(r) PROVE TypeOK'
  BY <1>13 DEF InvalidateStorageCache
<1>14. ASSUME NEW r \in Reqs, AckAction(r) PROVE TypeOK'
  BY <1>14 DEF AckAction, Finish, Newer
<1>15. ASSUME Expire PROVE TypeOK'
  BY <1>15 DEF Expire
<1>16. ASSUME ChangeOutside PROVE TypeOK'
  BY <1>16 DEF ChangeOutside, Effect
<1>17. ASSUME AgentRestart PROVE TypeOK'
  <2>1. pc' \in [Reqs -> Stages]
    BY <1>17 DEF AgentRestart
  <2>2. part' \in Measurement
    BY <1>17, NothingMeasured DEF AgentRestart, Release
  <2>3. QED
    BY <1>17, <2>1, <2>2, NothingAsked DEF AgentRestart, Release
<1>18. CASE UNCHANGED vars
  BY <1>18 DEF vars
<1>19. QED
  BY <1>1, <1>2, <1>3, <1>4, <1>5, <1>6, <1>7, <1>8, <1>9, <1>10, <1>11, <1>12, <1>13, <1>14,
     <1>15, <1>16, <1>17, <1>18
     DEF Next, Handler

\* The mutex changes hands only at the two ends of a measurement.
LEMMA OneMeasuresStep ==
  ASSUME TypeOK, OneMeasures, [Next]_vars
  PROVE  OneMeasures'
<1> USE StorageAssumption DEF TypeOK, OneMeasures, Measuring, daemon, Goto
<1>1. ASSUME NEW r \in Reqs,
             \/ AnswerFromCache(r) \/ BeginMeasurement(r) \/ ReadContainers(r)
             \/ ReadVolumes(r) \/ MeasurementFails(r) \/ StoreSnapshot(r)
      PROVE  OneMeasures'
  BY <1>1 DEF AnswerFromCache, BeginMeasurement, ReadContainers, ReadVolumes, MeasurementFails,
              StoreSnapshot, Release, Finish
<1>2. ASSUME NEW r \in Reqs, NEW c \in Containers, InspectMounts(r, c) PROVE OneMeasures'
  BY <1>2 DEF InspectMounts
<1>3. ASSUME NEW r \in Reqs,
             \/ InvalidateStorageCache(r) \/ AckAction(r) \/ Ask(r) \/ Answered(r)
             \/ BeginAction(r) \/ ActionSucceeds(r) \/ ActionFails(r)
      PROVE  OneMeasures'
  BY <1>3 DEF InvalidateStorageCache, AckAction, Ask, Answered, BeginAction, ActionSucceeds,
              ActionFails, Finish
<1>4. ASSUME Expire \/ ChangeOutside \/ AgentRestart PROVE OneMeasures'
  BY <1>4 DEF Expire, ChangeOutside, AgentRestart, Release
<1>5. CASE UNCHANGED vars
  BY <1>5 DEF vars
<1>6. QED
  BY <1>1, <1>2, <1>3, <1>4, <1>5 DEF Next, Handler

\* An acknowledged change stays known: a measurement that began before it is over by the
\* time its handler has the mutex, and the next one begins after it.
LEMMA AcknowledgedStep ==
  ASSUME TypeOK, OneMeasures, Acknowledged, FreshAfterAck, [Next]_vars
  PROVE  Acknowledged' /\ FreshAfterAck'
<1> DEFINE Goal == Acknowledged' /\ FreshAfterAck'
<1> USE StorageAssumption DEF TypeOK, Acknowledged, KnownTo, FreshAfterAck, daemon, Goto
<1>1. ASSUME NEW r \in Reqs, Ask(r) PROVE Goal
  BY <1>1 DEF Ask
<1>2. ASSUME NEW r \in Reqs, AnswerFromCache(r) PROVE Goal
  <2>1. cache.seen \in Nat /\ got' = [got EXCEPT ![r] = cache.seen]
    BY <1>2 DEF AnswerFromCache, Snapshot
  <2>2. \A q \in Reqs : pc[q] \notin {"volumes", "inspect"} /\ pc'[q] \notin {"volumes", "inspect"}
    BY <1>2 DEF AnswerFromCache, OneMeasures, Measuring
  <2>3. known <= cache.seen /\ cache.seen <= changes /\ asked[r] <= known
    BY <1>2 DEF AnswerFromCache
  <2>4. \A q \in Reqs : pc'[q] = "answered" => got'[q] <= changes /\ got'[q] <= cache.seen
    BY <1>2, <2>1, <2>3 DEF AnswerFromCache
  <2>5. Acknowledged'
    BY <1>2, <2>2, <2>4 DEF AnswerFromCache
  <2>6. FreshAfterAck'
    BY <1>2, <2>1, <2>3 DEF AnswerFromCache
  <2>7. QED
    BY <2>5, <2>6
<1>3. ASSUME NEW r \in Reqs, BeginMeasurement(r) PROVE Goal
  BY <1>3 DEF BeginMeasurement
<1>4. ASSUME NEW r \in Reqs, ReadContainers(r) PROVE Goal
  <2>1. part'.seen = changes
    BY <1>4 DEF ReadContainers, Measurement
  <2>2. QED
    BY <1>4, <2>1 DEF ReadContainers
<1>5. ASSUME NEW r \in Reqs, ReadVolumes(r) PROVE Goal
  <2>1. part'.seen = part.seen
    BY <1>5 DEF ReadVolumes, Measurement
  <2>2. QED
    BY <1>5, <2>1 DEF ReadVolumes
<1>6. ASSUME NEW r \in Reqs, MeasurementFails(r) PROVE Goal
  BY <1>6 DEF MeasurementFails, Release, Finish, OneMeasures, Measuring
<1>7. ASSUME NEW r \in Reqs, NEW c \in Containers, InspectMounts(r, c) PROVE Goal
  <2>1. part'.seen = part.seen
    BY <1>7 DEF InspectMounts, Measurement
  <2>2. QED
    BY <1>7, <2>1 DEF InspectMounts
<1>8. ASSUME NEW r \in Reqs, StoreSnapshot(r) PROVE Goal
  <2>1. cache'.seen = part.seen /\ got' = [got EXCEPT ![r] = part.seen]
    BY <1>8 DEF StoreSnapshot
  <2>2. \A q \in Reqs : pc'[q] \notin {"volumes", "inspect"}
    BY <1>8 DEF StoreSnapshot, OneMeasures, Measuring
  <2>3. /\ known <= part.seen /\ part.seen <= changes
        /\ \A q \in Reqs : pc[q] = "dropped" => mine[q] <= part.seen
        /\ \A q \in Reqs : pc[q] = "answered" => got[q] <= part.seen
    BY <1>8 DEF StoreSnapshot
  <2>4. part.seen \in Nat /\ known \in Nat /\ asked \in [Reqs -> Nat]
    BY DEF Measurement
  <2>5. \A q \in Reqs : pc'[q] = "answered" => got'[q] <= changes /\ got'[q] <= part.seen
    BY <1>8, <2>1, <2>3, <2>4 DEF StoreSnapshot
  <2>6. Acknowledged'
    BY <1>8, <2>1, <2>2, <2>3, <2>5 DEF StoreSnapshot
  <2>7. FreshAfterAck'
    BY <1>8, <2>1, <2>3, <2>4 DEF StoreSnapshot
  <2>8. QED
    BY <2>6, <2>7
<1>9. ASSUME NEW r \in Reqs, Answered(r) PROVE Goal
  <2>1. known' \in {known, got[r]} /\ known <= known'
    BY <1>9 DEF Answered, Newer
  <2>2. QED
    BY <1>9, <2>1 DEF Answered, Finish
<1>10. ASSUME NEW r \in Reqs, BeginAction(r) PROVE Goal
  BY <1>10 DEF BeginAction
<1>11. ASSUME NEW r \in Reqs, ActionSucceeds(r) PROVE Goal
  <2>1. /\ changes' = changes + 1 /\ pc' = [pc EXCEPT ![r] = "done"]
        /\ mine' = [mine EXCEPT ![r] = changes']
        /\ UNCHANGED <<cache, asked, known, part, got>>
    BY <1>11 DEF ActionSucceeds
  <2>2. /\ \A q \in Reqs : mine[q] \in Nat /\ got[q] \in Nat
        /\ changes \in Nat /\ known \in Nat /\ part.seen \in Nat
    BY DEF Measurement
  <2>3. cache # NoCache => cache.seen \in Nat
    BY DEF Snapshot
  <2>4. /\ known' <= changes'
        /\ cache' # NoCache => cache'.seen <= changes'
        /\ \A q \in Reqs : pc'[q] \in {"volumes", "inspect"} => part'.seen <= changes'
    BY <2>1, <2>2, <2>3
  <2>5. \A n : KnownTo(n) => KnownTo(n)'
    BY <2>1
  <2>6. \A q \in Reqs : /\ mine'[q] <= changes' /\ got'[q] = got[q]
                        /\ got[q] <= changes => got'[q] <= changes'
    BY <2>1, <2>2
  <2>7. QED
    BY <2>1, <2>4, <2>5, <2>6
<1>12. ASSUME NEW r \in Reqs, ActionFails(r) PROVE Goal
  BY <1>12 DEF ActionFails, Finish
<1>13. ASSUME NEW r \in Reqs, InvalidateStorageCache(r) PROVE Goal
  <2>1. cache' = NoCache
    BY <1>13 DEF InvalidateStorageCache
  <2>2. \A q \in Reqs : pc'[q] \notin {"volumes", "inspect"}
    BY <1>13 DEF InvalidateStorageCache, OneMeasures, Measuring
  <2>3. QED
    BY <1>13, <2>1, <2>2 DEF InvalidateStorageCache
<1>14. ASSUME NEW r \in Reqs, AckAction(r) PROVE Goal
  <2>1. known' \in {known, mine[r]} /\ known <= known'
    BY <1>14 DEF AckAction, Newer
  <2>2. QED
    BY <1>14, <2>1 DEF AckAction, Finish
<1>15. ASSUME Expire PROVE Goal
  BY <1>15 DEF Expire
<1>16. ASSUME ChangeOutside PROVE Goal
  BY <1>16 DEF ChangeOutside
<1>17. ASSUME AgentRestart PROVE Goal
  BY <1>17 DEF AgentRestart, Release
<1>18. CASE UNCHANGED vars
  BY <1>18 DEF vars
<1>19. QED
  BY <1>1, <1>2, <1>3, <1>4, <1>5, <1>6, <1>7, <1>8, <1>9, <1>10, <1>11, <1>12, <1>13, <1>14,
     <1>15, <1>16, <1>17, <1>18
     DEF Next, Handler

\* The cache is made by StoreSnapshot or dropped, and never changed.
LEMMA CountsStep ==
  ASSUME TypeOK, CountsMatchOwners, [Next]_vars
  PROVE  CountsMatchOwners'
<1> USE DEF daemon
<1>1. ASSUME NEW r \in Reqs, StoreSnapshot(r) PROVE CountsMatchOwners'
  BY <1>1, StoredIsSnapshot
<1>2. ASSUME cache' \in {cache, NoCache} PROVE CountsMatchOwners'
  BY <1>2 DEF CountsMatchOwners
<1>3. ASSUME NEW r \in Reqs,
             \/ AnswerFromCache(r) \/ BeginMeasurement(r) \/ ReadContainers(r)
             \/ ReadVolumes(r) \/ MeasurementFails(r) \/ InvalidateStorageCache(r)
             \/ \E c \in Containers : InspectMounts(r, c)
      PROVE  cache' \in {cache, NoCache}
  BY <1>3 DEF AnswerFromCache, BeginMeasurement, ReadContainers, ReadVolumes, MeasurementFails,
              InvalidateStorageCache, InspectMounts
<1>4. ASSUME NEW r \in Reqs,
             \/ AckAction(r) \/ Ask(r) \/ Answered(r)
             \/ BeginAction(r) \/ ActionSucceeds(r) \/ ActionFails(r)
      PROVE  cache' \in {cache, NoCache}
  BY <1>4 DEF AckAction, Ask, Answered, BeginAction, ActionSucceeds, ActionFails
<1>5. ASSUME Expire \/ ChangeOutside \/ AgentRestart PROVE cache' \in {cache, NoCache}
  BY <1>5 DEF Expire, ChangeOutside, AgentRestart
<1>6. CASE UNCHANGED vars
  BY <1>2, <1>6 DEF vars
<1>7. QED
  BY <1>1, <1>2, <1>3, <1>4, <1>5, <1>6 DEF Next, Handler

-----------------------------------------------------------------------------
\* The inductive invariant holds in every reachable state.
THEOREM Invariant == Spec => []IInv
<1>1. IInv /\ [Next]_vars => IInv'
  BY TypeStep, OneMeasuresStep, AcknowledgedStep, CountsStep DEF IInv
<1>2. QED
  BY InitInv, <1>1, PTL DEF Spec

\* The type invariant of the agent's handlers, their mutex and their cache.
THEOREM TypeCorrect == Spec => []TypeOK
<1>1. IInv => TypeOK
  BY DEF IInv
<1>2. QED
  BY Invariant, <1>1, PTL

\* For any number of concurrent requests, containers and actions a snapshot is as new as
\* the last action that was acknowledged before it was asked for.
THEOREM SnapshotsAreFresh == Spec => []FreshAfterAck
<1>1. IInv => FreshAfterAck
  BY DEF IInv
<1>2. QED
  BY Invariant, <1>1, PTL

\* For any containers, volumes and stacks no volume counts in the totals of two stacks.
THEOREM TotalsDisjoint == Spec => []TotalsAreDisjoint
<1>1. ASSUME IInv, cache # NoCache, NEW s \in Stacks, NEW t \in Stacks, s # t,
             NEW v \in Exclusive(s) \cap Exclusive(t)
      PROVE  FALSE
  <2>1. v \in Volumes /\ s \in cache.owners[v] /\ t \in cache.owners[v] /\ cache.refs[v] = 1
    BY DEF Exclusive, Owned
  <2>2. PICK users \in SUBSET Containers :
          /\ cache.refs[v] = Cardinality(users)
          /\ cache.owners[v] \subseteq {StackOf[c] : c \in users}
    BY <1>1, <2>1 DEF IInv, CountsMatchOwners
  <2>3. PICK c : users = {c}
    BY <2>1, <2>2, CountInRange, FS_Singleton
  <2>4. s = StackOf[c] /\ t = StackOf[c]
    BY <2>1, <2>2, <2>3
  <2>5. QED
    BY <1>1, <2>4
<1>2. IInv => TotalsAreDisjoint
  BY <1>1 DEF TotalsAreDisjoint
<1>3. QED
  BY Invariant, <1>2, PTL

-----------------------------------------------------------------------------
\* What the calls of a measurement are counted by.
LEMMA CallsAreCounted ==
  ASSUME TypeOK, OneMeasures, NEW r \in Reqs, storageMu = r
  PROVE  /\ Cardinality(Containers) \in Nat
         /\ Cardinality(alive) \in 0..Cardinality(Containers)
         /\ IsFiniteSet(part.todo) /\ Cardinality(part.todo) \in Nat
         /\ pc[r] \in Measuring
         /\ CallsLeft(r) \in Nat \ {0}
<1>1. Cardinality(Containers) \in Nat
  BY FS_CardinalityType, StorageAssumption
<1>2. Cardinality(alive) \in 0..Cardinality(Containers)
  BY CountInRange DEF TypeOK
<1>3. IsFiniteSet(part.todo) /\ Cardinality(part.todo) \in Nat
  <2>1. part.todo \in SUBSET Containers
    BY DEF TypeOK, Measurement
  <2>2. QED
    BY <1>1, <2>1, CountInRange
<1>4. pc[r] \in Measuring
  BY DEF OneMeasures
<1>5. CallsLeft(r) \in Nat \ {0}
  BY <1>1, <1>3, <1>4 DEF CallsLeft, Measuring
<1>6. QED
  BY <1>1, <1>2, <1>3, <1>4, <1>5

\* A step of the holder of storageMu.
LEMMA HolderShrinks ==
  ASSUME TypeOK, OneMeasures, NEW r \in Reqs, storageMu = r,
         Handler(r) \/ Ask(r) \/ Answered(r) \/ BeginAction(r) \/ ActionSucceeds(r)
         \/ ActionFails(r)
  PROVE  CallsLeft(r)' < CallsLeft(r)
<1> USE CallsAreCounted DEF Goto
<1>0. pc[r] \in Measuring /\ pc \in [Reqs -> Stages]
  BY DEF TypeOK
<1>1. ASSUME ReadContainers(r) PROVE CallsLeft(r)' < CallsLeft(r)
  <2>1. pc[r] = "containers" /\ pc'[r] = "volumes" /\ part'.todo = alive
    BY <1>0, <1>1 DEF ReadContainers, TypeOK, Measurement
  <2>2. QED
    BY <2>1 DEF CallsLeft
<1>2. ASSUME ReadVolumes(r) PROVE CallsLeft(r)' < CallsLeft(r)
  <2>1. pc[r] = "volumes" /\ pc'[r] = "inspect" /\ part'.todo = part.todo
    BY <1>0, <1>2 DEF ReadVolumes, TypeOK, Measurement
  <2>2. QED
    BY <2>1 DEF CallsLeft
<1>3. ASSUME NEW c \in Containers, InspectMounts(r, c) PROVE CallsLeft(r)' < CallsLeft(r)
  <2>1. /\ pc[r] = "inspect" /\ pc'[r] = "inspect"
        /\ c \in part.todo /\ part'.todo = part.todo \ {c}
    BY <1>3 DEF InspectMounts, TypeOK, Measurement
  <2>2. Cardinality(part.todo \ {c}) = Cardinality(part.todo) - 1
    BY <2>1, FS_RemoveElement
  <2>3. QED
    BY <2>1, <2>2 DEF CallsLeft
<1>4. ASSUME MeasurementFails(r) \/ StoreSnapshot(r) PROVE CallsLeft(r)' < CallsLeft(r)
  <2>1. pc'[r] \in {"idle", "answered"}
    BY <1>0, <1>4 DEF MeasurementFails, StoreSnapshot, Finish
  <2>2. CallsLeft(r)' = 0
    BY <2>1 DEF CallsLeft
  <2>3. QED
    BY <2>2
<1>5. ~(\/ AnswerFromCache(r) \/ BeginMeasurement(r) \/ InvalidateStorageCache(r)
        \/ AckAction(r) \/ Ask(r) \/ Answered(r) \/ BeginAction(r) \/ ActionSucceeds(r)
        \/ ActionFails(r))
  BY <1>0 DEF Measuring, AnswerFromCache, BeginMeasurement, InvalidateStorageCache, AckAction,
              Ask, Answered, BeginAction, ActionSucceeds, ActionFails
<1>6. QED
  BY <1>1, <1>2, <1>3, <1>4, <1>5 DEF Handler

\* No other request touches the mutex or the measurement of its holder.
LEMMA OthersWait ==
  ASSUME TypeOK, OneMeasures, NEW r \in Reqs, storageMu = r, NEW q \in Reqs, q # r,
         Handler(q) \/ Ask(q) \/ Answered(q) \/ BeginAction(q) \/ ActionSucceeds(q)
         \/ ActionFails(q)
  PROVE  UNCHANGED <<storageMu, pc[r], part>>
<1>1. pc[q] \notin Measuring /\ storageMu # NoReq /\ pc \in [Reqs -> Stages]
  BY StorageAssumption DEF TypeOK, OneMeasures
<1> USE <1>1 DEF Measuring, Goto
<1>2. ~(\/ ReadContainers(q) \/ ReadVolumes(q) \/ MeasurementFails(q) \/ StoreSnapshot(q)
        \/ \E c \in Containers : InspectMounts(q, c)
        \/ AnswerFromCache(q) \/ BeginMeasurement(q) \/ InvalidateStorageCache(q))
  BY DEF ReadContainers, ReadVolumes, MeasurementFails, StoreSnapshot, InspectMounts,
         AnswerFromCache, BeginMeasurement, InvalidateStorageCache
<1>3. ASSUME AckAction(q) \/ Ask(q) \/ Answered(q) \/ BeginAction(q) \/ ActionSucceeds(q)
             \/ ActionFails(q)
      PROVE  UNCHANGED <<storageMu, pc[r], part>>
  BY <1>3 DEF AckAction, Ask, Answered, BeginAction, ActionSucceeds, ActionFails, Finish
<1>4. QED
  BY <1>2, <1>3 DEF Handler

\* MeasurementsShrink: a measurement of any number of containers gives storageMu back after
\* a bounded number of its own steps, so that RequestsEnd rests on the fairness alone.
THEOREM MutexComesBack == Spec => MeasurementsShrink
<1>1. ASSUME IInv, [Next]_vars, NEW r \in Reqs, storageMu = r
      PROVE  CallsLeft(r)' < CallsLeft(r) \/ UNCHANGED <<storageMu, pc[r], part>>
  <2>0. TypeOK /\ OneMeasures
    BY <1>1 DEF IInv
  <2>1. ASSUME NEW q \in Reqs,
               Handler(q) \/ Ask(q) \/ Answered(q) \/ BeginAction(q) \/ ActionSucceeds(q)
               \/ ActionFails(q)
        PROVE  CallsLeft(r)' < CallsLeft(r) \/ UNCHANGED <<storageMu, pc[r], part>>
    BY <1>1, <2>0, <2>1, HolderShrinks, OthersWait
  <2>2. ASSUME Expire \/ ChangeOutside \/ UNCHANGED vars
        PROVE  UNCHANGED <<storageMu, pc[r], part>>
    BY <2>2 DEF Expire, ChangeOutside, vars
  <2>3. ASSUME AgentRestart PROVE CallsLeft(r)' < CallsLeft(r)
    <3>1. CallsLeft(r)' = 0
      BY <2>3 DEF AgentRestart, CallsLeft
    <3>2. QED
      BY <1>1, <2>0, <3>1, CallsAreCounted
  <2>4. QED
    BY <1>1, <2>1, <2>2, <2>3 DEF Next
<1>2. IInv /\ [Next]_vars =>
        [\A r \in Reqs : storageMu = r =>
           CallsLeft(r)' < CallsLeft(r) \/ UNCHANGED <<storageMu, pc[r], part>>]_vars
  BY <1>1
<1>3. QED
  BY Invariant, <1>2, PTL DEF Spec, MeasurementsShrink

-----------------------------------------------------------------------------
\* A step of request r moves the read of r only.
LEMMA ReadMoves ==
  ASSUME NEW r \in Reqs, TypeOK, TypeOK',
         \A q \in Reqs \ {r} : pc'[q] = pc[q] /\ asked'[q] = asked[q] /\ got'[q] = got[q]
  PROVE  LET at == ReadAt(pc'[r])
         IN  /\ Reading' = [Reading EXCEPT ![r] = at]
             /\ Floor' = [Floor EXCEPT ![r] = IF at = "idle" THEN 0 ELSE asked'[r]]
             /\ Version' = [Version EXCEPT ![r] = IF at = "answered" THEN got'[r] ELSE 0]
BY DEF Reading, Floor, Version

\* A read stays where it is while its request goes from stage to stage.
LEMMA ReadStays ==
  ASSUME NEW r \in Reqs, TypeOK, TypeOK',
         \A q \in Reqs \ {r} : pc'[q] = pc[q] /\ asked'[q] = asked[q] /\ got'[q] = got[q],
         ReadAt(pc'[r]) = ReadAt(pc[r]),
         ReadAt(pc[r]) = "idle" \/ asked'[r] = asked[r],
         ReadAt(pc[r]) # "answered" \/ got'[r] = got[r]
  PROVE  UNCHANGED <<Reading, Floor, Version>>
BY DEF Reading, Floor, Version

\* The steps of an answer: asking, an answer that is new enough and shows no change that
\* was not made, and its end.
LEMMA ReadSteps ==
  ASSUME IInv, TypeOK', NEW r \in Reqs
  PROVE  /\ Ask(r) => Reads!Ask(r)
         /\ AnswerFromCache(r) \/ StoreSnapshot(r) => Reads!Answer(r)
         /\ Answered(r) => Reads!Receive(r)
         /\ MeasurementFails(r) => Reads!Fail(r)
<1> DEFINE Moves == LET at == ReadAt(pc'[r])
                    IN  /\ Reading' = [Reading EXCEPT ![r] = at]
                        /\ Floor' = [Floor EXCEPT ![r] = IF at = "idle" THEN 0 ELSE asked'[r]]
                        /\ Version' = [Version EXCEPT ![r] = IF at = "answered" THEN got'[r]
                                                             ELSE 0]
<1>0. TypeOK
  BY DEF IInv
<1> USE DEF Goto, Measuring, daemon
<1>1. ASSUME Ask(r) PROVE Reads!Ask(r)
  <2>1. pc[r] = "idle" /\ pc'[r] = "waiting" /\ asked'[r] = known
    BY <1>0, <1>1 DEF Ask, TypeOK
  <2>2. Moves
    BY <1>0, <1>1, ReadMoves DEF Ask, TypeOK
  <2>3. Reading[r] = "idle" /\ Version[r] = 0 /\ Version \in [Reqs -> 0..MaxChanges]
    BY <1>0, <2>1, StorageAssumption DEF Reading, Version, ReadAt, TypeOK
  <2>4. ReadAt(pc'[r]) = "asking"
    BY <2>1 DEF ReadAt
  <2>5. UNCHANGED <<changes, known, Version>>
    BY <1>1, <2>2, <2>3, <2>4 DEF Ask
  <2>6. QED
    BY <2>1, <2>2, <2>3, <2>4, <2>5 DEF Reads!Ask
<1>2. ASSUME AnswerFromCache(r) \/ StoreSnapshot(r) PROVE Reads!Answer(r)
  <2>1. pc[r] \in {"waiting", "inspect"} /\ pc'[r] = "answered"
    BY <1>0, <1>2 DEF AnswerFromCache, StoreSnapshot, TypeOK
  <2>2. Moves
    BY <1>0, <1>2, ReadMoves DEF AnswerFromCache, StoreSnapshot, TypeOK
  <2>3. got'[r] \in asked[r]..changes
    <3>1. asked[r] <= known /\ asked[r] \in Nat /\ known \in Nat /\ changes \in Nat
      BY <1>0 DEF IInv, Acknowledged, TypeOK
    <3>2. CASE AnswerFromCache(r)
      <4>1. cache # NoCache /\ cache.seen \in Nat /\ got'[r] = cache.seen
        BY <1>0, <3>2 DEF AnswerFromCache, TypeOK, Snapshot
      <4>2. known <= cache.seen /\ cache.seen <= changes
        BY <4>1 DEF IInv, Acknowledged, KnownTo
      <4>3. QED
        BY <3>1, <4>1, <4>2
    <3>3. CASE StoreSnapshot(r)
      <4>1. pc[r] = "inspect" /\ part.seen \in Nat /\ got'[r] = part.seen
        BY <1>0, <3>3 DEF StoreSnapshot, TypeOK, Measurement
      <4>2. known <= part.seen /\ part.seen <= changes
        BY <4>1 DEF IInv, Acknowledged, KnownTo
      <4>3. QED
        BY <3>1, <4>1, <4>2
    <3>4. QED
      BY <1>2, <3>2, <3>3
  <2>4. ReadAt(pc'[r]) = "answered" /\ Reading[r] = "asking" /\ Floor[r] = asked[r]
    BY <2>1 DEF Reading, Floor, ReadAt
  <2>5. Floor \in [Reqs -> 0..MaxChanges] /\ asked'[r] = asked[r] /\ UNCHANGED <<changes, known>>
    BY <1>0, <1>2, StorageAssumption DEF Floor, TypeOK, AnswerFromCache, StoreSnapshot
  <2>6. UNCHANGED Floor
    BY <2>2, <2>4, <2>5
  <2>7. \E n \in Floor[r]..changes : Version' = [Version EXCEPT ![r] = n]
    BY <2>2, <2>3, <2>4
  <2>8. QED
    BY <2>2, <2>4, <2>5, <2>6, <2>7 DEF Reads!Answer
<1>3. ASSUME Answered(r) PROVE Reads!Receive(r)
  <2>1. pc[r] = "answered" /\ pc'[r] = "idle" /\ UNCHANGED changes
    BY <1>0, <1>3 DEF Answered, Finish, TypeOK
  <2>2. Moves
    BY <1>0, <1>3, ReadMoves DEF Answered, Finish, TypeOK
  <2>3. ReadAt(pc'[r]) = "idle" /\ Reading[r] = "answered" /\ Version[r] = got[r]
    BY <2>1 DEF Reading, Version, ReadAt
  <2>4. known' = Reads!Newer(Version[r], known)
    BY <1>3, <2>3 DEF Answered, Newer, Reads!Newer
  <2>5. QED
    BY <2>1, <2>2, <2>3, <2>4 DEF Reads!Receive, Reads!End
<1>4. ASSUME MeasurementFails(r) PROVE Reads!Fail(r)
  <2>1. pc[r] \in {"containers", "volumes"} /\ pc'[r] = "idle" /\ UNCHANGED <<changes, known>>
    BY <1>0, <1>4 DEF MeasurementFails, Finish, TypeOK
  <2>2. Moves
    BY <1>0, <1>4, ReadMoves DEF MeasurementFails, Finish, TypeOK
  <2>3. ReadAt(pc'[r]) = "idle" /\ Reading[r] = "asking"
    BY <2>1 DEF Reading, ReadAt
  <2>4. QED
    BY <2>1, <2>2, <2>3 DEF Reads!Fail, Reads!End
<1>5. QED
  BY <1>1, <1>2, <1>3, <1>4

\* What a measurement does between its ends, and what actions do, no reader sees.
LEMMA UnseenSteps ==
  ASSUME IInv, TypeOK', NEW r \in Reqs,
         \/ BeginMeasurement(r) \/ ReadContainers(r) \/ ReadVolumes(r)
         \/ \E c \in Containers : InspectMounts(r, c)
         \/ InvalidateStorageCache(r) \/ AckAction(r)
         \/ BeginAction(r) \/ ActionSucceeds(r) \/ ActionFails(r)
  PROVE  UNCHANGED <<Reading, Floor, Version>>
<1>1. TypeOK
  BY DEF IInv
<1> USE DEF Goto, Measuring, daemon, TypeOK
<1>2. CASE BeginMeasurement(r) \/ ReadContainers(r) \/ ReadVolumes(r)
  <2>1. ReadAt(pc'[r]) = "asking" /\ ReadAt(pc[r]) = "asking"
    BY <1>1, <1>2 DEF BeginMeasurement, ReadContainers, ReadVolumes, ReadAt
  <2>2. asked' = asked /\ got' = got /\ \A q \in Reqs \ {r} : pc'[q] = pc[q]
    BY <1>1, <1>2 DEF BeginMeasurement, ReadContainers, ReadVolumes
  <2>3. QED
    BY <1>1, <2>1, <2>2, ReadStays
<1>3. CASE \E c \in Containers : InspectMounts(r, c)
  BY <1>1, <1>3, ReadStays DEF InspectMounts
<1>4. CASE \/ InvalidateStorageCache(r) \/ AckAction(r)
           \/ BeginAction(r) \/ ActionSucceeds(r) \/ ActionFails(r)
  <2>1. ReadAt(pc'[r]) = "idle" /\ ReadAt(pc[r]) = "idle"
    BY <1>1, <1>4 DEF InvalidateStorageCache, AckAction, BeginAction, ActionSucceeds,
                      ActionFails, Finish, ReadAt
  <2>2. \A q \in Reqs \ {r} : pc'[q] = pc[q] /\ asked'[q] = asked[q] /\ got'[q] = got[q]
    BY <1>1, <1>4 DEF InvalidateStorageCache, AckAction, BeginAction, ActionSucceeds,
                      ActionFails, Finish
  <2>3. QED
    BY <1>1, <2>1, <2>2, ReadStays
<1>5. QED
  BY <1>2, <1>3, <1>4

\* FreshReadsSpec: for any number of requests, containers and actions the cache, the mutex
\* and the calls of a measurement cannot be told from one value that is read at once.
THEOREM ImplementsFreshReads == Spec => FreshReadsSpec
<1>1. Init => Reads!Init
  BY DEF Init, Reads!Init, Reading, Floor, Version, ReadAt, Measuring
<1>2. ASSUME IInv, TypeOK', [Next]_vars PROVE [Reads!Next]_(Reads!readVars)
  <2>1. TypeOK
    BY <1>2 DEF IInv
  <2>2. ASSUME NEW r \in Reqs,
               \/ BeginMeasurement(r) \/ ReadContainers(r) \/ ReadVolumes(r)
               \/ \E c \in Containers : InspectMounts(r, c)
               \/ InvalidateStorageCache(r) \/ BeginAction(r) \/ ActionFails(r)
        PROVE  UNCHANGED Reads!readVars
    <3>1. UNCHANGED <<Reading, Floor, Version>>
      BY <1>2, <2>2, UnseenSteps
    <3>2. UNCHANGED <<changes, known>>
      BY <2>2 DEF BeginMeasurement, ReadContainers, ReadVolumes, InspectMounts,
                  InvalidateStorageCache, BeginAction, ActionFails, daemon
    <3>3. QED
      BY <3>1, <3>2 DEF Reads!readVars
  <2>3. ASSUME NEW r \in Reqs, ActionSucceeds(r) PROVE Reads!Change
    <3>1. UNCHANGED <<Reading, Floor, Version>>
      BY <1>2, <2>3, UnseenSteps
    <3>2. QED
      BY <2>3, <3>1 DEF ActionSucceeds, Reads!Change
  <2>4. ASSUME NEW r \in Reqs, AckAction(r) PROVE Reads!Acknowledge
    <3>1. UNCHANGED <<Reading, Floor, Version>>
      BY <1>2, <2>4, UnseenSteps
    <3>2. mine[r] \in 0..changes
      BY <1>2, <2>1 DEF IInv, Acknowledged, TypeOK
    <3>3. known' = Reads!Newer(mine[r], known) /\ UNCHANGED changes
      BY <2>4 DEF AckAction, Newer, Reads!Newer, daemon
    <3>4. QED
      BY <3>1, <3>2, <3>3 DEF Reads!Acknowledge
  <2>5. ASSUME NEW r \in Reqs,
               \/ Ask(r) \/ AnswerFromCache(r) \/ StoreSnapshot(r)
               \/ Answered(r) \/ MeasurementFails(r)
        PROVE  Reads!Next
    BY <1>2, <2>5, ReadSteps DEF Reads!Next
  <2>6. ASSUME Expire \/ ChangeOutside PROVE UNCHANGED Reads!readVars
    BY <2>6 DEF Expire, ChangeOutside, daemon, Reads!readVars, Reading, Floor, Version
  <2>7. ASSUME AgentRestart PROVE Reads!Forget
    BY <2>7 DEF AgentRestart, daemon, Reads!Forget, Reading, Floor, Version, ReadAt, Measuring
  <2>8. CASE UNCHANGED vars
    BY <2>8 DEF vars, daemon, Reads!readVars, Reading, Floor, Version
  <2>9. CASE Next
    BY <2>9, <2>2, <2>3, <2>4, <2>5, <2>6, <2>7 DEF Next, Handler, Reads!Next
  <2>10. QED
    BY <1>2, <2>8, <2>9
<1>3. QED
  BY Invariant, TypeCorrect, <1>1, <1>2, PTL DEF Spec, FreshReadsSpec, Reads!Spec
=============================================================================

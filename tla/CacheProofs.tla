------------------------------ MODULE CacheProofs ------------------------------
(***************************************************************************)
(* Proofs about the two stores that hand out what was gathered before: the *)
(* server's cache of the data of a page (PageCache, for any number of web  *)
(* processes and versions), and the browser's pool of recommended content  *)
(* (ContentRec, for any number of widgets and contents).  They share no    *)
(* state.                                                                  *)
(***************************************************************************)
EXTENDS PageCache, ContentRec, FiniteSetTheorems, WellFoundedInduction, TLAPS

-----------------------------------------------------------------------------
(*                              The page cache                              *)

\* The steps of Next, grouped by who takes them.
ChangeStep ==
    \/ SaveInteraction \/ DeleteInteraction \/ QueueRefresh \/ BlockTag \/ ClearCaches
StoreStep == ReplicaCatchesUp \/ CacheForgets \/ LockExpires

-----------------------------------------------------------------------------
(* Type correctness                                                         *)

\* In the initial state there is one version, in both caches.
LEMMA InitTyped == Init => TypeOK
<1> SUFFICES ASSUME Init PROVE TypeOK
  OBVIOUS
<1>1. /\ database \in Versions /\ replica \in 1..database
      /\ primary \in 0..database /\ redundant \in 0..database
      /\ computed \in 0..database /\ cleared \in 0..database /\ blocked \in 0..database
  BY BoundsAssumption DEF Init, Versions, Miss
<1>2. pc \in [Readers -> ReaderPlaces] /\ polls \in [Readers -> 0..Polls]
  BY BoundsAssumption DEF Init, ReaderPlaces
<1>3. value \in [Readers -> 0..database] /\ wanted \in [Readers -> 0..database]
  BY DEF Init, Miss
<1> QED BY <1>1, <1>2, <1>3 DEF Init, TypeOK, WorkerPlaces

\* However a step ends, it leaves the history variable a truth value.
LEMMA HistoryTyped == Smoothly \/ Afresh \/ InTrouble => troubled' \in BOOLEAN
<1>1. Smoothly => troubled' \in BOOLEAN
  BY DEF Smoothly
<1>2. Afresh => troubled' \in BOOLEAN
  BY DEF Afresh, InTheWay
<1>3. InTrouble => troubled' \in BOOLEAN
  BY DEF InTrouble
<1> QED BY <1>1, <1>2, <1>3

\* A change of the database keeps the types: versions only grow.
LEMMA ChangePreservesTypes == TypeOK /\ ChangeStep => TypeOK'
<1> SUFFICES ASSUME TypeOK, ChangeStep PROVE TypeOK'
  OBVIOUS
<1>1. troubled' \in BOOLEAN
  BY HistoryTyped
  DEF ChangeStep, SaveInteraction, DeleteInteraction, QueueRefresh, BlockTag, ClearCaches
<1>2. CASE SaveInteraction \/ DeleteInteraction \/ BlockTag
  <2>1. /\ database' \in Versions /\ database' = database + 1
        /\ replica' \in 1..database'
    BY <1>2, BoundsAssumption
    DEF SaveInteraction, DeleteInteraction, BlockTag, NextVersion, TypeOK, Versions
  <2>2. /\ value' \in [Readers -> 0..database'] /\ wanted' \in [Readers -> 0..database']
    BY <1>2, <2>1, BoundsAssumption
    DEF SaveInteraction, DeleteInteraction, BlockTag, TypeOK, Versions, readers, approvals
  <2>3. saved' \in Nat /\ blocked' \in 0..database'
    BY <1>2, <2>1
    DEF SaveInteraction, DeleteInteraction, BlockTag, TypeOK, Versions
  <2>4. UNCHANGED <<crosspage, caches, work, pc, polls, cleared>>
    BY <1>2 DEF SaveInteraction, DeleteInteraction, BlockTag, readers, approvals
  <2> QED
    BY <1>1, <2>1, <2>2, <2>3, <2>4, BoundsAssumption DEF TypeOK, Versions, caches, work
<1>3. CASE QueueRefresh
  <2>1. saved' \in Nat /\ tasks' \in Nat
    BY <1>3 DEF QueueRefresh, TypeOK
  <2> QED
    BY <1>1, <1>3, <2>1 DEF QueueRefresh, TypeOK, caches, readers, approvals
<1>4. CASE ClearCaches
  <2>1. primary' \in 0..database' /\ blocked' \in 0..database' /\ cleared' \in 0..database'
    BY <1>4, BoundsAssumption DEF ClearCaches, TypeOK, Versions, Miss
  <2> QED BY <1>1, <1>4, <2>1 DEF ClearCaches, TypeOK, work, readers
<1> QED BY <1>2, <1>3, <1>4 DEF ChangeStep

\* A step of the worker keeps the types.
LEMMA WorkerPreservesTypes == TypeOK /\ WorkerStep => TypeOK'
<1> SUFFICES ASSUME TypeOK, WorkerStep PROVE TypeOK'
  OBVIOUS
<1>1. troubled' \in BOOLEAN
  BY HistoryTyped
  DEF WorkerStep, WorkerTakesTask, WorkerComputes, WorkerLocks, WorkerSets, WorkerUnlocks,
      WorkerSetsRedundant
<1> USE <1>1, BoundsAssumption
        DEF TypeOK, Versions, WorkerPlaces, changes, caches, readers, approvals
<1>2. CASE WorkerTakesTask BY <1>2 DEF WorkerTakesTask
<1>3. CASE WorkerComputes BY <1>3 DEF WorkerComputes
<1>4. CASE WorkerLocks BY <1>4 DEF WorkerLocks
<1>5. CASE WorkerSets BY <1>5 DEF WorkerSets
<1>6. CASE WorkerUnlocks BY <1>6 DEF WorkerUnlocks
<1>7. CASE WorkerSetsRedundant BY <1>7 DEF WorkerSetsRedundant
<1> QED BY <1>2, <1>3, <1>4, <1>5, <1>6, <1>7 DEF WorkerStep

\* A step of a reader keeps the types.
LEMMA ReaderPreservesTypes ==
  ASSUME NEW r \in Readers, TypeOK, AskForPage(r) \/ ReaderStep(r)
  PROVE  TypeOK'
<1>1. troubled' \in BOOLEAN
  BY HistoryTyped
  DEF AskForPage, ReaderStep, CheckLock, CheckRedundant, Promote, TakeLock, Poll, ReadDatabase,
      SetPrimary, SetRedundant, AnswerPage, RequestFails
<1> USE <1>1, BoundsAssumption
    DEF TypeOK, Versions, ReaderPlaces, changes, caches, work, Goto, Holds, Miss, approvals
<1>2. CASE AskForPage(r) BY <1>2 DEF AskForPage
<1>3. CASE CheckLock(r) BY <1>3 DEF CheckLock
<1>4. CASE CheckRedundant(r) BY <1>4 DEF CheckRedundant
<1>5. CASE Promote(r) BY <1>5 DEF Promote
<1>6. CASE TakeLock(r) BY <1>6 DEF TakeLock
<1>7. CASE Poll(r)
  <2>1. polls' \in [Readers -> 0..Polls]
    BY <1>7 DEF Poll
  <2>2. /\ pc' \in [Readers -> ReaderPlaces] /\ value' \in [Readers -> 0..database]
        /\ locked' \in BOOLEAN
    BY <1>7 DEF Poll
  <2> QED BY <1>7, <2>1, <2>2 DEF Poll
<1>8. CASE ReadDatabase(r) BY <1>8 DEF ReadDatabase
<1>9. CASE SetPrimary(r) BY <1>9 DEF SetPrimary
<1>10. CASE SetRedundant(r) BY <1>10 DEF SetRedundant
<1>11. CASE AnswerPage(r) BY <1>11 DEF AnswerPage
<1>12. CASE RequestFails(r) BY <1>12 DEF RequestFails
<1> QED
  BY <1>2, <1>3, <1>4, <1>5, <1>6, <1>7, <1>8, <1>9, <1>10, <1>11, <1>12 DEF ReaderStep

\* Neither do the replica, an eviction and an expiry.
LEMMA StorePreservesTypes == TypeOK /\ StoreStep => TypeOK'
<1> SUFFICES ASSUME TypeOK, StoreStep PROVE TypeOK'
  OBVIOUS
<1>1. troubled' \in BOOLEAN
  BY HistoryTyped DEF StoreStep, ReplicaCatchesUp, CacheForgets, LockExpires
<1> USE <1>1, BoundsAssumption
        DEF TypeOK, Versions, changes, caches, work, readers, Miss, approvals
<1>2. CASE ReplicaCatchesUp BY <1>2 DEF ReplicaCatchesUp
<1>3. CASE CacheForgets BY <1>3 DEF CacheForgets
<1>4. CASE LockExpires BY <1>4 DEF LockExpires
<1> QED BY <1>2, <1>3, <1>4 DEF StoreStep

\* The four lemmas together.
LEMMA TypePreserved == TypeOK /\ [Next]_vars => TypeOK'
<1> SUFFICES ASSUME TypeOK, [Next]_vars PROVE TypeOK'
  OBVIOUS
<1>1. CASE ChangeStep BY <1>1, ChangePreservesTypes
<1>2. CASE WorkerStep BY <1>2, WorkerPreservesTypes
<1>3. ASSUME NEW r \in Readers, AskForPage(r) \/ ReaderStep(r) PROVE TypeOK'
  BY <1>3, ReaderPreservesTypes
<1>4. CASE StoreStep BY <1>4, StorePreservesTypes
<1>5. CASE UNCHANGED vars
  BY <1>5 DEF TypeOK, vars, changes, caches, work, readers, approvals
<1> QED BY <1>1, <1>2, <1>3, <1>4, <1>5 DEF Next, ChangeStep, StoreStep

\* No cache, no process and no replica ever holds a version that the database
\* has not had, however requests, refreshes, evictions and failures interleave.
THEOREM CacheTypeCorrect == Spec => []TypeOK
<1>1. Init => TypeOK BY InitTyped
<1>2. TypeOK /\ [Next]_vars => TypeOK' BY TypePreserved
<1> QED BY <1>1, <1>2, PTL DEF Spec

-----------------------------------------------------------------------------
(* Where no trouble was, the caches are fresh                               *)

\* Each of the following holds as long as there was no trouble since the last
\* refresh began.  What readers are about to write is the database's version.
FillsAreFresh == \A r \in Readers : Filling(r) => value[r] = database

\* What the worker has computed is not older than what it will replace.
ComputedIsNewer ==
    worker \in {"locking", "setting", "unlocking", "setRedundant"}
        => primary <= computed /\ redundant <= computed

\* What the worker is doing is enough, if no more refreshes are to come.
LastRefresh ==
    saved = 0 /\ tasks = 0 =>
        /\ worker \in {"locking", "setting", "unlocking", "setRedundant"}
              => computed = database
        /\ worker \in {"unlocking", "setRedundant", "idle"} => primary \in {Miss, database}
        /\ worker = "idle" => redundant \in {Miss, database}

Untroubled ==
    ~troubled => ~InTheWay /\ FillsAreFresh /\ ComputedIsNewer /\ LastRefresh

\* The caches of one step: each is emptied, or filled with what is not older.
Advance ==
    ~troubled' => /\ primary' = Miss \/ primary' >= primary
                  /\ redundant' = Miss \/ redundant' >= redundant

\* A step after which there is no trouble found none, or begins a refresh.
LEMMA NoTroubleBefore ==
  ASSUME ~troubled', Smoothly \/ InTrouble, Untroubled
  PROVE  /\ Smoothly /\ ~InTrouble /\ ~troubled /\ ~InTheWay /\ ~InTheWay'
         /\ FillsAreFresh /\ ComputedIsNewer /\ LastRefresh
BY DEF Smoothly, InTrouble, Untroubled

\* A change of the database puts a refresh under way, and nobody is filling.
LEMMA ChangeKeepsUntroubled ==
  ASSUME TypeOK, Untroubled, ChangeStep, ~troubled'
  PROVE  Untroubled' /\ Advance
<1>1. Smoothly \/ InTrouble
  BY DEF ChangeStep, SaveInteraction, DeleteInteraction, QueueRefresh, BlockTag, ClearCaches
<1>2. /\ Smoothly /\ ~InTrouble /\ ~InTheWay /\ ~InTheWay'
      /\ FillsAreFresh /\ ComputedIsNewer /\ LastRefresh
  BY <1>1, NoTroubleBefore
<1>3. /\ primary \in Nat /\ redundant \in Nat /\ database \in Nat
      /\ saved \in Nat /\ tasks \in Nat
  BY DEF TypeOK, Versions
<1>4. UNCHANGED <<pc, value, redundant, worker, computed>>
  BY DEF ChangeStep, SaveInteraction, DeleteInteraction, QueueRefresh, BlockTag, ClearCaches,
         caches, work, readers
<1>5. CASE SaveInteraction \/ DeleteInteraction
  <2>1. saved' = saved + 1 /\ UNCHANGED <<tasks, primary>>
    BY <1>2, <1>5 DEF SaveInteraction, DeleteInteraction, caches, work
  <2>2. Refreshing'
    BY <1>3, <2>1 DEF Refreshing
  <2>3. FillsAreFresh'
    BY <1>2, <2>2 DEF InTheWay, FillsAreFresh
  <2>4. ComputedIsNewer' /\ LastRefresh'
    BY <1>2, <1>3, <1>4, <2>1 DEF ComputedIsNewer, LastRefresh
  <2> QED BY <1>2, <1>3, <1>4, <2>1, <2>3, <2>4 DEF Untroubled, Advance
<1>6. CASE QueueRefresh
  <2>1. tasks' = tasks + 1 /\ UNCHANGED <<database, primary>>
    BY <1>2, <1>6 DEF QueueRefresh, caches
  <2>2. FillsAreFresh'
    BY <1>2, <1>4, <2>1 DEF FillsAreFresh, Filling
  <2>3. ComputedIsNewer' /\ LastRefresh'
    BY <1>2, <1>3, <1>4, <2>1 DEF ComputedIsNewer, LastRefresh
  <2> QED BY <1>2, <1>3, <1>4, <2>1, <2>2, <2>3 DEF Untroubled, Advance
<1>7. CASE ClearCaches
  <2>1. primary' \in {primary, Miss} /\ UNCHANGED <<database, saved, tasks>>
    BY <1>7 DEF ClearCaches, work
  <2>2. FillsAreFresh'
    BY <1>2, <1>4, <2>1 DEF FillsAreFresh, Filling
  <2>3. ComputedIsNewer' /\ LastRefresh'
    <3>1. computed \in Nat
      BY DEF TypeOK, Versions
    <3> QED BY <1>2, <1>3, <1>4, <2>1, <3>1 DEF ComputedIsNewer, LastRefresh, Miss
  <2> QED BY <1>2, <1>3, <1>4, <2>1, <2>2, <2>3 DEF Untroubled, Advance
<1>8. ~BlockTag
  BY <1>2 DEF BlockTag
<1> QED BY <1>5, <1>6, <1>7, <1>8 DEF ChangeStep

\* The worker begins with nobody in its way, reads what the database has, and
\* writes what is not older than what it finds.
LEMMA WorkerKeepsUntroubled ==
  ASSUME TypeOK, Untroubled, WorkerStep, ~troubled'
  PROVE  Untroubled' /\ Advance
<1>1. /\ primary \in Nat /\ redundant \in Nat /\ database \in Nat /\ computed \in Nat
      /\ saved \in Nat /\ tasks \in Nat /\ primary <= database /\ redundant <= database
      /\ replica <= database /\ replica \in Nat
  BY DEF TypeOK, Versions
<1>2. UNCHANGED <<pc, value, database, replica, saved>>
  BY DEF WorkerStep, WorkerTakesTask, WorkerComputes, WorkerLocks, WorkerSets,
         WorkerUnlocks, WorkerSetsRedundant, changes, readers
<1>3. CASE WorkerTakesTask
  <2>1. worker' = "computing" /\ Afresh /\ UNCHANGED <<primary, redundant>>
    <3>1. CASE locked /\ UNCHANGED worker /\ Smoothly
      <4>1. InTheWay
        BY <1>3, <3>1 DEF WorkerTakesTask, InTheWay
      <4> QED BY <3>1, <4>1, NoTroubleBefore
    <3> QED BY <1>3, <3>1 DEF WorkerTakesTask, caches
  <2>2. ~InTheWay'
    BY <2>1 DEF Afresh
  <2>3. FillsAreFresh'
    BY <2>1, <2>2 DEF InTheWay, Refreshing, FillsAreFresh
  <2>4. ComputedIsNewer' /\ LastRefresh'
    BY <2>1 DEF ComputedIsNewer, LastRefresh
  <2> QED BY <1>1, <2>1, <2>2, <2>3, <2>4 DEF Untroubled, Advance
<1>4. CASE ~WorkerTakesTask
  <2>1. /\ Smoothly \/ InTrouble
        /\ UNCHANGED tasks
    BY <1>4 DEF WorkerStep, WorkerComputes, WorkerLocks, WorkerSets, WorkerUnlocks,
                WorkerSetsRedundant
  <2>2. /\ Smoothly /\ ~InTrouble /\ ~InTheWay /\ ~InTheWay'
        /\ FillsAreFresh /\ ComputedIsNewer /\ LastRefresh
    BY <2>1, NoTroubleBefore
  <2>3. FillsAreFresh'
    BY <1>2, <2>2 DEF FillsAreFresh, Filling
  <2>4. ComputedIsNewer' /\ LastRefresh' /\ Advance
    <3>1. CASE WorkerComputes
      <4>1. replica = database
        BY <1>1, <2>2 DEF InTheWay
      <4>2. computed' = database /\ worker' = "locking" /\ UNCHANGED <<primary, redundant>>
        BY <2>2, <3>1, <4>1 DEF WorkerComputes, caches
      <4> QED BY <1>1, <1>2, <4>2 DEF ComputedIsNewer, LastRefresh, Advance
    <3>2. CASE WorkerLocks
      <4>1. worker = "locking" /\ worker' = "setting" /\ UNCHANGED <<primary, redundant, computed>>
        BY <2>2, <3>2 DEF WorkerLocks
      <4> QED BY <1>1, <1>2, <2>1, <2>2, <4>1 DEF ComputedIsNewer, LastRefresh, Advance
    <3>3. CASE WorkerSets
      <4>1. worker = "setting" /\ worker' = "unlocking" /\ primary' = computed
            /\ UNCHANGED <<redundant, computed>>
        BY <2>2, <3>3 DEF WorkerSets
      <4> QED BY <1>1, <1>2, <2>1, <2>2, <4>1 DEF ComputedIsNewer, LastRefresh, Advance
    <3>4. CASE WorkerUnlocks
      <4>1. worker = "unlocking" /\ worker' = "setRedundant"
            /\ UNCHANGED <<primary, redundant, computed>>
        BY <3>4 DEF WorkerUnlocks
      <4> QED BY <1>1, <1>2, <2>1, <2>2, <4>1 DEF ComputedIsNewer, LastRefresh, Advance
    <3>5. CASE WorkerSetsRedundant
      <4>1. worker = "setRedundant" /\ worker' = "idle" /\ redundant' = computed
            /\ UNCHANGED <<primary, computed>>
        BY <2>2, <3>5 DEF WorkerSetsRedundant
      <4> QED BY <1>1, <1>2, <2>1, <2>2, <4>1 DEF ComputedIsNewer, LastRefresh, Advance
    <3> QED BY <1>4, <3>1, <3>2, <3>3, <3>4, <3>5 DEF WorkerStep
  <2> QED BY <2>2, <2>3, <2>4 DEF Untroubled
<1> QED BY <1>3, <1>4

\* Where no trouble was, a reader has a value to write only when no refresh is
\* under way, and then it is the database's.
LEMMA ReaderKeepsUntroubled ==
  ASSUME TypeOK, Untroubled, NEW r \in Readers, AskForPage(r) \/ ReaderStep(r), ~troubled'
  PROVE  Untroubled' /\ Advance
<1>1. /\ primary \in Nat /\ redundant \in Nat /\ database \in Nat /\ replica \in Nat
      /\ saved \in Nat /\ tasks \in Nat /\ primary <= database /\ redundant <= database
      /\ replica <= database /\ pc \in [Readers -> ReaderPlaces] /\ value \in [Readers -> 0..database]
      /\ worker \in WorkerPlaces
  BY DEF TypeOK, Versions
<1>2. /\ Smoothly \/ InTrouble
      /\ UNCHANGED <<database, replica, saved, tasks, worker, computed>>
  BY DEF AskForPage, ReaderStep, CheckLock, CheckRedundant, Promote, TakeLock, Poll,
         ReadDatabase, SetPrimary, SetRedundant, AnswerPage, RequestFails, changes, work
<1>3. /\ Smoothly /\ ~InTrouble /\ ~InTheWay /\ ~InTheWay'
      /\ FillsAreFresh /\ ComputedIsNewer /\ LastRefresh
  BY <1>2, NoTroubleBefore
<1>4. (\E q \in Readers : Filling(q) \/ Filling(q)') =>
          /\ saved = 0 /\ tasks = 0 /\ worker = "idle"
          /\ primary \in {Miss, database} /\ redundant \in {Miss, database}
  BY <1>1, <1>2, <1>3 DEF InTheWay, Refreshing, LastRefresh
<1>5. /\ Filling(r) => value[r] = database
      /\ \A q \in Readers \ {r} : Filling(q)' => value'[q] = database
      /\ \A q \in Readers \ {r} : pc'[q] = pc[q] /\ value'[q] = value[q]
  <2>1. \A q \in Readers \ {r} : pc'[q] = pc[q] /\ value'[q] = value[q]
    BY <1>1 DEF AskForPage, ReaderStep, CheckLock, CheckRedundant, Promote, TakeLock, Poll,
         ReadDatabase, SetPrimary, SetRedundant, AnswerPage, RequestFails, Goto, Holds
  <2> QED BY <1>3, <2>1 DEF FillsAreFresh, Filling
<1>6. Filling(r)' => value'[r] = database
  <2>1. CASE CheckRedundant(r)
    <3>1. pc' = [pc EXCEPT ![r] = IF redundant # Miss THEN "promote" ELSE "takeLock"]
          /\ value' = [value EXCEPT ![r] = redundant]
      BY <2>1 DEF CheckRedundant, Goto, Holds
    <3> QED BY <1>1, <1>4, <3>1 DEF Filling
  <2>2. CASE ReadDatabase(r)
    <3>1. value'[r] = replica
      BY <1>1, <2>2 DEF ReadDatabase, Holds
    <3>2. replica = database
      BY <1>1, <1>3 DEF InTheWay
    <3> QED BY <3>1, <3>2
  <2>3. CASE SetPrimary(r)
    BY <1>5, <2>3 DEF SetPrimary, Filling
  <2>4. CASE ~(CheckRedundant(r) \/ ReadDatabase(r) \/ SetPrimary(r))
    <3>1. pc'[r] \notin {"promote", "setPrimary", "setRedundant"}
      BY <1>1, <2>4 DEF AskForPage, ReaderStep, CheckLock, Promote, TakeLock, Poll,
         SetRedundant, AnswerPage, RequestFails, Goto, ReaderPlaces
    <3> QED BY <3>1 DEF Filling
  <2> QED BY <2>1, <2>2, <2>3, <2>4
<1>7. FillsAreFresh'
  BY <1>2, <1>5, <1>6 DEF FillsAreFresh
<1>8. /\ primary' = primary \/ (Filling(r) /\ primary' = database)
      /\ redundant' = redundant \/ (Filling(r) /\ redundant' = database)
  <2>1. CASE Promote(r)
    BY <1>3, <1>5, <2>1 DEF Promote, Filling
  <2>2. CASE SetPrimary(r)
    BY <1>3, <1>5, <2>2 DEF SetPrimary, Filling
  <2>3. CASE SetRedundant(r)
    BY <1>3, <1>5, <2>3 DEF SetRedundant, Filling
  <2>4. CASE ~(Promote(r) \/ SetPrimary(r) \/ SetRedundant(r))
    BY <2>4 DEF AskForPage, ReaderStep, CheckLock, CheckRedundant, TakeLock, Poll,
         ReadDatabase, AnswerPage, RequestFails, caches
  <2> QED BY <2>1, <2>2, <2>3, <2>4
<1>9. ComputedIsNewer' /\ LastRefresh' /\ Advance
  <2>1. CASE UNCHANGED <<primary, redundant>>
    BY <1>1, <1>2, <1>3, <2>1 DEF ComputedIsNewer, LastRefresh, Advance
  <2>2. CASE Filling(r)
    BY <1>1, <1>2, <1>4, <1>8, <2>2 DEF ComputedIsNewer, LastRefresh, Advance
  <2> QED BY <1>8, <2>1, <2>2
<1> QED BY <1>3, <1>7, <1>9 DEF Untroubled

\* An eviction leaves no older value, and an expiry no value at all.
LEMMA StoreKeepsUntroubled ==
  ASSUME TypeOK, Untroubled, StoreStep, ~troubled'
  PROVE  Untroubled' /\ Advance
<1>1. /\ primary \in Nat /\ redundant \in Nat /\ computed \in Nat
  BY DEF TypeOK, Versions
<1>2. /\ Smoothly
      /\ UNCHANGED <<database, saved, tasks, worker, computed, pc, value>>
      /\ primary' \in {primary, Miss} /\ redundant' \in {redundant, Miss}
  BY DEF StoreStep, ReplicaCatchesUp, CacheForgets, LockExpires, changes, caches, work, readers
<1>3. /\ ~InTheWay' /\ FillsAreFresh /\ ComputedIsNewer /\ LastRefresh
  BY <1>2, NoTroubleBefore
<1>4. FillsAreFresh'
  BY <1>2, <1>3 DEF FillsAreFresh, Filling
<1>5. ComputedIsNewer' /\ LastRefresh' /\ Advance
  BY <1>1, <1>2, <1>3 DEF ComputedIsNewer, LastRefresh, Advance, Miss
<1> QED BY <1>3, <1>4, <1>5 DEF Untroubled

\* Every step keeps the invariant, and where there is no trouble after it the
\* caches do not go back.
LEMMA StepKeepsUntroubled ==
  ASSUME TypeOK, Untroubled, [Next]_vars
  PROVE  Untroubled' /\ [Advance]_vars
<1>1. CASE troubled'
  BY <1>1 DEF Untroubled, Advance
<1>2. CASE ~troubled'
  <2>1. CASE ChangeStep BY <1>2, <2>1, ChangeKeepsUntroubled
  <2>2. CASE WorkerStep BY <1>2, <2>2, WorkerKeepsUntroubled
  <2>3. ASSUME NEW r \in Readers, AskForPage(r) \/ ReaderStep(r)
        PROVE  Untroubled' /\ Advance
    BY <1>2, <2>3, ReaderKeepsUntroubled
  <2>4. CASE StoreStep BY <1>2, <2>4, StoreKeepsUntroubled
  <2>5. CASE UNCHANGED vars
    BY <2>5 DEF Untroubled, InTheWay, Refreshing, FillsAreFresh, Filling, ComputedIsNewer,
                LastRefresh, vars, changes, caches, work, readers, approvals
  <2> QED BY <2>1, <2>2, <2>3, <2>4, <2>5 DEF Next, ChangeStep, StoreStep
<1> QED BY <1>1, <1>2

\* It holds from the beginning on.
LEMMA UntroubledHolds == Spec => []Untroubled
<1>1. Init => Untroubled
  BY DEF Init, Untroubled, InTheWay, Refreshing, FillsAreFresh, Filling, ComputedIsNewer, LastRefresh
<1>2. TypeOK /\ Untroubled /\ [Next]_vars => Untroubled'
  BY StepKeepsUntroubled
<1> QED BY <1>1, <1>2, CacheTypeCorrect, PTL DEF Spec

\* When nothing is under way, both caches have the database's version or none,
\* unless something was in the way of the last refresh or after it: for any
\* number of readers, whatever they missed, locked, promoted and wrote.
THEOREM UntroubledCachesFresh == Spec => []QuietCachesFresh
<1>1. TypeOK /\ Untroubled => QuietCachesFresh
  BY DEF TypeOK, Untroubled, LastRefresh, QuietCachesFresh, Quiet, Refreshing
<1> QED BY <1>1, UntroubledHolds, CacheTypeCorrect, PTL

\* Under the same condition no cache is ever given an older value than it has.
THEOREM UntroubledCachesAdvance == Spec => CachesAdvance
<1>1. TypeOK /\ Untroubled /\ [Next]_vars
        => [~troubled' => /\ primary' = Miss \/ primary' >= primary
                          /\ redundant' = Miss \/ redundant' >= redundant]_vars
  BY StepKeepsUntroubled DEF Advance
<1> QED BY <1>1, UntroubledHolds, CacheTypeCorrect, PTL DEF Spec, CachesAdvance

-----------------------------------------------------------------------------
(*                         The recommended content                          *)
(*                                                                          *)
(* What is chosen and who is served are recursive functions.  What they     *)
(* compute is proved by a smallest counterexample, for which every set of   *)
(* numbers up to n has a least one.                                         *)

-----------------------------------------------------------------------------
(* Least and greatest numbers, and iteration                                *)

(* Of the subsets of a finite set that are given, one contains no other.     *)
LEMMA SmallestSet ==
    ASSUME NEW D, IsFiniteSet(D), NEW B \in SUBSET (SUBSET D), B # {}
    PROVE  \E s \in B : \A t \in B : ~(t \subseteq s /\ t # s)
<1> DEFINE R == StrictSubsetOrdering(D)
<1>1. IsWellFoundedOn(R, FiniteSubsetsOf(D))
  BY FS_StrictSubsetOrderingWellFounded
<1>2. B \subseteq FiniteSubsetsOf(D)
  <2>1. \A s \in SUBSET D : IsFiniteSet(s)
    BY FS_Subset
  <2>2. QED
    BY <2>1 DEF FiniteSubsetsOf
<1>3. PICK s \in B : \A t \in B : ~(<<t, s>> \in R)
  <2> HIDE DEF R
  <2>1. QED
    BY <1>1, <1>2, WFMin
<1>4. \A t \in B : t \subseteq s /\ t # s => <<t, s>> \in R
  BY DEF StrictSubsetOrdering
<1>5. \A t \in B : ~(t \subseteq s /\ t # s)
  <2> HIDE DEF R
  <2>1. QED
    BY <1>3, <1>4
<1>6. QED
  BY <1>5

(* A set of numbers up to n has a least one: of the sets 0..m, for m in it,  *)
(* one is contained in no other.                                             *)
LEMMA LeastNumber ==
    ASSUME NEW n \in Nat, NEW S \in SUBSET (0..n), S # {}
    PROVE  \E k \in S : \A m \in S : k <= m
<1> DEFINE D == 0..n
           B == {0..m : m \in S}
<1>1. IsFiniteSet(D)
  <2>1. 0 \in Int /\ n \in Int
    OBVIOUS
  <2>2. QED
    BY <2>1, FS_Interval
<1>2. B \in SUBSET (SUBSET D) /\ B # {}
  <2>1. \A m \in S : 0..m \subseteq D
    OBVIOUS
  <2>2. QED
    BY <2>1
<1>3. PICK s \in B : \A t \in B : ~(t \subseteq s /\ t # s)
  <2> HIDE DEF B, D
  <2>1. QED
    BY <1>1, <1>2, SmallestSet
<1>4. PICK k \in S : s = 0..k
  OBVIOUS
<1>5. \A m \in S : k <= m
  <2> SUFFICES ASSUME NEW m \in S, m < k PROVE FALSE
    OBVIOUS
  <2>1. 0..m \subseteq 0..k /\ 0..m # 0..k
    OBVIOUS
  <2>2. QED
    BY <1>3, <1>4, <2>1
<1>6. QED
  BY <1>5

(* And a greatest: the numbers that are left to n have a least one.          *)
LEMMA GreatestNumber ==
    ASSUME NEW n \in Nat, NEW S \in SUBSET (0..n), S # {}
    PROVE  \E k \in S : \A m \in S : m <= k
<1> DEFINE T == {n - m : m \in S}
<1>1. T \in SUBSET (0..n) /\ T # {}
  OBVIOUS
<1>2. PICK t \in T : \A u \in T : t <= u
  <2> HIDE DEF T
  <2>1. QED
    BY <1>1, LeastNumber
<1>3. PICK k \in S : t = n - k
  OBVIOUS
<1>4. \A m \in S : n - m \in T
  OBVIOUS
<1>5. \A m \in S : m <= k
  BY <1>2, <1>3, <1>4
<1>6. QED
  BY <1>5

(* What Min and Max choose is in the set.                                    *)
LEMMA MinMaxIn ==
    ASSUME NEW n \in Nat, NEW S \in SUBSET (1..n), S # {}
    PROVE  Min(S) \in S /\ Max(S) \in S
<1>1. S \in SUBSET (0..n)
  OBVIOUS
<1>2. PICK k \in S : \A m \in S : k <= m
  BY <1>1, LeastNumber
<1>3. PICK l \in S : \A m \in S : m <= l
  BY <1>1, GreatestNumber
<1>4. \A m \in S : l >= m
  BY <1>3
<1>5. QED
  BY <1>2, <1>4 DEF Min, Max

(* A step function on a set can be iterated as often as one likes.           *)
Iterates(f, n, base, G) == f[0] = base /\ \A i \in 1..n : f[i] = G[<<f[i - 1], i>>]
(* There is a function that iterates it.                                      *)
LEMMA IterationExists ==
    ASSUME NEW S, NEW base \in S, NEW n \in Nat, NEW G \in [S \X (1..n) -> S]
    PROVE  \E f \in [0..n -> S] : Iterates(f, n, base, G)
<1> DEFINE Done(m) == \E f \in [0..m -> S] : Iterates(f, m, base, G)
           B == {m \in 0..n : ~Done(m)}
<1> SUFFICES ASSUME B # {} PROVE FALSE
  OBVIOUS
<1>1. PICK k \in B : \A m \in B : k <= m
  <2>1. B \in SUBSET (0..n)
    OBVIOUS
  <2> HIDE DEF B
  <2>2. QED
    BY <2>1, LeastNumber
<1>2. k \in 0..n /\ ~Done(k)
  OBVIOUS
<1>3. k # 0
  <2> SUFFICES ASSUME k = 0 PROVE FALSE
    OBVIOUS
  <2>1. [i \in 0..0 |-> base] \in [0..0 -> S] /\ Iterates([i \in 0..0 |-> base], 0, base, G)
    BY DEF Iterates
  <2>2. QED
    BY <1>2, <2>1
<1>4. PICK f \in [0..(k - 1) -> S] : Iterates(f, k - 1, base, G)
  <2>1. k - 1 \in 0..n /\ ~(k <= k - 1)
    BY <1>2, <1>3
  <2>2. Done(k - 1)
    BY <1>1, <2>1
  <2>3. QED
    BY <2>2
<1> DEFINE g == [i \in 0..k |-> IF i = k THEN G[<<f[k - 1], k>>] ELSE f[i]]
<1>5. f[k - 1] \in S /\ <<f[k - 1], k>> \in S \X (1..n)
  BY <1>2, <1>3, <1>4
<1>6. G[<<f[k - 1], k>>] \in S
  BY <1>5
<1>7. g \in [0..k -> S]
  BY <1>2, <1>3, <1>4, <1>6
<1>8. Iterates(g, k, base, G)
  <2>1. g[0] = base
    BY <1>2, <1>3, <1>4 DEF Iterates
  <2>2. \A i \in 1..k : g[i] = G[<<g[i - 1], i>>]
    <3> SUFFICES ASSUME NEW i \in 1..k PROVE g[i] = G[<<g[i - 1], i>>]
      OBVIOUS
    <3>1. i - 1 \in 0..k /\ i - 1 # k /\ g[i - 1] = f[i - 1]
      BY <1>2, <1>3
    <3>2. CASE i = k
      BY <3>1, <3>2
    <3>3. CASE i # k
      <4>1. i \in 1..(k - 1) /\ i \in 0..k
        BY <1>2, <3>3
      <4>2. g[i] = f[i] /\ f[i] = G[<<f[i - 1], i>>]
        BY <1>4, <3>3, <4>1 DEF Iterates
      <4>3. QED
        BY <3>1, <4>2
    <3>4. QED
      BY <3>2, <3>3
  <2>3. QED
    BY <2>1, <2>2 DEF Iterates
<1>9. QED
  BY <1>2, <1>7, <1>8

(* Also when a step depends on the values of all the steps before.           *)
Before(f, j) == {f[k] : k \in 1..(j - 1)}
Collects(f, n, G) == \A j \in 1..n : f[j] = G[<<Before(f, j), j>>]
(* There is a function that does.                                             *)
LEMMA CollectionExists ==
    ASSUME NEW V, NEW n \in Nat, NEW G \in [(SUBSET V) \X (1..n) -> V]
    PROVE  \E f \in [1..n -> V] : Collects(f, n, G)
<1> DEFINE Done(m) == \E f \in [1..m -> V] : Collects(f, m, G)
           B == {m \in 0..n : ~Done(m)}
<1> SUFFICES ASSUME B # {} PROVE FALSE
  OBVIOUS
<1>1. PICK k \in B : \A m \in B : k <= m
  <2>1. B \in SUBSET (0..n)
    OBVIOUS
  <2> HIDE DEF B
  <2>2. QED
    BY <2>1, LeastNumber
<1>2. k \in 0..n /\ ~Done(k)
  OBVIOUS
<1>3. k # 0
  <2> SUFFICES ASSUME k = 0 PROVE FALSE
    OBVIOUS
  <2>1. [i \in 1..0 |-> i] \in [1..0 -> V] /\ Collects([i \in 1..0 |-> i], 0, G)
    BY DEF Collects
  <2>2. QED
    BY <1>2, <2>1
<1>4. PICK f \in [1..(k - 1) -> V] : Collects(f, k - 1, G)
  <2>1. k - 1 \in 0..n /\ ~(k <= k - 1)
    BY <1>2, <1>3
  <2>2. Done(k - 1)
    BY <1>1, <2>1
  <2>3. QED
    BY <2>2
<1> DEFINE g == [i \in 1..k |-> IF i = k THEN G[<<Before(f, k), k>>] ELSE f[i]]
<1>5. Before(f, k) \in SUBSET V
  BY <1>2, <1>3, <1>4 DEF Before
<1>6. G[<<Before(f, k), k>>] \in V
  BY <1>2, <1>3, <1>5
<1>7. g \in [1..k -> V]
  BY <1>2, <1>3, <1>4, <1>6
<1>8. Collects(g, k, G)
  <2> SUFFICES ASSUME NEW j \in 1..k PROVE g[j] = G[<<Before(g, j), j>>]
    BY DEF Collects
  <2>1. \A i \in 1..(j - 1) : g[i] = f[i]
    BY <1>2, <1>3
  <2>2. Before(g, j) = Before(f, j)
    BY <2>1 DEF Before
  <2>3. CASE j = k
    BY <2>2, <2>3
  <2>4. CASE j # k
    <3>1. j \in 1..(k - 1)
      BY <1>2, <2>4
    <3>2. f[j] = G[<<Before(f, j), j>>]
      BY <1>4, <3>1 DEF Collects
    <3>3. QED
      BY <2>2, <2>4, <3>2
  <2>5. QED
    BY <2>3, <2>4
<1>9. QED
  BY <1>2, <1>7, <1>8

-----------------------------------------------------------------------------
(* Sequences                                                                *)

(* A function on 1..n is a sequence.                                         *)
LEMMA FunctionIsSeq ==
    ASSUME NEW S, NEW n \in Nat, NEW f \in [1..n -> S]
    PROVE  f \in Seq(S) /\ Len(f) = n
<1>1. f \in Seq(S)
  OBVIOUS
<1>2. Len(f) \in Nat /\ 1..Len(f) = 1..n
  BY <1>1
<1>3. ~(Len(f) < n)
  <2> SUFFICES ASSUME Len(f) < n PROVE FALSE
    OBVIOUS
  <2>1. Len(f) + 1 \in 1..n /\ Len(f) + 1 \notin 1..Len(f)
    BY <1>2
  <2>2. QED
    BY <1>2, <2>1
<1>4. ~(n < Len(f))
  <2> SUFFICES ASSUME n < Len(f) PROVE FALSE
    OBVIOUS
  <2>1. n + 1 \in 1..Len(f) /\ n + 1 \notin 1..n
    BY <1>2
  <2>2. QED
    BY <1>2, <2>1
<1>5. QED
  BY <1>1, <1>2, <1>3, <1>4

(* What is in a sequence, with one more.                                     *)
LEMMA AppendSeq ==
    ASSUME NEW S, NEW s \in Seq(S), NEW v \in S
    PROVE  /\ Append(s, v) \in Seq(S) /\ Append(s, v) # <<>>
           /\ ToSet(Append(s, v)) = ToSet(s) \cup {v}
           /\ IsInjective(s) /\ v \notin ToSet(s) => IsInjective(Append(s, v))
<1>1. PICK n \in Nat : n = Len(s)
  OBVIOUS
<1>2. PICK r : r = Append(s, v)
  OBVIOUS
<1>3. /\ r \in Seq(S) /\ DOMAIN s = 1..n /\ DOMAIN r = 1..(n + 1) /\ r[n + 1] = v
      /\ \A i \in 1..n : r[i] = s[i]
  BY <1>1, <1>2
<1>4. 1..(n + 1) = (1..n) \cup {n + 1}
  OBVIOUS
<1>5. ToSet(r) = ToSet(s) \cup {v}
  BY <1>3, <1>4 DEF ToSet
<1>6. r # <<>>
  BY <1>3, <1>4
<1>7. ASSUME IsInjective(s), v \notin ToSet(s) PROVE IsInjective(r)
  <2>1. \A i \in 1..n : s[i] # v
    BY <1>3, <1>7 DEF ToSet
  <2>2. \A i, j \in 1..n : s[i] = s[j] => i = j
    BY <1>3, <1>7 DEF IsInjective
  <2>3. \A i, j \in (1..n) \cup {n + 1} : r[i] = r[j] => i = j
    BY <1>3, <2>1, <2>2
  <2>4. QED
    BY <1>3, <1>4, <2>3 DEF IsInjective
<1>8. QED
  BY <1>2, <1>3, <1>5, <1>6, <1>7

(* One sequence after another.                                               *)
LEMMA ConcatSeq ==
    ASSUME NEW S, NEW s \in Seq(S), NEW t \in Seq(S)
    PROVE  s \o t \in Seq(S)
OBVIOUS

(* The rank of a number in a set: how many are not greater.                  *)
Rank(K, k) == Cardinality({m \in K : m <= k})
(* Each rank from 1 to the size of the set is taken by one of its numbers.    *)
LEMMA RanksAreTaken ==
    ASSUME NEW n \in Nat, NEW K \in SUBSET (1..n)
    PROVE  /\ Cardinality(K) \in Nat
           /\ \A i \in 1..Cardinality(K) : \E k \in K : Rank(K, k) = i
<1> DEFINE c == Cardinality(K)
           f == [k \in K |-> Rank(K, k)]
<1>1. IsFiniteSet(K) /\ c \in Nat
  <2>1. 1 \in Int /\ n \in Int
    OBVIOUS
  <2>2. IsFiniteSet(1..n)
    BY <2>1, FS_Interval
  <2>3. QED
    BY <2>2, FS_Subset, FS_CardinalityType
<1>2. ASSUME NEW k \in K PROVE Rank(K, k) \in 1..c
  <2> DEFINE U == {m \in K : m <= k}
  <2>1. U \in SUBSET K /\ k \in U /\ k \in Nat
    OBVIOUS
  <2> HIDE DEF U
  <2>2. IsFiniteSet(U) /\ Cardinality(U) <= c /\ Cardinality(U) \in Nat
    BY <1>1, <2>1, FS_Subset, FS_CardinalityType
  <2>3. Cardinality(U) # 0
    BY <2>1, <2>2, FS_EmptySet
  <2>4. Cardinality(U) \in 1..c
    BY <1>1, <2>2, <2>3
  <2>5. QED
    BY <2>4 DEF U, Rank
<1>3. ASSUME NEW j \in K, NEW k \in K, j < k PROVE Rank(K, j) # Rank(K, k)
  <2> DEFINE T == {m \in K : m <= j}
             U == {m \in K : m <= k}
  <2>a. j \in Nat /\ k \in Nat /\ ~(k <= j)
    BY <1>3
  <2>1. T \in SUBSET U /\ k \in U /\ k \notin T /\ U \in SUBSET K
    <3>1. (\A m \in K : m <= j => m <= k) /\ k <= k
      BY <2>a
    <3>2. T \subseteq U /\ U \subseteq K
      BY <3>1
    <3>3. k \in U /\ k \notin T
      BY <2>a, <3>1
    <3>4. QED
      BY <3>2, <3>3
  <2> HIDE DEF T, U
  <2>2. IsFiniteSet(U)
    BY <1>1, <2>1, FS_Subset
  <2>3. Cardinality(U) # Cardinality(T)
    BY <2>1, <2>2, FS_Subset
  <2>4. QED
    BY <2>3 DEF T, U, Rank
<1>4. f \in Injection(K, 1..c)
  <2>1. f \in [K -> 1..c]
    BY <1>2
  <2>2. \A j, k \in K : j < k \/ k < j \/ j = k
    OBVIOUS
  <2>3. \A j, k \in K : f[j] = f[k] => j = k
    BY <1>3, <2>2
  <2> HIDE DEF f, c
  <2>4. QED
    BY <2>1, <2>3 DEF Injection, IsInjective
<1>5. IsFiniteSet(1..c) /\ Cardinality(1..c) = c
  <2> HIDE DEF c
  <2>1. 1 \in Int /\ c \in Int
    BY <1>1
  <2>2. QED
    BY <1>1, <2>1, FS_Interval
<1>6. f \in Surjection(K, 1..c)
  <2> HIDE DEF f
  <2>1. QED
    BY <1>4, <1>5, FS_Injection
<1>7. \A i \in 1..c : \E k \in K : f[k] = i
  <2> HIDE DEF f, c
  <2>1. QED
    BY <1>6 DEF Surjection
<1>8. QED
  BY <1>1, <1>7

(* So what is left of a sequence is a sequence, of what was there.           *)
LEMMA OnlyIsThere ==
    ASSUME NEW S, NEW s \in Seq(S), NEW kept \in SUBSET DOMAIN s
    PROVE  /\ Only(s, kept) \in Seq(S)
           /\ \A i \in DOMAIN Only(s, kept) : \E k \in kept : Only(s, kept)[i] = s[k]
<1>1. PICK n \in Nat : n = Len(s) /\ DOMAIN s = 1..n
  OBVIOUS
<1>2. PICK c : c = Cardinality(kept)
  OBVIOUS
<1> DEFINE At(i) == CHOOSE k \in kept : Rank(kept, k) = i
<1>3. c \in Nat /\ \A i \in 1..c : \E k \in kept : Rank(kept, k) = i
  <2>1. kept \in SUBSET (1..n)
    BY <1>1
  <2>2. /\ Cardinality(kept) \in Nat
        /\ \A i \in 1..Cardinality(kept) : \E k \in kept : Rank(kept, k) = i
    BY <2>1, RanksAreTaken
  <2>3. QED
    BY <1>2, <2>2
<1>4. \A i \in 1..c : At(i) \in kept
  BY <1>3
<1>5. Only(s, kept) = [i \in 1..c |-> s[At(i)]]
  BY <1>2 DEF Only, Rank
<1> HIDE DEF At
<1>6. Only(s, kept) \in [1..c -> S] /\ \A i \in 1..c : Only(s, kept)[i] = s[At(i)]
  BY <1>1, <1>4, <1>5
<1>7. QED
  BY <1>3, <1>4, <1>6, FunctionIsSeq

-----------------------------------------------------------------------------
(* What is chosen                                                           *)

(* One choice, of the j-th content, after others; and what makes a list of   *)
(* choices what chooseContent makes.                                        *)
Allowed(from, own, picked) ==
    {i \in DOMAIN from : from[i].page \notin {own} \cup {from[k].page : k \in picked}}
Liked(from, own, picked, j) ==
    {i \in Allowed(from, own, picked) : from[i].type = IF j % 2 = 1 THEN "image" ELSE "text"}
Chosen(from, own, picked, j) ==
    IF Liked(from, own, picked, j) # {} THEN Max(Liked(from, own, picked, j))
    ELSE IF Allowed(from, own, picked) # {} THEN Min(Allowed(from, own, picked)) ELSE 0
Chooses(f, from, own) == f = [j \in 1..Count |-> Chosen(from, own, Before(f, j) \ {0}, j)]

(* Choose takes such a list.                                                 *)
LEMMA ChooseUnfolds ==
    ASSUME NEW from, NEW own
    PROVE  Choose(from, own) = CHOOSE f : Chooses(f, from, own)
BY DEF Choose, Chooses, Chosen, Liked, Allowed, Before

(* What is chosen is none, or leads to a page that is not to be avoided.     *)
LEMMA ChosenAvoids ==
    ASSUME NEW n \in Nat, NEW from, DOMAIN from = 1..n, NEW own, NEW picked \in SUBSET (0..n), NEW j
    PROVE  /\ Chosen(from, own, picked \ {0}, j) \in 0..n
           /\ Chosen(from, own, picked \ {0}, j) # 0 =>
                /\ from[Chosen(from, own, picked \ {0}, j)].page # own
                /\ \A k \in picked \ {0} :
                     from[k].page # from[Chosen(from, own, picked \ {0}, j)].page
<1> DEFINE A == Allowed(from, own, picked \ {0})
           L == Liked(from, own, picked \ {0}, j)
           p == Chosen(from, own, picked \ {0}, j)
<1>1. A \in SUBSET (1..n) /\ L \in SUBSET A
  BY DEF Allowed, Liked
<1>2. p = 0 \/ p \in A
  <2>1. p = IF L # {} THEN Max(L) ELSE IF A # {} THEN Min(A) ELSE 0
    BY DEF Chosen
  <2> HIDE DEF A, L, p
  <2>2. L # {} => Max(L) \in L
    BY <1>1, MinMaxIn
  <2>3. A # {} => Min(A) \in A
    BY <1>1, MinMaxIn
  <2>4. QED
    BY <1>1, <2>1, <2>2, <2>3
<1>3. \A i \in A : /\ from[i].page # own
                   /\ \A k \in picked \ {0} : from[k].page # from[i].page
  BY DEF Allowed
<1> HIDE DEF A, L, p
<1>4. p \in 0..n /\ (p # 0 => p \in A)
  <2>1. 0 \in 0..n /\ \A i \in A : i \in 0..n
    BY <1>1
  <2>2. QED
    BY <1>2, <2>1
<1>5. p # 0 => from[p].page # own /\ \A k \in picked \ {0} : from[k].page # from[p].page
  BY <1>3, <1>4
<1>6. QED
  BY <1>4, <1>5 DEF p

(* All that is chosen leads to pages that differ, none of them to be avoided. *)
LEMMA ChooseAvoids ==
    ASSUME Count \in Nat, NEW n \in Nat, NEW from, DOMAIN from = 1..n, NEW own
    PROVE  /\ Choose(from, own) \in [1..Count -> 0..n]
           /\ \A j \in 1..Count : Choose(from, own)[j] # 0 =>
                /\ from[Choose(from, own)[j]].page # own
                /\ \A k \in 1..(j - 1) : Choose(from, own)[k] # 0 =>
                     from[Choose(from, own)[k]].page # from[Choose(from, own)[j]].page
<1> DEFINE V == 0..n
           G == [x \in (SUBSET V) \X (1..Count) |-> Chosen(from, own, x[1] \ {0}, x[2])]
<1>1. G \in [(SUBSET V) \X (1..Count) -> V]
  <2>1. \A x \in (SUBSET V) \X (1..Count) : Chosen(from, own, x[1] \ {0}, x[2]) \in V
    <3> SUFFICES ASSUME NEW x \in (SUBSET V) \X (1..Count)
        PROVE Chosen(from, own, x[1] \ {0}, x[2]) \in V
      OBVIOUS
    <3>1. x[1] \in SUBSET (0..n)
      OBVIOUS
    <3>2. QED
      BY <3>1, ChosenAvoids
  <2>2. QED
    BY <2>1
<1>2. PICK g \in [1..Count -> V] : Collects(g, Count, G)
  <2> HIDE DEF V, G
  <2>1. QED
    BY <1>1, CollectionExists
<1>3. ASSUME NEW f, \A j \in 1..Count : Before(f, j) \in SUBSET V
      PROVE  \A j \in 1..Count : G[<<Before(f, j), j>>] = Chosen(from, own, Before(f, j) \ {0}, j)
  BY <1>3
<1>4. \A j \in 1..Count : Before(g, j) \in SUBSET V
  BY <1>2 DEF Before
<1>5. Chooses(g, from, own)
  <2> HIDE DEF V, G
  <2>1. \A j \in 1..Count : g[j] = Chosen(from, own, Before(g, j) \ {0}, j)
    BY <1>2, <1>3, <1>4 DEF Collects
  <2>2. QED
    BY <1>2, <2>1 DEF Chooses
<1> HIDE DEF G
<1>6. PICK c : c = Choose(from, own)
  OBVIOUS
<1>7. c = [j \in 1..Count |-> Chosen(from, own, Before(c, j) \ {0}, j)]
  <2>1. Chooses(c, from, own)
    BY <1>5, <1>6, ChooseUnfolds
  <2>2. QED
    BY <2>1 DEF Chooses
<1>8. c \in [1..Count -> 0..n]
  <2> DEFINE B == {j \in 1..Count : c[j] \notin V}
  <2> SUFFICES ASSUME B # {} PROVE FALSE
    BY <1>7
  <2>1. PICK j \in B : \A k \in B : j <= k
    <3>1. B \in SUBSET (0..Count)
      OBVIOUS
    <3> HIDE DEF B
    <3>2. QED
      BY <3>1, LeastNumber
  <2>2. \A k \in 1..(j - 1) : c[k] \in V
    <3> SUFFICES ASSUME NEW k \in 1..(j - 1), c[k] \notin V PROVE FALSE
      OBVIOUS
    <3>1. k \in B /\ ~(j <= k)
      OBVIOUS
    <3>2. QED
      BY <2>1, <3>1
  <2>3. Before(c, j) \in SUBSET (0..n)
    BY <2>2 DEF Before
  <2>4. c[j] \in V
    <3>1. PICK P \in SUBSET (0..n) : P = Before(c, j)
      BY <2>3
    <3>2. c[j] = Chosen(from, own, P \ {0}, j)
      BY <1>7, <3>1
    <3>3. QED
      BY <3>2, ChosenAvoids, SMTT(30)
  <2>5. QED
    BY <2>4
<1>9. \A j \in 1..Count : c[j] # 0 =>
          /\ from[c[j]].page # own
          /\ \A k \in 1..(j - 1) : c[k] # 0 => from[c[k]].page # from[c[j]].page
  <2> SUFFICES ASSUME NEW j \in 1..Count, c[j] # 0
               PROVE  /\ from[c[j]].page # own
                      /\ \A k \in 1..(j - 1) : c[k] # 0 => from[c[k]].page # from[c[j]].page
    OBVIOUS
  <2>1. PICK P \in SUBSET (0..n) : P = Before(c, j)
    <3>1. \A k \in 1..(j - 1) : c[k] \in 0..n
      BY <1>8
    <3>2. QED
      BY <3>1 DEF Before
  <2>2. c[j] = Chosen(from, own, P \ {0}, j)
    BY <1>7, <2>1
  <2>3. /\ from[c[j]].page # own
        /\ \A p \in P \ {0} : from[p].page # from[c[j]].page
    BY <2>2, ChosenAvoids, SMTT(30)
  <2>4. \A k \in 1..(j - 1) : c[k] \in P
    BY <2>1 DEF Before
  <2>5. QED
    BY <2>3, <2>4
<1>10. QED
  BY <1>6, <1>8, <1>9

-----------------------------------------------------------------------------
(* Serving                                                                  *)

(* What a widget that was served has; and what it has before.                *)
Served == [turn : Widgets, shown : [1..Count -> Kept]]
Entries == {None} \cup Served
EntryOK(v, e) ==
    e # None =>
        /\ \A j \in 1..Count : \A k \in 1..(j - 1) : e.shown[k].page # e.shown[j].page
        /\ e.turn = v => \A j \in 1..Count : e.shown[j].page # v

(* What a turn starts from and leaves.                                       *)
Turns == [pool : Seq(Kept), left : Seq(Widgets), entries : [Widgets -> Entries]]

(* Who is served has something, for a widget shows at least one content.     *)
LEMMA ServedIsSome == ASSUME NEW e \in Served PROVE e # None
<1>1. e.shown \in [1..Count -> Kept] /\ 1 \in 1..Count
  BY ContentRecAssumption DEF Served
<1>2. DOMAIN e.shown # {}
  BY <1>1
<1>3. None.shown = <<>> /\ DOMAIN <<>> = {}
  BY DEF None
<1>4. QED
  BY <1>2, <1>3

(* A turn: the widget joins those that are left, or it is served, which it   *)
(* is only when none is left.                                                *)
ServesOrLeaves(s, v, t) ==
    /\ t \in Turns
    /\ \/ t.left = Append(s.left, v) /\ t.entries = s.entries
       \/ \E e \in Served : /\ EntryOK(v, e) /\ s.left = <<>> /\ t.left = s.left
                            /\ t.entries = [s.entries EXCEPT ![v] = e]
(* That is what a turn does, whatever the pool has.                           *)
LEMMA TurnServesOrLeaves ==
    ASSUME NEW w \in Widgets, NEW v \in Widgets, NEW s \in Turns
    PROVE  ServesOrLeaves(s, v, Turn(w, s, v))
<1>1. PICK pick : pick = Choose(s.pool, w)
  OBVIOUS
<1>2. PICK rest : rest = Rest(s.pool, pick)
  OBVIOUS
<1>3. PICK t : t = Turn(w, s, v)
  OBVIOUS
<1>4. /\ s.pool \in Seq(Kept) /\ s.left \in Seq(Widgets) /\ s.entries \in [Widgets -> Entries]
      /\ s = [pool |-> s.pool, left |-> s.left, entries |-> s.entries]
  BY DEF Turns
<1>5. PICK n \in Nat : n = Len(s.pool) /\ DOMAIN s.pool = 1..n
  BY <1>4
<1>6. /\ pick \in [1..Count -> 0..n]
      /\ \A j \in 1..Count : pick[j] # 0 =>
           /\ s.pool[pick[j]].page # w
           /\ \A k \in 1..(j - 1) : pick[k] # 0 => s.pool[pick[k]].page # s.pool[pick[j]].page
  <2>1. Count \in Nat
    BY ContentRecAssumption
  <2>2. PICK from : from = s.pool
    OBVIOUS
  <2>3. DOMAIN from = 1..n
    BY <1>5, <2>2
  <2>4. /\ Choose(from, w) \in [1..Count -> 0..n]
        /\ \A j \in 1..Count : Choose(from, w)[j] # 0 =>
             /\ from[Choose(from, w)[j]].page # w
             /\ \A k \in 1..(j - 1) : Choose(from, w)[k] # 0 =>
                  from[Choose(from, w)[k]].page # from[Choose(from, w)[j]].page
    BY <1>5, <2>1, <2>3, ChooseAvoids
  <2>5. pick = Choose(from, w)
    BY <1>1, <2>2
  <2>6. QED
    BY <2>2, <2>4, <2>5
<1>7. rest \in Seq(Kept)
  <2>1. PICK kept \in SUBSET DOMAIN s.pool : rest = Only(s.pool, kept)
    BY <1>2 DEF Rest
  <2>2. QED
    BY <1>4, <2>1, OnlyIsThere
<1>8. CASE s.left # <<>>
  <2>1. t = [s EXCEPT !.left = Append(s.left, v)]
    BY <1>3, <1>8 DEF Turn
  <2>2. t = [pool |-> s.pool, left |-> Append(s.left, v), entries |-> s.entries]
    BY <1>4, <2>1
  <2>3. Append(s.left, v) \in Seq(Widgets)
    BY <1>4
  <2>4. t \in Turns
    BY <1>4, <2>2, <2>3 DEF Turns
  <2>5. QED
    BY <1>3, <2>2, <2>4 DEF ServesOrLeaves
<1>9. CASE s.left = <<>> /\ \E j \in 1..Count : pick[j] = 0
  <2>1. t = [s EXCEPT !.pool = rest, !.left = <<v>>]
    BY <1>1, <1>2, <1>3, <1>9 DEF Turn
  <2>2. t = [pool |-> rest, left |-> <<v>>, entries |-> s.entries]
    BY <1>4, <2>1
  <2>3. <<v>> \in Seq(Widgets) /\ Append(s.left, v) = <<v>>
    BY <1>9
  <2>4. t \in Turns
    BY <1>4, <1>7, <2>2, <2>3 DEF Turns
  <2>5. QED
    BY <1>3, <2>2, <2>3, <2>4 DEF ServesOrLeaves
<1>10. CASE s.left = <<>> /\ \A j \in 1..Count : pick[j] # 0
  <2>1. PICK e : e = [turn |-> w, shown |-> [j \in 1..Count |-> s.pool[pick[j]]]]
    OBVIOUS
  <2>2. t = [s EXCEPT !.pool = rest, !.entries[v] = e]
    BY <1>1, <1>2, <1>3, <1>10, <2>1 DEF Turn
  <2>3. t = [pool |-> rest, left |-> s.left, entries |-> [s.entries EXCEPT ![v] = e]]
    BY <1>4, <2>2
  <2>4. \A j \in 1..Count : pick[j] \in 1..n /\ s.pool[pick[j]] \in Kept
    BY <1>4, <1>5, <1>6, <1>10
  <2>5. e \in Served
    BY <2>1, <2>4 DEF Served
  <2>6. EntryOK(v, e)
    <3>1. \A j \in 1..Count : e.shown[j] = s.pool[pick[j]]
      BY <2>1
    <3>2. \A j \in 1..Count : \A k \in 1..(j - 1) : k \in 1..Count
      BY ContentRecAssumption
    <3>3. \A j \in 1..Count : \A k \in 1..(j - 1) : e.shown[k].page # e.shown[j].page
      BY <1>6, <1>10, <3>1, <3>2
    <3>4. \A j \in 1..Count : e.shown[j].page # w
      BY <1>6, <1>10, <3>1
    <3>5. e.turn = w
      BY <2>1
    <3>6. QED
      BY <3>3, <3>4, <3>5 DEF EntryOK
  <2>7. [s.entries EXCEPT ![v] = e] \in [Widgets -> Entries]
    BY <1>4, <2>5 DEF Entries
  <2>8. t \in Turns
    BY <1>4, <1>7, <2>3, <2>7 DEF Turns
  <2>9. QED
    BY <1>3, <1>10, <2>3, <2>5, <2>6, <2>8 DEF ServesOrLeaves
<1>11. QED
  BY <1>8, <1>9, <1>10

(* How far the list has got after i turns: those that had theirs are served  *)
(* or left, each once, and the others are as they were.                      *)
FirstOf(waiting, i) == {waiting[k] : k \in 1..i}
Progress(waiting, i, s) ==
    /\ s \in Turns
    /\ IsInjective(s.left) /\ ToSet(s.left) \subseteq FirstOf(waiting, i)
    /\ \A v \in Widgets :
         /\ EntryOK(v, s.entries[v])
         /\ v \in FirstOf(waiting, i) => (v \in ToSet(s.left) <=> s.entries[v] = None)
         /\ v \notin FirstOf(waiting, i) => s.entries[v] = entries[v]

(* A turn is progress.                                                       *)
LEMMA TurnProgresses ==
    ASSUME NEW w \in Widgets,
           NEW waiting \in Seq(Widgets), IsInjective(waiting),
           \A i \in DOMAIN waiting : entries[waiting[i]] = None,
           NEW i \in DOMAIN waiting, NEW s, Progress(waiting, i - 1, s)
    PROVE  Progress(waiting, i, Turn(w, s, waiting[i]))
<1>1. PICK v \in Widgets : v = waiting[i]
  OBVIOUS
<1>2. PICK t : t = Turn(w, s, v)
  OBVIOUS
<1>3. /\ s \in Turns /\ s.left \in Seq(Widgets) /\ s.entries \in [Widgets -> Entries]
  BY DEF Progress, Turns
<1>4. v \notin FirstOf(waiting, i - 1) /\ FirstOf(waiting, i) = FirstOf(waiting, i - 1) \cup {v}
  <2>1. DOMAIN waiting = 1..Len(waiting) /\ Len(waiting) \in Nat /\ i \in Nat /\ i # 0
    OBVIOUS
  <2>2. 1..i = 1..(i - 1) \cup {i}
    BY <2>1
  <2>3. \A k \in 1..(i - 1) : k \in DOMAIN waiting /\ k # i
    BY <2>1
  <2>4. \A k \in 1..(i - 1) : waiting[k] # v
    BY <1>1, <2>3 DEF IsInjective
  <2>5. QED
    BY <1>1, <2>2, <2>4 DEF FirstOf
<1>5. v \notin ToSet(s.left) /\ s.entries[v] = None
  BY <1>1, <1>4 DEF Progress
<1>6. /\ t \in Turns
      /\ \/ t.left = Append(s.left, v) /\ t.entries = s.entries
         \/ \E e \in Served : /\ EntryOK(v, e) /\ s.left = <<>> /\ t.left = s.left
                              /\ t.entries = [s.entries EXCEPT ![v] = e]
  <2>1. ServesOrLeaves(s, v, t)
    BY <1>2, <1>3, TurnServesOrLeaves
  <2>2. QED
    BY <2>1 DEF ServesOrLeaves
<1>7. CASE t.left = Append(s.left, v) /\ t.entries = s.entries
  <2>1. IsInjective(t.left) /\ ToSet(t.left) = ToSet(s.left) \cup {v}
    BY <1>3, <1>5, <1>7, AppendSeq DEF Progress
  <2>2. QED
    BY <1>1, <1>2, <1>4, <1>5, <1>6, <1>7, <2>1 DEF Progress
<1>8. CASE \E e \in Served : /\ EntryOK(v, e) /\ s.left = <<>> /\ t.left = s.left
                             /\ t.entries = [s.entries EXCEPT ![v] = e]
  <2>1. PICK e \in Served : /\ EntryOK(v, e) /\ s.left = <<>> /\ t.left = s.left
                            /\ t.entries = [s.entries EXCEPT ![v] = e]
    BY <1>8
  <2>2. e # None /\ t.entries[v] = e /\ \A u \in Widgets : u # v => t.entries[u] = s.entries[u]
    BY <1>3, <2>1, ServedIsSome
  <2>3. QED
    BY <1>1, <1>2, <1>4, <1>5, <1>6, <2>1, <2>2 DEF Progress
<1>9. QED
  BY <1>6, <1>7, <1>8

(* Serving is turns, from what there is to the end of the list.              *)
First(from) == [pool |-> from, left |-> <<>>, entries |-> entries]
TakesTurns(f, w, from, waiting) ==
    f = [i \in 0..Len(waiting) |-> IF i = 0 THEN First(from) ELSE Turn(w, f[i - 1], waiting[i])]
(* Serving takes the last of them.                                            *)
LEMMA ServingUnfolds ==
    ASSUME NEW w, NEW from, NEW waiting
    PROVE  Serving(w, from, waiting) = (CHOOSE f : TakesTurns(f, w, from, waiting))[Len(waiting)]
BY DEF Serving, TakesTurns, First

(* So after it, each widget on the list is served or left, and the others    *)
(* are as they were.                                                         *)
LEMMA ServingServesOrLeaves ==
    ASSUME NEW w \in Widgets, NEW from \in Seq(Kept),
           NEW waiting \in Seq(Widgets), IsInjective(waiting),
           entries \in [Widgets -> Entries], \A v \in Widgets : EntryOK(v, entries[v]),
           \A i \in DOMAIN waiting : entries[waiting[i]] = None
    PROVE  Progress(waiting, Len(waiting), Serving(w, from, waiting))
<1>1. PICK n \in Nat : n = Len(waiting) /\ DOMAIN waiting = 1..n
  OBVIOUS
<1>2. First(from) \in Turns /\ Progress(waiting, 0, First(from))
  <2>1. First(from) \in Turns
    BY DEF First, Turns
  <2>2. FirstOf(waiting, 0) = {}
    BY DEF FirstOf
  <2>3. First(from).left = <<>> /\ First(from).entries = entries
    BY DEF First
  <2>4. IsInjective(<<>>) /\ ToSet(<<>>) = {}
    BY DEF IsInjective, ToSet
  <2>5. QED
    BY <2>1, <2>2, <2>3, <2>4 DEF Progress
<1> DEFINE G == [x \in Turns \X (1..n) |-> Turn(w, x[1], waiting[x[2]])]
<1>3. G \in [Turns \X (1..n) -> Turns]
  <2>1. \A x \in Turns \X (1..n) : Turn(w, x[1], waiting[x[2]]) \in Turns
    <3> SUFFICES ASSUME NEW x \in Turns \X (1..n) PROVE Turn(w, x[1], waiting[x[2]]) \in Turns
      OBVIOUS
    <3>1. x[1] \in Turns /\ waiting[x[2]] \in Widgets
      BY <1>1
    <3>2. QED
      BY <3>1, TurnServesOrLeaves DEF ServesOrLeaves
  <2>2. QED
    BY <2>1
<1>4. PICK g \in [0..n -> Turns] : Iterates(g, n, First(from), G)
  <2> HIDE DEF G
  <2>1. QED
    BY <1>2, <1>3, IterationExists
<1>5. TakesTurns(g, w, from, waiting)
  <2>1. \A i \in 1..n : g[i - 1] \in Turns
    BY <1>4
  <2>2. \A i \in 1..n : g[i] = Turn(w, g[i - 1], waiting[i])
    BY <1>4, <2>1 DEF Iterates
  <2>3. \A i \in 0..n : i # 0 => i \in 1..n
    OBVIOUS
  <2>4. g[0] = First(from)
    BY <1>4 DEF Iterates
  <2>5. \A i \in 0..n : g[i] = IF i = 0 THEN First(from) ELSE Turn(w, g[i - 1], waiting[i])
    BY <2>2, <2>3, <2>4
  <2>6. QED
    BY <1>1, <1>4, <2>5 DEF TakesTurns
<1>6. PICK f : /\ Serving(w, from, waiting) = f[n]
               /\ f = [i \in 0..n |-> IF i = 0 THEN First(from) ELSE Turn(w, f[i - 1], waiting[i])]
  <2>1. PICK f : f = CHOOSE h : TakesTurns(h, w, from, waiting)
    OBVIOUS
  <2>2. TakesTurns(f, w, from, waiting)
    BY <1>5, <2>1
  <2>3. Serving(w, from, waiting) = f[n]
    BY <1>1, <2>1, ServingUnfolds
  <2>4. f = [i \in 0..n |-> IF i = 0 THEN First(from) ELSE Turn(w, f[i - 1], waiting[i])]
    BY <1>1, <2>2 DEF TakesTurns
  <2>5. QED
    BY <2>3, <2>4
<1> DEFINE B == {i \in 0..n : ~Progress(waiting, i, f[i])}
<1>7. B = {}
  <2> SUFFICES ASSUME B # {} PROVE FALSE
    OBVIOUS
  <2>1. PICK i \in B : \A k \in B : i <= k
    <3>1. B \in SUBSET (0..n)
      OBVIOUS
    <3> HIDE DEF B
    <3>2. QED
      BY <3>1, LeastNumber
  <2>2. i \in 0..n /\ ~Progress(waiting, i, f[i])
    OBVIOUS
  <2>3. i # 0
    BY <1>2, <1>6, <2>2
  <2>4. i - 1 \in 0..n /\ ~(i <= i - 1) /\ i \in DOMAIN waiting
    BY <1>1, <2>2, <2>3
  <2>5. Progress(waiting, i - 1, f[i - 1])
    BY <2>1, <2>4
  <2>6. f[i] = Turn(w, f[i - 1], waiting[i])
    BY <1>6, <2>2, <2>3
  <2>7. Progress(waiting, i, Turn(w, f[i - 1], waiting[i]))
    BY <2>4, <2>5, TurnProgresses
  <2>8. QED
    BY <2>2, <2>6, <2>7
<1>8. Progress(waiting, n, f[n])
  BY <1>7
<1>9. QED
  BY <1>1, <1>6, <1>8

-----------------------------------------------------------------------------
(* The invariant: what a widget has depends on where it is                  *)

RecInv ==
    /\ pool \in Seq(Kept)
    /\ pending \in Seq(Widgets) /\ IsInjective(pending)
    /\ requests \subseteq Widgets \cup {Prefetch}
    /\ prefetched \in BOOLEAN /\ poor \in BOOLEAN
    /\ state \in [Widgets -> States]
    /\ entries \in [Widgets -> Entries]
    /\ \A w \in Widgets :
         /\ EntryOK(w, entries[w])
         /\ entries[w] # None <=> state[w] = "served"
         /\ state[w] = "asked" <=> w \in ToSet(pending)

(* Serving those that wait keeps it.                                         *)
LEMMA ServeKeepsInv ==
    ASSUME RecInv,
           NEW w \in Widgets, NEW from \in Seq(Kept),
           NEW waiting \in Seq(Widgets), IsInjective(waiting),
           \A v \in ToSet(waiting) : state[v] # "served",
           \A v \in Widgets : state[v] = "asked" => v \in ToSet(waiting),
           ServeContent(w, from, waiting),
           requests' \subseteq Widgets \cup {Prefetch}, prefetched' \in BOOLEAN, poor' \in BOOLEAN
    PROVE  RecInv'
<1>1. PICK after : after = Serving(w, from, waiting)
  OBVIOUS
<1>2. /\ pool' = after.pool /\ pending' = after.left /\ entries' = after.entries
      /\ state' = [v \in Widgets |-> IF after.entries[v] # None THEN "served"
                                     ELSE IF v \in ToSet(after.left) THEN "asked" ELSE state[v]]
  BY <1>1 DEF ServeContent
<1>3. PICK n \in Nat : n = Len(waiting) /\ DOMAIN waiting = 1..n
  OBVIOUS
<1>4. FirstOf(waiting, n) = ToSet(waiting) /\ ToSet(waiting) \subseteq Widgets
  BY <1>3 DEF FirstOf, ToSet
<1>5. Progress(waiting, n, after)
  <2>1. \A i \in DOMAIN waiting : waiting[i] \in ToSet(waiting) /\ waiting[i] \in Widgets
    BY DEF ToSet
  <2>2. \A i \in DOMAIN waiting : entries[waiting[i]] = None
    BY <2>1 DEF RecInv
  <2>3. entries \in [Widgets -> Entries] /\ \A v \in Widgets : EntryOK(v, entries[v])
    BY DEF RecInv
  <2>4. QED
    BY <1>1, <1>3, <2>2, <2>3, ServingServesOrLeaves
<1>6. /\ after.pool \in Seq(Kept) /\ after.left \in Seq(Widgets) /\ IsInjective(after.left)
      /\ after.entries \in [Widgets -> Entries] /\ ToSet(after.left) \subseteq ToSet(waiting)
  BY <1>4, <1>5 DEF Progress, Turns
<1>7. ASSUME NEW v \in Widgets
      PROVE  /\ EntryOK(v, after.entries[v]) /\ state'[v] \in States
             /\ after.entries[v] # None <=> state'[v] = "served"
             /\ state'[v] = "asked" <=> v \in ToSet(after.left)
  <2>1. /\ EntryOK(v, after.entries[v])
        /\ v \in ToSet(waiting) => (v \in ToSet(after.left) <=> after.entries[v] = None)
        /\ v \notin ToSet(waiting) => after.entries[v] = entries[v]
    BY <1>4, <1>5 DEF Progress
  <2>2. state'[v] = IF after.entries[v] # None THEN "served"
                    ELSE IF v \in ToSet(after.left) THEN "asked" ELSE state[v]
    BY <1>2
  <2>3. /\ state[v] \in States /\ (entries[v] # None <=> state[v] = "served")
        /\ state[v] = "asked" => v \in ToSet(waiting)
    BY DEF RecInv
  <2>4. v \in ToSet(after.left) => v \in ToSet(waiting)
    BY <1>6
  <2>5. QED
    BY <2>1, <2>2, <2>3, <2>4 DEF States
<1>8. state' \in [Widgets -> States]
  BY <1>2, <1>7
<1>9. QED
  BY <1>2, <1>6, <1>7, <1>8 DEF RecInv

(* What becomes of an answer is contents that are kept.                      *)
LEMMA MassageKeeps ==
    ASSUME NEW answer \in Answers
    PROVE  Massage(answer) \in Seq(Kept)
<1>1. answer \in Seq(Contents)
  <2>1. PICK n \in 0..MaxAnswer : answer \in [1..n -> Contents]
    BY DEF Answers, BoundedSeq, SeqOf
  <2>2. n \in Nat
    BY ContentRecAssumption
  <2>3. QED
    BY <2>1, <2>2, FunctionIsSeq
<1>2. PICK left \in SUBSET DOMAIN answer : left = {i \in DOMAIN answer : answer[i].type # "video"}
  OBVIOUS
<1>3. PICK kept : kept = Only(answer, left)
  OBVIOUS
<1>4. kept \in Seq(Contents) /\ \A i \in DOMAIN kept : \E k \in left : kept[i] = answer[k]
  BY <1>1, <1>3, OnlyIsThere
<1>5. \A i \in DOMAIN kept : kept[i] \in Contents /\ kept[i].type # "video"
  BY <1>2, <1>4
<1>6. ASSUME NEW c \in Contents, c.type # "video"
      PROVE  (IF c.type = "youtube" THEN [c EXCEPT !.type = "image"] ELSE c) \in Kept
  <2>1. c = [page |-> c.page, type |-> c.type] /\ c.type \in {"image", "text", "youtube", "video"}
    BY ContentRecAssumption
  <2>2. CASE c.type = "youtube"
    <3>1. [c EXCEPT !.type = "image"] = [page |-> c.page, type |-> "image"]
      BY <2>1
    <3>2. QED
      BY <2>2, <3>1 DEF Kept
  <2>3. CASE c.type # "youtube"
    BY <1>6, <2>1, <2>3 DEF Kept
  <2>4. QED
    BY <2>2, <2>3
<1>7. PICK r : r = [i \in DOMAIN kept |->
                         IF kept[i].type = "youtube" THEN [kept[i] EXCEPT !.type = "image"] ELSE kept[i]]
  OBVIOUS
<1>8. PICK m \in Nat : m = Len(kept) /\ DOMAIN kept = 1..m
  BY <1>4
<1>9. r \in [1..m -> Kept]
  BY <1>5, <1>6, <1>7, <1>8
<1>10. r \in Seq(Kept)
  BY <1>9, FunctionIsSeq
<1>11. Massage(answer) = r
  BY <1>2, <1>3, <1>7 DEF Massage
<1>12. QED
  BY <1>10, <1>11

(* At the start nobody has or waits for anything.                            *)
LEMMA InitInv == RecInit => RecInv
<1> SUFFICES ASSUME RecInit PROVE RecInv
  OBVIOUS
<1>1. IsInjective(<<>>) /\ ToSet(<<>>) = {} /\ <<>> \in Seq(Kept) /\ <<>> \in Seq(Widgets)
  BY DEF IsInjective, ToSet
<1>2. state \in [Widgets -> States] /\ \A w \in Widgets : state[w] = "absent"
  BY DEF RecInit, States
<1>3. entries \in [Widgets -> Entries] /\ \A w \in Widgets : entries[w] = None /\ EntryOK(w, entries[w])
  BY DEF RecInit, Entries, EntryOK
<1>4. QED
  BY <1>1, <1>2, <1>3 DEF RecInit, RecInv

(* A widget that goes on without asking keeps it.                            *)
LEMMA MovesKeepInv ==
    ASSUME RecInv, NEW w \in Widgets, NEW s \in {"created", "asking"},
           state[w] \in {"absent", "created"},
           state' = [state EXCEPT ![w] = s], UNCHANGED <<pool, pending, entries, poor>>,
           requests' \subseteq Widgets \cup {Prefetch}, prefetched' \in BOOLEAN
    PROVE  RecInv'
<1>1. state' \in [Widgets -> States] /\ state'[w] = s /\ \A v \in Widgets : v # w => state'[v] = state[v]
  BY DEF RecInv, States
<1>2. \A v \in Widgets : /\ state'[v] = "served" <=> state[v] = "served"
                         /\ state'[v] = "asked" <=> state[v] = "asked"
  BY <1>1
<1>3. QED
  BY <1>1, <1>2 DEF RecInv

(* A widget that asks is put at the end of the list and the list is served.  *)
LEMMA AskKeepsInv ==
    ASSUME RecInv, NEW w \in Widgets, GetRecommendedContent(w)
    PROVE  RecInv'
<1>1. /\ state[w] = "asking" /\ ServeContent(w, pool, Append(pending, w))
      /\ requests' \subseteq requests \cup {w} /\ prefetched' = prefetched /\ poor' = poor
  BY DEF GetRecommendedContent
<1>2. pool \in Seq(Kept) /\ pending \in Seq(Widgets) /\ IsInjective(pending) /\ w \notin ToSet(pending)
  BY <1>1 DEF RecInv
<1>3. PICK waiting : waiting = Append(pending, w)
  OBVIOUS
<1>4. waiting \in Seq(Widgets) /\ IsInjective(waiting) /\ ToSet(waiting) = ToSet(pending) \cup {w}
  BY <1>2, <1>3, AppendSeq
<1>5. ToSet(pending) \subseteq Widgets
  BY <1>2 DEF ToSet
<1>6. /\ \A v \in ToSet(waiting) : state[v] # "served"
      /\ \A v \in Widgets : state[v] = "asked" => v \in ToSet(waiting)
  BY <1>1, <1>4, <1>5 DEF RecInv
<1>7. requests' \subseteq Widgets \cup {Prefetch} /\ prefetched' \in BOOLEAN /\ poor' \in BOOLEAN
  BY <1>1 DEF RecInv
<1>8. QED
  BY <1>1, <1>2, <1>3, <1>4, <1>6, <1>7, ServeKeepsInv

(* An answer fills the pool, and serves the list if a widget asked for it.   *)
LEMMA AnswerKeepsInv ==
    ASSUME RecInv, NEW q \in requests, NEW answer \in Answers,
           Answered(q, answer)
    PROVE  RecInv'
<1>1. PICK from : from = Massage(answer) \o pool
  OBVIOUS
<1>2. from \in Seq(Kept)
  <2>1. Massage(answer) \in Seq(Kept) /\ pool \in Seq(Kept)
    BY MassageKeeps DEF RecInv
  <2>2. QED
    BY <1>1, <2>1, ConcatSeq
<1>3. requests' \subseteq Widgets \cup {Prefetch} /\ prefetched' \in BOOLEAN
  BY DEF Answered, RecInv
<1>4. CASE q = Prefetch
  <2>1. pool' = from /\ UNCHANGED <<pending, entries, state, poor>>
    BY <1>1, <1>4 DEF Answered
  <2>2. QED
    BY <1>2, <1>3, <2>1 DEF RecInv
<1>5. CASE q # Prefetch
  <2>1. ServeContent(q, from, pending) /\ poor' \in BOOLEAN
    BY <1>1, <1>5 DEF Answered
  <2>2. q \in Widgets /\ pending \in Seq(Widgets) /\ IsInjective(pending)
    BY <1>5 DEF RecInv
  <2>3. ToSet(pending) \subseteq Widgets
    BY <2>2 DEF ToSet
  <2>4. /\ \A v \in ToSet(pending) : state[v] # "served"
        /\ \A v \in Widgets : state[v] = "asked" => v \in ToSet(pending)
    BY <2>3 DEF RecInv
  <2>5. QED
    BY <1>2, <1>3, <2>1, <2>2, <2>4, ServeKeepsInv
<1>6. QED
  BY <1>4, <1>5

(* So every step keeps it.                                                   *)
LEMMA StepKeepsInv == RecInv /\ [RecNext]_recVars => RecInv'
<1> SUFFICES ASSUME RecInv, [RecNext]_recVars PROVE RecInv'
  OBVIOUS
<1>1. ASSUME NEW w \in Widgets, Create(w) PROVE RecInv'
  <2>1. /\ state[w] = "absent" /\ state' = [state EXCEPT ![w] = "created"] /\ prefetched' = TRUE
        /\ UNCHANGED <<pool, pending, entries, poor>>
    BY <1>1 DEF Create
  <2>2. requests' \subseteq Widgets \cup {Prefetch}
    BY <1>1 DEF Create, RecInv
  <2>3. QED
    BY <2>1, <2>2, MovesKeepInv
<1>2. ASSUME NEW w \in Widgets, SummaryLoaded(w) PROVE RecInv'
  <2>1. /\ state[w] = "created" /\ state' = [state EXCEPT ![w] = "asking"]
        /\ UNCHANGED <<pool, pending, entries, poor>>
    BY <1>2 DEF SummaryLoaded
  <2>2. requests' \subseteq Widgets \cup {Prefetch} /\ prefetched' \in BOOLEAN
    BY <1>2 DEF SummaryLoaded, RecInv
  <2>3. QED
    BY <2>1, <2>2, MovesKeepInv
<1>3. ASSUME NEW w \in Widgets, GetRecommendedContent(w) PROVE RecInv'
  BY <1>3, AskKeepsInv
<1>4. ASSUME NEW q \in requests, Failed(q) PROVE RecInv'
  <2>1. /\ requests' \subseteq requests /\ poor' \in BOOLEAN
        /\ UNCHANGED <<pool, pending, prefetched, entries, state>>
    BY <1>4 DEF Failed
  <2>2. QED
    BY <2>1 DEF RecInv
<1>5. ASSUME NEW q \in requests, NEW answer \in Answers, Answered(q, answer) PROVE RecInv'
  BY <1>5, AnswerKeepsInv
<1>6. CASE UNCHANGED recVars
  BY <1>6 DEF recVars, RecInv
<1>7. QED
  BY <1>1, <1>2, <1>3, <1>4, <1>5, <1>6 DEF RecNext

(* What it says of the contents of a widget: as many pages as contents, and  *)
(* none of them to be avoided.                                               *)
LEMMA ShownPages ==
    ASSUME NEW w \in Widgets, NEW e \in Entries, EntryOK(w, e)
    PROVE  /\ e.turn \in Widgets \cup {Prefetch}
           /\ Len(e.shown) = IF e # None THEN Count ELSE 0
           /\ Cardinality({c.page : c \in ToSet(e.shown)}) = Len(e.shown)
           /\ e.turn = w => w \notin {c.page : c \in ToSet(e.shown)}
<1> DEFINE pages == {c.page : c \in ToSet(e.shown)}
<1>1. CASE e = None
  <2>1. e.turn = Prefetch /\ e.shown = <<>> /\ Prefetch # w
    BY <1>1, ContentRecAssumption DEF None
  <2>2. ToSet(<<>>) = {}
    BY DEF ToSet
  <2>3. pages = {}
    BY <2>1, <2>2
  <2> HIDE DEF pages
  <2>4. Len(e.shown) = 0 /\ Cardinality(pages) = 0
    BY <2>1, <2>3, FS_EmptySet
  <2>5. QED
    BY <1>1, <2>1, <2>3, <2>4 DEF pages
<1>2. CASE e # None
  <2>1. /\ Count \in Nat /\ e.turn \in Widgets /\ e.shown \in [1..Count -> Kept]
    BY <1>2, ContentRecAssumption DEF Entries, Served
  <2>2. Len(e.shown) = Count /\ DOMAIN e.shown = 1..Count
    BY <2>1, FunctionIsSeq
  <2>3. PICK f : f = [j \in 1..Count |-> e.shown[j].page]
    OBVIOUS
  <2>4. pages = {e.shown[j].page : j \in 1..Count}
    BY <2>2 DEF ToSet
  <2>5. f \in [1..Count -> pages] /\ \A p \in pages : \E j \in 1..Count : f[j] = p
    BY <2>3, <2>4
  <2>6. \A i, j \in 1..Count : f[i] = f[j] => i = j
    <3>1. \A j \in 1..Count : \A k \in 1..(j - 1) : k \in 1..Count /\ f[k] # f[j]
      BY <1>2, <2>1, <2>3 DEF EntryOK
    <3>2. \A i, j \in 1..Count : i = j \/ i \in 1..(j - 1) \/ j \in 1..(i - 1)
      BY <2>1
    <3>3. QED
      BY <3>1, <3>2
  <2>7. e.turn = w => w \notin pages
    BY <1>2, <2>4 DEF EntryOK
  <2> HIDE DEF pages
  <2>8. f \in Surjection(1..Count, pages) /\ f \in Injection(1..Count, pages)
    BY <2>5, <2>6 DEF Surjection, Injection, IsInjective
  <2>9. IsFiniteSet(1..Count) /\ Cardinality(1..Count) = Count
    <3>1. 1 \in Int /\ Count \in Int
      BY <2>1
    <3>2. QED
      BY <2>1, <3>1, FS_Interval
  <2>10. Cardinality(pages) = Count
    BY <2>8, <2>9, FS_Surjection
  <2>11. QED
    BY <1>2, <2>1, <2>2, <2>7, <2>10 DEF pages
<1>3. QED
  BY <1>1, <1>2

(* It holds from the beginning on.                                           *)
LEMMA RecInvHolds == RecSpec => []RecInv
<1>1. RecInit => RecInv
  BY InitInv
<1>2. RecInv /\ [RecNext]_recVars => RecInv'
  BY StepKeepsInv
<1>3. QED
  BY <1>1, <1>2, PTL DEF RecSpec

(* A widget is on the list exactly while it waits, once, and one that was     *)
(* served shows as many contents as it asked for, however answers and new    *)
(* widgets interleave.                                                       *)
THEOREM RecTypeCorrect == RecSpec => []RecTypeOK
<1>1. RecInv => RecTypeOK
  <2> SUFFICES ASSUME RecInv PROVE RecTypeOK
    OBVIOUS
  <2>1. ASSUME NEW w \in Widgets
        PROVE  /\ entries[w].turn \in Widgets \cup {Prefetch}
               /\ Len(entries[w].shown) = IF state[w] = "served" THEN Count ELSE 0
               /\ state[w] = "asked" <=> w \in ToSet(pending)
    <3>1. /\ entries[w] \in Entries /\ EntryOK(w, entries[w])
          /\ entries[w] # None <=> state[w] = "served"
          /\ state[w] = "asked" <=> w \in ToSet(pending)
      BY DEF RecInv
    <3>2. /\ entries[w].turn \in Widgets \cup {Prefetch}
          /\ Len(entries[w].shown) = IF entries[w] # None THEN Count ELSE 0
      BY <3>1, ShownPages
    <3>3. QED
      BY <3>1, <3>2
  <2>2. DOMAIN entries = Widgets
    BY DEF RecInv
  <2>3. QED
    BY <2>1, <2>2 DEF RecInv, RecTypeOK
<1>2. QED
  BY <1>1, RecInvHolds, PTL

(* The contents of a widget lead to different pages, and not to its own if   *)
(* it was served in its own turn, whatever the pool has when it is served    *)
(* and however many widgets are served from it at once.                      *)
THEOREM LinksLeadElsewhere == RecSpec => []LinksElsewhere
<1>1. RecInv => LinksElsewhere
  <2> SUFFICES ASSUME RecInv, NEW w \in Widgets
               PROVE  /\ Cardinality({c.page : c \in ToSet(entries[w].shown)}) = Len(entries[w].shown)
                      /\ entries[w].turn = w => w \notin {c.page : c \in ToSet(entries[w].shown)}
    BY DEF LinksElsewhere
  <2>1. entries[w] \in Entries /\ EntryOK(w, entries[w])
    BY DEF RecInv
  <2>2. QED
    BY <2>1, ShownPages
<1>2. QED
  BY <1>1, RecInvHolds, PTL
=============================================================================

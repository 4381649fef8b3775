------------------------------ MODULE PageCache ------------------------------
(***************************************************************************)
(* The server's cache of what it knows of one page (page_data_newer_<id>)   *)
(* or of one cross-page container.  Web processes read through two          *)
(* memcached servers, the default one and the "redundant" one, and write    *)
(* both after a miss; a change of the database makes a Celery worker        *)
(* refresh both.  A LOCKED_ key in the default server says that somebody is *)
(* computing the value; it expires by itself.                               *)
(*                                                                          *)
(* A value is the version of the database it was computed from; 0 is a      *)
(* miss.  The LOCKED_ keys of the redundant server are never read, and are  *)
(* left out.  There is one worker (gke/antenna-celery.yml, concurrency 1).  *)
(***************************************************************************)
EXTENDS Naturals

CONSTANTS
    Readers,      \* web processes answering requests for the page
    MaxVersion,   \* bound: versions of the database
    Polls         \* polls of a locked key after the first one

ASSUME BoundsAssumption == MaxVersion \in Nat \ {0} /\ Polls \in Nat

Miss == 0
Versions == Nat \ {0}

VARIABLES
    crosspage,  \* rigid: whether the key is that of a cross-page container
    database,   \* the version of the master
    replica,    \* the version of the database that everybody reads
    primary,    \* the value in the default cache
    redundant,  \* the value in the redundant cache
    locked,     \* whether the default cache has the LOCKED_ key
    saved,      \* changes saved whose refresh has yet to be queued
    blocked,    \* version of a change of approval whose clear_caches has yet
                \* to run, or 0
    tasks,      \* refreshes queued for the worker
    worker,     \* where the worker is
    computed,   \* the value the worker has computed
    pc,         \* where each reader is
    value,      \* the value each reader has
    polls,      \* how often it has polled
    wanted,     \* history: cleared, when the reader's request came
    cleared,    \* history: version of the last change whose clear_caches ended
    troubled    \* history: whether a refresh was disturbed, or missing, since
                \* the last one began

caches == <<primary, redundant, locked>>
changes == <<database, saved, blocked>>
work == <<tasks, worker, computed>>
readers == <<pc, value, polls>>
approvals == <<wanted, cleared>>
vars == <<crosspage, changes, replica, caches, work, readers, approvals, troubled>>

ReaderPlaces == {"idle", "checkLock", "checkRedundant", "promote", "takeLock",
                 "waiting", "readDatabase", "setPrimary", "setRedundant", "answer"}
WorkerPlaces ==
    {"idle", "computing", "locking", "setting", "unlocking", "setRedundant"}

TypeOK ==
    /\ crosspage \in BOOLEAN
    /\ database \in Versions
    /\ replica \in 1..database
    /\ primary \in 0..database /\ redundant \in 0..database
    /\ locked \in BOOLEAN
    /\ saved \in Nat /\ blocked \in 0..database /\ tasks \in Nat
    /\ worker \in WorkerPlaces
    /\ computed \in 0..database
    /\ pc \in [Readers -> ReaderPlaces]
    /\ value \in [Readers -> 0..database]
    /\ polls \in [Readers -> 0..Polls]
    /\ wanted \in [Readers -> 0..database]
    /\ cleared \in 0..database
    /\ troubled \in BOOLEAN

Init ==
    /\ crosspage \in BOOLEAN
    /\ database = 1 /\ replica = 1
    /\ primary = 1 /\ redundant = 1
    /\ locked = FALSE
    /\ saved = 0 /\ blocked = 0 /\ tasks = 0
    /\ worker = "idle" /\ computed = Miss
    /\ pc = [r \in Readers |-> "idle"]
    /\ value = [r \in Readers |-> Miss]
    /\ polls = [r \in Readers |-> 0]
    /\ wanted = [r \in Readers |-> 0]
    /\ cleared = 0
    /\ troubled = FALSE

-----------------------------------------------------------------------------
(* History: what can leave a cache behind the database                      *)

\* A refresh is on its way, or under way.
Refreshing == saved > 0 \/ tasks > 0 \/ worker # "idle"

\* A reader has a value in its hands that it is about to write to a cache.
Filling(r) == pc[r] \in {"promote", "setPrimary", "setRedundant"}

\* A miss meets a refresh, the refresh meets the lock of a miss, or what is
\* read is not what the master has.
InTheWay ==
    \/ Refreshing /\ \E r \in Readers : Filling(r)
    \/ locked /\ worker = "idle" /\ tasks > 0
    \/ replica < database

\* The last conjunct of each action.  A refresh that begins makes good what
\* went wrong before it; a write that fails, a change that gets no refresh
\* and whatever is in the way count until the next one begins.
Smoothly == troubled' = (troubled \/ InTheWay')
Afresh == troubled' = InTheWay'
InTrouble == troubled' = TRUE

-----------------------------------------------------------------------------
(* Changes                                                                  *)

NextVersion ==
    /\ database < MaxVersion
    /\ database' = database + 1
    /\ \/ UNCHANGED replica
       \/ replica = database /\ replica' = database'

\* createInteraction: the row is written first ...
SaveInteraction ==
    /\ NextVersion
    /\ saved' = saved + 1
    /\ UNCHANGED <<crosspage, blocked, caches, work, readers, approvals>>
    /\ Smoothly

\* deleteInteraction: the same, but no refresh for cross-page containers.
DeleteInteraction ==
    /\ NextVersion
    /\ UNCHANGED <<crosspage, blocked, caches, work, readers, approvals>>
    /\ \/ ~crosspage /\ saved' = saved + 1 /\ Smoothly
       \/ crosspage /\ UNCHANGED saved /\ InTrouble

\* ... and the refresh is queued next; an exception is logged.  For a
\* cross-page container it is queued only if the default cache has a value.
QueueRefresh ==
    /\ saved > 0
    /\ saved' = saved - 1
    /\ UNCHANGED <<crosspage, database, replica, blocked, caches, worker,
                   computed, readers, approvals>>
    /\ \/ /\ ~crosspage \/ primary # Miss
          /\ tasks' = tasks + 1
          /\ Smoothly
       \/ UNCHANGED tasks /\ InTrouble

\* BlockedTagHandler and ApprovedTagHandler: the approval of interactions
\* changes, with no refresh ...
BlockTag ==
    /\ blocked = 0
    /\ NextVersion
    /\ blocked' = database'
    /\ UNCHANGED <<crosspage, saved, caches, work, readers, approvals>>
    /\ InTrouble

\* ... and clear_caches deletes the value in the default cache; the keys of
\* cross-page containers it does not know.  A failing delete is logged.
ClearCaches ==
    /\ blocked > 0
    /\ blocked' = 0
    /\ UNCHANGED <<crosspage, database, saved, replica, redundant, locked, work,
                   readers, wanted>>
    /\ \/ /\ primary' = IF crosspage THEN primary ELSE Miss
          /\ cleared' = blocked
          /\ Smoothly
       \/ UNCHANGED <<primary, cleared>> /\ InTrouble

-----------------------------------------------------------------------------
(* The worker: update_page_newer_cache, update_crosspage_container_cache    *)

\* A write to memcached that fails raises, or does not, and is noticed in
\* either case by nobody: what follows it in its try block is skipped or not.

\* A locked key makes the worker drop the refresh.
WorkerTakesTask ==
    /\ worker = "idle"
    /\ tasks > 0
    /\ tasks' = tasks - 1
    /\ UNCHANGED <<crosspage, changes, replica, caches, readers, computed, approvals>>
    /\ \/ ~locked /\ worker' = "computing" /\ Afresh
       \/ locked /\ UNCHANGED worker /\ Smoothly

\* Gathering the data may raise, which ends the task.
WorkerComputes ==
    /\ worker = "computing"
    /\ UNCHANGED <<crosspage, changes, replica, caches, readers, tasks, approvals>>
    /\ \/ computed' = replica /\ worker' = "locking" /\ Smoothly
       \/ UNCHANGED computed /\ worker' = "idle" /\ InTrouble

WorkerLocks ==
    /\ worker = "locking"
    /\ UNCHANGED <<crosspage, changes, replica, primary, redundant, readers,
                   tasks, computed, approvals>>
    /\ \/ locked' = TRUE /\ worker' = "setting" /\ Smoothly
       \/ UNCHANGED locked /\ worker' \in {"setting", "setRedundant"} /\ InTrouble

\* A write that raises leaves the key locked.
WorkerSets ==
    /\ worker = "setting"
    /\ UNCHANGED <<crosspage, changes, replica, redundant, locked, readers, tasks,
                   computed, approvals>>
    /\ \/ primary' = computed /\ worker' = "unlocking" /\ Smoothly
       \/ UNCHANGED primary /\ worker' \in {"unlocking", "setRedundant"} /\ InTrouble

WorkerUnlocks ==
    /\ worker = "unlocking"
    /\ worker' = "setRedundant"
    /\ UNCHANGED <<crosspage, changes, replica, primary, redundant, readers,
                   tasks, computed, approvals>>
    /\ \/ locked' = FALSE /\ Smoothly
       \/ UNCHANGED locked /\ InTrouble

\* Mutant: the redundant cache is not refreshed.
WorkerSkipsRedundant ==
    /\ worker = "setRedundant"
    /\ worker' = "idle"
    /\ UNCHANGED <<crosspage, changes, replica, caches, readers, tasks, computed,
                   approvals>>
    /\ Smoothly

WorkerSetsRedundant ==
    /\ worker = "setRedundant"
    /\ worker' = "idle"
    /\ UNCHANGED <<crosspage, changes, replica, primary, locked, readers, tasks,
                   computed, approvals>>
    /\ \/ redundant' = computed /\ Smoothly
       \/ UNCHANGED redundant /\ InTrouble

WorkerStep ==
    \/ WorkerTakesTask \/ WorkerComputes \/ WorkerLocks \/ WorkerSets
    \/ WorkerUnlocks \/ WorkerSetsRedundant

-----------------------------------------------------------------------------
(* Readers: check_and_get_locked_cache, and its callers after a miss        *)

Goto(r, place) == pc' = [pc EXCEPT ![r] = place]
Holds(r, v) == value' = [value EXCEPT ![r] = v]

AskForPage(r) ==
    /\ pc[r] = "idle"
    /\ wanted' = [wanted EXCEPT ![r] = cleared]
    /\ Holds(r, primary)
    /\ polls' = [polls EXCEPT ![r] = 0]
    /\ Goto(r, IF primary # Miss THEN "answer" ELSE "checkLock")
    /\ UNCHANGED <<crosspage, changes, replica, caches, work, cleared>>
    /\ Smoothly

CheckLock(r) ==
    /\ pc[r] = "checkLock"
    /\ Goto(r, IF locked THEN "waiting" ELSE "checkRedundant")
    /\ UNCHANGED <<crosspage, changes, replica, caches, work, value, polls, approvals>>
    /\ Smoothly

CheckRedundant(r) ==
    /\ pc[r] = "checkRedundant"
    /\ Holds(r, redundant)
    /\ Goto(r, IF redundant # Miss THEN "promote" ELSE "takeLock")
    /\ UNCHANGED <<crosspage, changes, replica, caches, work, polls, approvals>>
    /\ Smoothly

\* The value of the redundant cache is put in the default one.
Promote(r) ==
    /\ pc[r] = "promote"
    /\ Goto(r, "answer")
    /\ UNCHANGED <<crosspage, changes, replica, redundant, locked, work, value,
                   polls, approvals>>
    /\ \/ primary' = value[r] /\ Smoothly
       \/ UNCHANGED primary /\ InTrouble

TakeLock(r) ==
    /\ pc[r] = "takeLock"
    /\ Goto(r, "readDatabase")
    /\ UNCHANGED <<crosspage, changes, replica, primary, redundant, work, value,
                   polls, approvals>>
    /\ \/ locked' = TRUE /\ Smoothly
       \/ UNCHANGED locked /\ InTrouble

\* Mutant: a reader polls until there is a value.
PollForever(r) ==
    /\ pc[r] = "waiting"
    /\ primary # Miss
    /\ locked' = FALSE
    /\ Holds(r, primary)
    /\ Goto(r, "answer")
    /\ UNCHANGED <<crosspage, changes, replica, primary, redundant, work, polls,
                   approvals>>
    /\ Smoothly

\* Mutant: a reader polls once too often.
PollOnceMore(r) ==
    /\ pc[r] = "waiting"
    /\ primary = Miss
    /\ IF polls[r] <= Polls
       THEN polls' = [polls EXCEPT ![r] = @ + 1] /\ UNCHANGED pc
       ELSE Goto(r, "readDatabase") /\ UNCHANGED polls
    /\ UNCHANGED <<crosspage, changes, replica, caches, work, value, approvals>>
    /\ Smoothly

\* Whoever finds a value unlocks it (or fails to); whoever never does reads the
\* database.
Poll(r) ==
    /\ pc[r] = "waiting"
    /\ UNCHANGED <<crosspage, changes, replica, primary, redundant, work, approvals>>
    /\ \/ /\ primary # Miss
          /\ Holds(r, primary)
          /\ Goto(r, "answer")
          /\ UNCHANGED polls
          /\ \/ locked' = FALSE /\ Smoothly
             \/ UNCHANGED locked /\ InTrouble
       \/ /\ primary = Miss
          /\ IF polls[r] < Polls
             THEN polls' = [polls EXCEPT ![r] = @ + 1] /\ UNCHANGED pc
             ELSE Goto(r, "readDatabase") /\ UNCHANGED polls
          /\ UNCHANGED <<locked, value>>
          /\ Smoothly

ReadDatabase(r) ==
    /\ pc[r] = "readDatabase"
    /\ Holds(r, replica)
    /\ Goto(r, "setPrimary")
    /\ UNCHANGED <<crosspage, changes, replica, caches, work, polls, approvals>>
    /\ Smoothly

\* Here failures are caught for each cache.
SetPrimary(r) ==
    /\ pc[r] = "setPrimary"
    /\ Goto(r, "setRedundant")
    /\ UNCHANGED <<crosspage, changes, replica, redundant, locked, work, value,
                   polls, approvals>>
    /\ \/ primary' = value[r] /\ Smoothly
       \/ UNCHANGED primary /\ InTrouble

SetRedundant(r) ==
    /\ pc[r] = "setRedundant"
    /\ Goto(r, "answer")
    /\ UNCHANGED <<crosspage, changes, replica, primary, locked, work, value,
                   polls, approvals>>
    /\ \/ redundant' = value[r] /\ Smoothly
       \/ UNCHANGED redundant /\ InTrouble

\* Mutant: what is answered is put back, to live longer in the default cache.
AnswerKeepsWarm(r) ==
    /\ pc[r] = "answer"
    /\ Goto(r, "idle")
    /\ primary' = value[r]
    /\ UNCHANGED <<crosspage, changes, replica, redundant, locked, work, value,
                   polls, approvals>>
    /\ Smoothly

AnswerPage(r) ==
    /\ pc[r] = "answer"
    /\ Goto(r, "idle")
    /\ UNCHANGED <<crosspage, changes, replica, caches, work, value, polls, approvals>>
    /\ Smoothly

\* A write of check_and_get_locked_cache or a query raises: status_response
\* makes it the answer, and a lock that was taken stays.
RequestFails(r) ==
    /\ pc[r] \in {"promote", "takeLock", "readDatabase"}
    /\ Goto(r, "idle")
    /\ UNCHANGED <<crosspage, changes, replica, caches, work, value, polls, approvals>>
    /\ Smoothly

ReaderStep(r) ==
    \/ CheckLock(r) \/ CheckRedundant(r) \/ Promote(r) \/ TakeLock(r) \/ Poll(r)
    \/ ReadDatabase(r) \/ SetPrimary(r) \/ SetRedundant(r) \/ AnswerPage(r)
    \/ RequestFails(r)

-----------------------------------------------------------------------------
(* The replica and the caches                                               *)

ReplicaCatchesUp ==
    /\ replica < database
    /\ replica' = replica + 1
    /\ UNCHANGED <<crosspage, changes, caches, work, readers, approvals>>
    /\ Smoothly

CacheForgets ==
    /\ \/ primary # Miss /\ primary' = Miss /\ UNCHANGED redundant
       \/ redundant # Miss /\ redundant' = Miss /\ UNCHANGED primary
    /\ UNCHANGED <<crosspage, changes, replica, locked, work, readers, approvals>>
    /\ Smoothly

\* The LOCKED_ key lives for 15 seconds.
LockExpires ==
    /\ locked
    /\ locked' = FALSE
    /\ UNCHANGED <<crosspage, changes, replica, primary, redundant, work, readers,
                   approvals>>
    /\ Smoothly

Next ==
    \/ SaveInteraction \/ DeleteInteraction \/ QueueRefresh
    \/ BlockTag \/ ClearCaches
    \/ WorkerStep
    \/ \E r \in Readers : AskForPage(r) \/ ReaderStep(r)
    \/ ReplicaCatchesUp \/ CacheForgets \/ LockExpires

Spec == Init /\ [][Next]_vars

\* Web processes run to the end of a request.
FairSpec == Spec /\ \A r \in Readers : WF_vars(ReaderStep(r))

-----------------------------------------------------------------------------
(* Properties                                                               *)

\* When nothing is under way, each cache has the database's version or no
\* value at all, whatever readers that missed have locked, promoted, computed
\* and written, and whatever was evicted, unless since the last refresh began
\* a miss met it, the replica was behind, a write failed or a change had no
\* refresh: the last refresh makes good all that went wrong before it
\* (tasks.py:23-37, utils.py:41-50 and 253-263, util_functions.py:839-865).
Quiet == ~Refreshing
QuietCachesFresh ==
    Quiet /\ ~troubled => {primary, redundant} \subseteq {Miss, database}

\* Nor is a value ever replaced by an older one: what the worker has computed
\* and what readers have read is never out of date when they write it
\* (tasks.py:26-34, handlers.py:798-806, util_functions.py:848-851).
CachesAdvance ==
    [][~troubled' => /\ primary' = Miss \/ primary' >= primary
                     /\ redundant' = Miss \/ redundant' >= redundant]_vars

\* Every request ends, whoever holds the lock and whatever the caches lose
\* (util_functions.py:855-863: the polls are bounded).
RequestsAnswered == \A r \in Readers : (pc[r] # "idle") ~> (pc[r] = "idle")

\* What clear_caches is for: a request that comes after it gets no answer from
\* before the change of approval (handlers.py:1277-1285).
ApprovalTakesEffect ==
    \A r \in Readers : ~crosspage /\ pc[r] = "answer" => value[r] >= wanted[r]
=============================================================================

---------------------------- MODULE ScheduleStore ----------------------------
(***************************************************************************)
(* ScheduleStore (src/schedule-store.ts): the jobs of a session in a file  *)
(* that several processes may have open, each with a cache of its own, and *)
(* each with several mutations in flight.  A mutation takes the lock       *)
(* directory, reloads, changes the cache, writes a temporary file, renames *)
(* it and gives the lock back.  A process may crash anywhere.              *)
(*                                                                         *)
(* An action is the code between two awaits that matter to anybody else:   *)
(* only mkdir, the read of the file, the rename (or unlink) and rmdir do.  *)
(***************************************************************************)
EXTENDS JobOps

CONSTANTS
    Processes,  \* the processes that open the file
    Calls,      \* calls of add, update, remove, deleteFileIfEmpty in flight at a time
    Home,       \* the process of a call
    Wanted,     \* the arguments calls may have in the instance
    Saved,      \* what an earlier session may have left in the file
    IoFaults,   \* whether the file system may fail a read or a write
    Free        \* the lock directory does not exist

ASSUME CallsAssumption == Home \in [Calls -> Processes] /\ Free \notin Calls
ASSUME WantedAssumption == Wanted \subseteq Ops
ASSUME SavedAssumption ==
    /\ Saved \subseteq Tables
    /\ \A t \in Saved : /\ Cardinality(DOMAIN t) <= MaxSchedules
                       /\ \A i, j \in DOMAIN t : t[i].name = t[j].name => i = j
ASSUME FaultsAssumption == IoFaults \in BOOLEAN

VARIABLES
    file,       \* the jobs in the backing file
    exists,     \* whether the backing file exists
    lock,       \* the call whose token is in the lock directory, or Free
    up,         \* the processes that run
    cache,      \* this.jobs, by process
    pc,         \* where the call is suspended
    op          \* its arguments

vars == <<file, exists, lock, up, cache, pc, op>>

\* locking: retrying mkdir.     loading: the lock is held, the file not read.
\* saving: the cache is changed, the file not yet.   releasing: to rmdir.
PCs == {"idle", "locking", "loading", "saving", "releasing"}

Holding == {"loading", "saving", "releasing"}

NoOp == [kind |-> "sweep"]

Init ==
    /\ \/ file \in Saved /\ exists = TRUE
       \/ file = NoJobs /\ exists = FALSE
    /\ lock = Free
    /\ up = {}
    /\ cache = [p \in Processes |-> NoJobs]
    /\ pc = [c \in Calls |-> "idle"]
    /\ op = [c \in Calls |-> NoOp]

-----------------------------------------------------------------------------
\* load() fails: an I/O error, or a file that is too large.
MayFailToLoad == IoFaults \/ (exists /\ TooLarge(file))

\* ScheduleStore.create in a new process: a load without the lock.
Open(p) ==
    /\ p \notin up
    /\ up' = up \cup {p}
    /\ \/ cache' = [cache EXCEPT ![p] = file]
       \/ MayFailToLoad /\ cache' = [cache EXCEPT ![p] = NoJobs]
    /\ UNCHANGED <<file, exists, lock, pc, op>>

\* The process ends without warning; a lock directory it made stays.
Crash(p) ==
    /\ p \in up
    /\ up' = up \ {p}
    /\ cache' = [cache EXCEPT ![p] = NoJobs]
    /\ pc' = [c \in Calls |-> IF Home[c] = p THEN "idle" ELSE pc[c]]
    /\ op' = [c \in Calls |-> IF Home[c] = p THEN NoOp ELSE op[c]]
    /\ UNCHANGED <<file, exists, lock>>

-----------------------------------------------------------------------------
(* A call.                                                                 *)

\* update and remove of a job that is neither in the cache nor possibly on
\* disk, and deleteFileIfEmpty without a file, return without the lock.
NothingToDo(p, o) ==
    /\ ~exists
    /\ o.kind = "sweep" \/ (o.kind # "add" /\ o.id \notin DOMAIN cache[p])

\* The call ends, with or without success; its arguments are forgotten.
Return(c) ==
    /\ pc' = [pc EXCEPT ![c] = "idle"]
    /\ op' = [op EXCEPT ![c] = NoOp]

Call(c, o) ==
    /\ pc[c] = "idle" /\ Home[c] \in up
    /\ ~NothingToDo(Home[c], o)
    /\ op' = [op EXCEPT ![c] = o]
    /\ pc' = [pc EXCEPT ![c] = "locking"]
    /\ UNCHANGED <<file, exists, lock, up, cache>>

\* Mutant: a lock older than LOCK_STALE_MS is taken over.
LockTakenOver(c) == lock # c

LockIsFree(c) == lock = Free

\* acquireDirLock: mkdir succeeds.
Acquire(c) ==
    /\ pc[c] = "locking" /\ LockIsFree(c)
    /\ lock' = c
    /\ pc' = [pc EXCEPT ![c] = "loading"]
    /\ UNCHANGED <<file, exists, up, cache, op>>

\* Mutant: the caller retries for ever.
RetriesForEver(c) == FALSE

\* The lock directory has been there for LOCK_STALE_MS.
TimedOut(c) == lock # Free

\* acquireDirLock throws after too many retries ...
GiveUp(c) ==
    /\ pc[c] = "locking" /\ TimedOut(c)
    /\ Return(c)
    /\ UNCHANGED <<file, exists, lock, up, cache>>

\* ... or because the file system refuses mkdir.
LockRefused(c) ==
    /\ pc[c] = "locking" /\ IoFaults
    /\ Return(c)
    /\ UNCHANGED <<file, exists, lock, up, cache>>

\* The owner token cannot be written: the directory is removed again.
LockFails(c) ==
    /\ pc[c] = "loading" /\ IoFaults
    /\ lock' = Free
    /\ Return(c)
    /\ UNCHANGED <<file, exists, up, cache>>

\* ensureBackingFile throws, perhaps after it has made the file.
NoBackingFile(c) ==
    /\ pc[c] = "loading" /\ IoFaults /\ op[c].kind # "sweep"
    /\ exists' \in {exists, TRUE}
    /\ pc' = [pc EXCEPT ![c] = "releasing"]
    /\ UNCHANGED <<file, lock, up, cache, op>>

\* Mutant: the mutation works on the cache as it is.
StaleTable(c, t) == cache[Home[c]]

\* What load() leaves in the cache.
LoadedTable(c, t) == t

\* Mutant: the refused job stays in the cache.
RefusedKept(t, o) == IF o.kind = "add" THEN Result(t, o) ELSE t

\* What fn() leaves in the cache when it throws.
AfterRefusal(t, o) == t

\* ensureBackingFile and load have given t; fn() changes the cache.  A throw
\* releases the lock; an empty table is swept away by unlink, any other is not.
Mutate(c, t) ==
    LET p == Home[c]
        o == op[c]
    IN  /\ pc[c] = "loading"
        /\ exists' = (exists \/ o.kind # "sweep")
        /\ IF Refused(t, o)
           THEN /\ cache' = [cache EXCEPT ![p] = AfterRefusal(t, o)]
                /\ pc' = [pc EXCEPT ![c] = "releasing"]
           ELSE /\ cache' = [cache EXCEPT ![p] = Result(t, o)]
                /\ pc' = [pc EXCEPT ![c] = IF o.kind = "sweep" /\ DOMAIN t # {}
                                           THEN "releasing" ELSE "saving"]
        /\ UNCHANGED <<file, lock, up, op>>

Load(c) == Mutate(c, LoadedTable(c, file))

\* load() clears the cache and goes on.
LoadFails(c) == MayFailToLoad /\ Mutate(c, NoJobs)

\* rename, or unlink for deleteFileIfEmpty.  Whether chmod then throws makes
\* no difference to anybody else.
Save(c) ==
    /\ pc[c] = "saving"
    /\ file' = cache[Home[c]]
    /\ exists' = (op[c].kind # "sweep")
    /\ pc' = [pc EXCEPT ![c] = "releasing"]
    /\ UNCHANGED <<lock, up, cache, op>>

\* The temporary file cannot be written or renamed; the cache keeps the change.
SaveFails(c) ==
    /\ pc[c] = "saving" /\ IoFaults
    /\ pc' = [pc EXCEPT ![c] = "releasing"]
    /\ UNCHANGED <<file, exists, lock, up, cache, op>>

\* releaseDirLock; a failure is logged, and the directory stays.
Release(c) ==
    /\ pc[c] = "releasing"
    /\ lock' = Free \/ (IoFaults /\ lock' = lock)
    /\ Return(c)
    /\ UNCHANGED <<file, exists, up, cache>>

Locking(c) == Acquire(c) \/ GiveUp(c)
Loading(c) == Load(c) \/ LoadFails(c) \/ LockFails(c) \/ NoBackingFile(c)
Saving(c)  == Save(c) \/ SaveFails(c)

Next ==
    \/ \E p \in Processes : Open(p) \/ Crash(p)
    \/ \E c \in Calls : \/ \E o \in Wanted : Call(c, o)
                        \/ Locking(c) \/ LockRefused(c) \/ Loading(c)
                        \/ Saving(c) \/ Release(c)

Spec == Init /\ [][Next]_vars

\* File operations come back, and the retries of mkdir end.
Fairness ==
    \A c \in Calls : /\ WF_vars(Locking(c)) /\ WF_vars(Loading(c))
                     /\ WF_vars(Saving(c)) /\ WF_vars(Release(c))

FairSpec == Spec /\ Fairness

-----------------------------------------------------------------------------
(* Properties.                                                             *)

\* Every variable has its type.
TypeOK ==
    /\ file \in Tables /\ exists \in BOOLEAN
    /\ lock \in Calls \cup {Free}
    /\ up \subseteq Processes
    /\ cache \in [Processes -> Tables]
    /\ pc \in [Calls -> PCs]
    /\ op \in [Calls -> Ops]

\* One call at a time, over all processes, is between its mkdir and its rmdir,
\* whatever crashed before and however long the others have waited.
LockExclusion == \A c \in Calls : pc[c] \in Holding => lock = c

\* The limit and the uniqueness of names hold on disk though they are tested on
\* a cache that other processes' changes make stale (the TOCTOU remarks of
\* addJob and update).
LimitAndNames ==
    /\ Cardinality(DOMAIN file) <= MaxSchedules
    /\ \A i, j \in DOMAIN file : file[i].name = file[j].name => i = j

\* What list() and get() answer changes only to what is on disk then or to what
\* a call that holds the lock is about to write, never to a refused change, and
\* never half-way through a load; to nothing when a load has failed.
CacheFollowsFile ==
    [][\A p \in up' : \/ cache'[p] \in {cache[p], file', NoJobs}
                      \/ \E c \in Calls : Home[c] = p /\ pc'[c] = "saving"]_vars

\* No update is lost: the file changes as one atomic table does.
Shared == INSTANCE JobTable WITH table <- file, MayForget <- IoFaults
IsOneTable == Shared!Spec

\* Every call gets its turn or an error, or dies with its process, also when
\* another process has crashed with the lock in its hands.
CallsReturn == \A c \in Calls : pc[c] = "locking" ~> pc[c] = "idle"
=============================================================================

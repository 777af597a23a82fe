------------------------ MODULE ScheduleStoreProofs ------------------------
(***************************************************************************)
(* Proofs about ScheduleStore: its lock excludes, the limit and the names  *)
(* are kept on disk, and the file behaves as one atomic table (JobTable).  *)
(* All rests on one invariant: the call that is about to write holds the   *)
(* lock, and what it is about to write is its mutation applied to what the *)
(* file still holds, or to nothing after a failed load.                    *)
(***************************************************************************)
EXTENDS ScheduleStore, FiniteSetTheorems, TLAPS

-----------------------------------------------------------------------------
(* Tables and mutations.                                                   *)

Valid(t) ==
    /\ Cardinality(DOMAIN t) <= MaxSchedules
    /\ \A i, j \in DOMAIN t : t[i].name = t[j].name => i = j

\* The arguments that go with each kind of mutation.
LEMMA OpFields ==
    ASSUME NEW o \in Ops
    PROVE  /\ o.kind \in {"add", "rename", "patch", "remove", "sweep"}
           /\ o.kind # "sweep" => o.id \in Ids
           /\ o.kind \in {"add", "rename"} => o.name \in Names
           /\ o.kind = "patch" => o.enabled \in BOOLEAN
BY DEF Ops

LEMMA NoJobsIsTable == NoJobs \in Tables /\ DOMAIN NoJobs = {}
<1>1. DOMAIN NoJobs = {}
  BY DEF NoJobs
<1>2. NoJobs \in [{} -> Job]
  BY DEF NoJobs
<1> QED
  BY <1>1, <1>2 DEF Tables

\* A table is a function from its domain, a finite set of ids, to jobs.
LEMMA TableDomain ==
    ASSUME NEW t \in Tables
    PROVE  /\ DOMAIN t \subseteq Ids /\ t \in [DOMAIN t -> Job]
           /\ IsFiniteSet(DOMAIN t)
<1>1. PICK S \in SUBSET Ids : t \in [S -> Job]
  BY DEF Tables
<1>2. DOMAIN t = S
  BY <1>1
<1> QED
  BY <1>1, <1>2, IdsAssumption, FS_Subset

LEMMA NewJobIsJob ==
    ASSUME NEW t \in Tables, NEW o \in Ops,
           o.kind = "add" \/ (Updates(o) /\ o.id \in DOMAIN t)
    PROVE  NewJob(t, o) \in Job
<1>1. o.kind # "add" => t[o.id] \in Job
  BY TableDomain
<1>2. CASE o.kind = "add"
  BY <1>2, OpFields DEF NewJob, Job
<1>3. CASE o.kind = "rename"
  BY <1>1, <1>3, OpFields DEF NewJob, Job
<1>4. CASE o.kind = "patch"
  BY <1>1, <1>4, OpFields DEF NewJob, Job
<1> QED
  BY <1>2, <1>3, <1>4 DEF Updates

\* The three ways a mutation ends.
LEMMA ResultCases ==
    ASSUME NEW t \in Tables, NEW o \in Ops
    PROVE  \/ o.kind = "remove" /\ Result(t, o) = [id \in DOMAIN t \ {o.id} |-> t[id]]
           \/ /\ o.kind = "add" \/ (Updates(o) /\ o.id \in DOMAIN t)
              /\ Result(t, o) = [id \in DOMAIN t \cup {o.id} |->
                                    IF id = o.id THEN NewJob(t, o) ELSE t[id]]
           \/ Result(t, o) = t
BY OpFields DEF Result, Updates

LEMMA ResultIsTable ==
    ASSUME NEW t \in Tables, NEW o \in Ops
    PROVE  Result(t, o) \in Tables
<1>1. CASE o.kind = "remove" /\ Result(t, o) = [id \in DOMAIN t \ {o.id} |-> t[id]]
  <2>1. Result(t, o) \in [DOMAIN t \ {o.id} -> Job]
    BY <1>1, TableDomain
  <2> QED
    BY <2>1, TableDomain DEF Tables
<1>2. CASE /\ o.kind = "add" \/ (Updates(o) /\ o.id \in DOMAIN t)
           /\ Result(t, o) = [id \in DOMAIN t \cup {o.id} |->
                                 IF id = o.id THEN NewJob(t, o) ELSE t[id]]
  <2>1. NewJob(t, o) \in Job
    BY <1>2, NewJobIsJob
  <2>2. Result(t, o) \in [DOMAIN t \cup {o.id} -> Job]
    BY <1>2, <2>1, TableDomain
  <2>3. o.id \in Ids
    BY <1>2, OpFields DEF Updates
  <2> QED
    BY <2>2, <2>3, TableDomain DEF Tables
<1> QED
  BY <1>1, <1>2, ResultCases

\* A mutation that does not throw keeps the limit and the names.
LEMMA ResultIsValid ==
    ASSUME NEW t \in Tables, NEW o \in Ops, Valid(t), ~Refused(t, o)
    PROVE  Valid(Result(t, o))
<1> DEFINE r == Result(t, o)
<1>t. /\ IsFiniteSet(DOMAIN t) /\ Cardinality(DOMAIN t) \in Nat
      /\ MaxSchedules \in Nat
  BY TableDomain, FS_CardinalityType, LimitsAssumption
<1>1. CASE o.kind = "remove" /\ r = [id \in DOMAIN t \ {o.id} |-> t[id]]
  <2>1. DOMAIN r = DOMAIN t \ {o.id} /\ \A id \in DOMAIN r : r[id] = t[id]
    BY <1>1
  <2>2. Cardinality(DOMAIN r) <= Cardinality(DOMAIN t) /\ Cardinality(DOMAIN r) \in Nat
    BY <1>t, <2>1, FS_Subset, FS_CardinalityType
  <2> QED
    BY <1>t, <2>1, <2>2 DEF Valid
<1>2. CASE /\ o.kind = "add" \/ (Updates(o) /\ o.id \in DOMAIN t)
           /\ r = [id \in DOMAIN t \cup {o.id} |->
                      IF id = o.id THEN NewJob(t, o) ELSE t[id]]
  <2>1. DOMAIN r = DOMAIN t \cup {o.id}
    BY <1>2
  <2>2. \A id \in DOMAIN t \ {o.id} : r[id] = t[id] /\ t[id].name # r[o.id].name
    BY <1>2 DEF Refused, NameTaken
  <2>3. \A i, j \in DOMAIN r : r[i].name = r[j].name => i = j
    BY <2>1, <2>2 DEF Valid
  <2>4. Cardinality(DOMAIN r) <= MaxSchedules
    <3>1. CASE o.kind = "add"
      <4>1. o.id \notin DOMAIN t /\ ~(Cardinality(DOMAIN t) >= MaxSchedules)
        BY <3>1 DEF Refused
      <4>2. Cardinality(DOMAIN t \cup {o.id}) = Cardinality(DOMAIN t) + 1
        BY <4>1, <1>t, FS_AddElement
      <4> QED
        BY <1>t, <2>1, <4>1, <4>2
    <3>2. CASE Updates(o) /\ o.id \in DOMAIN t
      <4>1. DOMAIN r = DOMAIN t
        BY <2>1, <3>2
      <4> QED
        BY <4>1 DEF Valid
    <3> QED
      BY <1>2, <3>1, <3>2
  <2> QED
    BY <2>3, <2>4 DEF Valid
<1> QED
  BY <1>1, <1>2, ResultCases

LEMMA NoJobsIsValid == Valid(NoJobs)
<1>1. Cardinality(DOMAIN NoJobs) = 0
  BY NoJobsIsTable, FS_EmptySet
<1> QED
  BY <1>1, NoJobsIsTable, LimitsAssumption DEF Valid
-----------------------------------------------------------------------------
(* The inductive invariant.                                                *)

\* Calls in flight belong to processes that run.
ActiveUp == \A c \in Calls : pc[c] # "idle" => Home[c] \in up

\* What a call in "saving" is about to write is its mutation applied to the
\* table in the file, or to none after a load that may have failed.
WritesItsMutation ==
    \A c \in Calls : pc[c] = "saving" =>
        \E t \in {file, NoJobs} :
            /\ t = file \/ IoFaults \/ TooLarge(file)
            /\ ~Refused(t, op[c])
            /\ cache[Home[c]] = Result(t, op[c])

IInv ==
    /\ TypeOK
    /\ LockExclusion
    /\ ActiveUp
    /\ WritesItsMutation
    /\ Valid(file)

LEMMA InitIInv == Init => IInv
<1> SUFFICES ASSUME Init PROVE IInv
  OBVIOUS
<1>1. file \in Tables /\ exists \in BOOLEAN /\ Valid(file)
  BY SavedAssumption, NoJobsIsTable, NoJobsIsValid DEF Init, Valid
<1>2. cache \in [Processes -> Tables] /\ pc \in [Calls -> PCs]
  BY NoJobsIsTable DEF Init, PCs
<1>3. op \in [Calls -> Ops]
  BY DEF Init, NoOp, Ops
<1>4. LockExclusion /\ ActiveUp /\ WritesItsMutation
  BY DEF Init, LockExclusion, ActiveUp, WritesItsMutation, Holding
<1> QED
  BY <1>1, <1>2, <1>3, <1>4 DEF Init, IInv, TypeOK

-----------------------------------------------------------------------------
(* A step that leaves the file alone and starts no write keeps what is     *)
(* known about the writes that are in progress.                            *)

LEMMA WritesKept ==
    ASSUME IInv, UNCHANGED file,
           \A c \in Calls : pc'[c] = "saving" =>
                /\ pc[c] = "saving" /\ op'[c] = op[c]
                /\ cache'[Home[c]] = cache[Home[c]]
    PROVE  WritesItsMutation' /\ Valid(file)'
BY DEF IInv, WritesItsMutation, Valid

\* Two calls never hold the lock at once.
LEMMA OneHolder ==
    ASSUME IInv, NEW c \in Calls, NEW d \in Calls, pc[c] \in Holding, pc[d] \in Holding
    PROVE  c = d
BY DEF IInv, LockExclusion

LEMMA OpenStep ==
    ASSUME IInv, NEW p \in Processes, Open(p)
    PROVE  IInv'
<1>1. TypeOK'
  BY NoJobsIsTable DEF Open, IInv, TypeOK
<1>2. LockExclusion' /\ ActiveUp'
  BY DEF Open, IInv, LockExclusion, ActiveUp
<1>3. \A c \in Calls : pc[c] = "saving" => cache'[Home[c]] = cache[Home[c]]
  BY CallsAssumption DEF Open, IInv, ActiveUp, TypeOK
<1>4. WritesItsMutation' /\ Valid(file)'
  BY <1>3, WritesKept DEF Open
<1> QED
  BY <1>1, <1>2, <1>4 DEF IInv

LEMMA CrashStep ==
    ASSUME IInv, NEW p \in Processes, Crash(p)
    PROVE  IInv'
<1>1. TypeOK'
  <2>1. pc' \in [Calls -> PCs] /\ op' \in [Calls -> Ops]
    BY DEF Crash, IInv, TypeOK, PCs, NoOp, Ops
  <2> QED
    BY <2>1, NoJobsIsTable DEF Crash, IInv, TypeOK
<1>2. LockExclusion' /\ ActiveUp'
  BY DEF Crash, IInv, LockExclusion, ActiveUp, Holding
<1>3. \A c \in Calls : pc'[c] = "saving" =>
          pc[c] = "saving" /\ op'[c] = op[c] /\ cache'[Home[c]] = cache[Home[c]]
  BY CallsAssumption DEF Crash, IInv, TypeOK
<1>4. WritesItsMutation' /\ Valid(file)'
  BY <1>3, WritesKept DEF Crash
<1> QED
  BY <1>1, <1>2, <1>4 DEF IInv

LEMMA CallStep ==
    ASSUME IInv, NEW c \in Calls, NEW o \in Ops, Call(c, o)
    PROVE  IInv'
<1>1. TypeOK'
  BY DEF Call, IInv, TypeOK, PCs
<1>2. LockExclusion' /\ ActiveUp'
  BY DEF Call, IInv, TypeOK, LockExclusion, ActiveUp, Holding
<1>3. \A d \in Calls : pc'[d] = "saving" =>
          pc[d] = "saving" /\ op'[d] = op[d] /\ cache'[Home[d]] = cache[Home[d]]
  BY DEF Call, IInv, TypeOK
<1>4. WritesItsMutation' /\ Valid(file)'
  BY <1>3, WritesKept DEF Call
<1> QED
  BY <1>1, <1>2, <1>4 DEF IInv

LEMMA AcquireStep ==
    ASSUME IInv, NEW c \in Calls, Acquire(c)
    PROVE  IInv'
<1>1. TypeOK'
  BY DEF Acquire, IInv, TypeOK, PCs
<1>2. LockExclusion' /\ ActiveUp'
  BY CallsAssumption
  DEF Acquire, LockIsFree, IInv, TypeOK, LockExclusion, ActiveUp, Holding
<1>3. \A d \in Calls : pc'[d] = "saving" =>
          pc[d] = "saving" /\ op'[d] = op[d] /\ cache'[Home[d]] = cache[Home[d]]
  BY DEF Acquire, IInv, TypeOK
<1>4. WritesItsMutation' /\ Valid(file)'
  BY <1>3, WritesKept DEF Acquire
<1> QED
  BY <1>1, <1>2, <1>4 DEF IInv

\* The ways a call returns: without the lock, or giving it back or leaving it.
LEMMA ReturnStep ==
    ASSUME IInv, NEW c \in Calls,
           GiveUp(c) \/ LockRefused(c) \/ LockFails(c) \/ Release(c)
    PROVE  IInv'
<1>1. /\ Return(c) /\ UNCHANGED <<file, exists, up, cache>>
      /\ lock' = lock \/ (lock' = Free /\ pc[c] \in Holding)
  BY DEF GiveUp, LockRefused, LockFails, Release, Holding
<1>2. TypeOK'
  BY <1>1 DEF Return, IInv, TypeOK, PCs, NoOp, Ops
<1>3. ActiveUp'
  BY <1>1 DEF Return, IInv, TypeOK, ActiveUp
<1>4. LockExclusion'
  BY <1>1 DEF Return, IInv, TypeOK, LockExclusion, Holding
<1>5. \A d \in Calls : pc'[d] = "saving" =>
          pc[d] = "saving" /\ op'[d] = op[d] /\ cache'[Home[d]] = cache[Home[d]]
  BY <1>1 DEF Return, IInv, TypeOK
<1>6. WritesItsMutation' /\ Valid(file)'
  BY <1>1, <1>5, WritesKept
<1> QED
  BY <1>2, <1>3, <1>4, <1>6 DEF IInv

LEMMA NoBackingFileStep ==
    ASSUME IInv, NEW c \in Calls, NoBackingFile(c) \/ SaveFails(c)
    PROVE  IInv'
<1>1. /\ pc[c] \in Holding /\ pc' = [pc EXCEPT ![c] = "releasing"]
      /\ UNCHANGED <<file, lock, up, cache, op>> /\ exists' \in BOOLEAN
  BY DEF NoBackingFile, SaveFails, Holding, IInv, TypeOK
<1>2. TypeOK'
  BY <1>1 DEF IInv, TypeOK, PCs
<1>3. LockExclusion' /\ ActiveUp'
  BY <1>1 DEF IInv, TypeOK, LockExclusion, ActiveUp, Holding
<1>4. \A d \in Calls : pc'[d] = "saving" => pc[d] = "saving"
  BY <1>1 DEF IInv, TypeOK
<1>5. WritesItsMutation' /\ Valid(file)'
  BY <1>1, <1>4, WritesKept
<1> QED
  BY <1>2, <1>3, <1>5 DEF IInv

LEMMA MutateStep ==
    ASSUME IInv, NEW c \in Calls, NEW t \in {file, NoJobs}, Mutate(c, t),
           t = file \/ IoFaults \/ TooLarge(file)
    PROVE  IInv'
<1> DEFINE p == Home[c]
<1> DEFINE o == op[c]
<1>t. /\ p \in Processes /\ o \in Ops /\ t \in Tables
      /\ pc[c] = "loading"
      /\ Result(t, o) \in Tables /\ AfterRefusal(t, o) \in Tables
  BY CallsAssumption, NoJobsIsTable, ResultIsTable DEF IInv, TypeOK, Mutate, AfterRefusal
<1>1. /\ UNCHANGED <<file, lock, up, op>>
      /\ exists' = (exists \/ o.kind # "sweep")
      /\ pc' = [pc EXCEPT ![c] = "releasing"] \/ pc' = [pc EXCEPT ![c] = "saving"]
      /\ \E u \in Tables : cache' = [cache EXCEPT ![p] = u]
      /\ pc'[c] = "saving" => ~Refused(t, o) /\ cache'[p] = Result(t, o)
  BY <1>t DEF Mutate, IInv, TypeOK
<1>2. TypeOK'
  BY <1>1 DEF IInv, TypeOK, PCs
<1>3. LockExclusion' /\ ActiveUp'
  BY <1>1, <1>t DEF IInv, TypeOK, LockExclusion, ActiveUp, Holding
<1>4. \A d \in Calls : pc'[d] = "saving" => d = c
  <2> SUFFICES ASSUME NEW d \in Calls, pc'[d] = "saving", d # c
               PROVE  FALSE
    OBVIOUS
  <2>1. pc[d] = "saving"
    BY <1>1 DEF IInv, TypeOK
  <2> QED
    BY <2>1, <1>t, OneHolder DEF Holding
<1>5. WritesItsMutation'
  BY <1>1, <1>4 DEF WritesItsMutation
<1>6. Valid(file)'
  BY <1>1 DEF IInv, Valid
<1> QED
  BY <1>2, <1>3, <1>5, <1>6 DEF IInv

\* The write itself: the file becomes the result of one mutation.
LEMMA SaveWrites ==
    ASSUME IInv, NEW c \in Calls, Save(c)
    PROVE  \E t \in {file, NoJobs} :
               /\ t = file \/ IoFaults \/ TooLarge(file)
               /\ t \in Tables /\ Valid(t) /\ op[c] \in Ops
               /\ ~Refused(t, op[c]) /\ file' = Result(t, op[c])
BY NoJobsIsTable, NoJobsIsValid DEF Save, IInv, TypeOK, WritesItsMutation

LEMMA SaveStep ==
    ASSUME IInv, NEW c \in Calls, Save(c)
    PROVE  IInv'
<1>1. PICK t \in Tables : Valid(t) /\ op[c] \in Ops /\ ~Refused(t, op[c])
                         /\ file' = Result(t, op[c])
  BY SaveWrites
<1>2. file' \in Tables /\ Valid(file)'
  <2>1. Valid(Result(t, op[c]))
    BY <1>1, ResultIsValid
  <2> QED
    BY <1>1, <2>1, ResultIsTable DEF Valid
<1>3. TypeOK'
  BY <1>2 DEF Save, IInv, TypeOK, PCs
<1>4. LockExclusion' /\ ActiveUp'
  BY DEF Save, IInv, TypeOK, LockExclusion, ActiveUp, Holding
<1>5. WritesItsMutation'
  <2>1. \A d \in Calls : pc'[d] # "saving"
    BY OneHolder DEF Save, IInv, TypeOK, Holding
  <2> QED
    BY <2>1 DEF WritesItsMutation
<1> QED
  BY <1>2, <1>3, <1>4, <1>5 DEF IInv

LEMMA NextIInv == IInv /\ [Next]_vars => IInv'
<1> SUFFICES ASSUME IInv, [Next]_vars PROVE IInv'
  OBVIOUS
<1>1. ASSUME NEW p \in Processes, Open(p) PROVE IInv'
  BY <1>1, OpenStep
<1>2. ASSUME NEW p \in Processes, Crash(p) PROVE IInv'
  BY <1>2, CrashStep
<1>3. ASSUME NEW c \in Calls, NEW o \in Wanted, Call(c, o) PROVE IInv'
  BY <1>3, CallStep, WantedAssumption
<1>4. ASSUME NEW c \in Calls, Acquire(c) PROVE IInv'
  BY <1>4, AcquireStep
<1>5. ASSUME NEW c \in Calls, GiveUp(c) \/ LockRefused(c) \/ LockFails(c) \/ Release(c)
      PROVE  IInv'
  BY <1>5, ReturnStep
<1>6. ASSUME NEW c \in Calls, NoBackingFile(c) \/ SaveFails(c) PROVE IInv'
  BY <1>6, NoBackingFileStep
<1>7. ASSUME NEW c \in Calls, Load(c) PROVE IInv'
  BY <1>7, MutateStep DEF Load, LoadedTable
<1>8. ASSUME NEW c \in Calls, LoadFails(c) PROVE IInv'
  BY <1>8, MutateStep DEF LoadFails, MayFailToLoad
<1>9. ASSUME NEW c \in Calls, Save(c) PROVE IInv'
  BY <1>9, SaveStep
<1>10. CASE UNCHANGED vars
  BY <1>10 DEF vars, IInv, TypeOK, LockExclusion, ActiveUp, WritesItsMutation, Valid
<1> QED
  BY <1>1, <1>2, <1>3, <1>4, <1>5, <1>6, <1>7, <1>8, <1>9, <1>10
  DEF Next, Locking, Loading, Saving

LEMMA Invariance == Spec => []IInv
<1> QED
  BY InitIInv, NextIInv, PTL DEF Spec

-----------------------------------------------------------------------------
(* The results.                                                            *)

\* Every variable of the store keeps its type, for all processes, calls and
\* mutations, with or without failing file operations.
THEOREM StoreTypes == Spec => []TypeOK
<1>1. IInv => TypeOK
  BY DEF IInv
<1> QED
  BY <1>1, Invariance, PTL

\* acquireDirLock and releaseDirLock let one call at a time, over all
\* processes, work on the file.
THEOREM LockExcludes == Spec => []LockExclusion
<1>1. IInv => LockExclusion
  BY DEF IInv
<1> QED
  BY <1>1, Invariance, PTL

\* MAX_SCHEDULES and the uniqueness of names hold in the file, though addJob
\* and updateJob first test them on a cache that may be stale.
THEOREM LimitAndNamesKept == Spec => []LimitAndNames
<1>1. IInv => LimitAndNames
  BY DEF IInv, LimitAndNames, Valid
<1> QED
  BY <1>1, Invariance, PTL

-----------------------------------------------------------------------------
(* What list() and get() answer.                                           *)

\* The cache of p is kept, or holds what is on disk, nothing, or what a call of p
\* is about to write.
Follows(p) ==
    \/ cache'[p] \in {cache[p], file', NoJobs}
    \/ \E c \in Calls : Home[c] = p /\ pc'[c] = "saving"

\* A mutation that is refused, or that leaves the table to nobody's write, leaves
\* in the cache what load() has put there.
LEMMA MutateFollows ==
    ASSUME TypeOK, NEW c \in Calls, NEW t \in {file, NoJobs}, Mutate(c, t),
           NEW p \in Processes
    PROVE  Follows(p)
<1>1. /\ file' = file /\ op[c] \in Ops /\ Home[c] \in Processes
      /\ cache \in [Processes -> Tables] /\ pc \in [Calls -> PCs]
  BY CallsAssumption DEF TypeOK, Mutate
<1>2. CASE p # Home[c]
  BY <1>1, <1>2 DEF Mutate, Follows
<1>3. CASE p = Home[c] /\ Refused(t, op[c])
  <2>1. cache' = [cache EXCEPT ![Home[c]] = t]
    BY <1>3 DEF Mutate, AfterRefusal
  <2>2. cache'[p] = t
    BY <1>1, <1>3, <2>1
  <2>3. QED
    BY <1>1, <2>2 DEF Follows
<1>4. CASE /\ p = Home[c] /\ ~Refused(t, op[c])
           /\ op[c].kind = "sweep" /\ DOMAIN t # {}
  <2>1. Result(t, op[c]) = t
    BY <1>4 DEF Result, Updates
  <2>2. cache' = [cache EXCEPT ![Home[c]] = Result(t, op[c])]
    BY <1>4 DEF Mutate
  <2>3. cache'[p] = t
    BY <1>1, <1>4, <2>1, <2>2
  <2>4. QED
    BY <1>1, <2>3 DEF Follows
<1>5. CASE /\ p = Home[c] /\ ~Refused(t, op[c])
           /\ ~(op[c].kind = "sweep" /\ DOMAIN t # {})
  <2>1. pc' = [pc EXCEPT ![c] = "saving"]
    BY <1>5 DEF Mutate
  <2>2. pc'[c] = "saving"
    BY <1>1, <2>1
  <2>3. QED
    BY <1>5, <2>2 DEF Follows
<1>6. QED
  BY <1>2, <1>3, <1>4, <1>5

LEMMA OpenFollows ==
    ASSUME TypeOK, NEW q \in Processes, Open(q), NEW p \in Processes
    PROVE  Follows(p)
<1>1. file' = file /\ cache \in [Processes -> Tables]
  BY DEF Open, TypeOK
<1>2. cache' = [cache EXCEPT ![q] = file] \/ cache' = [cache EXCEPT ![q] = NoJobs]
  BY DEF Open
<1>3. cache'[p] \in {cache[p], file', NoJobs}
  BY <1>1, <1>2
<1>4. QED
  BY <1>3 DEF Follows

LEMMA StepFollows ==
    ASSUME TypeOK, Next, NEW p \in up'
    PROVE  Follows(p)
<1>1. ASSUME NEW q \in Processes, Open(q) PROVE Follows(p)
  BY <1>1, OpenFollows DEF Open, TypeOK
<1>2. ASSUME NEW q \in Processes, Crash(q) PROVE Follows(p)
  <2>1. p \in Processes /\ p # q /\ cache'[p] = cache[p]
    BY <1>2 DEF Crash, TypeOK
  <2>2. QED
    BY <2>1 DEF Follows
<1>3. ASSUME UNCHANGED cache PROVE Follows(p)
  BY <1>3 DEF Follows
<1>4. ASSUME NEW c \in Calls, Load(c) \/ LoadFails(c) PROVE Follows(p)
  <2>1. p \in Processes
    BY <1>4 DEF Load, LoadFails, Mutate, TypeOK
  <2>2. QED
    BY <1>4, <2>1, MutateFollows DEF Load, LoadFails, LoadedTable
<1>5. ASSUME NEW c \in Calls, NEW o \in Wanted, Call(c, o) PROVE UNCHANGED cache
  BY <1>5 DEF Call
<1>6. ASSUME NEW c \in Calls, \/ Locking(c) \/ LockRefused(c) \/ LockFails(c)
                              \/ NoBackingFile(c) \/ Saving(c) \/ Release(c)
      PROVE  UNCHANGED cache
  BY <1>6 DEF Locking, Acquire, GiveUp, LockRefused, LockFails, NoBackingFile, Saving, Save,
     SaveFails, Release
<1>7. QED
  BY <1>1, <1>2, <1>3, <1>4, <1>5, <1>6 DEF Next, Loading

\* list() and get() never show a refused change, nor a load that is half done: what
\* they show changes to the jobs on disk, to nothing when they cannot be read, or to
\* what a call with the lock is about to write.
THEOREM CacheFollows == Spec => CacheFollowsFile
<1>1. ASSUME IInv, Next, NEW p \in up'
      PROVE  \/ cache'[p] \in {cache[p], file', NoJobs}
             \/ \E c \in Calls : Home[c] = p /\ pc'[c] = "saving"
  BY <1>1, StepFollows DEF IInv, Follows
<1>2. IInv /\ [Next]_vars =>
        [\A p \in up' : \/ cache'[p] \in {cache[p], file', NoJobs}
                        \/ \E c \in Calls : Home[c] = p /\ pc'[c] = "saving"]_vars
  BY <1>1
<1>3. QED
  BY <1>2, Invariance, PTL DEF Spec, CacheFollowsFile

-----------------------------------------------------------------------------
(* The file is one atomic table.                                           *)

LEMMA InitIsTable == Init => Shared!Init
BY SavedAssumption, NoJobsIsTable DEF Init, Shared!Init

\* rename (or unlink) is where a mutation takes effect; all else stutters.
LEMMA StepIsMutation == IInv /\ [Next]_vars => [Shared!Next]_file
<1> SUFFICES ASSUME IInv, [Next]_vars PROVE [Shared!Next]_file
  OBVIOUS
<1>1. ASSUME NEW c \in Calls, Save(c)
      PROVE  Shared!Next
  <2>1. PICK t \in {file, NoJobs} :
            /\ t = file \/ IoFaults \/ TooLarge(file)
            /\ op[c] \in Ops /\ ~Refused(t, op[c]) /\ file' = Result(t, op[c])
    BY <1>1, SaveWrites
  <2>2. CASE t = file
    BY <2>1, <2>2 DEF Shared!Next, Shared!Apply
  <2>3. CASE t = NoJobs /\ t # file
    BY <2>1, <2>3 DEF Shared!Next, Shared!Forget
  <2> QED
    BY <2>2, <2>3
<1>2. ~(\E c \in Calls : Save(c)) => UNCHANGED file
  BY DEF Next, vars, Open, Crash, Call, Locking, Acquire, GiveUp, LockRefused, Loading,
         Load, LoadFails, LockFails, NoBackingFile, Mutate, Saving, SaveFails, Release
<1> QED
  BY <1>1, <1>2

\* ScheduleStore implements JobTable: whatever processes and calls do to each
\* other, crash or fail, the file goes through the states of one table to which
\* whole mutations are applied one after the other.
THEOREM StoreIsOneTable == Spec => IsOneTable
<1> QED
  BY InitIsTable, StepIsMutation, Invariance, PTL DEF Spec, IsOneTable, Shared!Spec
=============================================================================

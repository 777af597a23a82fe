------------------------------ MODULE Scheduler ------------------------------
(***************************************************************************)
(* SubagentScheduler (src/schedule.ts): the timers of the jobs of one      *)
(* session file, through stop and start of the scheduler, with addJob,     *)
(* updateJob and removeJob called while jobs fire.                         *)
(*                                                                         *)
(* Of a ScheduleStore (src/schedule-store.ts) there is what a scheduler in *)
(* one process can see: the cache that list() and get() answer from, apart *)
(* from the file, and the lock.  A mutation reads the file into the cache  *)
(* and changes it there in one step, and writes the file in a later one,   *)
(* which may fail.  Every start opens a store of its own over the file,    *)
(* and a call keeps the one it began with.                                 *)
(***************************************************************************)
EXTENDS Naturals, FiniteSets

CONSTANTS
    Ids,        \* job ids
    Once,       \* those of one-shot jobs; the others are interval and cron jobs
    Runs,       \* executeJob calls in flight at a time
    Starters,   \* session_start handlers, which call start
    Callers,    \* callers of addJob, updateJob and removeJob
    MaxStarts,  \* bound on starts of the scheduler
    MaxStops,   \* bound on stop()
    MaxFaults   \* bound on failed reads of the file and on calls of the store that
                \* throw, which one that cannot get the lock does in the end

\* Those that await a load or the store.
Awaiting == Starters \cup Callers

ASSUME IdsAssumption == Once \subseteq Ids /\ Runs \cap Awaiting = {}
ASSUME BoundAssumption == MaxStarts \in Nat /\ MaxStops \in Nat /\ MaxFaults \in Nat

VARIABLES
    file,           \* the jobs in the file
    cache,          \* the jobs in the cache of the bound store
    saving,         \* the mutation that is between its load and the end of its save
    faults,         \* reads of the file that have failed and calls that have thrown
    store,          \* the number of the bound store, 0 for none
    opened,         \* stores opened so far
    drawn,          \* the ids that jobs have had
    generation,
    timers,         \* the ids in this.jobs and this.intervals
    orphans,        \* the ids of timers whose handle has been overwritten
    past,           \* the one-shots whose time has come
    inflight,
    run,            \* the executeJob calls
    call,           \* the calls of start, addJob, updateJob, removeJob
    astray          \* history: jobs left alone by a call that threw, hidden by a
                    \* read that failed or was too early, or changed through a
                    \* store that was no longer the bound one

stores == <<file, cache, saving, faults>>
clock  == <<generation, past, inflight, run>>
vars   == <<stores, store, opened, drawn, clock, timers, orphans, call, astray>>

active == store # 0

Tables == [Ids -> {"none", "on", "off"}]
Empty  == [id \in Ids |-> "none"]
On(table) == {id \in Ids : table[id] = "on"}

NoSave == [pc |-> "none"]
Saves  == {NoSave} \cup [pc : {"save"}, by : Runs \cup Awaiting, store : 1 .. MaxStarts,
                         table : Tables]

\* marking: awaits the update to "running".   agent: awaits record.promise.
\* failing: awaits the update after a spawn that threw.   ending, retrying: awaits
\* the update of the first and second finalize; shot: it disables the job.
NoRun == [pc |-> "off"]
RunStates == {NoRun} \cup
    [pc : {"marking", "failing", "agent", "ending", "retrying"}, id : Ids,
     gen : 0 .. MaxStops, store : 1 .. MaxStarts, shot : BOOLEAN]

\* opening, opened: awaits the load of a new store, before and after the read.
\* asked: awaits the store.   expired: awaits the update that disables id; rest
\* is what start has left.
Kinds == {"add", "enable", "disable", "remove"}
NoCall == [pc |-> "idle"]
CallStates == {NoCall}
    \cup [pc : {"opening"}, store : 1 .. MaxStarts]
    \cup [pc : {"opened"}, store : 1 .. MaxStarts, seen : Tables]
    \cup [pc : {"asked"}, store : 1 .. MaxStarts, kind : Kinds, id : Ids]
    \cup [pc : {"expired"}, store : 1 .. MaxStarts, id : Ids, rest : SUBSET Ids]

\* An earlier session may have left jobs in the file.
Init ==
    /\ file \in [Ids -> {"none", "on"}] /\ drawn = On(file)
    /\ cache = Empty /\ saving = NoSave /\ faults = 0
    /\ store = 0 /\ opened = 0
    /\ generation = 0
    /\ timers = {} /\ orphans = {}
    /\ past \in SUBSET (Once \cap On(file))
    /\ inflight = {}
    /\ run = [r \in Runs |-> NoRun]
    /\ call = [c \in Awaiting |-> NoCall]
    /\ astray = {}

-----------------------------------------------------------------------------
(* The store.                                                              *)

Fault == faults < MaxFaults /\ faults' = faults + 1

\* What load makes of the file: nothing, if it cannot be read.
Reading(seen) == (seen = file /\ UNCHANGED faults) \/ (seen = Empty /\ Fault)

\* A job that is gone stays gone.
Mutated(table, kind, id) ==
    [table EXCEPT ![id] =
        CASE kind = "add"                     -> "on"
          [] kind = "enable" /\ @ # "none"    -> "on"
          [] kind = "disable" /\ @ # "none"   -> "off"
          [] kind = "remove"                  -> "none"
          [] OTHER                            -> @]

Saving(x) == saving # NoSave /\ saving.by = x

\* withLock up to save: load and fn, which the callers of list() and get() of the
\* same store see at once.
Mutates(x, s, kind, id) ==
    /\ saving = NoSave
    /\ \E seen \in {file, Empty} :
       LET table == Mutated(seen, kind, id)
       IN  /\ Reading(seen)
           /\ saving' = [pc |-> "save", by |-> x, store |-> s, table |-> table]
           /\ cache' = IF s = store THEN table ELSE cache
           /\ astray' = astray \cup (IF s = store THEN On(file) \ On(seen) ELSE {})
    /\ UNCHANGED file

\* The rest of withLock.
Saved(x) == Saving(x) /\ file' = saving.table /\ saving' = NoSave /\ UNCHANGED <<cache, faults>>

\* The call throws: it gets no lock or no backing file, or save fails before or
\* after the rename, and fn's change stays in the cache.
Throws(x) ==
    /\ Fault
    /\ \/ ~Saving(x) /\ UNCHANGED <<file, cache, saving>>
       \/ /\ Saving(x) /\ saving' = NoSave /\ UNCHANGED cache
          /\ file' \in {file, saving.table}

\* fn refuses what was asked, after the load: the name is taken, or the limit
\* reached.
Refused(c) ==
    /\ Fault /\ saving = NoSave /\ call[c].kind # "remove"
    /\ cache' = IF call[c].store = store THEN file ELSE cache
    /\ UNCHANGED <<file, saving>>

\* The bound store does not know what was changed through another.
Unheard(s, id) == IF active /\ s # store THEN {id} ELSE {}

-----------------------------------------------------------------------------
(* Arming, start and stop.                                                 *)

\* Mutant: jobs are armed whether or not a store is bound.
ArmsAlways(ids) == ids

\* What scheduleJob arms: start binds the store first.
Arms(ids) == IF active' THEN ids ELSE {}

\* this.jobs.set, this.intervals.set: an earlier timer of the id goes on.  A job
\* that is armed is astray no more, if the cache has not lost it.
Arm(ids, before, bad) ==
    /\ timers' = before \cup Arms(ids)
    /\ orphans' = orphans \cup (Arms(ids) \cap before)
    /\ astray' = (astray \cup bad) \ (Arms(ids) \ (On(file') \ On(cache')))

\* scheduleJob for ids, up to the first that is past: that one is disabled.
\* before: the timers that are left, bad: the jobs that have just gone astray.
ArmAll(c, ids, before, bad) ==
    \/ /\ ids \cap past = {} \/ ~active'
       /\ Arm(ids, before, bad)
       /\ call' = [call EXCEPT ![c] = NoCall]
    \/ \E p \in ids \cap past, armed \in SUBSET (ids \ past) :
       /\ active'
       /\ Arm(armed, before, bad)
       /\ call' = [call EXCEPT ![c] =
                     [pc |-> "expired", store |-> store', id |-> p,
                      rest |-> ids \ (armed \cup {p})]]

\* session_start: the test of isActive, up to the read of ScheduleStore.create.
Start(c) ==
    /\ ~active /\ call[c] = NoCall /\ opened < MaxStarts
    /\ opened' = opened + 1
    /\ call' = [call EXCEPT ![c] = [pc |-> "opening", store |-> opened']]
    /\ UNCHANGED <<stores, store, drawn, clock, timers, orphans, astray>>

\* The read of create, which takes no lock.
Reads(c) ==
    /\ call[c].pc = "opening"
    /\ \E seen \in {file, Empty} :
          /\ Reading(seen)
          /\ call' = [call EXCEPT ![c] = [pc |-> "opened", store |-> @.store, seen |-> seen]]
    /\ UNCHANGED <<file, cache, saving, store, opened, drawn, clock, timers, orphans, astray>>

\* start, whatever store has been bound since the test.
Binds(c) ==
    /\ call[c].pc = "opened"
    /\ store' = call[c].store /\ cache' = call[c].seen
    /\ UNCHANGED <<file, saving, faults, opened, drawn, clock>>
    /\ ArmAll(c, On(call[c].seen), timers, On(file) \ On(call[c].seen))

\* scheduleJob disables a one-shot that is past.
ExpiredAsks(c) ==
    /\ call[c].pc = "expired" /\ Mutates(c, call[c].store, "disable", call[c].id)
    /\ UNCHANGED <<store, opened, drawn, clock, timers, orphans, call>>

\* start goes on with the rest, also when the store has thrown.
Expired(c) ==
    /\ call[c].pc = "expired"
    /\ UNCHANGED <<store, opened, drawn, clock>>
    /\ LET id == call[c].id
       IN  \/ /\ Saved(c)
              /\ ArmAll(c, call[c].rest, timers, Unheard(call[c].store, id))
           \/ Throws(c) /\ ArmAll(c, call[c].rest, timers, {id})

\* stop, at a session switch or shutdown, or from the settings menu; the next
\* start sees to all jobs anew.
Stop ==
    /\ active /\ generation < MaxStops
    /\ store' = 0 /\ cache' = Empty
    /\ generation' = generation + 1
    /\ timers' = {}
    /\ inflight' = {}
    /\ astray' = {}
    /\ UNCHANGED <<file, saving, faults, opened, drawn, orphans, past, run, call>>

-----------------------------------------------------------------------------
(* addJob, updateJob, removeJob.                                           *)

Asks(c, kind, id) ==
    /\ active /\ call[c] = NoCall
    /\ call' = [call EXCEPT ![c] = [pc |-> "asked", store |-> store, kind |-> kind, id |-> id]]
    /\ UNCHANGED <<stores, store, opened, clock, orphans, astray>>

\* buildJob draws the id.
AddJob(c, id) == id \notin drawn /\ drawn' = drawn \cup {id} /\ Asks(c, "add", id) /\ UNCHANGED timers

UpdateJob(c, id, kind) ==
    /\ id \in drawn /\ kind \in {"enable", "disable"}
    /\ Asks(c, kind, id) /\ UNCHANGED <<drawn, timers>>

\* The timer goes before the job.
RemoveJob(c, id) ==
    /\ cache[id] # "none"
    /\ timers' = timers \ {id}
    /\ Asks(c, "remove", id) /\ UNCHANGED drawn

StoreBegins(c) ==
    /\ call[c].pc = "asked" /\ Mutates(c, call[c].store, call[c].kind, call[c].id)
    /\ UNCHANGED <<store, opened, drawn, clock, timers, orphans, call>>

\* The store throws, and so does the caller.
StoreThrows(c) ==
    /\ call[c].pc = "asked" /\ (Throws(c) \/ Refused(c))
    /\ astray' = astray \cup (IF call[c].kind = "remove" \/ Saving(c) THEN {call[c].id} ELSE {})
    /\ call' = [call EXCEPT ![c] = NoCall]
    /\ UNCHANGED <<store, opened, drawn, clock, timers, orphans>>

\* Mutant: updateJob does not arm the job again.
ScheduledIfNew(c) == IF call[c].kind = "add" THEN {call[c].id} ELSE {}

\* What the caller passes to scheduleJob when the store has returned; update has
\* returned undefined when there was no such job.
Scheduled(c) ==
    IF call[c].kind \in {"add", "enable"} /\ saving.table[call[c].id] = "on" THEN {call[c].id} ELSE {}

\* updateJob clears the old timer first; addJob and removeJob have none to clear.
Unscheduled(c) ==
    IF call[c].kind \in {"enable", "disable"} /\ saving.table[call[c].id] # "none"
    THEN {call[c].id} ELSE {}

StoreReturns(c) ==
    /\ call[c].pc = "asked" /\ Saved(c)
    /\ UNCHANGED <<store, opened, drawn, clock>>
    /\ ArmAll(c, Scheduled(c), timers \ Unscheduled(c), Unheard(call[c].store, call[c].id))

-----------------------------------------------------------------------------
(* executeJob.                                                             *)

MayExecute(id) == active /\ cache[id] = "on" /\ id \notin inflight

Execute(r, id) ==
    /\ run[r] = NoRun
    /\ inflight' = inflight \cup {id}
    /\ run' = [run EXCEPT ![r] = [pc |-> "marking", id |-> id, gen |-> generation,
                                  store |-> store, shot |-> FALSE]]

NoCalls == UNCHANGED <<store, opened, drawn, generation, past, orphans, call>>

\* An interval or cron timer ticks.  A tick that may not execute, also because
\* the last one (lastFireAt) is less than MIN_INTERVAL old, changes nothing.
Tick(id) ==
    /\ id \in (timers \cup orphans) \ Once
    /\ MayExecute(id)
    /\ \E r \in Runs : Execute(r, id)
    /\ UNCHANGED <<stores, timers, astray>> /\ NoCalls

\* The time of a one-shot comes.  Of two timers for the same moment the second
\* is refused: MIN_INTERVAL.
Due(id) ==
    /\ id \in Once \ past
    /\ past' = past \cup {id}
    /\ orphans' = orphans \ {id}
    /\ IF id \in timers \cup orphans /\ MayExecute(id)
       THEN \E r \in Runs : Execute(r, id)
       ELSE UNCHANGED <<inflight, run>>
    /\ UNCHANGED <<stores, store, opened, drawn, generation, timers, call, astray>>

\* Mutant: every run clears the mark.
UnmarkedAlways(r) == inflight \ {run[r].id}

\* Only a run of this generation clears the mark.
Unmarked(r) == IF run[r].gen = generation THEN inflight \ {run[r].id} ELSE inflight

Leave(r) == inflight' = Unmarked(r) /\ run' = [run EXCEPT ![r] = NoRun]

Advance(r, pc, shot) ==
    run' = [run EXCEPT ![r].pc = pc, ![r].shot = shot] /\ UNCHANGED inflight

\* An update of the job's status, which disables a one-shot that has run.
RunAsks(r) ==
    /\ run[r].pc \in {"marking", "failing", "ending", "retrying"}
    /\ Mutates(r, run[r].store, IF run[r].shot THEN "disable" ELSE "mark", run[r].id)
    /\ UNCHANGED <<inflight, run, timers>> /\ NoCalls

\* The job is marked as running, if it is still there, and an agent spawned, or
\* not.
Spawn(r) ==
    /\ run[r].pc = "marking" /\ Saved(r)
    /\ \E pc \in {"agent", "failing"} : Advance(r, pc, FALSE)
    /\ UNCHANGED <<timers, astray>> /\ NoCalls

\* A one-shot that did not run stays enabled, though its time is past.
LeftOn(r) == {run[r].id} \cap Once

\* The update after a spawn that threw; its own failure is no different.
FailureNoted(r) ==
    /\ run[r].pc = "failing" /\ (Saved(r) \/ Throws(r))
    /\ Leave(r)
    /\ astray' = astray \cup LeftOn(r)
    /\ UNCHANGED timers /\ NoCalls

\* finalize sees that the job is a one-shot, if it is in the cache of its store.
Shots(r) ==
    {shot \in BOOLEAN :
        /\ shot => run[r].id \in Once
        /\ run[r].store = store => (shot <=> run[r].id \in Once /\ cache[run[r].id] # "none")}

\* record.promise settles.
AgentEnds(r) ==
    /\ run[r].pc = "agent"
    /\ \E shot \in Shots(r) : Advance(r, "ending", shot)
    /\ UNCHANGED <<stores, timers, astray>> /\ NoCalls

\* finalize is done: a one-shot is unscheduled, in whatever generation this is.
Finalized(r) ==
    /\ run[r].pc \in {"ending", "retrying"} /\ Saved(r)
    /\ timers' = IF run[r].shot THEN timers \ {run[r].id} ELSE timers
    /\ Leave(r)
    /\ astray' = astray \cup (IF run[r].shot THEN Unheard(run[r].store, run[r].id) ELSE LeftOn(r))
    /\ NoCalls

\* The first finalize throws, and the second takes its place.
FinalizeThrows(r) ==
    /\ run[r].pc = "ending" /\ Throws(r)
    /\ \E shot \in Shots(r) : Advance(r, "retrying", shot)
    /\ astray' = astray \cup LeftOn(r)
    /\ UNCHANGED timers /\ NoCalls

\* Any other store call of executeJob throws; it is caught.
RunThrows(r) ==
    /\ run[r].pc \in {"marking", "retrying"} /\ Throws(r)
    /\ Leave(r)
    /\ astray' = astray \cup LeftOn(r)
    /\ UNCHANGED timers /\ NoCalls

Starting(c)  == Start(c) \/ Reads(c) \/ Binds(c)
Arming(c)    == ExpiredAsks(c) \/ Expired(c)
Calling(c)   == StoreBegins(c) \/ StoreThrows(c) \/ StoreReturns(c)
Executing(r) == \/ RunAsks(r) \/ Spawn(r) \/ FailureNoted(r) \/ AgentEnds(r)
                \/ Finalized(r) \/ FinalizeThrows(r) \/ RunThrows(r)

Next ==
    \/ Stop
    \/ \E s \in Starters : Starting(s)
    \/ \E c \in Awaiting : Arming(c)
    \/ \E c \in Callers :
          \/ Calling(c)
          \/ \E id \in Ids : \/ AddJob(c, id) \/ RemoveJob(c, id)
                             \/ \E kind \in {"enable", "disable"} : UpdateJob(c, id, kind)
    \/ \E id \in Ids : Tick(id) \/ Due(id)
    \/ \E r \in Runs : Executing(r)

Spec == Init /\ [][Next]_vars

-----------------------------------------------------------------------------
(* Properties.                                                             *)

\* Every variable has its type.
TypeOK ==
    /\ file \in Tables /\ cache \in Tables /\ saving \in Saves /\ faults \in 0 .. MaxFaults
    /\ store \in 0 .. MaxStarts /\ opened \in 0 .. MaxStarts
    /\ drawn \subseteq Ids /\ generation \in 0 .. MaxStops
    /\ timers \subseteq Ids /\ orphans \subseteq Ids /\ past \subseteq Ids
    /\ inflight \subseteq Ids /\ astray \subseteq Ids
    /\ run \in [Runs -> RunStates] /\ call \in [Awaiting -> CallStates]

\* Within a generation a job does not overlap itself: the marks are exactly the
\* jobs that runs of this generation execute, one run each, also after stop and
\* start with runs of an earlier generation still about, whose jobs may overlap
\* these.
NoOverlap ==
    LET current == {r \in Runs : run[r] # NoRun /\ run[r].gen = generation}
    IN  /\ inflight = {run[r].id : r \in current}
        /\ \A r, s \in current : run[r].id = run[s].id => r = s

\* No timer is in the tables while no session is bound, whatever start, addJob
\* or updateJob was awaiting when stop came.  Timers that another has overwritten
\* in the tables are not stopped.
StoppedIsUnarmed == ~active => timers = {}

\* Somebody is about to settle what becomes of the job: the run of a one-shot, a
\* removal, a call that has changed the job and will return, or start.
InProgress(id) ==
    \/ \E r \in Runs : id \in Once /\ run[r] # NoRun /\ run[r].id = id
    \/ \E c \in Awaiting :
          \/ call[c].pc = "asked" /\ call[c].id = id /\ (call[c].kind = "remove" \/ Saving(c))
          \/ call[c].pc = "expired" /\ id \in {call[c].id} \cup call[c].rest

\* A job that list() shows as enabled has a timer that will fire or somebody who
\* is about to arm, disable or remove it.  The only others went astray: a call
\* threw (a change whose save fails stays in the cache, and a removal has cleared
\* the timer before), a one-shot's run ended without disabling it, a read of the
\* file failed or came before another's save, or the change was made through the
\* store of an earlier start.
EnabledIsArmed ==
    \A id \in Ids : active /\ cache[id] = "on" =>
        (id \in timers \ past) \/ InProgress(id) \/ id \in astray
=============================================================================

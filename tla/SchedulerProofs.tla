--------------------------- MODULE SchedulerProofs ---------------------------
(***************************************************************************)
(* Proofs about Scheduler, for any jobs, number of runs, callers, starts,  *)
(* stops and faults: jobs do not overlap themselves, a stopped scheduler   *)
(* has no timer in its tables, and a job that list() shows as enabled is   *)
(* armed, attended to or known to have gone astray.                        *)
(***************************************************************************)
EXTENDS Scheduler, TLAPS

-----------------------------------------------------------------------------
(* The inductive invariant.                                                *)

\* Runs belong to this generation or an earlier one.
NoFutureRun == \A r \in Runs : run[r] # NoRun => run[r].gen <= generation

\* A one-shot that is executed has had its time, and a run disables no other job.
RunIsDue ==
    \A r \in Runs : run[r] # NoRun =>
        /\ run[r].id \in Once => run[r].id \in past
        /\ run[r].shot => run[r].id \in Once

Covered(id) == id \in timers \ past \/ InProgress(id) \/ id \in astray

\* The mutation under way may disable or remove the job.
Target(id) ==
    /\ saving # NoSave
    /\ \/ saving.by \in Awaiting /\ call[saving.by].id = id
       \/ saving.by \in Runs /\ run[saving.by].id = id /\ run[saving.by].shot

\* Not only the jobs of the cache but those of the file are covered: the next
\* load brings them into the cache.  Those of the file alone are astray already:
\* their time may come while list() does not show them.
Attended ==
    active => \A id \in Ids :
        /\ cache[id] = "on" \/ file[id] = "on" => Covered(id)
        /\ file[id] = "on" /\ cache[id] # "on" => id \in astray \/ Target(id)

\* fn's change is in the cache of its store.
CacheIsSaved == saving # NoSave /\ active /\ saving.store = store => cache = saving.table

\* The mutation under way belongs to a call or a run that awaits it.
SaverWaits ==
    saving # NoSave =>
        \/ /\ saving.by \in Awaiting /\ call[saving.by].pc \in {"asked", "expired"}
           /\ call[saving.by].store = saving.store
        \/ /\ saving.by \in Runs
           /\ run[saving.by].pc \in {"marking", "failing", "ending", "retrying"}
           /\ run[saving.by].store = saving.store

Enables(c) == call[c].pc = "asked" /\ call[c].kind \in {"add", "enable"}

\* A save enables the job it was asked to enable and no other.
SaveKeepsOff ==
    saving # NoSave =>
        /\ \A id \in Ids : saving.table[id] = "on" =>
              \/ file[id] = "on"
              \/ saving.by \in Awaiting /\ call[saving.by].id = id /\ Enables(saving.by)
        /\ saving.by \in Awaiting /\ ~Enables(saving.by) =>
              saving.table[call[saving.by].id] # "on"
        /\ saving.by \in Runs /\ run[saving.by].shot => saving.table[run[saving.by].id] # "on"

\* A store that is being opened is nobody's yet.
OpeningIsOwn ==
    /\ store <= opened
    /\ saving # NoSave => saving.store <= opened
    /\ \A r \in Runs : run[r] # NoRun => run[r].store <= opened
    /\ \A c \in Awaiting : call[c] # NoCall => call[c].store <= opened
    /\ \A c \in Awaiting : call[c].pc \in {"opening", "opened"} =>
          /\ call[c].store # store
          /\ saving # NoSave => saving.store # call[c].store
          /\ \A r \in Runs : run[r] # NoRun => run[r].store # call[c].store
          /\ \A d \in Awaiting \ {c} : call[d] # NoCall => call[d].store # call[c].store

\* What is known of the runs, of the stores, and of both.
Marks  == NoOverlap /\ NoFutureRun /\ RunIsDue
Stored == CacheIsSaved /\ SaverWaits /\ SaveKeepsOff /\ OpeningIsOwn

IInv == TypeOK /\ Marks /\ Stored /\ StoppedIsUnarmed /\ Attended

-----------------------------------------------------------------------------
(* Runs, calls, the save and arming.                                       *)

\* What the position of a run says about it.
LEMMA RunFields ==
    ASSUME TypeOK, NEW r \in Runs
    PROVE  /\ run[r] = NoRun <=> run[r].pc = "off"
           /\ run[r] # NoRun =>
                 /\ run[r] \in [pc : {"marking", "failing", "agent", "ending", "retrying"},
                                id : Ids, gen : 0 .. MaxStops, store : 1 .. MaxStarts,
                                shot : BOOLEAN]
                 /\ run[r].id \in Ids /\ run[r].gen \in 0 .. MaxStops
                 /\ run[r].store \in 1 .. MaxStarts /\ run[r].shot \in BOOLEAN
<1>1. run[r] \in RunStates
  BY DEF TypeOK
<1> QED
  BY <1>1 DEF RunStates, NoRun

\* What the position of a call says about it.
LEMMA CallFields ==
    ASSUME TypeOK, NEW c \in Awaiting
    PROVE  /\ call[c] = NoCall <=> call[c].pc = "idle"
           /\ call[c].pc \in {"idle", "opening", "opened", "asked", "expired"}
           /\ call[c].pc = "opened" => call[c].seen \in Tables
           /\ call[c].pc = "asked" => call[c].kind \in Kinds /\ call[c].id \in Ids
           /\ call[c].pc = "expired" => call[c].id \in Ids /\ call[c].rest \in SUBSET Ids
           /\ call[c] # NoCall => call[c].store \in 1 .. MaxStarts
<1>1. call[c] \in CallStates
  BY DEF TypeOK
<1> QED
  BY <1>1 DEF CallStates, NoCall

\* What a mutation under way is.
LEMMA SaveFields ==
    ASSUME TypeOK, saving # NoSave
    PROVE  /\ saving.by \in Runs \cup Awaiting /\ saving.store \in 1 .. MaxStarts
           /\ saving.table \in Tables
BY DEF TypeOK, Saves

\* Runs and calls are told apart.
LEMMA NotBoth == ASSUME NEW x \in Runs PROVE x \notin Awaiting
BY IdsAssumption

\* A change to one job changes no other.
LEMMA MutatedJob ==
    ASSUME NEW table \in Tables, NEW kind, NEW id \in Ids
    PROVE  /\ Mutated(table, kind, id) \in Tables
           /\ \A i \in Ids \ {id} : Mutated(table, kind, id)[i] = table[i]
           /\ kind \in {"disable", "remove"} => Mutated(table, kind, id)[id] # "on"
           /\ kind = "mark" => Mutated(table, kind, id) = table
<1> DEFINE new == CASE kind = "add"                              -> "on"
                    [] kind = "enable" /\ table[id] # "none"     -> "on"
                    [] kind = "disable" /\ table[id] # "none"    -> "off"
                    [] kind = "remove"                           -> "none"
                    [] OTHER                                     -> table[id]
<1>1. Mutated(table, kind, id) = [table EXCEPT ![id] = new]
  BY DEF Mutated, Tables
<1>2. new \in {"none", "on", "off"}
  BY DEF Tables
<1>3. kind \in {"disable", "remove"} => new # "on"
  BY DEF Tables
<1>4. kind = "mark" => new = table[id]
  OBVIOUS
<1> HIDE DEF new
<1> QED
  BY <1>1, <1>2, <1>3, <1>4 DEF Tables

\* A call about to arm ids leaves none of them unarmed and unattended, and a job
\* astray is so no more only if it is armed and in the cache.
LEMMA ArmAllEffect ==
    ASSUME TypeOK, NEW c \in Awaiting, NEW ids \in SUBSET Ids,
           NEW before \in SUBSET Ids, NEW bad \in SUBSET Ids,
           ArmAll(c, ids, before, bad), store' \in 0 .. MaxStarts
    PROVE  /\ timers' \in SUBSET Ids /\ orphans' \in SUBSET Ids /\ astray' \in SUBSET Ids
           /\ call' \in [Awaiting -> CallStates]
           /\ before \subseteq timers' /\ (~active' => timers' = before)
           /\ \A id \in astray \cup bad :
                 /\ id \in astray' \/ id \in timers' \ past
                 /\ file'[id] = "on" /\ cache'[id] # "on" => id \in astray'
           /\ active' => \A id \in ids :
                 \/ id \in timers' \ past
                 \/ call'[c].pc = "expired" /\ id \in {call'[c].id} \cup call'[c].rest
           /\ \/ call'[c] = NoCall
              \/ call'[c].pc = "expired" /\ call'[c].store = store'
           /\ \A d \in Awaiting \ {c} : call'[d] = call[d]
<1>1. CASE /\ ids \cap past = {} \/ ~active'
           /\ Arm(ids, before, bad)
           /\ call' = [call EXCEPT ![c] = NoCall]
  BY <1>1 DEF Arm, Arms, On, TypeOK, NoCall, CallStates
<1>2. ASSUME NEW p \in ids \cap past, NEW armed \in SUBSET (ids \ past),
             active', Arm(armed, before, bad),
             call' = [call EXCEPT ![c] =
                        [pc |-> "expired", store |-> store', id |-> p,
                         rest |-> ids \ (armed \cup {p})]]
      PROVE  /\ timers' \in SUBSET Ids /\ orphans' \in SUBSET Ids /\ astray' \in SUBSET Ids
             /\ call' \in [Awaiting -> CallStates]
             /\ before \subseteq timers'
             /\ \A id \in astray \cup bad :
                   /\ id \in astray' \/ id \in timers' \ past
                   /\ file'[id] = "on" /\ cache'[id] # "on" => id \in astray'
             /\ \A id \in ids :
                   \/ id \in timers' \ past
                   \/ call'[c].pc = "expired" /\ id \in {call'[c].id} \cup call'[c].rest
             /\ call'[c].pc = "expired" /\ call'[c].store = store'
             /\ \A d \in Awaiting \ {c} : call'[d] = call[d]
  <2> DEFINE new == [pc |-> "expired", store |-> store', id |-> p,
                     rest |-> ids \ (armed \cup {p})]
  <2>1. store' \in 1 .. MaxStarts
    BY <1>2, BoundAssumption DEF active
  <2>2. new \in CallStates
    BY <2>1 DEF CallStates
  <2>3. call' \in [Awaiting -> CallStates] /\ call'[c] = new
    BY <1>2, <2>2 DEF TypeOK
  <2>4. /\ timers' = before \cup armed /\ orphans' = orphans \cup (armed \cap before)
        /\ astray' = (astray \cup bad) \ (armed \ (On(file') \ On(cache')))
    BY <1>2 DEF Arm, Arms
  <2>5. astray' \in SUBSET Ids /\ \A id \in astray \cup bad :
           /\ id \in astray' \/ id \in timers' \ past
           /\ file'[id] = "on" /\ cache'[id] # "on" => id \in astray'
    BY <2>4 DEF On, TypeOK
  <2>6. \A d \in Awaiting \ {c} : call'[d] = call[d]
    BY <1>2 DEF TypeOK
  <2> QED
    BY <1>2, <2>3, <2>4, <2>5, <2>6 DEF TypeOK
<1> QED
  BY <1>1, <1>2 DEF ArmAll

\* Nothing that calls of the store and their continuations do touches the runs.
LEMMA RunsKept ==
    ASSUME Marks, UNCHANGED <<generation, past, inflight, run>>
    PROVE  Marks'
BY DEF Marks, NoOverlap, NoFutureRun, RunIsDue

LEMMA InitIInv == Init => IInv
<1> SUFFICES ASSUME Init PROVE IInv
  OBVIOUS
<1>1. TypeOK
  <2>1. file \in Tables /\ cache \in Tables /\ drawn \subseteq Ids
    BY DEF Init, Tables, Empty, On
  <2>2. /\ saving \in Saves /\ faults \in 0 .. MaxFaults /\ generation \in 0 .. MaxStops
        /\ store \in 0 .. MaxStarts /\ opened \in 0 .. MaxStarts
    BY BoundAssumption DEF Init, Saves
  <2>3. run \in [Runs -> RunStates] /\ call \in [Awaiting -> CallStates]
    BY DEF Init, RunStates, CallStates
  <2>4. past \subseteq Ids /\ timers = {} /\ orphans = {} /\ inflight = {} /\ astray = {}
    BY IdsAssumption DEF Init
  <2> QED
    BY <2>1, <2>2, <2>3, <2>4 DEF TypeOK
<1>2. Marks /\ StoppedIsUnarmed /\ Attended
  BY DEF Init, Marks, NoOverlap, NoFutureRun, RunIsDue, StoppedIsUnarmed, Attended, active
<1>3. Stored
  BY BoundAssumption DEF Init, Stored, CacheIsSaved, SaverWaits, SaveKeepsOff, OpeningIsOwn,
     NoCall, NoRun, active
<1> QED
  BY <1>1, <1>2, <1>3 DEF IInv

-----------------------------------------------------------------------------
(* Mutations.                                                              *)

\* What a mutation asked for by x changes, for whatever x awaits.
LEMMA MutatesKeeps ==
    ASSUME IInv, NEW x \in Runs \cup Awaiting, NEW s \in 1 .. MaxStarts, NEW kind,
           NEW id \in Ids, Mutates(x, s, kind, id),
           \/ /\ x \in Awaiting /\ call[x].pc \in {"asked", "expired"}
              /\ call[x].store = s /\ call[x].id = id
              /\ Enables(x) \/ kind \in {"disable", "remove"}
           \/ /\ x \in Runs /\ run[x].pc \in {"marking", "failing", "ending", "retrying"}
              /\ run[x].store = s /\ run[x].id = id
              /\ kind = IF run[x].shot THEN "disable" ELSE "mark",
           UNCHANGED <<store, opened, drawn, generation, past, inflight, run, timers, orphans, call>>
    PROVE  IInv'
<1>1. PICK seen \in {file, Empty} :
          /\ Reading(seen)
          /\ saving' = [pc |-> "save", by |-> x, store |-> s, table |-> Mutated(seen, kind, id)]
          /\ cache' = IF s = store THEN Mutated(seen, kind, id) ELSE cache
          /\ astray' = astray \cup (IF s = store THEN On(file) \ On(seen) ELSE {})
  BY DEF Mutates
<1>2. saving = NoSave /\ file' = file
  BY DEF Mutates
<1> DEFINE table == Mutated(seen, kind, id)
<1>3. TypeOK /\ seen \in Tables /\ file \in Tables /\ cache \in Tables
  BY DEF IInv, TypeOK, Tables, Empty
<1>4. /\ table \in Tables
      /\ \A i \in Ids \ {id} : table[i] = seen[i]
      /\ kind \in {"disable", "remove"} => table[id] # "on"
      /\ kind = "mark" => table = seen
  BY <1>3, MutatedJob
<1> HIDE DEF table
<1>5. /\ saving' = [pc |-> "save", by |-> x, store |-> s, table |-> table]
      /\ cache' = IF s = store THEN table ELSE cache
  BY <1>1 DEF table
<1>6. /\ saving' # NoSave /\ saving'.by = x /\ saving'.store = s /\ saving'.table = table
      /\ saving' \in Saves
  BY <1>4, <1>5 DEF NoSave, Saves
<1>7. \A i \in Ids : seen[i] = "on" => file[i] = "on"
  BY <1>3 DEF Empty
<1>8. x \in Awaiting => x \notin Runs
  BY NotBoth
<1>9. x \in Awaiting \/ kind \in {"disable", "mark"}
  OBVIOUS
<1>10. TypeOK'
  <2>1. faults' \in 0 .. MaxFaults
    BY <1>1, <1>3, BoundAssumption DEF Reading, Fault, TypeOK
  <2>2. astray' \subseteq Ids
    BY <1>1, <1>3 DEF On, TypeOK
  <2> QED
    BY <1>2, <1>3, <1>4, <1>5, <1>6, <2>1, <2>2 DEF TypeOK
<1>11. Marks' /\ StoppedIsUnarmed'
  BY RunsKept DEF IInv, StoppedIsUnarmed, active
<1>12. Stored'
  <2>1. CacheIsSaved' /\ SaverWaits'
    BY <1>5, <1>6 DEF CacheIsSaved, SaverWaits
  <2>2. SaveKeepsOff'
    <3>1. ASSUME NEW i \in Ids, table[i] = "on"
          PROVE  file[i] = "on" \/ (x \in Awaiting /\ call[x].id = i /\ Enables(x))
      <4>1. CASE i # id
        BY <1>4, <1>7, <3>1, <4>1
      <4>2. CASE i = id
        BY <1>4, <1>7, <3>1, <4>2
      <4> QED
        BY <4>1, <4>2
    <3>2. x \in Awaiting /\ ~Enables(x) => table[call[x].id] # "on"
      BY <1>4, <1>8
    <3>3. x \in Runs /\ run[x].shot => table[run[x].id] # "on"
      BY <1>4, <1>8
    <3> QED
      BY <1>2, <1>6, <3>1, <3>2, <3>3 DEF SaveKeepsOff, Enables
  <2>3. OpeningIsOwn'
    <3>1. s <= opened
      BY <1>3, <1>8, CallFields, RunFields DEF IInv, Stored, OpeningIsOwn, NoRun, NoCall
    <3>2. \A c \in Awaiting : call[c].pc \in {"opening", "opened"} => s # call[c].store
      BY <1>3, <1>8, CallFields, RunFields DEF IInv, Stored, OpeningIsOwn, NoRun, NoCall
    <3> QED
      BY <1>6, <3>1, <3>2 DEF IInv, Stored, OpeningIsOwn
  <2> QED
    BY <2>1, <2>2, <2>3 DEF Stored
<1>13. Attended'
  <2> SUFFICES ASSUME active, NEW i \in Ids
               PROVE  /\ cache'[i] = "on" \/ file[i] = "on" => Covered(i)'
                      /\ file[i] = "on" /\ cache'[i] # "on" => i \in astray' \/ Target(i)'
    BY <1>2 DEF Attended, active
  <2>1. /\ cache[i] = "on" \/ file[i] = "on" => Covered(i)
        /\ file[i] = "on" /\ cache[i] # "on" => i \in astray
    BY <1>2 DEF IInv, Attended, Target
  <2>2. Covered(i) => Covered(i)'
    BY <1>1, <1>2 DEF Covered, InProgress, Saving
  <2>3. Target(id)' \/ kind = "mark"
    BY <1>6, <1>8 DEF Target
  <2>4. CASE s # store
    BY <1>1, <1>5, <2>1, <2>2, <2>4
  <2>5. CASE s = store /\ (i # id \/ kind = "mark")
    <3>1. cache'[i] = seen[i]
      BY <1>4, <1>5, <2>5
    <3>2. seen[i] # "on" /\ file[i] = "on" => i \in astray'
      BY <1>1, <2>5 DEF On
    <3> QED
      BY <1>7, <2>1, <2>2, <3>1, <3>2
  <2>6. CASE s = store /\ i = id /\ kind # "mark"
    <3>1. cache'[id] = table[id]
      BY <1>5, <2>6
    <3>2. cache'[id] = "on" => x \in Awaiting /\ Enables(x)
      BY <1>4, <1>8, <2>6, <3>1
    <3>3. x \in Awaiting /\ Enables(x) => Covered(id)'
      BY <1>6, <1>8 DEF Covered, InProgress, Saving, Enables
    <3> QED
      BY <2>1, <2>2, <2>3, <2>6, <3>1, <3>2, <3>3
  <2> QED
    BY <2>4, <2>5, <2>6
<1> QED
  BY <1>10, <1>11, <1>12, <1>13 DEF IInv

LEMMA BeginsStep ==
    ASSUME IInv, NEW c \in Awaiting, StoreBegins(c) \/ ExpiredAsks(c)
    PROVE  IInv'
<1>1. call[c].pc \in {"asked", "expired"} /\ call[c] # NoCall
  BY DEF StoreBegins, ExpiredAsks, NoCall
<1>2. /\ call[c].id \in Ids /\ call[c].store \in 1 .. MaxStarts
      /\ call[c].pc = "asked" => call[c].kind \in Kinds
  BY <1>1, CallFields DEF IInv
<1>3. CASE StoreBegins(c)
  <2>1. Enables(c) \/ call[c].kind \in {"disable", "remove"}
    BY <1>2, <1>3 DEF StoreBegins, Enables, Kinds
  <2>2. Mutates(c, call[c].store, call[c].kind, call[c].id)
    BY <1>3 DEF StoreBegins
  <2> QED
    BY <1>1, <1>2, <1>3, <2>1, <2>2, MutatesKeeps DEF StoreBegins, clock
<1>4. CASE ExpiredAsks(c)
  <2>1. Mutates(c, call[c].store, "disable", call[c].id)
    BY <1>4 DEF ExpiredAsks
  <2> QED
    BY <1>1, <1>2, <1>4, <2>1, MutatesKeeps DEF ExpiredAsks, clock
<1> QED
  BY <1>3, <1>4

LEMMA RunAsksStep ==
    ASSUME IInv, NEW r \in Runs, RunAsks(r)
    PROVE  IInv'
<1> DEFINE kind == IF run[r].shot THEN "disable" ELSE "mark"
<1>1. /\ run[r].pc \in {"marking", "failing", "ending", "retrying"} /\ run[r] # NoRun
      /\ Mutates(r, run[r].store, kind, run[r].id)
  BY DEF RunAsks, NoRun
<1>2. run[r].id \in Ids /\ run[r].store \in 1 .. MaxStarts
  BY <1>1, RunFields DEF IInv
<1> QED
  BY <1>1, <1>2, MutatesKeeps DEF RunAsks, NoCalls

-----------------------------------------------------------------------------
(* The end of a mutation, and the calls.                                   *)

\* A save enables only what its call was to enable, and brings to the file only
\* what the cache shows, what is astray and the job that it is about.
LEMMA SaveOver ==
    ASSUME IInv, NEW x \in Runs \cup Awaiting, Saved(x) \/ Throws(x)
    PROVE  /\ file' \in Tables /\ cache' = cache /\ faults' \in 0 .. MaxFaults
           /\ \/ Saving(x) /\ saving' = NoSave
              \/ ~Saving(x) /\ saving' = saving /\ file' = file
           /\ \A id \in Ids : file'[id] = "on" =>
                 \/ file[id] = "on"
                 \/ Saving(x) /\ x \in Awaiting /\ call[x].id = id /\ Enables(x)
           /\ active => \A id \in Ids : file'[id] = "on" /\ cache[id] # "on" =>
                 id \in astray \/ Target(id)
<1>1. /\ cache' = cache
      /\ \/ Saving(x) /\ saving' = NoSave /\ file' \in {file, saving.table}
         \/ ~Saving(x) /\ saving' = saving /\ file' = file
  BY DEF Saved, Throws
<1>2. faults' \in 0 .. MaxFaults
  BY BoundAssumption DEF Saved, Throws, Fault, IInv, TypeOK
<1>3. CASE file' = file
  BY <1>1, <1>2, <1>3 DEF IInv, TypeOK, Attended
<1>4. CASE Saving(x) /\ saving' = NoSave /\ file' = saving.table
  <2>1. saving # NoSave /\ saving.by = x /\ saving.table \in Tables
    BY <1>4, SaveFields DEF Saving, IInv
  <2>2. \A id \in Ids : file'[id] = "on" =>
           \/ file[id] = "on"
           \/ x \in Awaiting /\ call[x].id = id /\ Enables(x)
    BY <1>4, <2>1 DEF IInv, Stored, SaveKeepsOff
  <2>3. ASSUME active, NEW id \in Ids, file'[id] = "on", cache[id] # "on"
        PROVE  id \in astray \/ Target(id)
    <3>1. file[id] = "on" => id \in astray \/ Target(id)
      BY <2>3 DEF IInv, Attended
    <3>2. file[id] # "on" => Target(id)
      BY <2>1, <2>2, <2>3 DEF Target
    <3> QED
      BY <3>1, <3>2
  <2> QED
    BY <1>1, <1>2, <1>4, <2>1, <2>2, <2>3
<1> QED
  BY <1>1, <1>3, <1>4

\* What a save leaves in the file; the cache of its store shows the same.
LEMMA SavedFile ==
    ASSUME IInv, NEW x \in Runs \cup Awaiting, Saved(x)
    PROVE  /\ file' = saving.table
           /\ active /\ saving.store = store => file' = cache
           /\ x \in Awaiting => /\ saving.store = call[x].store
                                /\ ~Enables(x) => file'[call[x].id] # "on"
           /\ x \in Runs => /\ saving.store = run[x].store
                            /\ run[x].shot => file'[run[x].id] # "on"
<1>1. saving # NoSave /\ saving.by = x /\ file' = saving.table
  BY DEF Saved, Saving
<1> QED
  BY <1>1, NotBoth DEF IInv, Stored, CacheIsSaved, SaverWaits, SaveKeepsOff

\* A call that ends, or goes on to arm more jobs, leaves the rest as it is.
LEMMA StoredKept ==
    ASSUME IInv, NEW c \in Awaiting,
           saving' = NoSave \/ (saving' = saving /\ file' = file /\ ~Saving(c)),
           UNCHANGED <<cache, store, opened, run>>,
           call'[c] = NoCall \/ (call'[c].pc = "expired" /\ call'[c].store = store),
           \A d \in Awaiting \ {c} : call'[d] = call[d]
    PROVE  Stored'
<1>1. saving' # NoSave =>
          /\ saving' = saving /\ file' = file
          /\ saving.by # c
  BY DEF Saving
<1>2. CacheIsSaved' /\ SaverWaits'
  BY <1>1 DEF IInv, Stored, CacheIsSaved, SaverWaits, active
<1>3. SaveKeepsOff'
  <2>1. SUFFICES ASSUME saving' # NoSave
                 PROVE  SaveKeepsOff'
    BY DEF SaveKeepsOff
  <2>2. saving.by \in Awaiting => call'[saving.by] = call[saving.by]
    BY <1>1, <2>1
  <2>3. SaveKeepsOff /\ saving # NoSave
    BY <1>1, <2>1 DEF IInv, Stored
  <2> QED
    BY <1>1, <2>1, <2>2, <2>3 DEF SaveKeepsOff, Enables
<1>4. OpeningIsOwn'
  BY <1>1 DEF IInv, Stored, OpeningIsOwn, NoCall
<1> QED
  BY <1>2, <1>3, <1>4 DEF Stored

\* A call that has awaited the store must account for its job, if it has cleared
\* the timer or was to settle what becomes of the job, and for what start had
\* left.
LEMMA CallGoesOn ==
    ASSUME IInv, NEW c \in Awaiting, call[c].pc \in {"asked", "expired"},
           NEW ids \in SUBSET Ids, NEW before \in SUBSET timers, NEW bad \in SUBSET Ids,
           ArmAll(c, ids, before, bad), Saved(c) \/ Throws(c),
           UNCHANGED <<store, opened, drawn, generation, past, inflight, run>>,
           timers \ before \subseteq {call[c].id},
           call[c].pc = "expired" => call[c].rest \subseteq ids,
           /\ active
           /\ file'[call[c].id] = "on" \/ cache[call[c].id] = "on"
           /\ \/ call[c].id \in timers \ before
              \/ Saving(c) \/ call[c].pc = "expired" \/ call[c].kind = "remove"
           => call[c].id \in ids \cup bad,
           /\ active /\ Saving(c)
           /\ file'[call[c].id] = "on" /\ cache[call[c].id] # "on"
           => call[c].id \in bad
    PROVE  IInv'
<1>1. /\ TypeOK /\ before \in SUBSET Ids /\ store' \in 0 .. MaxStarts
  BY DEF IInv, TypeOK
<1>2. /\ timers' \in SUBSET Ids /\ orphans' \in SUBSET Ids /\ astray' \in SUBSET Ids
      /\ call' \in [Awaiting -> CallStates]
      /\ before \subseteq timers' /\ (~active' => timers' = before)
      /\ \A id \in astray \cup bad :
            /\ id \in astray' \/ id \in timers' \ past
            /\ file'[id] = "on" /\ cache'[id] # "on" => id \in astray'
      /\ active' => \A id \in ids :
            \/ id \in timers' \ past
            \/ call'[c].pc = "expired" /\ id \in {call'[c].id} \cup call'[c].rest
      /\ \/ call'[c] = NoCall
         \/ call'[c].pc = "expired" /\ call'[c].store = store'
      /\ \A d \in Awaiting \ {c} : call'[d] = call[d]
  BY <1>1, ArmAllEffect
<1>3. /\ file' \in Tables /\ cache' = cache /\ faults' \in 0 .. MaxFaults
      /\ \/ Saving(c) /\ saving' = NoSave
         \/ ~Saving(c) /\ saving' = saving /\ file' = file
      /\ \A id \in Ids : file'[id] = "on" =>
            \/ file[id] = "on"
            \/ Saving(c) /\ c \in Awaiting /\ call[c].id = id /\ Enables(c)
      /\ active => \A id \in Ids : file'[id] = "on" /\ cache[id] # "on" =>
            id \in astray \/ Target(id)
  BY SaveOver
<1>4. saving' \in Saves
  BY <1>1, <1>3 DEF TypeOK, Saves
<1>5. TypeOK'
  BY <1>1, <1>2, <1>3, <1>4 DEF TypeOK
<1>6. Marks'
  BY RunsKept DEF IInv
<1>7. StoppedIsUnarmed'
  BY <1>2 DEF IInv, StoppedIsUnarmed, active
<1>8. Stored'
  BY <1>2, <1>3, StoredKept
<1>9. Attended'
  <2> SUFFICES ASSUME active, NEW id \in Ids
               PROVE  /\ cache[id] = "on" \/ file'[id] = "on" => Covered(id)'
                      /\ file'[id] = "on" /\ cache[id] # "on" => id \in astray' \/ Target(id)'
    BY <1>3 DEF Attended, active
  <2>1. active'
    BY DEF active
  <2>2. \A d \in Awaiting \ {c} : Saving(d) => Saving(d)'
    BY <1>3 DEF Saving
  <2>3. id \in ids \cup bad => Covered(id)'
    BY <1>2, <2>1 DEF Covered, InProgress
  <2>4. ASSUME Covered(id), id \notin ids \cup bad,
               \/ id # call[c].id
               \/ ~ \/ call[c].id \in timers \ before
                    \/ Saving(c) \/ call[c].pc = "expired" \/ call[c].kind = "remove"
        PROVE  Covered(id)'
    <3>1. CASE id \in timers \ past
      BY <1>2, <2>4, <3>1 DEF Covered
    <3>2. CASE InProgress(id)
      <4>1. CASE \E r \in Runs : id \in Once /\ run[r] # NoRun /\ run[r].id = id
        BY <4>1 DEF Covered, InProgress
      <4>2. ASSUME NEW d \in Awaiting,
                   \/ call[d].pc = "asked" /\ call[d].id = id /\ (call[d].kind = "remove" \/ Saving(d))
                   \/ call[d].pc = "expired" /\ id \in {call[d].id} \cup call[d].rest
            PROVE  Covered(id)'
        <5>1. d # c
          BY <2>4, <4>2
        <5>2. call'[d] = call[d]
          BY <1>2, <5>1
        <5> QED
          BY <2>2, <4>2, <5>1, <5>2 DEF Covered, InProgress
      <4> QED
        BY <3>2, <4>1, <4>2 DEF InProgress
    <3>3. CASE id \in astray
      BY <1>2, <3>3 DEF Covered
    <3> QED
      BY <2>4, <3>1, <3>2, <3>3 DEF Covered
  <2>5. ASSUME cache[id] = "on" \/ file'[id] = "on"
        PROVE  Covered(id)'
    <3>1. CASE cache[id] = "on" \/ file[id] = "on"
      <4>1. Covered(id)
        BY <3>1 DEF IInv, Attended
      <4> QED
        BY <2>3, <2>4, <2>5, <4>1
    <3>2. CASE ~(cache[id] = "on" \/ file[id] = "on")
      BY <1>3, <2>3, <2>5, <3>2
    <3> QED
      BY <3>1, <3>2
  <2>6. ASSUME file'[id] = "on", cache[id] # "on"
        PROVE  id \in astray' \/ Target(id)'
    <3>1. id \in astray \/ Target(id)
      BY <1>3, <2>6
    <3>2. CASE id \in astray
      BY <1>2, <1>3, <2>6, <3>2
    <3>3. CASE Target(id) /\ Saving(c)
      <4>1. id = call[c].id
        BY <3>3, NotBoth DEF Target, Saving
      <4> QED
        BY <1>2, <1>3, <2>6, <3>3, <4>1
    <3>4. CASE Target(id) /\ ~Saving(c)
      BY <1>2, <1>3, <3>4 DEF Target, Saving
    <3> QED
      BY <3>1, <3>2, <3>3, <3>4
  <2> QED
    BY <2>5, <2>6
<1> QED
  BY <1>5, <1>6, <1>7, <1>8, <1>9 DEF IInv

LEMMA ExpiredStep ==
    ASSUME IInv, NEW c \in Awaiting, Expired(c)
    PROVE  IInv'
<1>1. /\ call[c].pc = "expired" /\ call[c].id \in Ids /\ call[c].rest \in SUBSET Ids
      /\ UNCHANGED <<store, opened, drawn, generation, past, inflight, run>>
      /\ timers \in SUBSET timers /\ {call[c].id} \in SUBSET Ids
  BY CallFields DEF IInv, Expired, clock
<1>2. CASE /\ Saved(c)
           /\ ArmAll(c, call[c].rest, timers, Unheard(call[c].store, call[c].id))
  <2>1. /\ file'[call[c].id] # "on"
        /\ active /\ call[c].store = store => file' = cache
    BY <1>1, <1>2, SavedFile DEF Enables
  <2>2. Unheard(call[c].store, call[c].id) \in SUBSET Ids
    BY <1>1 DEF Unheard
  <2>3. active /\ call[c].store # store => call[c].id \in Unheard(call[c].store, call[c].id)
    BY DEF Unheard
  <2> QED
    BY <1>1, <1>2, <2>1, <2>2, <2>3, CallGoesOn
<1>3. CASE Throws(c) /\ ArmAll(c, call[c].rest, timers, {call[c].id})
  BY <1>1, <1>3, CallGoesOn
<1> QED
  BY <1>2, <1>3 DEF Expired

LEMMA StoreReturnsStep ==
    ASSUME IInv, NEW c \in Awaiting, StoreReturns(c)
    PROVE  IInv'
<1> DEFINE id == call[c].id
           ids == Scheduled(c)
           left == timers \ Unscheduled(c)
           bad == Unheard(call[c].store, call[c].id)
<1>1. /\ call[c].pc = "asked" /\ id \in Ids /\ call[c].kind \in Kinds
      /\ UNCHANGED <<store, opened, drawn, generation, past, inflight, run>>
      /\ Saved(c) /\ ArmAll(c, ids, left, bad)
  BY CallFields DEF IInv, StoreReturns, clock
<1>2. /\ ids \in SUBSET Ids /\ left \in SUBSET timers /\ bad \in SUBSET Ids
      /\ timers \ left \subseteq {id}
  BY <1>1 DEF Scheduled, Unscheduled, Unheard
<1>3. /\ file' = saving.table
      /\ active /\ call[c].store = store => file' = cache
      /\ ~Enables(c) => file'[id] # "on"
  BY <1>1, SavedFile
<1>4. active /\ call[c].store # store => id \in bad
  BY DEF Unheard
<1>5. file'[id] = "on" => id \in ids
  BY <1>1, <1>3 DEF Enables, Scheduled
<1> HIDE DEF ids, left, bad
<1> QED
  BY <1>1, <1>2, <1>3, <1>4, <1>5, CallGoesOn

LEMMA RefusedStep ==
    ASSUME IInv, NEW c \in Awaiting, call[c].pc = "asked", Refused(c), astray' = astray,
           call' = [call EXCEPT ![c] = NoCall],
           UNCHANGED <<store, opened, drawn, clock, timers, orphans>>
    PROVE  IInv'
<1>1. /\ saving = NoSave /\ call[c].kind # "remove" /\ file' = file /\ saving' = saving
      /\ cache' = IF call[c].store = store THEN file ELSE cache
      /\ faults' \in 0 .. MaxFaults
  BY BoundAssumption DEF Refused, Fault, IInv, TypeOK
<1>2. /\ call' \in [Awaiting -> CallStates] /\ call'[c] = NoCall
      /\ \A d \in Awaiting \ {c} : call'[d] = call[d]
  BY DEF IInv, TypeOK, CallStates
<1>3. TypeOK'
  BY <1>1, <1>2 DEF IInv, TypeOK, clock
<1>4. Marks' /\ StoppedIsUnarmed'
  BY RunsKept DEF IInv, StoppedIsUnarmed, active, clock
<1>5. Stored'
  BY <1>1, <1>2 DEF IInv, Stored, CacheIsSaved, SaverWaits, SaveKeepsOff, OpeningIsOwn, NoCall, clock
<1>6. Attended'
  <2> SUFFICES ASSUME active, NEW id \in Ids
               PROVE  /\ cache'[id] = "on" \/ file[id] = "on" => Covered(id)'
                      /\ file[id] = "on" /\ cache'[id] # "on" => id \in astray
    BY <1>1 DEF Attended, active
  <2>1. /\ cache[id] = "on" \/ file[id] = "on" => Covered(id)
        /\ file[id] = "on" /\ cache[id] # "on" => id \in astray
    BY <1>1 DEF IInv, Attended, Target
  <2>2. Covered(id) => Covered(id)'
    <3>1. InProgress(id) => InProgress(id)'
      BY <1>1, <1>2 DEF InProgress, Saving, clock
    <3> QED
      BY <3>1 DEF Covered, clock
  <2> QED
    BY <1>1, <2>1, <2>2
<1> QED
  BY <1>3, <1>4, <1>5, <1>6 DEF IInv

LEMMA StoreThrowsStep ==
    ASSUME IInv, NEW c \in Awaiting, StoreThrows(c)
    PROVE  IInv'
<1> DEFINE bad == IF call[c].kind = "remove" \/ Saving(c) THEN {call[c].id} ELSE {}
<1>1. /\ call[c].pc = "asked" /\ call[c].id \in Ids
      /\ call' = [call EXCEPT ![c] = NoCall]
      /\ astray' = astray \cup bad
      /\ UNCHANGED <<store, opened, drawn, clock, timers, orphans>>
  BY CallFields DEF IInv, StoreThrows
<1>2. CASE Refused(c)
  <2>1. bad = {}
    BY <1>2 DEF Refused, Saving
  <2> QED
    BY <1>1, <1>2, <2>1, RefusedStep
<1>3. CASE Throws(c)
  <2>1. /\ bad \in SUBSET Ids /\ {} \in SUBSET Ids /\ timers \in SUBSET timers
        /\ call[c].kind = "remove" \/ Saving(c) => call[c].id \in bad
    BY <1>1
  <2> HIDE DEF bad
  <2>2. ArmAll(c, {}, timers, bad)
    BY <1>1 DEF ArmAll, Arm, Arms
  <2> QED
    BY <1>1, <1>3, <2>1, <2>2, CallGoesOn DEF clock
<1> QED
  BY <1>2, <1>3 DEF StoreThrows

-----------------------------------------------------------------------------
(* start, stop, and what the callers ask for.                              *)

\* A caller that takes up a store or a request disturbs no other.
LEMMA CallTaken ==
    ASSUME IInv, NEW c \in Awaiting, NEW new \in CallStates, new # NoCall,
           call[c].pc \in {"idle", "opening"},
           call' = [call EXCEPT ![c] = new],
           \/ new.pc = "asked" /\ active /\ new.store = store /\ opened' = opened
           \/ new.pc = "opening" /\ opened' = opened + 1 /\ new.store = opened'
           \/ new.pc = "opened" /\ call[c].pc = "opening" /\ new.store = call[c].store /\ opened' = opened,
           opened' \in 0 .. MaxStarts, faults' \in 0 .. MaxFaults, drawn' \subseteq Ids,
           UNCHANGED <<file, cache, saving, store, generation, past, inflight, run, orphans, astray>>,
           timers' \in SUBSET timers,
           \A id \in timers \ timers' : new.pc = "asked" /\ new.kind = "remove" /\ new.id = id
    PROVE  IInv'
<1>1. /\ TypeOK /\ call' \in [Awaiting -> CallStates] /\ call'[c] = new
      /\ \A d \in Awaiting \ {c} : call'[d] = call[d]
  BY DEF IInv, TypeOK
<1>2. TypeOK'
  BY <1>1 DEF TypeOK
<1>3. Marks' /\ StoppedIsUnarmed'
  BY RunsKept DEF IInv, StoppedIsUnarmed, active
<1>4. saving # NoSave => saving.by # c
  BY NotBoth DEF IInv, Stored, SaverWaits
<1>5. Stored'
  <2>1. CacheIsSaved' /\ SaverWaits' /\ SaveKeepsOff'
    <3>1. saving # NoSave /\ saving.by \in Awaiting => call'[saving.by] = call[saving.by]
      BY <1>1, <1>4
    <3> QED
      BY <3>1 DEF IInv, Stored, CacheIsSaved, SaverWaits, SaveKeepsOff, Enables, active
  <2>2. OpeningIsOwn'
    <3>1. opened \in Nat /\ store \in Nat
      BY <1>1, BoundAssumption DEF TypeOK
    <3>2. /\ saving # NoSave => saving.store \in Nat
          /\ \A r \in Runs : run[r] # NoRun => run[r].store \in Nat
          /\ \A d \in Awaiting : call[d] # NoCall => call[d].store \in Nat
      BY <1>1, SaveFields, RunFields, CallFields, BoundAssumption
    <3>3. OpeningIsOwn
      BY DEF IInv, Stored
    <3>4. CASE new.pc = "asked"
      BY <1>1, <3>1, <3>2, <3>3, <3>4 DEF OpeningIsOwn, NoCall
    <3>5. CASE new.pc = "opening"
      BY <1>1, <3>1, <3>2, <3>3, <3>5 DEF OpeningIsOwn, NoCall
    <3>6. CASE new.pc = "opened"
      BY <1>1, <3>1, <3>2, <3>3, <3>6 DEF OpeningIsOwn, NoCall
    <3> QED
      BY <3>4, <3>5, <3>6
  <2> QED
    BY <2>1, <2>2 DEF Stored
<1>6. Attended'
  <2> SUFFICES ASSUME active, NEW id \in Ids
               PROVE  /\ cache[id] = "on" \/ file[id] = "on" => Covered(id)'
                      /\ file[id] = "on" /\ cache[id] # "on" => id \in astray \/ Target(id)'
    BY DEF Attended, active
  <2>1. InProgress(id) => InProgress(id)'
    BY <1>1 DEF InProgress, Saving
  <2>2. id \in timers => id \in timers' \/ InProgress(id)'
    BY <1>1 DEF InProgress
  <2>3. Target(id) => Target(id)'
    BY <1>1, <1>4 DEF Target
  <2> QED
    BY <2>1, <2>2, <2>3 DEF IInv, Attended, Covered
<1> QED
  BY <1>2, <1>3, <1>5, <1>6 DEF IInv

LEMMA StartStep ==
    ASSUME IInv, NEW c \in Awaiting, Start(c)
    PROVE  IInv'
<1> DEFINE new == [pc |-> "opening", store |-> opened + 1]
<1>1. opened' = opened + 1 /\ opened + 1 \in 1 .. MaxStarts
  BY BoundAssumption DEF Start, IInv, TypeOK
<1>2. /\ new \in CallStates /\ new # NoCall /\ new.pc = "opening" /\ new.store = opened'
  BY <1>1 DEF CallStates, NoCall
<1>3. call[c].pc = "idle" /\ call' = [call EXCEPT ![c] = new]
  BY <1>1 DEF Start, NoCall
<1>4. faults' \in 0 .. MaxFaults /\ drawn' \subseteq Ids /\ opened' \in 0 .. MaxStarts
  BY <1>1, BoundAssumption DEF Start, stores, IInv, TypeOK
<1> HIDE DEF new
<1> QED
  BY <1>1, <1>2, <1>3, <1>4, CallTaken DEF Start, stores, clock

LEMMA ReadsStep ==
    ASSUME IInv, NEW c \in Awaiting, Reads(c)
    PROVE  IInv'
<1>1. PICK seen \in {file, Empty} :
          /\ Reading(seen)
          /\ call' = [call EXCEPT ![c] = [pc |-> "opened", store |-> @.store, seen |-> seen]]
  BY DEF Reads
<1> DEFINE new == [pc |-> "opened", store |-> call[c].store, seen |-> seen]
<1>2. call[c].pc = "opening" /\ call[c].store \in 1 .. MaxStarts
  BY CallFields DEF Reads, NoCall, IInv
<1>3. seen \in Tables /\ faults' \in 0 .. MaxFaults
  BY <1>1, BoundAssumption DEF Reading, Fault, IInv, TypeOK, Tables, Empty
<1>4. /\ new \in CallStates /\ new # NoCall /\ new.pc = "opened" /\ new.store = call[c].store
  BY <1>2, <1>3 DEF CallStates, NoCall
<1>5. call' = [call EXCEPT ![c] = new]
  BY <1>1
<1>6. drawn' \subseteq Ids /\ opened' \in 0 .. MaxStarts
  BY DEF Reads, IInv, TypeOK
<1> HIDE DEF new
<1> QED
  BY <1>2, <1>3, <1>4, <1>5, <1>6, CallTaken DEF Reads, clock

LEMMA AskStep ==
    ASSUME IInv, NEW c \in Awaiting, NEW id \in Ids,
           \/ AddJob(c, id) \/ RemoveJob(c, id)
           \/ \E kind \in {"enable", "disable"} : UpdateJob(c, id, kind)
    PROVE  IInv'
<1>1. PICK kind \in Kinds :
          /\ Asks(c, kind, id) /\ drawn' \subseteq Ids
          /\ timers' = IF kind = "remove" THEN timers \ {id} ELSE timers
  BY DEF AddJob, RemoveJob, UpdateJob, Kinds, IInv, TypeOK
<1> DEFINE new == [pc |-> "asked", store |-> store, kind |-> kind, id |-> id]
<1>2. active /\ store \in 1 .. MaxStarts
  BY <1>1, BoundAssumption DEF Asks, active, IInv, TypeOK
<1>3. /\ new \in CallStates /\ new # NoCall /\ new.pc = "asked" /\ new.store = store
      /\ new.kind = kind /\ new.id = id
  BY <1>2 DEF CallStates, NoCall
<1>4. call[c].pc = "idle" /\ call' = [call EXCEPT ![c] = new]
  BY <1>1 DEF Asks, NoCall
<1>5. /\ UNCHANGED <<file, cache, saving, store, opened, generation, past, inflight, run, orphans, astray>>
      /\ faults' \in 0 .. MaxFaults /\ opened' \in 0 .. MaxStarts
  BY <1>1 DEF Asks, stores, clock, IInv, TypeOK
<1> HIDE DEF new
<1> QED
  BY <1>1, <1>2, <1>3, <1>4, <1>5, CallTaken

LEMMA BindsStep ==
    ASSUME IInv, NEW c \in Awaiting, Binds(c)
    PROVE  IInv'
<1> DEFINE seen == call[c].seen
           ids == On(call[c].seen)
           bad == On(file) \ On(call[c].seen)
<1>1. /\ call[c].pc = "opened" /\ call[c] # NoCall
      /\ store' = call[c].store /\ cache' = seen
      /\ UNCHANGED <<file, saving, faults, opened, drawn, generation, past, inflight, run>>
      /\ ArmAll(c, ids, timers, bad)
  BY DEF Binds, clock, NoCall
<1>2. /\ TypeOK /\ call[c].store \in 1 .. MaxStarts /\ seen \in Tables
      /\ ids \in SUBSET Ids /\ bad \in SUBSET Ids /\ timers \in SUBSET Ids
  BY <1>1, CallFields DEF IInv, TypeOK, On
<1>3. active' /\ store' \in 0 .. MaxStarts
  BY <1>1, <1>2, BoundAssumption DEF active
<1>4. /\ timers' \in SUBSET Ids /\ orphans' \in SUBSET Ids /\ astray' \in SUBSET Ids
      /\ call' \in [Awaiting -> CallStates]
      /\ timers \subseteq timers'
      /\ \A id \in astray \cup bad :
            /\ id \in astray' \/ id \in timers' \ past
            /\ file'[id] = "on" /\ cache'[id] # "on" => id \in astray'
      /\ \A id \in ids :
            \/ id \in timers' \ past
            \/ call'[c].pc = "expired" /\ id \in {call'[c].id} \cup call'[c].rest
      /\ \/ call'[c] = NoCall
         \/ call'[c].pc = "expired" /\ call'[c].store = store'
      /\ \A d \in Awaiting \ {c} : call'[d] = call[d]
  <2> HIDE DEF seen, ids, bad
  <2> QED
    BY <1>1, <1>2, <1>3, ArmAllEffect
<1>5. TypeOK' /\ StoppedIsUnarmed'
  BY <1>1, <1>2, <1>3, <1>4 DEF TypeOK, StoppedIsUnarmed
<1>6. Marks'
  BY <1>1, RunsKept DEF IInv
<1>7. Stored'
  <2>1. saving # NoSave => saving.by # c /\ saving.store # call[c].store
    BY <1>1, NotBoth DEF IInv, Stored, SaverWaits, OpeningIsOwn
  <2>2. CacheIsSaved' /\ SaverWaits'
    BY <1>1, <1>4, <2>1 DEF IInv, Stored, CacheIsSaved, SaverWaits
  <2>3. SaveKeepsOff'
    <3>1. saving # NoSave /\ saving.by \in Awaiting => call'[saving.by] = call[saving.by]
      BY <1>4, <2>1
    <3> QED
      BY <1>1, <3>1 DEF IInv, Stored, SaveKeepsOff, Enables
  <2>4. OpeningIsOwn'
    <3>1. OpeningIsOwn
      BY DEF IInv, Stored
    <3>2. \A d \in Awaiting \ {c} : call[d].pc \in {"opening", "opened"} => call[d].store # call[c].store
      BY <1>1, <3>1 DEF OpeningIsOwn
    <3> QED
      BY <1>1, <1>4, <3>1, <3>2 DEF OpeningIsOwn, NoCall
  <2> QED
    BY <2>2, <2>3, <2>4 DEF Stored
<1>8. Attended'
  <2> SUFFICES ASSUME NEW id \in Ids
               PROVE  /\ cache'[id] = "on" \/ file'[id] = "on" => Covered(id)'
                      /\ file'[id] = "on" /\ cache'[id] # "on" => id \in astray'
    BY DEF Attended
  <2>1. cache'[id] = "on" => Covered(id)'
    BY <1>1, <1>4 DEF On, Covered, InProgress
  <2>2. file'[id] = "on" /\ cache'[id] # "on" => id \in astray'
    BY <1>1, <1>4 DEF On
  <2> QED
    BY <2>1, <2>2 DEF Covered
<1> QED
  BY <1>5, <1>6, <1>7, <1>8 DEF IInv

LEMMA StopStep ==
    ASSUME IInv, Stop
    PROVE  IInv'
<1>1. TypeOK' /\ StoppedIsUnarmed' /\ Attended'
  <2>1. /\ generation' \in 0 .. MaxStops /\ store' \in 0 .. MaxStarts
        /\ cache' \in Tables
    BY BoundAssumption DEF Stop, IInv, TypeOK, Tables, Empty
  <2> QED
    BY <2>1 DEF Stop, IInv, TypeOK, StoppedIsUnarmed, Attended, active
<1>2. Marks'
  <2>1. \A r \in Runs : run[r] # NoRun => run[r].gen \in Nat /\ run[r].gen <= generation
    BY RunFields, BoundAssumption DEF IInv, Marks, NoFutureRun
  <2>2. /\ generation \in Nat /\ generation' = generation + 1 /\ inflight' = {}
        /\ run' = run /\ past' = past
    BY BoundAssumption DEF Stop, IInv, TypeOK
  <2> QED
    BY <2>1, <2>2 DEF IInv, Marks, NoFutureRun, NoOverlap, RunIsDue
<1>3. Stored'
  <2>1. /\ store' = 0 /\ UNCHANGED <<file, saving, opened, run, call>>
    BY DEF Stop
  <2>2. opened \in Nat /\ \A c \in Awaiting : call[c] # NoCall => call[c].store \in 1 .. MaxStarts
    BY CallFields, BoundAssumption DEF IInv, TypeOK
  <2>3. CacheIsSaved' /\ SaverWaits' /\ SaveKeepsOff'
    BY <2>1 DEF IInv, Stored, CacheIsSaved, SaverWaits, SaveKeepsOff, Enables, active
  <2>4. OpeningIsOwn'
    BY <2>1, <2>2, BoundAssumption DEF IInv, Stored, OpeningIsOwn, NoCall
  <2> QED
    BY <2>3, <2>4 DEF Stored
<1> QED
  BY <1>1, <1>2, <1>3 DEF IInv

-----------------------------------------------------------------------------
(* executeJob.                                                             *)

LEMMA ExecuteKeeps ==
    ASSUME IInv, NEW r \in Runs, NEW id \in Ids, Execute(r, id), MayExecute(id),
           UNCHANGED <<stores, store, opened, drawn, generation, timers, call, astray>>,
           past' \in SUBSET Ids, orphans' \in SUBSET Ids, past \subseteq past',
           \A i \in past' \ past : i = id /\ id \in Once, id \in Once => id \in past'
    PROVE  IInv'
<1> DEFINE new == [pc |-> "marking", id |-> id, gen |-> generation, store |-> store, shot |-> FALSE]
<1>1. /\ run[r] = NoRun /\ id \notin inflight /\ inflight' = inflight \cup {id}
      /\ run' = [run EXCEPT ![r] = new] /\ active
  BY DEF Execute, MayExecute
<1>2. new \in RunStates
  <2>1. store \in 1 .. MaxStarts
    BY <1>1, BoundAssumption DEF active, IInv, TypeOK
  <2> QED
    BY <2>1 DEF IInv, TypeOK, RunStates
<1>3. /\ run'[r] = new /\ new # NoRun /\ \A s \in Runs \ {r} : run'[s] = run[s]
  BY <1>1 DEF IInv, TypeOK, NoRun
<1> HIDE DEF new
<1>4. new.pc = "marking" /\ new.id = id /\ new.gen = generation /\ new.store = store /\ new.shot = FALSE
  BY DEF new
<1>5. /\ TypeOK' /\ StoppedIsUnarmed'
  BY <1>1, <1>2 DEF stores, IInv, TypeOK, StoppedIsUnarmed, active
<1>6. Marks'
  <2>1. NoOverlap'
    BY <1>1, <1>3, <1>4 DEF IInv, Marks, NoOverlap
  <2>2. NoFutureRun' /\ RunIsDue'
    BY <1>1, <1>3, <1>4, BoundAssumption DEF IInv, TypeOK, Marks, NoFutureRun, RunIsDue
  <2> QED
    BY <2>1, <2>2 DEF Marks
<1>7. saving # NoSave => saving.by # r
  BY <1>1, NotBoth DEF IInv, Stored, SaverWaits, NoRun
<1>8. Stored'
  <2>1. CacheIsSaved' /\ SaverWaits' /\ SaveKeepsOff'
    <3>1. saving # NoSave /\ saving.by \in Runs => run'[saving.by] = run[saving.by]
      BY <1>3, <1>7
    <3> QED
      BY <3>1 DEF stores, IInv, Stored, CacheIsSaved, SaverWaits, SaveKeepsOff, Enables, active
  <2>2. OpeningIsOwn'
    BY <1>3, <1>4 DEF stores, IInv, Stored, OpeningIsOwn
  <2> QED
    BY <2>1, <2>2 DEF Stored
<1>9. Attended'
  <2> SUFFICES ASSUME NEW i \in Ids
               PROVE  /\ cache[i] = "on" \/ file[i] = "on" => Covered(i)'
                      /\ file[i] = "on" /\ cache[i] # "on" => i \in astray \/ Target(i)'
    BY DEF Attended, stores
  <2>1. /\ cache[i] = "on" \/ file[i] = "on" => Covered(i)
        /\ file[i] = "on" /\ cache[i] # "on" => i \in astray \/ Target(i)
    BY <1>1 DEF IInv, Attended
  <2>2. Target(i) => Target(i)'
    BY <1>3, <1>7 DEF stores, Target
  <2>3. i \in past' \ past => InProgress(i)'
    BY <1>3, <1>4 DEF InProgress
  <2>4. InProgress(i) => InProgress(i)'
    BY <1>1, <1>3 DEF InProgress, Saving, stores
  <2>5. Covered(i) => Covered(i)'
    BY <2>3, <2>4 DEF Covered
  <2> QED
    BY <2>1, <2>2, <2>5
<1> QED
  BY <1>5, <1>6, <1>8, <1>9 DEF IInv

LEMMA TickStep ==
    ASSUME IInv, NEW id \in Ids, Tick(id)
    PROVE  IInv'
<1>1. PICK r \in Runs : Execute(r, id)
  BY DEF Tick
<1> QED
  BY <1>1, ExecuteKeeps DEF Tick, NoCalls, IInv, TypeOK

LEMMA DueStep ==
    ASSUME IInv, NEW id \in Ids, Due(id)
    PROVE  IInv'
<1>1. /\ id \in Once \ past /\ past' = past \cup {id} /\ orphans' = orphans \ {id}
      /\ UNCHANGED <<stores, store, opened, drawn, generation, timers, call, astray>>
      /\ past' \in SUBSET Ids /\ orphans' \in SUBSET Ids
  BY DEF Due, IInv, TypeOK
<1>2. CASE id \in timers \cup orphans /\ MayExecute(id)
  <2>1. PICK r \in Runs : Execute(r, id)
    BY <1>2 DEF Due
  <2> QED
    BY <1>1, <1>2, <2>1, ExecuteKeeps
<1>3. CASE ~(id \in timers \cup orphans /\ MayExecute(id))
  <2>1. UNCHANGED <<inflight, run>>
    BY <1>3 DEF Due
  <2>2. TypeOK' /\ StoppedIsUnarmed'
    BY <1>1, <2>1 DEF stores, IInv, TypeOK, StoppedIsUnarmed, active
  <2>3. Marks' /\ Stored'
    BY <1>1, <2>1 DEF stores, IInv, Marks, NoOverlap, NoFutureRun, RunIsDue, Stored,
       CacheIsSaved, SaverWaits, SaveKeepsOff, OpeningIsOwn, Enables, active
  <2>4. Attended'
    <3> SUFFICES ASSUME active, NEW i \in Ids
                 PROVE  /\ cache[i] = "on" \/ file[i] = "on" => Covered(i)'
                        /\ file[i] = "on" /\ cache[i] # "on" => i \in astray \/ Target(i)'
      BY <1>1 DEF Attended, stores, active
    <3>1. /\ cache[i] = "on" \/ file[i] = "on" => Covered(i)
          /\ file[i] = "on" /\ cache[i] # "on" => i \in astray \/ Target(i)
      BY DEF IInv, Attended
    <3>2. InProgress(i) => InProgress(i)'
      BY <1>1, <2>1 DEF InProgress, Saving, stores
    <3>3. Target(i) => Target(i)'
      BY <1>1, <2>1 DEF Target, stores
    <3>4. CASE i # id
      BY <1>1, <3>1, <3>2, <3>3, <3>4 DEF Covered
    <3>5. CASE i = id /\ id \notin timers
      BY <1>1, <3>1, <3>2, <3>3, <3>5 DEF Covered
    <3>6. CASE i = id /\ cache[id] = "on" /\ id \in inflight
      <4>1. \E r \in Runs : run[r] # NoRun /\ run[r].id = id
        BY <3>6 DEF IInv, Marks, NoOverlap
      <4>2. InProgress(id)
        BY <1>1, <4>1 DEF InProgress
      <4> QED
        BY <3>1, <3>2, <3>3, <3>6, <4>2 DEF Covered
    <3>7. CASE i = id /\ cache[id] # "on"
      <4>1. ASSUME Target(id)
            PROVE  InProgress(id)
        <5>1. CASE saving.by \in Awaiting /\ call[saving.by].id = id
          BY <4>1, <5>1, NotBoth DEF Target, IInv, Stored, SaverWaits, InProgress, Saving
        <5>2. CASE saving.by \in Runs /\ run[saving.by].id = id
          BY <1>1, <4>1, <5>2, NotBoth DEF Target, IInv, Stored, SaverWaits, InProgress, NoRun
        <5> QED
          BY <4>1, <5>1, <5>2 DEF Target
      <4> QED
        BY <1>1, <3>1, <3>2, <3>3, <3>7, <4>1 DEF Covered
    <3> QED
      BY <1>3, <3>4, <3>5, <3>6, <3>7 DEF MayExecute
  <2> QED
    BY <2>2, <2>3, <2>4 DEF IInv
<1> QED
  BY <1>2, <1>3

\* A run that goes on or ends must account for its one-shot, when it ends or when
\* the update that should have disabled it is over.
LEMMA RunGoesOn ==
    ASSUME IInv, NEW r \in Runs, run[r].pc # "off",
           Saved(r) \/ Throws(r) \/ (run[r].pc = "agent" /\ UNCHANGED stores),
           \/ Leave(r)
           \/ \E pc \in {"failing", "agent", "ending", "retrying"}, shot \in BOOLEAN :
                 Advance(r, pc, shot) /\ (shot => run[r].id \in Once),
           UNCHANGED <<store, opened, drawn, generation, past, orphans, call>>,
           timers' \in SUBSET timers,
           \A id \in timers \ timers' : id = run[r].id /\ id \in Once,
           astray' \in SUBSET Ids, astray \subseteq astray',
           /\ active /\ run[r].id \in Once
           /\ file'[run[r].id] = "on" \/ cache[run[r].id] = "on"
           /\ Leave(r)
           => run[r].id \in astray',
           /\ active /\ Saving(r) /\ run[r].shot
           /\ file'[run[r].id] = "on" /\ cache[run[r].id] # "on"
           => run[r].id \in astray'
    PROVE  IInv'
<1>1. /\ run[r] # NoRun /\ TypeOK
      /\ run[r] \in [pc : {"marking", "failing", "agent", "ending", "retrying"}, id : Ids,
                     gen : 0 .. MaxStops, store : 1 .. MaxStarts, shot : BOOLEAN]
      /\ run[r].id \in Ids
  BY RunFields DEF IInv, NoRun
<1>2. /\ \A s \in Runs \ {r} : run'[s] = run[s]
      /\ run' \in [Runs -> RunStates]
      /\ \/ run'[r] = NoRun /\ inflight' = Unmarked(r) /\ Leave(r)
         \/ /\ run'[r] # NoRun /\ run'[r].id = run[r].id /\ run'[r].gen = run[r].gen
            /\ run'[r].store = run[r].store /\ (run'[r].shot => run[r].id \in Once)
            /\ inflight' = inflight
  <2>1. CASE Leave(r)
    BY <1>1, <2>1 DEF TypeOK, Leave, RunStates
  <2>2. ASSUME NEW pc \in {"failing", "agent", "ending", "retrying"}, NEW shot \in BOOLEAN,
               Advance(r, pc, shot), shot => run[r].id \in Once
        PROVE  /\ \A s \in Runs \ {r} : run'[s] = run[s]
               /\ run' \in [Runs -> RunStates]
               /\ run'[r] # NoRun /\ run'[r].id = run[r].id /\ run'[r].gen = run[r].gen
               /\ run'[r].store = run[r].store /\ (run'[r].shot => run[r].id \in Once)
               /\ inflight' = inflight
    <3>1. Advance(r, pc, shot)
      BY <2>2
    <3>2. run' = [run EXCEPT ![r].pc = pc, ![r].shot = shot]
      BY <3>1 DEF Advance
    <3>3. inflight' = inflight
      BY <3>1 DEF Advance
    <3>4. run \in [Runs -> RunStates]
      BY <1>1 DEF TypeOK
    <3>5. run'[r] = [run[r] EXCEPT !.pc = pc, !.shot = shot]
      BY <3>2, <3>4
    <3>6. /\ DOMAIN run' = Runs /\ run' = [s \in Runs |-> run'[s]]
          /\ \A s \in Runs \ {r} : run'[s] = run[s]
      BY <3>2, <3>4
    <3>7. /\ run'[r] \in RunStates /\ run'[r] # NoRun
          /\ run'[r].id = run[r].id /\ run'[r].gen = run[r].gen
          /\ run'[r].store = run[r].store /\ run'[r].shot = shot
      <4> DEFINE x == run[r]
                 y == run'[r]
      <4>1. x \in [pc : {"marking", "failing", "agent", "ending", "retrying"}, id : Ids,
                  gen : 0 .. MaxStops, store : 1 .. MaxStarts, shot : BOOLEAN]
        BY <1>1
      <4>2. y = [x EXCEPT !.pc = pc, !.shot = shot]
        BY <3>5
      <4> HIDE DEF x, y
      <4>3. y \in [pc : {"marking", "failing", "agent", "ending", "retrying"}, id : Ids,
                  gen : 0 .. MaxStops, store : 1 .. MaxStarts, shot : BOOLEAN]
        BY <4>1, <4>2
      <4>4. y.id = x.id /\ y.gen = x.gen /\ y.store = x.store /\ y.shot = shot
        BY <4>1, <4>2
      <4>5. y \in RunStates /\ y # NoRun
        BY <4>3 DEF RunStates, NoRun
      <4> QED
        BY <4>4, <4>5 DEF x, y
    <3>8. run' \in [Runs -> RunStates]
      BY <3>4, <3>6, <3>7
    <3>9. run'[r].shot => run[r].id \in Once
      BY <2>2, <3>7, Zenon
    <3> QED
      BY <3>3, <3>6, <3>7, <3>8, <3>9
  <2> QED
    BY <2>1, <2>2
<1>3. /\ file' \in Tables /\ cache' = cache /\ faults' \in 0 .. MaxFaults
      /\ \/ Saving(r) /\ saving' = NoSave
         \/ ~Saving(r) /\ saving' = saving /\ file' = file
      /\ \A id \in Ids : file'[id] = "on" => file[id] = "on"
      /\ active => \A id \in Ids : file'[id] = "on" /\ cache[id] # "on" =>
            id \in astray \/ Target(id)
  <2>1. CASE Saved(r) \/ Throws(r)
    BY <2>1, SaveOver, NotBoth
  <2>2. CASE run[r].pc = "agent" /\ UNCHANGED stores
    BY <2>2, NotBoth DEF stores, IInv, TypeOK, Attended, Stored, SaverWaits, Saving
  <2> QED
    BY <2>1, <2>2
<1>4. TypeOK'
  <2>1. saving' \in Saves /\ inflight' \subseteq Ids
    BY <1>1, <1>2, <1>3 DEF TypeOK, Saves, Unmarked
  <2> QED
    BY <1>1, <1>2, <1>3, <2>1 DEF TypeOK
<1>5. StoppedIsUnarmed'
  BY DEF IInv, StoppedIsUnarmed, active
<1>6. Marks'
  <2>1. NoOverlap'
    <3>1. CASE run'[r] = NoRun
      BY <1>1, <1>2, <3>1 DEF IInv, Marks, NoOverlap, Unmarked
    <3>2. CASE run'[r] # NoRun
      BY <1>1, <1>2, <3>2 DEF IInv, Marks, NoOverlap
    <3> QED
      BY <3>1, <3>2
  <2>2. NoFutureRun' /\ RunIsDue'
    BY <1>1, <1>2 DEF IInv, Marks, NoFutureRun, RunIsDue
  <2> QED
    BY <2>1, <2>2 DEF Marks
<1>7. saving' # NoSave => saving' = saving /\ file' = file /\ saving.by # r
  BY <1>3 DEF Saving
<1>8. Stored'
  <2>1. CacheIsSaved' /\ SaverWaits' /\ SaveKeepsOff'
    <3>1. saving' # NoSave /\ saving.by \in Runs => run'[saving.by] = run[saving.by]
      BY <1>2, <1>7
    <3> QED
      BY <1>3, <1>7, <3>1 DEF IInv, Stored, CacheIsSaved, SaverWaits, SaveKeepsOff, Enables, active
  <2>2. OpeningIsOwn'
    BY <1>1, <1>2, <1>7 DEF IInv, Stored, OpeningIsOwn
  <2> QED
    BY <2>1, <2>2 DEF Stored
<1>9. Attended'
  <2> SUFFICES ASSUME active, NEW id \in Ids
               PROVE  /\ cache[id] = "on" \/ file'[id] = "on" => Covered(id)'
                      /\ file'[id] = "on" /\ cache[id] # "on" => id \in astray' \/ Target(id)'
    BY <1>3 DEF Attended, active
  <2>1. cache[id] = "on" \/ file'[id] = "on" => Covered(id)
    BY <1>3 DEF IInv, Attended
  <2>2. ASSUME id \in timers \ past
        PROVE  id \in timers' \ past
    <3>1. id \notin timers' => id = run[r].id /\ id \in Once
      BY <2>2
    <3> QED
      BY <1>1, <2>2, <3>1 DEF IInv, Marks, RunIsDue
  <2>3. ASSUME InProgress(id), cache[id] = "on" \/ file'[id] = "on"
        PROVE  InProgress(id)' \/ id \in astray'
    <3>1. ASSUME NEW s \in Runs, id \in Once /\ run[s] # NoRun /\ run[s].id = id
          PROVE  InProgress(id)' \/ id \in astray'
      BY <1>2, <2>3, <3>1 DEF InProgress
    <3>2. ASSUME NEW d \in Awaiting,
                 \/ call[d].pc = "asked" /\ call[d].id = id /\ (call[d].kind = "remove" \/ Saving(d))
                 \/ call[d].pc = "expired" /\ id \in {call[d].id} \cup call[d].rest
          PROVE  InProgress(id)'
      <4>1. Saving(d) => Saving(d)'
        BY <1>3, NotBoth DEF Saving
      <4> QED
        BY <3>2, <4>1 DEF InProgress
    <3> QED
      BY <2>3, <3>1, <3>2 DEF InProgress
  <2>4. ASSUME file'[id] = "on", cache[id] # "on"
        PROVE  id \in astray' \/ Target(id)'
    <3>1. id \in astray \/ Target(id)
      BY <1>3, <2>4
    <3>2. CASE Target(id) /\ Saving(r)
      BY <2>4, <3>2, NotBoth DEF Target, Saving
    <3>3. CASE Target(id) /\ ~Saving(r)
      BY <1>2, <1>3, <3>3 DEF Target, Saving
    <3> QED
      BY <3>1, <3>2, <3>3
  <2> QED
    BY <2>1, <2>2, <2>3, <2>4 DEF Covered
<1> QED
  BY <1>4, <1>5, <1>6, <1>8, <1>9 DEF IInv

\* What finalize makes of a run.
LEMMA ShotIsOnce ==
    ASSUME NEW r \in Runs, NEW shot \in Shots(r)
    PROVE  shot \in BOOLEAN /\ (shot => run[r].id \in Once)
BY Zenon DEF Shots

\* How a run is known when one of its steps begins.
LEMMA RunKnown ==
    ASSUME IInv, NEW r \in Runs, run[r].pc # "off"
    PROVE  /\ run[r] # NoRun /\ run[r].id \in Ids /\ run[r].shot \in BOOLEAN
           /\ run[r].shot => run[r].id \in Once
           /\ timers \in SUBSET timers /\ astray \in SUBSET Ids
           /\ LeftOn(r) \in SUBSET Ids /\ (run[r].id \in Once => run[r].id \in LeftOn(r))
<1>1. run[r] # NoRun /\ TypeOK /\ Marks
  BY DEF IInv, NoRun
<1> QED
  BY <1>1, RunFields DEF TypeOK, Marks, RunIsDue, LeftOn

\* A run that goes on does not end.
LEMMA NotLeft ==
    ASSUME IInv, NEW r \in Runs, run[r].pc # "off",
           NEW pc \in {"failing", "agent", "ending", "retrying"}, NEW shot, Advance(r, pc, shot)
    PROVE  ~Leave(r)
<1>1. SUFFICES ASSUME Leave(r) PROVE FALSE
  OBVIOUS
<1>2. run \in [Runs -> RunStates] /\ run[r] # NoRun
  BY RunKnown DEF IInv, TypeOK
<1>3. run'[r] = NoRun
  BY <1>1, <1>2 DEF Leave
<1>4. run'[r] = [run[r] EXCEPT !.pc = pc, !.shot = shot]
  BY <1>2 DEF Advance
<1>5. "pc" \in DOMAIN run[r] /\ "id" \in DOMAIN run[r]
  BY <1>2 DEF RunStates
<1>6. "id" \in DOMAIN run'[r]
  BY <1>4, <1>5
<1> QED
  BY <1>3, <1>6 DEF NoRun

LEMMA SpawnStep ==
    ASSUME IInv, NEW r \in Runs, Spawn(r)
    PROVE  IInv'
<1>1. /\ run[r].pc = "marking" /\ Saved(r)
      /\ UNCHANGED <<store, opened, drawn, generation, past, orphans, call, timers, astray>>
  BY DEF Spawn, NoCalls
<1>2. PICK pc \in {"agent", "failing"} : Advance(r, pc, FALSE)
  BY DEF Spawn
<1>3. ~Leave(r)
  BY <1>1, <1>2, NotLeft
<1>4. run[r].shot => file'[run[r].id] # "on"
  BY <1>1, SavedFile
<1> QED
  BY <1>1, <1>2, <1>3, <1>4, RunKnown, RunGoesOn

LEMMA LeavesStep ==
    ASSUME IInv, NEW r \in Runs, FailureNoted(r) \/ RunThrows(r)
    PROVE  IInv'
<1>1. /\ run[r].pc # "off"
      /\ Saved(r) \/ Throws(r)
      /\ Leave(r)
      /\ astray' = astray \cup LeftOn(r)
      /\ UNCHANGED <<store, opened, drawn, generation, past, orphans, call, timers>>
  BY DEF FailureNoted, RunThrows, NoCalls
<1>2. /\ astray' \in SUBSET Ids /\ astray \subseteq astray'
      /\ run[r].id \in Once => run[r].id \in astray'
      /\ run[r].shot => run[r].id \in Once
  BY <1>1, RunKnown
<1> QED
  BY <1>1, <1>2, RunGoesOn

LEMMA AgentEndsStep ==
    ASSUME IInv, NEW r \in Runs, AgentEnds(r)
    PROVE  IInv'
<1>1. /\ run[r].pc = "agent" /\ UNCHANGED stores
      /\ UNCHANGED <<store, opened, drawn, generation, past, orphans, call, timers, astray>>
  BY DEF AgentEnds, NoCalls
<1>2. PICK shot \in Shots(r) : Advance(r, "ending", shot)
  BY DEF AgentEnds
<1>3. shot \in BOOLEAN /\ (shot => run[r].id \in Once)
  BY ShotIsOnce
<1>4. ~Leave(r)
  BY <1>1, <1>2, NotLeft
<1>5. ~Saving(r)
  BY <1>1, NotBoth DEF IInv, Stored, SaverWaits, Saving
<1>6. \E pc \in {"failing", "agent", "ending", "retrying"}, s \in BOOLEAN :
         Advance(r, pc, s) /\ (s => run[r].id \in Once)
  BY <1>2, <1>3, Zenon
<1> QED
  BY <1>1, <1>4, <1>5, <1>6, RunKnown, RunGoesOn

LEMMA FinalizeThrowsStep ==
    ASSUME IInv, NEW r \in Runs, FinalizeThrows(r)
    PROVE  IInv'
<1>1. /\ run[r].pc = "ending" /\ Throws(r) /\ astray' = astray \cup LeftOn(r)
      /\ UNCHANGED <<store, opened, drawn, generation, past, orphans, call, timers>>
  BY DEF FinalizeThrows, NoCalls
<1>2. PICK shot \in Shots(r) : Advance(r, "retrying", shot)
  BY DEF FinalizeThrows
<1>3. shot \in BOOLEAN /\ (shot => run[r].id \in Once)
  BY ShotIsOnce
<1>4. \E pc \in {"failing", "agent", "ending", "retrying"}, s \in BOOLEAN :
         Advance(r, pc, s) /\ (s => run[r].id \in Once)
  BY <1>2, <1>3, Zenon
<1>5. /\ astray' \in SUBSET Ids /\ astray \subseteq astray'
      /\ run[r].id \in Once => run[r].id \in astray'
      /\ run[r].shot => run[r].id \in Once
      /\ timers \in SUBSET timers
  BY <1>1, RunKnown
<1> QED
  BY <1>1, <1>4, <1>5, RunGoesOn

LEMMA FinalizedStep ==
    ASSUME IInv, NEW r \in Runs, Finalized(r)
    PROVE  IInv'
<1> DEFINE id == run[r].id
<1>1. /\ run[r].pc # "off" /\ Saved(r) /\ Leave(r)
      /\ timers' = IF run[r].shot THEN timers \ {id} ELSE timers
      /\ astray' = astray \cup (IF run[r].shot THEN Unheard(run[r].store, id) ELSE LeftOn(r))
      /\ UNCHANGED <<store, opened, drawn, generation, past, orphans, call>>
  BY DEF Finalized, NoCalls
<1>2. /\ id \in Ids /\ LeftOn(r) \in SUBSET Ids /\ astray \in SUBSET Ids
      /\ run[r].shot \in BOOLEAN /\ (run[r].shot => id \in Once)
      /\ id \in Once => id \in LeftOn(r)
  BY <1>1, RunKnown
<1>3. /\ active /\ run[r].store = store => file' = cache
      /\ run[r].shot => file'[id] # "on"
  BY <1>1, SavedFile
<1>4. /\ Unheard(run[r].store, id) \subseteq {id}
      /\ active /\ run[r].store # store => id \in Unheard(run[r].store, id)
  BY DEF Unheard
<1>5. astray' \in SUBSET Ids /\ astray \subseteq astray'
  BY <1>1, <1>2, <1>4
<1>6. active /\ id \in Once /\ (file'[id] = "on" \/ cache[id] = "on") => id \in astray'
  <2>1. CASE run[r].shot
    BY <1>1, <1>3, <1>4, <2>1
  <2>2. CASE ~run[r].shot
    BY <1>1, <1>2, <2>2
  <2> QED
    BY <2>1, <2>2
<1>7. /\ timers' \in SUBSET timers
      /\ \A i \in timers \ timers' : i = id /\ i \in Once
  BY <1>1, <1>2
<1> QED
  BY <1>1, <1>2, <1>5, <1>6, <1>7, RunGoesOn

-----------------------------------------------------------------------------
(* Every step, and the theorems.                                           *)

LEMMA NextIInv == IInv /\ [Next]_vars => IInv'
<1> SUFFICES ASSUME IInv, [Next]_vars PROVE IInv'
  OBVIOUS
<1>1. CASE Stop
  BY <1>1, StopStep
<1>2. ASSUME NEW s \in Starters, Starting(s)
      PROVE  IInv'
  BY <1>2, StartStep, ReadsStep, BindsStep DEF Starting, Awaiting
<1>3. ASSUME NEW c \in Awaiting, Arming(c)
      PROVE  IInv'
  BY <1>3, BeginsStep, ExpiredStep DEF Arming
<1>4. ASSUME NEW c \in Callers, Calling(c)
      PROVE  IInv'
  BY <1>4, BeginsStep, StoreThrowsStep, StoreReturnsStep DEF Calling, Awaiting
<1>5. ASSUME NEW c \in Callers, NEW id \in Ids,
             \/ AddJob(c, id) \/ RemoveJob(c, id)
             \/ \E kind \in {"enable", "disable"} : UpdateJob(c, id, kind)
      PROVE  IInv'
  BY <1>5, AskStep DEF Awaiting
<1>6. ASSUME NEW id \in Ids, Tick(id) \/ Due(id)
      PROVE  IInv'
  BY <1>6, TickStep, DueStep
<1>7. ASSUME NEW r \in Runs, Executing(r)
      PROVE  IInv'
  BY <1>7, RunAsksStep, SpawnStep, LeavesStep, AgentEndsStep, FinalizedStep,
     FinalizeThrowsStep DEF Executing
<1>8. CASE UNCHANGED vars
  <2>1. TypeOK' /\ Marks' /\ StoppedIsUnarmed'
    BY <1>8 DEF vars, stores, clock, IInv, TypeOK, Marks, NoOverlap, NoFutureRun, RunIsDue,
       StoppedIsUnarmed, active
  <2>2. Stored'
    BY <1>8 DEF vars, stores, clock, IInv, Stored, CacheIsSaved, SaverWaits, SaveKeepsOff,
       OpeningIsOwn, Enables, active
  <2>3. Attended'
    BY <1>8 DEF vars, stores, clock, IInv, Attended, Covered, Target, InProgress, Saving, active
  <2> QED
    BY <2>1, <2>2, <2>3 DEF IInv
<1> QED
  BY <1>1, <1>2, <1>3, <1>4, <1>5, <1>6, <1>7, <1>8 DEF Next

\* Every reachable state of the scheduler satisfies the inductive invariant.
THEOREM Invariance == Spec => []IInv
<1> QED
  BY InitIInv, NextIInv, PTL DEF Spec

\* Every variable keeps its type, for any jobs, runs, callers, starts and stops.
THEOREM SchedulerTypes == Spec => []TypeOK
<1>1. IInv => TypeOK
  BY DEF IInv
<1> QED
  BY <1>1, Invariance, PTL

\* Within a generation a job does not overlap itself (executeJob's in-flight
\* mark), however many runs of earlier generations are still about.
THEOREM RunsDoNotOverlap == Spec => []NoOverlap
<1>1. IInv => NoOverlap
  BY DEF IInv, Marks
<1> QED
  BY <1>1, Invariance, PTL

\* stop leaves no timer in the tables, and no call that it overtook (start,
\* addJob, updateJob) puts one there.
THEOREM StopDisarms == Spec => []StoppedIsUnarmed
<1>1. IInv => StoppedIsUnarmed
  BY DEF IInv
<1> QED
  BY <1>1, Invariance, PTL

\* A job that list() shows as enabled has a timer that will fire or somebody who
\* is about to settle it, or it went astray: a call threw, also one whose change
\* stays in the cache though its save failed, a one-shot's run ended without
\* disabling it, a read failed or was too early, or the change was made through
\* the store of an earlier start.
THEOREM EnabledStaysArmed == Spec => []EnabledIsArmed
<1>1. IInv => EnabledIsArmed
  BY DEF IInv, Attended, Covered, EnabledIsArmed
<1> QED
  BY <1>1, Invariance, PTL
=============================================================================

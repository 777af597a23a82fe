------------------------------- MODULE JobOps -------------------------------
(***************************************************************************)
(* The table of scheduled jobs and what the mutations of ScheduleStore     *)
(* (src/schedule-store.ts) compute from it.  A job is its name, which must *)
(* be unique, and its enabled flag, which stands for every other field     *)
(* that a patch may carry.                                                 *)
(***************************************************************************)
EXTENDS Naturals, FiniteSets

CONSTANTS
    Ids,            \* job ids
    Names,          \* job names
    MaxSchedules,   \* MAX_SCHEDULES
    MaxReadable     \* how many jobs fit in a file of MAX_STORE_BYTES

ASSUME IdsAssumption == IsFiniteSet(Ids)
ASSUME LimitsAssumption == MaxSchedules \in Nat /\ MaxReadable \in Nat

Job == [name : Names, enabled : BOOLEAN]

\* A Map from ids to jobs.
Tables == UNION {[S -> Job] : S \in SUBSET Ids}

NoJobs == [id \in {} |-> [name |-> "", enabled |-> FALSE]]

\* The arguments of add, update (a new name, or another patch), remove and
\* deleteFileIfEmpty.
Ops == [kind : {"add", "rename"}, id : Ids, name : Names]
       \cup [kind : {"patch"}, id : Ids, enabled : BOOLEAN]
       \cup [kind : {"remove"}, id : Ids]
       \cup [kind : {"sweep"}]

Updates(o) == o.kind \in {"rename", "patch"}

\* Mutant: addJob does not set the enabled flag.
NewJobWithoutFlag(t, o) ==
    CASE o.kind = "add"    -> [name |-> o.name]
      [] o.kind = "rename" -> [t[o.id] EXCEPT !.name = o.name]
      [] o.kind = "patch"  -> [t[o.id] EXCEPT !.enabled = o.enabled]

\* The job that add or update is about to set.
NewJob(t, o) ==
    CASE o.kind = "add"    -> [name |-> o.name, enabled |-> TRUE]
      [] o.kind = "rename" -> [t[o.id] EXCEPT !.name = o.name]
      [] o.kind = "patch"  -> [t[o.id] EXCEPT !.enabled = o.enabled]

NameTaken(t, o) == \E id \in DOMAIN t \ {o.id} : t[id].name = NewJob(t, o).name

\* Mutant: only addJob looks at the limit, before the lock is taken.
RefusedWithoutLimit(t, o) ==
    \/ o.kind = "add" /\ (o.id \in DOMAIN t \/ NameTaken(t, o))
    \/ Updates(o) /\ o.id \in DOMAIN t /\ NameTaken(t, o)

\* The mutation throws.
Refused(t, o) ==
    \/ o.kind = "add" /\ \/ Cardinality(DOMAIN t) >= MaxSchedules
                         \/ o.id \in DOMAIN t
                         \/ NameTaken(t, o)
    \/ Updates(o) /\ o.id \in DOMAIN t /\ NameTaken(t, o)

\* The table after a mutation that does not throw; to update or remove a job
\* that is not there changes nothing.
Result(t, o) ==
    IF o.kind = "remove" THEN [id \in DOMAIN t \ {o.id} |-> t[id]]
    ELSE IF o.kind = "add" \/ (Updates(o) /\ o.id \in DOMAIN t)
         THEN [id \in DOMAIN t \cup {o.id} |-> IF id = o.id THEN NewJob(t, o) ELSE t[id]]
         ELSE t

\* load() refuses a file that is too large.
TooLarge(t) == Cardinality(DOMAIN t) > MaxReadable
=============================================================================

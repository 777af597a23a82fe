------------------------------ MODULE JobTable ------------------------------
(***************************************************************************)
(* What ScheduleStore promises to all processes that share a session file: *)
(* one table, which every add, update and remove changes atomically, in    *)
(* some order; and what its log message "next mutation will rewrite it"    *)
(* admits: an unreadable table is forgotten by the next mutation.          *)
(***************************************************************************)

CONSTANTS
    Tables,         \* the tables,
    NoJobs,         \* the empty one,
    Ops,            \* and the mutations
    Refused(_, _),  \* the mutation throws on the table
    Result(_, _),   \* what it makes of the table otherwise
    TooLarge(_),    \* the table can be written but not read
    MayForget       \* whether reading may also fail for no reason of the table

VARIABLE table

Init == table \in Tables

\* A mutation that is not refused.
Apply(o) == ~Refused(table, o) /\ table' = Result(table, o)

\* The mutation after a failed load: it starts from nothing.
Forget(o) ==
    /\ MayForget \/ TooLarge(table)
    /\ ~Refused(NoJobs, o)
    /\ table' = Result(NoJobs, o)

Next == \E o \in Ops : Apply(o) \/ Forget(o)

Spec == Init /\ [][Next]_table
=============================================================================

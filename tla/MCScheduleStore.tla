-------------------------- MODULE MCScheduleStore --------------------------
(* A small instance of ScheduleStore for TLC: two processes, and one call  *)
(* at a time of each.                                                       *)
EXTENDS ScheduleStore, TLC

CONSTANTS p1, p2, c1, c2, j1, j2, j3, n1, n2, n3

MCHome == c1 :> p1 @@ c2 :> p2

\* The third job meets the limit, the new name is taken once j2 is there.  A
\* patch of other fields would only be a rename that cannot be refused.
MCWanted == {[kind |-> "add", id |-> j2, name |-> n2],
             [kind |-> "add", id |-> j3, name |-> n3],
             [kind |-> "rename", id |-> j1, name |-> n2],
             [kind |-> "remove", id |-> j1],
             [kind |-> "sweep"]}

MCSaved == {j1 :> [name |-> n1, enabled |-> TRUE]}
=============================================================================

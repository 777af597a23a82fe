------------------------------- MODULE Hooks -------------------------------
(***************************************************************************)
(* The hook registry (src/hooks.ts) for one event: handlers are asked one  *)
(* after the other, each awaited for at most five seconds, while others    *)
(* may register and unregister, the handler that is being asked included.  *)
(* A dispatch iterates over the live array of the registry by index.  When *)
(* the last handler leaves, the array is dropped from the map; a dispatch  *)
(* that still holds it finds it empty, whatever is registered later.       *)
(***************************************************************************)
EXTENDS Integers, Sequences, SequencesExt, FiniteSets

CONSTANTS
    Handlers,    \* the ids of the handlers
    Priority,    \* of each handler, lower numbers first
    Dispatches,
    MaxChanges   \* bound on the calls of register and unregister

ASSUME PriorityAssumption == Priority \in [Handlers -> Nat]
ASSUME BoundAssumption == MaxChanges \in Nat

VARIABLES
    list,      \* handlers.get(event), <<>> when there is none
    dispatch,  \* of each dispatch: the step it is at and what it has found
    changes    \* calls of register and unregister

vars == <<list, dispatch, changes>>

Answers == {"allow", "modify", "block"}

\* Besides the index into the array, whether the array has been dropped from
\* the map and hasModify, a dispatch keeps what it has asked, and for the
\* properties the handlers that have been there all the time and how often
\* the list was changed.
NewDispatch == [pc |-> "idle", index |-> 0, dropped |-> FALSE, hasModify |-> FALSE,
                result |-> "none", asked |-> <<>>, since |-> {}, added |-> 0, removed |-> 0]

Init ==
    /\ list = <<>>
    /\ dispatch = [d \in Dispatches |-> NewDispatch]
    /\ changes = 0

Iterating(d) == dispatch[d].pc = "asking"

-----------------------------------------------------------------------------
(* register and unregister.                                                *)

\* Mutant: the list is not sorted again.
InsertedLast(h) == Append(list, h)

\* push and a stable sort.
Inserted(h) ==
    LET before == {i \in DOMAIN list : Priority[list[i]] <= Priority[h]}
    IN  InsertAt(list, Cardinality(before) + 1, h)

Register(h) ==
    /\ changes < MaxChanges /\ h \notin ToSet(list)
    /\ list' = Inserted(h)
    /\ dispatch' = [d \in Dispatches |->
          IF Iterating(d) /\ ~dispatch[d].dropped
          THEN [dispatch[d] EXCEPT !.added = @ + 1] ELSE dispatch[d]]
    /\ changes' = changes + 1

\* unregisterById, and unregister by the function: findIndex and splice.
Unregister(h) ==
    /\ changes < MaxChanges
    /\ \E i \in DOMAIN list : list[i] = h /\ list' = RemoveAt(list, i)
    /\ dispatch' = [d \in Dispatches |->
          IF Iterating(d) /\ ~dispatch[d].dropped
          THEN [dispatch[d] EXCEPT !.removed = @ + 1, !.since = @ \ {h},
                                   !.dropped = (list' = <<>>)]
          ELSE dispatch[d]]
    /\ changes' = changes + 1

-----------------------------------------------------------------------------
(* dispatch.                                                               *)

Dispatch(d) ==
    /\ dispatch[d].pc = "idle"
    /\ dispatch' = [dispatch EXCEPT ![d] =
          IF list = <<>> THEN [@ EXCEPT !.pc = "done", !.result = "allow"]
          ELSE [@ EXCEPT !.pc = "asking", !.index = 1, !.asked = <<list[1]>>, !.since = ToSet(list)]]
    /\ UNCHANGED <<list, changes>>

\* The array that the dispatch iterates over.
Array(d) == IF dispatch[d].dropped THEN <<>> ELSE list

Verdict(modified) == IF modified THEN "modify" ELSE "allow"

\* Mutant: a handler that modifies ends the dispatch, as one that blocks.
AnswerModifyEnds(d, answer) ==
    LET s == dispatch[d]
        modified == s.hasModify \/ answer = "modify"
        next == s.index + 1
    IN  /\ Iterating(d)
        /\ dispatch' = [dispatch EXCEPT ![d] =
              IF answer \in {"block", "modify"} THEN [s EXCEPT !.pc = "done", !.result = answer]
              ELSE IF next \in DOMAIN Array(d)
              THEN [s EXCEPT !.index = next, !.asked = Append(@, Array(d)[next])]
              ELSE [s EXCEPT !.pc = "done", !.result = Verdict(modified)]]
        /\ UNCHANGED <<list, changes>>

\* A handler answers, or throws or takes too long, which counts as "allow".
Answer(d, answer) ==
    LET s == dispatch[d]
        modified == s.hasModify \/ answer = "modify"
        next == s.index + 1
    IN  /\ Iterating(d)
        /\ dispatch' = [dispatch EXCEPT ![d] =
              IF answer = "block" THEN [s EXCEPT !.pc = "done", !.result = "block"]
              ELSE IF next \in DOMAIN Array(d)
              THEN [s EXCEPT !.index = next, !.hasModify = modified,
                             !.asked = Append(@, Array(d)[next])]
              ELSE [s EXCEPT !.pc = "done", !.result = Verdict(modified)]]
        /\ UNCHANGED <<list, changes>>

Next ==
    \/ \E h \in Handlers : Register(h) \/ Unregister(h)
    \/ \E d \in Dispatches : Dispatch(d) \/ \E answer \in Answers : Answer(d, answer)

Spec == Init /\ [][Next]_vars

-----------------------------------------------------------------------------
(* Properties.                                                             *)

\* A dispatch asks the handlers by priority, however many unregister meanwhile
\* and whoever they are, as long as no more than one registers: only two that go
\* in front of the handler being asked move one of theirs behind it (register's
\* sort, runHandlers' iteration by index).
OrderIsKept ==
    \A d \in Dispatches : LET asked == dispatch[d].asked IN
        dispatch[d].added <= 1 =>
            \A i, j \in DOMAIN asked : i < j => Priority[asked[i]] <= Priority[asked[j]]

\* Every handler that is registered all the while is asked exactly once by a
\* dispatch that nobody blocks, but for as many handlers as were unregistered
\* meanwhile, and is asked again only as often as handlers were registered:
\* each such call moves the others by one place under the iteration.
MissesAreRemovals ==
    \A d \in Dispatches : LET s == dispatch[d] IN
        /\ Len(s.asked) - Cardinality(ToSet(s.asked)) <= s.added
        /\ s.result \in {"allow", "modify"}
              => Cardinality(s.since \ ToSet(s.asked)) <= s.removed
=============================================================================

--------------------------- MODULE AgentDashboard ---------------------------
(***************************************************************************)
(* The dashboard overlay (src/ui/agent-dashboard.ts) over the records of   *)
(* the manager.  A timer polls the records; rendering is asked for through *)
(* a microtask or, within 16 ms of the last render, a timer; the rendered  *)
(* body of the list is cached and rebuilt only when dirty.  The manager    *)
(* changes its records, the user types and the host renders at any time    *)
(* between.  Layout, the pages and sort order of the top table, scroll     *)
(* offsets, themes and the status line are left out; the 32-bit snapshot   *)
(* hash is the snapshot itself, and "completed" is every status a run ends *)
(* with by itself.  Names that every module has begin with Board here: the *)
(* proofs extend this module and Hooks.                                    *)
(***************************************************************************)
EXTENDS Integers, Sequences, SequencesExt

CONSTANTS
    Agents,   \* the agents there are, before or after the dashboard is opened
    Old,      \* those that have ended before, the last started first
    Queued,   \* those that find the pool full and start later
    Sessions, \* those that get a session, without which resume does nothing
    MaxResumes, \* bound on the calls of manager.resume
    MaxRemoved, \* bound on the records removed
    MaxKeys   \* bound on the keys typed

ASSUME AgentsAssumption ==
    Old \in Seq(Agents) /\ IsInjective(Old) /\ Queued \subseteq Agents /\ Sessions \subseteq Agents
ASSUME KeysAssumption == MaxResumes \in Nat /\ MaxRemoved \in Nat /\ MaxKeys \in Nat

VARIABLES
    status,      \* of each record; "none": not in the manager
    order,       \* manager.listAgents(): the last started first
    runs,        \* the agents whose run has not ended
    pending,     \* of each record: calls of resume that have not been answered
    resumes,     \* calls of resume so far
    loose,       \* history: resumed, or with a resume to be answered, since the
                 \* last refresh that found something changed
    hash,        \* agentSnapshotHash: the snapshot of the last refresh
    cursor,      \* selectedIndex, from 0
    marks,       \* selectedIds
    views,       \* the flags that choose what is shown: showHelp, showTree, ...
    scheduling,  \* scheduler.isActive()
    dirty,
    cache,       \* what cachedBodyLines were built from
    drawn,       \* the last render returned the list, that is the cached lines
    coalescing,  \* coalesceTimer is set
    asked,       \* the host has been asked to render
    closed,
    keys         \* keys typed so far

records == <<status, order, runs, pending, resumes>>
selection == <<hash, cursor, marks, loose>>
requests == <<coalescing, asked>>
boardVars ==
    <<records, selection, views, scheduling, dirty, cache, drawn, requests, closed, keys>>

Views == {"help", "tree", "schedules", "perf", "top", "command"}
Live  == {"queued", "running"}

Snapshot(list, st) == [i \in DOMAIN list |-> <<list[i], st[list[i]]>>]

\* this.agents: the list of the last refresh, whose records are live.
listed == [i \in DOMAIN hash |-> hash[i][1]]

NoBody == [list |-> <<>>, cursor |-> 0, marks |-> {}]

\* The constructor calls refreshAgents.
BoardInit ==
    /\ status = [a \in Agents |-> IF a \in ToSet(Old) THEN "completed" ELSE "none"]
    /\ runs = {} /\ pending = [a \in Agents |-> 0] /\ resumes = 0 /\ loose = {}
    /\ order = Old /\ hash = Snapshot(Old, status) /\ cursor = 0 /\ marks = {}
    /\ views = {} /\ scheduling \in BOOLEAN
    /\ dirty = TRUE /\ cache = NoBody
    /\ drawn = FALSE
    /\ coalescing = FALSE /\ asked = FALSE
    /\ closed = FALSE /\ keys = 0

Open == ~closed

-----------------------------------------------------------------------------
(* The manager and the scheduler.                                          *)

OnlyRecords ==
    UNCHANGED <<hash, cursor, marks, views, scheduling, dirty, cache, drawn, requests, closed>>

\* The list without a record, and with it put first by a new startedAt.
Without(a) ==
    IF a \in ToSet(order) THEN RemoveAt(order, CHOOSE i \in DOMAIN order : order[i] = a)
    ELSE order
First(a) == <<a>> \o Without(a)

\* spawn and startAgent.
Starts(a) ==
    /\ Open
    /\ \/ /\ status[a] = "none" /\ a \in Queued
          /\ status' = [status EXCEPT ![a] = "queued"] /\ UNCHANGED runs
       \/ /\ status[a] = "queued" \/ (status[a] = "none" /\ a \notin Queued)
          /\ status' = [status EXCEPT ![a] = "running"] /\ runs' = runs \cup {a}
    /\ order' = First(a)
    /\ UNCHANGED <<pending, resumes, loose>> /\ OnlyRecords

\* The run of an agent ends; a record that was stopped stays so.
Ends(a) ==
    /\ Open /\ a \in runs
    /\ runs' = runs \ {a}
    /\ status' = [status EXCEPT ![a] = IF @ = "stopped" THEN @ ELSE "completed"]
    /\ UNCHANGED <<order, pending, resumes, loose>> /\ OnlyRecords

\* manager.abort, called by others than the dashboard.
Stops(a) ==
    /\ Open /\ a \in ToSet(order) /\ status[a] \in Live
    /\ status' = [status EXCEPT ![a] = "stopped"]
    /\ UNCHANGED <<order, runs, pending, resumes, loose>> /\ OnlyRecords

\* manager.resume, until it awaits: whatever the status of the record is.
Resumes(a) ==
    /\ Open /\ a \in ToSet(order) \cap Sessions /\ status[a] \notin {"none", "queued"}
    /\ resumes < MaxResumes /\ resumes' = resumes + 1
    /\ status' = [status EXCEPT ![a] = "running"] /\ order' = First(a)
    /\ pending' = [pending EXCEPT ![a] = @ + 1]
    /\ loose' = loose \cup {a}
    /\ UNCHANGED runs /\ OnlyRecords

\* The rest of resume: it overwrites every status, of a removed record too.
ResumeEnds(a) ==
    /\ Open /\ pending[a] > 0
    /\ status' = [status EXCEPT ![a] = "completed"]
    /\ pending' = [pending EXCEPT ![a] = @ - 1]
    /\ UNCHANGED <<order, runs, resumes, loose>> /\ OnlyRecords

Gone == {a \in Agents : status[a] # "none" /\ a \notin ToSet(order)}

\* cleanup and clearCompleted; a removed record keeps its status.
Removed(a) ==
    /\ Open /\ status[a] \in {"completed", "stopped"} /\ a \in ToSet(order)
    /\ Cardinality(Gone) < MaxRemoved
    /\ order' = Without(a)
    /\ UNCHANGED <<status, runs, pending, resumes, loose>> /\ OnlyRecords

\* With the session; the dashboard of the next session is another one.
SchedulerStops ==
    /\ Open /\ scheduling
    /\ scheduling' = FALSE
    /\ UNCHANGED <<records, selection, views, dirty, cache, drawn, requests, closed>>

-----------------------------------------------------------------------------
(* Refreshing and rendering.                                               *)

Clamped == IF order = <<>> THEN 0 ELSE IF cursor >= Len(order) THEN Len(order) - 1 ELSE cursor

\* refreshAgents, with these statuses and marks.
RefreshesList(st, chosen) ==
    LET now == Snapshot(order, st)
        same == now = hash
    IN  /\ hash' = now
        /\ cursor' = (IF same THEN cursor ELSE Clamped)
        /\ marks' = (IF same THEN chosen ELSE chosen \cap ToSet(order))
        /\ loose' = (IF same THEN loose ELSE {a \in Agents : pending[a] > 0})

Refreshes(st, chosen) ==
    RefreshesList(st, chosen) /\ dirty' = (dirty \/ Snapshot(order, st) # hash)

\* requestRender, with the microtask it queues: nothing comes between the end
\* of the callback and the microtask, and no callback closes after a request.
\* The last render may have been asked for less than 16 ms ago.
RequestRender ==
    \/ asked' = TRUE /\ UNCHANGED coalescing
    \/ coalescing' = TRUE /\ UNCHANGED asked

NoRequest == UNCHANGED requests

\* The branch render takes.
Showing ==
    IF "tree" \in views THEN "tree"
    ELSE IF "schedules" \in views /\ scheduling THEN "schedules"
    ELSE IF "help" \in views THEN "help"
    ELSE IF "perf" \in views THEN "perf"
    ELSE IF listed = <<>> THEN "empty"
    ELSE IF "top" \in views THEN "top"
    ELSE "list"

\* hasRunningAgents, by the live records.
Running == \E a \in ToSet(listed) : status[a] \in Live

MustRebuild == dirty \/ cache = NoBody

\* Mutant: the timer is not restarted when no agent runs.
TickWhileRunning ==
    /\ Open /\ Running
    /\ Refreshes(status, marks)
    /\ \E third \in BOOLEAN : IF dirty' \/ third THEN RequestRender ELSE NoRequest
    /\ UNCHANGED <<records, views, scheduling, cache, drawn, closed>>

\* The refresh timer; it restarts itself until the dashboard is closed.
RefreshTick ==
    /\ Open
    /\ Refreshes(status, marks)
    /\ \E third \in BOOLEAN : IF dirty' \/ third THEN RequestRender ELSE NoRequest
    /\ UNCHANGED <<records, views, scheduling, cache, drawn, closed>>

OnlyRequests == UNCHANGED <<records, selection, views, scheduling, dirty, cache, drawn, closed>>

\* lastRenderTime is forgotten, so that the request is not put off again.
CoalesceFires ==
    /\ Open /\ coalescing
    /\ coalescing' = FALSE /\ asked' = TRUE
    /\ OnlyRequests

\* The host calls render, because it was asked or for reasons of its own.  While
\* an agent runs, the lines are also rebuilt when the spinner has advanced.
Render ==
    /\ Open
    /\ \/ /\ Showing = "list" /\ (MustRebuild \/ Running)
          /\ cache' = [list |-> Snapshot(listed, status), cursor |-> cursor, marks |-> marks]
       \/ ~(Showing = "list" /\ MustRebuild) /\ UNCHANGED cache
    /\ drawn' = (Showing = "list")
    /\ dirty' = FALSE /\ asked' = FALSE
    /\ UNCHANGED <<records, selection, views, scheduling, coalescing, closed>>

-----------------------------------------------------------------------------
(* handleInput.  A key that types a character goes to the command line     *)
(* when that is open; any other key closes it and goes on.  The perf view  *)
(* lets only the keys that move pass.                                      *)

Overlay == views \cap {"help", "tree", "schedules"} # {}

\* Where a character key acts as a command of the dashboard.
Keys == Open /\ views \cap {"command", "perf"} = {}

\* Most keys change the views, mark the frame dirty and ask for a render.
Shows(flags) ==
    /\ views' = flags /\ dirty' = TRUE /\ RequestRender
    /\ UNCHANGED <<records, selection, scheduling, cache, drawn, closed>>

Close ==
    /\ closed' = TRUE /\ coalescing' = FALSE
    /\ UNCHANGED <<records, selection, views, scheduling, dirty, cache, drawn, asked>>

\* A character, or backspace, on the command line.
Types == Open /\ "command" \in views /\ Shows(views)

Slash == Open /\ "command" \notin views /\ Shows(views \cup {"command"})

\* executeCommand: the forms of "/perf" open, close or leave the perf view;
\* only "/perf reset" leaves the help view on.
Submit ==
    /\ Open /\ "command" \in views
    /\ \E flags \in {views, (views \cup {"perf"}) \ {"help"}, views \cup {"perf"}, views \ {"perf"}} :
          Shows(flags \ {"command"})

\* A key of no view while the perf view is on: it is swallowed.
Swallowed == Open /\ "perf" \in views /\ Shows(views \ {"command"})

\* Mutant: leaving an overlay does not mark the frame dirty.
BackClean ==
    /\ Open
    /\ views \cap {"command", "perf", "help", "tree", "schedules"} # {}
    /\ views' = (IF "command" \in views THEN views \ {"command"}
                 ELSE IF "perf" \in views THEN views \ {"perf"}
                 ELSE views \ {"help", "tree", "schedules"})
    /\ RequestRender
    /\ UNCHANGED <<records, selection, scheduling, dirty, cache, drawn, closed>>

\* escape, and q outside the command line: out of the innermost view.
Back ==
    /\ Open
    /\ \/ "command" \in views /\ Shows(views \ {"command"})
       \/ "command" \notin views /\ "perf" \in views /\ Shows(views \ {"perf"})
       \/ views \cap {"command", "perf"} = {} /\ Overlay
          /\ Shows(views \ {"help", "tree", "schedules"})

LeaveTop == Keys /\ ~Overlay /\ "top" \in views /\ Shows(views \ {"top"})

\* escape or q with nothing to leave, a dialog of the record under the cursor,
\* or the host disposing of the overlay.
Quit == Open /\ Close

\* up, down, home, end: they also pass the perf view and end a command.
Move ==
    /\ Open
    /\ views' = views \ {"command"}
    /\ IF Overlay
       THEN RequestRender /\ UNCHANGED cursor
       ELSE /\ cursor' \in ({cursor - 1, cursor + 1, Len(listed) - 1} \cap (0 .. Len(listed) - 1)) \cup {0}
            /\ NoRequest
    /\ dirty' = TRUE
    /\ UNCHANGED <<records, hash, marks, loose, scheduling, cache, drawn, closed>>

\* Space, K and w do nothing but repaint while an overlay is on.
OnOverlay == Keys /\ Overlay /\ Shows(views)

UnderCursor == {listed[i] : i \in DOMAIN listed \cap {cursor + 1}}

ToggleSelect ==
    /\ Keys /\ ~Overlay
    /\ \E a \in UnderCursor :
          marks' = IF a \in marks THEN marks \ {a} ELSE marks \cup {a}
    /\ dirty' = TRUE /\ RequestRender
    /\ UNCHANGED <<records, hash, cursor, loose, views, scheduling, cache, drawn, closed>>

\* The marked agents, or the one under the cursor; manager.abort stops those
\* that are live and still in the manager.  refreshAgents finds that changed,
\* and marks the frame dirty, unless they were stopped before a resume that no
\* refresh has seen.
Kill ==
    LET targets == IF marks # {} THEN marks ELSE UnderCursor
        hit == {a \in targets : a \in ToSet(order) /\ status[a] \in Live}
        after == [a \in Agents |-> IF a \in hit THEN "stopped" ELSE status[a]]
    IN  /\ Keys /\ ~Overlay /\ hit # {}
        /\ status' = after
        /\ Refreshes(after, {}) /\ RequestRender
        /\ UNCHANGED <<order, runs, pending, resumes, views, scheduling, cache, drawn, closed>>

\* r, outside the top view: the frame is dirty whatever was found.
RefreshKey ==
    /\ Keys /\ "top" \notin views
    /\ dirty' = TRUE /\ RefreshesList(status, marks) /\ RequestRender
    /\ UNCHANGED <<records, views, scheduling, cache, drawn, closed>>

\* t, r and the sort and page keys of the top view.
SortKey == Keys /\ "top" \in views /\ Shows(views)

\* Any other key, and those above with nothing to act on.
OtherKey ==
    /\ Open /\ "perf" \notin views
    /\ views' = views \ {"command"} /\ NoRequest
    /\ UNCHANGED <<records, selection, scheduling, dirty, cache, drawn, closed>>

Toggled(v, off) == IF v \in views THEN views \ {v} ELSE (views \ off) \cup {v}

Help == Keys /\ Shows(Toggled("help", {}))
Top  == Keys /\ "top" \notin views /\ Shows(Toggled("top", {"schedules", "tree"}))
Tree == Keys /\ Shows(Toggled("tree", {"top", "schedules", "help", "perf"}))
Schedules ==
    /\ Keys /\ scheduling
    /\ Shows(Toggled("schedules", {"top", "help", "perf", "tree"}))

-----------------------------------------------------------------------------
Input ==
    \/ Types \/ Slash \/ Submit \/ Swallowed \/ Back \/ LeaveTop \/ Quit
    \/ Move \/ OnOverlay \/ ToggleSelect \/ Kill \/ RefreshKey
    \/ SortKey \/ OtherKey \/ Help \/ Top \/ Tree \/ Schedules

\* What happens without the user.
Background ==
    \/ \E a \in Agents :
          Starts(a) \/ Ends(a) \/ Stops(a) \/ Resumes(a) \/ ResumeEnds(a) \/ Removed(a)
    \/ SchedulerStops
    \/ RefreshTick \/ CoalesceFires \/ Render

BoardNext ==
    \/ Background /\ UNCHANGED keys
    \/ keys < MaxKeys /\ Input /\ keys' = keys + 1

BoardSpec == BoardInit /\ [][BoardNext]_boardVars

\* Timers fire and the host renders when it was asked to.
Fairness ==
    /\ WF_boardVars(RefreshTick /\ UNCHANGED keys)
    /\ WF_boardVars(CoalesceFires /\ UNCHANGED keys)
    /\ WF_boardVars(asked /\ Render /\ UNCHANGED keys)

FairSpec == BoardSpec /\ Fairness

-----------------------------------------------------------------------------
(* Properties.                                                             *)

\* The lines show the same records in the same order, and of every record that
\* is not loose the same status: the hash of a record that was resumed may be
\* what it was before, though it was drawn as running between.
Agrees(lines, list) ==
    /\ DOMAIN lines = DOMAIN list
    /\ \A i \in DOMAIN list :
          lines[i] = list[i] \/ (lines[i][1] = list[i][1] /\ list[i][1] \in loose)

\* Whenever render would take the list from cachedBodyLines, they show the
\* cursor, the marks and the agents as the last refresh found them: every way
\* out of a view whose render has used up the dirty flag (render, line 988)
\* must set it again.  Left out are the status of loose records, the marks that
\* a kill has cleared while there are any, and the schedules, which disappear
\* by themselves when the scheduler stops.
CacheIsCurrent ==
    ~closed /\ Showing = "list" /\ "schedules" \notin views /\ ~MustRebuild =>
        /\ cache.cursor = cursor
        /\ cache.marks = marks \/ (marks = {} /\ loose # {})
        /\ hash = Snapshot(listed, status) => Agrees(cache.list, hash)

\* Once the dashboard stays on the list, what the manager's records have become
\* reaches the screen, the status of loose records excepted, though renders are
\* coalesced, skipped when nothing is dirty, and served from the cache
\* (refreshAgents, requestRender, render).
ChangeIsDrawn ==
    <>[](~closed /\ Showing = "list" /\ "schedules" \notin views)
        => <>[](drawn /\ Agrees(cache.list, Snapshot(order, status)))
=============================================================================

------------------------------ MODULE Settings ------------------------------
(***************************************************************************)
(* The settings of the extension (src/settings.ts): a global file and the  *)
(* file of the project, what a process makes of them when it starts, and   *)
(* what its menu (src/ui/settings-schema.ts) writes back.                  *)
(*                                                                         *)
(* Four kinds of keys go different ways through a save:                    *)
(*   - maxConcurrent stands for the keys that are always in the snapshot   *)
(*     and that the menu bounds as sanitize does;                          *)
(*   - the session limits are missing from the snapshot when unlimited,    *)
(*     have deprecated aliases and no ceiling in the menu;                 *)
(*   - defaultMaxTurns has 0 for unlimited and no ceiling in the menu;     *)
(*   - subagentModel stands for the keys that are in the file only.        *)
(* A save reads the project's file, truncates and writes it; several       *)
(* processes work in one project, and each may end at any point.           *)
(***************************************************************************)
EXTENDS Integers

CONSTANTS
    Processes,
    LimitKeys,      \* maxAgentsPerSession, maxTotalTurnsPerSession
    Models,         \* well-formed values of subagentModel
    Ceiling,        \* the largest number sanitize accepts
    DefaultConcurrent, DefaultTurns,  \* in memory before any file is read
    HandFiles,      \* what a user may write into a file by hand
    MenuNumbers,    \* what a user may enter in the menu
    MaxChanges,     \* bound on the changes by menu and by hand
    Absent, Empty, Malformed, None

ASSUME NumbersAssumption ==
    /\ MaxChanges \in Nat /\ Ceiling \in Nat \ {0} /\ MenuNumbers \subseteq Nat
    /\ DefaultConcurrent \in 1 .. Ceiling /\ DefaultTurns \in 1 .. Ceiling
ASSUME MarkersAssumption ==
    /\ Absent \notin Int \union Models
    /\ None \notin Processes

\* A file before it is read: any value, or none, under any key.
Raw == Int \union Models \union {Absent}
Content == [maxConcurrent : Raw, defaultMaxTurns : Raw, subagentModel : Raw,
            limit : [LimitKeys -> Raw], alias : [LimitKeys -> Raw]]

ASSUME FilesAssumption ==
    /\ HandFiles \subseteq Content /\ {Absent, Empty, Malformed} \intersect Content = {}
    /\ Absent # Empty /\ Absent # Malformed /\ Empty # Malformed

VARIABLES
    global,     \* the file in the agent directory, never written by the code
    project,    \* .pi/subagents.json
    memory,     \* of each process, what its setters hold
    pc,         \* "off", "idle", or where its saveAndEmitChanged is
    merged,     \* what it is about to write
    captured,   \* capturedLimits of index.ts, 0 for unlimited
    \* For the properties only:
    author,     \* the process whose choices the project's file holds
    handModel,  \* the subagentModel last written by hand
    disturbed,  \* a save met an unreadable file, another save or an edit
    unsaved,    \* the processes that have not saved since their start
    changes     \* changes made so far

vars == <<global, project, memory, pc, merged, captured,
          author, handModel, disturbed, unsaved, changes>>

Unlimited == [k \in LimitKeys |-> Absent]
Nothing == [maxConcurrent |-> Absent, defaultMaxTurns |-> Absent, subagentModel |-> Absent,
            limit |-> Unlimited, alias |-> Unlimited]

-----------------------------------------------------------------------------
(* Reading: sanitize, readSettingsFile, loadSettings.                      *)

\* validateInt.
IntIn(value, low) == IF value \in low .. Ceiling THEN value ELSE Absent

Sanitize(file) ==
    [maxConcurrent |-> IntIn(file.maxConcurrent, 1),
     defaultMaxTurns |-> IntIn(file.defaultMaxTurns, 0),
     subagentModel |-> IF file.subagentModel \in Models THEN file.subagentModel ELSE Absent,
     limit |-> [k \in LimitKeys |->
         IF IntIn(file.limit[k], 1) # Absent THEN IntIn(file.limit[k], 1)
                                             ELSE IntIn(file.alias[k], 1)],
     alias |-> Unlimited]

ReadSettings(file) == IF file \in {Absent, Empty, Malformed} THEN Nothing ELSE Sanitize(file)

Over(above, below) == IF above # Absent THEN above ELSE below

\* Key by key, the project before the global file.
Load ==
    LET p == ReadSettings(project)
        g == ReadSettings(global)
    IN  [maxConcurrent |-> Over(p.maxConcurrent, g.maxConcurrent),
         defaultMaxTurns |-> Over(p.defaultMaxTurns, g.defaultMaxTurns),
         subagentModel |-> Over(p.subagentModel, g.subagentModel),
         limit |-> [k \in LimitKeys |-> Over(p.limit[k], g.limit[k])],
         alias |-> Unlimited]

-----------------------------------------------------------------------------
(* What a process holds: maxConcurrent and the session limits in its       *)
(* manager, the default of turns in the runner (0 for undefined).  Once    *)
(* setSessionLimits was called every limit is a key of sessionLimits, and  *)
(* an unlimited one has the value undefined.                               *)

Fresh == [maxConcurrent |-> DefaultConcurrent, defaultMaxTurns |-> DefaultTurns,
          limitsSet |-> FALSE, limit |-> Unlimited]

\* applySettings.
Applied(s) ==
    [maxConcurrent |-> Over(s.maxConcurrent, DefaultConcurrent),
     defaultMaxTurns |-> Over(s.defaultMaxTurns, DefaultTurns),
     limitsSet |-> \E k \in LimitKeys : s.limit[k] # Absent,
     limit |-> s.limit]

\* extractCapturedDispatchLimits.
CapturedOf(s) == IF s.defaultMaxTurns = Absent THEN 0 ELSE s.defaultMaxTurns

\* { ...persistedFile, ...buildSettingsSnapshot() } as JSON, which drops
\* what is undefined; the file was read and has no aliases any more.
\* Mutant: what is undefined is dropped before the merge.
MergedKeeping(m, file) ==
    [maxConcurrent |-> m.maxConcurrent,
     defaultMaxTurns |-> m.defaultMaxTurns,
     subagentModel |-> file.subagentModel,
     limit |-> [k \in LimitKeys |-> Over(m.limit[k], file.limit[k])],
     alias |-> Unlimited]

\* Mutant: the snapshot alone is written.
MergedBare(m, file) ==
    [Nothing EXCEPT !.maxConcurrent = m.maxConcurrent,
                    !.defaultMaxTurns = m.defaultMaxTurns,
                    !.limit = m.limit]

Merged(m, file) ==
    [maxConcurrent |-> m.maxConcurrent,
     defaultMaxTurns |-> m.defaultMaxTurns,
     subagentModel |-> file.subagentModel,
     limit |-> IF m.limitsSet THEN m.limit ELSE file.limit,
     alias |-> Unlimited]

Init ==
    /\ global \in HandFiles \union {Absent}
    /\ project = Absent
    /\ memory = [p \in Processes |-> Fresh]
    /\ pc = [p \in Processes |-> "off"]
    /\ merged = [p \in Processes |-> Nothing]
    /\ captured = [p \in Processes |-> 0]
    /\ author = None
    /\ handModel = Absent
    /\ disturbed = FALSE
    /\ unsaved = {}
    /\ changes = 0

-----------------------------------------------------------------------------
(* The life of a process.                                                  *)

\* applyAndEmitLoaded and the lines after it in index.ts.
Start(p) ==
    /\ pc[p] = "off"
    /\ memory' = [memory EXCEPT ![p] = Applied(Load)]
    /\ captured' = [captured EXCEPT ![p] = CapturedOf(Load)]
    /\ pc' = [pc EXCEPT ![p] = "idle"]
    /\ unsaved' = unsaved \union {p}
    /\ UNCHANGED <<global, project, merged, author, handModel, disturbed, changes>>

\* It ends, in the middle of a save too.
Exit(p) ==
    /\ pc[p] # "off"
    /\ pc' = [pc EXCEPT ![p] = "off"]
    /\ memory' = [memory EXCEPT ![p] = Fresh]
    /\ merged' = [merged EXCEPT ![p] = Nothing]
    /\ captured' = [captured EXCEPT ![p] = 0]
    /\ author' = IF author = p THEN None ELSE author
    /\ unsaved' = unsaved \ {p}
    /\ UNCHANGED <<global, project, handModel, disturbed, changes>>

-----------------------------------------------------------------------------
(* The menu.  An accepted entry goes to the setter, and saveAndEmitChanged *)
(* reads the file and merges the snapshot over it.                         *)

\* The bound.
Change == changes < MaxChanges /\ changes' = changes + 1

Saving(p) == pc[p] \in {"merged", "writing"}

Apply(p, m) ==
    /\ Change /\ pc[p] = "idle"
    /\ memory' = [memory EXCEPT ![p] = m]
    /\ merged' = [merged EXCEPT ![p] = Merged(m, ReadSettings(project))]
    /\ pc' = [pc EXCEPT ![p] = "merged"]
    /\ author' = IF author = p THEN None ELSE author
    /\ disturbed' = (disturbed \/ project \in {Empty, Malformed} \/ \E q \in Processes : Saving(q))
    /\ UNCHANGED <<global, project, captured, handModel, unsaved>>

\* intEntry: the bounds are sanitize's.
SetMaxConcurrent(p, n) ==
    n \in 1 .. Ceiling /\ Apply(p, [memory[p] EXCEPT !.maxConcurrent = n])

\* setSessionLimits, always with all of them; 0 is unlimited.
SetSessionLimits(p, choice) ==
    Apply(p, [memory[p] EXCEPT !.limitsSet = TRUE,
                  !.limit = [k \in LimitKeys |-> IF choice[k] = 0 THEN Absent ELSE choice[k]]])

SetDefaultMaxTurns(p, n) ==
    Apply(p, [memory[p] EXCEPT !.defaultMaxTurns = n])

\* writeFileSync truncates the file and then writes.
Truncate(p) ==
    /\ pc[p] = "merged"
    /\ project' = Empty
    /\ pc' = [pc EXCEPT ![p] = "writing"]
    /\ author' = None
    /\ UNCHANGED <<global, memory, merged, captured, handModel, disturbed, unsaved, changes>>

\* Mutant: the listener loads the settings from the files.
EmittedReload(p) ==
    /\ captured' = [captured EXCEPT ![p] = CapturedOf(Load)]
    /\ pc' = [pc EXCEPT ![p] = "idle"]
    /\ merged' = [merged EXCEPT ![p] = Nothing]
    /\ unsaved' = unsaved \ {p}

\* settings_changed is emitted whether or not the file was written; the
\* listener compares with what it has captured.
Emitted(p) ==
    /\ captured' = [captured EXCEPT ![p] = CapturedOf(merged[p])]
    /\ pc' = [pc EXCEPT ![p] = "idle"]
    /\ merged' = [merged EXCEPT ![p] = Nothing]
    /\ unsaved' = unsaved \ {p}

\* When another process has written meanwhile, the end of a longer text stays
\* behind this one; when an editor has replaced the file, nothing is seen.
Write(p) ==
    /\ pc[p] = "writing"
    /\ \/ project' = merged[p] /\ author' = p
       \/ project # Empty /\ project' = Malformed /\ author' = None
       \/ project # Empty /\ UNCHANGED <<project, author>>
    /\ Emitted(p)
    /\ UNCHANGED <<global, memory, handModel, disturbed, changes>>

\* mkdirSync or writeFileSync throws.
SaveFails(p) ==
    /\ Saving(p)
    /\ Emitted(p)
    /\ UNCHANGED <<global, project, memory, author, handModel, disturbed, changes>>

-----------------------------------------------------------------------------
(* The user's editor.                                                      *)

EditProject(file) ==
    /\ Change /\ file # project
    /\ project' = file
    /\ author' = None
    /\ handModel' = ReadSettings(file).subagentModel
    /\ disturbed' = \E p \in Processes : Saving(p)
    /\ UNCHANGED <<global, memory, pc, merged, captured, unsaved>>

EditGlobal(file) ==
    /\ Change /\ file # global
    /\ global' = file
    /\ UNCHANGED <<project, memory, pc, merged, captured, author, handModel, disturbed, unsaved>>

Next ==
    \/ \E p \in Processes :
          \/ Start(p) \/ Exit(p) \/ Truncate(p) \/ Write(p) \/ SaveFails(p)
          \/ \E n \in MenuNumbers : SetMaxConcurrent(p, n) \/ SetDefaultMaxTurns(p, n)
          \/ \E choice \in [LimitKeys -> MenuNumbers] : SetSessionLimits(p, choice)
    \/ \E file \in HandFiles \union {Absent, Malformed} : EditProject(file) \/ EditGlobal(file)

Spec == Init /\ [][Next]_vars

-----------------------------------------------------------------------------
(* Properties.                                                             *)

Memory == [maxConcurrent : Nat, defaultMaxTurns : Nat, limitsSet : BOOLEAN,
           limit : [LimitKeys -> Nat \union {Absent}]]

TypeOK ==
    /\ global \in Content \union {Absent, Malformed}
    /\ project \in Content \union {Absent, Empty, Malformed}
    /\ memory \in [Processes -> Memory]
    /\ pc \in [Processes -> {"off", "idle", "merged", "writing"}]
    /\ merged \in [Processes -> Content]
    /\ captured \in [Processes -> Nat]
    /\ author \in Processes \union {None}
    /\ handModel \in Models \union {Absent}
    /\ disturbed \in BOOLEAN
    /\ unsaved \subseteq Processes
    /\ changes \in 0 .. MaxChanges

\* What was chosen in the menu and could be saved is what the next start
\* applies.  Two kinds of choices do not come back: numbers above the
\* ceiling, which the menu accepts and sanitize drops, and "unlimited" for a
\* session limit the global file sets, which leaves no trace in the project's.
RestartRestores ==
    author # None =>
        LET next == Applied(Load)
            now == memory[author]
        IN  /\ next.maxConcurrent = now.maxConcurrent
            /\ next.defaultMaxTurns = now.defaultMaxTurns \/ now.defaultMaxTurns > Ceiling
            /\ now.limitsSet => \A k \in LimitKeys :
                  \/ next.limit[k] = now.limit[k]
                  \/ now.limit[k] = Absent /\ ReadSettings(global).limit[k] # Absent
                  \/ now.limit[k] \notin {Absent} \union 0 .. Ceiling

\* A setting the menu does not know survives every save, whatever keys it
\* changes, unless a save met a file that was damaged or just truncated, an edit
\* between its read and its write, or another save that it overlapped.
FileOnlySurvives ==
    ~disturbed /\ project \in Content
        => ReadSettings(project).subagentModel = handModel

\* A user hears of a changed default of turns once and of nothing else: what
\* was last told is what is in force.  The exception is the first save of a
\* process no file gave a default: it starts with DefaultTurns in force and
\* "unlimited" captured, and announces a change that did not happen.
NoticesFit ==
    \A p \in Processes :
        pc[p] = "idle" =>
            \/ captured[p] = memory[p].defaultMaxTurns
            \/ p \in unsaved /\ captured[p] = 0 /\ memory[p].defaultMaxTurns = DefaultTurns
=============================================================================

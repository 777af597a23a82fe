--------------------------- MODULE SettingsProofs ---------------------------
(***************************************************************************)
(* Proofs about Settings, for any processes, limits and contents of files. *)
(* A file the menu has written agrees with the memory of the process that  *)
(* wrote it (Agrees), from the merge until somebody else changes either;   *)
(* while no save is disturbed, the one in progress carries the model that  *)
(* was last written by hand.                                               *)
(***************************************************************************)
EXTENDS Settings, TLAPS

\* What reading a file can give.
Clean == [maxConcurrent : 1 .. Ceiling \union {Absent},
          defaultMaxTurns : 0 .. Ceiling \union {Absent},
          subagentModel : Models \union {Absent},
          limit : [LimitKeys -> 1 .. Ceiling \union {Absent}],
          alias : {Unlimited}]

Held == [maxConcurrent : 1 .. Ceiling, defaultMaxTurns : Nat, limitsSet : BOOLEAN,
         limit : [LimitKeys -> (Nat \ {0}) \union {Absent}]]

Agrees(file, m) ==
    /\ file.maxConcurrent = m.maxConcurrent
    /\ file.defaultMaxTurns = m.defaultMaxTurns
    /\ m.limitsSet => file.limit = m.limit
    /\ file.alias = Unlimited

Types ==
    /\ project \in Content \union {Absent, Empty, Malformed}
    /\ memory \in [Processes -> Held]
    /\ pc \in [Processes -> {"off", "idle", "merged", "writing"}]
    /\ merged \in [Processes -> Content]
    /\ captured \in [Processes -> Nat]
    /\ author \in Processes \union {None}
    /\ handModel \in Models \union {Absent}
    /\ disturbed \in BOOLEAN

MergedAgrees == \A p \in Processes : Saving(p) => Agrees(merged[p], memory[p])

AuthorAgrees ==
    author # None =>
        /\ pc[author] = "idle"
        /\ project \in Content
        /\ Agrees(project, memory[author])

ModelKept ==
    ~disturbed =>
        /\ \A p, q \in Processes : Saving(p) /\ Saving(q) => p = q
        /\ \A p \in Processes : Saving(p) => merged[p].subagentModel = handModel
        /\ project \in Content \union {Absent} => ReadSettings(project).subagentModel = handModel

IInv == Types /\ MergedAgrees /\ AuthorAgrees /\ ModelKept /\ NoticesFit

-----------------------------------------------------------------------------
(* What reading, applying and merging return.                              *)

LEMMA NothingIsClean ==
    /\ Nothing \in Clean
    /\ Nothing.subagentModel = Absent
BY DEF Nothing, Clean, Unlimited

LEMMA SanitizeCleans == ASSUME NEW file PROVE Sanitize(file) \in Clean
BY NumbersAssumption DEF Sanitize, IntIn, Nothing, Clean, Unlimited

LEMMA ReadIsClean == ASSUME NEW file PROVE ReadSettings(file) \in Clean
BY SanitizeCleans, NothingIsClean DEF ReadSettings

\* Reading gives the numbers back that are in range, and never an alias.
LEMMA SanitizeKeeps ==
    ASSUME NEW file, file.alias = Unlimited
    PROVE  LET s == Sanitize(file) IN
           /\ file.maxConcurrent \in 1 .. Ceiling => s.maxConcurrent = file.maxConcurrent
           /\ file.defaultMaxTurns \in 0 .. Ceiling => s.defaultMaxTurns = file.defaultMaxTurns
           /\ \A k \in LimitKeys :
                 s.limit[k] = IF file.limit[k] \in 1 .. Ceiling THEN file.limit[k] ELSE Absent
<1>1. Absent \notin 1 .. Ceiling
    BY MarkersAssumption, NumbersAssumption
<1>2. QED
    BY <1>1 DEF Sanitize, IntIn, Nothing, Unlimited

LEMMA LoadIsClean == Load \in Clean
<1>1. ReadSettings(project) \in Clean /\ ReadSettings(global) \in Clean
    BY ReadIsClean
<1>2. QED
    BY <1>1 DEF Load, Over, Clean, Nothing, Unlimited

LEMMA AppliedIsHeld == ASSUME NEW s \in Clean PROVE Applied(s) \in Held
BY NumbersAssumption, MarkersAssumption DEF Applied, Over, Clean, Held

LEMMA FreshIsHeld == Fresh \in Held
BY NumbersAssumption DEF Fresh, Held, Unlimited

LEMMA CapturedFits ==
    ASSUME NEW s \in Clean
    PROVE  /\ CapturedOf(s) \in Nat
           /\ \/ CapturedOf(s) = Applied(s).defaultMaxTurns
              \/ CapturedOf(s) = 0 /\ Applied(s).defaultMaxTurns = DefaultTurns
BY NumbersAssumption DEF CapturedOf, Applied, Over, Clean

LEMMA MergedFits ==
    ASSUME NEW m \in Held, NEW file \in Clean
    PROVE  /\ Merged(m, file) \in Content
           /\ Agrees(Merged(m, file), m)
           /\ Merged(m, file).subagentModel = file.subagentModel
BY NumbersAssumption DEF Merged, Held, Clean, Content, Raw, Agrees, Unlimited

LEMMA NothingIsContent == Nothing \in Content
BY DEF Nothing, Unlimited, Content, Raw

\* Contents and the other states of a file are different.
LEMMA ContentIsRead ==
    ASSUME NEW file \in Content
    PROVE  ReadSettings(file) = Sanitize(file)
BY FilesAssumption DEF ReadSettings

LEMMA ModelIsRead ==
    ASSUME NEW file \in Content, file.subagentModel \in Models \union {Absent}
    PROVE  ReadSettings(file).subagentModel = file.subagentModel
BY ContentIsRead DEF Sanitize, Nothing

-----------------------------------------------------------------------------
(* Every step keeps the invariant.                                         *)

LEMMA InitInv == ASSUME Init PROVE IInv
<1>1. Types
    BY FreshIsHeld, NothingIsContent DEF Init, Types
<1>2. MergedAgrees /\ AuthorAgrees /\ NoticesFit
    BY DEF Init, MergedAgrees, AuthorAgrees, NoticesFit, Saving
<1>3. ModelKept
    BY FilesAssumption, NothingIsClean DEF Init, ModelKept, Saving, ReadSettings
<1>4. QED
    BY <1>1, <1>2, <1>3 DEF IInv

LEMMA StartStep == ASSUME IInv, NEW p \in Processes, Start(p) PROVE IInv'
<1> USE DEF IInv, Start, Types
<1>1. /\ Applied(Load) \in Held
      /\ CapturedOf(Load) \in Nat
      /\ \/ CapturedOf(Load) = Applied(Load).defaultMaxTurns
         \/ CapturedOf(Load) = 0 /\ Applied(Load).defaultMaxTurns = DefaultTurns
    BY LoadIsClean, AppliedIsHeld, CapturedFits
<1>2. Types'
    BY <1>1
<1>3. MergedAgrees'
    BY DEF MergedAgrees, Saving
<1>4. AuthorAgrees'
    BY DEF AuthorAgrees
<1>5. ModelKept'
    BY DEF ModelKept, Saving
<1>6. NoticesFit'
    BY <1>1 DEF NoticesFit
<1>7. QED
    BY <1>2, <1>3, <1>4, <1>5, <1>6

LEMMA ExitStep == ASSUME IInv, NEW p \in Processes, Exit(p) PROVE IInv'
<1> USE DEF IInv, Exit, Types
<1>1. Types'
    BY FreshIsHeld, NothingIsContent
<1>2. MergedAgrees'
    BY DEF MergedAgrees, Saving
<1>3. AuthorAgrees'
    BY MarkersAssumption DEF AuthorAgrees
<1>4. ModelKept'
    BY DEF ModelKept, Saving
<1>5. NoticesFit'
    BY DEF NoticesFit
<1>6. QED
    BY <1>1, <1>2, <1>3, <1>4, <1>5

LEMMA ApplyStep ==
    ASSUME IInv, NEW p \in Processes, NEW m \in Held, Apply(p, m)
    PROVE  IInv'
<1> USE DEF IInv, Apply, Types
<1>1. /\ Merged(m, ReadSettings(project)) \in Content
      /\ Agrees(Merged(m, ReadSettings(project)), m)
      /\ Merged(m, ReadSettings(project)).subagentModel = ReadSettings(project).subagentModel
    BY ReadIsClean, MergedFits
<1>2. Types'
    BY <1>1
<1>3. MergedAgrees'
    BY <1>1 DEF MergedAgrees, Saving
<1>4. AuthorAgrees'
    BY MarkersAssumption DEF AuthorAgrees
<1>5. ModelKept'
    <2>1. ~disturbed' => ~disturbed /\ project \in Content \union {Absent}
                            /\ \A q \in Processes : ~Saving(q)
        OBVIOUS
    <2>2. ~disturbed' => \A q \in Processes : Saving(q)' => q = p
        BY <2>1 DEF Saving
    <2>3. QED
        BY <1>1, <2>1, <2>2 DEF ModelKept, Saving
<1>6. NoticesFit'
    BY DEF NoticesFit
<1>7. QED
    BY <1>2, <1>3, <1>4, <1>5, <1>6

LEMMA MenuStep ==
    ASSUME IInv, NEW p \in Processes,
           \/ \E n \in MenuNumbers : SetMaxConcurrent(p, n) \/ SetDefaultMaxTurns(p, n)
           \/ \E choice \in [LimitKeys -> MenuNumbers] : SetSessionLimits(p, choice)
    PROVE  IInv'
<1>1. memory[p] \in Held
    BY DEF IInv, Types
<1>2. ASSUME NEW n \in MenuNumbers, SetMaxConcurrent(p, n) PROVE IInv'
    <2>1. [memory[p] EXCEPT !.maxConcurrent = n] \in Held
        BY <1>1, <1>2 DEF SetMaxConcurrent, Held
    <2>2. QED
        BY <1>2, <2>1, ApplyStep DEF SetMaxConcurrent
<1>3. ASSUME NEW n \in MenuNumbers, SetDefaultMaxTurns(p, n) PROVE IInv'
    <2>1. [memory[p] EXCEPT !.defaultMaxTurns = n] \in Held
        BY <1>1, NumbersAssumption DEF Held
    <2>2. QED
        BY <1>3, <2>1, ApplyStep DEF SetDefaultMaxTurns
<1>4. ASSUME NEW choice \in [LimitKeys -> MenuNumbers], SetSessionLimits(p, choice)
      PROVE  IInv'
    <2> DEFINE limit == [k \in LimitKeys |-> IF choice[k] = 0 THEN Absent ELSE choice[k]]
    <2>1. limit \in [LimitKeys -> (Nat \ {0}) \union {Absent}]
        BY NumbersAssumption
    <2> HIDE DEF limit
    <2>2. [memory[p] EXCEPT !.limitsSet = TRUE, !.limit = limit] \in Held
        BY <1>1, <2>1 DEF Held
    <2>3. Apply(p, [memory[p] EXCEPT !.limitsSet = TRUE, !.limit = limit])
        BY <1>4 DEF SetSessionLimits, limit
    <2>4. QED
        BY <2>2, <2>3, ApplyStep
<1>5. QED
    BY <1>2, <1>3, <1>4

LEMMA TruncateStep == ASSUME IInv, NEW p \in Processes, Truncate(p) PROVE IInv'
<1> USE DEF IInv, Truncate, Types
<1>1. Types'
    OBVIOUS
<1>2. MergedAgrees'
    BY DEF MergedAgrees, Saving
<1>3. AuthorAgrees'
    BY DEF AuthorAgrees
<1>4. ModelKept'
    BY FilesAssumption DEF ModelKept, Saving
<1>5. NoticesFit'
    BY DEF NoticesFit
<1>6. QED
    BY <1>1, <1>2, <1>3, <1>4, <1>5

\* What a process tells its listener at the end of a save.
LEMMA EmittedStep ==
    ASSUME IInv, NEW p \in Processes, Saving(p), Emitted(p), UNCHANGED memory
    PROVE  /\ captured' \in [Processes -> Nat]
           /\ merged' \in [Processes -> Content]
           /\ pc' \in [Processes -> {"off", "idle", "merged", "writing"}]
           /\ MergedAgrees'
           /\ NoticesFit'
<1> USE DEF IInv, Emitted, Types
<1>1. merged[p].defaultMaxTurns = memory[p].defaultMaxTurns
    BY DEF MergedAgrees, Agrees
<1>2. memory[p].defaultMaxTurns \in Nat
    BY DEF Held
<1>3. CapturedOf(merged[p]) = memory[p].defaultMaxTurns
    BY <1>1, <1>2, MarkersAssumption DEF CapturedOf
<1>4. captured' \in [Processes -> Nat] /\ merged' \in [Processes -> Content]
    BY <1>2, <1>3, NothingIsContent
<1>5. MergedAgrees'
    BY DEF MergedAgrees, Saving
<1>6. NoticesFit'
    BY <1>3 DEF NoticesFit
<1>7. QED
    BY <1>4, <1>5, <1>6

LEMMA WriteStep == ASSUME IInv, NEW p \in Processes, Write(p) PROVE IInv'
<1> USE DEF IInv, Types
<1>1. Saving(p)
    BY DEF Write, Saving
<1>2. /\ captured' \in [Processes -> Nat]
      /\ merged' \in [Processes -> Content]
      /\ pc' \in [Processes -> {"off", "idle", "merged", "writing"}]
      /\ MergedAgrees' /\ NoticesFit'
    BY <1>1, EmittedStep DEF Write
<1>3. merged[p] \in Content /\ Agrees(merged[p], memory[p])
    BY <1>1 DEF MergedAgrees
<1>4. Types'
    BY <1>2, <1>3 DEF Write
<1>5. AuthorAgrees'
    BY <1>3, MarkersAssumption DEF Write, Emitted, AuthorAgrees
<1>6. ModelKept'
    <2>1. ~disturbed => merged[p].subagentModel = handModel
        BY <1>1 DEF ModelKept
    <2>2. project' = merged[p] /\ ~disturbed => ReadSettings(project').subagentModel = handModel
        BY <1>3, <2>1, ModelIsRead
    <2>3. QED
        BY <2>1, <2>2, FilesAssumption DEF Write, Emitted, ModelKept, Saving
<1>7. QED
    BY <1>2, <1>4, <1>5, <1>6

LEMMA SaveFailsStep == ASSUME IInv, NEW p \in Processes, SaveFails(p) PROVE IInv'
<1> USE DEF IInv, Types
<1>1. /\ captured' \in [Processes -> Nat]
      /\ merged' \in [Processes -> Content]
      /\ pc' \in [Processes -> {"off", "idle", "merged", "writing"}]
      /\ MergedAgrees' /\ NoticesFit'
    BY EmittedStep DEF SaveFails
<1>2. Types'
    BY <1>1 DEF SaveFails
<1>3. AuthorAgrees'
    BY DEF SaveFails, Emitted, AuthorAgrees
<1>4. ModelKept'
    BY DEF SaveFails, Emitted, ModelKept, Saving
<1>5. QED
    BY <1>1, <1>2, <1>3, <1>4

LEMMA EditStep ==
    ASSUME IInv, NEW file \in HandFiles \union {Absent, Malformed},
           EditProject(file) \/ EditGlobal(file)
    PROVE  IInv'
<1> USE DEF IInv, Types
<1>1. CASE EditProject(file)
    <2>1. Types' /\ AuthorAgrees'
        BY <1>1, ReadIsClean, FilesAssumption, MarkersAssumption
           DEF EditProject, AuthorAgrees, Clean
    <2>2. MergedAgrees' /\ NoticesFit'
        BY <1>1 DEF EditProject, MergedAgrees, NoticesFit, Saving
    <2>3. ModelKept'
        BY <1>1 DEF EditProject, ModelKept, Saving
    <2>4. QED
        BY <2>1, <2>2, <2>3
<1>2. CASE EditGlobal(file)
    BY <1>2 DEF EditGlobal, MergedAgrees, AuthorAgrees, ModelKept, NoticesFit, Saving
<1>3. QED
    BY <1>1, <1>2

LEMMA NextInv == ASSUME IInv, [Next]_vars PROVE IInv'
<1>1. ASSUME NEW p \in Processes,
             Start(p) \/ Exit(p) \/ Truncate(p) \/ Write(p) \/ SaveFails(p)
      PROVE  IInv'
    BY <1>1, StartStep, ExitStep, TruncateStep, WriteStep, SaveFailsStep
<1>2. CASE UNCHANGED vars
    BY <1>2 DEF vars, IInv, Types, MergedAgrees, AuthorAgrees, ModelKept, NoticesFit, Saving
<1>3. QED
    BY <1>1, <1>2, MenuStep, EditStep DEF Next

-----------------------------------------------------------------------------
(* The theorems.                                                           *)

THEOREM InvariantHolds == Spec => []IInv
<1>1. Init => IInv
    BY InitInv
<1>2. IInv /\ [Next]_vars => IInv'
    BY NextInv
<1>3. QED
    BY <1>1, <1>2, PTL DEF Spec

\* A file that holds the choices of a process gives them back when the next
\* process reads it: loadSettings and applySettings undo
\* buildSettingsSnapshot and saveAndEmitChanged, but for the two cases
\* RestartRestores names.
LEMMA AgreedIsRestored == ASSUME IInv PROVE RestartRestores
<1> SUFFICES ASSUME author # None
             PROVE  LET next == Applied(Load)
                        now == memory[author]
                    IN  /\ next.maxConcurrent = now.maxConcurrent
                        /\ next.defaultMaxTurns = now.defaultMaxTurns \/ now.defaultMaxTurns > Ceiling
                        /\ now.limitsSet => \A k \in LimitKeys :
                              \/ next.limit[k] = now.limit[k]
                              \/ now.limit[k] = Absent /\ ReadSettings(global).limit[k] # Absent
                              \/ now.limit[k] \notin {Absent} \union 0 .. Ceiling
    BY DEF RestartRestores
<1> DEFINE now == memory[author]
           file == ReadSettings(project)
<1>1. now \in Held /\ Agrees(project, now) /\ project \in Content
    BY DEF IInv, Types, AuthorAgrees
<1>2. /\ now.maxConcurrent \in 1 .. Ceiling
      /\ now.defaultMaxTurns \in Nat
      /\ now.limit \in [LimitKeys -> (Nat \ {0}) \union {Absent}]
    BY <1>1 DEF Held
<1>3. /\ file.maxConcurrent = now.maxConcurrent
      /\ now.defaultMaxTurns \in 0 .. Ceiling => file.defaultMaxTurns = now.defaultMaxTurns
      /\ now.limitsSet => \A k \in LimitKeys :
            file.limit[k] = IF now.limit[k] \in 1 .. Ceiling THEN now.limit[k] ELSE Absent
    BY <1>1, <1>2, ContentIsRead, SanitizeKeeps DEF Agrees
<1> HIDE DEF now, file
<1>4. Absent \notin Int /\ Ceiling \in Nat
    BY MarkersAssumption, NumbersAssumption
<1>5. /\ Applied(Load).maxConcurrent = now.maxConcurrent
      /\ now.defaultMaxTurns \in 0 .. Ceiling => Applied(Load).defaultMaxTurns = now.defaultMaxTurns
    BY <1>2, <1>3, <1>4 DEF Applied, Load, Over, file
<1>6. \A k \in LimitKeys :
        Applied(Load).limit[k] = IF file.limit[k] # Absent THEN file.limit[k]
                                                          ELSE ReadSettings(global).limit[k]
    BY DEF Applied, Load, Over, file
<1>7. now.defaultMaxTurns \in 0 .. Ceiling \/ now.defaultMaxTurns > Ceiling
    BY <1>2, <1>4
<1>8. ASSUME now.limitsSet, NEW k \in LimitKeys
      PROVE  \/ Applied(Load).limit[k] = now.limit[k]
             \/ now.limit[k] = Absent /\ ReadSettings(global).limit[k] # Absent
             \/ now.limit[k] \notin {Absent} \union 0 .. Ceiling
    BY <1>2, <1>3, <1>4, <1>6, <1>8
<1>9. QED
    BY <1>5, <1>7, <1>8 DEF now

\* What the menu saved is what the next start applies.
THEOREM ChoicesReturn == Spec => []RestartRestores
BY InvariantHolds, AgreedIsRestored, PTL

\* A setting only the file knows survives every undisturbed save.
THEOREM FileOnlyKept == Spec => []FileOnlySurvives
<1>1. IInv => FileOnlySurvives
    BY DEF IInv, ModelKept, FileOnlySurvives
<1>2. QED
    BY <1>1, InvariantHolds, PTL

\* A process has told its user the default of turns that is in force.
THEOREM NoticesAreTrue == Spec => []NoticesFit
<1>1. IInv => NoticesFit
    BY DEF IInv
<1>2. QED
    BY <1>1, InvariantHolds, PTL
=============================================================================

-------------------------- MODULE AgentRunnerProofs --------------------------
(***************************************************************************)
(* What a run does and what it is given.                                   *)
(*                                                                         *)
(* AgentRunner: types and budgets, the end hook's gate, the reporting of   *)
(* failures and the cause of an abort, for every number of runs, every     *)
(* kind of run and all bounds.                                             *)
(*                                                                         *)
(* AgentTools: its tools and what its prompt says of them, for all         *)
(* configurations.                                                         *)
(***************************************************************************)
EXTENDS AgentRunner, AgentTools, FiniteSetTheorems, TLAPS

Breaker == [state : {"closed", "open", "half-open"}, failures : 0..Threshold, cooled : BOOLEAN]

\* What is left of the turns: the grace turns begin with the soft limit, and
\* whoever uses up the last one is aborted.
Within(R) ==
    /\ ~R.softLimit => R.turns < MaxTurns
    /\ ~R.aborted => R.turns < MaxTurns + GraceTurns

\* A cause without aborted is that of a token or tool quota whose session.abort()
\* has not returned, and the tokens are past their quota when they are the cause.
Caused(R) ==
    /\ R.reason \in {"duration_quota", "turn_budget"} => R.aborted
    /\ R.reason = "token_quota" => R.spent
    /\ R.reason # "none" => R.aborted \/ R.cutting

Core(R) == R \in Run /\ Within(R) /\ Caused(R)

\* The end hook passed what the run is about to return.
Gated(R) == R.kind.hooks /\ ~R.aborted => R.gate = "passed"

\* A failure that left no text is still known: to the session or to the run.
FailureKnown(R) == ~R.text /\ ~R.aborted /\ R.failed => R.last # "none" \/ R.exhausted

Reported(R) == ~R.text /\ ~R.aborted /\ R.failed => R.error

After == {"validating", "healing", "returned"}

\* What holds of one run between two steps.
RunOK(R) ==
    /\ Core(R)
    /\ R.at = "switching" => R.left > 0
    /\ R.at = "revision" => R.attempt <= RevisionBudget
    /\ R.at = "healing" => R.retries < ValidationRetries
    /\ R.at = "endHook" => FailureKnown(R)
    /\ R.at \in After => Gated(R) /\ Reported(R)

IInv ==
    /\ run = [r \in Runs |-> run[r]]
    /\ \A r \in Runs : RunOK(run[r])
    /\ breaker \in Breaker

\* A step of R to Q that is not an event of a prompt: it leaves the cause alone.
Kept(R, Q) ==
    (R.aborted => Q.aborted) /\ Q.reason = R.reason /\ Q.timedOut = R.timedOut

\* What AbortCauseIsKept says of a step of one run.
Follows(R, Q) ==
    /\ R.aborted => /\ Q.aborted
                    /\ Q.reason = R.reason
                    /\ Q.timedOut = R.timedOut
    /\ R.reason # "none" /\ Q.reason # R.reason =>
           R.cutting /\ <<R.reason, Q.reason>> \in Replaces

-----------------------------------------------------------------------------
(* The operators the steps of a run are made of.                           *)

\* Only the place of a run changes.
LEMMA GotoFacts ==
    ASSUME NEW R \in Run, NEW p \in Places
    PROVE  LET Q == [R EXCEPT !.at = p] IN
           /\ Q \in Run /\ Q.at = p
           /\ Within(R) => Within(Q)
           /\ Caused(R) => Caused(Q)
           /\ Kept(R, Q)
           /\ Gated(R) <=> Gated(Q)
           /\ FailureKnown(R) <=> FailureKnown(Q)
           /\ Reported(R) <=> Reported(Q)
           /\ Q.left = R.left /\ Q.attempt = R.attempt /\ Q.retries = R.retries
  BY DEF Run, Within, Caused, Kept, Gated, FailureKnown, Reported

LEMMA FinishedOK ==
    ASSUME NEW R, Core(R), Gated(R), FailureKnown(R)
    PROVE  RunOK(Finished(R)) /\ Kept(R, Finished(R))
<1> DEFINE e == ~R.text /\ ~R.aborted /\ (R.last # "none" \/ R.exhausted)
           o == DeriveOutcome(R)
           a == IF R.kind.validators /\ ~R.aborted THEN "validating" ELSE "returned"
           Q == [R EXCEPT !.error = e, !.outcome = o, !.at = a]
<1>1. e \in BOOLEAN /\ a \in {"validating", "returned"} OBVIOUS
<1>2. o \in {"none", "executed", "blocked_budget", "not_executed"} BY DEF DeriveOutcome
<1>3. Finished(R) = Q BY DEF Finished
<1>4. FailureKnown(R) => (~R.text /\ ~R.aborted /\ R.failed => e) BY DEF FailureKnown
<1> HIDE DEF e, o, a
<1>0. a \in Places BY <1>1 DEF Places, Over
<1>5. Q \in Run BY <1>0, <1>1, <1>2 DEF Core, Run
<1>6. Within(Q) /\ Caused(Q) /\ Gated(Q) /\ Kept(R, Q)
  BY <1>1 DEF Core, Run, Within, Caused, Gated, Kept
<1>7. Reported(Q) BY <1>1, <1>4 DEF Core, Run, Reported
<1>8. Q.at = a BY DEF Core, Run
<1>9. RunOK(Q) BY <1>1, <1>5, <1>6, <1>7, <1>8 DEF RunOK, Core
<1> QED BY <1>3, <1>6, <1>9

LEMMA EndedOK ==
    ASSUME NEW R, Core(R), FailureKnown(R)
    PROVE  RunOK(Ended(R)) /\ Kept(R, Ended(R))
<1>1. CASE R.kind.hooks
  <2>1. Ended(R) = [R EXCEPT !.at = "endHook"] BY <1>1 DEF Ended
  <2>2. "endHook" \in Places BY DEF Places, Attached
  <2> QED BY <2>1, <2>2, GotoFacts DEF RunOK, Core, After
<1>2. CASE ~R.kind.hooks
  <2>1. Ended(R) = Finished(R) BY <1>2 DEF Ended
  <2>2. Gated(R) BY <1>2 DEF Gated
  <2> QED BY <2>1, <2>2, FinishedOK
<1> QED BY <1>1, <1>2

\* Every failure is known once the fallback loop has been left.
LEMMA LoopOverOK ==
    ASSUME NEW R, Core(R)
    PROVE  RunOK(LoopOver(R)) /\ Kept(R, LoopOver(R))
<1> DEFINE x == ~R.text /\ ~R.aborted
           Q == [R EXCEPT !.exhausted = x, !.left = 0]
<1>1. x \in BOOLEAN /\ LoopOver(R) = Ended(Q) BY DEF LoopOver
<1>2. x <=> ~R.text /\ ~R.aborted OBVIOUS
<1> HIDE DEF x
<1>3. Core(Q) /\ Kept(R, Q)
  <2>1. 0 \in 0..MaxFallbacks BY DEF MaxFallbacks
  <2>2. Q \in Run BY <1>1, <2>1 DEF Core, Run
  <2> QED BY <2>2 DEF Core, Run, Within, Caused, Kept
<1>4. FailureKnown(Q) BY <1>1, <1>2 DEF FailureKnown, Core, Run
<1> HIDE DEF Q
<1>5. RunOK(Ended(Q)) /\ Kept(Q, Ended(Q)) BY <1>3, <1>4, EndedOK
<1> QED BY <1>1, <1>3, <1>5 DEF Kept

LEMMA TryNextOK ==
    ASSUME NEW R, Core(R)
    PROVE  RunOK(TryNext(R)) /\ Kept(R, TryNext(R))
<1>1. CASE R.left = 0 BY <1>1, LoopOverOK DEF TryNext
<1>2. CASE R.left # 0
  <2>1. TryNext(R) = [R EXCEPT !.at = "switching"] BY <1>2 DEF TryNext
  <2>2. R.left > 0 BY <1>2 DEF Core, Run, MaxFallbacks
  <2>3. "switching" \in Places BY DEF Places, Attached
  <2> QED BY <2>1, <2>2, <2>3, GotoFacts DEF RunOK, Core, After
<1> QED BY <1>1, <1>2

LEMMA ThrewOK ==
    ASSUME NEW R, Core(R)
    PROVE  RunOK(Threw(R)) /\ Kept(R, Threw(R))
<1>1. "threw" \in Places BY DEF Places, Over
<1> QED BY <1>1, GotoFacts DEF Threw, RunOK, Core, After

\* What an end of a prompt may be.
LEMMA EndFacts ==
    ASSUME NEW e \in Ends
    PROVE  /\ e.text \in BOOLEAN /\ e.fault \in {"none", "model", "other", "abort"}
           /\ e.how = "resolves" => e.fault # "abort"
           /\ e.how # "resolves" => e.how = "rejects" /\ e.fault # "none"
  BY DEF Ends

LEMMA HeardFacts ==
    ASSUME NEW R, Core(R), NEW e \in Ends
    PROVE  LET Q == Heard(R, e) IN
           /\ Core(Q) /\ Kept(R, Q)
           /\ e.fault = "abort" => Q.aborted
           /\ e.how = "resolves" => Q.last = e.fault
           /\ Q.failed => e.fault \in {"model", "other"}
           /\ Q.attempt = R.attempt /\ Q.kind = R.kind
<1> DEFINE t == R.text \/ e.text
           a == R.aborted \/ e.fault = "abort"
           l == IF e.how = "resolves" THEN e.fault ELSE R.last
           f == e.fault \in {"model", "other"}
           Q == [R EXCEPT !.text = t, !.aborting = FALSE, !.aborted = a, !.last = l, !.failed = f]
<1>1. t \in BOOLEAN /\ a \in BOOLEAN /\ f \in BOOLEAN OBVIOUS
<1>2. l \in {"none", "model", "other"} BY EndFacts DEF Core, Run
<1>3. Heard(R, e) = Q BY DEF Heard
<1>4. (e.fault = "abort" => a) /\ (R.aborted => a) /\ (f => e.fault \in {"model", "other"})
  OBVIOUS
<1>5. e.how = "resolves" => l = e.fault OBVIOUS
<1> HIDE DEF t, a, l, f
<1>6. Core(Q)
  <2>1. Q \in Run BY <1>1, <1>2 DEF Core, Run
  <2>2. Within(Q) /\ Caused(Q) BY <1>4 DEF Core, Run, Within, Caused
  <2> QED BY <2>1, <2>2 DEF Core
<1>7. Kept(R, Q) BY <1>4 DEF Core, Run, Kept
<1>8. Q.aborted = a /\ Q.last = l /\ Q.failed = f /\ Q.attempt = R.attempt /\ Q.kind = R.kind
  BY DEF Core, Run
<1> QED BY <1>3, <1>4, <1>5, <1>6, <1>7, <1>8

\* The duration or the turn budget cuts a run that was not aborted before.
LEMMA CutOK ==
    ASSUME NEW R \in Run, ~R.aborted, R.softLimit \/ R.turns < MaxTurns, R.at \in Prompting,
           R.at = "revision" => R.attempt <= RevisionBudget,
           NEW why \in {"duration_quota", "turn_budget"}
    PROVE  RunOK(Cut(R, why)) /\ Cut(R, why).reason = why
<1> DEFINE d == R.timedOut \/ why = "duration_quota"
           Q == [R EXCEPT !.aborted = TRUE, !.aborting = TRUE, !.reason = why, !.timedOut = d]
<1>1. d \in BOOLEAN /\ why \in Budgets BY DEF Budgets
<1>2. Cut(R, why) = Q BY DEF Cut
<1> HIDE DEF d
<1>3. Core(Q) BY <1>1 DEF Core, Run, Within, Caused
<1>4. Q.at = R.at /\ Q.attempt = R.attempt /\ Q.reason = why BY DEF Run
<1>5. RunOK(Q) BY <1>3, <1>4 DEF RunOK, Prompting, After
<1> QED BY <1>2, <1>4, <1>5

\* The token or tool quota calls session.abort() and has not set aborted yet.
LEMMA CutLateOK ==
    ASSUME NEW R \in Run, Within(R), R.at \in Prompting,
           R.at = "revision" => R.attempt <= RevisionBudget,
           NEW why \in {"token_quota", "tool_quota"}, why = "token_quota" => R.spent
    PROVE  RunOK(CutLate(R, why)) /\ CutLate(R, why).reason = why
<1> DEFINE Q == [R EXCEPT !.cutting = TRUE, !.aborting = TRUE, !.reason = why]
<1>1. why \in Budgets BY DEF Budgets
<1>2. CutLate(R, why) = Q BY DEF CutLate
<1>3. Core(Q) BY <1>1 DEF Core, Run, Within, Caused
<1>4. Q.at = R.at /\ Q.attempt = R.attempt /\ Q.reason = why BY <1>1 DEF Run
<1>5. RunOK(Q) BY <1>3, <1>4 DEF RunOK, Prompting, After
<1> QED BY <1>2, <1>4, <1>5

\* The causes an event of a prompt may leave behind.  One that names the turns or
\* the tool calls was within the token quota.
LEMMA EventFollows ==
    ASSUME NEW R, Core(R), ~R.aborted, NEW Q,
           \/ Q.reason \in {R.reason, "token_quota", "duration_quota"}
           \/ ~R.spent /\ Q.reason \in {"turn_budget", "tool_quota"}
    PROVE  Follows(R, Q)
<1>1. R.reason \in {"none", "token_quota", "tool_quota"} /\ (R.reason # "none" => R.cutting)
  BY DEF Core, Run, Caused, Budgets
<1>2. R.reason = "token_quota" => R.spent BY DEF Core, Caused
<1>3. ASSUME R.reason # "none", Q.reason # R.reason
      PROVE  <<R.reason, Q.reason>> \in Replaces
  <2>1. CASE R.reason = "token_quota"
    <3>1. Q.reason = "duration_quota" BY <1>2, <1>3, <2>1
    <3> QED BY <2>1, <3>1 DEF Replaces
  <2>2. CASE R.reason = "tool_quota"
    <3>1. Q.reason \in Budgets \ {"tool_quota"} BY <1>3, <2>2 DEF Budgets
    <3> QED BY <2>2, <3>1 DEF Replaces
  <2> QED BY <1>1, <1>3, <2>1, <2>2
<1> QED BY <1>1, <1>3 DEF Follows

-----------------------------------------------------------------------------
(* One run takes a step, the breaker may change with it.                   *)

CauseKept == \A r \in Runs : Follows(run[r], run'[r])

LEMMA StoreFollows ==
    ASSUME IInv, NEW r \in Runs, NEW Q, Store(r, Q), RunOK(Q), Follows(run[r], Q),
           breaker' \in Breaker
    PROVE  IInv' /\ CauseKept
<1>1. run' = [s \in Runs |-> IF s = r THEN Q ELSE run[s]]
  BY DEF IInv, Store
<1>2. \A s \in Runs : run'[s] = IF s = r THEN Q ELSE run[s]
  BY <1>1
<1>3. run' = [s \in Runs |-> run'[s]]
  BY <1>1
<1>4. \A s \in Runs : RunOK(run'[s])
  BY <1>2 DEF IInv
<1>5. \A s \in Runs : Follows(run[s], run[s]) BY DEF Follows
<1>6. CauseKept
  BY <1>2, <1>5 DEF CauseKept
<1> QED BY <1>3, <1>4, <1>6 DEF IInv

LEMMA StoreOK ==
    ASSUME IInv, NEW r \in Runs, NEW Q, Store(r, Q), RunOK(Q), Kept(run[r], Q),
           breaker' \in Breaker
    PROVE  IInv' /\ CauseKept
<1>1. Follows(run[r], Q) BY DEF Kept, Follows
<1> QED BY <1>1, StoreFollows

LEMMA BreakerFacts ==
    ASSUME breaker \in Breaker
    PROVE  /\ Admitted \in Breaker
           /\ RecordFailure(breaker) \in Breaker /\ RecordSuccess(breaker) \in Breaker
           /\ \A e : Recorded(breaker, e) \in Breaker
<1>0. Threshold \in Nat \ {0} BY BoundsAssumption
<1>1. Admitted \in Breaker BY DEF Admitted, Breaker
<1>2. RecordFailure(breaker) \in Breaker
  <2> DEFINE n == Smaller(breaker.failures + 1, Threshold)
             s == IF n = Threshold THEN "open" ELSE breaker.state
  <2>1. n \in 0..Threshold BY <1>0 DEF Smaller, Breaker
  <2>2. s \in {"closed", "open", "half-open"} BY DEF Breaker
  <2>3. RecordFailure(breaker) = [state |-> s, failures |-> n, cooled |-> FALSE]
    BY DEF RecordFailure
  <2> HIDE DEF n, s
  <2> QED BY <2>1, <2>2, <2>3 DEF Breaker
<1>3. RecordSuccess(breaker) \in Breaker
  <2> DEFINE s == IF breaker.state = "half-open" THEN "closed" ELSE breaker.state
  <2>1. s \in {"closed", "open", "half-open"} /\ 0 \in 0..Threshold BY <1>0 DEF Breaker
  <2>2. RecordSuccess(breaker) = [breaker EXCEPT !.state = s, !.failures = 0]
    BY DEF RecordSuccess
  <2> HIDE DEF s
  <2> QED BY <2>1, <2>2 DEF Breaker
<1> QED BY <1>1, <1>2, <1>3 DEF Recorded

LEMMA StartPromptOK ==
    ASSUME IInv, NEW r \in Runs, NEW R, NEW place, NEW refused,
           StartPrompt(r, R, place, refused),
           RunOK([R EXCEPT !.at = place]), Kept(run[r], [R EXCEPT !.at = place]),
           RunOK(refused), Kept(run[r], refused)
    PROVE  IInv' /\ CauseKept
<1>1. breaker' \in Breaker BY BreakerFacts DEF StartPrompt, IInv
<1>2. CASE Store(r, [R EXCEPT !.at = place]) BY <1>1, <1>2, StoreOK
<1>3. CASE Store(r, refused) BY <1>1, <1>3, StoreOK
<1> QED BY <1>2, <1>3 DEF StartPrompt

-----------------------------------------------------------------------------
(* The awaits that are not prompts.                                        *)

\* A step that only moves on, to a place nothing is required of.
LEMMA MovesOn ==
    ASSUME NEW R, RunOK(R), NEW p \in {"loading", "startHook", "creating", "threw"}
    PROVE  RunOK([R EXCEPT !.at = p]) /\ Kept(R, [R EXCEPT !.at = p])
<1>1. p \in Places BY DEF Places, Over
<1> QED BY <1>1, GotoFacts DEF RunOK, Core, After

LEMMA StartOK ==
    ASSUME IInv, NEW r \in Runs, Start(r)
    PROVE  IInv' /\ CauseKept
<1>1. PICK k \in RunKinds :
        /\ run[r].at = "idle"
        /\ Store(r, [run[r] EXCEPT !.kind = k,
                          !.at = IF TooDeep(k.level, LevelLimit) THEN "threw" ELSE "loading"])
        /\ breaker' = breaker
  BY DEF Start
<1> DEFINE p == IF TooDeep(k.level, LevelLimit) THEN "threw" ELSE "loading"
           Q == [run[r] EXCEPT !.kind = k, !.at = p]
<1>2. p \in {"threw", "loading"} OBVIOUS
<1>3. Store(r, Q) BY <1>1
<1> HIDE DEF p
<1>4. RunOK(run[r]) /\ breaker' \in Breaker BY <1>1 DEF IInv
<1>5. Core(Q)
  <2>1. p \in Places BY <1>2 DEF Places, Over
  <2>2. Q \in Run BY <1>4, <2>1 DEF RunOK, Core, Run
  <2> QED BY <1>4, <2>2 DEF RunOK, Core, Run, Within, Caused
<1>6. Q.at = p /\ Kept(run[r], Q) BY <1>4 DEF RunOK, Core, Run, Kept
<1>7. RunOK(Q) BY <1>2, <1>5, <1>6 DEF RunOK, After
<1> HIDE DEF Q
<1> QED BY <1>3, <1>4, <1>6, <1>7, StoreOK

LEMMA LoadingOK ==
    ASSUME IInv, NEW r \in Runs, Loaded(r) \/ StartHookAnswers(r) \/ SessionFails(r)
    PROVE  IInv' /\ CauseKept
<1>1. RunOK(run[r]) /\ breaker' \in Breaker
  BY DEF IInv, Loaded, StartHookAnswers, SessionFails
<1>2. \E p \in {"loading", "startHook", "creating", "threw"} : Store(r, [run[r] EXCEPT !.at = p])
  <2>1. CASE Loaded(r) BY <2>1 DEF Loaded
  <2>2. CASE StartHookAnswers(r) BY <2>2 DEF StartHookAnswers
  <2>3. CASE SessionFails(r) BY <2>3 DEF SessionFails, Threw
  <2> QED BY <2>1, <2>2, <2>3
<1> QED BY <1>1, <1>2, MovesOn, StoreOK

LEMMA SessionReadyOK ==
    ASSUME IInv, NEW r \in Runs, SessionReady(r)
    PROVE  IInv' /\ CauseKept
<1> DEFINE x == run[r].aborted \/ run[r].signal
           R == [run[r] EXCEPT !.aborted = x]
<1>1. run[r].at = "creating" /\ StartPrompt(r, R, "prompt", Threw(R)) BY DEF SessionReady
<1>2. x \in BOOLEAN /\ (run[r].aborted => x) OBVIOUS
<1>3. RunOK(run[r]) BY DEF IInv
<1> HIDE DEF x
<1>4. Core(R) /\ Kept(run[r], R) BY <1>2, <1>3 DEF RunOK, Core, Run, Within, Caused, Kept
<1> HIDE DEF R
<1>5. RunOK(Threw(R)) /\ Kept(R, Threw(R)) BY <1>4, ThrewOK
<1>6. "prompt" \in Places BY DEF Places, Attached, Prompting
<1>7. RunOK([R EXCEPT !.at = "prompt"]) /\ Kept(R, [R EXCEPT !.at = "prompt"])
  BY <1>4, <1>6, GotoFacts DEF RunOK, Core, After
<1>8. Kept(run[r], Threw(R)) /\ Kept(run[r], [R EXCEPT !.at = "prompt"])
  BY <1>4, <1>5, <1>7 DEF Kept
<1> QED BY <1>1, <1>5, <1>7, <1>8, StartPromptOK

\* A fallback candidate is taken off the list.
LEMMA LeftFacts ==
    ASSUME NEW R, Core(R), R.left > 0
    PROVE  LET Q == [R EXCEPT !.left = @ - 1] IN Core(Q) /\ Kept(R, Q)
<1>1. R.left - 1 \in 0..MaxFallbacks BY DEF Core, Run, MaxFallbacks
<1> QED BY <1>1 DEF Core, Run, Within, Caused, Kept

LEMMA SwitchedOK ==
    ASSUME IInv, NEW r \in Runs, Switched(r)
    PROVE  IInv' /\ CauseKept
<1> DEFINE Q == [run[r] EXCEPT !.left = @ - 1]
<1>1. RunOK(run[r]) /\ run[r].at = "switching" /\ breaker' \in Breaker
  BY DEF IInv, Switched
<1>2. Core(Q) /\ Kept(run[r], Q) BY <1>1, LeftFacts DEF RunOK
<1>3. Store(r, [Q EXCEPT !.at = "fallback"])
  <2>1. [Q EXCEPT !.at = "fallback"] = [run[r] EXCEPT !.at = "fallback", !.left = @ - 1]
    BY <1>1 DEF RunOK, Core, Run
  <2> QED BY <2>1 DEF Switched
<1> HIDE DEF Q
<1>4. "fallback" \in Places BY DEF Places, Attached, Prompting
<1>5. RunOK([Q EXCEPT !.at = "fallback"]) /\ Kept(Q, [Q EXCEPT !.at = "fallback"])
  BY <1>2, <1>4, GotoFacts DEF RunOK, Core, After
<1>6. Kept(run[r], [Q EXCEPT !.at = "fallback"]) BY <1>2, <1>5 DEF Kept
<1> QED BY <1>1, <1>3, <1>5, <1>6, StoreOK

LEMMA SwitchFailsOK ==
    ASSUME IInv, NEW r \in Runs, SwitchFails(r)
    PROVE  IInv' /\ CauseKept
<1> DEFINE Q == [run[r] EXCEPT !.left = @ - 1]
<1>1. RunOK(run[r]) /\ run[r].at = "switching" /\ breaker' \in Breaker
  BY DEF IInv, SwitchFails
<1>2. Core(Q) /\ Kept(run[r], Q) BY <1>1, LeftFacts DEF RunOK
<1>3. Store(r, TryNext(Q)) \/ Store(r, Threw(Q)) BY DEF SwitchFails
<1> HIDE DEF Q
<1>4. /\ RunOK(TryNext(Q)) /\ Kept(Q, TryNext(Q))
      /\ RunOK(Threw(Q)) /\ Kept(Q, Threw(Q))
  BY <1>2, TryNextOK, ThrewOK
<1>5. Kept(run[r], TryNext(Q)) /\ Kept(run[r], Threw(Q)) BY <1>2, <1>4 DEF Kept
<1> QED BY <1>1, <1>3, <1>4, <1>5, StoreOK

LEMMA GateFacts ==
    ASSUME NEW R, Core(R), NEW g \in {"passed", "blocked"}
    PROVE  LET Q == [R EXCEPT !.gate = g] IN
           /\ Core(Q) /\ Kept(R, Q) /\ Q.gate = g /\ Q.attempt = R.attempt
           /\ FailureKnown(R) => FailureKnown(Q)
  BY DEF Core, Run, Within, Caused, Kept, FailureKnown

LEMMA EndHookAllowsOK ==
    ASSUME IInv, NEW r \in Runs, EndHookAllows(r)
    PROVE  IInv' /\ CauseKept
<1> DEFINE Q == [run[r] EXCEPT !.gate = "passed"]
<1>1. RunOK(run[r]) /\ run[r].at = "endHook" /\ Store(r, Finished(Q)) /\ breaker' \in Breaker
  BY DEF IInv, EndHookAllows
<1>2. Core(Q) /\ Kept(run[r], Q) /\ Q.gate = "passed" /\ FailureKnown(Q)
  BY <1>1, GateFacts DEF RunOK
<1> HIDE DEF Q
<1>3. RunOK(Finished(Q)) /\ Kept(Q, Finished(Q)) BY <1>2, FinishedOK DEF Gated
<1>4. Kept(run[r], Finished(Q)) BY <1>2, <1>3 DEF Kept
<1> QED BY <1>1, <1>3, <1>4, StoreOK

LEMMA EndHookBlocksOK ==
    ASSUME IInv, NEW r \in Runs, EndHookBlocks(r)
    PROVE  IInv' /\ CauseKept
<1> DEFINE Q == [run[r] EXCEPT !.gate = "blocked"]
<1>1. /\ \/ Store(r, Threw(Q)) /\ UNCHANGED breaker
         \/ Q.attempt <= RevisionBudget /\ StartPrompt(r, Q, "revision", Threw(Q))
      /\ RunOK(run[r])
  BY DEF IInv, EndHookBlocks
<1>2. Core(Q) /\ Kept(run[r], Q) BY <1>1, GateFacts DEF RunOK
<1> HIDE DEF Q
<1>3. RunOK(Threw(Q)) /\ Kept(Q, Threw(Q)) BY <1>2, ThrewOK
<1>4. "revision" \in Places BY DEF Places, Attached, Prompting
<1>5. Kept(Q, [Q EXCEPT !.at = "revision"])
      /\ (Q.attempt <= RevisionBudget => RunOK([Q EXCEPT !.at = "revision"]))
  BY <1>2, <1>4, GotoFacts DEF RunOK, Core, After
<1>6. Kept(run[r], Threw(Q)) /\ Kept(run[r], [Q EXCEPT !.at = "revision"])
  BY <1>2, <1>3, <1>5 DEF Kept
<1>7. CASE Store(r, Threw(Q)) /\ UNCHANGED breaker
  BY <1>3, <1>6, <1>7, StoreOK DEF IInv
<1>8. CASE Q.attempt <= RevisionBudget /\ StartPrompt(r, Q, "revision", Threw(Q))
  BY <1>3, <1>5, <1>6, <1>8, StartPromptOK
<1> QED BY <1>1, <1>7, <1>8

LEMMA ValidatorsDoneOK ==
    ASSUME IInv, NEW r \in Runs, ValidatorsDone(r)
    PROVE  IInv' /\ CauseKept
<1> DEFINE R == run[r]
           done == [R EXCEPT !.at = "returned"]
           heal == [R EXCEPT !.at = "healing"]
<1>1. /\ R.at = "validating" /\ RunOK(R)
      /\ \/ Store(r, done) /\ UNCHANGED breaker
         \/ R.retries < ValidationRetries /\ StartPrompt(r, R, "healing", done)
  BY DEF IInv, ValidatorsDone
<1>2. "returned" \in Places /\ "healing" \in Places BY DEF Places, Over
<1>3. RunOK(done) /\ Kept(R, done) BY <1>1, <1>2, GotoFacts DEF RunOK, Core, After
<1>4. Kept(R, heal) /\ (R.retries < ValidationRetries => RunOK(heal))
  BY <1>1, <1>2, GotoFacts DEF RunOK, Core, After
<1> HIDE DEF done
<1>5. CASE Store(r, done) /\ UNCHANGED breaker BY <1>3, <1>5, StoreOK DEF IInv
<1>6. CASE R.retries < ValidationRetries /\ StartPrompt(r, R, "healing", done)
  BY <1>3, <1>4, <1>6, StartPromptOK
<1> QED BY <1>1, <1>5, <1>6

-----------------------------------------------------------------------------
(* A prompt ends.                                                          *)

\* The error of the last message is kept where the loop or a revision is left.
LEMMA ExhaustedFacts ==
    ASSUME NEW R, Core(R), NEW x \in BOOLEAN
    PROVE  LET Q == [R EXCEPT !.exhausted = x] IN
           /\ Core(Q) /\ Kept(R, Q)
           /\ Q.failed = R.failed /\ Q.last = R.last /\ Q.kind = R.kind /\ Q.attempt = R.attempt
  BY DEF Core, Run, Within, Caused, Kept

LEMMA FallbackModelsType == \A k : FallbackModels(k) \in 0..MaxFallbacks
<1> TAKE k
<1> DEFINE S == Models \ {k}
<1>1. IsFiniteSet(S) BY ModelsAssumption, FS_RemoveElement
<1>2. Cardinality(S) \in Nat BY <1>1, FS_CardinalityType
<1>3. FallbackModels(k) = Smaller(MaxFallbacks, Cardinality(S)) BY DEF FallbackModels
<1> HIDE DEF S
<1> QED BY <1>2, <1>3 DEF Smaller, MaxFallbacks

\* A prompt ended and the run is stored as one of the ways on has it.
LEMMA PromptOK ==
    ASSUME IInv, NEW r \in Runs, NEW e, NEW R, Core(R), Kept(run[r], R),
           breaker' = Recorded(breaker, e),
           NEW Q, Store(r, Q), RunOK(Q), Kept(R, Q)
    PROVE  IInv' /\ CauseKept
<1>1. breaker' \in Breaker BY BreakerFacts DEF IInv
<1>2. Kept(run[r], Q) BY DEF Kept
<1> QED BY <1>1, <1>2, StoreOK

LEMMA FirstPromptEndsOK ==
    ASSUME IInv, NEW r \in Runs, FirstPromptEnds(r)
    PROVE  IInv' /\ CauseKept
<1>1. PICK e \in PossibleEnds(run[r]) :
        LET R == Heard(run[r], e) IN
        /\ breaker' = Recorded(breaker, e)
        /\ \/ Store(r, TryNext([R EXCEPT !.left = FallbackModels(R.kind.model)]))
           \/ /\ e.how = "resolves" \/ e.fault = "abort"
              /\ Store(r, Ended([R EXCEPT !.exhausted = ~R.text /\ ~R.aborted /\ R.last # "none"]))
           \/ Store(r, Threw(R))
  BY DEF FirstPromptEnds
<1> DEFINE R == Heard(run[r], e)
<1>2. e \in Ends BY DEF PossibleEnds
<1>3. Core(run[r]) BY DEF IInv, RunOK
<1>4. /\ Core(R) /\ Kept(run[r], R)
      /\ e.fault = "abort" => R.aborted
      /\ e.how = "resolves" => R.last = e.fault
      /\ R.failed => e.fault \in {"model", "other"}
  BY <1>2, <1>3, HeardFacts
<1> DEFINE n == FallbackModels(R.kind.model)
           x == ~R.text /\ ~R.aborted /\ R.last # "none"
           Listed == [R EXCEPT !.left = n]
           Heeded == [R EXCEPT !.exhausted = x]
<1>5. \/ Store(r, TryNext(Listed))
      \/ (e.how = "resolves" \/ e.fault = "abort") /\ Store(r, Ended(Heeded))
      \/ Store(r, Threw(R))
  BY <1>1
<1>6. breaker' = Recorded(breaker, e) BY <1>1
<1>7. n \in 0..MaxFallbacks /\ x \in BOOLEAN BY FallbackModelsType
<1> HIDE DEF R, n, x
<1>8. CASE Store(r, TryNext(Listed))
  <2>1. Core(Listed) /\ Kept(R, Listed) BY <1>4, <1>7 DEF Core, Run, Within, Caused, Kept
  <2> HIDE DEF Listed
  <2>2. RunOK(TryNext(Listed)) /\ Kept(Listed, TryNext(Listed)) BY <2>1, TryNextOK
  <2>3. Kept(R, TryNext(Listed)) BY <2>1, <2>2 DEF Kept
  <2> QED BY <1>4, <1>6, <1>8, <2>2, <2>3, PromptOK
<1>9. CASE (e.how = "resolves" \/ e.fault = "abort") /\ Store(r, Ended(Heeded))
  <2>1. /\ Core(Heeded) /\ Kept(R, Heeded)
        /\ Heeded.failed = R.failed /\ Heeded.last = R.last
    BY <1>4, <1>7, ExhaustedFacts
  <2>2. FailureKnown(Heeded)
    BY <1>4, <1>9, <2>1 DEF FailureKnown, Kept
  <2> HIDE DEF Heeded
  <2>3. RunOK(Ended(Heeded)) /\ Kept(Heeded, Ended(Heeded)) BY <2>1, <2>2, EndedOK
  <2>4. Kept(R, Ended(Heeded)) BY <2>1, <2>3 DEF Kept
  <2> QED BY <1>4, <1>6, <1>9, <2>3, <2>4, PromptOK
<1>10. CASE Store(r, Threw(R))
  <2>1. RunOK(Threw(R)) /\ Kept(R, Threw(R)) BY <1>4, ThrewOK
  <2> QED BY <1>4, <1>6, <1>10, <2>1, PromptOK
<1> QED BY <1>5, <1>8, <1>9, <1>10

LEMMA FallbackEndsOK ==
    ASSUME IInv, NEW r \in Runs, FallbackEnds(r)
    PROVE  IInv' /\ CauseKept
<1>1. PICK e \in PossibleEnds(run[r]) :
        /\ breaker' = Recorded(breaker, e)
        /\ \/ Store(r, TryNext(Heard(run[r], e)))
           \/ Store(r, LoopOver(Heard(run[r], e)))
           \/ Store(r, Threw(Heard(run[r], e)))
  BY DEF FallbackEnds
<1> DEFINE R == Heard(run[r], e)
<1>2. e \in Ends BY DEF PossibleEnds
<1>3. Core(run[r]) BY DEF IInv, RunOK
<1>4. Core(R) /\ Kept(run[r], R) BY <1>2, <1>3, HeardFacts
<1>5. Store(r, TryNext(R)) \/ Store(r, LoopOver(R)) \/ Store(r, Threw(R)) BY <1>1
<1> HIDE DEF R
<1>6. /\ RunOK(TryNext(R)) /\ Kept(R, TryNext(R))
      /\ RunOK(LoopOver(R)) /\ Kept(R, LoopOver(R))
      /\ RunOK(Threw(R)) /\ Kept(R, Threw(R))
  BY <1>4, TryNextOK, LoopOverOK, ThrewOK
<1>7. PICK Q \in {TryNext(R), LoopOver(R), Threw(R)} : Store(r, Q) BY <1>5
<1>8. RunOK(Q) /\ Kept(R, Q) BY <1>6
<1> QED BY <1>1, <1>4, <1>7, <1>8, PromptOK

LEMMA RevisionEndsOK ==
    ASSUME IInv, NEW r \in Runs, RevisionEnds(r)
    PROVE  IInv' /\ CauseKept
<1>1. PICK e \in PossibleEnds(run[r]) :
        LET R == Heard(run[r], e) IN
        /\ run[r].at = "revision"
        /\ breaker' = Recorded(breaker, e)
        /\ \/ e.how = "resolves" /\ Store(r, Ended([R EXCEPT !.exhausted = @ /\ R.last # "none",
                                                            !.attempt = @ + 1]))
           \/ e.fault = "abort" /\ Store(r, Finished(R))
           \/ Store(r, Threw(R))
  BY DEF RevisionEnds
<1> DEFINE R == Heard(run[r], e)
           x == R.exhausted /\ R.last # "none"
           n == R.attempt + 1
           Shown == [R EXCEPT !.exhausted = x, !.attempt = n]
<1>2. e \in Ends BY DEF PossibleEnds
<1>3. Core(run[r]) /\ run[r].attempt <= RevisionBudget BY <1>1 DEF IInv, RunOK
<1>4. /\ Core(R) /\ Kept(run[r], R) /\ R.attempt = run[r].attempt
      /\ e.fault = "abort" => R.aborted
      /\ e.how = "resolves" => R.last = e.fault
      /\ R.failed => e.fault \in {"model", "other"}
  BY <1>2, <1>3, HeardFacts
<1>5. /\ breaker' = Recorded(breaker, e)
      /\ \/ e.how = "resolves" /\ Store(r, Ended(Shown))
         \/ e.fault = "abort" /\ Store(r, Finished(R))
         \/ Store(r, Threw(R))
  BY <1>1
<1> HIDE DEF R
<1>6. x \in BOOLEAN OBVIOUS
<1>7. n \in 1..(RevisionBudget + 1)
  <2>1. RevisionBudget \in Nat BY BoundsAssumption
  <2> QED BY <1>3, <1>4, <2>1 DEF Core, Run
<1> HIDE DEF x, n
<1>8. CASE e.how = "resolves" /\ Store(r, Ended(Shown))
  <2>1. Core(Shown) /\ Kept(R, Shown)
    <3>1. Shown \in Run BY <1>4, <1>6, <1>7 DEF Core, Run
    <3>2. Within(Shown) /\ Caused(Shown) /\ Kept(R, Shown)
      BY <1>4 DEF Core, Run, Within, Caused, Kept
    <3> QED BY <3>1, <3>2 DEF Core
  <2>2. FailureKnown(Shown) BY <1>4, <1>8 DEF FailureKnown, Core, Run
  <2> HIDE DEF Shown
  <2>3. RunOK(Ended(Shown)) /\ Kept(Shown, Ended(Shown)) BY <2>1, <2>2, EndedOK
  <2>4. Kept(R, Ended(Shown)) BY <2>1, <2>3 DEF Kept
  <2> QED BY <1>4, <1>5, <1>8, <2>3, <2>4, PromptOK
<1>9. CASE e.fault = "abort" /\ Store(r, Finished(R))
  <2>1. Gated(R) /\ FailureKnown(R) BY <1>4, <1>9 DEF Gated, FailureKnown
  <2>2. RunOK(Finished(R)) /\ Kept(R, Finished(R)) BY <1>4, <2>1, FinishedOK
  <2> QED BY <1>4, <1>5, <1>9, <2>2, PromptOK
<1>10. CASE Store(r, Threw(R))
  <2>1. RunOK(Threw(R)) /\ Kept(R, Threw(R)) BY <1>4, ThrewOK
  <2> QED BY <1>4, <1>5, <1>10, <2>1, PromptOK
<1> QED BY <1>5, <1>8, <1>9, <1>10

\* The last prompt of a validation round says nothing of the run's own text.
LEMMA HealingEndsOK ==
    ASSUME IInv, NEW r \in Runs, HealingEnds(r)
    PROVE  IInv' /\ CauseKept
<1> DEFINE R == [run[r] EXCEPT !.aborting = FALSE]
           n == R.retries + 1
<1>1. PICK e \in PossibleEnds(run[r]) :
        /\ run[r].at = "healing"
        /\ breaker' = Recorded(breaker, e)
        /\ \/ Store(r, [R EXCEPT !.at = "validating", !.retries = n])
           \/ Store(r, [R EXCEPT !.at = "returned"])
  BY DEF HealingEnds
<1>2. RunOK(run[r]) /\ run[r].retries < ValidationRetries BY <1>1 DEF IInv, RunOK
<1>3. /\ Core(R) /\ Kept(run[r], R) /\ R.retries = run[r].retries
      /\ Gated(R) <=> Gated(run[r])
      /\ Reported(R) <=> Reported(run[r])
  <2>1. run[r] \in Run BY <1>2 DEF RunOK, Core
  <2>2. Core(R)
    <3>1. R \in Run BY <2>1 DEF Run
    <3>2. Within(R) /\ Caused(R) BY <1>2, <2>1 DEF RunOK, Core, Run, Within, Caused
    <3> QED BY <3>1, <3>2 DEF Core
  <2>3. Kept(run[r], R) /\ R.retries = run[r].retries BY <2>1 DEF Run, Kept
  <2>4. Gated(R) <=> Gated(run[r]) BY <2>1 DEF Run, Gated
  <2>5. Reported(R) <=> Reported(run[r]) BY <2>1 DEF Run, Reported
  <2> QED BY <2>2, <2>3, <2>4, <2>5
<1> HIDE DEF R
<1>4. n \in 0..ValidationRetries
  <2>1. ValidationRetries \in Nat BY BoundsAssumption
  <2>2. R.retries \in 0..ValidationRetries BY <1>3 DEF Core, Run
  <2> QED BY <1>2, <1>3, <2>1, <2>2
<1> HIDE DEF n
<1> DEFINE Again == [R EXCEPT !.retries = n]
<1>5. Core(Again) /\ Kept(R, Again) /\ (Gated(Again) <=> Gated(R)) /\ (Reported(Again) <=> Reported(R))
  BY <1>3, <1>4 DEF Core, Run, Within, Caused, Kept, Gated, Reported
<1>6. [R EXCEPT !.at = "validating", !.retries = n] = [Again EXCEPT !.at = "validating"]
  BY <1>3 DEF Core, Run
<1> HIDE DEF Again
<1>7. "validating" \in Places /\ "returned" \in Places BY DEF Places, Over
<1>8. CASE Store(r, [Again EXCEPT !.at = "validating"])
  <2>1. Gated(run[r]) /\ Reported(run[r]) => RunOK([Again EXCEPT !.at = "validating"])
    BY <1>3, <1>5, <1>7, GotoFacts DEF RunOK, Core, After
  <2>2. Kept(R, [Again EXCEPT !.at = "validating"])
    BY <1>5, <1>7, GotoFacts DEF Core, Kept
  <2>3. Gated(run[r]) /\ Reported(run[r]) BY <1>1, <1>2 DEF RunOK, After
  <2> QED BY <1>1, <1>3, <1>8, <2>1, <2>2, <2>3, PromptOK
<1>9. CASE Store(r, [R EXCEPT !.at = "returned"])
  <2>1. Gated(run[r]) /\ Reported(run[r]) BY <1>1, <1>2 DEF RunOK, After
  <2>2. RunOK([R EXCEPT !.at = "returned"]) /\ Kept(R, [R EXCEPT !.at = "returned"])
    BY <1>3, <1>7, <2>1, GotoFacts DEF RunOK, Core, After
  <2> QED BY <1>1, <1>3, <1>9, <2>2, PromptOK
<1> QED BY <1>1, <1>6, <1>8, <1>9

-----------------------------------------------------------------------------
(* The events of a prompt, the clock and the caller's signal.              *)

\* During a prompt little is required of a run.
LEMMA PromptingOK ==
    ASSUME NEW R, R.at \in Prompting, R.at = "revision" => R.attempt <= RevisionBudget, Core(R)
    PROVE  RunOK(R)
  BY DEF RunOK, Prompting, After

LEMMA QuotaTripsOK ==
    ASSUME IInv, NEW r \in Runs, QuotaTrips(r)
    PROVE  IInv' /\ CauseKept
<1> DEFINE R == run[r]
<1>1. RunOK(R) /\ R.at \in Prompting /\ ~R.aborted /\ breaker' \in Breaker
  BY DEF IInv, QuotaTrips, Listens
<1>2. \/ Store(r, Cut(R, "duration_quota"))
      \/ R.spent /\ Store(r, CutLate(R, "token_quota"))
  BY DEF QuotaTrips
<1> HIDE DEF R
<1>3. CASE Store(r, Cut(R, "duration_quota"))
  <2>1. RunOK(Cut(R, "duration_quota")) /\ Cut(R, "duration_quota").reason = "duration_quota"
    BY <1>1, CutOK DEF RunOK, Core, Within
  <2>2. Follows(R, Cut(R, "duration_quota")) BY <1>1, <2>1, EventFollows DEF RunOK
  <2> QED BY <1>1, <1>3, <2>1, <2>2, StoreFollows DEF R
<1>4. CASE R.spent /\ Store(r, CutLate(R, "token_quota"))
  <2>1. RunOK(CutLate(R, "token_quota")) /\ CutLate(R, "token_quota").reason = "token_quota"
    BY <1>1, <1>4, CutLateOK DEF RunOK, Core
  <2>2. Follows(R, CutLate(R, "token_quota")) BY <1>1, <2>1, EventFollows DEF RunOK
  <2> QED BY <1>1, <1>4, <2>1, <2>2, StoreFollows DEF R
<1> QED BY <1>2, <1>3, <1>4

\* The quota's call of session.abort() returns, and aborted is set.
LEMMA AbortReturnsOK ==
    ASSUME IInv, NEW r \in Runs, AbortReturns(r)
    PROVE  IInv' /\ CauseKept
<1> DEFINE R == run[r]
           Q == [R EXCEPT !.cutting = FALSE, !.aborted = TRUE]
<1>1. RunOK(R) /\ breaker' \in Breaker /\ Store(r, Q) BY DEF IInv, AbortReturns
<1> HIDE DEF R
<1>2. Core(Q) /\ Kept(R, Q)
  <2>1. R \in Run /\ Within(R) /\ Caused(R) BY <1>1 DEF RunOK, Core
  <2>2. Q \in Run BY <2>1 DEF Run
  <2>3. Within(Q) /\ Caused(Q) /\ Kept(R, Q) BY <2>1 DEF Run, Within, Caused, Kept
  <2> QED BY <2>2, <2>3 DEF Core
<1>3. /\ Q.at = R.at /\ Q.left = R.left /\ Q.attempt = R.attempt /\ Q.retries = R.retries
      /\ FailureKnown(Q) /\ Gated(Q) /\ Reported(Q)
  BY <1>1 DEF RunOK, Core, Run, FailureKnown, Gated, Reported
<1>4. RunOK(Q) BY <1>1, <1>2, <1>3 DEF RunOK
<1> HIDE DEF Q
<1> QED BY <1>1, <1>2, <1>4, StoreOK DEF R

LEMMA TurnEndsOK ==
    ASSUME IInv, NEW r \in Runs, TurnEnds(r)
    PROVE  IInv' /\ CauseKept
<1> DEFINE n == run[r].turns + 1
           R == [run[r] EXCEPT !.turns = n]
<1>1. /\ RunOK(run[r]) /\ run[r].at \in Prompting /\ ~run[r].aborted
      /\ ~run[r].spent /\ breaker' \in Breaker
  BY DEF IInv, TurnEnds, WithinQuotas, Listens
<1>2. \/ ~R.softLimit /\ Store(r, [R EXCEPT !.softLimit = R.turns >= MaxTurns])
      \/ /\ R.softLimit
         /\ Store(r, IF R.turns >= MaxTurns + GraceTurns THEN Cut(R, "turn_budget") ELSE R)
  BY DEF TurnEnds
<1>3. MaxTurns \in Nat \ {0} /\ GraceTurns \in Nat \ {0} BY BoundsAssumption
<1>4. run[r] \in Run /\ Within(run[r]) BY <1>1 DEF RunOK, Core
<1>5. run[r].turns \in Nat /\ run[r].turns < MaxTurns + GraceTurns
  BY <1>1, <1>3, <1>4 DEF Run, Within
<1>6. n \in 0..(MaxTurns + GraceTurns) BY <1>3, <1>5
<1>7. ~run[r].softLimit => n <= MaxTurns BY <1>3, <1>4, <1>5 DEF Within
<1>8. R.turns = n /\ R.softLimit = run[r].softLimit /\ R.at = run[r].at /\ ~R.aborted
      /\ R.attempt = run[r].attempt /\ R.reason = run[r].reason
      /\ R.spent = run[r].spent /\ R.cutting = run[r].cutting
  BY <1>1, <1>4 DEF Run
<1>9. Caused(R) BY <1>1, <1>8 DEF RunOK, Core, Caused
<1> HIDE DEF n
<1>10. R \in Run BY <1>4, <1>6 DEF Run
<1>11. R.at = "revision" => R.attempt <= RevisionBudget BY <1>1, <1>8 DEF RunOK
<1> HIDE DEF R
<1>12. \A Q : Q.reason \in {run[r].reason, "turn_budget"} => Follows(run[r], Q)
  BY <1>1, EventFollows DEF RunOK
<1>13. CASE ~R.softLimit /\ Store(r, [R EXCEPT !.softLimit = R.turns >= MaxTurns])
  <2> DEFINE b == R.turns >= MaxTurns
             Q == [R EXCEPT !.softLimit = b]
  <2>1. b \in BOOLEAN /\ (~b => n < MaxTurns) BY <1>3, <1>6, <1>8
  <2> HIDE DEF b
  <2>2. /\ Q \in Run /\ Q.turns = n /\ Q.softLimit = b /\ Q.at = R.at
        /\ Q.attempt = R.attempt /\ Q.reason = R.reason /\ Caused(Q)
    BY <1>8, <1>9, <1>10, <2>1 DEF Run, Caused
  <2>3. n < MaxTurns + GraceTurns BY <1>3, <1>6, <1>7, <1>8, <1>13
  <2>4. Within(Q) BY <1>8, <2>1, <2>2, <2>3 DEF Within
  <2>5. RunOK(Q) BY <1>1, <1>8, <1>11, <2>2, <2>4, PromptingOK DEF Core
  <2>6. Store(r, Q) BY <1>13 DEF b
  <2>7. Q.reason = run[r].reason BY <1>8, <2>2
  <2>8. Follows(run[r], Q)
    <3> HIDE DEF Q
    <3> QED BY <1>12, <2>7
  <2> HIDE DEF Q
  <2> QED BY <1>1, <2>5, <2>6, <2>8, StoreFollows
<1>14. CASE R.softLimit /\ R.turns >= MaxTurns + GraceTurns /\ Store(r, Cut(R, "turn_budget"))
  <2>1. RunOK(Cut(R, "turn_budget")) /\ Cut(R, "turn_budget").reason = "turn_budget"
    BY <1>1, <1>8, <1>10, <1>11, <1>14, CutOK
  <2>2. Follows(run[r], Cut(R, "turn_budget")) BY <1>12, <2>1
  <2> QED BY <1>1, <1>14, <2>1, <2>2, StoreFollows
<1>15. CASE R.softLimit /\ ~(R.turns >= MaxTurns + GraceTurns) /\ Store(r, R)
  <2>1. n < MaxTurns + GraceTurns BY <1>3, <1>6, <1>8, <1>15
  <2>2. Within(R) BY <1>8, <1>15, <2>1 DEF Within
  <2>3. RunOK(R) BY <1>1, <1>8, <1>9, <1>10, <1>11, <2>2, PromptingOK DEF Core
  <2>4. Follows(run[r], R) BY <1>8, <1>12
  <2> QED BY <1>1, <1>15, <2>3, <2>4, StoreFollows
<1> QED BY <1>2, <1>13, <1>14, <1>15

LEMMA ToolStartsOK ==
    ASSUME IInv, NEW r \in Runs, ToolStarts(r)
    PROVE  IInv' /\ CauseKept
<1> DEFINE n == Smaller(run[r].tools + 1, MaxTools + 1)
           R == [run[r] EXCEPT !.tools = n]
<1>1. /\ RunOK(run[r]) /\ run[r].at \in Prompting /\ ~run[r].aborted
      /\ ~run[r].spent /\ breaker' \in Breaker
  BY DEF IInv, ToolStarts, WithinQuotas, Listens
<1>2. PICK Q \in {CutLate(R, "tool_quota"), R} : Store(r, Q) BY DEF ToolStarts
<1>3. run[r] \in Run /\ Within(run[r]) /\ Caused(run[r]) BY <1>1 DEF RunOK, Core
<1>4. MaxTools \in Nat BY BoundsAssumption
<1>5. n \in 0..(MaxTools + 1) BY <1>3, <1>4 DEF Run, Smaller
<1> HIDE DEF n
<1>6. R \in Run BY <1>3, <1>5 DEF Run
<1>7. R.at = run[r].at /\ R.attempt = run[r].attempt /\ R.reason = run[r].reason
  BY <1>3 DEF Run
<1>8. Within(R) /\ Caused(R) BY <1>3 DEF Run, Within, Caused
<1>9. R.at = "revision" => R.attempt <= RevisionBudget BY <1>1, <1>7 DEF RunOK
<1> HIDE DEF R
<1>10. CASE Q = CutLate(R, "tool_quota")
  <2>1. RunOK(Q) /\ Q.reason = "tool_quota" BY <1>1, <1>6, <1>7, <1>8, <1>9, <1>10, CutLateOK
  <2>2. Follows(run[r], Q) BY <1>1, <2>1, EventFollows DEF RunOK
  <2> QED BY <1>1, <1>2, <2>1, <2>2, StoreFollows
<1>11. CASE Q = R
  <2>1. RunOK(Q) BY <1>1, <1>6, <1>7, <1>8, <1>9, <1>11, PromptingOK DEF Core
  <2>2. Follows(run[r], Q) BY <1>1, <1>7, <1>11, EventFollows DEF RunOK
  <2> QED BY <1>1, <1>2, <2>1, <2>2, StoreFollows
<1> QED BY <1>10, <1>11

\* The quotas of a running prompt: a flag is set and nothing else changes.
LEMMA ClocksOK ==
    ASSUME IInv, NEW r \in Runs, MessageEnds(r) \/ DurationElapses(r)
    PROVE  IInv' /\ CauseKept
<1> DEFINE R == run[r]
<1>1. RunOK(R) /\ R.at \in Prompting /\ ~R.aborted /\ breaker' \in Breaker
  BY DEF IInv, MessageEnds, DurationElapses, WithinQuotas, Listens
<1>2. PICK Q \in {[R EXCEPT !.spent = TRUE], [R EXCEPT !.expired = TRUE]} : Store(r, Q)
  BY DEF MessageEnds, DurationElapses
<1> HIDE DEF R
<1>3. Core(Q) /\ Q.at = R.at /\ Q.attempt = R.attempt /\ Kept(R, Q)
  <2>1. R \in Run /\ Within(R) /\ Caused(R) BY <1>1 DEF RunOK, Core
  <2>2. Q \in Run
    <3>1. [R EXCEPT !.spent = TRUE] \in Run BY <2>1 DEF Run
    <3>2. [R EXCEPT !.expired = TRUE] \in Run BY <2>1 DEF Run
    <3> QED BY <3>1, <3>2
  <2>3. /\ Q.at = R.at /\ Q.attempt = R.attempt /\ Q.reason = R.reason
        /\ Q.aborted = R.aborted /\ Q.cutting = R.cutting /\ Q.timedOut = R.timedOut
        /\ Q.turns = R.turns /\ Q.softLimit = R.softLimit /\ (R.spent => Q.spent)
    BY <2>1 DEF Run
  <2>4. Within(Q) /\ Caused(Q) BY <2>1, <2>3 DEF Within, Caused
  <2> QED BY <2>2, <2>3, <2>4 DEF Core, Kept
<1>4. RunOK(Q) BY <1>1, <1>3, PromptingOK DEF RunOK
<1> QED BY <1>1, <1>2, <1>3, <1>4, StoreOK DEF R

LEMMA AbortOK ==
    ASSUME IInv, NEW r \in Runs, Abort(r)
    PROVE  IInv' /\ CauseKept
<1> DEFINE a == run[r].at \in Attached
           x == a \/ run[r].aborted
           y == IF a THEN run[r].at \in Prompting ELSE run[r].at = "healing"
           Q == [run[r] EXCEPT !.signal = TRUE, !.aborted = x, !.aborting = y]
<1>1. RunOK(run[r]) /\ breaker' \in Breaker BY DEF IInv, Abort
<1>2. run[r] \in Run BY <1>1 DEF RunOK, Core
<1>3. Store(r, Q)
  <2> DEFINE R == [run[r] EXCEPT !.signal = TRUE]
  <2>1. Store(r, IF R.at \in Attached
                 THEN [R EXCEPT !.aborted = TRUE, !.aborting = R.at \in Prompting]
                 ELSE [R EXCEPT !.aborting = R.at = "healing"])
    BY DEF Abort
  <2>2. R.at = run[r].at BY <1>2 DEF Run
  <2>3. CASE a
    <3>1. Q = [R EXCEPT !.aborted = TRUE, !.aborting = R.at \in Prompting]
      BY <1>2, <2>2, <2>3 DEF Run
    <3> QED BY <2>1, <2>2, <2>3, <3>1
  <2>4. CASE ~a
    <3>1. Q = [R EXCEPT !.aborting = R.at = "healing"] BY <1>2, <2>2, <2>4 DEF Run
    <3> QED BY <2>1, <2>2, <2>4, <3>1
  <2> QED BY <2>3, <2>4
<1>4. x \in BOOLEAN /\ y \in BOOLEAN /\ (run[r].aborted => x)
  <2>1. CASE a BY <2>1
  <2>2. CASE ~a BY <2>2
  <2> QED BY <2>1, <2>2
<1> HIDE DEF a, x, y
<1>5. Q \in Run BY <1>2, <1>4 DEF Run
<1>6. /\ Q.at = run[r].at /\ Q.left = run[r].left /\ Q.attempt = run[r].attempt
      /\ Q.retries = run[r].retries /\ (run[r].aborted => Q.aborted)
  BY <1>2, <1>4 DEF Run
<1>7. Core(Q) BY <1>1, <1>2, <1>4, <1>5 DEF RunOK, Core, Run, Within, Caused
<1>8. Kept(run[r], Q) BY <1>2, <1>4 DEF Run, Kept
<1>9. /\ FailureKnown(run[r]) => FailureKnown(Q)
      /\ Gated(run[r]) => Gated(Q)
      /\ Reported(run[r]) => Reported(Q)
  BY <1>2, <1>4 DEF Run, FailureKnown, Gated, Reported
<1>10. RunOK(Q) BY <1>1, <1>6, <1>7, <1>9 DEF RunOK
<1> HIDE DEF Q
<1> QED BY <1>1, <1>3, <1>8, <1>10, StoreOK

\* The steps of the breaker alone.
LEMMA BreakerOK ==
    ASSUME IInv, OthersPrompt \/ RecoveryTimePasses
    PROVE  IInv' /\ CauseKept
<1>1. run' = run BY DEF OthersPrompt, RecoveryTimePasses
<1>2. breaker' \in Breaker
  <2>1. breaker \in Breaker BY DEF IInv
  <2>2. CASE OthersPrompt BY <2>1, <2>2, BreakerFacts DEF OthersPrompt
  <2>3. CASE RecoveryTimePasses BY <2>1, <2>3 DEF RecoveryTimePasses, Breaker
  <2> QED BY <2>2, <2>3
<1> QED BY <1>1, <1>2 DEF IInv, CauseKept, Follows

-----------------------------------------------------------------------------
(* The theorems.                                                           *)

LEMMA InitIInv == Init => IInv
<1> SUFFICES ASSUME Init PROVE IInv OBVIOUS
<1>1. NewRun \in Run
  <2>1. "idle" \in Places BY DEF Places
  <2>2. /\ MaxTurns \in Nat \ {0} /\ GraceTurns \in Nat \ {0} /\ MaxTools \in Nat
        /\ RevisionBudget \in Nat /\ ValidationRetries \in Nat
    BY BoundsAssumption
  <2>3. /\ 0 \in 0..(MaxTurns + GraceTurns) /\ 0 \in 0..(MaxTools + 1)
        /\ 0 \in 0..ValidationRetries /\ 1 \in 1..(RevisionBudget + 1)
    BY <2>2
  <2>4. 0 \in 0..MaxFallbacks BY DEF MaxFallbacks
  <2> QED BY <2>1, <2>3, <2>4 DEF NewRun, Run
<1>2. Within(NewRun)
  <2>1. /\ MaxTurns \in Nat \ {0} /\ GraceTurns \in Nat \ {0} /\ MaxTools \in Nat
    BY BoundsAssumption
  <2> QED BY <2>1 DEF Within, NewRun
<1>3. RunOK(NewRun) BY <1>1, <1>2 DEF RunOK, Core, Caused, After, NewRun
<1>4. breaker \in Breaker
  <2>1. 0 \in 0..Threshold BY BoundsAssumption
  <2> QED BY <2>1 DEF Init, Breaker
<1> QED BY <1>3, <1>4 DEF Init, IInv

LEMMA StepOK == IInv /\ [Next]_vars => IInv' /\ CauseKept
<1> SUFFICES ASSUME IInv, [Next]_vars PROVE IInv' /\ CauseKept OBVIOUS
<1>1. ASSUME NEW r \in Runs, Start(r) PROVE IInv' /\ CauseKept BY <1>1, StartOK
<1>2. ASSUME NEW r \in Runs, Proceeds(r) PROVE IInv' /\ CauseKept
  <2>1. CASE Loaded(r) \/ StartHookAnswers(r) \/ SessionFails(r) BY <2>1, LoadingOK
  <2>2. CASE SessionReady(r) BY <2>2, SessionReadyOK
  <2>3. CASE Switched(r) BY <2>3, SwitchedOK
  <2>4. CASE SwitchFails(r) BY <2>4, SwitchFailsOK
  <2>5. CASE EndHookAllows(r) BY <2>5, EndHookAllowsOK
  <2>6. CASE EndHookBlocks(r) BY <2>6, EndHookBlocksOK
  <2>7. CASE ValidatorsDone(r) BY <2>7, ValidatorsDoneOK
  <2> QED BY <1>2, <2>1, <2>2, <2>3, <2>4, <2>5, <2>6, <2>7 DEF Proceeds
<1>3. ASSUME NEW r \in Runs, PromptEnds(r) PROVE IInv' /\ CauseKept
  BY <1>3, FirstPromptEndsOK, FallbackEndsOK, RevisionEndsOK, HealingEndsOK DEF PromptEnds
<1>4. ASSUME NEW r \in Runs, Event(r) PROVE IInv' /\ CauseKept
  BY <1>4, QuotaTripsOK, TurnEndsOK, ToolStartsOK, ClocksOK, AbortReturnsOK DEF Event
<1>5. ASSUME NEW r \in Runs, DurationElapses(r) PROVE IInv' /\ CauseKept
  BY <1>5, ClocksOK
<1>6. ASSUME NEW r \in Runs, Abort(r) PROVE IInv' /\ CauseKept BY <1>6, AbortOK
<1>7. CASE OthersPrompt \/ RecoveryTimePasses BY <1>7, BreakerOK
<1>8. CASE UNCHANGED vars BY <1>8 DEF vars, IInv, CauseKept, Follows
<1> QED BY <1>1, <1>2, <1>3, <1>4, <1>5, <1>6, <1>7, <1>8 DEF Next

LEMMA IInvAlways == Spec => []IInv
  BY InitIInv, StepOK, PTL DEF Spec

\* However the prompts of a run follow one another, and whenever it is aborted,
\* its turns stay within maxTurns and graceTurns and its fallbacks, revisions and
\* validation rounds within theirs: TypeOK has these bounds in its ranges.  (Tool
\* calls past their quota are not counted any further.)
THEOREM BudgetsHold == Spec => []TypeOK
<1>1. IInv => TypeOK
  <2> SUFFICES ASSUME IInv PROVE TypeOK OBVIOUS
  <2>1. \A r \in Runs : run[r] \in Run BY DEF IInv, RunOK, Core
  <2>2. run \in [Runs -> Run] BY <2>1 DEF IInv
  <2> QED BY <2>2 DEF TypeOK, IInv, Breaker
<1> QED BY <1>1, IInvAlways, PTL

\* runAgent returns no text the end hook rejected, whatever the kinds of the
\* runs, their budgets and the failures of their models.
THEOREM GateIsKept == Spec => []GateHolds
<1>1. IInv => GateHolds BY DEF IInv, RunOK, After, Gated, GateHolds
<1> QED BY <1>1, IInvAlways, PTL

\* runAgent never returns a run that failed without text as one that said nothing.
THEOREM FailuresAreReported == Spec => []NoSilentFailure
<1>1. IInv => NoSilentFailure BY DEF IInv, RunOK, After, Reported, NoSilentFailure
<1> QED BY <1>1, IInvAlways, PTL

\* The cause a run was aborted for is final once aborted is set.  Before that it is
\* replaced only inside the early session.abort() of a token or tool quota, and the
\* token quota's only by the duration's.
THEOREM CauseIsKept == Spec => AbortCauseIsKept
<1>1. CauseKept => [\A r \in Runs : LET R == run[r] IN
         /\ R.aborted => /\ run'[r].aborted
                         /\ run'[r].reason = R.reason
                         /\ run'[r].timedOut = R.timedOut
         /\ R.reason # "none" /\ run'[r].reason # R.reason =>
                R.cutting /\ <<R.reason, run'[r].reason>> \in Replaces]_vars
  BY DEF CauseKept, Follows
<1> QED BY <1>1, IInvAlways, StepOK, PTL DEF Spec, AbortCauseIsKept

-----------------------------------------------------------------------------
(* AgentTools: what a session is given, for all configurations.  It is a   *)
(* function of the registry and the records as they are when the agent     *)
(* starts, so the two properties follow from lemmas on the operators and   *)
(* from the types of the variables.                                        *)

\* What spawn remembers of an agent.
Record == [type : Types, parent : Agents \cup {NoAgent}, isolated : BOOLEAN]

\* Only the variables that decide what a session is given have to be typed.
Typed ==
    /\ registry \in [Types -> Configs \cup {Missing}]
    /\ record \in [Agents -> Record \cup {Missing}]
    /\ DOMAIN session = Agents

-----------------------------------------------------------------------------
(* Lemmas on the operators.                                                *)

\* getConfig adds nothing to what the parent has but the context-mode tools.
LEMMA ConfigIsBounded ==
    ASSUME NEW t, NEW parent, parent.known
    PROVE  GetConfig(t, parent).tools \subseteq
              parent.tools \cup (IF ReadOnlyFloor(parent) THEN {} ELSE ContextTools(parent))
<1> DEFINE base == [tools |-> IF registry[t].tools = Unset THEN Builtin ELSE Normalized(registry[t].tools),
                    exts |-> registry[t].exts, known |-> TRUE]
           safe == [tools |-> ReadOnly, exts |-> NoneAtAll, known |-> TRUE]
<1>1. ASSUME NEW own
      PROVE  Restricted(own, parent) =
                [tools |-> own.tools \cap parent.tools,
                 exts |-> IntersectPermission(own.exts, parent.exts), known |-> TRUE]
  BY DEF Restricted
<1>2. CASE ~Usable(t)
  BY <1>1, <1>2 DEF GetConfig
<1>3. CASE Usable(t) /\ registry[t].ctx /\ Installed /\ ~ReadOnlyFloor(parent)
  <2>1. GetConfig(t, parent) =
            [Restricted(base, parent) EXCEPT !.tools = @ \cup ContextTools(parent)]
    BY <1>3 DEF GetConfig
  <2> QED BY <2>1, <1>1, <1>3
<1>4. CASE Usable(t) /\ ~(registry[t].ctx /\ Installed /\ ~ReadOnlyFloor(parent))
  <2>1. GetConfig(t, parent) = Restricted(base, parent)
    BY <1>4 DEF GetConfig
  <2> QED BY <2>1, <1>1
<1> QED BY <1>2, <1>3, <1>4

\* What a type asks of extensions is a permission.
LEMMA OwnPermission ==
    ASSUME NEW t \in Types, registry \in [Types -> Configs \cup {Missing}]
    PROVE  OwnExts(t) \in Permissions
<1>1. CASE Usable(t)
  <2>1. registry[t] \in Config
    BY <1>1, ConfigsAssumption DEF Usable
  <2> QED BY <1>1, <2>1 DEF OwnExts, Config
<1>2. CASE ~Usable(t)
  BY <1>2 DEF OwnExts, Permissions
<1> QED BY <1>1, <1>2

\* getConfig gives extensions what both the type and the parent have.
LEMMA ConfigExtensions ==
    ASSUME NEW t \in Types, NEW parent
    PROVE  GetConfig(t, parent).exts =
              IF parent.known THEN IntersectPermission(OwnExts(t), parent.exts) ELSE OwnExts(t)
<1> DEFINE base == [tools |-> IF registry[t].tools = Unset THEN Builtin ELSE Normalized(registry[t].tools),
                    exts |-> registry[t].exts, known |-> TRUE]
           safe == [tools |-> ReadOnly, exts |-> NoneAtAll, known |-> TRUE]
           R(own) == Restricted(own, parent)
<1>1. ASSUME NEW T, NEW X
      PROVE  R([tools |-> T, exts |-> X, known |-> TRUE]).exts =
                IF parent.known THEN IntersectPermission(X, parent.exts) ELSE X
  BY DEF Restricted
<1>2. CASE ~Usable(t)
  <2>1. GetConfig(t, parent) = R(safe) /\ OwnExts(t) = NoneAtAll
    BY <1>2 DEF GetConfig, OwnExts
  <2> QED BY <2>1, <1>1
<1>3. CASE Usable(t)
  <2>1. \/ GetConfig(t, parent) = R(base)
        \/ GetConfig(t, parent) = [R(base) EXCEPT !.tools = @ \cup ContextTools(parent)]
    BY <1>3 DEF GetConfig
  <2>2. [R(base) EXCEPT !.tools = @ \cup ContextTools(parent)].exts = R(base).exts
    <3>1. R(base) = base \/ R(base) = [tools |-> base.tools \cap parent.tools,
             exts |-> IntersectPermission(base.exts, parent.exts), known |-> TRUE]
      BY DEF Restricted
    <3> QED BY <3>1
  <2>3. OwnExts(t) = registry[t].exts
    BY <1>3 DEF OwnExts
  <2>4. R(base).exts = IF parent.known THEN IntersectPermission(registry[t].exts, parent.exts)
                       ELSE registry[t].exts
    BY <1>1
  <2> HIDE DEF R, base
  <2> QED BY <2>1, <2>2, <2>3, <2>4
<1> QED BY <1>2, <1>3

\* The configuration of a type by itself.
LEMMA OwnConfig ==
    ASSUME NEW t \in Types, NEW parent, ~parent.known, registry \in [Types -> Configs \cup {Missing}]
    PROVE  /\ GetConfig(t, parent).known
           /\ GetConfig(t, parent).exts \in Permissions
           /\ Usable(t) => (IF registry[t].tools = Unset THEN Builtin ELSE Normalized(registry[t].tools))
                              \subseteq GetConfig(t, parent).tools
<1> DEFINE base == [tools |-> IF registry[t].tools = Unset THEN Builtin ELSE Normalized(registry[t].tools),
                    exts |-> registry[t].exts, known |-> TRUE]
           safe == [tools |-> ReadOnly, exts |-> NoneAtAll, known |-> TRUE]
<1>1. \A own : Restricted(own, parent) = own
  BY DEF Restricted
<1>2. CASE ~Usable(t)
  <2>1. GetConfig(t, parent) = safe
    BY <1>1, <1>2 DEF GetConfig
  <2> QED BY <2>1, <1>2 DEF Permissions
<1>3. CASE Usable(t)
  <2>0. \/ GetConfig(t, parent) = Restricted(base, parent)
        \/ GetConfig(t, parent) = [Restricted(base, parent) EXCEPT !.tools = @ \cup ContextTools(parent)]
    BY <1>3 DEF GetConfig
  <2> HIDE DEF base
  <2>1. \/ GetConfig(t, parent) = base
        \/ GetConfig(t, parent) = [base EXCEPT !.tools = @ \cup ContextTools(parent)]
    BY <1>1, <2>0
  <2> USE DEF base
  <2>2. registry[t].exts \in Permissions
    BY <1>3, ConfigsAssumption DEF Usable, Config
  <2> QED BY <2>1, <2>2
<1> QED BY <1>2, <1>3

\* An intersection of permissions lets no tool through that one of them does not.
LEMMA IntersectionNarrows ==
    ASSUME NEW child \in Permissions, NEW parent \in Permissions
    PROVE  FromExtensions(IntersectPermission(child, parent)) \subseteq
              FromExtensions(child) \cap FromExtensions(parent)
<1>0. /\ FromExtensions(NoneAtAll) = {} /\ FromExtensions(Every) = Other
      /\ \A exts \in SUBSET Exts : FromExtensions(exts) = UNION {Matched[e] : e \in exts}
  BY ToolsAssumption DEF FromExtensions
<1>1. \A exts \in SUBSET Exts : FromExtensions(exts) \subseteq Other
  BY <1>0, ToolsAssumption
<1>2. CASE parent = NoneAtAll \/ child = NoneAtAll
  BY <1>0, <1>2 DEF IntersectPermission
<1>3. CASE parent = Every /\ child # NoneAtAll
  <2>1. IntersectPermission(child, parent) = child
    BY <1>3, ToolsAssumption DEF IntersectPermission
  <2>2. FromExtensions(child) \subseteq Other
    BY <1>0, <1>1, <1>3 DEF Permissions
  <2> QED BY <1>0, <1>3, <2>1, <2>2
<1>4. CASE parent \in SUBSET Exts /\ child = Every
  <2>1. IntersectPermission(child, parent) = parent
    BY <1>4, ToolsAssumption DEF IntersectPermission
  <2> QED BY <1>0, <1>1, <1>4, <2>1
<1>5. CASE parent \in SUBSET Exts /\ child \in SUBSET Exts
  <2>1. IntersectPermission(child, parent) = child \cap parent
    BY <1>5, ToolsAssumption DEF IntersectPermission
  <2>2. FromExtensions(child \cap parent) = UNION {Matched[e] : e \in child \cap parent}
    BY <1>0, <1>5
  <2> QED BY <1>0, <1>5, <2>1, <2>2
<1> QED BY <1>2, <1>3, <1>4, <1>5 DEF Permissions

\* Only tools of extensions come from extensions.
LEMMA ExtensionTools ==
    ASSUME NEW exts \in Permissions
    PROVE  FromExtensions(exts) \subseteq Other
<1>1. CASE exts \in SUBSET Exts
  <2>1. FromExtensions(exts) = UNION {Matched[e] : e \in exts}
    BY <1>1, ToolsAssumption DEF FromExtensions
  <2> QED BY <2>1, <1>1, ToolsAssumption
<1> QED BY <1>1, ToolsAssumption DEF Permissions, FromExtensions

\* IntersectPermission gives a permission.
LEMMA IntersectionType ==
    ASSUME NEW child \in Permissions, NEW parent \in Permissions
    PROVE  IntersectPermission(child, parent) \in Permissions
BY DEF IntersectPermission, Permissions

\* What the session is given of builtin and context-mode tools is in the
\* effective configuration.
LEMMA ActiveIsAllowed ==
    ASSUME NEW t, NEW config, NEW exts
    PROVE  Active(t, config, exts) \subseteq (config.tools \cup FromExtensions(exts)) \ Denied(t)
BY DEF Active, ToolNames, Injectable

\* Tools of extensions are named by the type or let through by the permission.
LEMMA UnnamedAreLetThrough ==
    ASSUME NEW t, NEW config, NEW exts
    PROVE  (Active(t, config, exts) \cap Other) \ TypeTools(t) \subseteq FromExtensions(exts)
<1>1. MemoryTools(t) \cap Other = {}
  BY ToolsAssumption DEF MemoryTools
<1>2. Injectable(t, config) \cap Other = {}
  BY ToolsAssumption DEF Injectable
<1> QED BY <1>1, <1>2 DEF Active, ToolNames

-----------------------------------------------------------------------------
(* Types, and the step that gives a session.                               *)

\* Reloading, spawning, starting and removing keep the types.
THEOREM TypesHold == ToolsSpec => []Typed
<1>1. ToolsInit => Typed
  BY DEF ToolsInit, Typed
<1>2. Typed /\ [ToolsNext]_toolsVars => Typed'
  <2> SUFFICES ASSUME Typed, [ToolsNext]_toolsVars PROVE Typed'
    OBVIOUS
  <2> USE DEF Typed
  <2>1. ASSUME NEW t \in Types, Reload(t) PROVE Typed'
    BY <2>1 DEF Reload
  <2>2. ASSUME NEW a \in Agents, Spawn(a) PROVE Typed'
    BY <2>2 DEF Spawn, Record
  <2>3. ASSUME NEW a \in Agents, StartAgent(a) PROVE Typed'
    BY <2>3 DEF StartAgent
  <2>4. ASSUME NEW a \in Agents, Remove(a) PROVE Typed'
    BY <2>4 DEF Remove
  <2>5. CASE UNCHANGED toolsVars
    BY <2>5 DEF toolsVars
  <2> QED BY <2>1, <2>2, <2>3, <2>4, <2>5 DEF ToolsNext
<1> QED BY <1>1, <1>2, PTL DEF ToolsSpec

\* Only StartAgent gives a session, and it gives what the operators say.
LEMMA StartingStep ==
    ASSUME Typed, [ToolsNext]_toolsVars, NEW a \in Agents, Starting(a)
    PROVE  record[a] \in Record /\ session'[a] = Session(a)
<1> USE DEF Starting, Typed
<1>1. ASSUME NEW b \in Agents, StartAgent(b) PROVE record[a] \in Record /\ session'[a] = Session(a)
  <2>1. b = a
    BY <1>1 DEF StartAgent
  <2> QED BY <1>1, <2>1 DEF StartAgent
<1>2. ASSUME session' = session PROVE FALSE
  BY <1>2
<1> QED BY <1>1, <1>2 DEF ToolsNext, Reload, Spawn, Remove, toolsVars

\* The configuration of the parent's type has typed permissions.
LEMMA ParentIsTyped ==
    ASSUME Typed, NEW a \in Agents, record[a] \in Record
    PROVE  ParentConfig(a).known => ParentConfig(a).exts \in Permissions
<1>1. CASE ParentConfig(a) = Unrestricted
  BY <1>1 DEF Unrestricted
<1>2. CASE record[a].parent # NoAgent /\ record[record[a].parent] # Missing
  <2> DEFINE p == record[a].parent
  <2>1. p \in Agents /\ record[p] \in Record
    BY <1>2 DEF Typed, Record
  <2>2. ParentConfig(a) = GetConfig(record[p].type, Unrestricted)
    BY <1>2 DEF ParentConfig
  <2>3. ~Unrestricted.known
    BY DEF Unrestricted
  <2>4. record[p].type \in Types
    BY <2>1 DEF Record
  <2> QED BY <2>2, <2>3, <2>4, OwnConfig DEF Typed
<1> QED BY <1>1, <1>2 DEF ParentConfig

-----------------------------------------------------------------------------
(* The two properties.                                                     *)

\* Whatever the types are configured to be, an agent is given no tool that its own
\* type denies, no tool of an extension that is not named unless its own type and its
\* parent's let it through and it is not isolated, and none that its parent's type
\* could not use, but the context-mode tools a parent that is not read-only leaves open.
THEOREM ParentRestricts == ToolsSpec => RestrictionsHold
<1> DEFINE Bound(a) ==
       LET t == record[a].type
           parent == ParentConfig(a)
           tools == session'[a].tools
           both == FromExtensions(OwnExts(t)) \cap FromExtensions(parent.exts)
       IN  /\ tools \cap Denied(t) = {}
           /\ (tools \cap Other) \ TypeTools(t) \subseteq
                 (IF record[a].isolated THEN {} ELSE both)
           /\ parent.known =>
                 tools \subseteq
                     parent.tools \cup FromExtensions(parent.exts)
                     \cup (IF ReadOnlyFloor(parent) THEN {} ELSE ContextTools(parent))
<1>1. ASSUME Typed, [ToolsNext]_toolsVars, NEW a \in Agents, Starting(a) PROVE Bound(a)
  <2> DEFINE t == record[a].type
             parent == ParentConfig(a)
             config == GetConfig(t, parent)
             exts == IF record[a].isolated THEN NoneAtAll ELSE config.exts
             both == FromExtensions(OwnExts(t)) \cap FromExtensions(parent.exts)
  <2>1. record[a] \in Record /\ session'[a] = Session(a)
    BY <1>1, StartingStep
  <2>2. session'[a].tools = Active(t, config, exts)
    BY <2>1 DEF Session
  <2>3. session'[a].tools \subseteq (config.tools \cup FromExtensions(exts)) \ Denied(t)
    BY <2>2, ActiveIsAllowed
  <2>4. FromExtensions(config.exts) \subseteq both
    <3>1. t \in Types
      BY <2>1 DEF Record
    <3>2. OwnExts(t) \in Permissions
      BY <1>1, <3>1, OwnPermission DEF Typed
    <3>3. CASE parent.known
      <4>1. parent.exts \in Permissions
        BY <1>1, <2>1, <3>3, ParentIsTyped
      <4>2. config.exts = IntersectPermission(OwnExts(t), parent.exts)
        BY <3>1, <3>3, ConfigExtensions
      <4> QED BY <3>2, <4>1, <4>2, IntersectionNarrows
    <3>4. CASE ~parent.known
      <4>1. config.exts = OwnExts(t)
        BY <3>1, <3>4, ConfigExtensions
      <4>2. parent = Unrestricted
        <5>1. CASE record[a].parent # NoAgent /\ record[record[a].parent] # Missing
          <6>1. record[record[a].parent] \in Record
            BY <1>1, <2>1, <5>1 DEF Typed, Record
          <6>2. record[record[a].parent].type \in Types
            BY <6>1 DEF Record
          <6>3. parent = GetConfig(record[record[a].parent].type, Unrestricted)
            BY <5>1 DEF ParentConfig
          <6>4. parent.known
            BY <1>1, <6>2, <6>3, OwnConfig DEF Typed, Unrestricted
          <6> QED BY <3>4, <6>4
        <5> QED BY <5>1 DEF ParentConfig
      <4>3. FromExtensions(parent.exts) = Other
        BY <4>2, ToolsAssumption DEF Unrestricted, FromExtensions
      <4>4. FromExtensions(OwnExts(t)) \subseteq Other
        BY <3>2, ExtensionTools
      <4> QED BY <4>1, <4>3, <4>4
    <3> QED BY <3>3, <3>4
  <2>5. FromExtensions(exts) \subseteq (IF record[a].isolated THEN {} ELSE both)
    BY <2>4 DEF FromExtensions
  <2>6. (session'[a].tools \cap Other) \ TypeTools(t) \subseteq FromExtensions(exts)
    BY <2>2, UnnamedAreLetThrough
  <2>7. ASSUME parent.known
        PROVE  session'[a].tools \subseteq
                  parent.tools \cup FromExtensions(parent.exts)
                  \cup (IF ReadOnlyFloor(parent) THEN {} ELSE ContextTools(parent))
    <3>1. config.tools \subseteq
             parent.tools \cup (IF ReadOnlyFloor(parent) THEN {} ELSE ContextTools(parent))
      BY <2>7, ConfigIsBounded
    <3>2. FromExtensions(exts) \subseteq FromExtensions(parent.exts)
      BY <2>5
    <3> HIDE DEF parent, config, exts, t
    <3> QED BY <2>3, <3>1, <3>2
  <2>8. session'[a].tools \cap Denied(t) = {}
    BY <2>3
  <2>9. (session'[a].tools \cap Other) \ TypeTools(t) \subseteq
           (IF record[a].isolated THEN {} ELSE both)
    <3> HIDE DEF both, exts, t
    <3> QED BY <2>5, <2>6
  <2> QED BY <2>7, <2>8, <2>9
<1>2. Typed /\ [ToolsNext]_toolsVars => [\A a \in Agents : Starting(a) => Bound(a)]_toolsVars
  BY <1>1
<1> QED BY <1>2, TypesHold, PTL DEF ToolsSpec, RestrictionsHold

\* The memory block and the context-mode block of the prompt never promise what
\* the tools of the session do not give.
THEOREM PromptIsTrue == ToolsSpec => PromptFitsTools
<1> DEFINE Fits(a) ==
       LET t == record[a].type
           s == session'[a]
       IN  /\ s.memory = "readonly" => s.tools \cap Writing = {}
           /\ s.ctx => s.tools \cap Ctx # {}
           /\ s.memory = "writable" /\ ~ParentConfig(a).known /\ Usable(t)
                 /\ registry[t].tools # {} => s.tools \cap Writing # {}
<1>1. ASSUME Typed, [ToolsNext]_toolsVars, NEW a \in Agents, Starting(a) PROVE Fits(a)
  <2> DEFINE t == record[a].type
             parent == ParentConfig(a)
             config == GetConfig(t, parent)
             exts == IF record[a].isolated THEN NoneAtAll ELSE config.exts
             s == session'[a]
  <2>1. record[a] \in Record /\ s = Session(a)
    BY <1>1, StartingStep
  <2>2. t \in Types
    BY <2>1 DEF Record
  <2>3. /\ s.tools = Active(t, config, exts)
        /\ s.memory = (IF ~HasMemory(t) THEN "none"
                       ELSE IF HasWriteTools(t) THEN "writable" ELSE "readonly")
        /\ s.ctx = (Injectable(t, config) # {})
    BY <2>1 DEF Session
  <2>4. FromExtensions(exts) \subseteq Other
    <3>1. config.exts \in Permissions
      <4>1. CASE ~parent.known
        BY <1>1, <2>2, <4>1, OwnConfig DEF Typed
      <4>2. CASE parent.known
        <5>1. config.exts = IntersectPermission(OwnExts(t), parent.exts)
          BY <2>2, <4>2, ConfigExtensions
        <5>2. parent.exts \in Permissions
          BY <1>1, <2>1, <4>2, ParentIsTyped
        <5>3. OwnExts(t) \in Permissions
          BY <1>1, <2>2, OwnPermission DEF Typed
        <5> QED BY <5>1, <5>2, <5>3, IntersectionType
      <4> QED BY <4>1, <4>2
    <3>2. exts \in Permissions
      BY <3>1 DEF Permissions
    <3> QED BY <3>2, ExtensionTools
  <2> HIDE DEF exts, config, parent, t, s
  <2>5. ASSUME s.memory = "readonly" PROVE s.tools \cap Writing = {}
    <3>1. HasMemory(t) /\ ~HasWriteTools(t)
      BY <2>3, <2>5
    <3>2. MemoryTools(t) = {Read}
      BY <3>1 DEF MemoryTools
    <3>3. ASSUME NEW w \in Writing, w \in s.tools PROVE FALSE
      <4>1. w \notin Other /\ w \notin Ctx /\ w # Read
        BY <3>3, ToolsAssumption
      <4>2. w \in ToolNames(t, config) /\ w \notin Denied(t)
        BY <4>1, <3>3, <2>3, <2>4 DEF Active, Injectable
      <4>3. w \in TypeTools(t)
        BY <4>1, <4>2, <3>2 DEF ToolNames
      <4> QED BY <4>2, <4>3, <3>1, <3>3 DEF HasWriteTools
    <3> QED BY <3>3
  <2>6. ASSUME s.ctx PROVE s.tools \cap Ctx # {}
    <3>1. PICK c \in Injectable(t, config) : TRUE
      BY <2>3, <2>6
    <3>2. c \in Ctx /\ c \notin Denied(t)
      BY <3>1 DEF Injectable
    <3>3. c \notin Orchestration
      BY <3>2, ToolsAssumption
    <3> QED BY <2>3, <3>1, <3>2, <3>3 DEF Active
  <2>7. ASSUME s.memory = "writable", ~parent.known, Usable(t), registry[t].tools # {}
        PROVE  s.tools \cap Writing # {}
    <3>1. HasWriteTools(t)
      BY <2>3, <2>7
    <3>2. PICK w \in Writing : w \in TypeTools(t) /\ w \notin Denied(t)
      BY <3>1 DEF HasWriteTools
    <3>3. (IF registry[t].tools = Unset THEN Builtin ELSE Normalized(registry[t].tools))
              \subseteq config.tools
      BY <1>1, <2>2, <2>7, OwnConfig DEF Typed, config
    <3>4. w \in config.tools
      BY <2>7, <3>2, <3>3 DEF TypeTools
    <3>5. w \notin Orchestration
      BY ToolsAssumption
    <3> QED BY <2>3, <3>2, <3>4, <3>5 DEF Active, ToolNames
  <2> QED BY <2>5, <2>6, <2>7 DEF s, t, parent
<1>2. Typed /\ [ToolsNext]_toolsVars => [\A a \in Agents : Starting(a) => Fits(a)]_toolsVars
  BY <1>1
<1> QED BY <1>2, TypesHold, PTL DEF ToolsSpec, PromptFitsTools
=============================================================================

----------------------------- MODULE AgentRunner -----------------------------
(***************************************************************************)
(* runAgent (src/agent-runner.ts): the life of one run of a subagent, from *)
(* the depth check through the start hook, the session, the first prompt,  *)
(* the fallback models, the end hook with its revisions and the validators *)
(* (src/agent-runner-validator.ts) to the result or the error it ends      *)
(* with.  Several runs are in flight at a time; they share one circuit     *)
(* breaker.  The awaits of the code are the values of at.                  *)
(*                                                                         *)
(* The session is the host's: a prompt emits events while it runs and ends *)
(* in one of the ways of Ends.  A prompt that resolves has appended an     *)
(* assistant message; abort() on a session without a prompt does nothing.  *)
(***************************************************************************)
EXTENDS Integers, FiniteSets

CONSTANTS
    Runs,             \* the calls of runAgent
    RunKinds,         \* the option records they are made with
    Models,           \* the parent's model and the registry's (the free ones, if only they count)
    Threshold,        \* CB_FAILURE_THRESHOLD
    MaxTurns,         \* maxTurns, after normalizeMaxTurns
    GraceTurns,       \* graceTurns
    MaxTools,         \* quotas.maxToolCalls
    RevisionBudget,   \* maxEndHookRevisions, clamped to 0..10
    LevelLimit,       \* options.levelLimit
    ValidationRetries \* VALIDATION_MAX_RETRIES

\* model: the resolved model.  pinned: the caller passed options.model.
\* freeOnly: isFreeModelsOnly() while the run is under way.
\* hooks: options.hooks is set.  validators: the agent type has some and
\* skipValidators is not set.  level: options.currentLevel.
RunKind == [model : Models, pinned : BOOLEAN, freeOnly : BOOLEAN, hooks : BOOLEAN,
            validators : BOOLEAN, level : Nat]

ASSUME RunKindsAssumption == RunKinds \subseteq RunKind
ASSUME ModelsAssumption == IsFiniteSet(Models)
ASSUME BoundsAssumption ==
    /\ {Threshold, MaxTurns, GraceTurns} \subseteq Nat \ {0}
    /\ {MaxTools, LevelLimit, ValidationRetries} \subseteq Nat
    /\ RevisionBudget \in 0..10

VARIABLES
    run,        \* what each call of runAgent keeps in its closure, and its session
    breaker     \* globalCircuitBreaker

vars == <<run, breaker>>

Prompting == {"prompt", "fallback", "revision"}
\* The subscriber and the abort listener are in place.
Attached  == Prompting \cup {"switching", "endHook"}
Over      == {"returned", "threw"}
Places    == {"idle", "loading", "startHook", "creating", "validating", "healing"}
                \cup Attached \cup Over
MaxFallbacks == 5
Budgets   == {"duration_quota", "token_quota", "turn_budget", "tool_quota"}
NoKind    == [model |-> "none", pinned |-> FALSE, freeOnly |-> FALSE, hooks |-> FALSE,
              validators |-> FALSE, level |-> 0]

\* signal: the caller's AbortSignal is aborted.    aborting: session.abort() was
\* called during the prompt that runs.    cutting: that call, made by the token or
\* tool quota, is still on the stack.    last: getLastAssistantError.
\* left: how many fallback candidates are still to try.    expired, spent: the duration,
\* the tokens are past their quota.
Run == [at : Places, kind : RunKinds \cup {NoKind}, signal : BOOLEAN, aborted : BOOLEAN,
        timedOut : BOOLEAN, aborting : BOOLEAN, cutting : BOOLEAN, reason : Budgets \cup {"none"},
        turns : 0..(MaxTurns + GraceTurns), tools : 0..(MaxTools + 1), softLimit : BOOLEAN,
        expired : BOOLEAN, spent : BOOLEAN, text : BOOLEAN, last : {"none", "model", "other"},
        left : 0..MaxFallbacks, exhausted : BOOLEAN, attempt : 1..(RevisionBudget + 1),
        gate : {"unasked", "passed", "blocked"}, retries : 0..ValidationRetries,
        failed : BOOLEAN, error : BOOLEAN, outcome : {"none", "executed", "blocked_budget", "not_executed"}]

NewRun == [at |-> "idle", kind |-> NoKind, signal |-> FALSE, aborted |-> FALSE,
           timedOut |-> FALSE, aborting |-> FALSE, cutting |-> FALSE, reason |-> "none",
           turns |-> 0, tools |-> 0, softLimit |-> FALSE,
           expired |-> FALSE, spent |-> FALSE, text |-> FALSE, last |-> "none",
           left |-> 0, exhausted |-> FALSE, attempt |-> 1,
           gate |-> "unasked", retries |-> 0, failed |-> FALSE, error |-> FALSE, outcome |-> "none"]

\* The ways a prompt ends.  A prompt that rejects has no text of its own unless
\* it was aborted, and "abort" (an AbortError) needs an abort during the prompt.
\* The await goes on only when no call of abort() is on the stack.
Ends == [how : {"resolves"}, text : BOOLEAN, fault : {"none", "model", "other"}]
          \cup [how : {"rejects"}, text : {FALSE}, fault : {"model", "other"}]
          \cup [how : {"rejects"}, text : BOOLEAN, fault : {"abort"}]
PossibleEnds(R) == {e \in Ends : ~R.cutting /\ (e.fault = "abort" => R.aborting)}
-----------------------------------------------------------------------------
(* The circuit breaker.  cooled: CB_RECOVERY_TIMEOUT_MS have passed since   *)
(* the last failure.  failures stops at Threshold: only that is tested.     *)

Admits == breaker.state = "open" => breaker.cooled

\* assertAllow, when it does not throw.
Admitted == [breaker EXCEPT !.state = IF @ = "open" THEN "half-open" ELSE @]

Smaller(m, n) == IF m < n THEN m ELSE n

RecordFailure(b) ==
    LET failures == Smaller(b.failures + 1, Threshold) IN
    [state |-> IF failures = Threshold THEN "open" ELSE b.state,
     failures |-> failures, cooled |-> FALSE]

RecordSuccess(b) ==
    [b EXCEPT !.state = IF @ = "half-open" THEN "closed" ELSE @, !.failures = 0]

\* promptWithCircuitBreaker after session.prompt: a soft or thrown failure of
\* the model counts; other errors and aborts leave the breaker alone.
Recorded(b, e) ==
    IF e.fault = "model" THEN RecordFailure(b)
    ELSE IF e.how = "resolves" THEN RecordSuccess(b)
    ELSE b
-----------------------------------------------------------------------------
(* What the handlers compute from a run R, before it is stored.             *)

TooDeep(level, limit) == level >= limit

\* getFallbackModels: the parent's model and those of the registry, without the
\* one that failed, at most five.
FallbackModels(failed) == Smaller(MaxFallbacks, Cardinality(Models \ {failed}))

\* deriveAgentOutcome: work done counts first, then why the run was cut.
DeriveOutcome(R) ==
    IF R.text \/ R.tools > 0 THEN "executed"
    ELSE IF R.aborted /\ R.reason # "none" THEN "blocked_budget"
    ELSE "not_executed"

\* Mutant: the error of the last candidate is not kept.
FinishedForgetful(R) ==
    [R EXCEPT !.error   = ~R.text /\ ~R.aborted /\ R.last # "none",
              !.outcome = DeriveOutcome(R),
              !.at      = IF R.kind.validators /\ ~R.aborted THEN "validating" ELSE "returned"]

\* The code after the finally block.  R.signal implies R.aborted there.
Finished(R) ==
    [R EXCEPT !.error   = ~R.text /\ ~R.aborted /\ (R.last # "none" \/ R.exhausted),
              !.outcome = DeriveOutcome(R),
              !.at      = IF R.kind.validators /\ ~R.aborted THEN "validating" ELSE "returned"]

\* The end hook is asked, or there is none.
Ended(R) ==
    IF R.kind.hooks THEN [R EXCEPT !.at = "endHook"] ELSE Finished(R)

\* The fallback loop is over: the last error stays if nothing was said.
LoopOver(R) == Ended([R EXCEPT !.exhausted = ~R.text /\ ~R.aborted, !.left = 0])

TryNext(R) == IF R.left = 0 THEN LoopOver(R) ELSE [R EXCEPT !.at = "switching"]

Threw(R) == [R EXCEPT !.at = "threw"]

\* The session after a prompt ended: text is kept once there is some
\* (getLastAssistantText looks back), the last error is that of the last message.
Heard(R, e) ==
    [R EXCEPT !.text = @ \/ e.text, !.aborting = FALSE,
              !.aborted = @ \/ e.fault = "abort",
              !.last = IF e.how = "resolves" THEN e.fault ELSE @,
              !.failed = e.fault \in {"model", "other"}]
-----------------------------------------------------------------------------
Init ==
    /\ run = [r \in Runs |-> NewRun]
    /\ breaker = [state |-> "closed", failures |-> 0, cooled |-> FALSE]

Store(r, R) == run' = [run EXCEPT ![r] = R]

\* A prompt starts, unless the breaker throws; then the run goes on as refused.
StartPrompt(r, R, place, refused) ==
    \/ /\ Admits
       /\ breaker' = Admitted
       /\ Store(r, [R EXCEPT !.at = place])
    \/ /\ ~Admits
       /\ Store(r, refused)
       /\ UNCHANGED breaker

Start(r) == \E k \in RunKinds :
    /\ run[r].at = "idle"
    /\ Store(r, [run[r] EXCEPT !.kind = k,
                               !.at = IF TooDeep(k.level, LevelLimit) THEN "threw" ELSE "loading"])
    /\ UNCHANGED breaker

\* loader.reload() is done; there may be no model to run on.
Loaded(r) == \E found \in BOOLEAN :
    /\ run[r].at = "loading"
    /\ Store(r, [run[r] EXCEPT !.at = IF ~found THEN "threw"
                                      ELSE IF run[r].kind.hooks THEN "startHook" ELSE "creating"])
    /\ UNCHANGED breaker

StartHookAnswers(r) == \E blocks \in BOOLEAN :
    /\ run[r].at = "startHook"
    /\ Store(r, [run[r] EXCEPT !.at = IF blocks THEN "threw" ELSE "creating"])
    /\ UNCHANGED breaker

\* createAgentSession or bindExtensions fails.
SessionFails(r) ==
    /\ run[r].at = "creating"
    /\ Store(r, Threw(run[r]))
    /\ UNCHANGED breaker

\* The session is bound: subscribe, forwardAbortSignal, and the first prompt.
SessionReady(r) ==
    /\ run[r].at = "creating"
    /\ LET R == [run[r] EXCEPT !.aborted = @ \/ run[r].signal]
       IN  StartPrompt(r, R, "prompt", Threw(R))

\* The first prompt failed in a way that another model may cure.
FallsBack(R, e) ==
    /\ ~R.kind.pinned \/ R.kind.freeOnly
    /\ ~R.aborted /\ ~R.text
    /\ e.fault = "model"

FirstPromptEnds(r) == \E e \in PossibleEnds(run[r]) :
    LET R == Heard(run[r], e) IN
    /\ run[r].at = "prompt"
    /\ breaker' = Recorded(breaker, e)
    /\ \/ /\ FallsBack(R, e)
          /\ Store(r, TryNext([R EXCEPT !.left = FallbackModels(R.kind.model)]))
       \/ /\ ~FallsBack(R, e)
          /\ e.how = "resolves" \/ e.fault = "abort"
          /\ Store(r, Ended([R EXCEPT !.exhausted = ~R.text /\ ~R.aborted /\ R.last # "none"]))
       \/ /\ ~FallsBack(R, e)
          /\ e.how = "rejects" /\ e.fault # "abort"
          /\ Store(r, Threw(R))

\* Mutant: the candidate is not taken off the list.
SwitchedKeeps(r) ==
    /\ run[r].at = "switching"
    /\ Store(r, [run[r] EXCEPT !.at = "fallback"])
    /\ UNCHANGED breaker

\* rateLimitBackoff and setModel are over; a prompt in the fallback loop does
\* not ask the breaker.
Switched(r) ==
    /\ run[r].at = "switching"
    /\ Store(r, [run[r] EXCEPT !.at = "fallback", !.left = @ - 1])
    /\ UNCHANGED breaker

SwitchFails(r) == \E fault \in {"model", "other"} :
    LET R == [run[r] EXCEPT !.left = @ - 1] IN
    /\ run[r].at = "switching"
    /\ Store(r, IF fault = "model" THEN TryNext(R) ELSE Threw(R))
    /\ UNCHANGED breaker

FallbackEnds(r) == \E e \in PossibleEnds(run[r]) :
    LET R     == Heard(run[r], e)
        again == e.fault = "model" /\ (e.how = "rejects" \/ (~R.text /\ ~R.aborted))
    IN
    /\ run[r].at = "fallback"
    /\ breaker' = Recorded(breaker, e)
    /\ \/ again /\ Store(r, TryNext(R))
       \/ ~again /\ (e.how = "resolves" \/ e.fault = "abort") /\ Store(r, LoopOver(R))
       \/ ~again /\ e.how = "rejects" /\ e.fault = "other" /\ Store(r, Threw(R))
-----------------------------------------------------------------------------
(* The end hook, its revisions, and the validators.                         *)

EndHookAllows(r) ==
    /\ run[r].at = "endHook"
    /\ Store(r, Finished([run[r] EXCEPT !.gate = "passed"]))
    /\ UNCHANGED breaker

EndHookBlocks(r) ==
    LET R == [run[r] EXCEPT !.gate = "blocked"] IN
    /\ run[r].at = "endHook"
    /\ \/ R.attempt > RevisionBudget /\ Store(r, Threw(R)) /\ UNCHANGED breaker
       \/ R.attempt <= RevisionBudget /\ StartPrompt(r, R, "revision", Threw(R))

\* Mutant: the revised text is not shown to the hook.
RevisionEndsUnseen(r) == \E e \in PossibleEnds(run[r]) :
    LET R == Heard(run[r], e) IN
    /\ run[r].at = "revision"
    /\ breaker' = Recorded(breaker, e)
    /\ Store(r, IF e.how = "rejects" /\ e.fault # "abort" THEN Threw(R) ELSE Finished(R))

RevisionEnds(r) == \E e \in PossibleEnds(run[r]) :
    LET R == Heard(run[r], e) IN
    /\ run[r].at = "revision"
    /\ breaker' = Recorded(breaker, e)
    /\ \/ e.how = "resolves" /\ Store(r, Ended([R EXCEPT !.exhausted = @ /\ R.last # "none",
                                                        !.attempt = @ + 1]))
       \/ e.fault = "abort" /\ Store(r, Finished(R))
       \/ e.how = "rejects" /\ e.fault # "abort" /\ Store(r, Threw(R))

\* A validator is a run of its own with currentLevel unset and levelLimit 0: it
\* throws, and the throw is caught as a verdict.
ValidatorVerdicts == IF TooDeep(0, 0) THEN {"failed"} ELSE {"passed", "failed"}

\* Promise.all over the validators is settled: done, or feedback to the session.
ValidatorsDone(r) == \E verdict \in ValidatorVerdicts :
    LET R    == run[r]
        done == [R EXCEPT !.at = "returned"]
    IN
    /\ run[r].at = "validating"
    /\ \/ /\ verdict = "passed" \/ R.retries >= ValidationRetries
          /\ Store(r, done)
          /\ UNCHANGED breaker
       \/ /\ verdict = "failed" /\ R.retries < ValidationRetries
          /\ StartPrompt(r, R, "healing", done)

\* resumeAgent with the feedback; nothing is subscribed but its own listeners.
HealingEnds(r) == \E e \in PossibleEnds(run[r]) :
    LET R == [run[r] EXCEPT !.aborting = FALSE] IN
    /\ run[r].at = "healing"
    /\ breaker' = Recorded(breaker, e)
    /\ \/ e.how = "resolves" /\ Store(r, [R EXCEPT !.at = "validating", !.retries = @ + 1])
       \/ e.how = "rejects" /\ Store(r, [R EXCEPT !.at = "returned"])
-----------------------------------------------------------------------------
(* The events of a prompt that runs, the clock, and the caller's signal.    *)

\* The duration and the turn budget set timedOut or aborted before they call
\* session.abort(): the events it emits find the subscriber deaf.
Cut(R, why) ==
    [R EXCEPT !.aborted = TRUE, !.aborting = TRUE, !.reason = why,
              !.timedOut = @ \/ why = "duration_quota"]

\* The token and tool quotas call session.abort() first.  Until it returns the
\* subscriber listens, and an event emitted by it is handled like any other.
CutLate(R, why) ==
    [R EXCEPT !.cutting = TRUE, !.aborting = TRUE, !.reason = why]

\* Mutant: the flag is not set after the call.
AbortForgets(r) ==
    /\ run[r].cutting
    /\ Store(r, [run[r] EXCEPT !.cutting = FALSE])
    /\ UNCHANGED breaker

\* session.abort() returns to the quota that called it.
AbortReturns(r) ==
    /\ run[r].cutting
    /\ Store(r, [run[r] EXCEPT !.cutting = FALSE, !.aborted = TRUE])
    /\ UNCHANGED breaker

\* The subscriber still looks at events.
Listens(r) == run[r].at \in Prompting /\ ~run[r].aborted

\* An event other than the ones below: only the quotas are looked at.
QuotaTrips(r) ==
    /\ Listens(r)
    /\ \/ run[r].expired /\ Store(r, Cut(run[r], "duration_quota"))
       \/ ~run[r].expired /\ run[r].spent /\ Store(r, CutLate(run[r], "token_quota"))
    /\ UNCHANGED breaker

WithinQuotas(r) == Listens(r) /\ ~run[r].expired /\ ~run[r].spent

TurnEnds(r) ==
    LET R == [run[r] EXCEPT !.turns = @ + 1] IN
    /\ WithinQuotas(r)
    /\ \/ /\ ~R.softLimit
          /\ Store(r, [R EXCEPT !.softLimit = R.turns >= MaxTurns])
       \/ /\ R.softLimit
          /\ Store(r, IF R.turns >= MaxTurns + GraceTurns THEN Cut(R, "turn_budget") ELSE R)
    /\ UNCHANGED breaker

\* tools stops at MaxTools + 1: only that it is past the quota is told apart.
ToolStarts(r) ==
    LET R == [run[r] EXCEPT !.tools = Smaller(@ + 1, MaxTools + 1)] IN
    /\ WithinQuotas(r)
    /\ Store(r, IF R.tools > MaxTools THEN CutLate(R, "tool_quota") ELSE R)
    /\ UNCHANGED breaker

\* The usage of an assistant message takes the tokens past their quota.
MessageEnds(r) ==
    /\ WithinQuotas(r)
    /\ Store(r, [run[r] EXCEPT !.spent = TRUE])
    /\ UNCHANGED breaker

\* Only the subscriber looks at the clock: the quota may as well run out there.
DurationElapses(r) ==
    /\ Listens(r) /\ ~run[r].expired
    /\ Store(r, [run[r] EXCEPT !.expired = TRUE])
    /\ UNCHANGED breaker

\* The caller aborts its signal; the listener, if there is one, forwards it.
Abort(r) ==
    LET R == [run[r] EXCEPT !.signal = TRUE] IN
    /\ run[r].at \notin Over \cup {"idle"} /\ ~run[r].signal /\ ~run[r].cutting
    /\ Store(r, IF R.at \in Attached
                THEN [R EXCEPT !.aborted = TRUE, !.aborting = R.at \in Prompting]
                ELSE [R EXCEPT !.aborting = R.at = "healing"])
    /\ UNCHANGED breaker

\* A prompt of a run, a resume or a validator that is not in Runs.
OthersPrompt ==
    /\ \/ Admits /\ breaker' = Admitted
       \/ breaker' \in {RecordFailure(breaker), RecordSuccess(breaker)}
    /\ UNCHANGED run

RecoveryTimePasses ==
    /\ breaker.state = "open" /\ ~breaker.cooled
    /\ breaker' = [breaker EXCEPT !.cooled = TRUE]
    /\ UNCHANGED run
-----------------------------------------------------------------------------
\* The awaits of a run that is not waiting for a prompt.
Proceeds(r) ==
    \/ Loaded(r) \/ StartHookAnswers(r) \/ SessionReady(r) \/ SessionFails(r)
    \/ Switched(r) \/ SwitchFails(r)
    \/ EndHookAllows(r) \/ EndHookBlocks(r) \/ ValidatorsDone(r)

PromptEnds(r) ==
    FirstPromptEnds(r) \/ FallbackEnds(r) \/ RevisionEnds(r) \/ HealingEnds(r)

Event(r) == QuotaTrips(r) \/ TurnEnds(r) \/ ToolStarts(r) \/ MessageEnds(r) \/ AbortReturns(r)

Next ==
    \/ \E r \in Runs : Start(r) \/ Proceeds(r) \/ PromptEnds(r) \/ Event(r)
                       \/ DurationElapses(r) \/ Abort(r)
    \/ OthersPrompt \/ RecoveryTimePasses

Spec == Init /\ [][Next]_vars

\* Every await settles: hooks have a timeout (executeHandler), the host ends every
\* prompt, and a call returns.  Nothing makes a caller abort or a quota run out.
Fairness == \A r \in Runs :
    WF_vars(Proceeds(r)) /\ WF_vars(PromptEnds(r)) /\ WF_vars(AbortReturns(r))

FairSpec == Spec /\ Fairness
-----------------------------------------------------------------------------
\* Turns and tool calls are in the ranges of Run: a prompt that follows another
\* one, a fallback or a revision, gets no budget of its own.
TypeOK ==
    /\ run \in [Runs -> Run]
    /\ breaker \in [state : {"closed", "open", "half-open"}, failures : 0..Threshold,
                    cooled : BOOLEAN]

\* A text the end hook rejected is never returned as the result of a run that
\* was not aborted, however many revisions, failures and refusals of the breaker
\* came after the block.
GateHolds ==
    \A r \in Runs : LET R == run[r] IN
        R.at \in {"validating", "healing", "returned"} /\ R.kind.hooks /\ ~R.aborted
            => R.gate = "passed"

\* A run without text whose last prompt failed, softly or by a throw, on its
\* model or on the last fallback, does not pass for a run that said nothing.
NoSilentFailure ==
    \A r \in Runs : LET R == run[r] IN
        R.at = "returned" /\ ~R.text /\ ~R.aborted /\ R.failed => R.error

\* The budgets whose abort can take the place of another one's: those looked at
\* while session.abort() has not returned to a quota that did not set aborted yet.
Replaces == {<<"token_quota", "duration_quota">>} \cup
            ({"tool_quota"} \X (Budgets \ {"tool_quota"}))

\* The cause of an abort.  Once aborted is set, by a budget or from outside, no later
\* budget names another cause: an abort from outside is never taken for a timeout.
\* Before that the cause changes only inside the session.abort() of a token or tool
\* quota, which is called too early, and never from the duration or the turn budget.
AbortCauseIsKept ==
    [][\A r \in Runs : LET R == run[r] IN
         /\ R.aborted => /\ run'[r].aborted
                         /\ run'[r].reason = R.reason
                         /\ run'[r].timedOut = R.timedOut
         /\ R.reason # "none" /\ run'[r].reason # R.reason =>
                R.cutting /\ <<R.reason, run'[r].reason>> \in Replaces]_vars

\* Every call of runAgent returns or throws: fallbacks, revisions and validation
\* rounds end, with the other runs' failures opening the breaker at any time.
RunSettles == \A r \in Runs : run[r].at # "idle" ~> run[r].at \in Over
=============================================================================

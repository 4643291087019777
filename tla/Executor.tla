------------------------------- MODULE Executor -------------------------------
(***************************************************************************)
(* executeWorkflow (executor.mjs) on one run id: the attempts that start   *)
(* or resume the run, what each keeps in memory, the events it appends to  *)
(* the log of memory-store.mjs, the checkpoint file it replaces, and the   *)
(* adapters it calls.  One action per await; the code between two awaits   *)
(* is one step.  A checkpoint is written to a temporary file, which has    *)
(* one name for all attempts, and renamed: each operation on that file is  *)
(* a step, and an attempt may go on writing in a file that another has     *)
(* renamed meanwhile.                                                      *)
(*                                                                         *)
(* The log is the abstract one that EventLog implements: an append lands   *)
(* or it does not, and one that rejects may have landed all the same.      *)
(* Events keep their type, their step and their cost.                      *)
(***************************************************************************)
EXTENDS Naturals, Sequences, SequencesExt

CONSTANTS NumSteps,     \* the compiled steps are 1..NumSteps, in order
          Cost,         \* step.costUnits, the cost reserved for each step
          Budget,       \* workflow.budget.maxCostUnits
          External,     \* the steps whose effect is "external"
          Keyed,        \* the steps that carry an idempotency key
          Gated,        \* the steps whose approval is required
          Governed,     \* the workflow carries a governance bundle
          MaxAttempts,  \* bound: calls of executeWorkflow for this run
          Exclusive     \* the run is resumed only when no attempt at it is under way

Steps    == 1..NumSteps
Attempts == 1..MaxAttempts

ASSUME SizesAssumption  == NumSteps \in Nat /\ MaxAttempts \in Nat
ASSUME CostAssumption   == Cost \in [Steps -> Nat] /\ Budget \in Nat
ASSUME StepsAssumption  == External \subseteq Steps /\ Keyed \subseteq Steps /\ Gated \subseteq Steps
ASSUME FlagsAssumption  == Governed \in BOOLEAN /\ Exclusive \in BOOLEAN

VARIABLES
    log,         \* the run's events, in order
    checkpoint,  \* what checkpoint.json contains
    temp,        \* what checkpoint.json.tmp contains
    handle,      \* where each attempt's write of a checkpoint stands: see Handles
    phase,       \* the await each attempt stands at
    run,         \* each attempt's run object and what it was called with
    outcome,     \* what the promise of each attempt has come to
    invoked,     \* how often each step's adapter was called
    delivered,   \* the steps whose adapter has returned a valid output
    consumed     \* the cost units adapters reported within their reservations,
                 \* charged or not

vars == <<log, checkpoint, temp, handle, phase, run, outcome, invoked, delivered, consumed>>
fileVars == <<checkpoint, temp, handle>>

StepTypes == {"step.approval-verified", "step.started", "step.completed", "run.awaiting-approval"}
RunTypes  == {"run.started", "run.resumed", "governance.verified", "run.completed", "run.failed"}
Events    == [type : StepTypes, step : Steps, cost : Nat] \cup [type : RunTypes, step : {0}, cost : {0}]
Phases    == {"new", "announce", "govern", "loop", "park", "prepare", "invoke", "answer",
              "complete", "save", "saveResult", "fail", "saveFailure", "ended", "crashed"}
\* Not begun; the name under which the file that is open can be found; written
\* and closed.
Handles   == {"none", "temp", "target", "unlinked", "closed"}

RunEvent(t)        == [type |-> t, step |-> 0, cost |-> 0]
StepEvent(t, s)    == [type |-> t, step |-> s, cost |-> 0]
StepCompleted(s, c) == [type |-> "step.completed", step |-> s, cost |-> c]

----------------------------------------------------------------------------
Has(l, t) == \E k \in 1..Len(l) : l[k].type = t
HasStep(l, t, s) == \E k \in 1..Len(l) : l[k].type = t /\ l[k].step = s

\* reconstruct: the run as its events tell it.
CompletedSteps(l) ==
    LET done[k \in 0..Len(l)] ==
            IF k = 0 THEN <<>>
            ELSE IF l[k].type = "step.completed" THEN Append(done[k - 1], l[k].step) ELSE done[k - 1]
    IN  done[Len(l)]
RecordedCost(l) ==
    LET sum[k \in 0..Len(l)] ==
            IF k = 0 THEN 0
            ELSE IF l[k].type = "step.completed" THEN sum[k - 1] + l[k].cost ELSE sum[k - 1]
    IN  sum[Len(l)]
\* Mutant of PendingAfter: steps are named by their zero-based sequence.
PendingAfter_ZeroBased(completed) ==
    LET rest[k \in 0..NumSteps] ==
            IF k = 0 THEN <<>>
            ELSE IF Contains(completed, k - 1) THEN rest[k - 1] ELSE Append(rest[k - 1], k - 1)
    IN  rest[NumSteps]
PendingAfter(completed) ==
    LET rest[k \in 0..NumSteps] ==
            IF k = 0 THEN <<>>
            ELSE IF Contains(completed, k) THEN rest[k - 1] ELSE Append(rest[k - 1], k)
    IN  rest[NumSteps]
AmbiguousSteps(l) == {s \in Steps : HasStep(l, "step.started", s) /\ ~HasStep(l, "step.completed", s)}

FreshRun == [resumed |-> FALSE, completed |-> <<>>, pending |-> [s \in Steps |-> s],
             spent |-> 0, ambiguous |-> {}, approvals |-> {}, cost |-> 0]
\* Mutant of Reconstruct: a resumed run counts every step as pending.
Reconstruct_AllPending(l) ==
    IF l = <<>> THEN FreshRun
    ELSE [FreshRun EXCEPT !.resumed   = TRUE,
                          !.completed = CompletedSteps(l),
                          !.spent     = RecordedCost(l),
                          !.ambiguous = AmbiguousSteps(l)]

Reconstruct(l) ==
    IF l = <<>> THEN FreshRun
    ELSE [FreshRun EXCEPT !.resumed   = TRUE,
                          !.completed = CompletedSteps(l),
                          !.pending   = PendingAfter(CompletedSteps(l)),
                          !.spent     = RecordedCost(l),
                          !.ambiguous = AmbiguousSteps(l)]

\* Files without a record: there is none, it was opened and not written, it
\* holds bytes JSON.parse rejects.
NoCheckpoint == [status |-> "none", completed |-> <<>>, pending |-> <<>>, spent |-> 0]
EmptyFile    == [NoCheckpoint EXCEPT !.status = "empty"]
TornFile     == [NoCheckpoint EXCEPT !.status = "torn"]
Holds(file)  == file.status \in {"awaiting", "recovery", "completed"}

\* recoveryCheckpoint, and the result that replaces it in the end.
Recovery(r, status) == [status |-> status, completed |-> r.completed, pending |-> r.pending,
                        spent |-> r.spent]

\* The first step the loop does not skip.
Remaining(a) == {s \in Steps : ~Contains(run[a].completed, s)}
Step(a)      == CHOOSE s \in Remaining(a) : \A t \in Remaining(a) : s <= t

Live(a) == phase[a] \notin {"new", "ended", "crashed"}

Init ==
    /\ log = <<>>
    /\ checkpoint = NoCheckpoint
    /\ temp = NoCheckpoint
    /\ handle = [a \in Attempts |-> "none"]
    /\ phase = [a \in Attempts |-> "new"]
    /\ run = [a \in Attempts |-> FreshRun]
    /\ outcome = [a \in Attempts |-> "none"]
    /\ invoked = [s \in Steps |-> 0]
    /\ delivered = {}
    /\ consumed = 0

----------------------------------------------------------------------------
Goto(a, p) == phase' = [phase EXCEPT ![a] = p] /\ UNCHANGED outcome
End(a, o)  == phase' = [phase EXCEPT ![a] = "ended"] /\ outcome' = [outcome EXCEPT ![a] = o]

\* await memory.append(e): then ok happens, or the call rejects, its event
\* landed or not, and failed happens.
AppendThen(e, ok, failed) ==
    \/ log' = Append(log, e) /\ ok
    \/ log' \in {log, Append(log, e)} /\ failed

\* What attempt a is about to write: the status tells its callers apart.
Saving(a) == phase[a] \in {"park", "save", "saveResult", "saveFailure"}
Saved(a)  == Recovery(run[a], CASE phase[a] = "park"       -> "awaiting"
                                [] phase[a] = "saveResult" -> "completed"
                                [] OTHER                   -> "recovery")

\* What the file that a has open contains, where it still has a name.
Open(a) == handle[a] \in {"temp", "target", "unlinked"}
Now(a)  == IF handle[a] = "target" THEN checkpoint ELSE temp

\* a leaves content c in the file that it has open, and closes it.
Leave(a, c, h) ==
    /\ checkpoint' = IF handle[a] = "target" THEN c ELSE checkpoint
    /\ temp' = IF handle[a] = "temp" THEN c ELSE temp
    /\ handle' = [handle EXCEPT ![a] = h]

\* The write ends before its bytes are all there, or before it began.
CutShort(a) ==
    \/ ~Open(a) /\ handle' = [handle EXCEPT ![a] = "none"] /\ UNCHANGED <<checkpoint, temp>>
    \/ Open(a) /\ \E c \in {Now(a), TornFile} : Leave(a, c, "none")

\* await memory.checkpoint: writeFile opens the temporary file and truncates it,
OpenTemp(a) ==
    /\ Saving(a)
    /\ handle[a] = "none"
    /\ temp' = EmptyFile
    /\ handle' = [handle EXCEPT ![a] = "temp"]
    /\ UNCHANGED <<log, checkpoint, phase, run, outcome, invoked, delivered, consumed>>

\* Mutant of FillTemp: an error of writeFile is swallowed.
FillTemp_Swallowed(a) ==
    /\ Open(a)
    /\ \E c \in {Now(a), Saved(a), TornFile} : Leave(a, c, "closed")
    /\ UNCHANGED <<log, phase, run, outcome, invoked, delivered, consumed>>

\* writes the record from the start of what is there by now, and closes it.
FillTemp(a) ==
    /\ Open(a)
    /\ \E c \in IF Now(a) \in {EmptyFile, Saved(a)} THEN {Saved(a)} ELSE {Saved(a), TornFile} :
          Leave(a, c, "closed")
    /\ UNCHANGED <<log, phase, run, outcome, invoked, delivered, consumed>>

\* Then rename puts whatever has the temporary name in the checkpoint's place.
\* mkdir, open, write or rename may reject; rename does when there is no file.
CheckpointThen(a, ok, failed) ==
    \/ /\ handle[a] = "closed"
       /\ temp # NoCheckpoint
       /\ checkpoint' = temp
       /\ temp' = NoCheckpoint
       /\ handle' = [b \in Attempts |-> CASE b = a                -> "none"
                                          [] handle[b] = "temp"   -> "target"
                                          [] handle[b] = "target" -> "unlinked"
                                          [] OTHER                -> handle[b]]
       /\ ok
    \/ CutShort(a) /\ failed

\* A call of executeWorkflow reads the log.  It goes on with a run that has
\* no events, or, when it is called to resume, with one that is not complete.
Begin(a, resume, approvals) ==
    /\ phase[a] = "new"
    /\ \A b \in 1..(a - 1) : phase[b] # "new"
    /\ Exclusive => \A b \in Attempts : ~Live(b)
    /\ log = <<>> \/ (resume /\ ~Has(log, "run.completed"))
    /\ run' = [run EXCEPT ![a] = [Reconstruct(log) EXCEPT !.approvals = approvals]]
    /\ Goto(a, "announce")
    /\ UNCHANGED <<log, fileVars, invoked, delivered, consumed>>

\* RUN_ALREADY_EXISTS, RUN_ALREADY_COMPLETED, or a log that cannot be read.
RefuseBegin(a) ==
    /\ phase[a] = "new"
    /\ \A b \in 1..(a - 1) : phase[b] # "new"
    /\ Exclusive => \A b \in Attempts : ~Live(b)
    /\ End(a, "rejected")
    /\ UNCHANGED <<log, fileVars, run, invoked, delivered, consumed>>

\* run.started or run.resumed.  An error here and in Govern is thrown before
\* the try block.
Announce(a) ==
    /\ phase[a] = "announce"
    /\ AppendThen(RunEvent(IF run[a].resumed THEN "run.resumed" ELSE "run.started"),
                  Goto(a, IF Governed THEN "govern" ELSE "loop"), End(a, "rejected"))
    /\ UNCHANGED <<fileVars, run, invoked, delivered, consumed>>

Govern(a) ==
    /\ phase[a] = "govern"
    /\ AppendThen(RunEvent("governance.verified"), Goto(a, "loop"), End(a, "rejected"))
    /\ UNCHANGED <<fileVars, run, invoked, delivered, consumed>>

AtStep(a) == phase[a] = "loop" /\ Remaining(a) # {}

\* The signal is looked at between two steps only.
Abort(a) ==
    /\ AtStep(a)
    /\ Goto(a, "fail")
    /\ UNCHANGED <<log, fileVars, run, invoked, delivered, consumed>>

\* The step's gate has no approval: the wait is recorded, the attempt ends.
AwaitApproval(a) ==
    /\ AtStep(a)
    /\ Step(a) \in Gated \ run[a].approvals
    /\ AppendThen(StepEvent("run.awaiting-approval", Step(a)), Goto(a, "park"), Goto(a, "fail"))
    /\ UNCHANGED <<fileVars, run, invoked, delivered, consumed>>

\* Mutant of Park: the attempt waits for the approval instead of returning.
Park_Waits(a) == phase[a] = "park" /\ UNCHANGED vars

Park(a) ==
    /\ phase[a] = "park"
    /\ CheckpointThen(a, End(a, "awaiting"), Goto(a, "fail"))
    /\ UNCHANGED <<log, run, invoked, delivered, consumed>>

VerifyApproval(a) ==
    /\ AtStep(a)
    /\ Step(a) \in Gated \cap run[a].approvals
    /\ AppendThen(StepEvent("step.approval-verified", Step(a)), Goto(a, "prepare"), Goto(a, "fail"))
    /\ UNCHANGED <<fileVars, run, invoked, delivered, consumed>>

\* Mutant of ToPrepare: an approval that was verified once is not asked for
\* again by a resumed attempt.
ToPrepare_Remembered(a) ==
    \/ phase[a] = "prepare"
    \/ AtStep(a) /\ (Step(a) \notin Gated \/ HasStep(log, "step.approval-verified", Step(a)))

ToPrepare(a) == phase[a] = "prepare" \/ (AtStep(a) /\ Step(a) \notin Gated)

\* Mutants of MayRun: either check is left out.
MayRun_NoAmbiguity(a) == run[a].spent + Cost[Step(a)] <= Budget
MayRun_NoBudget(a) == Step(a) \in run[a].ambiguous \cap External => Step(a) \in Keyed

\* AMBIGUOUS_EXTERNAL_EFFECT and BUDGET_EXCEEDED.
MayRun(a) ==
    /\ Step(a) \in run[a].ambiguous \cap External => Step(a) \in Keyed
    /\ run[a].spent + Cost[Step(a)] <= Budget

\* Mutant of StartStep: the append is not awaited.
StartStep_Swallowed(a) ==
    /\ ToPrepare(a)
    /\ MayRun(a)
    /\ AppendThen(StepEvent("step.started", Step(a)), Goto(a, "invoke"), Goto(a, "invoke"))
    /\ UNCHANGED <<fileVars, run, invoked, delivered, consumed>>

StartStep(a) ==
    /\ ToPrepare(a)
    /\ MayRun(a)
    /\ AppendThen(StepEvent("step.started", Step(a)), Goto(a, "invoke"), Goto(a, "fail"))
    /\ UNCHANGED <<fileVars, run, invoked, delivered, consumed>>

\* ~MayRun, or the projected context or the input is not what the step needs.
RefuseStep(a) ==
    /\ ToPrepare(a)
    /\ Goto(a, "fail")
    /\ UNCHANGED <<log, fileVars, run, invoked, delivered, consumed>>

\* adapters.get(step.adapter).invoke(...) begins.
Invoke(a) ==
    /\ phase[a] = "invoke"
    /\ invoked' = [invoked EXCEPT ![Step(a)] = @ + 1]
    /\ Goto(a, "answer")
    /\ UNCHANGED <<log, fileVars, run, delivered, consumed>>

\* The adapter returns a valid output inside its reservation.  The run object
\* is brought up to date before the completion is in the log.
Answer(a) ==
    /\ phase[a] = "answer"
    /\ \E cost \in 0..Cost[Step(a)] :
          /\ run' = [run EXCEPT ![a].completed = Append(@, Step(a)),
                                ![a].pending   = Tail(@),
                                ![a].spent     = @ + cost,
                                ![a].cost      = cost]
          /\ consumed' = consumed + cost
    /\ delivered' = delivered \cup {Step(a)}
    /\ Goto(a, "complete")
    /\ UNCHANGED <<log, fileVars, invoked>>

\* It throws, or its usage or its output is refused (INVALID_ADAPTER_USAGE,
\* STEP_COST_EXCEEDED, CONTRACT_REJECTED).  What it reported is not charged;
\* consumed counts it where it was within the reservation.
AnswerRefused(a) ==
    /\ phase[a] = "answer"
    /\ \E cost \in 0..Cost[Step(a)] : consumed' = consumed + cost
    /\ Goto(a, "fail")
    /\ UNCHANGED <<log, fileVars, run, invoked, delivered>>

\* Mutant of RecordCompletion: the append is not awaited.
RecordCompletion_Swallowed(a) ==
    /\ phase[a] = "complete"
    /\ AppendThen(StepCompleted(Last(run[a].completed), run[a].cost), Goto(a, "save"), Goto(a, "save"))
    /\ UNCHANGED <<fileVars, run, invoked, delivered, consumed>>

RecordCompletion(a) ==
    /\ phase[a] = "complete"
    /\ AppendThen(StepCompleted(Last(run[a].completed), run[a].cost), Goto(a, "save"), Goto(a, "fail"))
    /\ UNCHANGED <<fileVars, run, invoked, delivered, consumed>>

SaveProgress(a) ==
    /\ phase[a] = "save"
    /\ CheckpointThen(a, Goto(a, "loop"), Goto(a, "fail"))
    /\ UNCHANGED <<log, run, invoked, delivered, consumed>>

Finish(a) ==
    /\ phase[a] = "loop"
    /\ Remaining(a) = {}
    /\ AppendThen(RunEvent("run.completed"), Goto(a, "saveResult"), Goto(a, "fail"))
    /\ UNCHANGED <<fileVars, run, invoked, delivered, consumed>>

SaveResult(a) ==
    /\ phase[a] = "saveResult"
    /\ CheckpointThen(a, End(a, "completed"), Goto(a, "fail"))
    /\ UNCHANGED <<log, run, invoked, delivered, consumed>>

\* The catch block: its own append and checkpoint may reject too.
RecordFailure(a) ==
    /\ phase[a] = "fail"
    /\ AppendThen(RunEvent("run.failed"), Goto(a, "saveFailure"), End(a, "rejected"))
    /\ UNCHANGED <<fileVars, run, invoked, delivered, consumed>>

SaveFailure(a) ==
    /\ phase[a] = "saveFailure"
    /\ CheckpointThen(a, End(a, "rejected"), End(a, "rejected"))
    /\ UNCHANGED <<log, run, invoked, delivered, consumed>>

\* The process of the attempt dies, in the middle of a write perhaps.
Crash(a) ==
    /\ Live(a)
    /\ CutShort(a)
    /\ phase' = [phase EXCEPT ![a] = "crashed"]
    /\ outcome' = [outcome EXCEPT ![a] = "crashed"]
    /\ UNCHANGED <<log, run, invoked, delivered, consumed>>

OwnStep(a) ==
    \/ Announce(a) \/ Govern(a) \/ Abort(a) \/ AwaitApproval(a) \/ Park(a) \/ VerifyApproval(a)
    \/ StartStep(a) \/ RefuseStep(a) \/ Invoke(a) \/ RecordCompletion(a) \/ SaveProgress(a)
    \/ Finish(a) \/ SaveResult(a) \/ RecordFailure(a) \/ SaveFailure(a)
    \/ OpenTemp(a) \/ FillTemp(a)

Next == \E a \in Attempts :
    \/ \E resume \in BOOLEAN, approvals \in SUBSET Gated : Begin(a, resume, approvals)
    \/ RefuseBegin(a)
    \/ OwnStep(a)
    \/ Answer(a) \/ AnswerRefused(a)
    \/ Crash(a)

Spec == Init /\ [][Next]_vars

\* The event loop runs the attempt's continuations.  An adapter need not answer.
Fairness == \A a \in Attempts : WF_vars(OwnStep(a))
FairSpec == Spec /\ Fairness

----------------------------------------------------------------------------
Checkpoints == [status : {"none", "empty", "torn", "awaiting", "recovery", "completed"},
                completed : Seq(Steps), pending : Seq(Steps), spent : Nat]

TypeOK ==
    /\ log \in Seq(Events)
    /\ checkpoint \in Checkpoints
    /\ temp \in Checkpoints
    /\ handle \in [Attempts -> Handles]
    /\ phase \in [Attempts -> Phases]
    /\ run \in [Attempts -> [resumed : BOOLEAN, completed : Seq(Steps), pending : Seq(Steps),
                             spent : Nat, ambiguous : SUBSET Steps, approvals : SUBSET Gated,
                             cost : Nat]]
    /\ outcome \in [Attempts -> {"none", "completed", "awaiting", "rejected", "crashed"}]
    /\ invoked \in [Steps -> Nat]
    /\ delivered \subseteq Steps
    /\ consumed \in Nat

\* No step starts or completes before every earlier step has completed in the
\* log, and the run does not complete before all of them have, whatever
\* attempts overlap.
Needs(e) == CASE e.type \in {"step.started", "step.completed"} -> 1..(e.step - 1)
              [] e.type = "run.completed" -> Steps
              [] OTHER -> {}
DependenciesFirst ==
    \A k \in 1..Len(log) : \A s \in Needs(log[k]) :
        \E j \in 1..(k - 1) : log[j].type = "step.completed" /\ log[j].step = s

\* A gated step starts only in an attempt that was given its approval and has
\* recorded that: a resumption does not inherit an approval.
ApprovalPerAttempt ==
    \A k \in 1..Len(log) : log[k].type = "step.started" /\ log[k].step \in Gated =>
        \E j \in 1..(k - 1) : /\ log[j].type = "step.approval-verified" /\ log[j].step = log[k].step
                              /\ \A i \in j..k : log[i].type \notin {"run.started", "run.resumed"}

\* The adapter of an external step without an idempotency key is called once,
\* through any sequence of failures, crashes and resumptions.
UnkeyedInvokedOnce == \A s \in External \ Keyed : invoked[s] <= 1

\* What an attempt believes between two steps, and when it reports success, is
\* what the next resumption would reconstruct from the log.
MemoryMatchesLog ==
    \A a \in Attempts : phase[a] = "loop" \/ outcome[a] = "completed" =>
        run[a].completed = CompletedSteps(log) /\ run[a].spent = RecordedCost(log)

\* However attempts share the temporary file, a checkpoint that can be read is
\* no attempt's wishful thinking: what it calls done was delivered by an adapter,
\* what it calls pending is the rest, and a completed run is one in the log too.
CheckpointDelivered ==
    Holds(checkpoint) =>
        /\ Range(checkpoint.completed) \subseteq delivered
        /\ Range(checkpoint.pending) = Steps \ Range(checkpoint.completed)
        /\ checkpoint.status = "completed" => Has(log, "run.completed")

\* The checkpoint, where it can be read, is ahead of the log by the last step at
\* most: no crash or failure makes it claim two steps a resumption would run
\* again.
CheckpointLead ==
    Holds(checkpoint) =>
        \A s \in Range(checkpoint.completed) \ Range(CompletedSteps(log)) :
            s = Last(checkpoint.completed) /\ HasStep(log, "step.started", s)

\* THREAT-MODEL.md: checkpoints are written atomically - through any failures
\* and crashes the file is missing or can be read.  It needs attempts that do
\* not overlap.
CheckpointAtomic == checkpoint = NoCheckpoint \/ Holds(checkpoint)

\* What the log says of the run is one run of the workflow.
History == INSTANCE Run WITH done    <- Len(CompletedSteps(log)),
                             charged <- RecordedCost(log),
                             closed  <- Has(log, "run.completed")
OneRun == History!Spec

\* A call of executeWorkflow settles, unless its adapter never answers.
EveryAttemptEnds ==
    \A a \in Attempts : Live(a) /\ phase[a] # "answer" ~> (~Live(a) \/ phase[a] = "answer")

\* PRODUCT.md: cost limits remain enforced under adapter failure and malformed
\* output.
ConsumptionBounded == consumed <= Budget
==============================================================================

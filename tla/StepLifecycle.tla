----------------------------- MODULE StepLifecycle -----------------------------
(***************************************************************************)
(* The lifecycle of the steps of a workflow (step-state-machine.mjs), the  *)
(* recovery decision when a call fails (recovery-policy.mjs) and the       *)
(* decision a host takes after each unit of work (work-loop-policy.mjs).   *)
(*                                                                         *)
(* The three are pure policies; the host that follows them is external and *)
(* is modelled as the README describes it: it works on any step that is    *)
(* not the owner's, raises the events its decisions call for, may die or   *)
(* run out of its execution window, and is started again by a heartbeat.   *)
(* The owner approves and reconciles if and when he likes.                 *)
(***************************************************************************)
EXTENDS Naturals, FiniteSets

CONSTANTS Work,         \* the steps
          Gates,        \* the steps that need the owner's approval
          Effects,      \* the steps whose effect is external
          WithKey,      \* the external steps with an idempotency key
          TryLimit,     \* maxAttempts
          MaxStops      \* bound: deaths of the host and windows that end

ASSUME WorkAssumption  == Gates \subseteq Work /\ Effects \subseteq Work /\ WithKey \subseteq Effects
ASSUME LimitAssumption == TryLimit \in Nat \ {0} /\ MaxStops \in Nat

VARIABLES
    state,     \* the state of each step
    tries,     \* how often its call was started
    applied,   \* how often the effect of the step has been applied
    call,      \* its call: none, pending, or what came of it
    late,      \* the steps with a call given up for lost that may still take effect
    host,      \* running (decide or act), yielded, waiting, escalated, dead or done
    mode,      \* executionMode
    window,    \* executionWindow
    saved,     \* checkpointRecorded: nothing has been done since
    alarm,     \* gitState is AMBIGUOUS or validationState is FAILED_FINAL
    stops      \* how often the host has died or its window has ended

stepVars == <<state, tries, applied, call, late>>
hostVars == <<host, mode, window, saved, alarm, stops>>
workVars == <<stepVars, hostVars>>

\* The table of transitions.
Transitions ==
    {<<"PENDING", "WAIT_FOR_APPROVAL", "WAITING_FOR_APPROVAL">>, <<"PENDING", "AUTHORIZE", "AUTHORIZED">>,
     <<"PENDING", "PARK", "PARKED">>,
     <<"WAITING_FOR_APPROVAL", "AUTHORIZE", "AUTHORIZED">>, <<"WAITING_FOR_APPROVAL", "PARK", "PARKED">>,
     <<"AUTHORIZED", "ACQUIRE_LEASE", "LEASED">>, <<"AUTHORIZED", "PARK", "PARKED">>,
     <<"LEASED", "START_INVOCATION", "INVOKING">>, <<"LEASED", "PARK", "PARKED">>,
     <<"INVOKING", "SUCCEED", "SUCCEEDED">>, <<"INVOKING", "FAIL_RETRYABLE", "FAILED_RETRYABLE">>,
     <<"INVOKING", "FAIL_FINAL", "FAILED_FINAL">>,
     <<"INVOKING", "AMBIGUOUS_EFFECT", "RECONCILIATION_REQUIRED">>,
     <<"SUCCEEDED", "COMPLETE", "COMPLETED">>,
     <<"FAILED_RETRYABLE", "ACQUIRE_LEASE", "LEASED">>, <<"FAILED_RETRYABLE", "PARK", "PARKED">>,
     <<"FAILED_FINAL", "PARK", "PARKED">>,
     <<"RECONCILIATION_REQUIRED", "START_RECONCILIATION", "RECONCILING">>,
     <<"RECONCILIATION_REQUIRED", "PARK", "PARKED">>,
     <<"RECONCILING", "RECONCILE_SUCCEEDED", "SUCCEEDED">>, <<"RECONCILING", "RECONCILE_FAILED", "FAILED_FINAL">>,
     <<"RECONCILING", "PARK", "PARKED">>}
States == {t[1] : t \in Transitions} \cup {t[3] : t \in Transitions}

\* transitionStepState: an event that is not in the table is an error.
Fire(s, event) ==
    \E t \in Transitions : t[1] = state[s] /\ t[2] = event /\ state' = [state EXCEPT ![s] = t[3]]

Terminal(s)    == state[s] \in {"COMPLETED", "PARKED"}
OwnersTurn(s)  == state[s] \in {"WAITING_FOR_APPROVAL", "RECONCILIATION_REQUIRED", "RECONCILING"}
HostsTurn(s)   == ~Terminal(s) /\ ~OwnersTurn(s)

WorkInit ==
    /\ state = [s \in Work |-> "PENDING"]
    /\ tries = [s \in Work |-> 0]
    /\ applied = [s \in Work |-> 0]
    /\ call = [s \in Work |-> "none"]
    /\ late = {}
    /\ host = "decide" /\ mode = "CONTINUOUS_RUN" /\ window = "OPEN"
    /\ saved = FALSE /\ alarm = FALSE /\ stops = 0

----------------------------------------------------------------------------
\* Mutant of DecideRecovery: a failed external effect is retried like any other.
DecideRecovery_NoReview(s, code) ==
    CASE code = "policy" -> "park"
      [] code # "policy" /\ tries[s] >= TryLimit -> "park"
      [] OTHER -> "retry"

\* Mutant of DecideRecovery: one attempt beyond the limit.
DecideRecovery_PastLimit(s, code) ==
    IF code = "policy" THEN "park"
    ELSE IF s \in Effects \ WithKey THEN "owner-review"
    ELSE IF tries[s] > TryLimit THEN "park" ELSE "retry"

\* decideRecovery.
DecideRecovery(s, code) ==
    IF code = "policy" THEN "park"
    ELSE IF s \in Effects \ WithKey THEN "owner-review"
    ELSE IF tries[s] >= TryLimit THEN "park" ELSE "retry"

\* The snapshot a host takes of itself for decideWorkLoop.
ObjectiveComplete == \A s \in Work : state[s] = "COMPLETED"
OwnerRequired     == \E s \in Work : OwnersTurn(s)
SafeWork          == \E s \in Work : HostsTurn(s)
Repairable        == \E s \in Work : state[s] = "FAILED_RETRYABLE"

\* Mutant of DecideWorkLoop: a gated action stops all work.
DecideWorkLoop_BlocksAll ==
    IF ObjectiveComplete THEN "COMPLETE_OBJECTIVE"
    ELSE IF alarm THEN "ESCALATE_OWNER"
    ELSE IF OwnerRequired THEN "ARM_OWNER_WAKE_AND_YIELD"
    ELSE IF Repairable THEN "REPAIR_AND_CONTINUE"
    ELSE IF window = "ENDING" \/ ~SafeWork
         THEN IF saved THEN "YIELD_FOR_RECOVERY" ELSE "RECORD_CHECKPOINT_BEFORE_YIELD"
    ELSE IF mode = "HEARTBEAT_RECOVERY" THEN "START_OR_RESUME_CONTINUOUS_RUN" ELSE "CONTINUE_CURRENT_RUN"

\* decideWorkLoop.
DecideWorkLoop ==
    IF ObjectiveComplete THEN "COMPLETE_OBJECTIVE"
    ELSE IF alarm THEN "ESCALATE_OWNER"
    ELSE IF OwnerRequired THEN IF SafeWork THEN "CONTINUE_ALTERNATE_SAFE_WORK" ELSE "ARM_OWNER_WAKE_AND_YIELD"
    ELSE IF Repairable THEN "REPAIR_AND_CONTINUE"
    ELSE IF window = "ENDING" \/ ~SafeWork
         THEN IF saved THEN "YIELD_FOR_RECOVERY" ELSE "RECORD_CHECKPOINT_BEFORE_YIELD"
    ELSE IF mode = "HEARTBEAT_RECOVERY" THEN "START_OR_RESUME_CONTINUOUS_RUN" ELSE "CONTINUE_CURRENT_RUN"

----------------------------------------------------------------------------
\* The host does what was decided.
Decide ==
    /\ host = "decide"
    /\ host' = CASE DecideWorkLoop = "COMPLETE_OBJECTIVE" -> "done"
                 [] DecideWorkLoop = "ESCALATE_OWNER" -> "escalated"
                 [] DecideWorkLoop = "ARM_OWNER_WAKE_AND_YIELD" -> "waiting"
                 [] DecideWorkLoop = "YIELD_FOR_RECOVERY" -> "yielded"
                 [] DecideWorkLoop = "RECORD_CHECKPOINT_BEFORE_YIELD" -> "save"
                 [] DecideWorkLoop = "START_OR_RESUME_CONTINUOUS_RUN" -> "resume"
                 [] OTHER -> "act"
    /\ UNCHANGED <<stepVars, mode, window, saved, alarm, stops>>

SaveAndDecide ==
    /\ host = "save"
    /\ host' = "decide"
    /\ saved' = TRUE
    /\ UNCHANGED <<stepVars, mode, window, alarm, stops>>

\* The heartbeat has asked for a continuous run, and one starts.
Resume ==
    /\ host = "resume"
    /\ host' = "decide"
    /\ mode' = "CONTINUOUS_RUN"
    /\ UNCHANGED <<stepVars, window, saved, alarm, stops>>

\* The end of a unit of work.
Worked == host' = "decide" /\ saved' = FALSE /\ UNCHANGED <<mode, window, alarm, stops>>

Authorize(s) ==
    /\ host = "act" /\ state[s] = "PENDING"
    /\ Fire(s, IF s \in Gates THEN "WAIT_FOR_APPROVAL" ELSE "AUTHORIZE")
    /\ Worked
    /\ UNCHANGED <<tries, applied, call, late>>

AcquireLease(s) ==
    /\ host = "act"
    /\ Fire(s, "ACQUIRE_LEASE")
    /\ Worked
    /\ UNCHANGED <<tries, applied, call, late>>

StartInvocation(s) ==
    /\ host = "act"
    /\ Fire(s, "START_INVOCATION")
    /\ tries' = [tries EXCEPT ![s] = @ + 1]
    /\ call' = [call EXCEPT ![s] = "pending"]
    /\ UNCHANGED <<applied, late, hostVars>>

\* The effect of a call takes place, unless it has under the call's key.
Apply(s) == applied' = IF s \in WithKey /\ applied[s] > 0 THEN applied ELSE [applied EXCEPT ![s] = @ + 1]

\* The call ends: with a result; with one that breaks a contract or a ceiling;
\* or without an answer, its effect applied, lost or still to come.
Provide(s) ==
    /\ call[s] = "pending"
    /\ \E answer \in {"ok", "policy", "temporary"} :
          /\ call' = [call EXCEPT ![s] = answer]
          /\ \/ Apply(s) /\ UNCHANGED late
             \/ answer # "ok" /\ UNCHANGED <<applied, late>>
             \/ answer = "temporary" /\ late' = late \cup {s} /\ UNCHANGED applied
    /\ UNCHANGED <<state, tries, hostVars>>

\* The effect of a call that was given up takes place after all.
Land(s) ==
    /\ s \in late
    /\ Apply(s)
    /\ late' = late \ {s}
    /\ UNCHANGED <<state, tries, call, hostVars>>

\* The host that made the call, or the one after it, draws the consequence.
Settle(s) ==
    /\ host = "act" /\ state[s] = "INVOKING" /\ call[s] # "pending"
    /\ Fire(s, IF call[s] = "ok" THEN "SUCCEED"
               ELSE CASE DecideRecovery(s, call[s]) = "park" -> "FAIL_FINAL"
                      [] DecideRecovery(s, call[s]) = "owner-review" -> "AMBIGUOUS_EFFECT"
                      [] DecideRecovery(s, call[s]) = "retry" -> "FAIL_RETRYABLE")
    /\ call' = [call EXCEPT ![s] = "none"]
    /\ Worked
    /\ UNCHANGED <<tries, applied, late>>

Conclude(s) ==
    /\ host = "act" /\ state[s] \in {"SUCCEEDED", "FAILED_FINAL"}
    /\ Fire(s, IF state[s] = "SUCCEEDED" THEN "COMPLETE" ELSE "PARK")
    /\ Worked
    /\ UNCHANGED <<tries, applied, call, late>>

Act == \E s \in Work : Authorize(s) \/ AcquireLease(s) \/ StartInvocation(s) \/ Settle(s) \/ Conclude(s)
HostStep == Decide \/ SaveAndDecide \/ Resume \/ Act

\* The owner approves, parks or reconciles; he reports an effect as he finds it.
OwnerActs(s) ==
    /\ \/ state[s] = "WAITING_FOR_APPROVAL" /\ (Fire(s, "AUTHORIZE") \/ Fire(s, "PARK"))
       \/ state[s] = "RECONCILIATION_REQUIRED" /\ (Fire(s, "START_RECONCILIATION") \/ Fire(s, "PARK"))
       \/ state[s] = "RECONCILING" /\ applied[s] > 0 /\ Fire(s, "RECONCILE_SUCCEEDED")
       \/ state[s] = "RECONCILING" /\ applied[s] = 0 /\ Fire(s, "RECONCILE_FAILED")
       \/ state[s] = "RECONCILING" /\ Fire(s, "PARK")
    /\ UNCHANGED <<tries, applied, call, late, hostVars>>

\* The host's window is about to end; its repository becomes ambiguous or its
\* validation fails for good; or it dies, and the answers to its calls with it.
Stop ==
    /\ stops < MaxStops
    /\ stops' = stops + 1
    /\ \/ window = "OPEN" /\ window' = "ENDING" /\ UNCHANGED <<call, late, host, alarm>>
       \/ ~alarm /\ alarm' = TRUE /\ UNCHANGED <<call, late, host, window>>
       \/ /\ host \in {"decide", "act", "save", "resume"}
          /\ host' = "dead"
          /\ call' = [s \in Work |-> IF call[s] = "none" THEN "none" ELSE "temporary"]
          /\ late' = late \cup {s \in Work : call[s] = "pending"}
          /\ UNCHANGED <<window, alarm>>
    /\ UNCHANGED <<state, tries, applied, mode, saved>>

\* A heartbeat, or the owner's wake, finds the host gone and decides in its place.
Heartbeat ==
    /\ host \in {"dead", "yielded"} \/ (host = "waiting" /\ SafeWork)
    /\ host' = "decide"
    /\ mode' = "HEARTBEAT_RECOVERY"
    /\ window' = "OPEN"
    /\ UNCHANGED <<stepVars, saved, alarm, stops>>

WorkNext == HostStep \/ Stop \/ Heartbeat \/ \E s \in Work : Provide(s) \/ Land(s) \/ OwnerActs(s)

WorkSpec == WorkInit /\ [][WorkNext]_workVars

\* A host that runs goes on, calls end, if only by a timeout, and heartbeats
\* come.  Nothing is assumed of the owner.
WorkFairness ==
    /\ WF_workVars(HostStep)
    /\ WF_workVars(Heartbeat)
    /\ \A s \in Work : WF_workVars(Provide(s))

----------------------------------------------------------------------------
WorkTypeOK ==
    /\ state \in [Work -> States]
    /\ tries \in [Work -> 0..TryLimit]
    /\ applied \in [Work -> 0..TryLimit]
    /\ late \subseteq Work
    /\ call \in [Work -> {"none", "pending", "ok", "temporary", "policy"}]
    /\ host \in {"decide", "act", "save", "resume", "yielded", "waiting", "escalated", "dead", "done"}
    /\ mode \in {"CONTINUOUS_RUN", "HEARTBEAT_RECOVERY"}
    /\ window \in {"OPEN", "ENDING"}
    /\ saved \in BOOLEAN /\ alarm \in BOOLEAN /\ stops \in 0..MaxStops

\* README.md: an ambiguous external effect requires owner review unless its
\* step carries an idempotency key.  Through retries, lost and late answers,
\* deaths and reconciliations an external effect is applied once at most, and
\* it has been applied when its step is complete.
EffectsAccounted ==
    \A s \in Effects : applied[s] <= 1 /\ (state[s] = "COMPLETED" => applied[s] = 1)

\* README.md: a blocked gated action pauses only that action when alternate
\* safe work exists, and exhausted attempts park.  Whatever the owner does or
\* leaves undone, every step comes to its end or to the owner, again and again,
\* unless the host itself had to escalate.
StepsEndOrWait == \A s \in Work : []<>(Terminal(s) \/ OwnersTurn(s) \/ host = "escalated")
==============================================================================

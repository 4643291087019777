----------------------------- MODULE ControlProofs -----------------------------
(***************************************************************************)
(* What the run of MCControl shows of the parts that stand before and      *)
(* around a step's execution, proved for any steps, gates, effects and     *)
(* limits (StepLifecycle), any callers, tokens, windows and times          *)
(* (ProviderCall) and any roles, reviews, workflows and floors             *)
(* (ContinuationGate), and for their composition with the compiler, which  *)
(* is CompilerProofs' subject.                                             *)
(***************************************************************************)
EXTENDS MCControl, CompilerProofs

----------------------------------------------------------------------------
\* StepLifecycle.  The argument counts: a call that was started is worth one
\* application of its effect, which has taken place, is lost, or is still to
\* come, and an effect without a key is never started twice.
USE WorkAssumption, LimitAssumption

\* What may still take effect for a step: a late call, and one under way.
Outstanding(s) == (IF s \in late THEN 1 ELSE 0) + (IF call[s] = "pending" THEN 1 ELSE 0)

\* The attempts a step may have had where it stands.
TriesFit(s) ==
    /\ state[s] \in {"PENDING", "WAITING_FOR_APPROVAL", "AUTHORIZED"} => tries[s] = 0
    /\ state[s] \in {"LEASED", "FAILED_RETRYABLE"} => tries[s] < TryLimit

\* An external effect without a key is not retried.
TriedOnce(s) ==
    s \in Effects \ WithKey =>
        /\ state[s] # "FAILED_RETRYABLE"
        /\ state[s] = "LEASED" => tries[s] = 0
        /\ tries[s] <= 1

\* Every application of the effect is that of a call.
Counted(s) == applied[s] + Outstanding(s) <= tries[s]

\* A key makes the second application the first.
KeyedOnce(s) == s \in WithKey => applied[s] <= 1

\* A result means that the effect has been applied.
ResultIsApplied(s) == call[s] = "ok" \/ state[s] \in {"SUCCEEDED", "COMPLETED"} => applied[s] >= 1

StepInv(s) == TriesFit(s) /\ TriedOnce(s) /\ Counted(s) /\ KeyedOnce(s) /\ ResultIsApplied(s)
WorkInv == WorkTypeOK /\ \A s \in Work : StepInv(s)

----------------------------------------------------------------------------
\* Where an event leads, and from where.
Sources(event) == {t[1] : t \in {u \in Transitions : u[2] = event}}

LEMMA FireMoves ==
    ASSUME NEW s \in Work, NEW event, Fire(s, event)
    PROVE  \E t \in Transitions : t[1] = state[s] /\ t[2] = event /\ t[3] \in States
                                  /\ state' = [state EXCEPT ![s] = t[3]]
BY DEF Fire, States

LEMMA PendingIsState == "PENDING" \in States
<1>1. <<"PENDING", "AUTHORIZE", "AUTHORIZED">> \in Transitions
  BY DEF Transitions
<1>2. QED
  BY <1>1 DEF States

\* The events a host raises, and those an owner raises.
LEMMA HostEvents ==
    ASSUME NEW t \in Transitions
    PROVE  /\ t[2] = "ACQUIRE_LEASE" => t[1] \in {"AUTHORIZED", "FAILED_RETRYABLE"} /\ t[3] = "LEASED"
           /\ t[2] = "START_INVOCATION" => t[1] = "LEASED" /\ t[3] = "INVOKING"
           /\ t[2] = "SUCCEED" => t[1] = "INVOKING" /\ t[3] = "SUCCEEDED"
           /\ t[2] = "FAIL_RETRYABLE" => t[1] = "INVOKING" /\ t[3] = "FAILED_RETRYABLE"
           /\ t[2] = "FAIL_FINAL" => t[1] = "INVOKING" /\ t[3] = "FAILED_FINAL"
           /\ t[2] = "AMBIGUOUS_EFFECT" => t[1] = "INVOKING" /\ t[3] = "RECONCILIATION_REQUIRED"
           /\ t[2] = "COMPLETE" => t[1] = "SUCCEEDED" /\ t[3] = "COMPLETED"
BY DEF Transitions

LEMMA OwnerEvents ==
    ASSUME NEW t \in Transitions
    PROVE  /\ t[2] = "WAIT_FOR_APPROVAL" => t[1] = "PENDING" /\ t[3] = "WAITING_FOR_APPROVAL"
           /\ t[2] = "AUTHORIZE" => t[1] \in {"PENDING", "WAITING_FOR_APPROVAL"} /\ t[3] = "AUTHORIZED"
           /\ t[2] = "PARK" => t[3] = "PARKED"
           /\ t[2] = "START_RECONCILIATION" => t[3] = "RECONCILING"
           /\ t[2] = "RECONCILE_SUCCEEDED" => t[3] = "SUCCEEDED"
           /\ t[2] = "RECONCILE_FAILED" => t[3] = "FAILED_FINAL"
BY DEF Transitions

\* What an action says of one step says nothing of the others.
LEMMA OthersStay ==
    ASSUME WorkInv, NEW t \in Work, state'[t] = state[t], tries'[t] = tries[t], applied'[t] = applied[t],
           call'[t] = call[t], t \in late' <=> t \in late
    PROVE  StepInv(t)'
BY DEF WorkInv, StepInv, TriesFit, TriedOnce, Counted, Outstanding, KeyedOnce, ResultIsApplied

LEMMA WorkInitInv == WorkInit => WorkInv
<1> SUFFICES ASSUME WorkInit PROVE WorkInv
  OBVIOUS
<1>1. WorkTypeOK
  <2>1. 0 \in 0..TryLimit /\ 0 \in 0..MaxStops
    OBVIOUS
  <2>2. state \in [Work -> States] /\ tries \in [Work -> 0..TryLimit] /\ applied \in [Work -> 0..TryLimit]
    BY <2>1, PendingIsState DEF WorkInit
  <2>3. QED
    BY <2>1, <2>2 DEF WorkInit, WorkTypeOK
<1>2. \A s \in Work : StepInv(s)
  BY DEF WorkInit, StepInv, TriesFit, TriedOnce, Counted, Outstanding, KeyedOnce, ResultIsApplied
<1>3. QED
  BY <1>1, <1>2 DEF WorkInv

\* A step that only changes its state keeps its counts; what is left to show is
\* that its new state suits them.
LEMMA MovedStep ==
    ASSUME WorkInv, NEW s \in Work, NEW q \in States, state' = [state EXCEPT ![s] = q],
           tries' = tries, applied' = applied, late' = late,
           call' = call \/ call' = [call EXCEPT ![s] = "none"],
           call[s] # "pending" \/ call' = call,
           UNCHANGED <<mode, window, alarm, stops>>, saved' \in BOOLEAN,
           host' \in {"decide", "act", "save", "resume", "yielded", "waiting", "escalated", "dead", "done"},
           q \in {"PENDING", "WAITING_FOR_APPROVAL", "AUTHORIZED"} => tries[s] = 0,
           q \in {"LEASED", "FAILED_RETRYABLE"} => tries[s] < TryLimit,
           s \in Effects \ WithKey => q # "FAILED_RETRYABLE" /\ (q = "LEASED" => tries[s] = 0),
           q \in {"SUCCEEDED", "COMPLETED"} => applied[s] >= 1
    PROVE  WorkInv'
<1>1. WorkTypeOK'
  BY DEF WorkInv, WorkTypeOK
<1>2. /\ state'[s] = q /\ call'[s] \in {call[s], "none"} /\ (call[s] = "pending" <=> call'[s] = "pending")
      /\ \A t \in Work \ {s} : state'[t] = state[t] /\ call'[t] = call[t]
  BY DEF WorkInv, WorkTypeOK
<1>3. StepInv(s)
  BY DEF WorkInv
<1>4. Counted(s)' /\ KeyedOnce(s)'
  BY <1>2, <1>3 DEF StepInv, Counted, Outstanding, KeyedOnce
<1>5. TriesFit(s)' /\ TriedOnce(s)' /\ ResultIsApplied(s)'
  BY <1>2, <1>3 DEF StepInv, TriesFit, TriedOnce, ResultIsApplied
<1>6. \A t \in Work \ {s} : StepInv(t)'
  BY <1>2, OthersStay
<1>7. QED
  BY <1>1, <1>4, <1>5, <1>6 DEF WorkInv, StepInv

----------------------------------------------------------------------------
LEMMA AuthorizeKeepsInv == ASSUME WorkInv, NEW s \in Work, Authorize(s) PROVE WorkInv'
<1>1. PICK t \in Transitions : /\ t[1] = state[s] /\ t[2] \in {"WAIT_FOR_APPROVAL", "AUTHORIZE"}
                               /\ t[3] \in States /\ state' = [state EXCEPT ![s] = t[3]]
  BY FireMoves DEF Authorize
<1>2. t[3] \in {"WAITING_FOR_APPROVAL", "AUTHORIZED"} /\ tries[s] = 0
  BY <1>1, OwnerEvents DEF WorkInv, StepInv, TriesFit
<1>3. QED
  BY <1>1, <1>2, MovedStep DEF Authorize, Worked

LEMMA LeaseKeepsInv == ASSUME WorkInv, NEW s \in Work, AcquireLease(s) PROVE WorkInv'
<1>1. PICK t \in Transitions : /\ t[1] = state[s] /\ t[2] = "ACQUIRE_LEASE"
                               /\ t[3] \in States /\ state' = [state EXCEPT ![s] = t[3]]
  BY FireMoves DEF AcquireLease
<1>2. t[3] = "LEASED" /\ state[s] \in {"AUTHORIZED", "FAILED_RETRYABLE"}
  BY <1>1, HostEvents
<1>3. tries[s] < TryLimit /\ (s \in Effects \ WithKey => tries[s] = 0)
  BY <1>2 DEF WorkInv, StepInv, TriesFit, TriedOnce
<1>4. QED
  BY <1>1, <1>2, <1>3, MovedStep DEF AcquireLease, Worked

LEMMA StartKeepsInv == ASSUME WorkInv, NEW s \in Work, StartInvocation(s) PROVE WorkInv'
<1>1. PICK t \in Transitions : /\ t[1] = state[s] /\ t[2] = "START_INVOCATION"
                               /\ t[3] \in States /\ state' = [state EXCEPT ![s] = t[3]]
  BY FireMoves DEF StartInvocation
<1>2. t[3] = "INVOKING" /\ state[s] = "LEASED"
  BY <1>1, HostEvents
<1>3. /\ tries' = [tries EXCEPT ![s] = tries[s] + 1] /\ call' = [call EXCEPT ![s] = "pending"]
      /\ applied' = applied /\ late' = late /\ UNCHANGED hostVars
  BY DEF StartInvocation
<1>4. StepInv(s) /\ tries[s] \in 0..TryLimit /\ tries[s] < TryLimit /\ (s \in Effects \ WithKey => tries[s] = 0)
  BY <1>2 DEF WorkInv, StepInv, TriesFit, TriedOnce, WorkTypeOK
<1>5. WorkTypeOK'
  <2>1. tries[s] + 1 \in 0..TryLimit
    BY <1>4
  <2>2. tries' \in [Work -> 0..TryLimit] /\ call' \in [Work -> {"none", "pending", "ok", "temporary", "policy"}]
        /\ state' \in [Work -> States]
    BY <1>1, <1>3, <2>1 DEF WorkInv, WorkTypeOK
  <2>3. QED
    BY <1>3, <2>2 DEF WorkInv, WorkTypeOK, hostVars
<1>6. /\ state'[s] = "INVOKING" /\ tries'[s] = tries[s] + 1 /\ call'[s] = "pending"
      /\ \A u \in Work \ {s} : state'[u] = state[u] /\ tries'[u] = tries[u] /\ call'[u] = call[u]
  BY <1>1, <1>2, <1>3 DEF WorkInv, WorkTypeOK
<1>7. StepInv(s)'
  <2>1. applied[s] \in Nat
    BY DEF WorkInv, WorkTypeOK
  <2>2. Counted(s)'
    BY <1>3, <1>4, <1>6, <2>1 DEF StepInv, Counted, Outstanding
  <2>3. TriesFit(s)' /\ TriedOnce(s)' /\ KeyedOnce(s)' /\ ResultIsApplied(s)'
    BY <1>3, <1>4, <1>6 DEF StepInv, TriesFit, TriedOnce, KeyedOnce, ResultIsApplied
  <2>4. QED
    BY <2>2, <2>3 DEF StepInv
<1>8. \A u \in Work \ {s} : StepInv(u)'
  BY <1>3, <1>6, OthersStay
<1>9. QED
  BY <1>5, <1>7, <1>8 DEF WorkInv

\* decideRecovery never has an external effect without a key retried, and
\* nothing beyond the limit.
LEMMA RecoveryIsCareful ==
    ASSUME NEW s \in Work, NEW code, DecideRecovery(s, code) = "retry"
    PROVE  s \notin Effects \ WithKey /\ ~(tries[s] >= TryLimit)
BY DEF DecideRecovery

LEMMA SettleKeepsInv == ASSUME WorkInv, NEW s \in Work, Settle(s) PROVE WorkInv'
<1>1. /\ state[s] = "INVOKING" /\ call[s] # "pending" /\ call' = [call EXCEPT ![s] = "none"] /\ Worked
      /\ tries' = tries /\ applied' = applied /\ late' = late
  BY DEF Settle
<1>2. CASE call[s] = "ok"
  <2>1. PICK t \in Transitions : /\ t[1] = state[s] /\ t[2] = "SUCCEED"
                                 /\ t[3] \in States /\ state' = [state EXCEPT ![s] = t[3]]
    BY <1>2, FireMoves DEF Settle
  <2>2. t[3] = "SUCCEEDED" /\ applied[s] >= 1
    BY <1>2, <2>1, HostEvents DEF WorkInv, StepInv, ResultIsApplied
  <2>3. QED
    BY <1>1, <2>1, <2>2, MovedStep DEF Worked
<1>3. CASE call[s] # "ok"
  <2> DEFINE verdict == DecideRecovery(s, call[s])
  <2>1. verdict \in {"park", "owner-review", "retry"}
    BY DEF DecideRecovery
  <2>2. PICK t \in Transitions :
            /\ t[1] = state[s] /\ t[3] \in States /\ state' = [state EXCEPT ![s] = t[3]]
            /\ t[2] \in {"FAIL_FINAL", "AMBIGUOUS_EFFECT", "FAIL_RETRYABLE"}
            /\ t[2] = "FAIL_RETRYABLE" => verdict = "retry"
    <3>1. CASE verdict = "park"
      BY <1>3, <3>1, FireMoves DEF Settle
    <3>2. CASE verdict = "owner-review"
      BY <1>3, <3>2, FireMoves DEF Settle
    <3>3. CASE verdict = "retry"
      BY <1>3, <3>3, FireMoves DEF Settle
    <3>4. QED
      BY <2>1, <3>1, <3>2, <3>3
  <2>3. t[3] \in {"FAILED_FINAL", "RECONCILIATION_REQUIRED", "FAILED_RETRYABLE"}
        /\ (t[3] = "FAILED_RETRYABLE" => verdict = "retry")
    BY <2>2, HostEvents
  <2>4. t[3] = "FAILED_RETRYABLE" => s \notin Effects \ WithKey /\ tries[s] < TryLimit
    <3>1. tries[s] \in Nat
      BY DEF WorkInv, WorkTypeOK
    <3>2. QED
      BY <2>3, <3>1, RecoveryIsCareful
  <2>5. QED
    BY <1>1, <2>2, <2>3, <2>4, MovedStep DEF Worked
<1>4. QED
  BY <1>2, <1>3

LEMMA ConcludeKeepsInv == ASSUME WorkInv, NEW s \in Work, Conclude(s) PROVE WorkInv'
<1>1. PICK t \in Transitions : /\ t[1] = state[s] /\ t[2] \in {"COMPLETE", "PARK"}
                               /\ t[3] \in States /\ state' = [state EXCEPT ![s] = t[3]]
  BY FireMoves DEF Conclude
<1>2. t[3] = "PARKED" \/ (t[3] = "COMPLETED" /\ applied[s] >= 1)
  BY <1>1, HostEvents, OwnerEvents DEF WorkInv, StepInv, ResultIsApplied
<1>3. QED
  BY <1>1, <1>2, MovedStep DEF Conclude, Worked

\* The owner reports an effect as he finds it, and approves what was never tried.
LEMMA OwnerKeepsInv == ASSUME WorkInv, NEW s \in Work, OwnerActs(s) PROVE WorkInv'
<1>1. PICK t \in Transitions :
          /\ t[1] = state[s] /\ t[3] \in States /\ state' = [state EXCEPT ![s] = t[3]]
          /\ t[2] \in {"AUTHORIZE", "PARK", "START_RECONCILIATION", "RECONCILE_SUCCEEDED", "RECONCILE_FAILED"}
          /\ t[2] = "RECONCILE_SUCCEEDED" => applied[s] > 0
  BY FireMoves DEF OwnerActs
<1>2. /\ t[3] \in {"AUTHORIZED", "PARKED", "RECONCILING", "SUCCEEDED", "FAILED_FINAL"}
      /\ t[3] = "AUTHORIZED" => tries[s] = 0
      /\ t[3] = "SUCCEEDED" => applied[s] >= 1
  <2>1. applied[s] \in Nat
    BY DEF WorkInv, WorkTypeOK
  <2>2. QED
    BY <1>1, <2>1, OwnerEvents DEF WorkInv, StepInv, TriesFit
<1>3. /\ host \in {"decide", "act", "save", "resume", "yielded", "waiting", "escalated", "dead", "done"}
      /\ saved \in BOOLEAN
  BY DEF WorkInv, WorkTypeOK
<1>4. QED
  BY <1>1, <1>2, <1>3, MovedStep DEF OwnerActs, hostVars

----------------------------------------------------------------------------
\* One call less is outstanding when its effect takes place.
LEMMA ApplyCounts ==
    ASSUME WorkInv, NEW s \in Work, Apply(s), Outstanding(s) >= 1
    PROVE  /\ applied' \in [Work -> 0..TryLimit]
           /\ \A t \in Work \ {s} : applied'[t] = applied[t]
           /\ applied'[s] \in Nat /\ applied'[s] >= 1 /\ applied'[s] >= applied[s]
           /\ applied'[s] <= applied[s] + 1 /\ applied'[s] <= tries[s]
           /\ s \in WithKey => applied'[s] <= 1
<1>1. applied[s] \in Nat /\ tries[s] \in 0..TryLimit /\ Outstanding(s) \in {0, 1, 2}
      /\ applied \in [Work -> 0..TryLimit] /\ StepInv(s)
  BY DEF WorkInv, WorkTypeOK, Outstanding
<1>2. applied[s] + 1 <= tries[s] /\ (s \in WithKey => applied[s] <= 1)
  BY <1>1 DEF StepInv, Counted, KeyedOnce
<1>3. CASE s \in WithKey /\ applied[s] > 0
  BY <1>1, <1>2, <1>3 DEF Apply
<1>4. CASE ~(s \in WithKey /\ applied[s] > 0)
  <2>1. applied' = [applied EXCEPT ![s] = applied[s] + 1]
    BY <1>4 DEF Apply
  <2>2. applied[s] + 1 \in 0..TryLimit
    BY <1>1, <1>2
  <2>3. QED
    BY <1>1, <1>2, <1>4, <2>1, <2>2
<1>5. QED
  BY <1>3, <1>4

LEMMA ProvideKeepsInv == ASSUME WorkInv, NEW s \in Work, Provide(s) PROVE WorkInv'
<1>1. /\ call[s] = "pending" /\ state' = state /\ tries' = tries /\ UNCHANGED hostVars
  BY DEF Provide
<1>2. PICK reply \in {"ok", "policy", "temporary"} :
          /\ call' = [call EXCEPT ![s] = reply]
          /\ \/ Apply(s) /\ UNCHANGED late
             \/ reply # "ok" /\ UNCHANGED <<applied, late>>
             \/ reply = "temporary" /\ late' = late \cup {s} /\ UNCHANGED applied
  BY DEF Provide
<1>3. Outstanding(s) >= 1 /\ StepInv(s) /\ applied[s] \in Nat /\ tries[s] \in Nat
  BY <1>1 DEF Outstanding, WorkInv, WorkTypeOK
<1>4. call'[s] = reply /\ reply # "pending" /\ \A t \in Work \ {s} : call'[t] = call[t]
  BY <1>2 DEF WorkInv, WorkTypeOK
<1>5. call' \in [Work -> {"none", "pending", "ok", "temporary", "policy"}]
  BY <1>2 DEF WorkInv, WorkTypeOK
<1>6. CASE Apply(s) /\ late' = late
  <2>1. WorkTypeOK'
    BY <1>1, <1>3, <1>5, <1>6, ApplyCounts DEF WorkInv, WorkTypeOK, hostVars
  <2>2. /\ \A t \in Work \ {s} : applied'[t] = applied[t]
        /\ applied'[s] \in Nat /\ applied'[s] >= 1 /\ applied'[s] <= applied[s] + 1 /\ applied'[s] <= tries[s]
        /\ s \in WithKey => applied'[s] <= 1
    BY <1>3, <1>6, ApplyCounts
  <2>3. Counted(s)'
    BY <1>1, <1>3, <1>4, <1>6, <2>2 DEF StepInv, Counted, Outstanding
  <2>4. TriesFit(s)' /\ TriedOnce(s)' /\ KeyedOnce(s)' /\ ResultIsApplied(s)'
    BY <1>1, <1>3, <2>2 DEF StepInv, TriesFit, TriedOnce, KeyedOnce, ResultIsApplied
  <2>5. \A t \in Work \ {s} : StepInv(t)'
    BY <1>1, <1>4, <1>6, <2>2, OthersStay
  <2>6. QED
    BY <2>1, <2>3, <2>4, <2>5 DEF WorkInv, StepInv
<1>7. CASE reply # "ok" /\ applied' = applied /\ late' \in {late, late \cup {s}}
  <2>1. WorkTypeOK'
    BY <1>1, <1>5, <1>7 DEF WorkInv, WorkTypeOK, hostVars
  <2>2. Counted(s)'
    BY <1>1, <1>3, <1>4, <1>7 DEF StepInv, Counted, Outstanding
  <2>3. TriesFit(s)' /\ TriedOnce(s)' /\ KeyedOnce(s)' /\ ResultIsApplied(s)'
    BY <1>1, <1>3, <1>4, <1>7 DEF StepInv, TriesFit, TriedOnce, KeyedOnce, ResultIsApplied
  <2>4. \A t \in Work \ {s} : StepInv(t)'
    BY <1>1, <1>4, <1>7, OthersStay
  <2>5. QED
    BY <2>1, <2>2, <2>3, <2>4 DEF WorkInv, StepInv
<1>8. QED
  BY <1>2, <1>6, <1>7

LEMMA LandKeepsInv == ASSUME WorkInv, NEW s \in Work, Land(s) PROVE WorkInv'
<1>1. s \in late /\ Apply(s) /\ late' = late \ {s} /\ state' = state /\ tries' = tries /\ call' = call
      /\ UNCHANGED hostVars
  BY DEF Land
<1>2. Outstanding(s) >= 1 /\ StepInv(s) /\ applied[s] \in Nat /\ tries[s] \in Nat
  BY <1>1 DEF Outstanding, WorkInv, WorkTypeOK
<1>3. WorkTypeOK'
  BY <1>1, <1>2, ApplyCounts DEF WorkInv, WorkTypeOK, hostVars
<1>4. /\ \A t \in Work \ {s} : applied'[t] = applied[t]
      /\ applied'[s] \in Nat /\ applied'[s] >= 1 /\ applied'[s] <= applied[s] + 1
      /\ s \in WithKey => applied'[s] <= 1
  BY <1>1, <1>2, ApplyCounts
<1>5. Counted(s)'
  BY <1>1, <1>2, <1>4 DEF StepInv, Counted, Outstanding
<1>6. TriesFit(s)' /\ TriedOnce(s)' /\ KeyedOnce(s)' /\ ResultIsApplied(s)'
  BY <1>1, <1>2, <1>4 DEF StepInv, TriesFit, TriedOnce, KeyedOnce, ResultIsApplied
<1>7. \A t \in Work \ {s} : StepInv(t)'
  BY <1>1, <1>4, OthersStay
<1>8. QED
  BY <1>3, <1>5, <1>6, <1>7 DEF WorkInv, StepInv

\* When the host dies, the calls under way become late ones.
LEMMA StopKeepsInv == ASSUME WorkInv, Stop PROVE WorkInv'
<1>1. stops' \in 0..MaxStops /\ state' = state /\ tries' = tries /\ applied' = applied /\ mode' = mode /\ saved' = saved
  BY DEF Stop, WorkInv, WorkTypeOK
<1>2. CASE call' = call /\ late' = late
  <2>1. WorkTypeOK'
    BY <1>1, <1>2 DEF Stop, WorkInv, WorkTypeOK
  <2>2. QED
    BY <1>1, <1>2, <2>1, OthersStay DEF WorkInv
<1>3. CASE /\ host' = "dead" /\ window' = window /\ alarm' = alarm
           /\ call' = [s \in Work |-> IF call[s] = "none" THEN "none" ELSE "temporary"]
           /\ late' = late \cup {s \in Work : call[s] = "pending"}
  <2>1. WorkTypeOK'
    BY <1>1, <1>3 DEF WorkInv, WorkTypeOK
  <2>2. ASSUME NEW s \in Work PROVE StepInv(s)'
    <3>1. StepInv(s) /\ applied[s] \in Nat /\ tries[s] \in Nat
      BY DEF WorkInv, WorkTypeOK
    <3>2. call'[s] \notin {"pending", "ok"} /\ (s \in late' <=> s \in late \/ call[s] = "pending")
      BY <1>3
    <3>3. Counted(s)'
      BY <1>1, <3>1, <3>2 DEF StepInv, Counted, Outstanding
    <3>4. TriesFit(s)' /\ TriedOnce(s)' /\ KeyedOnce(s)' /\ ResultIsApplied(s)'
      BY <1>1, <3>1, <3>2 DEF StepInv, TriesFit, TriedOnce, KeyedOnce, ResultIsApplied
    <3>5. QED
      BY <3>3, <3>4 DEF StepInv
  <2>3. QED
    BY <2>1, <2>2 DEF WorkInv
<1>4. QED
  BY <1>2, <1>3 DEF Stop

\* The host's own bookkeeping does not touch the steps.
LEMMA HostKeepsInv ==
    ASSUME WorkInv, Decide \/ SaveAndDecide \/ Resume \/ Heartbeat \/ UNCHANGED workVars
    PROVE  WorkInv'
<1>1. UNCHANGED stepVars
  BY DEF Decide, SaveAndDecide, Resume, Heartbeat, workVars
<1>2. WorkTypeOK'
  <2>1. CASE Decide
    <3>1. host' \in {"done", "escalated", "waiting", "yielded", "save", "resume", "act"}
      BY <2>1 DEF Decide
    <3>2. QED
      BY <1>1, <2>1, <3>1 DEF Decide, WorkInv, WorkTypeOK, stepVars
  <2>2. CASE SaveAndDecide
    BY <1>1, <2>2 DEF SaveAndDecide, WorkInv, WorkTypeOK, stepVars
  <2>3. CASE Resume
    BY <1>1, <2>3 DEF Resume, WorkInv, WorkTypeOK, stepVars
  <2>4. CASE Heartbeat
    BY <1>1, <2>4 DEF Heartbeat, WorkInv, WorkTypeOK, stepVars
  <2>5. CASE UNCHANGED workVars
    BY <2>5 DEF WorkInv, WorkTypeOK, workVars, stepVars, hostVars
  <2>6. QED
    BY <2>1, <2>2, <2>3, <2>4, <2>5
<1>3. \A t \in Work : StepInv(t)'
  BY <1>1, OthersStay DEF stepVars
<1>4. QED
  BY <1>2, <1>3 DEF WorkInv

LEMMA WorkNextInv == WorkInv /\ [WorkNext]_workVars => WorkInv'
<1> SUFFICES ASSUME WorkInv, [WorkNext]_workVars PROVE WorkInv'
  OBVIOUS
<1>1. ASSUME NEW s \in Work, Authorize(s) PROVE WorkInv'
  BY <1>1, AuthorizeKeepsInv
<1>2. ASSUME NEW s \in Work, AcquireLease(s) PROVE WorkInv'
  BY <1>2, LeaseKeepsInv
<1>3. ASSUME NEW s \in Work, StartInvocation(s) PROVE WorkInv'
  BY <1>3, StartKeepsInv
<1>4. ASSUME NEW s \in Work, Settle(s) PROVE WorkInv'
  BY <1>4, SettleKeepsInv
<1>5. ASSUME NEW s \in Work, Conclude(s) PROVE WorkInv'
  BY <1>5, ConcludeKeepsInv
<1>6. ASSUME NEW s \in Work, Provide(s) PROVE WorkInv'
  BY <1>6, ProvideKeepsInv
<1>7. ASSUME NEW s \in Work, Land(s) PROVE WorkInv'
  BY <1>7, LandKeepsInv
<1>8. ASSUME NEW s \in Work, OwnerActs(s) PROVE WorkInv'
  BY <1>8, OwnerKeepsInv
<1>9. CASE Stop
  BY <1>9, StopKeepsInv
<1>10. CASE Decide \/ SaveAndDecide \/ Resume \/ Heartbeat \/ UNCHANGED workVars
  BY <1>10, HostKeepsInv
<1>11. QED
  BY <1>1, <1>2, <1>3, <1>4, <1>5, <1>6, <1>7, <1>8, <1>9, <1>10 DEF WorkNext, HostStep, Act

LEMMA WorkInvariant == WorkSpec => []WorkInv
BY WorkInitInv, WorkNextInv, PTL DEF WorkSpec

----------------------------------------------------------------------------
\* The variables of the step lifecycle keep their types: no step is tried, nor
\* its effect applied, beyond the limit of recovery-policy.mjs.
THEOREM LifecycleTypes == WorkSpec => []WorkTypeOK
<1>1. WorkInv => WorkTypeOK
  BY DEF WorkInv
<1>2. QED
  BY <1>1, WorkInvariant, PTL

\* The counts of a step that has an external effect.
LEMMA CountsAccount == WorkInv => EffectsAccounted
<1>1. ASSUME WorkInv, NEW s \in Effects PROVE applied[s] <= 1 /\ (state[s] = "COMPLETED" => applied[s] = 1)
  <2>1. s \in Work /\ StepInv(s) /\ applied[s] \in Nat /\ tries[s] \in Nat /\ Outstanding(s) \in Nat
    BY <1>1 DEF WorkInv, WorkTypeOK, Outstanding
  <2>2. applied[s] <= 1
    BY <2>1 DEF StepInv, TriedOnce, Counted, KeyedOnce
  <2>3. QED
    BY <2>1, <2>2 DEF StepInv, ResultIsApplied
<1>2. QED
  BY <1>1 DEF EffectsAccounted

\* step-state-machine.mjs with the decisions of recovery-policy.mjs: through
\* retries, lost and late answers, deaths and reconciliations an external
\* effect is applied once at most, and it has been when its step is complete.
THEOREM EffectsAreAccountedFor == WorkSpec => []EffectsAccounted
BY CountsAccount, WorkInvariant, PTL

----------------------------------------------------------------------------
\* ProviderCall: every fact CallWithinGrant has of a call that was sent was
\* found out at an await of its own, and stays as it was found.
Graded   == {"reserve", "identify", "list", "call", "answer", "over"}
Reserved == {"identify", "list", "call", "answer"}

\* The headroom was seen, and stays noted, once the capacity was evaluated.
CapacitySeen(c) == /\ seen[c].remaining \in 0..WindowTokens
                   /\ seen[c].remaining >= RequiredTokens(c) + Headroom

CallInv ==
    /\ CallTypeOK
    /\ \A c \in Callers :
          /\ callPc[c] \in {"reserve", "identify", "list", "call", "answer"} => CapacitySeen(c)
          /\ callPc[c] \in Reserved => reserved[c] # NoWindow
          /\ callPc[c] \in {"list", "call"} => pinned
          /\ callPc[c] = "call" => listed
          /\ callPc[c] # "new" => envelope[c].effect # "none"
    /\ \A asked \in sent : callPc[asked.by] \in {"answer", "over"}
    /\ CallWithinGrant

LEMMA Division ==
    ASSUME NEW t \in Nat, NEW w \in Nat \ {0}
    PROVE  t \div w \in Nat /\ t \div w <= t /\ (t \div w) * w <= t
<1>1. t \div w \in Nat /\ t \div w <= t
  OBVIOUS
<1>2. (t \div w) * w <= t
  OBVIOUS
<1>3. QED
  BY <1>1, <1>2

LEMMA RequiredIsNat == ASSUME NEW c \in Callers PROVE RequiredTokens(c) \in Nat
<1> USE RatesAssumption, TokensAssumption
<1>1. \A n \in Nat, d \in Nat \ {0} : RoundUp(n, d) \in Nat
  <2> SUFFICES ASSUME NEW n \in Nat, NEW d \in Nat \ {0} PROVE RoundUp(n, d) \in Nat
    OBVIOUS
  <2>1. n + d - 1 \in Nat
    OBVIOUS
  <2>2. QED
    BY <2>1, Division DEF RoundUp
<1>2. RoundUp(Prompt[c], CharsPerToken) \in Nat
  BY <1>1
<1>3. RoundUp(Prompt[c], CharsPerToken) * (10 + MarginTenths) \in Nat
  BY <1>2
<1>4. PromptTokens(c) \in Nat
  BY <1>1, <1>3 DEF PromptTokens
<1>5. QED
  BY <1>4 DEF RequiredTokens

\* A window that has begun is not the one that never does, and ends in time.
LEMMA WindowsFit ==
    ASSUME NEW t \in 0..MaxClock
    PROVE  /\ Window(t) \in 0..NoWindow /\ Window(t) # NoWindow
           /\ ResetsAt(t) \in 0..(MaxClock + WindowLength)
<1> USE RatesAssumption, TokensAssumption
<1>1. Window(t) \in Nat /\ Window(t) <= t /\ Window(t) * WindowLength <= t
  BY Division DEF Window
<1>2. (Window(t) + 1) * WindowLength = Window(t) * WindowLength + WindowLength
  BY <1>1
<1>3. Window(t) * WindowLength \in Nat
  BY <1>1
<1>4. ResetsAt(t) \in 0..(MaxClock + WindowLength)
  BY <1>1, <1>2, <1>3 DEF ResetsAt
<1>5. QED
  BY <1>1, <1>4 DEF NoWindow

LEMMA CallInitInv == CallInit => CallInv
<1> SUFFICES ASSUME CallInit PROVE CallInv
  OBVIOUS
<1> USE RatesAssumption, TokensAssumption
<1>1. CallTypeOK
  <2>1. envelope \in [Callers -> [effect : {"none", "read", "local", "external"}, keyed : BOOLEAN,
                                  maxEffects : 0..1, expiresAt : 0..(MaxClock + Ttl)]]
    BY DEF CallInit, NoEnvelope
  <2>2. seen \in [Callers -> [remaining : 0..Malformed, observedAt : 0..MaxClock,
                              resetsAt : 0..(MaxClock + WindowLength)]]
    BY DEF CallInit, NotSeen, Unknown, Malformed
  <2>3. reserved \in [Callers -> 0..NoWindow] /\ clock \in 0..MaxClock /\ left \in 0..WindowTokens
    BY DEF CallInit, NoWindow
  <2>4. result \in [Callers -> [status : {"pending", "rejected", "provider-reported", "reserved-ceiling"},
                                cost : 0..(Ceiling + 1)]]
    BY DEF CallInit, Pending
  <2>5. QED
    BY <2>1, <2>2, <2>3, <2>4 DEF CallInit, CallTypeOK
<1>2. QED
  BY <1>1 DEF CallInit, CallInv, Reserved, CallWithinGrant

----------------------------------------------------------------------------
\* A call that is over, rejected or answered, and the others.
Results == [status : {"pending", "rejected", "provider-reported", "reserved-ceiling"}, cost : 0..(Ceiling + 1)]

\* Only the place of c changes, to one where nothing new is claimed.
LEMMA PlaceKeepsInv ==
    ASSUME CallInv, NEW c \in Callers, callPc[c] # "new",
           NEW p \in {"evaluate", "reserve", "identify", "list", "call", "answer", "over"},
           callPc' = [callPc EXCEPT ![c] = p],
           callPc[c] \in {"answer", "over"} => p \in {"answer", "over"},
           p \in {"reserve", "identify", "list", "call", "answer"} => CapacitySeen(c),
           p \in Reserved => reserved[c] # NoWindow,
           p \in {"list", "call"} => pinned',
           p = "call" => listed',
           pinned' \in BOOLEAN, listed' \in BOOLEAN, pinned => pinned', listed => listed',
           result' \in [Callers -> Results],
           UNCHANGED <<clock, left, envelope, seen, reserved, sent>>
    PROVE  CallInv'
<1>1. CallTypeOK'
  BY DEF CallInv, CallTypeOK, Results
<1>2. callPc'[c] = p /\ \A d \in Callers \ {c} : callPc'[d] = callPc[d]
  BY DEF CallInv, CallTypeOK
<1>3. \A d \in Callers : CapacitySeen(d)' <=> CapacitySeen(d)
  BY DEF CapacitySeen, RequiredTokens, PromptTokens
<1>4. \A d \in Callers :
          /\ callPc'[d] \in {"reserve", "identify", "list", "call", "answer"} => CapacitySeen(d)'
          /\ callPc'[d] \in Reserved => reserved'[d] # NoWindow
          /\ callPc'[d] \in {"list", "call"} => pinned'
          /\ callPc'[d] = "call" => listed'
          /\ callPc'[d] # "new" => envelope'[d].effect # "none"
  BY <1>2, <1>3 DEF CallInv
<1>5. \A asked \in sent : callPc'[asked.by] \in {"answer", "over"}
  BY <1>2 DEF CallInv, CallTypeOK
<1>6. CallWithinGrant'
  BY DEF CallInv, CallWithinGrant, RequiredTokens, PromptTokens
<1>7. QED
  BY <1>1, <1>4, <1>5, <1>6 DEF CallInv, Reserved

LEMMA RejectKeepsInv ==
    ASSUME CallInv, NEW c \in Callers, callPc[c] # "new", Reject(c),
           UNCHANGED <<clock, left, envelope, seen, reserved, pinned, listed, sent>>
    PROVE  CallInv'
<1>1. Rejected \in Results
  BY TokensAssumption DEF Rejected, Results
<1>2. callPc' = [callPc EXCEPT ![c] = "over"] /\ result' = [result EXCEPT ![c] = Rejected]
  BY DEF Reject
<1>3. result' \in [Callers -> Results] /\ pinned \in BOOLEAN /\ listed \in BOOLEAN
  BY <1>1, <1>2 DEF CallInv, CallTypeOK, Results
<1>4. QED
  BY <1>2, <1>3, PlaceKeepsInv DEF Reserved

\* Before a call is sent, what is held for it may change, and nothing else.
LEMMA UnsentKeepsInv ==
    ASSUME CallInv, NEW c \in Callers, callPc[c] \notin {"answer", "over"},
           NEW p \in {"read", "evaluate", "identify", "list", "call"},
           callPc' = [callPc EXCEPT ![c] = p], CallTypeOK', envelope'[c].effect # "none",
           \A d \in Callers \ {c} : envelope'[d] = envelope[d] /\ seen'[d] = seen[d] /\ reserved'[d] = reserved[d],
           p \in {"identify", "list", "call"} => CapacitySeen(c)' /\ reserved'[c] # NoWindow,
           p \in {"list", "call"} => pinned, p = "call" => listed,
           UNCHANGED <<pinned, listed, sent>>
    PROVE  CallInv'
<1>1. callPc'[c] = p /\ \A d \in Callers \ {c} : callPc'[d] = callPc[d]
  BY DEF CallInv, CallTypeOK
<1>2. \A d \in Callers \ {c} : CapacitySeen(d)' <=> CapacitySeen(d)
  BY DEF CapacitySeen, RequiredTokens, PromptTokens
<1>3. \A d \in Callers :
          /\ callPc'[d] \in {"reserve", "identify", "list", "call", "answer"} => CapacitySeen(d)'
          /\ callPc'[d] \in Reserved => reserved'[d] # NoWindow
          /\ callPc'[d] \in {"list", "call"} => pinned'
          /\ callPc'[d] = "call" => listed'
          /\ callPc'[d] # "new" => envelope'[d].effect # "none"
  <2> SUFFICES ASSUME NEW d \in Callers
               PROVE  /\ callPc'[d] \in {"reserve", "identify", "list", "call", "answer"} => CapacitySeen(d)'
                      /\ callPc'[d] \in Reserved => reserved'[d] # NoWindow
                      /\ callPc'[d] \in {"list", "call"} => pinned'
                      /\ callPc'[d] = "call" => listed'
                      /\ callPc'[d] # "new" => envelope'[d].effect # "none"
    OBVIOUS
  <2>1. CASE d = c
    BY <1>1, <2>1 DEF Reserved
  <2>2. CASE d # c
    BY <1>1, <1>2, <2>2 DEF CallInv
  <2>3. QED
    BY <2>1, <2>2
<1>4. \A asked \in sent : asked.by \in Callers /\ asked.by # c
  BY DEF CallInv, CallTypeOK
<1>5. (\A asked \in sent : callPc[asked.by] \in {"answer", "over"})'
  BY <1>1, <1>4 DEF CallInv
<1>6. CallWithinGrant'
  BY <1>4 DEF CallInv, CallWithinGrant, RequiredTokens, PromptTokens
<1>7. QED
  BY <1>3, <1>5, <1>6 DEF CallInv

\* Nothing that the checks of a call need is known later than it is needed.
LEMMA NextCheckFits ==
    ASSUME NEW known \in BOOLEAN, NEW has \in BOOLEAN
    PROVE  /\ NextCheck(known, has) \in {"identify", "list", "call"}
           /\ NextCheck(known, has) \in {"list", "call"} => known
           /\ NextCheck(known, has) = "call" => has
BY DEF NextCheck

LEMMA RequestKeepsInv == ASSUME CallInv, NEW c \in Callers, Request(c) PROVE CallInv'
<1>1. PICK errand \in Errands[c] : envelope' = [envelope EXCEPT ![c] = Envelope(errand, clock + Ttl)]
  BY DEF Request
<1>2. errand.effect \in {"read", "local", "external"} /\ errand.keyed \in BOOLEAN
  BY ErrandsAssumption
<1>3. clock + Ttl \in 0..(MaxClock + Ttl)
  BY RatesAssumption, TokensAssumption DEF CallInv, CallTypeOK
<1>4. /\ Envelope(errand, clock + Ttl) \in [effect : {"none", "read", "local", "external"}, keyed : BOOLEAN,
                                            maxEffects : 0..1, expiresAt : 0..(MaxClock + Ttl)]
      /\ Envelope(errand, clock + Ttl).effect # "none"
  BY <1>2, <1>3 DEF Envelope
<1>5. callPc[c] = "new" /\ callPc' = [callPc EXCEPT ![c] = "read"]
      /\ UNCHANGED <<clock, left, seen, reserved, pinned, listed, sent, result>>
  BY DEF Request, CallGoto
<1>6. CallTypeOK'
  BY <1>1, <1>4, <1>5 DEF CallInv, CallTypeOK
<1>7. envelope'[c].effect # "none" /\ \A d \in Callers \ {c} : envelope'[d] = envelope[d]
  BY <1>1, <1>4 DEF CallInv, CallTypeOK
<1>8. QED
  BY <1>5, <1>6, <1>7, UnsentKeepsInv

LEMMA ReadKeepsInv == ASSUME CallInv, NEW c \in Callers, ReadCapacity(c) PROVE CallInv'
<1>1. callPc[c] = "read" /\ UNCHANGED <<clock, left, envelope, reserved, pinned, listed, sent>>
  BY DEF ReadCapacity
<1>2. CASE Reject(c) /\ UNCHANGED seen
  BY <1>1, <1>2, RejectKeepsInv
<1>3. ASSUME NEW remaining \in {left, Unknown, Malformed},
             seen' = [seen EXCEPT ![c] = [remaining  |-> remaining,
                                          observedAt |-> clock, resetsAt |-> ResetsAt(clock)]],
             callPc' = [callPc EXCEPT ![c] = "evaluate"], result' = result
      PROVE  CallInv'
  <2>1. remaining \in 0..Malformed /\ clock \in 0..MaxClock /\ ResetsAt(clock) \in 0..(MaxClock + WindowLength)
    BY WindowsFit, TokensAssumption DEF CallInv, CallTypeOK, Unknown, Malformed
  <2>2. CallTypeOK'
    BY <1>1, <1>3, <2>1 DEF CallInv, CallTypeOK
  <2>3. \A d \in Callers \ {c} : seen'[d] = seen[d]
    BY <1>3 DEF CallInv, CallTypeOK
  <2>4. QED
    BY <1>1, <1>3, <2>2, <2>3, UnsentKeepsInv DEF CallInv
<1>4. QED
  BY <1>2, <1>3 DEF ReadCapacity, CallGoto

\* evaluateTokenCapacity finds no fault only where the headroom is there.
LEMMA EvaluateKeepsInv == ASSUME CallInv, NEW c \in Callers, Evaluate(c) PROVE CallInv'
<1>1. callPc[c] = "evaluate" /\ UNCHANGED <<clock, left, envelope, seen, reserved, pinned, listed, sent>>
  BY DEF Evaluate
<1>2. CASE Reject(c)
  BY <1>1, <1>2, RejectKeepsInv
<1>3. CASE /\ AvailabilityValid(c) /\ CapacityError(c, clock) = "none"
           /\ callPc' = [callPc EXCEPT ![c] = "reserve"] /\ result' = result
  <2>1. /\ seen[c].remaining # Malformed /\ seen[c].remaining # Unknown
        /\ ~(seen[c].remaining < RequiredTokens(c) + Headroom)
    BY <1>3 DEF AvailabilityValid, CapacityError
  <2>2. seen[c].remaining \in 0..Malformed
    BY DEF CallInv, CallTypeOK
  <2>3. CapacitySeen(c)
    BY <2>1, <2>2, RequiredIsNat, TokensAssumption DEF CapacitySeen, Unknown, Malformed
  <2>4. result' \in [Callers -> Results] /\ pinned \in BOOLEAN /\ listed \in BOOLEAN
    BY <1>3 DEF CallInv, CallTypeOK, Results
  <2>5. QED
    BY <1>1, <1>3, <2>3, <2>4, PlaceKeepsInv DEF Reserved
<1>4. QED
  BY <1>2, <1>3 DEF Evaluate, CallGoto

LEMMA ReserveKeepsInv == ASSUME CallInv, NEW c \in Callers, Reserve(c) PROVE CallInv'
<1>1. callPc[c] = "reserve" /\ UNCHANGED <<clock, envelope, seen, pinned, listed, sent>>
  BY DEF Reserve
<1>2. CASE Reject(c) /\ UNCHANGED <<left, reserved>>
  BY <1>1, <1>2, RejectKeepsInv
<1>3. CASE /\ RequiredTokens(c) <= left /\ left' = left - RequiredTokens(c)
           /\ reserved' = [reserved EXCEPT ![c] = Window(clock)]
           /\ callPc' = [callPc EXCEPT ![c] = NextCheck(pinned, listed)] /\ result' = result
  <2> DEFINE p == NextCheck(pinned, listed)
  <2>1. p \in {"identify", "list", "call"} /\ (p \in {"list", "call"} => pinned) /\ (p = "call" => listed)
    BY NextCheckFits DEF CallInv, CallTypeOK
  <2>2. Window(clock) \in 0..NoWindow /\ Window(clock) # NoWindow
    BY WindowsFit DEF CallInv, CallTypeOK
  <2>3. left' \in 0..WindowTokens
    BY <1>3, RequiredIsNat, TokensAssumption DEF CallInv, CallTypeOK
  <2>4. CapacitySeen(c)' /\ envelope'[c].effect # "none"
    BY <1>1 DEF CallInv, CapacitySeen, RequiredTokens, PromptTokens
  <2> HIDE DEF p
  <2>5. callPc' = [callPc EXCEPT ![c] = p]
    BY <1>3 DEF p
  <2>6. CallTypeOK'
    BY <1>1, <1>3, <2>1, <2>2, <2>3, <2>5 DEF CallInv, CallTypeOK
  <2>7. reserved'[c] # NoWindow /\ \A d \in Callers \ {c} : reserved'[d] = reserved[d]
    BY <1>3, <2>2 DEF CallInv, CallTypeOK
  <2>8. QED
    BY <1>1, <2>1, <2>4, <2>5, <2>6, <2>7, UnsentKeepsInv
<1>4. QED
  BY <1>2, <1>3 DEF Reserve, CallGoto

LEMMA IdentifyKeepsInv == ASSUME CallInv, NEW c \in Callers, Identify(c) PROVE CallInv'
<1>1. callPc[c] = "identify" /\ UNCHANGED <<clock, left, envelope, seen, reserved, listed, sent>>
  BY DEF Identify
<1>2. CASE Reject(c) /\ UNCHANGED pinned
  BY <1>1, <1>2, RejectKeepsInv
<1>3. CASE pinned' = TRUE /\ callPc' = [callPc EXCEPT ![c] = NextCheck(TRUE, listed)] /\ result' = result
  <2> DEFINE p == NextCheck(TRUE, listed)
  <2>1. p \in {"identify", "list", "call"} /\ (p = "call" => listed)
    BY NextCheckFits DEF CallInv, CallTypeOK
  <2>2. result' \in [Callers -> Results] /\ pinned \in BOOLEAN /\ listed \in BOOLEAN
    BY <1>3 DEF CallInv, CallTypeOK, Results
  <2>3. CapacitySeen(c) /\ reserved[c] # NoWindow
    BY <1>1 DEF CallInv, Reserved
  <2> HIDE DEF p
  <2>4. callPc' = [callPc EXCEPT ![c] = p]
    BY <1>3 DEF p
  <2>5. QED
    BY <1>1, <1>3, <2>1, <2>2, <2>3, <2>4, PlaceKeepsInv
<1>4. QED
  BY <1>2, <1>3 DEF Identify, CallGoto

LEMMA ListKeepsInv == ASSUME CallInv, NEW c \in Callers, ListTools(c) PROVE CallInv'
<1>1. callPc[c] = "list" /\ UNCHANGED <<clock, left, envelope, seen, reserved, pinned, sent>>
  BY DEF ListTools
<1>2. CASE Reject(c) /\ UNCHANGED listed
  BY <1>1, <1>2, RejectKeepsInv
<1>3. CASE listed' = TRUE /\ callPc' = [callPc EXCEPT ![c] = "call"] /\ result' = result
  <2>1. result' \in [Callers -> Results] /\ pinned \in BOOLEAN /\ listed \in BOOLEAN
    BY <1>3 DEF CallInv, CallTypeOK, Results
  <2>2. CapacitySeen(c) /\ reserved[c] # NoWindow /\ pinned
    BY <1>1 DEF CallInv, Reserved
  <2>3. QED
    BY <1>1, <1>3, <2>1, <2>2, PlaceKeepsInv
<1>4. QED
  BY <1>2, <1>3 DEF ListTools, CallGoto

\* The one action that sends a call checks the last of what it needs, and every
\* await before it has left the rest.
LEMMA CallToolKeepsInv == ASSUME CallInv, NEW c \in Callers, CallTool(c) PROVE CallInv'
<1>1. callPc[c] = "call" /\ UNCHANGED <<clock, left, envelope, seen, reserved, pinned, listed>>
  BY DEF CallTool
<1>2. CASE Reject(c) /\ UNCHANGED sent
  BY <1>1, <1>2, RejectKeepsInv
<1>3. CASE /\ EnvelopeValid(c) /\ callPc' = [callPc EXCEPT ![c] = "answer"] /\ result' = result
           /\ sent' = sent \cup {[by |-> c, at |-> clock, pinned |-> pinned, listed |-> listed]}
  <2> DEFINE new == [by |-> c, at |-> clock, pinned |-> pinned, listed |-> listed]
  <2>1. new \in [by : Callers, at : 0..MaxClock, pinned : BOOLEAN, listed : BOOLEAN]
    BY DEF CallInv, CallTypeOK
  <2>2. CallTypeOK'
    BY <1>1, <1>3, <2>1 DEF CallInv, CallTypeOK
  <2>3. callPc'[c] = "answer" /\ \A d \in Callers \ {c} : callPc'[d] = callPc[d]
    BY <1>3 DEF CallInv, CallTypeOK
  <2>4. \A d \in Callers : CapacitySeen(d)' <=> CapacitySeen(d)
    BY <1>1 DEF CapacitySeen, RequiredTokens, PromptTokens
  <2>5. CapacitySeen(c) /\ reserved[c] # NoWindow /\ pinned /\ listed /\ envelope[c].effect # "none"
    BY <1>1 DEF CallInv, Reserved
  <2>6. \A d \in Callers :
            /\ callPc'[d] \in {"reserve", "identify", "list", "call", "answer"} => CapacitySeen(d)'
            /\ callPc'[d] \in Reserved => reserved'[d] # NoWindow
            /\ callPc'[d] \in {"list", "call"} => pinned'
            /\ callPc'[d] = "call" => listed'
            /\ callPc'[d] # "new" => envelope'[d].effect # "none"
    BY <1>1, <2>3, <2>4, <2>5 DEF CallInv
  <2>7. \A asked \in sent' : callPc'[asked.by] \in {"answer", "over"}
    BY <1>3, <2>3 DEF CallInv, CallTypeOK
  <2>8. CallWithinGrant'
    <3>1. /\ clock < envelope[c].expiresAt
          /\ envelope[c].effect = "external" => envelope[c].keyed
      BY <1>3 DEF EnvelopeValid, CallInv, CallTypeOK
    <3>2. \A asked \in sent' :
              /\ asked.at < envelope[asked.by].expiresAt
              /\ envelope[asked.by].effect = "external" => envelope[asked.by].keyed
              /\ asked.pinned /\ asked.listed /\ reserved[asked.by] # NoWindow
              /\ seen[asked.by].remaining \in 0..WindowTokens
              /\ seen[asked.by].remaining >= RequiredTokens(asked.by) + Headroom
      <4>1. \A asked \in sent' : asked \in sent \/ asked = new
        BY <1>3
      <4>2. /\ new.at < envelope[new.by].expiresAt
            /\ envelope[new.by].effect = "external" => envelope[new.by].keyed
            /\ new.pinned /\ new.listed /\ reserved[new.by] # NoWindow
            /\ seen[new.by].remaining \in 0..WindowTokens
            /\ seen[new.by].remaining >= RequiredTokens(new.by) + Headroom
        BY <2>5, <3>1 DEF CapacitySeen
      <4>3. QED
        BY <4>1, <4>2 DEF CallInv, CallWithinGrant
    <3>3. QED
      BY <1>1, <3>2 DEF CallWithinGrant, RequiredTokens, PromptTokens
  <2>9. QED
    BY <2>2, <2>6, <2>7, <2>8 DEF CallInv
<1>4. QED
  BY <1>2, <1>3 DEF CallTool, CallGoto

LEMMA AnsweredKeepsInv == ASSUME CallInv, NEW c \in Callers, CallAnswered(c) PROVE CallInv'
<1>1. callPc[c] = "answer" /\ UNCHANGED <<clock, left, envelope, seen, reserved, pinned, listed, sent>>
  BY DEF CallAnswered
<1>2. CASE Reject(c)
  BY <1>1, <1>2, RejectKeepsInv
<1>3. ASSUME NEW x \in Results, result' = [result EXCEPT ![c] = x], callPc' = [callPc EXCEPT ![c] = "over"]
      PROVE  CallInv'
  <2>1. result' \in [Callers -> Results] /\ pinned \in BOOLEAN /\ listed \in BOOLEAN
    BY <1>3 DEF CallInv, CallTypeOK, Results
  <2>2. QED
    BY <1>1, <1>3, <2>1, PlaceKeepsInv DEF Reserved
<1>4. \A cost \in 0..(Ceiling + 1) : [status |-> "provider-reported", cost |-> cost] \in Results
  BY DEF Results
<1>5. [status |-> "reserved-ceiling", cost |-> Ceiling] \in Results
  BY TokensAssumption DEF Results
<1>6. QED
  BY <1>2, <1>3, <1>4, <1>5 DEF CallAnswered, CallGoto

LEMMA TimeKeepsInv == ASSUME CallInv, PassTime PROVE CallInv'
<1>1. /\ clock' \in 0..MaxClock /\ left' \in 0..WindowTokens
      /\ UNCHANGED <<callPc, envelope, seen, reserved, pinned, listed, sent, result>>
  BY TokensAssumption DEF PassTime, CallInv, CallTypeOK
<1>2. \A d \in Callers : CapacitySeen(d)' <=> CapacitySeen(d)
  BY <1>1 DEF CapacitySeen, RequiredTokens, PromptTokens
<1>3. CallTypeOK'
  BY <1>1 DEF CallInv, CallTypeOK
<1>4. CallWithinGrant'
  BY <1>1 DEF CallInv, CallWithinGrant, RequiredTokens, PromptTokens
<1>5. QED
  BY <1>1, <1>2, <1>3, <1>4 DEF CallInv

LEMMA CallNextInv == CallInv /\ [CallNext]_callVars => CallInv'
<1> SUFFICES ASSUME CallInv, [CallNext]_callVars PROVE CallInv'
  OBVIOUS
<1>1. ASSUME NEW c \in Callers, Request(c) PROVE CallInv'
  BY <1>1, RequestKeepsInv
<1>2. ASSUME NEW c \in Callers, ReadCapacity(c) PROVE CallInv'
  BY <1>2, ReadKeepsInv
<1>3. ASSUME NEW c \in Callers, Evaluate(c) PROVE CallInv'
  BY <1>3, EvaluateKeepsInv
<1>4. ASSUME NEW c \in Callers, Reserve(c) PROVE CallInv'
  BY <1>4, ReserveKeepsInv
<1>5. ASSUME NEW c \in Callers, Identify(c) PROVE CallInv'
  BY <1>5, IdentifyKeepsInv
<1>6. ASSUME NEW c \in Callers, ListTools(c) PROVE CallInv'
  BY <1>6, ListKeepsInv
<1>7. ASSUME NEW c \in Callers, CallTool(c) PROVE CallInv'
  BY <1>7, CallToolKeepsInv
<1>8. ASSUME NEW c \in Callers, CallAnswered(c) PROVE CallInv'
  BY <1>8, AnsweredKeepsInv
<1>9. CASE PassTime
  BY <1>9, TimeKeepsInv
<1>10. CASE UNCHANGED callVars
  <2>1. CallTypeOK' /\ CallWithinGrant' /\ \A d \in Callers : CapacitySeen(d)' <=> CapacitySeen(d)
    BY <1>10 DEF callVars, CallInv, CallTypeOK, CallWithinGrant, CapacitySeen, RequiredTokens, PromptTokens
  <2>2. QED
    BY <1>10, <2>1 DEF callVars, CallInv
<1>11. QED
  BY <1>1, <1>2, <1>3, <1>4, <1>5, <1>6, <1>7, <1>8, <1>9, <1>10 DEF CallNext

LEMMA CallInvariant == CallSpec => []CallInv
BY CallInitInv, CallNextInv, PTL DEF CallSpec

\* The variables of a provider call keep their types: the account is never
\* overdrawn, and no envelope is issued for longer than its ttl.
THEOREM CallTypes == CallSpec => []CallTypeOK
<1>1. CallInv => CallTypeOK
  BY DEF CallInv
<1>2. QED
  BY <1>1, CallInvariant, PTL

\* withTokenCapacityGate and mcpAdapter: a call reaches the provider only
\* within its envelope, with a key if its effect is external, to a server that
\* was identified and advertised the tool, and with a reservation made on a
\* reading that left the headroom, however long each await took and whatever
\* the callers beside it did.
THEOREM CallsKeepWithinGrant == CallSpec => []CallWithinGrant
<1>1. CallInv => CallWithinGrant
  BY DEF CallInv
<1>2. QED
  BY <1>1, CallInvariant, PTL

----------------------------------------------------------------------------
\* ContinuationGate: a decision is about the version, the reviews and the forks
\* it was taken on, and none of them changes while it stands.
VersionsOf == [workflow : Workflows, floor : GateFloors]
Recorded   == {[role |-> r.role, status |-> r.status, findings |-> r.findings, version |-> v] :
                  r \in Reviews, v \in VersionsOf}
Decisions  == {"none", "rejected", "ESCALATE_OWNER", "CONTINUE_MAIN", "WAIT_OWNER", "CONTINUE_FORK"}

\* There is a fork for a version at most, of half its floor's budget or one unit.
ForksFit ==
    \A f \in forks : /\ f.version \in VersionsOf /\ f.budget \in Nat \ {0}
                     /\ 2 * f.budget <= f.version.floor.maxCost \/ f.budget = 1
                     /\ \A g \in forks : g.version = f.version => g = f

GateInv ==
    /\ version \in VersionsOf /\ reviews \in Seq(Recorded) /\ edits \in 0..MaxEdits
    /\ answer.decision \in Decisions
    /\ ForksFit
    /\ answer # Unasked => answer.decision # "none"
    /\ ContinuationSound

About(role) == {i \in DOMAIN reviews : reviews[i].role = role}

\* What ContinuationSound asks of the reviews.
Reviewed ==
    /\ \A role \in Roles : Cardinality(About(role)) = 1
    /\ \A i \in DOMAIN reviews : /\ reviews[i].role \in Roles /\ reviews[i].version = version
                                 /\ reviews[i].status = "PASS" /\ ~reviews[i].findings

\* The gate finds nothing to hold against the reviews only when there is one
\* for each role, it passed, and it is of this version.
LEMMA PassingIsReviewed ==
    ASSUME reviews \in Seq(Recorded), \A i \in DOMAIN reviews : ReviewValid(reviews[i]), GatePasses
    PROVE  Reviewed
<1>1. DOMAIN reviews \subseteq Nat /\ \A i \in DOMAIN reviews : reviews[i].findings \in BOOLEAN
  BY GateAssumption DEF Recorded
<1>2. ASSUME NEW role \in Roles PROVE Cardinality(About(role)) = 1
  <2>1. PICK i \in DOMAIN reviews : reviews[i].role = role
    BY DEF GatePasses, MissingRoles
  <2>2. ASSUME NEW j \in DOMAIN reviews, NEW k \in DOMAIN reviews,
               reviews[j].role = reviews[k].role, k < j
        PROVE  FALSE
    <3>1. k \in 1..(j - 1)
      BY <1>1, <2>2
    <3>2. j \in {x \in DOMAIN reviews : \E y \in 1..(x - 1) : reviews[y].role = reviews[x].role}
      BY <2>2, <3>1
    <3>3. reviews[j].role \in DuplicateRoles
      BY <3>2 DEF DuplicateRoles
    <3>4. QED
      BY <3>3 DEF GatePasses
  <2>3. \A j \in About(role) : j = i
    <3> SUFFICES ASSUME NEW j \in DOMAIN reviews, reviews[j].role = role, j # i PROVE FALSE
      BY DEF About
    <3>1. j < i \/ i < j
      BY <1>1
    <3>2. QED
      BY <2>1, <2>2, <3>1
  <2>4. About(role) = {i}
    BY <2>1, <2>3 DEF About
  <2>5. QED
    BY <2>4, FS_Singleton
<1>3. ASSUME NEW i \in DOMAIN reviews
      PROVE  /\ reviews[i].role \in Roles /\ reviews[i].version = version
             /\ reviews[i].status = "PASS" /\ ~reviews[i].findings
  <2>1. i \in {j \in DOMAIN reviews : reviews[j].version # version} => FALSE
    BY DEF GatePasses, StaleRoles
  <2>2. i \in {j \in DOMAIN reviews : reviews[j].status # "PASS"} => FALSE
    BY DEF GatePasses, FailedRoles
  <2>3. ReviewValid(reviews[i])
    OBVIOUS
  <2>4. QED
    BY <1>1, <2>1, <2>2, <2>3 DEF ReviewValid
<1>4. QED
  BY <1>2, <1>3 DEF Reviewed

LEMMA ReviewedIsPassing ==
    ASSUME reviews \in Seq(Recorded), Reviewed
    PROVE  GatePasses /\ \A i \in DOMAIN reviews : ReviewValid(reviews[i])
<1>1. DOMAIN reviews = 1..Len(reviews) /\ Len(reviews) \in Nat
  OBVIOUS
<1>2. \A i \in DOMAIN reviews : ReviewValid(reviews[i])
  BY DEF Reviewed, ReviewValid
<1>3. \A role \in Roles : \E i : About(role) = {i}
  <2> SUFFICES ASSUME NEW role \in Roles PROVE \E i : About(role) = {i}
    OBVIOUS
  <2>1. IsFiniteSet(About(role))
    <3>1. IsFiniteSet(1..Len(reviews))
      BY <1>1, FS_Interval
    <3>2. About(role) \subseteq 1..Len(reviews)
      BY <1>1 DEF About
    <3>3. QED
      BY <3>1, <3>2, FS_Subset
  <2>2. QED
    BY <2>1, FS_Singleton DEF Reviewed
<1>4. MissingRoles = {}
  BY <1>3 DEF MissingRoles, About
<1>5. DuplicateRoles = {}
  <2> SUFFICES ASSUME NEW j \in DOMAIN reviews, NEW k \in 1..(j - 1), reviews[k].role = reviews[j].role PROVE FALSE
    BY DEF DuplicateRoles
  <2>1. k \in DOMAIN reviews /\ k # j /\ reviews[j].role \in Roles
    BY <1>1 DEF Reviewed
  <2>2. k \in About(reviews[j].role) /\ j \in About(reviews[j].role)
    BY <2>1 DEF About
  <2>3. QED
    BY <1>3, <2>1, <2>2
<1>6. StaleRoles = {} /\ FailedRoles = {}
  BY DEF StaleRoles, FailedRoles, Reviewed
<1>7. QED
  BY <1>2, <1>4, <1>5, <1>6 DEF GatePasses

\* ContinuationSound, with its parts named.
SoundFor(rev, v, fs, a) ==
    /\ a.decision \in {"CONTINUE_MAIN", "WAIT_OWNER", "CONTINUE_FORK"} => rev
    /\ a.decision \in {"CONTINUE_MAIN", "CONTINUE_FORK"} =>
          a.class \in {"A", "B"} /\ Cost[a.tier] <= v.floor.maxCost
    /\ a.decision = "CONTINUE_FORK" => /\ ~a.owner /\ a.due /\ v.floor.localOnly
                                       /\ a.tier = "economy" /\ \E f \in fs : f.version = v
    /\ a.decision # "none" /\ rev /\ a.class \in {"A", "B"} =>
          /\ a.owner /\ Cost[a.asked] <= v.floor.maxCost => a.decision = "CONTINUE_MAIN"
          /\ ~a.owner /\ a.due /\ v.floor.localOnly => a.decision = "CONTINUE_FORK"

LEMMA SoundParts ==
    ForksFit => (ContinuationSound <=> SoundFor(Reviewed, version, forks, answer))
BY DEF ContinuationSound, SoundFor, Reviewed, About, ForksFit

LEMMA GateInitInv == GateInit => GateInv
<1> SUFFICES ASSUME GateInit PROVE GateInv
  OBVIOUS
<1> USE GateAssumption
<1>1. version \in VersionsOf
  <2>1. (CHOOSE w \in Workflows : TRUE) \in Workflows
    OBVIOUS
  <2>2. QED
    BY <2>1 DEF GateInit, VersionsOf
<1>2. ForksFit /\ answer = Unasked /\ reviews \in Seq(Recorded) /\ edits \in 0..MaxEdits
  BY DEF GateInit, ForksFit
<1>3. SoundFor(Reviewed, version, forks, answer)
  BY <1>2 DEF SoundFor, Unasked
<1>4. QED
  BY <1>1, <1>2, <1>3, SoundParts DEF GateInv, Unasked, Decisions

\* A fork has half its floor's budget, and no less than the lowest tier costs.
LEMMA ForkOfFits ==
    ASSUME ForksFit, version \in VersionsOf
    PROVE  /\ ForkOf(version).version = version /\ ForkOf(version).budget \in Nat \ {0}
           /\ 2 * ForkOf(version).budget <= version.floor.maxCost \/ ForkOf(version).budget = 1
           /\ \A f \in forks : f.version = version => f = ForkOf(version)
<1> DEFINE existing == {f \in forks : f.version = version}
<1> DEFINE half == version.floor.maxCost \div 2
<1>1. version.floor.maxCost \in Nat
  BY GateAssumption DEF VersionsOf
<1>2. half \in Nat /\ 2 * half <= version.floor.maxCost
  BY <1>1
<1>3. CASE existing # {}
  <2>1. ForkOf(version) = CHOOSE f \in existing : TRUE
    BY <1>3 DEF ForkOf
  <2>2. ForkOf(version) \in existing
    BY <1>3, <2>1
  <2>3. QED
    BY <2>2 DEF ForksFit
<1>4. CASE existing = {}
  <2>1. ForkOf(version) = [version |-> version, budget |-> IF half > 1 THEN half ELSE 1]
    BY <1>4 DEF ForkOf
  <2>2. QED
    BY <1>2, <1>4, <2>1
<1>5. QED
  BY <1>3, <1>4

LEMMA CostsKnown ==
    /\ \A t \in Tiers : Cost[t] \in Nat
    /\ Cost["economy"] = 1 /\ "economy" \in Tiers
BY DEF Tiers, Cost

Unavailable == {"HUMAN_FLOOR_REQUIRED", "MODEL_BUDGET_EXCEEDED"}

\* What ContinuationSound promises of a decision when it is taken.
DecisionFits(o, owner, due, class, tier) ==
    /\ o.decision \in Decisions \ {"none"}
    /\ o.decision \in {"CONTINUE_MAIN", "WAIT_OWNER", "CONTINUE_FORK"} => Reviewed
    /\ o.decision \in {"CONTINUE_MAIN", "CONTINUE_FORK"} =>
           class \in {"A", "B"} /\ Cost[o.tier] <= version.floor.maxCost
    /\ o.decision = "CONTINUE_FORK" => ~owner /\ due /\ version.floor.localOnly /\ o.tier = "economy"
    /\ Reviewed /\ class \in {"A", "B"} =>
           /\ owner /\ Cost[tier] <= version.floor.maxCost => o.decision = "CONTINUE_MAIN"
           /\ ~owner /\ due /\ version.floor.localOnly => o.decision = "CONTINUE_FORK"

\* The paths of decideContinuation.
LEMMA DecisionMeans ==
    ASSUME version \in VersionsOf, ForksFit, reviews \in Seq(Recorded),
           NEW owner \in BOOLEAN, NEW due \in BOOLEAN, NEW class \in Classes, NEW tier \in Tiers
    PROVE  DecisionFits(DecisionOn(owner, due, class, tier), owner, due, class, tier)
<1> DEFINE o == DecisionOn(owner, due, class, tier)
<1> DEFINE max == version.floor.maxCost
<1> DEFINE main == SelectTier(class, tier, FALSE, max)
<1> DEFINE fork == SelectTier(class, tier, TRUE, ForkOf(version).budget)
<1>1. max \in Nat \ {0} /\ version.floor.localOnly \in BOOLEAN
  BY GateAssumption DEF VersionsOf
<1>2. tier \notin Unavailable /\ "economy" \notin Unavailable
  BY DEF Tiers, Unavailable
<1>3. class \in {"A", "B"} <=> class \notin {"C", "D"}
  BY GateAssumption
<1>4. /\ main \notin Unavailable <=> class \in {"A", "B"} /\ Cost[tier] <= max
      /\ main \notin Unavailable => main = tier
  <2>1. ~(Cost[tier] > max) <=> Cost[tier] <= max
    BY <1>1, CostsKnown
  <2>2. QED
    BY <1>2, <1>3, <2>1 DEF SelectTier, Unavailable
<1>5. /\ fork \notin Unavailable <=> class \in {"A", "B"}
      /\ fork \notin Unavailable => fork = "economy"
  <2>1. ~(Cost["economy"] > ForkOf(version).budget)
    BY ForkOfFits, CostsKnown
  <2>2. QED
    BY <1>2, <1>3, <2>1 DEF SelectTier, Unavailable
<1>6. Cost["economy"] <= max
  BY <1>1, CostsKnown
<1>7. CASE \E i \in DOMAIN reviews : ~ReviewValid(reviews[i])
  <2>1. o = Resting("rejected", "none")
    BY <1>7 DEF DecisionOn
  <2>2. ~Reviewed
    BY <1>7, ReviewedIsPassing
  <2>3. QED
    BY <2>1, <2>2 DEF Resting, Decisions, DecisionFits, Unavailable
<1>8. CASE (\A i \in DOMAIN reviews : ReviewValid(reviews[i])) /\ ~GatePasses
  <2>1. o = Resting("ESCALATE_OWNER", "none")
    BY <1>8 DEF DecisionOn
  <2>2. ~Reviewed
    BY <1>8, ReviewedIsPassing
  <2>3. o.decision = "ESCALATE_OWNER"
    BY <2>1 DEF Resting
  <2> HIDE DEF o
  <2>4. DecisionFits(o, owner, due, class, tier)
    BY <2>2, <2>3 DEF Decisions, DecisionFits
  <2>5. QED
    BY <2>4 DEF o
<1>9. CASE (\A i \in DOMAIN reviews : ReviewValid(reviews[i])) /\ GatePasses
  <2> HIDE DEF main, fork
  <2>1. Reviewed
    BY <1>9, PassingIsReviewed
  <2>2. CASE owner
    <3>1. o = Resting("CONTINUE_MAIN", main)
      BY <1>9, <2>2 DEF DecisionOn, main
    <3>2. /\ o.tier = main /\ o.decision \in {"ESCALATE_OWNER", "rejected", "CONTINUE_MAIN"}
          /\ o.decision = "CONTINUE_MAIN" <=> main \notin Unavailable
      BY <3>1 DEF Resting, Unavailable
    <3> HIDE DEF o
    <3>3. DecisionFits(o, owner, due, class, tier)
      BY <1>4, <2>1, <2>2, <3>2 DEF Decisions, DecisionFits
    <3>4. QED
      BY <3>3 DEF o
  <2>3. CASE ~owner /\ ~due
    <3>1. o = Resting("WAIT_OWNER", "none")
      BY <1>9, <2>3 DEF DecisionOn
    <3>2. o.decision = "WAIT_OWNER"
      BY <3>1 DEF Resting
    <3> HIDE DEF o
    <3>3. DecisionFits(o, owner, due, class, tier)
      BY <2>1, <2>3, <3>2 DEF Decisions, DecisionFits
    <3>4. QED
      BY <3>3 DEF o
  <2>4. CASE ~owner /\ due /\ class \in {"C", "D"}
    <3>1. o = Resting("ESCALATE_OWNER", main)
      BY <1>9, <2>4 DEF DecisionOn, main
    <3>2. o.decision \in {"ESCALATE_OWNER", "rejected"}
      BY <3>1 DEF Resting
    <3>3. QED
      BY <1>3, <2>4, <3>2 DEF Decisions, DecisionFits
  <2>5. CASE ~owner /\ due /\ class \notin {"C", "D"} /\ ~version.floor.localOnly
    <3>1. o = Resting("rejected", "none")
      BY <1>9, <2>5 DEF DecisionOn
    <3>2. o.decision = "rejected"
      BY <3>1 DEF Resting
    <3> HIDE DEF o
    <3>3. DecisionFits(o, owner, due, class, tier)
      BY <2>5, <3>2 DEF Decisions, DecisionFits
    <3>4. QED
      BY <3>3 DEF o
  <2>6. CASE ~owner /\ due /\ class \notin {"C", "D"} /\ version.floor.localOnly
    <3>1. o = Resting("CONTINUE_FORK", fork)
      BY <1>9, <2>6 DEF DecisionOn, fork
    <3>2. fork = "economy"
      BY <1>3, <1>5, <2>6
    <3>3. o.decision = "CONTINUE_FORK" /\ o.tier = "economy"
      BY <3>1, <3>2 DEF Resting
    <3>4. QED
      BY <1>3, <1>6, <2>1, <2>6, <3>3 DEF Decisions, DecisionFits
  <2>7. QED
    BY <2>2, <2>3, <2>4, <2>5, <2>6
<1>10. QED
  BY <1>7, <1>8, <1>9

\* ContinuationGate's steps.  A decision is taken when none stands, and every
\* step that changes what it was about takes it back.
LEMMA AskKeepsInv ==
    ASSUME GateInv, NEW owner \in BOOLEAN, NEW due \in BOOLEAN, NEW class \in Classes, NEW tier \in Tiers,
           Ask(owner, due, class, tier)
    PROVE  GateInv'
<1> DEFINE o == DecisionOn(owner, due, class, tier)
<1>1. version \in VersionsOf /\ reviews \in Seq(Recorded) /\ ForksFit /\ edits \in 0..MaxEdits
  BY DEF GateInv
<1>2. DecisionFits(o, owner, due, class, tier)
  BY <1>1, DecisionMeans
<1> HIDE DEF o
<1>3. /\ answer' = [decision |-> o.decision, tier |-> o.tier,
                    owner |-> owner, due |-> due, class |-> class, asked |-> tier]
      /\ forks' = IF o.decision = "CONTINUE_FORK" THEN forks \cup {ForkOf(version)} ELSE forks
      /\ version' = version /\ reviews' = reviews /\ edits' = edits
  BY DEF Ask, o
<1>4. ForksFit'
  <2>1. CASE o.decision # "CONTINUE_FORK"
    BY <1>1, <1>3, <2>1 DEF ForksFit
  <2>2. CASE o.decision = "CONTINUE_FORK"
    <3> DEFINE new == ForkOf(version)
    <3>1. /\ new.version = version /\ new.budget \in Nat \ {0}
          /\ 2 * new.budget <= version.floor.maxCost \/ new.budget = 1
          /\ \A f \in forks : f.version = version => f = new
      BY <1>1, ForkOfFits
    <3>2. forks' = forks \cup {new}
      BY <1>3, <2>2
    <3> HIDE DEF new
    <3>3. QED
      BY <1>1, <3>1, <3>2 DEF ForksFit
  <2>3. QED
    BY <2>1, <2>2
<1>5. o.decision = "CONTINUE_FORK" => \E f \in forks' : f.version = version
  BY <1>1, <1>3, ForkOfFits
<1>6. Reviewed' <=> Reviewed
  BY <1>3 DEF Reviewed, About
<1>7. SoundFor(Reviewed', version', forks', answer')
  <2>1. /\ answer'.decision = o.decision /\ answer'.tier = o.tier /\ answer'.owner = owner
        /\ answer'.due = due /\ answer'.class = class /\ answer'.asked = tier
    BY <1>3
  <2>2. /\ o.decision \in {"CONTINUE_MAIN", "WAIT_OWNER", "CONTINUE_FORK"} => Reviewed'
        /\ Reviewed' => Reviewed
    BY <1>2, <1>6 DEF DecisionFits
  <2>3. version' = version
    BY <1>3
  <2> HIDE DEF Reviewed
  <2>4. QED
    BY <1>2, <1>5, <2>1, <2>2, <2>3 DEF SoundFor, DecisionFits
<1>8. ContinuationSound'
  BY <1>4, <1>7 DEF ContinuationSound, SoundFor, Reviewed, About, ForksFit
<1>9. answer'.decision \in Decisions \ {"none"}
  BY <1>2, <1>3 DEF DecisionFits
<1>10. QED
  BY <1>1, <1>3, <1>4, <1>8, <1>9 DEF GateInv

\* With no decision standing, only the forks are to be shown right.
LEMMA WithdrawnKeepsInv ==
    ASSUME GateInv, answer' = Unasked, forks' = forks, version' \in VersionsOf,
           reviews' \in Seq(Recorded), edits' \in 0..MaxEdits
    PROVE  GateInv'
<1>1. ForksFit'
  BY DEF GateInv, ForksFit
<1>2. ContinuationSound'
  <2>1. answer'.decision = "none"
    BY DEF Unasked
  <2>2. QED
    BY <1>1, <2>1 DEF ForksFit, ContinuationSound
<1>3. answer'.decision \in Decisions
  BY DEF Unasked, Decisions
<1>4. QED
  BY <1>1, <1>2, <1>3 DEF GateInv

LEMMA GateNextInv == GateInv /\ [GateNext]_gateVars => GateInv'
<1> SUFFICES ASSUME GateInv, [GateNext]_gateVars PROVE GateInv'
  OBVIOUS
<1>1. version \in VersionsOf /\ reviews \in Seq(Recorded) /\ edits \in 0..MaxEdits
  BY DEF GateInv
<1>2. ASSUME NEW owner \in BOOLEAN, NEW due \in BOOLEAN, NEW class \in Classes, NEW tier \in Tiers,
             Ask(owner, due, class, tier)
      PROVE  GateInv'
  BY <1>2, AskKeepsInv
<1>3. CASE CarriedOut
  BY <1>1, <1>3, WithdrawnKeepsInv DEF CarriedOut
<1>4. ASSUME NEW r \in Reviews, Review(r) PROVE GateInv'
  <2> DEFINE e == [role |-> r.role, status |-> r.status, findings |-> r.findings, version |-> version]
  <2>1. e \in Recorded
    BY <1>1 DEF Recorded
  <2>2. reviews' = Append(reviews, e)
    BY <1>4 DEF Review
  <2> HIDE DEF e
  <2>3. reviews' \in Seq(Recorded)
    BY <1>1, <2>1, <2>2
  <2>4. answer' = Unasked /\ forks' = forks /\ version' = version /\ edits' = edits
    BY <1>4 DEF Review
  <2>5. QED
    BY <1>1, <2>3, <2>4, WithdrawnKeepsInv
<1>5. ASSUME NEW w \in Workflows, NEW f \in GateFloors, Replace(w, f) PROVE GateInv'
  <2>1. version' \in VersionsOf
    BY <1>5 DEF Replace, VersionsOf
  <2>2. reviews' \in Seq(Recorded)
    <3>1. <<>> \in Seq(Recorded)
      OBVIOUS
    <3>2. reviews' = reviews \/ reviews' = <<>>
      BY <1>5 DEF Replace
    <3>3. QED
      BY <1>1, <3>1, <3>2, Zenon
  <2>3. edits' \in 0..MaxEdits
    BY <1>1, <1>5, GateAssumption DEF Replace
  <2>4. answer' = Unasked /\ forks' = forks
    BY <1>5 DEF Replace
  <2>5. QED
    BY <2>1, <2>2, <2>3, <2>4, WithdrawnKeepsInv
<1>6. CASE UNCHANGED gateVars
  <2>1. /\ version' = version /\ reviews' = reviews /\ edits' = edits
        /\ answer' = answer /\ forks' = forks
    BY <1>6 DEF gateVars
  <2>2. ForksFit'
    BY <2>1 DEF GateInv, ForksFit
  <2>3. ContinuationSound'
    BY <2>1 DEF GateInv, ContinuationSound
  <2>4. QED
    BY <2>1, <2>2, <2>3 DEF GateInv
<1>7. QED
  BY <1>2, <1>3, <1>4, <1>5, <1>6 DEF GateNext

LEMMA GateInvariant == GateSpec => []GateInv
BY GateInitInv, GateNextInv, PTL DEF GateSpec

\* The version and what is recorded of it keep their types.
THEOREM GateTypes == GateSpec => []GateTypeOK
<1>1. GateInv => GateTypeOK
  BY DEF GateInv, GateTypeOK, VersionsOf, Recorded, Decisions
<1>2. QED
  BY <1>1, GateInvariant, PTL

\* decideContinuation: work goes on only with one passing review of each role
\* of the very version decided on and no other review, within the floor, as a
\* fork only when the wait is over; there is one fork for a version; and
\* reviewed work that fits does go on.
THEOREM ContinuationIsSound == GateSpec => []ContinuationSound
<1>1. GateInv => ContinuationSound
  BY DEF GateInv
<1>2. QED
  BY <1>1, GateInvariant, PTL

----------------------------------------------------------------------------
\* MCControl: a behaviour is one part's, and the other parts stand where they
\* started, or, for the steps, where they are over.
LEMMA WorkOverInv == WorkOver => WorkInv
<1> SUFFICES ASSUME WorkOver PROVE WorkInv
  OBVIOUS
<1>1. 0 \in 0..MaxStops /\ 1 \in 0..TryLimit
  BY LimitAssumption
<1>2. "COMPLETED" \in States
  <2>1. <<"SUCCEEDED", "COMPLETE", "COMPLETED">> \in Transitions
    BY DEF Transitions
  <2>2. QED
    BY <2>1 DEF States
<1>3. /\ \A s \in Work : state[s] = "COMPLETED" /\ tries[s] = 1 /\ applied[s] = 1 /\ call[s] = "none"
      /\ late = {}
  BY DEF WorkOver
<1>4. WorkTypeOK
  <2>1. state \in [Work -> States] /\ tries \in [Work -> 0..TryLimit] /\ applied \in [Work -> 0..TryLimit]
    BY <1>1, <1>2 DEF WorkOver
  <2>2. QED
    BY <1>1, <2>1 DEF WorkOver, WorkTypeOK
<1>5. \A s \in Work : StepInv(s)
  BY <1>3 DEF StepInv, TriesFit, TriedOnce, Counted, Outstanding, KeyedOnce, ResultIsApplied
<1>6. QED
  BY <1>4, <1>5 DEF WorkInv

PartsInv == CompilerInv /\ GateInv /\ WorkInv /\ CallInv

LEMMA PartsInitInv == ControlInit => PartsInv
<1> SUFFICES ASSUME ControlInit PROVE PartsInv
  OBVIOUS
<1>1. CompilerInit /\ GateInit /\ CallInit /\ (WorkInit \/ WorkOver)
  BY DEF ControlInit
<1>2. QED
  BY <1>1, CompilerInitInv, GateInitInv, CallInitInv, WorkInitInv, WorkOverInv DEF PartsInv

LEMMA PartsNextInv == PartsInv /\ [ControlNext]_controlVars => PartsInv'
<1> SUFFICES ASSUME PartsInv, [ControlNext]_controlVars PROVE PartsInv'
  OBVIOUS
<1>1. [CompilerNext]_compilerVars /\ [GateNext]_gateVars /\ [WorkNext]_workVars /\ [CallNext]_callVars
  BY DEF ControlNext, controlVars
<1>2. QED
  BY <1>1, CompilerNextInv, GateNextInv, WorkNextInv, CallNextInv DEF PartsInv

LEMMA PartsInvariant == ControlSpec => []PartsInv
BY PartsInitInv, PartsNextInv, PTL DEF ControlSpec

\* The variables of the four parts keep their types.
THEOREM ControlTyped == ControlSpec => []ControlTypeOK
<1>1. PartsInv => CompilerTypeOK /\ WorkTypeOK /\ CallTypeOK
  BY DEF PartsInv, CompilerInv, WorkInv, CallInv
<1>2. PartsInv => GateTypeOK
  BY DEF PartsInv, GateInv, GateTypeOK, VersionsOf, Recorded, Decisions
<1>3. PartsInv => ControlTypeOK
  BY <1>1, <1>2 DEF ControlTypeOK
<1>4. QED
  BY <1>3, PartsInvariant, PTL

\* The four promises hold together in what the run of MCControl checks.
THEOREM ControlIsSound ==
    ControlSpec => [](CompiledSound /\ ContinuationSound /\ EffectsAccounted /\ CallWithinGrant)
<1>1. PartsInv => ContinuationSound /\ CallWithinGrant
  BY DEF PartsInv, GateInv, CallInv
<1>2. PartsInv => EffectsAccounted /\ CompiledSound
  BY CountsAccount, InvIsSound DEF PartsInv
<1>3. QED
  BY <1>1, <1>2, PartsInvariant, PTL

==============================================================================

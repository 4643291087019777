------------------------------ MODULE RunSummary ------------------------------
(***************************************************************************)
(* summarizeEvents (observability.mjs): what an operator is shown of a run *)
(* is a fold over the events its attempts have appended, here of the one   *)
(* run of Executor.  Of a failure it is shown that there is one; times and *)
(* providers are left out.                                                 *)
(***************************************************************************)
EXTENDS Executor

NoSummary == [status |-> "unknown", waitingFor |-> 0, completed |-> 0, spent |-> 0, reserved |-> 0,
              failure |-> FALSE]

\* Mutant of Absorb: a resumption does not end the wait for an approval.
Absorb_KeepsWaiting(r, e) ==
    CASE e.type \in {"run.started", "run.resumed"} -> [r EXCEPT !.status = "running"]
      [] e.type = "run.awaiting-approval" -> [r EXCEPT !.status = "awaiting_approval", !.waitingFor = e.step]
      [] e.type = "run.completed" -> [r EXCEPT !.status = "completed", !.waitingFor = 0]
      [] e.type = "run.failed" -> [r EXCEPT !.status = "failed", !.waitingFor = 0, !.failure = TRUE]
      [] e.type = "step.completed" ->
            [r EXCEPT !.completed = @ + 1, !.spent = @ + e.cost, !.reserved = @ + Cost[e.step]]
      [] OTHER -> r

\* One event of the loop.
Absorb(r, e) ==
    CASE e.type = "run.started" -> [r EXCEPT !.status = "running"]
      [] e.type = "run.resumed" -> [r EXCEPT !.status = "running", !.waitingFor = 0]
      [] e.type = "run.awaiting-approval" -> [r EXCEPT !.status = "awaiting_approval", !.waitingFor = e.step]
      [] e.type = "run.completed" -> [r EXCEPT !.status = "completed", !.waitingFor = 0]
      [] e.type = "run.failed" -> [r EXCEPT !.status = "failed", !.waitingFor = 0, !.failure = TRUE]
      [] e.type = "step.completed" ->
            [r EXCEPT !.completed = @ + 1, !.spent = @ + e.cost, !.reserved = @ + Cost[e.step]]
      [] OTHER -> r

\* The loop, over the events l.
Summarize(l) ==
    LET shown[k \in 0..Len(l)] == IF k = 0 THEN NoSummary ELSE Absorb(shown[k - 1], l[k])
    IN  shown[Len(l)]
Summary == Summarize(log)
Savings == Summary.reserved - Summary.spent

\* The attempt that was made last.
Latest(a) == phase[a] # "new" /\ \A b \in Attempts : b > a => phase[b] = "new"

\* The operator is shown what the last attempt was told, however the ones
\* before it ended: that the run goes on, that it waits for the step that is
\* next, or that all of it is done, with no saving that was not made.  A failure
\* that any attempt has recorded stays on show beside what came of the run since.
SummaryAgrees ==
    /\ Savings >= 0
    /\ Summary.failure <=> Has(log, "run.failed")
    /\ \A a \in Attempts : Latest(a) =>
          /\ phase[a] = "loop" => Summary.status = "running" /\ Summary.waitingFor = 0
          /\ outcome[a] = "awaiting" => /\ Summary.status = "awaiting_approval"
                                        /\ Summary.waitingFor = Head(Reconstruct(log).pending)
          /\ outcome[a] = "completed" => /\ Summary.status = "completed" /\ Summary.waitingFor = 0
                                         /\ Summary.completed = NumSteps /\ Summary.spent = run[a].spent
==============================================================================

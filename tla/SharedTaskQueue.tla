---------------------------- MODULE SharedTaskQueue ----------------------------
(***************************************************************************)
(* The file queue of shared-task-queue.mjs on one machine: agents claim    *)
(* and complete tasks under a lock directory, and a ledger of scope        *)
(* reservations keeps the claims from overlapping while their leases run.  *)
(*                                                                         *)
(* One action per file operation that changes the disk.  The files a       *)
(* command reads under the lock are written under the lock only (but for   *)
(* a task that is being enqueued), so its reads and checks are one action. *)
(* A write may leave its file as it was, complete or torn; a torn file     *)
(* fails to parse.  Processes die anywhere, and the lock of a dead one     *)
(* stays until somebody removes it.                                        *)
(***************************************************************************)
EXTENDS Naturals, SequencesExt

CONSTANTS Agents,    \* the workers' agent ids
          Tasks,     \* the task ids
          Scope,     \* task.allowedPaths: paths as sequences of path components
          Assignees, \* the agents task.assignedTo names, all of them for "*"
          MaxLease,  \* bound: the longest lease asked for
          MaxTime,   \* bound: when the model stops the clock
          MaxAhead,  \* bound: how far ahead of the clock a caller dates its command
          Nobody     \* the agent of a claim that is not there

ASSUME TimesAssumption  == MaxLease \in Nat /\ MaxTime \in Nat /\ MaxAhead \in Nat
ASSUME NamesAssumption == Nobody \notin Agents /\ Tasks # {}

VARIABLES
    clock,    \* the time
    latest,   \* history: the latest date of a claim that passed its checks
    ready,    \* the tasks with a file in ready/
    claims,   \* the files in claims/
    results,  \* the files in results/
    ledger,   \* scope-reservations.v1.json
    locked,   \* .scope-reservation.lock exists
    pc,       \* where in its command each agent's process stands
    op,       \* what that command holds in memory
    answers,  \* the commands whose promise resolved
    handed    \* the tasks whose result has passed validateTaskResult

vars == <<clock, latest, ready, claims, results, ledger, locked, pc, op, answers, handed>>

Times        == 0..(MaxTime + MaxAhead + MaxLease)
Files        == {"absent", "whole", "torn"}
Reservations == [task : Tasks, expiresAt : Times]
Claims       == [file : Files, agent : Agents \cup {Nobody}, expiresAt : Times]
Ledgers      == [file : Files, reservations : SUBSET Reservations]
Phases       == {"idle", "claim", "claimLedger", "claimFile", "complete", "resultLedger",
                 "resultFile", "undo", "unlock"}

NoClaim   == [file |-> "absent", agent |-> Nobody, expiresAt |-> 0]
NoLedger  == [file |-> "absent", reservations |-> {}]
Whole(rs) == [file |-> "whole", reservations |-> rs]
Torn      == [file |-> "torn", reservations |-> {}]

----------------------------------------------------------------------------
\* Mutant of Overlap: a scope below a reserved one is not noticed.
Overlap_OneWay(t, u) == \E left \in Scope[t], right \in Scope[u] : IsPrefix(left, right)

\* scopeOverlaps and reservationOverlaps: one path is the other or is above it.
Overlap(t, u) == \E left \in Scope[t], right \in Scope[u] :
                    IsPrefix(left, right) \/ IsPrefix(right, left)

\* validateReservationLedger.
Disjoint(rs) == \A r, s \in rs : r # s => ~Overlap(r.task, s.task)
Loads        == ledger.file = "absent" \/ (ledger.file = "whole" /\ Disjoint(ledger.reservations))

\* Mutant of Active: a reservation is dropped one unit before it expires.
Active_Early(now) == {r \in ledger.reservations : r.expiresAt > now + 1}

\* activeReservations.
Active(now) == {r \in ledger.reservations : r.expiresAt > now}
\* validateTaskClaim on whether a claim has expired.
ExpiredAt(t, now) == now >= claims[t].expiresAt

NoOp == [task |-> CHOOSE t \in Tasks : TRUE, expiresAt |-> 0, next |-> {}, fresh |-> FALSE, ok |-> FALSE]

Init ==
    /\ clock = 0
    /\ latest = 0
    /\ ready = {}
    /\ claims = [t \in Tasks |-> NoClaim]
    /\ results = [t \in Tasks |-> "absent"]
    /\ ledger = NoLedger
    /\ locked = FALSE
    /\ pc = [a \in Agents |-> "idle"]
    /\ op = [a \in Agents |-> NoOp]
    /\ answers = {}
    /\ handed = {}

----------------------------------------------------------------------------
Goto(a, p) == pc' = [pc EXCEPT ![a] = p]

Tick ==
    /\ clock < MaxTime
    /\ clock' = clock + 1
    /\ UNCHANGED <<latest, ready, claims, results, ledger, locked, pc, op, answers, handed>>

\* enqueueSharedTask: no lock, the file must not exist.
Enqueue(t) ==
    /\ t \notin ready
    /\ ready' = ready \cup {t}
    /\ UNCHANGED <<clock, latest, claims, results, ledger, locked, pc, op, answers, handed>>

\* withQueueLock: mkdir succeeds.  (When it does not, QUEUE_LOCKED is thrown
\* and nothing changes.)
Lock(a, p) ==
    /\ pc[a] = "idle"
    /\ ~locked
    /\ locked' = TRUE
    /\ Goto(a, p)
    /\ UNCHANGED <<clock, latest, ready, claims, results, ledger, op, answers, handed>>

\* The date a caller gives its command: the time now unless it says otherwise,
\* and then any date.
Dates == 0..(clock + MaxAhead)

\* Mutant of CheckClaim: the lease is added to a claim that includes it.
CheckClaim_LeaseTwice(a, t, claimedAt, lease) ==
    LET active == Active(claimedAt)
    IN  /\ pc[a] = "claim"
        /\ t \in ready
        /\ a \in Assignees[t]
        /\ claims[t].file = "absent"
        /\ Loads
        /\ ~\E r \in active : r.task = t \/ Overlap(t, r.task)
        /\ op' = [op EXCEPT ![a] = [task      |-> t,
                                    expiresAt |-> claimedAt + lease + lease,
                                    next      |-> active \cup {[task |-> t, expiresAt |-> claimedAt + lease]},
                                    fresh     |-> ledger.file = "absent",
                                    ok        |-> FALSE]]
        /\ latest' = IF claimedAt > latest THEN claimedAt ELSE latest
        /\ Goto(a, "claimLedger")
        /\ UNCHANGED <<clock, ready, claims, results, ledger, locked, answers, handed>>

\* claimSharedTask up to the first write.  Which reservations still run, and
\* when the claim ends, are judged at the claimedAt that the caller gives.
CheckClaim(a, t, claimedAt, lease) ==
    LET active == Active(claimedAt)
    IN  /\ pc[a] = "claim"
        /\ t \in ready
        /\ a \in Assignees[t]
        /\ claims[t].file = "absent"
        /\ Loads
        /\ ~\E r \in active : r.task = t \/ Overlap(t, r.task)
        /\ op' = [op EXCEPT ![a] = [task      |-> t,
                                    expiresAt |-> claimedAt + lease,
                                    next      |-> active \cup {[task |-> t, expiresAt |-> claimedAt + lease]},
                                    fresh     |-> ledger.file = "absent",
                                    ok        |-> FALSE]]
        /\ latest' = IF claimedAt > latest THEN claimedAt ELSE latest
        /\ Goto(a, "claimLedger")
        /\ UNCHANGED <<clock, ready, claims, results, ledger, locked, answers, handed>>

\* validateTaskResult, of a packet that is well formed and inside its scope.
\* The lease is judged at the completedAt that the packet itself carries.
ValidResult(a, t, completedAt) ==
    /\ claims[t].file = "whole"
    /\ claims[t].agent = a
    /\ ~ExpiredAt(t, completedAt)

\* Mutant of CheckResult: the ledger is pruned of what has expired, as in a
\* claim, and not of the task.
CheckResult_Prunes(a, t, completedAt) ==
    /\ pc[a] = "complete"
    /\ t \in ready
    /\ ValidResult(a, t, completedAt)
    /\ results[t] = "absent"
    /\ Loads
    /\ op' = [op EXCEPT ![a] = [task      |-> t,
                                expiresAt |-> 0,
                                next      |-> Active(completedAt),
                                fresh     |-> ledger.file = "absent",
                                ok        |-> FALSE]]
    /\ handed' = handed \cup {t}
    /\ Goto(a, "resultLedger")
    /\ UNCHANGED <<clock, latest, ready, claims, results, ledger, locked, answers>>

\* completeSharedTask up to the first write.
CheckResult(a, t, completedAt) ==
    /\ pc[a] = "complete"
    /\ t \in ready
    /\ ValidResult(a, t, completedAt)
    /\ results[t] = "absent"
    /\ Loads
    /\ op' = [op EXCEPT ![a] = [task      |-> t,
                                expiresAt |-> 0,
                                next      |-> {r \in ledger.reservations : r.task # t},
                                fresh     |-> ledger.file = "absent",
                                ok        |-> FALSE]]
    /\ handed' = handed \cup {t}
    /\ Goto(a, "resultLedger")
    /\ UNCHANGED <<clock, latest, ready, claims, results, ledger, locked, answers>>

\* A check fails, or a read does: the error goes to the finally block.
Refuse(a) ==
    /\ pc[a] \in {"claim", "complete"}
    /\ op' = [op EXCEPT ![a].ok = FALSE]
    /\ Goto(a, "unlock")
    /\ UNCHANGED <<clock, latest, ready, claims, results, ledger, locked, answers, handed>>

\* writeLedgerWithRollback: the ledger is overwritten in place.  An error of
\* this write itself is not rolled back.
WriteLedger(a, from, to) ==
    /\ pc[a] = from
    /\ \/ ledger' = Whole(op[a].next) /\ Goto(a, to)
       \/ ledger' \in {ledger, Torn} /\ Goto(a, "unlock")
    /\ UNCHANGED <<clock, latest, ready, claims, results, locked, op, answers, handed>>

\* writeExclusive of the claim: flag "wx", so a file that is there is kept.
WriteClaim(a) ==
    /\ pc[a] = "claimFile"
    /\ \/ /\ claims[op[a].task].file = "absent"
          /\ claims' = [claims EXCEPT ![op[a].task] =
                           [file |-> "whole", agent |-> a, expiresAt |-> op[a].expiresAt]]
          /\ op' = [op EXCEPT ![a].ok = TRUE]
          /\ Goto(a, "unlock")
       \/ /\ \/ UNCHANGED claims
             \/ /\ claims[op[a].task].file = "absent"
                /\ claims' = [claims EXCEPT ![op[a].task].file = "torn"]
          /\ Goto(a, "undo")
          /\ UNCHANGED op
    /\ UNCHANGED <<clock, latest, ready, results, ledger, locked, answers, handed>>

\* writeExclusive of the result.
WriteResult(a) ==
    /\ pc[a] = "resultFile"
    /\ \/ /\ results[op[a].task] = "absent"
          /\ results' = [results EXCEPT ![op[a].task] = "whole"]
          /\ op' = [op EXCEPT ![a].ok = TRUE]
          /\ Goto(a, "unlock")
       \/ /\ \/ UNCHANGED results
             \/ /\ results[op[a].task] = "absent"
                /\ results' = [results EXCEPT ![op[a].task] = "torn"]
          /\ Goto(a, "undo")
          /\ UNCHANGED op
    /\ UNCHANGED <<clock, latest, ready, claims, ledger, locked, answers, handed>>

\* The catch block of writeLedgerWithRollback.  Where there was no ledger it
\* is unlinked, and an error of that is ignored.  Where there was one,
\* writeFile is given the parsed object, throws a TypeError before it opens
\* the file, and the new ledger stays.
Undo(a) ==
    /\ pc[a] = "undo"
    /\ IF op[a].fresh THEN ledger' \in {ledger, NoLedger} ELSE UNCHANGED ledger
    /\ Goto(a, "unlock")
    /\ UNCHANGED <<clock, latest, ready, claims, results, locked, op, answers, handed>>

\* finally: rm(lock).  Should it reject, the caller gets that error.
Unlock(a) ==
    /\ pc[a] = "unlock"
    /\ \/ /\ locked' = FALSE
          /\ answers' = IF op[a].ok THEN answers \cup {<<a, op[a].task, results[op[a].task]>>}
                        ELSE answers
       \/ UNCHANGED <<locked, answers>>
    /\ Goto(a, "idle")
    /\ op' = [op EXCEPT ![a] = NoOp]
    /\ UNCHANGED <<clock, latest, ready, claims, results, ledger, handed>>

\* The process dies between two writes, or in one that left its file torn.
Crash(a) ==
    /\ pc[a] # "idle"
    /\ Goto(a, "idle")
    /\ op' = [op EXCEPT ![a] = NoOp]
    /\ UNCHANGED <<clock, latest, ready, claims, results, ledger, locked, answers, handed>>

\* Somebody removes a lock directory that no command holds any more.
ClearLock ==
    /\ locked
    /\ \A a \in Agents : pc[a] = "idle"
    /\ locked' = FALSE
    /\ UNCHANGED <<clock, latest, ready, claims, results, ledger, pc, op, answers, handed>>

ClaimStep(a) ==
    \/ Lock(a, "claim")
    \/ \E t \in Tasks, claimedAt \in Dates, lease \in 1..MaxLease : CheckClaim(a, t, claimedAt, lease)
    \/ WriteLedger(a, "claimLedger", "claimFile")
    \/ WriteClaim(a)

CompleteStep(a) ==
    \/ Lock(a, "complete")
    \/ \E t \in Tasks, completedAt \in Dates : CheckResult(a, t, completedAt)
    \/ WriteLedger(a, "resultLedger", "resultFile")
    \/ WriteResult(a)

Next ==
    \/ Tick
    \/ \E t \in Tasks : Enqueue(t)
    \/ \E a \in Agents : \/ ClaimStep(a) \/ CompleteStep(a)
                         \/ Refuse(a) \/ Undo(a) \/ Unlock(a) \/ Crash(a)
    \/ ClearLock

Spec == Init /\ [][Next]_vars

----------------------------------------------------------------------------
TypeOK ==
    /\ clock \in 0..MaxTime
    /\ latest \in 0..(clock + MaxAhead)
    /\ ready \subseteq Tasks
    /\ claims \in [Tasks -> Claims]
    /\ results \in [Tasks -> Files]
    /\ ledger \in Ledgers
    /\ locked \in BOOLEAN
    /\ pc \in [Agents -> Phases]
    /\ op \in [Agents -> [task : Tasks, expiresAt : Times, next : SUBSET Reservations,
                          fresh : BOOLEAN, ok : BOOLEAN]]
    /\ answers \subseteq Agents \X Tasks \X Files
    /\ handed \subseteq Tasks

\* One command at a time is between taking and removing the lock, in spite of
\* dead holders and of the locks that are cleared after them: what the next two
\* properties rest on.
QueueExclusive ==
    \A a, b \in Agents : pc[a] # "idle" /\ pc[b] # "idle" => a = b /\ locked

\* The ledger never trips its own RESERVATION_OVERLAP check.
LedgerDisjoint == Disjoint(ledger.reservations)

\* What no claim may touch: claims that end after the date of every claim made
\* so far, and whose result is not handed in.
Holding(t) == claims[t].file = "whole" /\ ~ExpiredAt(t, latest) /\ t \notin handed

\* Two tasks with overlapping scopes are never held at once, whatever writes
\* failed, whichever process died in between and whatever dates the callers
\* gave, until a claim is dated at or after the end of the lease.
NoSharedScope == \A t, u \in Tasks : t # u /\ Holding(t) /\ Holding(u) => ~Overlap(t, u)

\* Claims that have not ended by the time that it is.
HeldNow(t) == claims[t].file = "whole" /\ ~ExpiredAt(t, clock) /\ t \notin handed

\* README.md: same or overlapping scopes are rejected - for as long as the
\* lease runs by the clock and no result is handed in.  It needs callers who do
\* not date their claims ahead.
ScopeKeptForLease == \A t, u \in Tasks : t # u /\ HeldNow(t) /\ HeldNow(u) => ~Overlap(t, u)

\* An agent who was told it has a task is the one on the task's claim for good;
\* one who was told its result is in has it on file, and no reservation of the
\* task comes back.
AnswersHonest ==
    \A ans \in answers :
        /\ claims[ans[2]].file = "whole" /\ claims[ans[2]].agent = ans[1]
        /\ ans[3] = "whole" => /\ results[ans[2]] = "whole"
                               /\ \A r \in ledger.reservations : r.task # ans[2]

\* README.md: same or overlapping scopes are rejected - for as long as the
\* lease runs and no result is on file.
OverlapRejected ==
    \A t, u \in Tasks :
        /\ t # u
        /\ \A v \in {t, u} : claims[v].file = "whole" /\ ~ExpiredAt(v, clock) /\ results[v] = "absent"
        => ~Overlap(t, u)
==============================================================================

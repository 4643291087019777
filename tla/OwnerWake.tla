------------------------------- MODULE OwnerWake -------------------------------
(***************************************************************************)
(* The wait for an absent owner: decideContinuation with its watchdog,     *)
(* armOwnerTimeout, the two files of FileOwnerWakeStore, and pollOwnerWake *)
(* with decideContinuation as its dispatcher.  Hosts run these against one *)
(* store; a host that dies is started again.                               *)
(*                                                                         *)
(* One action per await.  A wake stands for the record that identifies it  *)
(* (run, workflow, checkpoint and deadline are under its digest), so two   *)
(* records with one digest are the same.                                   *)
(***************************************************************************)
EXTENDS Naturals, TempFile

CONSTANTS Hosts,      \* the host processes, which all poll
          Armers,     \* those of them that arm wakes as well
          Wakes,      \* the waits there may be
          Deadline,   \* when the owner's time to answer is over, for each wait
          LocalOnly,  \* the waits under a floor with timeoutPolicy.localOnly
          Affordable, \* the waits whose floor pays for the model tier asked for
          MaxTime,    \* bound: when the model stops the clock
          MaxFaults   \* bound: deaths and failed operations, of all hosts together

WakeRecord(w) == [wake |-> w, status |-> "WAKE"]
Scheduled(w)  == [wake |-> w, status |-> "SCHEDULED"]
Consumed(w)   == [wake |-> w, status |-> "CONSUMED"]

ASSUME StoreAssumption == Writers = Hosts /\ Armers \subseteq Hosts /\ Files = {"wake", "schedule"}
ASSUME RecordAssumption == Wakes # {} /\ Records = [wake : Wakes, status : {"WAKE", "SCHEDULED", "CONSUMED"}]
ASSUME FloorAssumption == LocalOnly \subseteq Wakes /\ Affordable \subseteq Wakes
ASSUME TimeAssumption == Deadline \in [Wakes -> 1..MaxTime] /\ MaxTime \in Nat /\ MaxFaults \in Nat

VARIABLES
    clock,    \* the time, as every host's computer has it
    pc,       \* the await at which each host's call stands
    job,      \* what that call holds in memory
    armed,    \* the wakes for which armOwnerTimeout has resolved
    movedOn,  \* the wakes whose dispatcher returned a decision that ends the wait
    forks,    \* the status of each wait's fork, as the dispatcher's caller keeps it
    faults    \* how many faults there have been

vars == <<fileVars, clock, pc, job, armed, movedOn, forks, faults>>

Resolved == {"ACCEPTED", "REJECTED", "PARENT_RESUMED"}
Phases   == {"idle", "decided", "persist", "check", "schedule", "open", "fill", "rename",
             "confirm", "poll", "pollOther", "dispatch", "acknowledge"}

\* The wake the call is about; the file and record it writes and where it goes
\* on after that; when a poll began, and what it has read from which file.
NoJob == [wake |-> CHOOSE w \in Wakes : TRUE, file |-> "wake", status |-> "WAKE", next |-> "idle",
          now |-> 0, seen |-> Absent]

Init ==
    /\ FilesInit
    /\ clock = 0
    /\ pc = [h \in Hosts |-> "idle"]
    /\ job = [h \in Hosts |-> NoJob]
    /\ armed = {}
    /\ movedOn = {}
    /\ forks = [w \in Wakes |-> "none"]
    /\ faults = 0

----------------------------------------------------------------------------
Goto(h, p) == pc' = [pc EXCEPT ![h] = p]
\* The call returns or throws.
End(h) == Goto(h, "idle") /\ job' = [job EXCEPT ![h] = NoJob]

Tick ==
    /\ clock < MaxTime
    /\ clock' = clock + 1
    /\ UNCHANGED <<fileVars, pc, job, armed, movedOn, forks, faults>>

\* Mutant of Due: the deadline itself still belongs to the owner.
Due_After(w) == clock > Deadline[w]

\* ownerTimeoutWatchdog is DUE.
Due(w) == clock >= Deadline[w]

\* decideContinuation, by whether the reviews pass, the owner is there and the
\* risk class is C or D.  It throws where the tier costs more than the floor
\* allows, and where the floor does not let work go on in a fork.
Decision(passed, owner, highRisk, w) ==
    CASE ~passed                       -> "ESCALATE_OWNER"
      [] passed /\ ~owner /\ ~Due(w)   -> "WAIT_OWNER"
      [] passed /\ (owner \/ Due(w)) /\ highRisk -> "ESCALATE_OWNER"
      [] passed /\ owner /\ ~highRisk  ->
            IF w \in Affordable THEN "CONTINUE_MAIN" ELSE "MODEL_BUDGET_EXCEEDED"
      [] OTHER -> IF w \in LocalOnly THEN "CONTINUE_FORK" ELSE "FORK_NOT_LOCAL_ONLY"

Refusals == {"MODEL_BUDGET_EXCEEDED", "FORK_NOT_LOCAL_ONLY"}

\* A host is told to wait for the owner.
DecideWait(h, w) ==
    /\ h \in Armers
    /\ pc[h] = "idle"
    /\ \E passed, owner, highRisk \in BOOLEAN : Decision(passed, owner, highRisk, w) = "WAIT_OWNER"
    /\ job' = [job EXCEPT ![h].wake = w]
    /\ Goto(h, "decided")
    /\ UNCHANGED <<fileVars, clock, armed, movedOn, forks, faults>>

\* armOwnerTimeout: the deadline may have passed since (WAKE_NOT_FUTURE).
BuildRecord(h) ==
    /\ pc[h] = "decided"
    /\ IF Deadline[job[h].wake] > clock THEN Goto(h, "persist") /\ UNCHANGED job ELSE End(h)
    /\ UNCHANGED <<fileVars, clock, armed, movedOn, forks, faults>>

\* An atomicJson of the wake's record with this status begins.
Save(h, f, status, next) ==
    /\ job' = [job EXCEPT ![h].file = f, ![h].status = status, ![h].next = next]
    /\ Goto(h, "open")

\* Mutant of PersistWake: a wake that is there is replaced.
PersistWake_Replaces(h) ==
    /\ pc[h] = "persist"
    /\ Save(h, "wake", "WAKE", "check")
    /\ UNCHANGED <<fileVars, clock, armed, movedOn, forks, faults>>

\* persistWake.  A different wake is a WAKE_CONFLICT, bytes that do not parse
\* are an error as well.
PersistWake(h) ==
    /\ pc[h] = "persist"
    /\ \/ target["wake"] = Absent /\ Save(h, "wake", "WAKE", "check")
       \/ target["wake"] = WakeRecord(job[h].wake) /\ Goto(h, "check") /\ UNCHANGED job
       \/ target["wake"] \notin {Absent, WakeRecord(job[h].wake)} /\ End(h)
    /\ UNCHANGED <<fileVars, clock, armed, movedOn, forks, faults>>

\* Mutant of CheckWake: a wake that has been persisted counts as scheduled.
CheckWake_Unscheduled(h) ==
    /\ pc[h] = "check"
    /\ IF target["wake"] = WakeRecord(job[h].wake) THEN Goto(h, "confirm") /\ UNCHANGED job ELSE End(h)
    /\ UNCHANGED <<fileVars, clock, armed, movedOn, forks, faults>>

\* scheduleWake: its read of the wake (WAKE_NOT_PERSISTED),
CheckWake(h) ==
    /\ pc[h] = "check"
    /\ IF target["wake"] = WakeRecord(job[h].wake) THEN Goto(h, "schedule") /\ UNCHANGED job ELSE End(h)
    /\ UNCHANGED <<fileVars, clock, armed, movedOn, forks, faults>>

\* Mutant of ScheduleWake: a consumed schedule is armed again.
ScheduleWake_Rearms(h) ==
    /\ pc[h] = "schedule"
    /\ \/ /\ target["schedule"] \in {Absent, Consumed(job[h].wake)}
          /\ Save(h, "schedule", "SCHEDULED", "confirm")
       \/ target["schedule"] = Scheduled(job[h].wake) /\ Goto(h, "confirm") /\ UNCHANGED job
       \/ /\ target["schedule"] \notin {Absent, Consumed(job[h].wake), Scheduled(job[h].wake)}
          /\ End(h)
    /\ UNCHANGED <<fileVars, clock, armed, movedOn, forks, faults>>

\* and its read of the schedule (WAKE_CONFLICT, WAKE_ALREADY_CONSUMED).
ScheduleWake(h) ==
    /\ pc[h] = "schedule"
    /\ \/ target["schedule"] = Absent /\ Save(h, "schedule", "SCHEDULED", "confirm")
       \/ target["schedule"] = Scheduled(job[h].wake) /\ Goto(h, "confirm") /\ UNCHANGED job
       \/ target["schedule"] \notin {Absent, Scheduled(job[h].wake)} /\ End(h)
    /\ UNCHANGED <<fileVars, clock, armed, movedOn, forks, faults>>

\* atomicJson.
OpenTemp(h) ==
    /\ pc[h] = "open"
    /\ Open(h, job[h].file)
    /\ Goto(h, "fill")
    /\ UNCHANGED <<clock, job, armed, movedOn, forks, faults>>

FillTemp(h) ==
    /\ pc[h] = "fill"
    /\ Fill(h, job[h].file, [wake |-> job[h].wake, status |-> job[h].status])
    /\ Goto(h, "rename")
    /\ UNCHANGED <<clock, job, armed, movedOn, forks, faults>>

RenameTemp(h) ==
    /\ pc[h] = "rename"
    /\ IF temp[job[h].file] = Absent
       THEN End(h) /\ UNCHANGED fileVars
       ELSE Rename(job[h].file) /\ Goto(h, job[h].next) /\ UNCHANGED job
    /\ UNCHANGED <<clock, armed, movedOn, forks, faults>>

\* armOwnerTimeout resolves: the host may end its own run.
Confirm(h) ==
    /\ pc[h] = "confirm"
    /\ armed' = armed \cup {job[h].wake}
    /\ End(h)
    /\ UNCHANGED <<fileVars, clock, movedOn, forks, faults>>

\* pollOwnerWake begins.
Poll(h) ==
    /\ pc[h] = "idle"
    /\ job' = [job EXCEPT ![h].now = clock]
    /\ Goto(h, "poll")
    /\ UNCHANGED <<fileVars, clock, armed, movedOn, forks, faults>>

\* readPendingWake reads its files at once, so in either order.
ReadEither(h, f) ==
    /\ pc[h] = "poll"
    /\ job' = [job EXCEPT ![h].file = f, ![h].seen = target[f]]
    /\ Goto(h, "pollOther")
    /\ UNCHANGED <<fileVars, clock, armed, movedOn, forks, faults>>

\* What the two files say is due.  (Anything else is null or WAKE_CORRUPT.)
Pending(wake, schedule, now) ==
    {w \in Wakes : wake = WakeRecord(w) /\ schedule = Scheduled(w) /\ Deadline[w] <= now}

ReadOther(h) ==
    /\ pc[h] = "pollOther"
    /\ LET due == IF job[h].file = "wake" THEN Pending(job[h].seen, target["schedule"], job[h].now)
                  ELSE Pending(target["wake"], job[h].seen, job[h].now)
       IN IF due = {} THEN End(h)
          ELSE \E w \in due : Goto(h, "dispatch") /\ job' = [job EXCEPT ![h] = [NoJob EXCEPT !.wake = w]]
    /\ UNCHANGED <<fileVars, clock, armed, movedOn, forks, faults>>

\* createContinuationFork: one fork for the wait's checkpoint.
Fork(w) == IF forks[w] = "none" THEN [forks EXCEPT ![w] = "RUNNABLE"] ELSE forks

\* dispatchDueWake returns a decision, for this poll to acknowledge.
Dispatch(h) ==
    /\ pc[h] = "dispatch"
    /\ \E passed, owner, highRisk \in BOOLEAN :
          LET decision == Decision(passed, owner, highRisk, job[h].wake)
          IN /\ decision \notin Refusals
             /\ forks' = IF decision = "CONTINUE_FORK" THEN Fork(job[h].wake) ELSE forks
             /\ movedOn' = IF decision = "WAIT_OWNER" THEN movedOn ELSE movedOn \cup {job[h].wake}
    /\ Goto(h, "acknowledge")
    /\ UNCHANGED <<fileVars, clock, job, armed, faults>>

\* It throws: the wake stays where it is, for the next poll.
DispatchRefused(h) ==
    /\ pc[h] = "dispatch"
    /\ \E passed, owner, highRisk \in BOOLEAN : Decision(passed, owner, highRisk, job[h].wake) \in Refusals
    /\ End(h)
    /\ UNCHANGED <<fileVars, clock, armed, movedOn, forks, faults>>

\* Mutant of Acknowledge: a status that readPendingWake does not know.
Acknowledge_Unknown(h) ==
    /\ pc[h] = "acknowledge"
    /\ IF target["schedule"] = Scheduled(job[h].wake) THEN Save(h, "schedule", "ACKNOWLEDGED", "idle")
       ELSE End(h)
    /\ UNCHANGED <<fileVars, clock, armed, movedOn, forks, faults>>

\* acknowledgeWake (WAKE_NOT_FOUND, WAKE_ALREADY_CONSUMED).
Acknowledge(h) ==
    /\ pc[h] = "acknowledge"
    /\ IF target["schedule"] = Scheduled(job[h].wake) THEN Save(h, "schedule", "CONSUMED", "idle")
       ELSE End(h)
    /\ UNCHANGED <<fileVars, clock, armed, movedOn, forks, faults>>

\* The owner resolves a fork, or resolves it again.
Resolve(w, status) ==
    /\ forks[w] # "none"
    /\ forks' = [forks EXCEPT ![w] = status]
    /\ UNCHANGED <<fileVars, clock, pc, job, armed, movedOn, faults>>

\* A file operation rejects, the dispatcher throws, or the host dies.
Fail(h) ==
    /\ pc[h] # "idle"
    /\ faults < MaxFaults
    /\ faults' = faults + 1
    /\ IF pc[h] = "fill" THEN CutShort(h, job[h].file) ELSE UNCHANGED fileVars
    /\ End(h)
    /\ UNCHANGED <<clock, armed, movedOn, forks>>

Step(h) ==
    \/ BuildRecord(h) \/ PersistWake(h) \/ CheckWake(h) \/ ScheduleWake(h)
    \/ OpenTemp(h) \/ FillTemp(h) \/ RenameTemp(h) \/ Confirm(h)
    \/ \E f \in Files : ReadEither(h, f)
    \/ ReadOther(h) \/ Dispatch(h) \/ DispatchRefused(h) \/ Acknowledge(h)

Next ==
    \/ Tick
    \/ \E h \in Hosts : \/ \E w \in Wakes : DecideWait(h, w)
                        \/ Poll(h) \/ Step(h) \/ Fail(h)
    \/ \E w \in Wakes, status \in Resolved : Resolve(w, status)

Spec == Init /\ [][Next]_vars

\* Time passes, hosts go on with their calls and keep polling.
Fairness == WF_vars(Tick) /\ \A h \in Hosts : WF_vars(Step(h)) /\ WF_vars(Poll(h))
FairSpec == Spec /\ Fairness

----------------------------------------------------------------------------
TypeOK ==
    /\ FilesType
    /\ clock \in 0..MaxTime
    /\ pc \in [Hosts -> Phases]
    /\ job \in [Hosts -> [wake : Wakes, file : Files, status : {"WAKE", "SCHEDULED", "CONSUMED"},
                          next : Phases, now : 0..MaxTime, seen : Contents]]
    /\ armed \subseteq Wakes
    /\ movedOn \subseteq Wakes
    /\ forks \in [Wakes -> Resolved \cup {"none", "RUNNABLE"}]
    /\ faults \in 0..MaxFaults

\* README.md: WAIT_OWNER is not acknowledged without a durable next wake.  From
\* then on, until a decision ends the wait, a poll finds wake and schedule.
ArmedIsDurable ==
    \A w \in armed \ movedOn :
        target["wake"] = WakeRecord(w) /\ target["schedule"] = Scheduled(w)

\* A wake is marked consumed only after a decision has ended its wait: dying
\* hosts, failed dispatches and deadlines hit exactly do not use it up.
ConsumedWhenDecided == \A w \in Wakes : target["schedule"] = Consumed(w) => w \in movedOn

\* A consumed wake does not become pending again.
NoReplay ==
    [][\A w \in Wakes : target["schedule"] = Consumed(w) => target'["schedule"] # Scheduled(w)]_vars

\* A wake that is dispatched again does not undo what the owner decided of its
\* fork in the meantime.
ForkDecisionStands == [][\A w \in Wakes : forks[w] \in Resolved => forks'[w] \in Resolved]_vars

\* An armed wake leads to a decision, once the faults are over, where the floor
\* lets any decision be carried out.
ArmedIsDispatched == \A w \in LocalOnly \cap Affordable : w \in armed ~> w \in movedOn
==============================================================================

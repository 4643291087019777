----------------------------- MODULE OwnerWakeProofs -----------------------------
(***************************************************************************)
(* What the run of MCOwnerWake shows of OwnerWake for two hosts and two    *)
(* waits, proved for any hosts, waits, deadlines and faults.  That a wake  *)
(* is used up only by a decision holds however many hosts arm wakes.  That *)
(* an armed wake is found again, and a consumed one is not armed again,    *)
(* holds where one host arms: the run of MCWakeCompeting shows that two    *)
(* can lose a wake.                                                        *)
(***************************************************************************)
EXTENDS OwnerWake, TLAPS

OneArmer == \A g, h \in Armers : g = h

\* A host whose call is between the start of an atomicJson and its end.
Writing(h)   == pc[h] \in {"open", "fill", "rename"}
Consuming(h) == Writing(h) /\ job[h].status = "CONSUMED"

----------------------------------------------------------------------------
\* A decision that ends the wait comes before the bytes that say so.  A poll
\* that found a wake due did so at a time that is past.
PollIsPast(h)      == job[h].now <= clock
DispatchedIsDue(h) == pc[h] = "dispatch" => Due(job[h].wake)
EndedFirst(h)      == pc[h] = "acknowledge" \/ Consuming(h) => job[h].wake \in movedOn
ConsumedIsEnded(f) == \A w \in Wakes : target[f] = Consumed(w) \/ temp[f] = Consumed(w) => w \in movedOn

\* What each atomicJson writes where, and what its caller does next.
Purposes == {[file |-> "wake", status |-> "WAKE", next |-> "check"],
             [file |-> "schedule", status |-> "SCHEDULED", next |-> "confirm"],
             [file |-> "schedule", status |-> "CONSUMED", next |-> "idle"]}
HasPurpose(h) ==
    Writing(h) => [file |-> job[h].file, status |-> job[h].status, next |-> job[h].next] \in Purposes

CallInv(h) == PollIsPast(h) /\ DispatchedIsDue(h) /\ EndedFirst(h) /\ HasPurpose(h)

DecidedInv ==
    /\ TypeOK
    /\ \A h \in Hosts : CallInv(h)
    /\ \A f \in Files : ConsumedIsEnded(f)

----------------------------------------------------------------------------
\* A host that arms has found no file where it writes, and with one armer finds
\* what it left: others write the schedule only, and only once it is there.
Arming(h) == \/ pc[h] \in {"decided", "persist", "check", "schedule", "confirm"}
             \/ Writing(h) /\ job[h].status # "CONSUMED"

ArmersArm(h) == Arming(h) => h \in Armers

\* Armers write what is not there, in the order of the two files.
WritesNew(h) == Writing(h) /\ job[h].status # "CONSUMED" => target[job[h].file] = Absent
WakeFirst(h) ==
    pc[h] \in {"schedule", "confirm"} \/ (Writing(h) /\ job[h].status = "SCHEDULED") =>
        target["wake"] = WakeRecord(job[h].wake)

\* No one else has the temporary file that an armer has.
OwnTemp(h) ==
    job[h].status # "CONSUMED" =>
        /\ pc[h] = "fill" => opened[job[h].file][h] = "temp" /\ temp[job[h].file] = Empty
        /\ pc[h] = "rename" => temp[job[h].file] = [wake |-> job[h].wake, status |-> job[h].status]

ScheduledFirst(h) ==
    pc[h] = "confirm" => target["schedule"] = Scheduled(job[h].wake) \/ job[h].wake \in movedOn

\* A schedule is consumed when it is there and its wait has ended.
ConsumesEnded(h) ==
    Consuming(h) => /\ target["schedule"] # Absent
                    /\ \A w \in Wakes : target["schedule"] = Scheduled(w) => w \in movedOn

HostInv(h) ==
    /\ ArmersArm(h) /\ WritesNew(h) /\ WakeFirst(h)
    /\ OwnTemp(h) /\ ScheduledFirst(h) /\ ConsumesEnded(h)

\* Once there is a schedule, no other is on its way.
ScheduledOnce == target["schedule"] # Absent => \A w \in Wakes : temp["schedule"] # Scheduled(w)

ArmedInv == (\A h \in Hosts : HostInv(h)) /\ ScheduledOnce /\ ArmedIsDurable

----------------------------------------------------------------------------
\* Records, and what is no record.
LEMMA RecordFacts ==
    /\ \A w \in Wakes : {WakeRecord(w), Scheduled(w), Consumed(w)} \subseteq Records
    /\ \A w \in Wakes, c \in {Absent, Empty, Torn} : c \notin {WakeRecord(w), Scheduled(w), Consumed(w)}
    /\ \A v, w \in Wakes : /\ WakeRecord(v) \notin {Scheduled(w), Consumed(w)} /\ Scheduled(v) # Consumed(w)
                           /\ WakeRecord(v) = WakeRecord(w) => v = w
                           /\ Scheduled(v) = Scheduled(w) => v = w
                           /\ Consumed(v) = Consumed(w) => v = w
<1>1. \A w \in Wakes : {WakeRecord(w), Scheduled(w), Consumed(w)} \subseteq Records
  BY RecordAssumption DEF WakeRecord, Scheduled, Consumed
<1>2. \A w \in Wakes, c \in {Absent, Empty, Torn} : c \notin {WakeRecord(w), Scheduled(w), Consumed(w)}
  BY <1>1, ContentsAssumption
<1>3. \A v, w \in Wakes : /\ WakeRecord(v) \notin {Scheduled(w), Consumed(w)} /\ Scheduled(v) # Consumed(w)
                          /\ WakeRecord(v) = WakeRecord(w) => v = w
                          /\ Scheduled(v) = Scheduled(w) => v = w
                          /\ Consumed(v) = Consumed(w) => v = w
  BY DEF WakeRecord, Scheduled, Consumed
<1>4. QED
  BY <1>1, <1>2, <1>3

\* Where the hosts' calls stand, and what they hold.
Statuses == {"WAKE", "SCHEDULED", "CONSUMED"}
Jobs == [wake : Wakes, file : Files, status : Statuses, next : Phases, now : 0..MaxTime, seen : Contents]
PlacesType == pc \in [Hosts -> Phases] /\ job \in [Hosts -> Jobs]

LEMMA FilesAre == "wake" \in Files /\ "schedule" \in Files /\ Writers = Hosts /\ Armers \subseteq Hosts
BY StoreAssumption

LEMMA NoJobType == NoJob \in Jobs
<1>1. (CHOOSE w \in Wakes : TRUE) \in Wakes
  BY RecordAssumption
<1>2. 0 \in 0..MaxTime /\ Absent \in Contents /\ "idle" \in Phases
  BY TimeAssumption DEF Contents, Phases
<1>3. QED
  BY <1>1, <1>2, FilesAre DEF NoJob, Jobs, Statuses

LEMMA GotoType ==
    ASSUME PlacesType, NEW h \in Hosts, NEW p \in Phases, Goto(h, p)
    PROVE  pc' \in [Hosts -> Phases]
BY DEF PlacesType, Goto

LEMMA EndType == ASSUME PlacesType, NEW h \in Hosts, End(h) PROVE PlacesType'
<1>1. "idle" \in Phases
  BY DEF Phases
<1>2. QED
  BY <1>1, NoJobType DEF PlacesType, End, Goto

LEMMA SaveType ==
    ASSUME PlacesType, NEW h \in Hosts, NEW f \in Files, NEW s \in Statuses, NEW p \in Phases, Save(h, f, s, p)
    PROVE  PlacesType'
<1>1. "open" \in Phases
  BY DEF Phases
<1>2. QED
  BY <1>1 DEF PlacesType, Save, Goto, Jobs

LEMMA PutType ==
    ASSUME FilesType, NEW h \in Hosts, NEW f \in Files, NEW c \in Contents, Put(h, f, c)
    PROVE  FilesType'
<1>1. "closed" \in Names
  BY DEF Names
<1>2. QED
  BY <1>1, FilesAre DEF FilesType, Put

LEMMA OpenType == ASSUME FilesType, NEW h \in Hosts, NEW f \in Files, Open(h, f) PROVE FilesType'
<1>1. "temp" \in Names /\ Empty \in Contents
  BY DEF Names, Contents
<1>2. QED
  BY <1>1, FilesAre DEF FilesType, Open

LEMMA RenameType == ASSUME FilesType, NEW f \in Files, Rename(f) PROVE FilesType'
<1>1. {"target", "unlinked"} \subseteq Names /\ Absent \in Contents
  BY DEF Names, Contents
<1>2. target' \in [Files -> Contents] /\ temp' \in [Files -> Contents]
  BY <1>1 DEF FilesType, Rename
<1>3. opened' \in [Files -> [Writers -> Names]]
  <2> DEFINE moved == [w \in Writers |-> CASE opened[f][w] = "temp" -> "target"
                                           [] opened[f][w] = "target" -> "unlinked"
                                           [] OTHER -> opened[f][w]]
  <2>1. moved \in [Writers -> Names]
    BY <1>1 DEF FilesType
  <2>2. opened' = [opened EXCEPT ![f] = moved]
    BY DEF Rename
  <2> HIDE DEF moved
  <2>3. QED
    BY <2>1, <2>2 DEF FilesType
<1>4. QED
  BY <1>2, <1>3 DEF FilesType

\* What an overwritten file contains is a record or torn.
LEMMA OverwrittenType ==
    ASSUME NEW c \in Contents, NEW v \in Records PROVE Overwritten(c, v) \subseteq Contents
BY DEF Overwritten, Contents

LEMMA NowType == ASSUME FilesType, NEW h \in Hosts, NEW f \in Files PROVE Now(h, f) \in Contents
BY DEF FilesType, Now

\* The record that a host writes.
RecordOf(h) == [wake |-> job[h].wake, status |-> job[h].status]

LEMMA RecordType ==
    ASSUME PlacesType, NEW h \in Hosts
    PROVE  RecordOf(h) \in Records /\ job[h].file \in Files /\ job[h].wake \in Wakes
           /\ job[h].status \in Statuses /\ job[h].next \in Phases /\ job[h].now \in 0..MaxTime
BY RecordAssumption DEF PlacesType, Jobs, RecordOf, Statuses

\* What is not about files or calls keeps its type.
Rest == clock \in 0..MaxTime /\ armed \subseteq Wakes /\ movedOn \subseteq Wakes
        /\ forks \in [Wakes -> Resolved \cup {"none", "RUNNABLE"}] /\ faults \in 0..MaxFaults

LEMMA TypeParts == TypeOK <=> FilesType /\ PlacesType /\ Rest
BY DEF TypeOK, PlacesType, Rest, Jobs, Statuses

LEMMA TypeInit == Init => TypeOK
<1> SUFFICES ASSUME Init PROVE FilesType /\ PlacesType /\ Rest
  BY TypeParts
<1>1. FilesType
  BY DEF Init, FilesInit, FilesType, Contents, Names
<1>2. PlacesType
  BY NoJobType DEF Init, PlacesType, Phases
<1>3. Rest
  BY TimeAssumption DEF Init, Rest
<1>4. QED
  BY <1>1, <1>2, <1>3

LEMMA TypeNext == TypeOK /\ [Next]_vars => TypeOK'
<1> SUFFICES ASSUME FilesType, PlacesType, Rest, [Next]_vars PROVE FilesType' /\ PlacesType' /\ Rest'
  BY TypeParts, PTL
<1> USE DEF Phases
<1>1. CASE Tick
  BY <1>1, TimeAssumption DEF Tick, fileVars, FilesType, PlacesType, Rest
<1>2. ASSUME NEW h \in Hosts, NEW w \in Wakes, DecideWait(h, w) PROVE FilesType' /\ PlacesType' /\ Rest'
  <2>1. job' \in [Hosts -> Jobs]
    <3> HIDE DEF Phases
    <3>1. QED
      BY <1>2 DEF DecideWait, PlacesType, Jobs
  <2>2. QED
    BY <1>2, <2>1 DEF DecideWait, Goto, fileVars, FilesType, PlacesType, Rest
<1>3. ASSUME NEW h \in Hosts, BuildRecord(h) PROVE FilesType' /\ PlacesType' /\ Rest'
  <2>1. PlacesType'
    BY <1>3, EndType DEF BuildRecord, Goto, PlacesType
  <2>2. QED
    BY <1>3, <2>1 DEF BuildRecord, fileVars, FilesType, Rest
<1>4. ASSUME NEW h \in Hosts, PersistWake(h) PROVE FilesType' /\ PlacesType' /\ Rest'
  <2>1. PlacesType'
    <3>1. CASE Save(h, "wake", "WAKE", "check")
      BY <3>1, SaveType, FilesAre DEF Statuses
    <3>2. CASE Goto(h, "check") /\ UNCHANGED job
      BY <3>2 DEF Goto, PlacesType
    <3>3. CASE End(h)
      BY <3>3, EndType
    <3>4. QED
      BY <1>4, <3>1, <3>2, <3>3 DEF PersistWake
  <2>2. QED
    BY <1>4, <2>1 DEF PersistWake, fileVars, FilesType, Rest
<1>5. ASSUME NEW h \in Hosts, CheckWake(h) PROVE FilesType' /\ PlacesType' /\ Rest'
  <2>1. PlacesType'
    BY <1>5, EndType DEF CheckWake, Goto, PlacesType
  <2>2. QED
    BY <1>5, <2>1 DEF CheckWake, fileVars, FilesType, Rest
<1>6. ASSUME NEW h \in Hosts, ScheduleWake(h) PROVE FilesType' /\ PlacesType' /\ Rest'
  <2>1. PlacesType'
    <3>1. CASE Save(h, "schedule", "SCHEDULED", "confirm")
      BY <3>1, SaveType, FilesAre DEF Statuses
    <3>2. CASE Goto(h, "confirm") /\ UNCHANGED job
      BY <3>2 DEF Goto, PlacesType
    <3>3. CASE End(h)
      BY <3>3, EndType
    <3>4. QED
      BY <1>6, <3>1, <3>2, <3>3 DEF ScheduleWake
  <2>2. QED
    BY <1>6, <2>1 DEF ScheduleWake, fileVars, FilesType, Rest
<1>7. ASSUME NEW h \in Hosts, OpenTemp(h) PROVE FilesType' /\ PlacesType' /\ Rest'
  <2>1. FilesType'
    BY <1>7, OpenType, RecordType DEF OpenTemp
  <2>2. QED
    BY <1>7, <2>1 DEF OpenTemp, Goto, PlacesType, Rest
<1>8. ASSUME NEW h \in Hosts, FillTemp(h) PROVE FilesType' /\ PlacesType' /\ Rest'
  <2>1. FilesType'
    <3>1. PICK c \in Overwritten(Now(h, job[h].file), RecordOf(h)) : Put(h, job[h].file, c)
      BY <1>8 DEF FillTemp, Fill, RecordOf
    <3>2. c \in Contents
      BY OverwrittenType, NowType, RecordType
    <3>3. QED
      BY <3>1, <3>2, PutType, RecordType
  <2>2. QED
    BY <1>8, <2>1 DEF FillTemp, Goto, PlacesType, Rest
<1>9. ASSUME NEW h \in Hosts, RenameTemp(h) PROVE FilesType' /\ PlacesType' /\ Rest'
  <2>1. CASE End(h) /\ UNCHANGED fileVars
    BY <1>9, <2>1, EndType DEF RenameTemp, fileVars, FilesType, Rest
  <2>2. CASE Rename(job[h].file) /\ Goto(h, job[h].next) /\ UNCHANGED job
    BY <1>9, <2>2, RenameType, GotoType, RecordType DEF RenameTemp, PlacesType, Rest
  <2>3. QED
    BY <1>9, <2>1, <2>2 DEF RenameTemp
<1>10. ASSUME NEW h \in Hosts, Confirm(h) PROVE FilesType' /\ PlacesType' /\ Rest'
  BY <1>10, EndType, RecordType DEF Confirm, fileVars, FilesType, Rest
<1>11. ASSUME NEW h \in Hosts, Poll(h) PROVE FilesType' /\ PlacesType' /\ Rest'
  <2>1. job' \in [Hosts -> Jobs]
    <3> HIDE DEF Phases
    <3>1. QED
      BY <1>11 DEF Poll, PlacesType, Rest, Jobs
  <2>2. QED
    BY <1>11, <2>1 DEF Poll, Goto, fileVars, FilesType, PlacesType, Rest
<1>12. ASSUME NEW h \in Hosts, NEW f \in Files, ReadEither(h, f) PROVE FilesType' /\ PlacesType' /\ Rest'
  <2>1. job' \in [Hosts -> Jobs]
    <3> HIDE DEF Phases
    <3>1. target[f] \in Contents
      BY DEF FilesType
    <3>2. QED
      BY <1>12, <3>1 DEF ReadEither, PlacesType, Jobs
  <2>2. QED
    BY <1>12, <2>1 DEF ReadEither, Goto, fileVars, FilesType, PlacesType, Rest
<1>13. ASSUME NEW h \in Hosts, ReadOther(h) PROVE FilesType' /\ PlacesType' /\ Rest'
  <2>1. CASE End(h)
    BY <1>13, <2>1, EndType DEF ReadOther, fileVars, FilesType, Rest
  <2>2. ASSUME NEW w \in Wakes, Goto(h, "dispatch"), job' = [job EXCEPT ![h] = [NoJob EXCEPT !.wake = w]]
        PROVE  PlacesType'
    <3>1. [NoJob EXCEPT !.wake = w] \in Jobs
      BY NoJobType DEF Jobs
    <3>2. QED
      BY <2>2, <3>1 DEF Goto, PlacesType
  <2>3. End(h) \/ \E w \in Wakes : Goto(h, "dispatch") /\ job' = [job EXCEPT ![h] = [NoJob EXCEPT !.wake = w]]
    BY <1>13 DEF ReadOther, Pending
  <2>4. QED
    BY <1>13, <2>1, <2>2, <2>3 DEF ReadOther, fileVars, FilesType, Rest
<1>14. ASSUME NEW h \in Hosts, Dispatch(h) PROVE FilesType' /\ PlacesType' /\ Rest'
  <2>1. PICK d : /\ forks' = IF d = "CONTINUE_FORK" THEN Fork(job[h].wake) ELSE forks
                 /\ movedOn' = IF d = "WAIT_OWNER" THEN movedOn ELSE movedOn \cup {job[h].wake}
    BY <1>14, Zenon DEF Dispatch
  <2>2. Rest'
    BY <1>14, <2>1, RecordType DEF Dispatch, Fork, Rest
  <2>3. QED
    BY <1>14, <2>2 DEF Dispatch, Goto, fileVars, FilesType, PlacesType
<1>15. ASSUME NEW h \in Hosts, Acknowledge(h) PROVE FilesType' /\ PlacesType' /\ Rest'
  <2>1. PlacesType'
    BY <1>15, SaveType, EndType, FilesAre DEF Acknowledge, Statuses
  <2>2. QED
    BY <1>15, <2>1 DEF Acknowledge, fileVars, FilesType, Rest
<1>16. ASSUME NEW w \in Wakes, NEW s \in Resolved, Resolve(w, s) PROVE FilesType' /\ PlacesType' /\ Rest'
  BY <1>16 DEF Resolve, fileVars, FilesType, PlacesType, Rest
<1>17. ASSUME NEW h \in Hosts, Fail(h) PROVE FilesType' /\ PlacesType' /\ Rest'
  <2>1. FilesType'
    <3>1. CASE UNCHANGED fileVars
      BY <3>1 DEF fileVars, FilesType
    <3>2. CASE CutShort(h, job[h].file)
      <4>1. PICK c \in {Now(h, job[h].file), Torn} : Put(h, job[h].file, c)
        BY <3>2 DEF CutShort
      <4>2. c \in Contents
        BY NowType, RecordType DEF Contents
      <4>3. QED
        BY <4>1, <4>2, PutType, RecordType
    <3>3. QED
      BY <1>17, <3>1, <3>2 DEF Fail
  <2>2. QED
    BY <1>17, <2>1, EndType, TimeAssumption DEF Fail, Rest
<1>18. CASE UNCHANGED vars
  BY <1>18 DEF vars, fileVars, FilesType, PlacesType, Rest
<1>19. ASSUME NEW h \in Hosts, DispatchRefused(h) PROVE FilesType' /\ PlacesType' /\ Rest'
  BY <1>19, EndType DEF DispatchRefused, fileVars, FilesType, Rest
<1>20. QED
  BY <1>1, <1>2, <1>3, <1>4, <1>5, <1>6, <1>7, <1>8, <1>9, <1>10, <1>11, <1>12, <1>13, <1>14, <1>15,
     <1>16, <1>17, <1>18, <1>19 DEF Next, Step

\* The variables of the wake store keep their types.
THEOREM WakeTypes == Spec => []TypeOK
BY TypeInit, TypeNext, PTL DEF Spec

----------------------------------------------------------------------------
\* What one host does with its call leaves the calls of the others.
LEMMA OtherCalls ==
    ASSUME PlacesType, NEW h \in Hosts, NEW g \in Hosts \ {h}
    PROVE  /\ \A p : Goto(h, p) => pc'[g] = pc[g]
           /\ End(h) => pc'[g] = pc[g] /\ job'[g] = job[g]
           /\ \A f, s, p : Save(h, f, s, p) => pc'[g] = pc[g] /\ job'[g] = job[g]
BY DEF PlacesType, Goto, End, Save

LEMMA EndedCall ==
    ASSUME PlacesType, NEW h \in Hosts, End(h)
    PROVE  pc'[h] = "idle" /\ job'[h] = NoJob
BY DEF PlacesType, End, Goto

LEMMA SavedCall ==
    ASSUME PlacesType, NEW h \in Hosts, NEW f \in Files, NEW s \in Statuses, NEW p \in Phases, Save(h, f, s, p)
    PROVE  /\ pc'[h] = "open" /\ job'[h].file = f /\ job'[h].status = s /\ job'[h].next = p
           /\ job'[h].wake = job[h].wake /\ job'[h].now = job[h].now
BY DEF PlacesType, Save, Goto, Jobs

\* What a file may contain after a step: what it or its temporary file
\* contained, what was written, or no record.
LEMMA PutContents ==
    ASSUME FilesType, NEW h \in Hosts, NEW f \in Files, NEW c, Put(h, f, c), NEW e \in Files
    PROVE  target'[e] \in {target[e], c} /\ temp'[e] \in {temp[e], c}
BY DEF FilesType, Put

LEMMA RenameContents ==
    ASSUME FilesType, NEW f \in Files, Rename(f), NEW e \in Files
    PROVE  target'[e] \in {target[e], temp[e]} /\ temp'[e] \in {temp[e], Absent}
BY DEF FilesType, Rename

LEMMA OpenContents ==
    ASSUME FilesType, NEW h \in Hosts, NEW f \in Files, Open(h, f), NEW e \in Files
    PROVE  target'[e] = target[e] /\ temp'[e] \in {temp[e], Empty}
BY DEF FilesType, Open

\* A wait that has ended stays so.
LEMMA StillEnded ==
    ASSUME \A f \in Files : ConsumedIsEnded(f), movedOn \subseteq movedOn', NEW f \in Files, NEW v,
           \A w \in Wakes : v = Consumed(w) => w \in movedOn,
           target'[f] \in {target[f], temp[f], v, Empty, Torn, Absent},
           temp'[f] \in {target[f], temp[f], v, Empty, Torn, Absent}
    PROVE  ConsumedIsEnded(f)'
<1> SUFFICES ASSUME NEW w \in Wakes, target'[f] = Consumed(w) \/ temp'[f] = Consumed(w) PROVE w \in movedOn'
  BY DEF ConsumedIsEnded, Consumed
<1>1. Consumed(w) \notin {Empty, Torn, Absent}
  BY RecordFacts
<1>2. target[f] = Consumed(w) \/ temp[f] = Consumed(w) \/ v = Consumed(w)
  BY <1>1
<1>3. QED
  BY <1>2 DEF ConsumedIsEnded

LEMMA SameCall ==
    ASSUME NEW h \in Hosts, CallInv(h), pc'[h] = pc[h], job'[h] = job[h], PlacesType, Rest,
           movedOn \subseteq movedOn', clock' = clock \/ clock' = clock + 1
    PROVE  CallInv(h)'
<1>1. job[h].now \in Nat /\ clock \in Nat /\ Deadline[job[h].wake] \in Nat
  BY RecordType, TimeAssumption DEF Rest
<1>2. QED
  BY <1>1 DEF CallInv, PollIsPast, DispatchedIsDue, EndedFirst, HasPurpose, Due, Consuming, Writing

\* Nothing is claimed of a call that neither dispatches nor writes.
LEMMA RestingCall ==
    ASSUME NEW h \in Hosts, pc'[h] \notin {"dispatch", "acknowledge", "open", "fill", "rename"},
           job'[h].now <= clock'
    PROVE  CallInv(h)'
BY DEF CallInv, PollIsPast, DispatchedIsDue, EndedFirst, HasPurpose, Consuming, Writing

LEMMA StartedCall ==
    ASSUME PlacesType, NEW h \in Hosts, CallInv(h), NEW p \in Purposes, Save(h, p.file, p.status, p.next),
           p.status = "CONSUMED" => job[h].wake \in movedOn, UNCHANGED <<clock, movedOn>>
    PROVE  CallInv(h)'
<1>1. p.file \in Files /\ p.status \in Statuses /\ p.next \in Phases
  BY FilesAre DEF Purposes, Statuses, Phases
<1>2. /\ pc'[h] = "open" /\ job'[h].file = p.file /\ job'[h].status = p.status /\ job'[h].next = p.next
      /\ job'[h].wake = job[h].wake /\ job'[h].now = job[h].now
  BY <1>1, SavedCall
<1>3. [file |-> p.file, status |-> p.status, next |-> p.next] = p
  BY DEF Purposes
<1>4. QED
  BY <1>2, <1>3 DEF CallInv, PollIsPast, DispatchedIsDue, EndedFirst, HasPurpose, Consuming, Writing

\* Between the steps of an atomicJson.
LEMMA WritingCall ==
    ASSUME NEW h \in Hosts, CallInv(h), Writing(h), pc'[h] \in {"fill", "rename"}, job' = job,
           UNCHANGED <<clock, movedOn>>
    PROVE  CallInv(h)'
BY DEF CallInv, PollIsPast, DispatchedIsDue, EndedFirst, HasPurpose, Consuming, Writing

LEMMA EndedRests == ASSUME PlacesType, Rest, NEW h \in Hosts, End(h), clock' = clock PROVE CallInv(h)'
<1>1. pc'[h] = "idle" /\ job'[h] = NoJob
  BY EndedCall
<1>2. NoJob.now <= clock
  BY DEF NoJob, Rest
<1>3. QED
  BY <1>1, <1>2, RestingCall

\* A step of one host that leaves the files alone.
LEMMA QuietStep ==
    ASSUME DecidedInv, TypeOK', NEW h \in Hosts, UNCHANGED <<fileVars, clock>>, movedOn \subseteq movedOn',
           \A g \in Hosts \ {h} : pc'[g] = pc[g] /\ job'[g] = job[g],
           CallInv(h)'
    PROVE  DecidedInv'
<1>1. PlacesType /\ Rest
  BY TypeParts DEF DecidedInv
<1>2. \A g \in Hosts \ {h} : CallInv(g)'
  BY <1>1, SameCall DEF DecidedInv
<1>3. \A f \in Files : ConsumedIsEnded(f)'
  BY DEF DecidedInv, ConsumedIsEnded, Consumed, fileVars
<1>4. QED
  BY <1>2, <1>3 DEF DecidedInv

\* A step of one host that does not dispatch.
LEMMA FileStep ==
    ASSUME DecidedInv, TypeOK', NEW h \in Hosts, UNCHANGED <<clock, movedOn>>,
           \A g \in Hosts \ {h} : pc'[g] = pc[g] /\ job'[g] = job[g],
           CallInv(h)', NEW v, \A w \in Wakes : v = Consumed(w) => w \in movedOn,
           \A f \in Files : /\ target'[f] \in {target[f], temp[f], v, Empty, Torn, Absent}
                            /\ temp'[f] \in {target[f], temp[f], v, Empty, Torn, Absent}
    PROVE  DecidedInv'
<1>1. PlacesType /\ Rest
  BY TypeParts DEF DecidedInv
<1>2. \A g \in Hosts \ {h} : CallInv(g)'
  BY <1>1, SameCall DEF DecidedInv
<1>3. \A f \in Files : ConsumedIsEnded(f)'
  BY StillEnded DEF DecidedInv
<1>4. QED
  BY <1>2, <1>3 DEF DecidedInv

LEMMA DecidedInit == Init => DecidedInv
<1> SUFFICES ASSUME Init PROVE DecidedInv
  OBVIOUS
<1>1. TypeOK
  BY TypeInit
<1>2. \A h \in Hosts : pc[h] = "idle" /\ job[h].now <= clock
  BY DEF Init, NoJob
<1>3. \A f \in Files : ConsumedIsEnded(f)
  BY RecordFacts DEF Init, FilesInit, ConsumedIsEnded
<1>4. QED
  BY <1>1, <1>2, <1>3 DEF DecidedInv, CallInv, PollIsPast, DispatchedIsDue, EndedFirst, HasPurpose, Consuming, Writing

\* A poll dispatches only what is due, so that its decision is never to wait;
\* what it acknowledges after that has ended.
LEMMA DispatchEnds ==
    ASSUME PlacesType, NEW h \in Hosts, DispatchedIsDue(h), Dispatch(h)
    PROVE  movedOn' = movedOn \cup {job[h].wake}
<1>1. PICK passed \in BOOLEAN, owner \in BOOLEAN, highRisk \in BOOLEAN :
          movedOn' = IF Decision(passed, owner, highRisk, job[h].wake) = "WAIT_OWNER" THEN movedOn
                     ELSE movedOn \cup {job[h].wake}
  BY DEF Dispatch
<1>2. Due(job[h].wake)
  BY DEF DispatchedIsDue, Dispatch
<1>3. Decision(passed, owner, highRisk, job[h].wake) # "WAIT_OWNER"
  BY <1>2 DEF Decision
<1>4. QED
  BY <1>1, <1>3

LEMMA DecidedNext == DecidedInv /\ [Next]_vars => DecidedInv'
<1> SUFFICES ASSUME DecidedInv, [Next]_vars PROVE DecidedInv'
  OBVIOUS
<1>1. TypeOK'
  BY TypeNext DEF DecidedInv
<1>2. FilesType /\ PlacesType /\ Rest
  BY TypeParts DEF DecidedInv
<1>3. \A h \in Hosts : CallInv(h)
  BY DEF DecidedInv
<1>4. CASE Tick
  <2>1. \A h \in Hosts : CallInv(h)'
    BY <1>2, <1>3, <1>4, SameCall DEF Tick
  <2>2. \A f \in Files : ConsumedIsEnded(f)'
    BY <1>4 DEF Tick, DecidedInv, ConsumedIsEnded, Consumed, fileVars
  <2>3. QED
    BY <1>1, <2>1, <2>2 DEF DecidedInv
<1>5. ASSUME NEW h \in Hosts, NEW w \in Wakes, DecideWait(h, w) PROVE DecidedInv'
  <2>1. pc'[h] = "decided" /\ job'[h].now = job[h].now
    BY <1>2, <1>5 DEF DecideWait, Goto, PlacesType, Jobs
  <2>2. CallInv(h)'
    BY <1>3, <1>5, <2>1, RestingCall DEF DecideWait, CallInv, PollIsPast
  <2>3. \A g \in Hosts \ {h} : pc'[g] = pc[g] /\ job'[g] = job[g]
    BY <1>2, <1>5 DEF DecideWait, Goto, PlacesType
  <2>4. QED
    BY <1>1, <1>5, <2>2, <2>3, QuietStep DEF DecideWait
<1>6. ASSUME NEW h \in Hosts, BuildRecord(h) \/ CheckWake(h) PROVE DecidedInv'
  <2>1. \/ pc'[h] \in {"persist", "schedule"} /\ job' = job
        \/ End(h)
    BY <1>2, <1>6 DEF BuildRecord, CheckWake, Goto, PlacesType
  <2>2. CallInv(h)'
    BY <1>2, <1>3, <1>6, <2>1, RestingCall, EndedRests DEF BuildRecord, CheckWake, CallInv, PollIsPast
  <2>3. \A g \in Hosts \ {h} : pc'[g] = pc[g] /\ job'[g] = job[g]
    BY <1>2, <1>6, OtherCalls DEF BuildRecord, CheckWake
  <2>4. QED
    BY <1>1, <1>6, <2>2, <2>3, QuietStep DEF BuildRecord, CheckWake
<1>7. ASSUME NEW h \in Hosts, PersistWake(h) \/ ScheduleWake(h) \/ Acknowledge(h) PROVE DecidedInv'
  <2>1. \/ \E p \in Purposes : /\ Save(h, p.file, p.status, p.next)
                               /\ p.status = "CONSUMED" => pc[h] = "acknowledge"
        \/ \E p \in {"check", "confirm"} : Goto(h, p) /\ UNCHANGED job
        \/ End(h)
    <3>2. CASE Save(h, "wake", "WAKE", "check")
      BY <3>2 DEF Purposes
    <3>3. CASE Save(h, "schedule", "SCHEDULED", "confirm")
      BY <3>3 DEF Purposes
    <3>4. CASE Acknowledge(h) /\ Save(h, "schedule", "CONSUMED", "idle")
      BY <3>4 DEF Purposes, Acknowledge
    <3>5. QED
      BY <1>7, <3>2, <3>3, <3>4 DEF PersistWake, ScheduleWake, Acknowledge
  <2>2. UNCHANGED <<fileVars, clock, movedOn>>
    BY <1>7 DEF PersistWake, ScheduleWake, Acknowledge
  <2>3. CallInv(h)'
    <3>1. ASSUME NEW p \in Purposes, Save(h, p.file, p.status, p.next), p.status = "CONSUMED" => pc[h] = "acknowledge"
          PROVE  CallInv(h)'
      <4>1. p.status = "CONSUMED" => job[h].wake \in movedOn
        BY <1>3, <3>1 DEF CallInv, EndedFirst
      <4>2. QED
        BY <1>2, <1>3, <2>2, <3>1, <4>1, StartedCall
    <3>2. ASSUME NEW p \in {"check", "confirm"}, Goto(h, p), UNCHANGED job PROVE CallInv(h)'
      <4>1. pc'[h] = p
        BY <1>2, <3>2 DEF Goto, PlacesType
      <4>2. QED
        BY <1>3, <2>2, <3>2, <4>1, RestingCall DEF CallInv, PollIsPast
    <3>3. CASE End(h)
      BY <1>2, <2>2, <3>3, EndedRests
    <3>4. QED
      BY <2>1, <3>1, <3>2, <3>3
  <2>4. \A g \in Hosts \ {h} : pc'[g] = pc[g] /\ job'[g] = job[g]
    BY <1>2, <2>1, OtherCalls
  <2>5. QED
    BY <1>1, <2>2, <2>3, <2>4, QuietStep
<1>8. ASSUME NEW h \in Hosts, OpenTemp(h) PROVE DecidedInv'
  <2>1. pc'[h] = "fill" /\ job' = job /\ \A g \in Hosts \ {h} : pc'[g] = pc[g]
    BY <1>2, <1>8 DEF OpenTemp, Goto, PlacesType
  <2>2. CallInv(h)'
    BY <1>3, <1>8, <2>1, WritingCall DEF OpenTemp, Writing
  <2>3. \A f \in Files : target'[f] = target[f] /\ temp'[f] \in {temp[f], Empty}
    BY <1>2, <1>8, OpenContents, RecordType DEF OpenTemp
  <2>4. \A w \in Wakes : Empty # Consumed(w)
    BY RecordFacts
  <2>5. QED
    BY <1>1, <1>8, <2>1, <2>2, <2>3, <2>4, FileStep DEF OpenTemp
<1>9. ASSUME NEW h \in Hosts, FillTemp(h) PROVE DecidedInv'
  <2>1. pc'[h] = "rename" /\ job' = job /\ \A g \in Hosts \ {h} : pc'[g] = pc[g]
    BY <1>2, <1>9 DEF FillTemp, Goto, PlacesType
  <2>2. CallInv(h)'
    BY <1>3, <1>9, <2>1, WritingCall DEF FillTemp, Writing
  <2>3. PICK c \in {RecordOf(h), Torn} : Put(h, job[h].file, c)
    BY <1>9 DEF FillTemp, Fill, Overwritten, RecordOf
  <2>4. \A f \in Files : target'[f] \in {target[f], RecordOf(h), Torn} /\ temp'[f] \in {temp[f], RecordOf(h), Torn}
    BY <1>2, <2>3, PutContents, RecordType
  <2>5. \A w \in Wakes : RecordOf(h) = Consumed(w) => w \in movedOn
    <3>1. ASSUME NEW w \in Wakes, RecordOf(h) = Consumed(w) PROVE job[h].wake = w /\ job[h].status = "CONSUMED"
      BY <3>1 DEF RecordOf, Consumed
    <3>2. QED
      BY <1>3, <1>9, <3>1 DEF FillTemp, CallInv, EndedFirst, Consuming, Writing
  <2>6. QED
    BY <1>1, <1>9, <2>1, <2>2, <2>4, <2>5, FileStep DEF FillTemp
<1>10. ASSUME NEW h \in Hosts, RenameTemp(h) PROVE DecidedInv'
  <2>1. CASE End(h) /\ UNCHANGED fileVars
    BY <1>1, <1>2, <1>10, <2>1, EndedRests, OtherCalls, QuietStep DEF RenameTemp
  <2>2. CASE Rename(job[h].file) /\ Goto(h, job[h].next) /\ UNCHANGED job
    <3>1. job[h].next \in {"idle", "check", "confirm"}
      BY <1>3, <1>10 DEF RenameTemp, CallInv, HasPurpose, Purposes, Writing
    <3>2. pc'[h] = job[h].next /\ \A g \in Hosts \ {h} : pc'[g] = pc[g]
      BY <1>2, <2>2 DEF Goto, PlacesType
    <3>3. CallInv(h)'
      BY <1>3, <1>10, <2>2, <3>1, <3>2, RestingCall DEF RenameTemp, CallInv, PollIsPast
    <3>4. \A f \in Files : target'[f] \in {target[f], temp[f]} /\ temp'[f] \in {temp[f], Absent}
      BY <1>2, <2>2, RenameContents, RecordType
    <3>5. \A w \in Wakes : Absent # Consumed(w)
      BY RecordFacts
    <3>6. QED
      BY <1>1, <1>10, <2>2, <3>2, <3>3, <3>4, <3>5, FileStep DEF RenameTemp
  <2>3. QED
    BY <1>10, <2>1, <2>2 DEF RenameTemp
<1>11. ASSUME NEW h \in Hosts, Confirm(h) PROVE DecidedInv'
  BY <1>1, <1>2, <1>11, EndedRests, OtherCalls, QuietStep DEF Confirm
<1>12. ASSUME NEW h \in Hosts, Poll(h) PROVE DecidedInv'
  <2>1. /\ pc'[h] = "poll" /\ job'[h].now = clock
        /\ \A g \in Hosts \ {h} : pc'[g] = pc[g] /\ job'[g] = job[g]
    BY <1>2, <1>12 DEF Poll, Goto, PlacesType, Jobs
  <2>2. clock' = clock /\ clock <= clock
    BY <1>2, <1>12 DEF Poll, Rest
  <2>3. CallInv(h)'
    BY <2>1, <2>2, RestingCall
  <2>4. QED
    BY <1>1, <1>12, <2>1, <2>3, QuietStep DEF Poll
<1>13. ASSUME NEW h \in Hosts, NEW f \in Files, ReadEither(h, f) PROVE DecidedInv'
  <2>1. /\ pc'[h] = "pollOther" /\ job'[h].now = job[h].now
        /\ \A g \in Hosts \ {h} : pc'[g] = pc[g] /\ job'[g] = job[g]
    BY <1>2, <1>13 DEF ReadEither, Goto, PlacesType, Jobs
  <2>2. CallInv(h)'
    BY <1>3, <1>13, <2>1, RestingCall DEF ReadEither, CallInv, PollIsPast
  <2>3. QED
    BY <1>1, <1>13, <2>1, <2>2, QuietStep DEF ReadEither
<1>14. ASSUME NEW h \in Hosts, ReadOther(h) PROVE DecidedInv'
  <2>1. CASE End(h)
    BY <1>1, <1>2, <1>14, <2>1, EndedRests, OtherCalls, QuietStep DEF ReadOther
  <2>2. ASSUME NEW w \in Wakes, Deadline[w] <= job[h].now, Goto(h, "dispatch"),
               job' = [job EXCEPT ![h] = [NoJob EXCEPT !.wake = w]]
        PROVE  DecidedInv'
    <3>1. /\ pc'[h] = "dispatch" /\ job'[h] = [NoJob EXCEPT !.wake = w]
          /\ \A g \in Hosts \ {h} : pc'[g] = pc[g] /\ job'[g] = job[g]
      BY <1>2, <2>2 DEF Goto, PlacesType
    <3>2. job'[h].wake = w /\ job'[h].now = 0
      BY <3>1 DEF NoJob
    <3>3. Deadline[w] <= clock /\ 0 <= clock
      <4>1. Deadline[w] \in Nat /\ job[h].now \in Nat /\ clock \in Nat
        BY <1>2, RecordType, TimeAssumption DEF Rest
      <4>2. job[h].now <= clock
        BY <1>3 DEF CallInv, PollIsPast
      <4>3. QED
        BY <2>2, <4>1, <4>2
    <3>4. CallInv(h)'
      <4>1. clock' = clock /\ Deadline[w] \in Nat /\ clock \in Nat
        BY <1>2, <1>14, TimeAssumption DEF ReadOther, Rest
      <4>2. QED
        BY <3>1, <3>2, <3>3, <4>1 DEF CallInv, PollIsPast, DispatchedIsDue, EndedFirst, HasPurpose, Due, Consuming, Writing
    <3>5. QED
      BY <1>1, <1>14, <3>1, <3>4, QuietStep DEF ReadOther
  <2>3. QED
    BY <1>14, <2>1, <2>2 DEF ReadOther, Pending
<1>15. ASSUME NEW h \in Hosts, Dispatch(h) PROVE DecidedInv'
  <2>1. movedOn' = movedOn \cup {job[h].wake}
    BY <1>2, <1>3, <1>15, DispatchEnds DEF CallInv
  <2>2. /\ pc'[h] = "acknowledge" /\ job' = job /\ \A g \in Hosts \ {h} : pc'[g] = pc[g]
        /\ UNCHANGED <<fileVars, clock>>
    BY <1>2, <1>15 DEF Dispatch, Goto, PlacesType
  <2>3. CallInv(h)'
    BY <1>3, <2>1, <2>2 DEF CallInv, PollIsPast, DispatchedIsDue, EndedFirst, HasPurpose, Consuming, Writing
  <2>4. QED
    BY <1>1, <2>1, <2>2, <2>3, QuietStep
<1>16. ASSUME NEW w \in Wakes, NEW s \in Resolved, Resolve(w, s) PROVE DecidedInv'
  <2>1. \A h \in Hosts : CallInv(h)'
    BY <1>2, <1>3, <1>16, SameCall DEF Resolve
  <2>2. \A f \in Files : ConsumedIsEnded(f)'
    BY <1>16 DEF Resolve, DecidedInv, ConsumedIsEnded, Consumed, fileVars
  <2>3. QED
    BY <1>1, <2>1, <2>2 DEF DecidedInv
<1>17. ASSUME NEW h \in Hosts, Fail(h) PROVE DecidedInv'
  <2>1. CASE UNCHANGED fileVars
    BY <1>1, <1>2, <1>17, <2>1, EndedRests, OtherCalls, QuietStep DEF Fail
  <2>2. CASE CutShort(h, job[h].file)
    <3>1. PICK c \in {Now(h, job[h].file), Torn} : Put(h, job[h].file, c)
      BY <2>2 DEF CutShort
    <3>2. \A f \in Files : /\ target'[f] \in {target[f], temp[f], Torn}
                           /\ temp'[f] \in {target[f], temp[f], Torn}
      BY <1>2, <3>1, PutContents, RecordType DEF Now, Put, FilesType
    <3>3. \A w \in Wakes : Torn # Consumed(w)
      BY RecordFacts
    <3>4. QED
      BY <1>1, <1>2, <1>17, <3>2, <3>3, EndedRests, OtherCalls, FileStep DEF Fail
  <2>3. QED
    BY <1>17, <2>1, <2>2 DEF Fail
<1>18. CASE UNCHANGED vars
  <2>1. \A h \in Hosts : CallInv(h)'
    BY <1>2, <1>3, <1>18, SameCall DEF vars
  <2>2. \A f \in Files : ConsumedIsEnded(f)'
    BY <1>18 DEF vars, DecidedInv, ConsumedIsEnded, Consumed, fileVars
  <2>3. QED
    BY <1>1, <2>1, <2>2 DEF DecidedInv
<1>19. ASSUME NEW h \in Hosts, DispatchRefused(h) PROVE DecidedInv'
  <2>1. End(h) /\ UNCHANGED <<fileVars, clock, movedOn>>
    BY <1>19 DEF DispatchRefused
  <2>2. QED
    BY <1>1, <1>2, <2>1, EndedRests, OtherCalls, QuietStep
<1>20. QED
  BY <1>4, <1>5, <1>6, <1>7, <1>8, <1>9, <1>10, <1>11, <1>12, <1>13, <1>14, <1>15, <1>16, <1>17, <1>18, <1>19
     DEF Next, Step

LEMMA DecidedInvariant == Spec => []DecidedInv
BY DecidedInit, DecidedNext, PTL DEF Spec

\* acknowledgeWake follows dispatchDueWake: whatever hosts die or race, a wake
\* is marked consumed only after a decision has ended its wait.
THEOREM WakesAreUsedByDecisions == Spec => []ConsumedWhenDecided
<1>1. DecidedInv => ConsumedWhenDecided
  BY FilesAre DEF DecidedInv, ConsumedIsEnded, ConsumedWhenDecided
<1>2. QED
  BY <1>1, DecidedInvariant, PTL

\* createContinuationFork returns the fork there is: a wake that is dispatched
\* again does not undo what the owner decided of its fork.
THEOREM ForkDecisionsStand == Spec => ForkDecisionStands
<1>1. ASSUME TypeOK, [Next]_vars, NEW w \in Wakes, forks[w] \in Resolved PROVE forks'[w] \in Resolved
  <2>1. CASE forks' = forks
    BY <1>1, <2>1
  <2>2. ASSUME NEW v \in Wakes, NEW s \in Resolved, Resolve(v, s) PROVE forks'[w] \in Resolved
    BY <1>1, <2>2 DEF Resolve, TypeOK
  <2>3. ASSUME NEW h \in Hosts, Dispatch(h) PROVE forks'[w] \in Resolved
    <3>1. forks' \in {forks, Fork(job[h].wake)}
      BY <2>3 DEF Dispatch
    <3>2. QED
      BY <1>1, <3>1 DEF Fork, TypeOK, Resolved
  <2>4. QED
    BY <1>1, <2>1, <2>2, <2>3 DEF Next, Step, vars, Tick, DecideWait, BuildRecord, PersistWake, CheckWake, ScheduleWake,
       OpenTemp, FillTemp, RenameTemp, Confirm, Poll, ReadEither, ReadOther, DispatchRefused,
       Acknowledge, Fail
<1>2. TypeOK /\ [Next]_vars => [\A w \in Wakes : forks[w] \in Resolved => forks'[w] \in Resolved]_vars
  BY <1>1
<1>3. QED
  BY <1>2, WakeTypes, PTL DEF Spec, ForkDecisionStands

----------------------------------------------------------------------------
\* Where one host arms.  A schedule that is there is not replaced by another.
ScheduleStands ==
    target["schedule"] # Absent =>
        \A w \in Wakes : target'["schedule"] = Scheduled(w) => target["schedule"] = Scheduled(w)

\* A call that does not arm, write or confirm claims nothing.
LEMMA NeutralHost ==
    ASSUME NEW h \in Hosts, pc'[h] \in {"idle", "poll", "pollOther", "dispatch", "acknowledge"}
    PROVE  HostInv(h)'
BY DEF HostInv, ArmersArm, Arming, WritesNew, WakeFirst, OwnTemp, ScheduledFirst, ConsumesEnded, Consuming, Writing

LEMMA SameHost ==
    ASSUME NEW g \in Hosts, HostInv(g), pc'[g] = pc[g], job'[g] = job[g], UNCHANGED fileVars,
           movedOn \subseteq movedOn'
    PROVE  HostInv(g)'
BY DEF HostInv, ArmersArm, Arming, WritesNew, WakeFirst, OwnTemp, ScheduledFirst, ConsumesEnded, Consuming, Writing,
   fileVars, WakeRecord, Scheduled

\* A step of one host that leaves the files alone.
LEMMA QuietHost ==
    ASSUME ArmedInv, NEW h \in Hosts, UNCHANGED <<fileVars, armed>>, movedOn \subseteq movedOn',
           \A g \in Hosts \ {h} : pc'[g] = pc[g] /\ job'[g] = job[g],
           HostInv(h)'
    PROVE  ArmedInv' /\ ScheduleStands
<1>1. \A g \in Hosts \ {h} : HostInv(g)'
  BY SameHost DEF ArmedInv
<1>2. ScheduledOnce' /\ ArmedIsDurable' /\ ScheduleStands
  BY DEF ArmedInv, ScheduledOnce, ArmedIsDurable, ScheduleStands, fileVars, Scheduled, WakeRecord
<1>3. QED
  BY <1>1, <1>2 DEF ArmedInv

\* A host that consumes writes the schedule only, which its wait has no use
\* for any more, and no host that arms is about to write it.
LEMMA ConsumerStep ==
    ASSUME ArmedInv, NEW h \in Hosts, Consuming(h), UNCHANGED <<armed, movedOn>>,
           \A g \in Hosts : CallInv(g),
           \A g \in Hosts \ {h} : pc'[g] = pc[g] /\ job'[g] = job[g],
           pc'[h] = "idle" \/ (Writing(h)' /\ job'[h] = job[h]),
           target'["wake"] = target["wake"], temp'["wake"] = temp["wake"],
           \A g \in Hosts : opened'["wake"][g] = opened["wake"][g],
           target'["schedule"] # Absent,
           \A w \in Wakes : target'["schedule"] = Scheduled(w) => target["schedule"] = Scheduled(w),
           \A w \in Wakes : temp'["schedule"] # Scheduled(w),
           PlacesType, armed \subseteq Wakes
    PROVE  ArmedInv' /\ ScheduleStands
<1>1. target["schedule"] # Absent /\ \A w \in Wakes : target["schedule"] = Scheduled(w) => w \in movedOn
  BY DEF ArmedInv, HostInv, ConsumesEnded
<1>2. HostInv(h)'
  <2>1. CASE pc'[h] = "idle"
    BY <2>1, NeutralHost
  <2>2. CASE Writing(h)' /\ job'[h] = job[h]
    <3>1. job'[h].status = "CONSUMED"
      BY <2>2 DEF Consuming
    <3>2. \A w \in Wakes : target'["schedule"] = Scheduled(w) => w \in movedOn
      BY <1>1
    <3>3. QED
      BY <2>2, <3>1, <3>2 DEF HostInv, ArmersArm, Arming, WritesNew, WakeFirst, OwnTemp, ScheduledFirst,
         ConsumesEnded, Consuming, Writing, Scheduled
  <2>3. QED
    BY <2>1, <2>2
<1>3. ASSUME NEW g \in Hosts \ {h} PROVE HostInv(g)'
  <2>1. HostInv(g) /\ HasPurpose(g)
    BY DEF ArmedInv, CallInv
  <2>2. pc'[g] = pc[g] /\ job'[g] = job[g]
    OBVIOUS
  <2>3. Writing(g) /\ job[g].status # "CONSUMED" => job[g].file = "wake"
    BY <1>1, <2>1 DEF HasPurpose, Purposes, HostInv, WritesNew
  <2>4. ArmersArm(g)' /\ WritesNew(g)' /\ WakeFirst(g)'
    BY <2>1, <2>2, <2>3 DEF HostInv, ArmersArm, Arming, WritesNew, WakeFirst, Writing, WakeRecord
  <2>5. OwnTemp(g)'
    BY <2>1, <2>2, <2>3 DEF HostInv, OwnTemp, Writing
  <2>6. ScheduledFirst(g)'
    BY <1>1, <2>1, <2>2, RecordType DEF HostInv, ScheduledFirst, Scheduled
  <2>7. ConsumesEnded(g)'
    BY <1>1, <2>2 DEF ConsumesEnded, Consuming, Writing, Scheduled
  <2>8. QED
    BY <2>4, <2>5, <2>6, <2>7 DEF HostInv
<1>4. ScheduledOnce' /\ ScheduleStands
  BY DEF ScheduledOnce, ScheduleStands, Scheduled
<1>5. ArmedIsDurable'
  <2>1. \A w \in armed : w \in movedOn
    BY <1>1 DEF ArmedInv, ArmedIsDurable
  <2>2. QED
    BY <2>1 DEF ArmedIsDurable
<1>6. QED
  BY <1>2, <1>3, <1>4, <1>5 DEF ArmedInv

\* The host that arms writes what is not there, so that nothing is armed yet
\* and, if it is the schedule, no host consumes.
LEMMA ArmerStep ==
    ASSUME OneArmer, ArmedInv, NEW h \in Hosts, Writing(h), job[h].status # "CONSUMED", UNCHANGED <<armed, movedOn>>,
           job[h].file \in Files, armed \subseteq Wakes,
           \A g \in Hosts \ {h} : pc'[g] = pc[g] /\ job'[g] = job[g],
           \A e \in Files \ {job[h].file} : target'[e] = target[e] /\ temp'[e] = temp[e],
           HostInv(h)', ScheduledOnce'
    PROVE  ArmedInv' /\ ScheduleStands
<1>1. h \in Armers /\ target[job[h].file] = Absent
  BY DEF ArmedInv, HostInv, ArmersArm, Arming, WritesNew
<1>2. job[h].file = "wake" \/ job[h].file = "schedule"
  BY StoreAssumption
<1>3. ASSUME NEW g \in Hosts \ {h} PROVE HostInv(g)'
  <2>1. HostInv(g)
    BY DEF ArmedInv
  <2>2. ~Arming(g)
    BY <1>1, <2>1 DEF OneArmer, HostInv, ArmersArm
  <2>3. pc'[g] = pc[g] /\ job'[g] = job[g]
    OBVIOUS
  <2>4. ~Arming(g)'
    BY <2>2, <2>3 DEF Arming, Writing
  <2>5. Consuming(g) => job[h].file = "wake"
    BY <1>1, <1>2, <2>1 DEF HostInv, ConsumesEnded
  <2>6. ConsumesEnded(g)'
    BY <2>1, <2>3, <2>5, FilesAre DEF HostInv, ConsumesEnded, Consuming, Writing, Scheduled
  <2>7. QED
    BY <2>4, <2>6 DEF HostInv, ArmersArm, Arming, WritesNew, WakeFirst, OwnTemp, ScheduledFirst, Writing
<1>4. \A w \in armed : w \in movedOn
  BY <1>1, <1>2, RecordFacts DEF ArmedInv, ArmedIsDurable
<1>5. ArmedIsDurable' /\ ScheduleStands
  <2>1. ScheduleStands
    BY <1>1, <1>2, FilesAre DEF ScheduleStands
  <2>2. QED
    BY <1>4, <2>1 DEF ArmedIsDurable
<1>6. QED
  BY <1>3, <1>5 DEF ArmedInv

LEMMA ArmedInit == Init => ArmedInv
<1> SUFFICES ASSUME Init PROVE ArmedInv
  OBVIOUS
<1>1. \A h \in Hosts : pc[h] = "idle"
  BY DEF Init
<1>2. \A h \in Hosts : HostInv(h)
  BY <1>1 DEF HostInv, ArmersArm, Arming, WritesNew, WakeFirst, OwnTemp, ScheduledFirst, ConsumesEnded, Consuming, Writing
<1>3. ScheduledOnce /\ ArmedIsDurable
  BY FilesAre DEF Init, FilesInit, ScheduledOnce, ArmedIsDurable
<1>4. QED
  BY <1>2, <1>3 DEF ArmedInv

\* The steps of an armer's atomicJson: it opens a temporary file that is its
\* own, leaves its record in it, and puts it where there was no file.
LEMMA ArmerWrites ==
    ASSUME OneArmer, DecidedInv, ArmedInv, NEW h \in Hosts, job[h].status # "CONSUMED",
           OpenTemp(h) \/ FillTemp(h) \/ RenameTemp(h) \/ (Fail(h) /\ Writing(h))
    PROVE  ArmedInv' /\ ScheduleStands
<1> DEFINE f == job[h].file
<1>1. FilesType /\ PlacesType /\ Rest /\ CallInv(h) /\ HostInv(h)
  BY TypeParts DEF DecidedInv, ArmedInv
<1>2. f \in Files /\ h \in Writers /\ armed \subseteq Wakes
  BY <1>1, RecordType, FilesAre DEF Rest
<1>3. Writing(h) /\ UNCHANGED <<armed, movedOn>>
  BY DEF OpenTemp, FillTemp, RenameTemp, Fail, Writing
<1>4. target[f] = Absent /\ h \in Armers
  BY <1>1, <1>3 DEF HostInv, WritesNew, ArmersArm, Arming
<1>5. job[h].status = "SCHEDULED" => f = "schedule" /\ target["wake"] = WakeRecord(job[h].wake)
  BY <1>1, <1>3 DEF CallInv, HasPurpose, Purposes, HostInv, WakeFirst
<1>6. CASE OpenTemp(h)
  <2>1. /\ pc'[h] = "fill" /\ job' = job /\ (\A g \in Hosts \ {h} : pc'[g] = pc[g])
        /\ target' = target /\ temp'[f] = Empty /\ opened'[f][h] = "temp"
        /\ \A e \in Files \ {f} : temp'[e] = temp[e]
    BY <1>1, <1>2, <1>6 DEF OpenTemp, Open, Goto, PlacesType, FilesType
  <2>2. HostInv(h)'
    BY <1>3, <1>4, <1>5, <2>1 DEF HostInv, ArmersArm, Arming, WritesNew, WakeFirst, OwnTemp, ScheduledFirst,
       ConsumesEnded, Consuming, Writing, WakeRecord
  <2>3. ScheduledOnce'
    <3>1. temp'["schedule"] \in {temp["schedule"], Empty}
      BY <1>2, <2>1, FilesAre
    <3>2. QED
      BY <2>1, <3>1, RecordFacts DEF ArmedInv, ScheduledOnce, Scheduled
  <2> HIDE DEF f
  <2>4. QED
    BY <1>2, <1>3, <2>1, <2>2, <2>3, ArmerStep DEF f
<1>7. CASE FillTemp(h)
  <2>1. opened[f][h] = "temp" /\ temp[f] = Empty
    BY <1>1, <1>7 DEF FillTemp, HostInv, OwnTemp
  <2>2. Put(h, f, RecordOf(h))
    <3>1. Now(h, f) = Empty
      BY <2>1 DEF Now
    <3>2. Overwritten(Now(h, f), RecordOf(h)) = {RecordOf(h)}
      BY <3>1 DEF Overwritten
    <3>3. QED
      BY <1>7, <3>2 DEF FillTemp, Fill, RecordOf
  <2>3. /\ pc'[h] = "rename" /\ job' = job /\ (\A g \in Hosts \ {h} : pc'[g] = pc[g])
        /\ target' = target /\ temp'[f] = RecordOf(h) /\ \A e \in Files \ {f} : temp'[e] = temp[e]
    BY <1>1, <1>2, <1>7, <2>1, <2>2 DEF FillTemp, Put, Goto, PlacesType, FilesType
  <2>4. HostInv(h)'
    BY <1>3, <1>4, <1>5, <2>3 DEF HostInv, ArmersArm, Arming, WritesNew, WakeFirst, OwnTemp, ScheduledFirst,
       ConsumesEnded, Consuming, Writing, WakeRecord, RecordOf
  <2>5. ScheduledOnce'
    <3>1. target["schedule"] # Absent => temp'["schedule"] = temp["schedule"]
      BY <1>2, <1>4, <2>3, FilesAre
    <3>2. QED
      BY <2>3, <3>1 DEF ArmedInv, ScheduledOnce, Scheduled
  <2> HIDE DEF f
  <2>6. QED
    BY <1>2, <1>3, <2>3, <2>4, <2>5, ArmerStep DEF f
<1>8. CASE RenameTemp(h)
  <2>1. temp[f] = RecordOf(h)
    BY <1>1, <1>8 DEF RenameTemp, HostInv, OwnTemp, RecordOf
  <2>2. RecordOf(h) # Absent
    BY <1>1, RecordType, ContentsAssumption
  <2>3. Rename(f) /\ Goto(h, job[h].next) /\ job' = job
    BY <1>8, <2>1, <2>2 DEF RenameTemp
  <2>4. /\ pc'[h] = job[h].next /\ (\A g \in Hosts \ {h} : pc'[g] = pc[g])
        /\ target'[f] = RecordOf(h) /\ temp'[f] = Absent
        /\ \A e \in Files \ {f} : target'[e] = target[e] /\ temp'[e] = temp[e]
    BY <1>1, <1>2, <2>1, <2>3 DEF Rename, Goto, PlacesType, FilesType
  <2>5. HostInv(h)'
    <3>1. CASE job[h].next = "check"
      BY <1>4, <2>3, <2>4, <3>1 DEF HostInv, ArmersArm, Arming, WritesNew, WakeFirst, OwnTemp, ScheduledFirst,
         ConsumesEnded, Consuming, Writing
    <3>2. CASE job[h].next = "confirm" /\ job[h].status = "SCHEDULED"
      <4>1. target'["wake"] = target["wake"] /\ target'["schedule"] = Scheduled(job[h].wake)
        BY <1>5, <2>4, <3>2, FilesAre DEF RecordOf, Scheduled
      <4>2. QED
        BY <1>4, <1>5, <2>3, <2>4, <3>2, <4>1 DEF HostInv, ArmersArm, Arming, WritesNew, WakeFirst, OwnTemp,
           ScheduledFirst, ConsumesEnded, Consuming, Writing, WakeRecord, Scheduled
    <3>3. QED
      BY <1>1, <1>3, <3>1, <3>2 DEF CallInv, HasPurpose, Purposes
  <2>6. ScheduledOnce'
    <3>1. CASE f = "schedule"
      BY <2>4, <3>1, RecordFacts DEF ScheduledOnce, Scheduled
    <3>2. CASE f # "schedule"
      BY <2>4, <3>2, FilesAre DEF ArmedInv, ScheduledOnce, Scheduled
    <3>3. QED
      BY <3>1, <3>2
  <2> HIDE DEF f
  <2>7. QED
    BY <1>2, <1>3, <2>3, <2>4, <2>5, <2>6, ArmerStep DEF f
<1>9. CASE Fail(h)
  <2>1. End(h)
    BY <1>9 DEF Fail
  <2>2. pc'[h] = "idle" /\ \A g \in Hosts \ {h} : pc'[g] = pc[g] /\ job'[g] = job[g]
    BY <1>1, <2>1, EndedCall, OtherCalls
  <2>3. HostInv(h)'
    BY <2>2, NeutralHost
  <2>4. CASE UNCHANGED fileVars
    BY <1>3, <2>2, <2>3, <2>4, QuietHost
  <2>5. CASE pc[h] = "fill" /\ CutShort(h, f)
    <3>1. opened[f][h] = "temp" /\ temp[f] = Empty
      BY <1>1, <2>5 DEF HostInv, OwnTemp
    <3>2. PICK c \in {Empty, Torn} : Put(h, f, c)
      BY <2>5, <3>1 DEF CutShort, Now
    <3>3. target' = target /\ temp'[f] = c /\ \A e \in Files \ {f} : temp'[e] = temp[e]
      BY <1>1, <1>2, <3>1, <3>2 DEF Put, FilesType
    <3>4. ScheduledOnce'
      <4>1. temp'["schedule"] \in {temp["schedule"], Empty, Torn}
        BY <1>2, <3>3, FilesAre
      <4>2. QED
        BY <3>3, <4>1, RecordFacts DEF ArmedInv, ScheduledOnce, Scheduled
    <3> HIDE DEF f
    <3>5. QED
      BY <1>2, <1>3, <2>2, <2>3, <3>3, <3>4, ArmerStep DEF f
  <2>6. QED
    BY <1>9, <2>4, <2>5 DEF Fail
<1>10. QED
  BY <1>6, <1>7, <1>8, <1>9

\* The steps of a consumer's atomicJson: consumers share the temporary file,
\* which contains no schedule but the consumed one.
LEMMA ConsumerWrites ==
    ASSUME DecidedInv, ArmedInv, NEW h \in Hosts, job[h].status = "CONSUMED",
           OpenTemp(h) \/ FillTemp(h) \/ RenameTemp(h) \/ (Fail(h) /\ Writing(h))
    PROVE  ArmedInv' /\ ScheduleStands
<1>1. FilesType /\ PlacesType /\ Rest /\ CallInv(h) /\ HostInv(h) /\ \A g \in Hosts : CallInv(g)
  BY TypeParts DEF DecidedInv, ArmedInv
<1>2. Consuming(h) /\ Writing(h) /\ UNCHANGED <<armed, movedOn>> /\ armed \subseteq Wakes
  BY <1>1 DEF OpenTemp, FillTemp, RenameTemp, Fail, Consuming, Writing, Rest
<1>3. job[h].file = "schedule" /\ job[h].next = "idle"
  BY <1>1, <1>2 DEF CallInv, HasPurpose, Purposes
<1>4. target["schedule"] # Absent /\ \A w \in Wakes : temp["schedule"] # Scheduled(w)
  BY <1>1, <1>2 DEF HostInv, ConsumesEnded, ArmedInv, ScheduledOnce
<1>5. Torn # Absent /\ Empty # Absent /\ RecordOf(h) # Absent
  BY <1>1, RecordType, ContentsAssumption
<1>6. \A w \in Wakes : Scheduled(w) \notin {Torn, Empty, RecordOf(h)}
  BY RecordFacts DEF Scheduled, RecordOf
<1>7. CASE OpenTemp(h)
  <2>1. /\ pc'[h] = "fill" /\ job' = job /\ (\A g \in Hosts \ {h} : pc'[g] = pc[g])
        /\ target' = target /\ temp'["schedule"] = Empty /\ temp'["wake"] = temp["wake"]
        /\ \A g \in Hosts : opened'["wake"][g] = opened["wake"][g]
    BY <1>1, <1>3, <1>7, FilesAre DEF OpenTemp, Open, Goto, PlacesType, FilesType
  <2>2. QED
    BY <1>1, <1>2, <1>4, <1>6, <2>1, ConsumerStep DEF Writing
<1>8. ASSUME NEW c \in {Now(h, "schedule"), Torn, RecordOf(h)}, Put(h, "schedule", c),
             \A g \in Hosts \ {h} : pc'[g] = pc[g] /\ job'[g] = job[g],
             pc'[h] = "idle" \/ (Writing(h)' /\ job'[h] = job[h])
      PROVE  ArmedInv' /\ ScheduleStands
  <2>1. /\ target'["wake"] = target["wake"] /\ temp'["wake"] = temp["wake"]
        /\ \A g \in Hosts : opened'["wake"][g] = opened["wake"][g]
    BY <1>1, <1>8, FilesAre DEF Put, FilesType
  <2>2. target'["schedule"] \in {target["schedule"], Torn, RecordOf(h)}
    BY <1>1, <1>8, FilesAre DEF Put, FilesType, Now
  <2>3. temp'["schedule"] \in {temp["schedule"], Torn, RecordOf(h)}
    BY <1>1, <1>8, FilesAre DEF Put, FilesType, Now
  <2>4. QED
    BY <1>1, <1>2, <1>4, <1>5, <1>6, <1>8, <2>1, <2>2, <2>3, ConsumerStep
<1>9. CASE FillTemp(h)
  <2>1. PICK c \in {RecordOf(h), Torn} : Put(h, "schedule", c)
    BY <1>3, <1>9 DEF FillTemp, Fill, Overwritten, RecordOf
  <2>2. pc'[h] = "rename" /\ job' = job /\ \A g \in Hosts \ {h} : pc'[g] = pc[g]
    BY <1>1, <1>9 DEF FillTemp, Goto, PlacesType
  <2>3. QED
    BY <1>8, <2>1, <2>2 DEF Writing
<1>10. ASSUME End(h) PROVE pc'[h] = "idle" /\ \A g \in Hosts \ {h} : pc'[g] = pc[g] /\ job'[g] = job[g]
  BY <1>1, <1>10, EndedCall, OtherCalls
<1>11. CASE End(h) /\ UNCHANGED fileVars
  <2>1. HostInv(h)'
    BY <1>10, <1>11, NeutralHost
  <2>2. QED
    BY <1>2, <1>10, <1>11, <2>1, QuietHost
<1>12. CASE RenameTemp(h) /\ ~(End(h) /\ UNCHANGED fileVars)
  <2>1. Rename("schedule") /\ Goto(h, "idle") /\ job' = job
    BY <1>3, <1>12 DEF RenameTemp
  <2>2. /\ pc'[h] = "idle" /\ (\A g \in Hosts \ {h} : pc'[g] = pc[g])
        /\ target'["schedule"] = temp["schedule"] /\ temp["schedule"] # Absent /\ temp'["schedule"] = Absent
        /\ target'["wake"] = target["wake"] /\ temp'["wake"] = temp["wake"]
        /\ \A g \in Hosts : opened'["wake"][g] = opened["wake"][g]
    BY <1>1, <2>1, FilesAre DEF Rename, Goto, PlacesType, FilesType
  <2>3. \A w \in Wakes : Absent # Scheduled(w)
    BY RecordFacts
  <2>4. QED
    BY <1>1, <1>2, <1>4, <2>1, <2>2, <2>3, ConsumerStep
<1>13. CASE Fail(h) /\ ~UNCHANGED fileVars
  <2>1. PICK c \in {Now(h, "schedule"), Torn} : Put(h, "schedule", c)
    BY <1>3, <1>13 DEF Fail, CutShort
  <2>2. End(h)
    BY <1>13 DEF Fail
  <2>3. QED
    BY <1>8, <1>10, <2>1, <2>2
<1>14. QED
  BY <1>7, <1>9, <1>11, <1>12, <1>13 DEF Fail

LEMMA ArmedNext ==
    ASSUME OneArmer, DecidedInv, ArmedInv, [Next]_vars
    PROVE  ArmedInv' /\ ScheduleStands
<1>1. FilesType /\ PlacesType /\ Rest /\ \A h \in Hosts : CallInv(h) /\ HostInv(h)
  BY TypeParts DEF DecidedInv, ArmedInv
<1>2. ASSUME NEW h \in Hosts, HostInv(h)', UNCHANGED <<fileVars, armed, movedOn>>,
             \A g \in Hosts \ {h} : pc'[g] = pc[g] /\ job'[g] = job[g]
      PROVE  ArmedInv' /\ ScheduleStands
  BY <1>2, QuietHost
<1>3. ASSUME NEW h \in Hosts, End(h)
      PROVE  HostInv(h)' /\ \A g \in Hosts \ {h} : pc'[g] = pc[g] /\ job'[g] = job[g]
  BY <1>1, <1>3, EndedCall, OtherCalls, NeutralHost
<1>4. ASSUME UNCHANGED <<fileVars, pc, job, armed, movedOn>> PROVE ArmedInv' /\ ScheduleStands
  <2>1. \A h \in Hosts : HostInv(h)'
    BY <1>1, <1>4, SameHost
  <2>2. ScheduledOnce' /\ ArmedIsDurable' /\ ScheduleStands
    BY <1>4 DEF ArmedInv, ScheduledOnce, ArmedIsDurable, ScheduleStands, fileVars, Scheduled, WakeRecord
  <2>3. QED
    BY <2>1, <2>2 DEF ArmedInv
<1>5. CASE Tick \/ UNCHANGED vars \/ \E w \in Wakes, s \in Resolved : Resolve(w, s)
  BY <1>4, <1>5 DEF Tick, Resolve, vars
<1>6. ASSUME NEW h \in Hosts, NEW w \in Wakes, DecideWait(h, w) PROVE ArmedInv' /\ ScheduleStands
  <2>1. pc'[h] = "decided" /\ h \in Armers /\ \A g \in Hosts \ {h} : pc'[g] = pc[g] /\ job'[g] = job[g]
    BY <1>1, <1>6 DEF DecideWait, Goto, PlacesType
  <2>2. HostInv(h)'
    BY <2>1 DEF HostInv, ArmersArm, Arming, WritesNew, WakeFirst, OwnTemp, ScheduledFirst, ConsumesEnded, Consuming, Writing
  <2>3. QED
    BY <1>2, <1>6, <2>1, <2>2 DEF DecideWait
<1>7. ASSUME NEW h \in Hosts, BuildRecord(h) PROVE ArmedInv' /\ ScheduleStands
  <2>1. CASE Goto(h, "persist") /\ UNCHANGED job
    <3>1. pc'[h] = "persist" /\ h \in Armers /\ \A g \in Hosts \ {h} : pc'[g] = pc[g]
      BY <1>1, <1>7, <2>1 DEF BuildRecord, Goto, PlacesType, HostInv, ArmersArm, Arming
    <3>2. HostInv(h)'
      BY <3>1 DEF HostInv, ArmersArm, Arming, WritesNew, WakeFirst, OwnTemp, ScheduledFirst, ConsumesEnded, Consuming, Writing
    <3>3. QED
      BY <1>2, <1>7, <2>1, <3>1, <3>2 DEF BuildRecord
  <2>2. CASE End(h)
    BY <1>2, <1>3, <1>7, <2>2 DEF BuildRecord
  <2>3. QED
    BY <1>7, <2>1, <2>2 DEF BuildRecord
<1>8. ASSUME NEW h \in Hosts, PersistWake(h) PROVE ArmedInv' /\ ScheduleStands
  <2>1. h \in Armers
    BY <1>1, <1>8 DEF PersistWake, HostInv, ArmersArm, Arming
  <2>2. CASE target["wake"] = Absent /\ Save(h, "wake", "WAKE", "check")
    <3>1. pc'[h] = "open" /\ job'[h].file = "wake" /\ job'[h].status = "WAKE"
      BY <1>1, <2>2, SavedCall, FilesAre DEF Statuses, Phases
    <3>2. target' = target
      BY <1>8 DEF PersistWake, fileVars
    <3>3. HostInv(h)'
      BY <2>1, <2>2, <3>1, <3>2 DEF HostInv, ArmersArm, Arming, WritesNew, WakeFirst, OwnTemp, ScheduledFirst,
         ConsumesEnded, Consuming, Writing
    <3>4. \A g \in Hosts \ {h} : pc'[g] = pc[g] /\ job'[g] = job[g]
      BY <1>1, <2>2, OtherCalls
    <3>5. QED
      BY <1>2, <1>8, <3>3, <3>4 DEF PersistWake
  <2>3. CASE Goto(h, "check") /\ UNCHANGED job
    <3>1. pc'[h] = "check" /\ \A g \in Hosts \ {h} : pc'[g] = pc[g]
      BY <1>1, <2>3 DEF Goto, PlacesType
    <3>2. HostInv(h)'
      BY <2>1, <3>1 DEF HostInv, ArmersArm, Arming, WritesNew, WakeFirst, OwnTemp, ScheduledFirst, ConsumesEnded,
         Consuming, Writing
    <3>3. QED
      BY <1>2, <1>8, <2>3, <3>1, <3>2 DEF PersistWake
  <2>4. CASE End(h)
    BY <1>2, <1>3, <1>8, <2>4 DEF PersistWake
  <2>5. QED
    BY <1>8, <2>2, <2>3, <2>4 DEF PersistWake
<1>9. ASSUME NEW h \in Hosts, CheckWake(h) PROVE ArmedInv' /\ ScheduleStands
  <2>1. h \in Armers
    BY <1>1, <1>9 DEF CheckWake, HostInv, ArmersArm, Arming
  <2>2. CASE target["wake"] = WakeRecord(job[h].wake) /\ Goto(h, "schedule") /\ UNCHANGED job
    <3>1. /\ pc'[h] = "schedule" /\ target' = target /\ job' = job
          /\ \A g \in Hosts \ {h} : pc'[g] = pc[g]
      BY <1>1, <1>9, <2>2 DEF CheckWake, Goto, PlacesType, fileVars
    <3>2. HostInv(h)'
      BY <2>1, <2>2, <3>1 DEF HostInv, ArmersArm, Arming, WritesNew, WakeFirst, OwnTemp, ScheduledFirst, ConsumesEnded,
         Consuming, Writing, WakeRecord
    <3>3. QED
      BY <1>2, <1>9, <3>1, <3>2 DEF CheckWake
  <2>3. CASE End(h)
    BY <1>2, <1>3, <1>9, <2>3 DEF CheckWake
  <2>4. QED
    BY <1>9, <2>2, <2>3 DEF CheckWake
<1>10. ASSUME NEW h \in Hosts, ScheduleWake(h) PROVE ArmedInv' /\ ScheduleStands
  <2>1. h \in Armers /\ target["wake"] = WakeRecord(job[h].wake) /\ target' = target
    BY <1>1, <1>10 DEF ScheduleWake, HostInv, ArmersArm, Arming, WakeFirst, fileVars
  <2>2. CASE target["schedule"] = Absent /\ Save(h, "schedule", "SCHEDULED", "confirm")
    <3>1. /\ pc'[h] = "open" /\ job'[h].file = "schedule" /\ job'[h].status = "SCHEDULED"
          /\ job'[h].wake = job[h].wake
      BY <1>1, <2>2, SavedCall, FilesAre DEF Statuses, Phases
    <3>2. HostInv(h)'
      BY <2>1, <2>2, <3>1 DEF HostInv, ArmersArm, Arming, WritesNew, WakeFirst, OwnTemp, ScheduledFirst,
         ConsumesEnded, Consuming, Writing, WakeRecord
    <3>3. \A g \in Hosts \ {h} : pc'[g] = pc[g] /\ job'[g] = job[g]
      BY <1>1, <2>2, OtherCalls
    <3>4. QED
      BY <1>2, <1>10, <3>2, <3>3 DEF ScheduleWake
  <2>3. CASE target["schedule"] = Scheduled(job[h].wake) /\ Goto(h, "confirm") /\ UNCHANGED job
    <3>1. pc'[h] = "confirm" /\ job' = job /\ \A g \in Hosts \ {h} : pc'[g] = pc[g]
      BY <1>1, <2>3 DEF Goto, PlacesType
    <3>2. HostInv(h)'
      BY <2>1, <2>3, <3>1 DEF HostInv, ArmersArm, Arming, WritesNew, WakeFirst, OwnTemp, ScheduledFirst, ConsumesEnded,
         Consuming, Writing, WakeRecord, Scheduled
    <3>3. QED
      BY <1>2, <1>10, <3>1, <3>2 DEF ScheduleWake
  <2>4. CASE End(h)
    BY <1>2, <1>3, <1>10, <2>4 DEF ScheduleWake
  <2>5. QED
    BY <1>10, <2>2, <2>3, <2>4 DEF ScheduleWake
<1>11. ASSUME NEW h \in Hosts, OpenTemp(h) \/ FillTemp(h) \/ RenameTemp(h) \/ (Fail(h) /\ Writing(h))
       PROVE  ArmedInv' /\ ScheduleStands
  BY <1>11, ArmerWrites, ConsumerWrites
<1>12. ASSUME NEW h \in Hosts, Confirm(h) PROVE ArmedInv' /\ ScheduleStands
  <2>1. /\ HostInv(h)' /\ (\A g \in Hosts \ {h} : pc'[g] = pc[g] /\ job'[g] = job[g])
        /\ UNCHANGED <<fileVars, movedOn>> /\ armed' = armed \cup {job[h].wake}
    BY <1>3, <1>12 DEF Confirm
  <2>2. \A g \in Hosts : HostInv(g)'
    BY <1>1, <2>1, SameHost
  <2>3. /\ target["wake"] = WakeRecord(job[h].wake)
        /\ target["schedule"] = Scheduled(job[h].wake) \/ job[h].wake \in movedOn
    BY <1>1, <1>12 DEF Confirm, HostInv, WakeFirst, ScheduledFirst
  <2>4. ArmedIsDurable'
    BY <2>1, <2>3 DEF ArmedInv, ArmedIsDurable, fileVars, WakeRecord, Scheduled
  <2>5. ScheduledOnce' /\ ScheduleStands
    BY <2>1 DEF ArmedInv, ScheduledOnce, ScheduleStands, fileVars, Scheduled
  <2>6. QED
    BY <2>2, <2>4, <2>5 DEF ArmedInv
<1>13. ASSUME NEW h \in Hosts, Poll(h) \/ ReadOther(h) \/ \E f \in Files : ReadEither(h, f)
       PROVE  ArmedInv' /\ ScheduleStands
  <2>1. pc'[h] \in {"idle", "poll", "pollOther", "dispatch"} /\ \A g \in Hosts \ {h} : pc'[g] = pc[g] /\ job'[g] = job[g]
    BY <1>1, <1>13 DEF Poll, ReadOther, ReadEither, Goto, End, PlacesType
  <2>2. QED
    BY <1>2, <1>13, <2>1, NeutralHost DEF Poll, ReadOther, ReadEither
<1>14. ASSUME NEW h \in Hosts, Dispatch(h) PROVE ArmedInv' /\ ScheduleStands
  <2>1. movedOn \subseteq movedOn'
    BY <1>1, <1>14, DispatchEnds DEF CallInv
  <2>2. pc'[h] = "acknowledge" /\ \A g \in Hosts \ {h} : pc'[g] = pc[g]
    BY <1>1, <1>14 DEF Dispatch, Goto, PlacesType
  <2>3. HostInv(h)'
    BY <2>2, NeutralHost
  <2>4. QED
    BY <1>14, <2>1, <2>2, <2>3, QuietHost DEF Dispatch
<1>15. ASSUME NEW h \in Hosts, Acknowledge(h) PROVE ArmedInv' /\ ScheduleStands
  <2>1. CASE target["schedule"] = Scheduled(job[h].wake) /\ Save(h, "schedule", "CONSUMED", "idle")
    <3>1. pc'[h] = "open" /\ job'[h].file = "schedule" /\ job'[h].status = "CONSUMED"
      BY <1>1, <2>1, SavedCall, FilesAre DEF Statuses, Phases
    <3>2. job[h].wake \in movedOn /\ job[h].wake \in Wakes
      BY <1>1, <1>15, RecordType DEF Acknowledge, CallInv, EndedFirst
    <3>3. target' = target /\ movedOn' = movedOn
      BY <1>15 DEF Acknowledge, fileVars
    <3>4. ConsumesEnded(h)'
      <4>1. target["schedule"] # Absent /\ \A w \in Wakes : target["schedule"] = Scheduled(w) => w \in movedOn
        BY <2>1, <3>2, RecordFacts
      <4>2. QED
        BY <3>3, <4>1 DEF ConsumesEnded, Scheduled
    <3>5. HostInv(h)'
      BY <3>1, <3>4 DEF HostInv, ArmersArm, Arming, WritesNew, WakeFirst, OwnTemp, ScheduledFirst, Writing
    <3>6. \A g \in Hosts \ {h} : pc'[g] = pc[g] /\ job'[g] = job[g]
      BY <1>1, <2>1, OtherCalls
    <3>7. QED
      BY <1>2, <1>15, <3>5, <3>6 DEF Acknowledge
  <2>2. CASE End(h)
    BY <1>2, <1>3, <1>15, <2>2 DEF Acknowledge
  <2>3. QED
    BY <1>15, <2>1, <2>2 DEF Acknowledge
<1>16. ASSUME NEW h \in Hosts, Fail(h), ~Writing(h) PROVE ArmedInv' /\ ScheduleStands
  <2>1. UNCHANGED <<fileVars, armed, movedOn>> /\ End(h)
    BY <1>16 DEF Fail, Writing
  <2>2. QED
    BY <1>2, <1>3, <2>1
<1>17. ASSUME NEW h \in Hosts, DispatchRefused(h) PROVE ArmedInv' /\ ScheduleStands
  <2>1. UNCHANGED <<fileVars, armed, movedOn>> /\ End(h)
    BY <1>17 DEF DispatchRefused
  <2>2. QED
    BY <1>2, <1>3, <2>1
<1>18. QED
  BY <1>5, <1>6, <1>7, <1>8, <1>9, <1>10, <1>11, <1>12, <1>13, <1>14, <1>15, <1>16,
     <1>17 DEF Next, Step

LEMMA ArmedInvariant == ASSUME OneArmer PROVE Spec => []ArmedInv
<1>1. DecidedInv /\ ArmedInv /\ [Next]_vars => ArmedInv'
  BY ArmedNext
<1>2. QED
  BY <1>1, ArmedInit, DecidedInvariant, PTL DEF Spec

\* armOwnerTimeout: once it has resolved, and until a decision ends the wait,
\* wake and schedule are in their files for a poll to find, whatever host dies
\* and whoever polls meanwhile, where one host arms wakes.
THEOREM ArmedStaysDurable == ASSUME OneArmer PROVE Spec => []ArmedIsDurable
<1>1. ArmedInv => ArmedIsDurable
  BY DEF ArmedInv
<1>2. QED
  BY <1>1, ArmedInvariant, PTL

\* scheduleWake: a consumed wake does not become pending again, where one host
\* arms wakes.
THEOREM ConsumedStaysConsumed == ASSUME OneArmer PROVE Spec => NoReplay
<1>1. DecidedInv /\ ArmedInv /\ [Next]_vars =>
          [\A w \in Wakes : target["schedule"] = Consumed(w) => target'["schedule"] # Scheduled(w)]_vars
  BY ArmedNext, RecordFacts DEF ScheduleStands
<1>2. QED
  BY <1>1, ArmedInvariant, DecidedInvariant, PTL DEF Spec, NoReplay

==============================================================================

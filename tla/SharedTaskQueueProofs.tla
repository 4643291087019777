------------------------- MODULE SharedTaskQueueProofs -------------------------
(***************************************************************************)
(* What the run of MCSharedTaskQueue shows for two agents and three tasks, *)
(* proved for any agents, tasks, scopes, leases and times.                 *)
(***************************************************************************)
EXTENDS SharedTaskQueue, TLAPS

USE TimesAssumption, NamesAssumption

----------------------------------------------------------------------------
Ops == [task : Tasks, expiresAt : Times, next : SUBSET Reservations, fresh : BOOLEAN, ok : BOOLEAN]

LEMMA NoOpType == NoOp \in Ops
<1>1. 0 \in Times /\ {} \in SUBSET Reservations
  BY DEF Times
<1>2. (CHOOSE t \in Tasks : TRUE) \in Tasks
  OBVIOUS
<1>3. QED
  BY <1>1, <1>2 DEF NoOp, Ops

LEMMA TypeInit == Init => TypeOK
<1> SUFFICES ASSUME Init PROVE TypeOK
  OBVIOUS
<1>2. NoClaim \in Claims /\ NoLedger \in Ledgers
  BY DEF NoClaim, NoLedger, Claims, Ledgers, Files, Times
<1>3. claims \in [Tasks -> Claims] /\ ledger \in Ledgers /\ op \in [Agents -> Ops]
  BY <1>2, NoOpType DEF Init
<1>4. clock \in 0..MaxTime /\ latest \in 0..(clock + MaxAhead) /\ results \in [Tasks -> Files] /\ pc \in [Agents -> Phases]
  BY DEF Init, Files, Phases
<1>5. ready \subseteq Tasks /\ locked \in BOOLEAN /\ answers \subseteq Agents \X Tasks \X Files
      /\ handed \subseteq Tasks
  BY DEF Init
<1>6. QED
  BY <1>3, <1>4, <1>5 DEF TypeOK, Ops

LEMMA OkType ==
    ASSUME op \in [Agents -> Ops], NEW a \in Agents
    PROVE  [op EXCEPT ![a].ok = TRUE] \in [Agents -> Ops]
BY DEF Ops

LEMMA TypeNext == TypeOK /\ [Next]_vars => TypeOK'
<1> SUFFICES ASSUME TypeOK, [Next]_vars PROVE TypeOK'
  OBVIOUS
<1> USE DEF TypeOK, Ops, Goto, Phases
<1>1. CASE Tick
  BY <1>1 DEF Tick
<1>2. ASSUME NEW t \in Tasks, Enqueue(t) PROVE TypeOK'
  BY <1>2 DEF Enqueue
<1>3. ASSUME NEW a \in Agents, Lock(a, "claim") \/ Lock(a, "complete") PROVE TypeOK'
  BY <1>3 DEF Lock
<1>4. ASSUME NEW a \in Agents, NEW t \in Tasks, NEW now \in Dates, NEW lease \in 1..MaxLease,
             CheckClaim(a, t, now, lease)
      PROVE  TypeOK'
  <2>1. now + lease \in Times
    BY DEF Times, Dates
  <2>2. Active(now) \cup {[task |-> t, expiresAt |-> now + lease]} \in SUBSET Reservations
    BY <2>1 DEF Active, Reservations, Ledgers
  <2>3. op' \in [Agents -> Ops]
    BY <1>4, <2>1, <2>2 DEF CheckClaim
  <2>4. latest' \in 0..(clock + MaxAhead)
    BY <1>4 DEF CheckClaim, Dates
  <2>5. QED
    BY <1>4, <2>3, <2>4 DEF CheckClaim
<1>5. ASSUME NEW a \in Agents, NEW t \in Tasks, NEW now \in Dates, CheckResult(a, t, now)
      PROVE  TypeOK'
  <2>1. {r \in ledger.reservations : r.task # t} \in SUBSET Reservations /\ 0 \in Times
    BY DEF Ledgers, Times
  <2>2. op' \in [Agents -> Ops]
    BY <1>5, <2>1 DEF CheckResult
  <2>3. QED
    BY <1>5, <2>2 DEF CheckResult
<1>6. ASSUME NEW a \in Agents, Refuse(a) PROVE TypeOK'
  <2>1. op' \in [Agents -> Ops]
    BY <1>6 DEF Refuse
  <2>2. QED
    BY <1>6, <2>1 DEF Refuse
<1>7. ASSUME NEW a \in Agents, NEW from \in Phases, NEW to \in Phases, WriteLedger(a, from, to)
      PROVE  TypeOK'
  <2>1. Whole(op[a].next) \in Ledgers /\ Torn \in Ledgers
    BY DEF Whole, Torn, Ledgers, Files
  <2>2. ledger' \in Ledgers /\ pc' \in [Agents -> Phases]
    BY <1>7, <2>1 DEF WriteLedger
  <2>3. QED
    BY <1>7, <2>2 DEF WriteLedger
<1>8. ASSUME NEW a \in Agents, WriteClaim(a) PROVE TypeOK'
  <2>1. [file |-> "whole", agent |-> a, expiresAt |-> op[a].expiresAt] \in Claims
    BY DEF Claims, Files
  <2>2. [claims EXCEPT ![op[a].task].file = "torn"] \in [Tasks -> Claims]
    <3>1. op[a].task \in Tasks /\ claims[op[a].task] \in Claims
      OBVIOUS
    <3>2. [claims[op[a].task] EXCEPT !.file = "torn"] \in Claims
      BY <3>1 DEF Claims, Files
    <3>3. [claims EXCEPT ![op[a].task].file = "torn"]
            = [claims EXCEPT ![op[a].task] = [claims[op[a].task] EXCEPT !.file = "torn"]]
      OBVIOUS
    <3>4. QED
      BY <3>1, <3>2, <3>3
  <2>3. claims' \in [Tasks -> Claims]
    BY <1>8, <2>1, <2>2 DEF WriteClaim
  <2>4. op' \in [Agents -> Ops] /\ pc' \in [Agents -> Phases]
    <3>1. op' = [op EXCEPT ![a].ok = TRUE] \/ op' = op
      BY <1>8 DEF WriteClaim
    <3>2. pc' = [pc EXCEPT ![a] = "unlock"] \/ pc' = [pc EXCEPT ![a] = "undo"]
      BY <1>8 DEF WriteClaim
    <3>3. op' \in [Agents -> Ops]
      BY <3>1, OkType
    <3>4. pc' \in [Agents -> Phases]
      BY <3>2
    <3>5. QED
      BY <3>3, <3>4
  <2>5. QED
    BY <1>8, <2>3, <2>4 DEF WriteClaim
<1>9. ASSUME NEW a \in Agents, WriteResult(a) PROVE TypeOK'
  <2>1. results' \in [Tasks -> Files]
    BY <1>9 DEF WriteResult, Files
  <2>2. op' \in [Agents -> Ops] /\ pc' \in [Agents -> Phases]
    <3>1. op' = [op EXCEPT ![a].ok = TRUE] \/ op' = op
      BY <1>9 DEF WriteResult
    <3>2. pc' = [pc EXCEPT ![a] = "unlock"] \/ pc' = [pc EXCEPT ![a] = "undo"]
      BY <1>9 DEF WriteResult
    <3>3. op' \in [Agents -> Ops]
      BY <3>1, OkType
    <3>4. pc' \in [Agents -> Phases]
      BY <3>2
    <3>5. QED
      BY <3>3, <3>4
  <2>3. QED
    BY <1>9, <2>1, <2>2 DEF WriteResult
<1>10. ASSUME NEW a \in Agents, Undo(a) PROVE TypeOK'
  <2>1. NoLedger \in Ledgers
    BY DEF NoLedger, Ledgers, Files
  <2>2. QED
    BY <1>10, <2>1 DEF Undo
<1>11. ASSUME NEW a \in Agents, Unlock(a) PROVE TypeOK'
  <2>1. <<a, op[a].task, results[op[a].task]>> \in Agents \X Tasks \X Files
    OBVIOUS
  <2>2. answers' \subseteq Agents \X Tasks \X Files /\ locked' \in BOOLEAN
    BY <1>11, <2>1 DEF Unlock
  <2>3. op' \in [Agents -> Ops] /\ pc' \in [Agents -> Phases]
    BY <1>11, NoOpType DEF Unlock
  <2>4. QED
    BY <1>11, <2>2, <2>3 DEF Unlock
<1>12. ASSUME NEW a \in Agents, Crash(a) PROVE TypeOK'
  <2>1. op' \in [Agents -> Ops] /\ pc' \in [Agents -> Phases]
    BY <1>12, NoOpType DEF Crash
  <2>2. QED
    BY <1>12, <2>1 DEF Crash
<1>13. CASE ClearLock
  BY <1>13 DEF ClearLock
<1>14. CASE UNCHANGED vars
  BY <1>14 DEF vars
<1>15. QED
  BY <1>1, <1>2, <1>3, <1>4, <1>5, <1>6, <1>7, <1>8, <1>9, <1>10, <1>11, <1>12, <1>13, <1>14
  DEF Next, ClaimStep, CompleteStep

(* The variables of the queue keep their types. *)
THEOREM QueueTypes == Spec => []TypeOK
BY TypeInit, TypeNext, PTL DEF Spec

----------------------------------------------------------------------------
LEMMA ExclusiveInit == Init => QueueExclusive
BY DEF Init, QueueExclusive

LEMMA ExclusiveNext == TypeOK /\ QueueExclusive /\ [Next]_vars => QueueExclusive'
<1> SUFFICES ASSUME TypeOK, QueueExclusive, [Next]_vars PROVE QueueExclusive'
  OBVIOUS
<1> USE DEF QueueExclusive, Goto
<1>1. pc \in [Agents -> Phases]
  BY DEF TypeOK
<1>2. ASSUME NEW a \in Agents, NEW p \in Phases, Lock(a, p) PROVE QueueExclusive'
  BY <1>1, <1>2 DEF Lock
<1>3. ASSUME NEW a \in Agents, pc[a] # "idle", locked' = locked,
             NEW p \in Phases, pc' = [pc EXCEPT ![a] = p]
      PROVE  QueueExclusive'
  BY <1>1, <1>3
<1>4. ASSUME NEW a \in Agents, ClaimStep(a) PROVE QueueExclusive'
  <2>1. CASE Lock(a, "claim")
    BY <2>1, <1>2 DEF Phases
  <2>2. CASE \E t \in Tasks, claimedAt \in Dates, lease \in 1..MaxLease : CheckClaim(a, t, claimedAt, lease)
    BY <2>2, <1>3 DEF CheckClaim, Phases
  <2>3. CASE WriteLedger(a, "claimLedger", "claimFile")
    BY <2>3, <1>3 DEF WriteLedger, Phases
  <2>4. CASE WriteClaim(a)
    BY <2>4, <1>3 DEF WriteClaim, Phases
  <2>5. QED
    BY <1>4, <2>1, <2>2, <2>3, <2>4 DEF ClaimStep
<1>5. ASSUME NEW a \in Agents, CompleteStep(a) PROVE QueueExclusive'
  <2>1. CASE Lock(a, "complete")
    BY <2>1, <1>2 DEF Phases
  <2>2. CASE \E t \in Tasks, completedAt \in Dates : CheckResult(a, t, completedAt)
    BY <2>2, <1>3 DEF CheckResult, Phases
  <2>3. CASE WriteLedger(a, "resultLedger", "resultFile")
    BY <2>3, <1>3 DEF WriteLedger, Phases
  <2>4. CASE WriteResult(a)
    BY <2>4, <1>3 DEF WriteResult, Phases
  <2>5. QED
    BY <1>5, <2>1, <2>2, <2>3, <2>4 DEF CompleteStep
<1>6. ASSUME NEW a \in Agents, Refuse(a) \/ Undo(a) \/ Crash(a) PROVE QueueExclusive'
  BY <1>6, <1>3 DEF Refuse, Undo, Crash, Phases
<1>7. ASSUME NEW a \in Agents, Unlock(a) PROVE QueueExclusive'
  BY <1>1, <1>7 DEF Unlock
<1>8. CASE Tick \/ (\E t \in Tasks : Enqueue(t)) \/ ClearLock \/ UNCHANGED vars
  BY <1>8 DEF Tick, Enqueue, ClearLock, vars
<1>9. QED
  BY <1>4, <1>5, <1>6, <1>7, <1>8 DEF Next

(* At most one command is between taking the lock and removing it, whichever  *)
(* processes die and whoever clears the locks they leave.                     *)
THEOREM OneCommandUnderLock == Spec => []QueueExclusive
<1>1. Init => TypeOK /\ QueueExclusive
  BY TypeInit, ExclusiveInit
<1>2. TypeOK /\ QueueExclusive /\ [Next]_vars => (TypeOK /\ QueueExclusive)'
  BY TypeNext, ExclusiveNext
<1>3. QED
  BY <1>1, <1>2, PTL DEF Spec

----------------------------------------------------------------------------
\* What makes LedgerDisjoint inductive: what a command is about to write is
\* disjoint as well.
LedgerInv == LedgerDisjoint /\ \A a \in Agents : pc[a] \in {"claimLedger", "resultLedger"} => Disjoint(op[a].next)

LEMMA OverlapSymmetric == \A t, u : Overlap(t, u) <=> Overlap(u, t)
BY DEF Overlap

LEMMA DisjointSubset == \A rs : \A some \in SUBSET rs : Disjoint(rs) => Disjoint(some)
BY DEF Disjoint

LEMMA DisjointAdd ==
    ASSUME NEW rs, Disjoint(rs), NEW new, \A r \in rs : ~Overlap(new.task, r.task)
    PROVE  Disjoint(rs \cup {new})
BY OverlapSymmetric DEF Disjoint

LEMMA LedgerInit == Init => LedgerInv
BY DEF Init, LedgerInv, LedgerDisjoint, Disjoint, NoLedger

LEMMA LedgerNext == TypeOK /\ LedgerInv /\ [Next]_vars => LedgerInv'
<1> SUFFICES ASSUME TypeOK, LedgerInv, [Next]_vars PROVE LedgerInv'
  OBVIOUS
<1> USE DEF LedgerInv, LedgerDisjoint, Goto
<1>1. pc \in [Agents -> Phases] /\ op \in [Agents -> Ops]
  BY DEF TypeOK, Ops
<1>2. ASSUME NEW a \in Agents, NEW p, ledger' = ledger, pc' = [pc EXCEPT ![a] = p],
             p \notin {"claimLedger", "resultLedger"},
             \A b \in Agents : op'[b].next = op[b].next \/ b = a
      PROVE  LedgerInv'
  BY <1>1, <1>2 DEF Disjoint
<1>2a. ASSUME NEW a \in Agents, Disjoint(ledger'.reservations), op' = op, NEW p,
              pc' = [pc EXCEPT ![a] = p], p \notin {"claimLedger", "resultLedger"}
       PROVE  LedgerInv'
  BY <1>1, <1>2a DEF Disjoint
<1>3. ASSUME NEW a \in Agents, NEW p, NEW o, pc' = [pc EXCEPT ![a] = p], op' = [op EXCEPT ![a] = o],
             ledger' = ledger, Disjoint(o.next)
      PROVE  LedgerInv'
  BY <1>1, <1>3 DEF Disjoint
<1>4. ASSUME NEW a \in Agents, ClaimStep(a) PROVE LedgerInv'
  <2>1. CASE Lock(a, "claim")
    BY <2>1, <1>2 DEF Lock
  <2>2. ASSUME NEW t \in Tasks, NEW now \in Dates, NEW lease \in 1..MaxLease, CheckClaim(a, t, now, lease)
        PROVE  LedgerInv'
    <3> DEFINE new == [task |-> t, expiresAt |-> now + lease]
    <3>1. Disjoint(Active(now))
      BY DisjointSubset DEF Active
    <3>2. \A r \in Active(now) : ~Overlap(new.task, r.task)
      BY <2>2 DEF CheckClaim
    <3>3. Disjoint(Active(now) \cup {new})
      BY <3>1, <3>2, DisjointAdd
    <3> DEFINE o == [task |-> t, expiresAt |-> now + lease, next |-> Active(now) \cup {new},
                     fresh |-> ledger.file = "absent", ok |-> FALSE]
    <3>4. pc' = [pc EXCEPT ![a] = "claimLedger"] /\ op' = [op EXCEPT ![a] = o] /\ ledger' = ledger
      BY <2>2 DEF CheckClaim
    <3>5. Disjoint(o.next)
      BY <3>3
    <3> HIDE DEF o
    <3>6. QED
      BY <3>4, <3>5, <1>3
  <2>3. CASE WriteLedger(a, "claimLedger", "claimFile")
    <3>1. ledger' = Whole(op[a].next) \/ ledger' \in {ledger, Torn}
      BY <2>3 DEF WriteLedger
    <3>2. Disjoint(op[a].next) /\ Disjoint({})
      BY <2>3 DEF WriteLedger, Disjoint
    <3>3. ledger'.reservations \in {op[a].next, ledger.reservations, {}}
      BY <3>1 DEF Whole, Torn
    <3>4. Disjoint(ledger'.reservations)
      BY <3>2, <3>3
    <3>5. op' = op /\ \E p \in {"claimFile", "unlock"} : pc' = [pc EXCEPT ![a] = p]
      BY <2>3 DEF WriteLedger
    <3>6. QED
      BY <3>4, <3>5, <1>2a
  <2>4. CASE WriteClaim(a)
    BY <2>4, <1>1, <1>2 DEF WriteClaim
  <2>5. QED
    BY <1>4, <2>1, <2>2, <2>3, <2>4 DEF ClaimStep
<1>5. ASSUME NEW a \in Agents, CompleteStep(a) PROVE LedgerInv'
  <2>1. CASE Lock(a, "complete")
    BY <2>1, <1>2 DEF Lock
  <2>2. ASSUME NEW t \in Tasks, NEW now \in Dates, CheckResult(a, t, now) PROVE LedgerInv'
    <3> DEFINE rest == {r \in ledger.reservations : r.task # t}
    <3>1. Disjoint(rest)
      BY DisjointSubset
    <3> DEFINE o == [task |-> t, expiresAt |-> 0, next |-> rest,
                     fresh |-> ledger.file = "absent", ok |-> FALSE]
    <3>2. pc' = [pc EXCEPT ![a] = "resultLedger"] /\ op' = [op EXCEPT ![a] = o] /\ ledger' = ledger
      BY <2>2 DEF CheckResult
    <3>3. Disjoint(o.next)
      BY <3>1
    <3> HIDE DEF o
    <3>4. QED
      BY <3>2, <3>3, <1>3
  <2>3. CASE WriteLedger(a, "resultLedger", "resultFile")
    <3>1. ledger' = Whole(op[a].next) \/ ledger' \in {ledger, Torn}
      BY <2>3 DEF WriteLedger
    <3>2. Disjoint(op[a].next) /\ Disjoint({})
      BY <2>3 DEF WriteLedger, Disjoint
    <3>3. ledger'.reservations \in {op[a].next, ledger.reservations, {}}
      BY <3>1 DEF Whole, Torn
    <3>4. Disjoint(ledger'.reservations)
      BY <3>2, <3>3
    <3>5. op' = op /\ \E p \in {"resultFile", "unlock"} : pc' = [pc EXCEPT ![a] = p]
      BY <2>3 DEF WriteLedger
    <3>6. QED
      BY <3>4, <3>5, <1>2a
  <2>4. CASE WriteResult(a)
    BY <2>4, <1>1, <1>2 DEF WriteResult
  <2>5. QED
    BY <1>5, <2>1, <2>2, <2>3, <2>4 DEF CompleteStep
<1>6. ASSUME NEW a \in Agents, Refuse(a) \/ Unlock(a) \/ Crash(a) PROVE LedgerInv'
  BY <1>6, <1>1, <1>2 DEF Refuse, Unlock, Crash
<1>7. ASSUME NEW a \in Agents, Undo(a) PROVE LedgerInv'
  <2>1. ledger' = ledger \/ ledger' = NoLedger
    BY <1>7 DEF Undo
  <2>2. Disjoint(ledger'.reservations)
    BY <2>1 DEF NoLedger, Disjoint
  <2>3. QED
    BY <1>1, <1>7, <2>2 DEF Undo, Disjoint
<1>8. CASE Tick \/ (\E t \in Tasks : Enqueue(t)) \/ ClearLock \/ UNCHANGED vars
  BY <1>8 DEF Tick, Enqueue, ClearLock, vars, Disjoint
<1>9. QED
  BY <1>4, <1>5, <1>6, <1>7, <1>8 DEF Next

(* No two reservations on file overlap, so that no command ever fails with    *)
(* the RESERVATION_OVERLAP of a ledger that the queue itself wrote.           *)
THEOREM LedgerStaysDisjoint == Spec => []LedgerDisjoint
<1>1. Init => TypeOK /\ LedgerInv
  BY TypeInit, LedgerInit
<1>2. TypeOK /\ LedgerInv /\ [Next]_vars => (TypeOK /\ LedgerInv)'
  BY TypeNext, LedgerNext
<1>3. LedgerInv => LedgerDisjoint
  BY DEF LedgerInv
<1>4. QED
  BY <1>1, <1>2, <1>3, PTL DEF Spec

----------------------------------------------------------------------------
\* What makes NoSharedScope inductive.  Every task that is held has its
\* reservation on file, or among those about to be put there.
Kept(rs) == \A t \in Tasks : Holding(t) => [task |-> t, expiresAt |-> claims[t].expiresAt] \in rs
NoneHeld == \A t \in Tasks : ~Holding(t)

LedgerKeeps ==
    /\ ledger.file # "torn" => Kept(ledger.reservations)
    /\ ledger.file = "absent" => ledger.reservations = {}

Writing == {"claimLedger", "claimFile", "resultLedger", "resultFile", "undo"}

OpKeeps(a) ==
    /\ pc[a] \in {"claimLedger", "claimFile", "resultLedger"} => Kept(op[a].next)
    /\ pc[a] \in {"claimLedger", "claimFile"} =>
           [task |-> op[a].task, expiresAt |-> op[a].expiresAt] \in op[a].next
    /\ pc[a] = "claimFile" => ledger = Whole(op[a].next)
    /\ pc[a] \in Writing /\ op[a].fresh => NoneHeld

HoldInv == NoSharedScope /\ LedgerKeeps /\ \A a \in Agents : OpKeeps(a)

LEMMA HoldInit == Init => HoldInv
BY DEF Init, HoldInv, NoSharedScope, LedgerKeeps, OpKeeps, Kept, Holding, NoClaim, NoLedger, Writing

\* Claims are dated later and results are handed in: less is held, under the
\* same leases.
Fewer ==
    \A t \in Tasks : Holding(t)' => Holding(t) /\ claims'[t].expiresAt = claims[t].expiresAt

LEMMA FewerHeld ==
    ASSUME TypeOK, claims' = claims, handed \subseteq handed', latest' \in Nat, latest' >= latest
    PROVE  Fewer
<1>1. \A t \in Tasks : claims[t].expiresAt \in Nat
  BY DEF TypeOK, Claims, Times
<1>2. latest \in Nat
  BY DEF TypeOK
<1>3. QED
  BY <1>1, <1>2 DEF Fewer, Holding, ExpiredAt

LEMMA FewerKept ==
    ASSUME Fewer
    PROVE  /\ NoSharedScope => NoSharedScope'
           /\ NoneHeld => NoneHeld'
           /\ \A rs : Kept(rs) =>
                \A t \in Tasks : Holding(t)' => [task |-> t, expiresAt |-> claims'[t].expiresAt] \in rs
<1>1. NoSharedScope => NoSharedScope'
  BY DEF Fewer, NoSharedScope, Overlap
<1>2. NoneHeld => NoneHeld'
  BY DEF Fewer, NoneHeld
<1>3. \A rs : Kept(rs) =>
        \A t \in Tasks : Holding(t)' => [task |-> t, expiresAt |-> claims'[t].expiresAt] \in rs
  BY DEF Fewer, Kept
<1>4. QED
  BY <1>1, <1>2, <1>3

\* While one command runs, the others are idle.
LEMMA OthersIdle ==
    ASSUME TypeOK, QueueExclusive, NEW a \in Agents, pc[a] # "idle" \/ ~locked,
           NEW p, pc' = [pc EXCEPT ![a] = p]
    PROVE  \A b \in Agents : b # a => pc'[b] = "idle" /\ OpKeeps(b)'
<1>1. \A b \in Agents : b # a => pc'[b] = "idle"
  BY DEF TypeOK, QueueExclusive
<1>2. QED
  BY <1>1 DEF OpKeeps, Writing

\* A step of an agent that leaves ledger and claims alone, and starts no write.
LEMMA QuietStep ==
    ASSUME TypeOK, QueueExclusive, HoldInv, NEW a \in Agents, pc[a] # "idle" \/ ~locked,
           NEW p, p \notin Writing, pc' = [pc EXCEPT ![a] = p],
           claims' = claims, ledger' = ledger, latest' = latest, handed' = handed
    PROVE  HoldInv'
<1>1. Fewer
  BY FewerHeld DEF TypeOK
<1>2. NoSharedScope'
  BY <1>1, FewerKept DEF HoldInv
<1>3. LedgerKeeps'
  BY <1>1, FewerKept DEF HoldInv, LedgerKeeps, Kept
<1>4. pc'[a] = p
  BY DEF TypeOK
<1>5. OpKeeps(a)'
  BY <1>4 DEF OpKeeps, Writing
<1>6. QED
  BY <1>2, <1>3, <1>5, OthersIdle DEF HoldInv

\* A step that begins, or goes on with, the writes of a command.
LEMMA WritingStep ==
    ASSUME TypeOK, QueueExclusive, HoldInv, NEW a \in Agents, pc[a] # "idle",
           NEW p, pc' = [pc EXCEPT ![a] = p], Fewer, LedgerKeeps', OpKeeps(a)'
    PROVE  HoldInv'
BY FewerKept, OthersIdle DEF HoldInv

LEMMA HoldCheckClaim ==
    ASSUME TypeOK, QueueExclusive, HoldInv, NEW a \in Agents, NEW t \in Tasks,
           NEW now \in Dates, NEW lease \in 1..MaxLease, CheckClaim(a, t, now, lease)
    PROVE  HoldInv'
<1> DEFINE new == [task |-> t, expiresAt |-> now + lease]
           o   == [task |-> t, expiresAt |-> now + lease, next |-> Active(now) \cup {new},
                   fresh |-> ledger.file = "absent", ok |-> FALSE]
<1>1. /\ pc[a] = "claim" /\ pc' = [pc EXCEPT ![a] = "claimLedger"]
      /\ op' = [op EXCEPT ![a] = o]
      /\ ledger' = ledger /\ claims' = claims /\ handed' = handed
      /\ latest \in Nat /\ now \in Nat /\ latest' \in Nat /\ latest' >= latest /\ latest' >= now
  BY DEF CheckClaim, Goto, Dates, TypeOK
<1>2. ledger.file # "torn"
  BY DEF CheckClaim, Loads
<1>5. Fewer
  BY <1>1, FewerHeld
\* Whatever ends after the new claim's date still runs at it.
<1>3. \A u \in Tasks :
          Holding(u)' => [task |-> u, expiresAt |-> claims'[u].expiresAt] \in Active(now)
  <2>1. ASSUME NEW u \in Tasks, Holding(u)'
        PROVE  [task |-> u, expiresAt |-> claims[u].expiresAt] \in Active(now)
    <3>1. [task |-> u, expiresAt |-> claims[u].expiresAt] \in ledger.reservations
      BY <1>2, <1>5, <2>1 DEF Fewer, HoldInv, LedgerKeeps, Kept
    <3>2. claims[u].expiresAt \in Nat
      BY DEF TypeOK, Claims, Times
    <3>3. claims[u].expiresAt > now
      BY <1>1, <2>1, <3>2 DEF Holding, ExpiredAt
    <3>4. QED
      BY <3>1, <3>3 DEF Active
  <2>2. QED
    BY <1>1, <2>1
<1>4. ledger.file = "absent" => NoneHeld
  BY DEF HoldInv, LedgerKeeps, Kept, NoneHeld
<1>6. LedgerKeeps'
  BY <1>1, <1>5, FewerKept DEF HoldInv, LedgerKeeps, Kept
<1>7. pc'[a] = "claimLedger" /\ op'[a] = o
  BY <1>1 DEF TypeOK
<1>8. new \in o.next
  OBVIOUS
<1>9. Kept(op[a].next)'
  BY <1>3, <1>7 DEF Kept
<1>10. o.fresh => NoneHeld'
  BY <1>4, <1>5, FewerKept
<1>11. OpKeeps(a)'
  BY <1>7, <1>8, <1>9, <1>10 DEF OpKeeps
<1>12. QED
  BY <1>1, <1>5, <1>6, <1>11, WritingStep

LEMMA HoldCheckResult ==
    ASSUME TypeOK, QueueExclusive, HoldInv, NEW a \in Agents, NEW t \in Tasks,
           NEW now \in Dates, CheckResult(a, t, now)
    PROVE  HoldInv'
<1> DEFINE rest == {r \in ledger.reservations : r.task # t}
           o    == [task |-> t, expiresAt |-> 0, next |-> rest,
                    fresh |-> ledger.file = "absent", ok |-> FALSE]
<1>1. /\ pc[a] = "complete" /\ pc' = [pc EXCEPT ![a] = "resultLedger"]
      /\ op' = [op EXCEPT ![a] = o]
      /\ ledger' = ledger /\ claims' = claims /\ latest' = latest /\ handed' = handed \cup {t}
  BY DEF CheckResult, Goto
<1>2. ledger.file # "torn"
  BY DEF CheckResult, Loads
<1>3. Fewer
  BY <1>1, FewerHeld DEF TypeOK
<1>4. LedgerKeeps'
  BY <1>1, <1>3, FewerKept DEF HoldInv, LedgerKeeps, Kept
<1>5. pc'[a] = "resultLedger" /\ op'[a] = o
  BY <1>1 DEF TypeOK
<1>6. Kept(op[a].next)'
  <2>1. ASSUME NEW u \in Tasks, Holding(u)'
        PROVE  [task |-> u, expiresAt |-> claims'[u].expiresAt] \in rest
    <3>1. u # t
      BY <1>1, <2>1 DEF Holding
    <3>2. [task |-> u, expiresAt |-> claims[u].expiresAt] \in ledger.reservations
      BY <1>2, <1>3, <2>1 DEF Fewer, HoldInv, LedgerKeeps, Kept
    <3>3. QED
      BY <1>1, <3>1, <3>2
  <2>2. QED
    BY <1>5, <2>1 DEF Kept
<1>7. o.fresh => NoneHeld'
  BY <1>3, FewerKept DEF HoldInv, LedgerKeeps, Kept, NoneHeld
<1> HIDE DEF o
<1>8. OpKeeps(a)'
  BY <1>5, <1>6, <1>7 DEF OpKeeps
<1>9. QED
  BY <1>1, <1>3, <1>4, <1>8, WritingStep

LEMMA HoldWriteLedger ==
    ASSUME TypeOK, QueueExclusive, HoldInv, NEW a \in Agents, NEW from, NEW to,
           \/ from = "claimLedger" /\ to = "claimFile"
           \/ from = "resultLedger" /\ to = "resultFile",
           WriteLedger(a, from, to)
    PROVE  HoldInv'
<1>1. pc[a] = from /\ pc[a] \in Writing /\ Kept(op[a].next)
  BY DEF WriteLedger, HoldInv, OpKeeps, Writing
<1>2. claims' = claims /\ latest' = latest /\ handed' = handed /\ op' = op
  BY DEF WriteLedger
<1>3. Fewer
  BY <1>2, FewerHeld DEF TypeOK
<1>4. CASE ledger' = Whole(op[a].next) /\ pc' = [pc EXCEPT ![a] = to]
  <2>1. LedgerKeeps'
    BY <1>1, <1>3, <1>4, FewerKept DEF LedgerKeeps, Kept, Whole
  <2>2. pc'[a] = to
    BY <1>4 DEF TypeOK
  <2>3. Kept(op[a].next)'
    BY <1>1, <1>2, <1>3, FewerKept DEF Kept
  <2>4. op[a].fresh => NoneHeld'
    BY <1>1, <1>3, FewerKept DEF HoldInv, OpKeeps
  <2>5. to = "claimFile" => [task |-> op[a].task, expiresAt |-> op[a].expiresAt] \in op[a].next
    BY <1>1 DEF HoldInv, OpKeeps
  <2>6. OpKeeps(a)'
    BY <1>2, <1>4, <2>2, <2>3, <2>4, <2>5 DEF OpKeeps, Whole
  <2>7. QED
    BY <1>1, <1>3, <1>4, <2>1, <2>6, WritingStep DEF Writing
<1>5. CASE ledger' \in {ledger, Torn} /\ pc' = [pc EXCEPT ![a] = "unlock"]
  <2>1. LedgerKeeps'
    <3>1. CASE ledger' = ledger
      BY <1>3, <3>1, FewerKept DEF HoldInv, LedgerKeeps, Kept
    <3>2. CASE ledger' = Torn
      BY <3>2 DEF LedgerKeeps, Torn
    <3>3. QED
      BY <1>5, <3>1, <3>2
  <2>2. OpKeeps(a)'
    BY <1>5 DEF OpKeeps, Writing, TypeOK
  <2>3. QED
    BY <1>1, <1>3, <1>5, <2>1, <2>2, WritingStep DEF Writing
<1>6. \/ ledger' = Whole(op[a].next) /\ pc' = [pc EXCEPT ![a] = to]
      \/ ledger' \in {ledger, Torn} /\ pc' = [pc EXCEPT ![a] = "unlock"]
  BY DEF WriteLedger, Goto
<1>7. QED
  BY <1>4, <1>5, <1>6

LEMMA HoldWriteClaim ==
    ASSUME TypeOK, QueueExclusive, LedgerDisjoint, HoldInv, NEW a \in Agents, WriteClaim(a)
    PROVE  HoldInv'
<1> DEFINE mine == op[a].task
           new  == [task |-> mine, expiresAt |-> op[a].expiresAt]
<1>1. /\ pc[a] = "claimFile" /\ ledger = Whole(op[a].next) /\ new \in op[a].next
      /\ Kept(op[a].next) /\ (op[a].fresh => NoneHeld) /\ mine \in Tasks
  BY DEF WriteClaim, HoldInv, OpKeeps, Writing, TypeOK
<1>2. latest' = latest /\ handed' = handed /\ ledger' = ledger
  BY DEF WriteClaim
<1>3. CASE /\ pc' = [pc EXCEPT ![a] = "unlock"]
           /\ claims' = [claims EXCEPT ![mine] =
                            [file |-> "whole", agent |-> a, expiresAt |-> op[a].expiresAt]]
  <2>1. \A t \in Tasks : Holding(t)' => [task |-> t, expiresAt |-> claims'[t].expiresAt] \in op[a].next
    <3>1. ASSUME NEW t \in Tasks, t # mine, Holding(t)'
          PROVE  [task |-> t, expiresAt |-> claims'[t].expiresAt] \in op[a].next
      <4>1. claims'[t] = claims[t]
        BY <1>3, <3>1 DEF TypeOK
      <4>2. Holding(t)
        BY <1>2, <3>1, <4>1 DEF Holding, ExpiredAt
      <4>3. QED
        BY <1>1, <4>1, <4>2 DEF Kept
    <3>2. claims'[mine].expiresAt = op[a].expiresAt
      BY <1>1, <1>3 DEF TypeOK
    <3>3. QED
      BY <1>1, <3>1, <3>2
  <2>2. LedgerKeeps'
    BY <1>1, <1>2, <2>1 DEF LedgerKeeps, Kept, Whole
  <2>3. NoSharedScope'
    <3>1. ASSUME NEW t \in Tasks, NEW u \in Tasks, t # u, Holding(t)', Holding(u)'
          PROVE  ~Overlap(t, u)
      <4> DEFINE r == [task |-> t, expiresAt |-> claims'[t].expiresAt]
                 s == [task |-> u, expiresAt |-> claims'[u].expiresAt]
      <4>1. r \in ledger.reservations /\ s \in ledger.reservations
        BY <1>1, <2>1, <3>1 DEF Whole
      <4>2. r # s /\ r.task = t /\ s.task = u
        BY <3>1
      <4> HIDE DEF r, s
      <4>3. QED
        BY <4>1, <4>2 DEF LedgerDisjoint, Disjoint
    <3>2. QED
      BY <3>1 DEF NoSharedScope, Overlap
  <2>4. OpKeeps(a)'
    BY <1>3 DEF OpKeeps, Writing, TypeOK
  <2>5. QED
    BY <1>1, <1>3, <2>2, <2>3, <2>4, OthersIdle DEF HoldInv
<1>4. CASE /\ pc' = [pc EXCEPT ![a] = "undo"] /\ op' = op
           /\ \/ claims' = claims
              \/ claims[mine].file = "absent" /\ claims' = [claims EXCEPT ![mine].file = "torn"]
  <2>1. Fewer
    <3>1. CASE claims' = claims
      BY <1>2, <3>1, FewerHeld DEF TypeOK
    <3>2. CASE claims' = [claims EXCEPT ![mine].file = "torn"]
      <4>1. claims'[mine].file = "torn"
        BY <1>1, <3>2 DEF TypeOK, Claims
      <4>2. \A t \in Tasks : t # mine => claims'[t] = claims[t]
        BY <3>2 DEF TypeOK
      <4>3. QED
        BY <1>2, <4>1, <4>2 DEF Fewer, Holding, ExpiredAt
    <3>3. QED
      BY <1>4, <3>1, <3>2
  <2>2. LedgerKeeps'
    BY <1>2, <2>1, FewerKept DEF HoldInv, LedgerKeeps, Kept
  <2>3. op[a].fresh => NoneHeld'
    BY <1>1, <2>1, FewerKept
  <2>4. OpKeeps(a)'
    BY <1>4, <2>3 DEF OpKeeps, TypeOK
  <2>5. QED
    BY <1>1, <1>4, <2>1, <2>2, <2>4, WritingStep
<1>5. QED
  BY <1>3, <1>4 DEF WriteClaim, Goto

LEMMA HoldWriteResult ==
    ASSUME TypeOK, QueueExclusive, HoldInv, NEW a \in Agents, WriteResult(a)
    PROVE  HoldInv'
<1>1. /\ pc[a] = "resultFile" /\ latest' = latest /\ handed' = handed
      /\ ledger' = ledger /\ claims' = claims
  BY DEF WriteResult
<1>2. CASE pc' = [pc EXCEPT ![a] = "unlock"]
  BY <1>1, <1>2, QuietStep DEF Writing
<1>3. CASE pc' = [pc EXCEPT ![a] = "undo"] /\ op' = op
  <2>1. Fewer
    BY <1>1, FewerHeld DEF TypeOK
  <2>2. LedgerKeeps'
    BY <1>1, <2>1, FewerKept DEF HoldInv, LedgerKeeps, Kept
  <2>3. op[a].fresh => NoneHeld'
    BY <1>1, <2>1, FewerKept DEF HoldInv, OpKeeps, Writing
  <2>4. OpKeeps(a)'
    BY <1>3, <2>3 DEF OpKeeps, TypeOK
  <2>5. QED
    BY <1>1, <1>3, <2>1, <2>2, <2>4, WritingStep
<1>4. QED
  BY <1>2, <1>3 DEF WriteResult, Goto

LEMMA HoldUndo ==
    ASSUME TypeOK, QueueExclusive, HoldInv, NEW a \in Agents, Undo(a)
    PROVE  HoldInv'
<1>1. /\ pc[a] = "undo" /\ pc' = [pc EXCEPT ![a] = "unlock"] /\ claims' = claims
      /\ latest' = latest /\ handed' = handed
  BY DEF Undo, Goto
<1>2. ledger' = ledger \/ (op[a].fresh /\ ledger' = NoLedger)
  BY DEF Undo
<1>3. Fewer
  BY <1>1, FewerHeld DEF TypeOK
<1>4. CASE ledger' = ledger
  BY <1>1, <1>4, QuietStep DEF Writing
<1>5. CASE op[a].fresh /\ ledger' = NoLedger
  <2>1. NoneHeld'
    BY <1>1, <1>3, <1>5, FewerKept DEF HoldInv, OpKeeps, Writing
  <2>2. LedgerKeeps'
    BY <1>5, <2>1 DEF LedgerKeeps, Kept, NoneHeld, NoLedger
  <2>3. OpKeeps(a)'
    BY <1>1 DEF OpKeeps, Writing, TypeOK
  <2>4. QED
    BY <1>1, <1>3, <2>2, <2>3, WritingStep
<1>6. QED
  BY <1>2, <1>4, <1>5

LEMMA HoldNext ==
    TypeOK /\ QueueExclusive /\ LedgerDisjoint /\ HoldInv /\ [Next]_vars => HoldInv'
<1> SUFFICES ASSUME TypeOK, QueueExclusive, LedgerDisjoint, HoldInv, [Next]_vars PROVE HoldInv'
  OBVIOUS
<1>1. ASSUME NEW a \in Agents, Lock(a, "claim") \/ Lock(a, "complete") PROVE HoldInv'
  BY <1>1, QuietStep DEF Lock, Goto, Writing
<1>2. ASSUME NEW a \in Agents, Refuse(a) \/ Unlock(a) \/ Crash(a) PROVE HoldInv'
  BY <1>2, QuietStep DEF Refuse, Unlock, Crash, Goto, Writing
<1>3. ASSUME NEW a \in Agents, ClaimStep(a) PROVE HoldInv'
  BY <1>1, <1>3, HoldCheckClaim, HoldWriteLedger, HoldWriteClaim DEF ClaimStep
<1>4. ASSUME NEW a \in Agents, CompleteStep(a) PROVE HoldInv'
  BY <1>1, <1>4, HoldCheckResult, HoldWriteLedger, HoldWriteResult DEF CompleteStep
<1>5. CASE Tick \/ (\E t \in Tasks : Enqueue(t)) \/ ClearLock \/ UNCHANGED vars
  <2>1. UNCHANGED <<latest, claims, ledger, pc, op, handed>>
    BY <1>5 DEF Tick, Enqueue, ClearLock, vars
  <2>2. QED
    BY <2>1 DEF HoldInv, NoSharedScope, Overlap, LedgerKeeps, OpKeeps, Kept, NoneHeld, Holding, ExpiredAt
<1>6. QED
  BY <1>2, <1>3, <1>4, <1>5, HoldUndo DEF Next

(* Two tasks with overlapping scopes are never held at once, at whatever      *)
(* dates the callers claim and complete, until a claim is dated at or after   *)
(* the end of the lease: through failed and torn writes, rollbacks that do    *)
(* not roll back, and processes that die.                                     *)
THEOREM ScopesAreNotShared == Spec => []NoSharedScope
<1> DEFINE IInv == TypeOK /\ QueueExclusive /\ LedgerInv /\ HoldInv
<1>1. Init => IInv
  BY TypeInit, ExclusiveInit, LedgerInit, HoldInit
<1>2. IInv /\ [Next]_vars => IInv'
  BY TypeNext, ExclusiveNext, LedgerNext, HoldNext DEF LedgerInv
<1>3. IInv => NoSharedScope
  BY DEF HoldInv
<1>4. QED
  BY <1>1, <1>2, <1>3, PTL DEF Spec

(* When no caller dates its command ahead, a lease that runs by the clock is  *)
(* one that no claim can have been dated past: overlapping scopes are then    *)
(* never given to two agents before the time is up.                           *)
THEOREM ScopesAreKeptForLeases ==
    ASSUME MaxAhead = 0
    PROVE  Spec => []ScopeKeptForLease
<1>1. TypeOK /\ NoSharedScope => ScopeKeptForLease
  <2> SUFFICES ASSUME TypeOK, NoSharedScope, NEW t \in Tasks, NEW u \in Tasks, t # u,
                      HeldNow(t), HeldNow(u)
               PROVE  ~Overlap(t, u)
    BY DEF ScopeKeptForLease
  <2>1. latest \in Nat /\ clock \in Nat /\ latest <= clock
    BY DEF TypeOK
  <2>2. claims[t].expiresAt \in Nat /\ claims[u].expiresAt \in Nat
    BY DEF TypeOK, Claims, Times
  <2>3. Holding(t) /\ Holding(u)
    BY <2>1, <2>2 DEF HeldNow, Holding, ExpiredAt
  <2>4. QED
    BY <2>3 DEF NoSharedScope
<1>2. QED
  BY <1>1, QueueTypes, ScopesAreNotShared, PTL

----------------------------------------------------------------------------
\* What makes AnswersHonest inductive.  A result is written for a claimed task
\* only and after its reservation is gone; a command says ok at its very end,
\* and what it then says is on file, under the lock.
ClaimBeforeResult == \A t \in Tasks : results[t] # "absent" => claims[t].file = "whole"
ResultsFreed == \A t \in Tasks : results[t] = "whole" => \A r \in ledger.reservations : r.task # t
ClaimedBy(a, t) == claims[t].file = "whole" /\ claims[t].agent = a

OpHonest(a) ==
    /\ pc[a] # "unlock" => ~op[a].ok
    /\ pc[a] \in {"resultLedger", "resultFile"} \/ (pc[a] = "unlock" /\ op[a].ok) =>
           ClaimedBy(a, op[a].task)
    /\ pc[a] \in {"claimLedger", "resultLedger"} => \A r \in op[a].next : results[r.task] # "whole"
    /\ pc[a] = "resultLedger" => \A r \in op[a].next : r.task # op[a].task
    /\ pc[a] = "resultFile" => \A r \in ledger.reservations : r.task # op[a].task

HonestInv == /\ AnswersHonest /\ ClaimBeforeResult /\ ResultsFreed
             /\ \A a \in Agents : OpHonest(a)

LEMMA HonestInit == Init => HonestInv
BY DEF Init, HonestInv, AnswersHonest, ClaimBeforeResult, ResultsFreed, OpHonest, NoOp, NoClaim

\* Whole files stay as they are: the claims and results are written with "wx".
FilesStay ==
    \A t \in Tasks : /\ claims[t].file = "whole" => claims'[t] = claims[t]
                     /\ results[t] = "whole" => results'[t] = "whole"

\* A step of the command that runs, which says nothing to its caller yet.
LEMMA HonestStep ==
    ASSUME TypeOK, QueueExclusive, HonestInv, NEW a \in Agents, pc[a] # "idle" \/ ~locked,
           NEW p, pc' = [pc EXCEPT ![a] = p], \A b \in Agents : b # a => op'[b] = op[b],
           FilesStay, answers' = answers, ClaimBeforeResult', ResultsFreed', OpHonest(a)'
    PROVE  HonestInv'
<1>1. ASSUME NEW b \in Agents, b # a PROVE OpHonest(b)'
  <2>1. pc[b] = "idle" /\ pc'[b] = "idle" /\ op'[b] = op[b]
    BY <1>1 DEF TypeOK, QueueExclusive
  <2>2. ~op[b].ok
    BY <2>1 DEF HonestInv, OpHonest
  <2>3. QED
    BY <2>1, <2>2 DEF OpHonest
<1>2. ASSUME NEW ans \in answers
      PROVE  /\ ClaimedBy(ans[1], ans[2])'
             /\ ans[3] = "whole" => /\ results'[ans[2]] = "whole"
                                    /\ \A r \in ledger'.reservations : r.task # ans[2]
  <2>1. ans[2] \in Tasks
    BY DEF TypeOK
  <2>2. ClaimedBy(ans[1], ans[2]) /\ (ans[3] = "whole" => results[ans[2]] = "whole")
    BY DEF HonestInv, AnswersHonest, ClaimedBy
  <2>3. QED
    BY <2>1, <2>2 DEF FilesStay, ResultsFreed, ClaimedBy
<1>3. AnswersHonest'
  BY <1>2 DEF AnswersHonest, ClaimedBy
<1>4. QED
  BY <1>1, <1>3 DEF HonestInv

\* A step that touches no file.
LEMMA HonestQuiet ==
    ASSUME TypeOK, QueueExclusive, HonestInv, NEW a \in Agents, pc[a] # "idle" \/ ~locked,
           NEW p, pc' = [pc EXCEPT ![a] = p], \A b \in Agents : b # a => op'[b] = op[b],
           UNCHANGED <<claims, results, ledger, answers>>, OpHonest(a)'
    PROVE  HonestInv'
<1>1. FilesStay
  BY DEF FilesStay
<1>2. ClaimBeforeResult' /\ ResultsFreed'
  BY DEF HonestInv, ClaimBeforeResult, ResultsFreed
<1>3. QED
  BY <1>1, <1>2, HonestStep

LEMMA HonestCheckClaim ==
    ASSUME TypeOK, QueueExclusive, HonestInv, NEW a \in Agents, NEW t \in Tasks,
           NEW now \in Dates, NEW lease \in 1..MaxLease, CheckClaim(a, t, now, lease)
    PROVE  HonestInv'
<1> DEFINE new == [task |-> t, expiresAt |-> now + lease]
           o   == [task |-> t, expiresAt |-> now + lease, next |-> Active(now) \cup {new},
                   fresh |-> ledger.file = "absent", ok |-> FALSE]
<1>1. /\ pc[a] = "claim" /\ pc' = [pc EXCEPT ![a] = "claimLedger"]
      /\ op' = [op EXCEPT ![a] = o]
      /\ UNCHANGED <<claims, results, ledger, answers>>
      /\ claims[t].file = "absent"
  BY DEF CheckClaim, Goto
<1>2. results[t] # "whole"
  BY <1>1 DEF HonestInv, ClaimBeforeResult
<1>3. \A r \in ledger.reservations : r.task \in Tasks
  BY DEF TypeOK, Ledgers, Reservations
<1>4. \A r \in Active(now) \cup {new} : results[r.task] # "whole"
  BY <1>2, <1>3 DEF HonestInv, ResultsFreed, Active
<1>5. o.next = Active(now) \cup {new} /\ ~o.ok
  OBVIOUS
<1>6. pc'[a] = "claimLedger" /\ op'[a] = o
  BY <1>1 DEF TypeOK
<1> HIDE DEF o
<1>7. OpHonest(a)'
  BY <1>1, <1>4, <1>5, <1>6 DEF OpHonest
<1>8. pc[a] # "idle" /\ \A b \in Agents : b # a => op'[b] = op[b]
  BY <1>1 DEF TypeOK
<1>9. QED
  BY <1>1, <1>7, <1>8, HonestQuiet

LEMMA HonestCheckResult ==
    ASSUME TypeOK, QueueExclusive, HonestInv, NEW a \in Agents, NEW t \in Tasks,
           NEW now \in Dates, CheckResult(a, t, now)
    PROVE  HonestInv'
<1> DEFINE rest == {r \in ledger.reservations : r.task # t}
           o    == [task |-> t, expiresAt |-> 0, next |-> rest,
                    fresh |-> ledger.file = "absent", ok |-> FALSE]
<1>1. /\ pc[a] = "complete" /\ pc' = [pc EXCEPT ![a] = "resultLedger"]
      /\ op' = [op EXCEPT ![a] = o]
      /\ UNCHANGED <<claims, results, ledger, answers>>
      /\ ClaimedBy(a, t)
  BY DEF CheckResult, Goto, ValidResult, ClaimedBy
<1>2. \A r \in ledger.reservations : r.task \in Tasks
  BY DEF TypeOK, Ledgers, Reservations
<1>3. \A r \in rest : results[r.task] # "whole" /\ r.task # t
  BY <1>2 DEF HonestInv, ResultsFreed
<1>4. o.next = rest /\ o.task = t /\ ~o.ok
  OBVIOUS
<1>5. pc'[a] = "resultLedger" /\ op'[a] = o
  BY <1>1 DEF TypeOK
<1> HIDE DEF o
<1>6. OpHonest(a)'
  BY <1>1, <1>3, <1>4, <1>5 DEF OpHonest, ClaimedBy
<1>7. pc[a] # "idle" /\ \A b \in Agents : b # a => op'[b] = op[b]
  BY <1>1 DEF TypeOK
<1>8. QED
  BY <1>1, <1>6, <1>7, HonestQuiet

LEMMA HonestWriteLedger ==
    ASSUME TypeOK, QueueExclusive, HonestInv, NEW a \in Agents, NEW from, NEW to,
           \/ from = "claimLedger" /\ to = "claimFile"
           \/ from = "resultLedger" /\ to = "resultFile",
           WriteLedger(a, from, to)
    PROVE  HonestInv'
<1>1. /\ pc[a] = from /\ OpHonest(a) /\ op' = op
      /\ UNCHANGED <<claims, results, answers>>
  BY DEF WriteLedger, HonestInv
<1>2. FilesStay /\ ClaimBeforeResult'
  BY <1>1 DEF FilesStay, HonestInv, ClaimBeforeResult
<1>3. CASE ledger' = Whole(op[a].next) /\ pc' = [pc EXCEPT ![a] = to]
  <2>1. ledger'.reservations = op[a].next
    BY <1>3 DEF Whole
  <2>2. ResultsFreed'
    BY <1>1, <2>1 DEF ResultsFreed, OpHonest
  <2>3. pc'[a] = to
    BY <1>3 DEF TypeOK
  <2>4. OpHonest(a)'
    BY <1>1, <2>1, <2>3 DEF OpHonest, ClaimedBy
  <2>5. QED
    BY <1>1, <1>2, <1>3, <2>2, <2>4, HonestStep
<1>4. CASE ledger' \in {ledger, Torn} /\ pc' = [pc EXCEPT ![a] = "unlock"]
  <2>1. ResultsFreed'
    BY <1>1, <1>4 DEF HonestInv, ResultsFreed, Torn
  <2>2. pc'[a] = "unlock" /\ ~op'[a].ok
    BY <1>1, <1>4 DEF TypeOK, OpHonest
  <2>3. OpHonest(a)'
    BY <2>2 DEF OpHonest
  <2>4. QED
    BY <1>1, <1>2, <1>4, <2>1, <2>3, HonestStep
<1>5. QED
  BY <1>3, <1>4 DEF WriteLedger, Goto

LEMMA HonestWriteClaim ==
    ASSUME TypeOK, QueueExclusive, HonestInv, NEW a \in Agents, WriteClaim(a)
    PROVE  HonestInv'
<1> DEFINE mine == op[a].task
<1>1. /\ pc[a] = "claimFile" /\ mine \in Tasks /\ ~op[a].ok
      /\ UNCHANGED <<results, ledger, answers>>
      /\ pc \in [Agents -> Phases] /\ op \in [Agents -> Ops]
      /\ claims \in [Tasks -> Claims]
  BY DEF WriteClaim, HonestInv, OpHonest, TypeOK, Ops
<1>2. \A t \in Tasks : claims'[t] = claims[t] \/ (t = mine /\ claims[t].file = "absent")
  BY <1>1 DEF WriteClaim
<1>3. FilesStay
  BY <1>1, <1>2 DEF FilesStay
<1>4. ClaimBeforeResult' /\ ResultsFreed'
  BY <1>1, <1>2 DEF HonestInv, ClaimBeforeResult, ResultsFreed
<1>5. CASE /\ pc' = [pc EXCEPT ![a] = "unlock"]
           /\ claims' = [claims EXCEPT ![mine] =
                            [file |-> "whole", agent |-> a, expiresAt |-> op[a].expiresAt]]
           /\ op' = [op EXCEPT ![a].ok = TRUE]
  <2>1. pc'[a] = "unlock" /\ op'[a].task = mine /\ \A b \in Agents : b # a => op'[b] = op[b]
    BY <1>1, <1>5 DEF Ops
  <2>2. ClaimedBy(a, mine)'
    BY <1>1, <1>5, <2>1 DEF ClaimedBy
  <2>3. OpHonest(a)'
    BY <2>1, <2>2 DEF OpHonest, ClaimedBy
  <2>4. QED
    BY <1>1, <1>3, <1>4, <1>5, <2>1, <2>3, HonestStep
<1>6. CASE pc' = [pc EXCEPT ![a] = "undo"] /\ op' = op
  <2>1. OpHonest(a)'
    BY <1>1, <1>6 DEF OpHonest
  <2>2. QED
    BY <1>1, <1>3, <1>4, <1>6, <2>1, HonestStep
<1>7. QED
  BY <1>5, <1>6 DEF WriteClaim, Goto

LEMMA HonestWriteResult ==
    ASSUME TypeOK, QueueExclusive, HonestInv, NEW a \in Agents, WriteResult(a)
    PROVE  HonestInv'
<1> DEFINE mine == op[a].task
<1>1. /\ pc[a] = "resultFile" /\ mine \in Tasks /\ ~op[a].ok
      /\ ClaimedBy(a, mine) /\ \A r \in ledger.reservations : r.task # mine
      /\ UNCHANGED <<claims, ledger, answers>>
      /\ pc \in [Agents -> Phases] /\ op \in [Agents -> Ops]
      /\ results \in [Tasks -> Files]
  BY DEF WriteResult, HonestInv, OpHonest, TypeOK, Ops
<1>2. \A t \in Tasks : results'[t] = results[t] \/ (t = mine /\ results[t] = "absent")
  BY <1>1 DEF WriteResult
<1>3. FilesStay
  BY <1>1, <1>2 DEF FilesStay
<1>4. ClaimBeforeResult' /\ ResultsFreed'
  BY <1>1, <1>2 DEF HonestInv, ClaimBeforeResult, ResultsFreed, ClaimedBy
<1>5. CASE pc' = [pc EXCEPT ![a] = "unlock"] /\ op' = [op EXCEPT ![a].ok = TRUE]
  <2>1. pc'[a] = "unlock" /\ op'[a].task = mine /\ \A b \in Agents : b # a => op'[b] = op[b]
    BY <1>1, <1>5 DEF Ops
  <2>2. OpHonest(a)'
    BY <1>1, <2>1 DEF OpHonest, ClaimedBy
  <2>3. QED
    BY <1>1, <1>3, <1>4, <1>5, <2>1, <2>2, HonestStep
<1>6. CASE pc' = [pc EXCEPT ![a] = "undo"] /\ op' = op
  <2>1. OpHonest(a)'
    BY <1>1, <1>6 DEF OpHonest
  <2>2. QED
    BY <1>1, <1>3, <1>4, <1>6, <2>1, HonestStep
<1>7. QED
  BY <1>5, <1>6 DEF WriteResult, Goto

LEMMA HonestUndo ==
    ASSUME TypeOK, QueueExclusive, HonestInv, NEW a \in Agents, Undo(a)
    PROVE  HonestInv'
<1>1. /\ pc[a] = "undo" /\ pc' = [pc EXCEPT ![a] = "unlock"] /\ op' = op
      /\ UNCHANGED <<claims, results, answers>>
  BY DEF Undo, Goto
<1>2. ledger' = ledger \/ ledger' = NoLedger
  BY DEF Undo
<1>3. FilesStay /\ ClaimBeforeResult'
  BY <1>1 DEF FilesStay, HonestInv, ClaimBeforeResult
<1>4. ResultsFreed'
  BY <1>1, <1>2 DEF HonestInv, ResultsFreed, NoLedger
<1>5. pc'[a] = "unlock" /\ ~op'[a].ok
  BY <1>1 DEF TypeOK, HonestInv, OpHonest
<1>6. OpHonest(a)'
  BY <1>5 DEF OpHonest
<1>7. QED
  BY <1>1, <1>3, <1>4, <1>6, HonestStep

\* The one step that answers.
LEMMA HonestUnlock ==
    ASSUME TypeOK, QueueExclusive, HonestInv, NEW a \in Agents, Unlock(a)
    PROVE  HonestInv'
<1> DEFINE said == <<a, op[a].task, results[op[a].task]>>
<1>1. /\ pc[a] = "unlock" /\ pc' = [pc EXCEPT ![a] = "idle"] /\ op' = [op EXCEPT ![a] = NoOp]
      /\ UNCHANGED <<claims, results, ledger>>
  BY DEF Unlock, Goto
<1>2. pc'[a] = "idle" /\ op'[a] = NoOp /\ ~NoOp.ok
  BY <1>1 DEF TypeOK, NoOp
<1>3. OpHonest(a)'
  BY <1>2 DEF OpHonest
<1>4. \A b \in Agents : b # a => op'[b] = op[b]
  BY <1>1 DEF TypeOK
<1>5. ClaimBeforeResult' /\ ResultsFreed'
  BY <1>1 DEF HonestInv, ClaimBeforeResult, ResultsFreed
<1>6. CASE answers' = answers
  BY <1>1, <1>3, <1>4, <1>6, HonestQuiet
<1>7. CASE op[a].ok /\ answers' = answers \cup {said}
  <2>1. ClaimedBy(a, op[a].task) /\ op[a].task \in Tasks
    BY <1>1, <1>7 DEF HonestInv, OpHonest, TypeOK
  <2>2. \A r \in ledger.reservations : results[op[a].task] = "whole" => r.task # op[a].task
    BY <2>1 DEF HonestInv, ResultsFreed
  <2>3. AnswersHonest'
    BY <1>1, <1>7, <2>1, <2>2 DEF HonestInv, AnswersHonest, ClaimedBy
  <2>4. ASSUME NEW b \in Agents, b # a PROVE OpHonest(b)'
    <3>1. pc[b] = "idle" /\ pc'[b] = "idle" /\ op'[b] = op[b]
      BY <1>1, <1>4, <2>4 DEF TypeOK, QueueExclusive
    <3>2. ~op[b].ok
      BY <3>1 DEF HonestInv, OpHonest
    <3>3. QED
      BY <3>1, <3>2 DEF OpHonest
  <2>5. QED
    BY <1>3, <1>5, <2>3, <2>4 DEF HonestInv
<1>8. QED
  BY <1>6, <1>7 DEF Unlock

LEMMA HonestNext == TypeOK /\ QueueExclusive /\ HonestInv /\ [Next]_vars => HonestInv'
<1> SUFFICES ASSUME TypeOK, QueueExclusive, HonestInv, [Next]_vars PROVE HonestInv'
  OBVIOUS
<1>1. ASSUME NEW a \in Agents, NEW p \in {"claim", "complete"}, Lock(a, p) PROVE HonestInv'
  <2>1. /\ pc[a] = "idle" /\ ~locked /\ pc' = [pc EXCEPT ![a] = p] /\ op' = op
        /\ UNCHANGED <<claims, results, ledger, answers>>
    BY <1>1 DEF Lock, Goto
  <2>2. pc'[a] = p /\ ~op'[a].ok
    BY <2>1 DEF TypeOK, HonestInv, OpHonest
  <2>3. OpHonest(a)'
    BY <2>2 DEF OpHonest
  <2>4. QED
    BY <2>1, <2>3, HonestQuiet
<1>2. ASSUME NEW a \in Agents, Refuse(a) PROVE HonestInv'
  <2>1. /\ pc[a] # "idle" /\ pc' = [pc EXCEPT ![a] = "unlock"] /\ op' = [op EXCEPT ![a].ok = FALSE]
        /\ UNCHANGED <<claims, results, ledger, answers>>
    BY <1>2 DEF Refuse, Goto
  <2>2. pc'[a] = "unlock" /\ ~op'[a].ok /\ \A b \in Agents : b # a => op'[b] = op[b]
    BY <2>1 DEF TypeOK
  <2>3. OpHonest(a)'
    BY <2>2 DEF OpHonest
  <2>4. QED
    BY <2>1, <2>2, <2>3, HonestQuiet
<1>3. ASSUME NEW a \in Agents, Crash(a) PROVE HonestInv'
  <2>1. /\ pc[a] # "idle" /\ pc' = [pc EXCEPT ![a] = "idle"] /\ op' = [op EXCEPT ![a] = NoOp]
        /\ UNCHANGED <<claims, results, ledger, answers>>
    BY <1>3 DEF Crash, Goto
  <2>2. pc'[a] = "idle" /\ ~op'[a].ok /\ \A b \in Agents : b # a => op'[b] = op[b]
    BY <2>1 DEF TypeOK, NoOp
  <2>3. OpHonest(a)'
    BY <2>2 DEF OpHonest
  <2>4. QED
    BY <2>1, <2>2, <2>3, HonestQuiet
<1>4. ASSUME NEW a \in Agents, ClaimStep(a) PROVE HonestInv'
  BY <1>1, <1>4, HonestCheckClaim, HonestWriteLedger, HonestWriteClaim DEF ClaimStep
<1>5. ASSUME NEW a \in Agents, CompleteStep(a) PROVE HonestInv'
  BY <1>1, <1>5, HonestCheckResult, HonestWriteLedger, HonestWriteResult DEF CompleteStep
<1>6. CASE Tick \/ (\E t \in Tasks : Enqueue(t)) \/ ClearLock \/ UNCHANGED vars
  <2>1. UNCHANGED <<claims, results, ledger, pc, op, answers>>
    BY <1>6 DEF Tick, Enqueue, ClearLock, vars
  <2>2. QED
    BY <2>1 DEF HonestInv, AnswersHonest, ClaimBeforeResult, ResultsFreed, OpHonest, ClaimedBy
<1>7. QED
  BY <1>2, <1>3, <1>4, <1>5, <1>6, HonestUndo, HonestUnlock DEF Next

(* What a command answers stays true (claimSharedTask, completeSharedTask):   *)
(* the agent it named is on the claim for good, and a result it called stored *)
(* is on file, its scope free, whatever dies, tears or is cleared later.      *)
THEOREM AnswersStayHonest == Spec => []AnswersHonest
<1> DEFINE IInv == TypeOK /\ QueueExclusive /\ HonestInv
<1>1. Init => IInv
  BY TypeInit, ExclusiveInit, HonestInit
<1>2. IInv /\ [Next]_vars => IInv'
  BY TypeNext, ExclusiveNext, HonestNext
<1>3. IInv => AnswersHonest
  BY DEF HonestInv
<1>4. QED
  BY <1>1, <1>2, <1>3, PTL DEF Spec
==============================================================================

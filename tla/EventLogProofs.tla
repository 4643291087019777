---------------------------- MODULE EventLogProofs ----------------------------
(***************************************************************************)
(* What the runs of MCEventLog show for two processes, proved for any set  *)
(* of processes and any number of calls.                                   *)
(***************************************************************************)
EXTENDS EventLog, SequenceTheorems, TLAPS

USE CallsAssumption, NobodyAssumption

----------------------------------------------------------------------------
(* The running call is one of the process's calls. *)
RunningInRange == \A p \in Procs : phase[p] \notin {"idle", "crashed"} => turn[p] < MaxCalls

(* A digest is a sequence of calls, whichever envelope it stands before. *)
LEMMA HashBeforeType ==
    ASSUME TypeOK
    PROVE  HashBefore(Len(log) + 1) \in Digests
<1>1. CASE Len(log) = 0
  BY <1>1 DEF HashBefore, NoHash, Digests
<1>2. CASE Len(log) # 0
  <2>1. Len(log) \in Nat /\ Len(log) \in 1..Len(log)
    BY <1>2 DEF TypeOK
  <2>2. log[Len(log)] \in Envelopes
    BY <2>1 DEF TypeOK
  <2>3. Hash(log[Len(log)]) \in Digests
    BY <2>2 DEF Hash, Envelopes, Digests
  <2>4. QED
    BY <1>2, <2>1, <2>3 DEF HashBefore
<1>3. QED
  BY <1>1, <1>2

LEMMA CurrentType ==
    ASSUME TypeOK, NEW p \in Procs, turn[p] < MaxCalls
    PROVE  Current(p) \in Calls /\ turn[p] + 1 \in 0..MaxCalls
BY DEF TypeOK, Current, Calls

LEMMA NextEnvelopeType ==
    ASSUME TypeOK, NEW p \in Procs, turn[p] < MaxCalls
    PROVE  NextEnvelope(p) \in Envelopes
<1>1. view[p].sequence \in Nat /\ view[p].previousHash \in Digests
  BY DEF TypeOK, Places
<1>2. QED
  BY <1>1, CurrentType DEF NextEnvelope, Envelopes

(* Type correctness is inductive together with the range of the running    *)
(* call: Settle counts only calls that were running.                       *)
TypeInv == TypeOK /\ RunningInRange

LEMMA TypeInvInit == Init => TypeInv
<1> SUFFICES ASSUME Init PROVE TypeInv
  OBVIOUS
<1>1. log \in Seq(Envelopes) /\ NoHash \in Digests
  BY DEF Init, NoHash, Digests
<1>2. outcome \in [Calls -> Outcomes]
  BY DEF Init, Outcomes
<1>3. view \in [Procs -> Places]
  <2>1. [sequence |-> 0, previousHash |-> NoHash] \in Places
    BY <1>1 DEF Places
  <2>2. QED
    BY <2>1 DEF Init
<1>4. /\ tail = "newline" /\ lock = Nobody /\ stamped = FALSE /\ inspected = Nobody
      /\ phase = [p \in Procs |-> "idle"]
      /\ turn = [p \in Procs |-> 0]
      /\ verdict = [p \in Procs |-> "pending"]
  BY DEF Init
<1>5. phase \in [Procs -> Phases] /\ turn \in [Procs -> 0..MaxCalls]
  BY <1>4 DEF Phases
<1>6. verdict \in [Procs -> {"pending", "ok", "refused", "unknown"}]
  BY <1>4
<1>7. RunningInRange
  BY <1>4 DEF RunningInRange
<1>8. QED
  BY <1>1, <1>2, <1>3, <1>4, <1>5, <1>6, <1>7 DEF TypeInv, TypeOK, Tails

LEMMA TypeInvNext == TypeInv /\ [Next]_vars => TypeInv'
<1> SUFFICES ASSUME TypeInv, [Next]_vars PROVE TypeInv'
  OBVIOUS
<1> USE DEF TypeInv, TypeOK, RunningInRange, Tails, Phases, Outcomes
<1>1. ASSUME NEW p \in Procs, NEW i \in 1..MaxCalls, Invoke(p, i) PROVE TypeInv'
  BY <1>1 DEF Invoke, Calls
<1>2. ASSUME NEW p \in Procs, Dequeue(p) PROVE TypeInv'
  BY <1>2 DEF Dequeue
<1>3. ASSUME NEW p \in Procs, OpenLock(p) PROVE TypeInv'
  BY <1>3 DEF OpenLock
<1>4. ASSUME NEW p \in Procs, GiveUp(p) PROVE TypeInv'
  BY <1>4, CurrentType DEF GiveUp, Settle
<1>5. ASSUME NEW p \in Procs, StampLock(p) PROVE TypeInv'
  <2>1. CASE stamped' = TRUE /\ phase' = [phase EXCEPT ![p] = "read"] /\ UNCHANGED <<turn, outcome>>
    BY <1>5, <2>1 DEF StampLock
  <2>2. CASE Settle(p, "refused") /\ UNCHANGED stamped
    BY <1>5, <2>2, CurrentType DEF StampLock, Settle
  <2>3. QED
    BY <1>5, <2>1, <2>2 DEF StampLock
<1>6. ASSUME NEW p \in Procs, ReadLog(p) PROVE TypeInv'
  <2>1. /\ phase[p] = "read"
        /\ UNCHANGED <<log, tail, lock, stamped, turn, outcome, inspected>>
    BY <1>6 DEF ReadLog
  <2>2. phase' = [phase EXCEPT ![p] = "write"] \/ phase' = [phase EXCEPT ![p] = "release"]
    BY <1>6 DEF ReadLog
  <2>3. view' \in [Procs -> Places]
    <3> DEFINE place == [sequence |-> Len(log), previousHash |-> HashBefore(Len(log) + 1)]
    <3>1. place \in Places
      BY HashBeforeType DEF Places
    <3>2. view' = [view EXCEPT ![p] = place] \/ view' = view
      BY <1>6 DEF ReadLog
    <3>3. QED
      BY <3>1, <3>2
  <2>4. verdict' \in [Procs -> {"pending", "ok", "refused", "unknown"}]
    BY <1>6 DEF ReadLog
  <2>5. QED
    BY <2>1, <2>2, <2>3, <2>4
<1>7. ASSUME NEW p \in Procs, WriteEnvelope(p) PROVE TypeInv'
  BY <1>7, NextEnvelopeType DEF WriteEnvelope, TailAfter
<1>8. ASSUME NEW p \in Procs, ShortWrite(p) PROVE TypeInv'
  <2>1. log' \in Seq(Envelopes)
    <3>1. NextEnvelope(p) \in Envelopes
      BY <1>8, NextEnvelopeType DEF ShortWrite
    <3>2. log' = log \/ log' = Append(log, NextEnvelope(p))
      BY <1>8 DEF ShortWrite
    <3>3. Append(log, NextEnvelope(p)) \in Seq(Envelopes)
      BY <3>1
    <3>4. QED
      BY <3>2, <3>3
  <2>2. tail' \in Tails
    BY <1>8 DEF ShortWrite, TailAfter
  <2>3. /\ phase[p] = "write"
        /\ verdict' = [verdict EXCEPT ![p] = "unknown"]
        /\ phase' = [phase EXCEPT ![p] = "release"]
        /\ UNCHANGED <<lock, stamped, turn, view, outcome, inspected>>
    BY <1>8 DEF ShortWrite
  <2>4. /\ phase' \in [Procs -> Phases]
        /\ verdict' \in [Procs -> {"pending", "ok", "refused", "unknown"}]
        /\ RunningInRange'
    BY <2>3
  <2>5. QED
    BY <2>1, <2>2, <2>3, <2>4
<1>9. ASSUME NEW p \in Procs, ReleaseLock(p) PROVE TypeInv'
  BY <1>9, CurrentType DEF ReleaseLock, Settle
<1>10. ASSUME NEW p \in Procs, ReleaseFails(p) PROVE TypeInv'
  BY <1>10, CurrentType DEF ReleaseFails, Settle
<1>11. ASSUME NEW p \in Procs, Crash(p) PROVE TypeInv'
  BY <1>11 DEF Crash
<1>12. CASE InspectLock
  BY <1>12 DEF InspectLock
<1>13. CASE RemoveOrphan
  BY <1>13 DEF RemoveOrphan
<1>14. CASE UNCHANGED vars
  BY <1>14 DEF vars
<1>15. QED
  BY <1>1, <1>2, <1>3, <1>4, <1>5, <1>6, <1>7, <1>8, <1>9, <1>10, <1>11, <1>12, <1>13, <1>14
     DEF Next, AppendStep

(* Every variable keeps its type, however calls, failures, crashes and the *)
(* operator interleave (memory-store.mjs, append and lockStatus).          *)
THEOREM TypeCorrect == Spec => []TypeOK
<1>1. Spec => []TypeInv
  BY TypeInvInit, TypeInvNext, PTL DEF Spec
<1>2. TypeInv => TypeOK
  BY DEF TypeInv
<1>3. QED
  BY <1>1, <1>2, PTL

----------------------------------------------------------------------------
(* A process between OpenLock and ReleaseLock is the one the lock file     *)
(* belongs to; the operator's decision to remove a lock stays right        *)
(* however late it is carried out, because only he takes a lock from a     *)
(* dead process.                                                           *)
LockInv ==
    /\ \A p \in Procs : phase[p] \in Holding => lock = p
    /\ inspected # Nobody => lock = inspected /\ phase[inspected] = "crashed"

LEMMA LockInvNext == TypeInv /\ LockInv /\ [Next]_vars => LockInv'
<1> SUFFICES ASSUME TypeInv, LockInv, [Next]_vars PROVE LockInv'
  OBVIOUS
<1> USE DEF TypeInv, TypeOK, LockInv, Holding, Phases
<1>1. ASSUME NEW p \in Procs, NEW i \in 1..MaxCalls, Invoke(p, i) PROVE LockInv'
  BY <1>1 DEF Invoke
<1>2. ASSUME NEW p \in Procs, Dequeue(p) PROVE LockInv'
  BY <1>2 DEF Dequeue
<1>3. ASSUME NEW p \in Procs, OpenLock(p) PROVE LockInv'
  BY <1>3 DEF OpenLock
<1>4. ASSUME NEW p \in Procs, GiveUp(p) PROVE LockInv'
  BY <1>4 DEF GiveUp, Settle
<1>5. ASSUME NEW p \in Procs, StampLock(p) PROVE LockInv'
  BY <1>5 DEF StampLock, Settle
<1>6. ASSUME NEW p \in Procs, ReadLog(p) PROVE LockInv'
  BY <1>6 DEF ReadLog
<1>7. ASSUME NEW p \in Procs, WriteEnvelope(p) PROVE LockInv'
  BY <1>7 DEF WriteEnvelope
<1>8. ASSUME NEW p \in Procs, ShortWrite(p) PROVE LockInv'
  BY <1>8 DEF ShortWrite
<1>9. ASSUME NEW p \in Procs, ReleaseLock(p) PROVE LockInv'
  BY <1>9 DEF ReleaseLock, Settle
<1>10. ASSUME NEW p \in Procs, ReleaseFails(p) PROVE LockInv'
  BY <1>10 DEF ReleaseFails, Settle
<1>11. ASSUME NEW p \in Procs, Crash(p) PROVE LockInv'
  BY <1>11 DEF Crash
<1>12. CASE InspectLock
  BY <1>12 DEF InspectLock
<1>13. CASE RemoveOrphan
  BY <1>13 DEF RemoveOrphan
<1>14. CASE UNCHANGED vars
  BY <1>14 DEF vars
<1>15. QED
  BY <1>1, <1>2, <1>3, <1>4, <1>5, <1>6, <1>7, <1>8, <1>9, <1>10, <1>11, <1>12, <1>13, <1>14
     DEF Next, AppendStep

(* The lock excludes: no two processes are inside the locked part of       *)
(* append() at once (memory-store.mjs, open "wx" to unlink).               *)
THEOREM MutualExclusionHolds == Spec => []MutualExclusion
<1>1. Init => TypeInv /\ LockInv
  BY TypeInvInit DEF Init, LockInv, Holding
<1>2. TypeInv /\ LockInv /\ [Next]_vars => TypeInv' /\ LockInv'
  BY TypeInvNext, LockInvNext
<1>3. LockInv => MutualExclusion
  BY DEF LockInv, MutualExclusion
<1>4. QED
  BY <1>1, <1>2, <1>3, PTL DEF Spec

----------------------------------------------------------------------------
(* A writer that has read the log still holds its end when it writes.      *)
ViewFresh ==
    \A p \in Procs : phase[p] = "write" =>
        /\ view[p].sequence = Len(log)
        /\ view[p].previousHash = HashBefore(Len(log) + 1)

ChainInv == ChainValid /\ ViewFresh

LEMMA ReadLogView ==
    ASSUME TypeInv, NEW p \in Procs, ReadLog(p), phase'[p] = "write"
    PROVE  /\ view'[p].sequence = Len(log)
           /\ view'[p].previousHash = HashBefore(Len(log) + 1)
           /\ \A q \in Procs \ {p} : view'[q] = view[q]
<1> DEFINE place == [sequence |-> Len(log), previousHash |-> HashBefore(Len(log) + 1)]
<1>1. view' = [view EXCEPT ![p] = place]
  BY DEF ReadLog, TypeInv, TypeOK, Phases
<1>2. view \in [Procs -> Places]
  BY DEF TypeInv, TypeOK
<1>3. view'[p] = place
  BY <1>1, <1>2
<1>4. QED
  BY <1>1, <1>2, <1>3

(* One more envelope, numbered and linked after the last, keeps the chain. *)
LEMMA ChainExtends ==
    ASSUME TypeInv, ChainValid, NEW p \in Procs, phase[p] = "write",
           view[p].sequence = Len(log),
           view[p].previousHash = HashBefore(Len(log) + 1),
           log' = Append(log, NextEnvelope(p))
    PROVE  ChainValid'
<1>1. log \in Seq(Envelopes) /\ Len(log) \in Nat
  BY DEF TypeInv, TypeOK
<1>2. /\ Len(log') = Len(log) + 1
      /\ \A k \in 1..Len(log) : log'[k] = log[k]
      /\ log'[Len(log) + 1] = NextEnvelope(p)
  BY <1>1
<1>3. ASSUME NEW k \in 1..(Len(log) + 1) PROVE HashBefore(k)' = HashBefore(k)
  BY <1>1, <1>2 DEF HashBefore, Hash, NoHash
<1>4. /\ NextEnvelope(p).sequence = Len(log)
      /\ NextEnvelope(p).previousHash = HashBefore(Len(log) + 1)
  BY DEF NextEnvelope
<1>5. SUFFICES ASSUME NEW k \in 1..Len(log')
               PROVE  log'[k].sequence = k - 1 /\ log'[k].previousHash = HashBefore(k)'
  BY DEF ChainValid
<1>6. CASE k \in 1..Len(log)
  BY <1>1, <1>2, <1>3, <1>6 DEF ChainValid
<1>7. CASE k = Len(log) + 1
  BY <1>1, <1>2, <1>3, <1>4, <1>7
<1>8. QED
  BY <1>1, <1>2, <1>6, <1>7

LEMMA ChainInvNext == TypeInv /\ LockInv /\ ChainInv /\ [Next]_vars => ChainInv'
<1> SUFFICES ASSUME TypeInv, LockInv, ChainInv, [Next]_vars PROVE ChainInv'
  OBVIOUS
<1>1. ASSUME UNCHANGED <<log, view>>,
             \A p \in Procs : phase'[p] = "write" => phase[p] = "write"
      PROVE  ChainInv'
  BY <1>1 DEF ChainInv, ChainValid, ViewFresh, HashBefore
<1>2. ASSUME NEW p \in Procs, NEW i \in 1..MaxCalls, Invoke(p, i) PROVE ChainInv'
  BY <1>1, <1>2 DEF Invoke
<1> USE DEF TypeInv, TypeOK, Phases
<1>3. ASSUME NEW p \in Procs, Dequeue(p) PROVE ChainInv'
  BY <1>1, <1>3 DEF Dequeue
<1>4. ASSUME NEW p \in Procs, OpenLock(p) PROVE ChainInv'
  BY <1>1, <1>4 DEF OpenLock
<1>5. ASSUME NEW p \in Procs, GiveUp(p) PROVE ChainInv'
  BY <1>1, <1>5 DEF GiveUp, Settle
<1>6. ASSUME NEW p \in Procs, StampLock(p) PROVE ChainInv'
  BY <1>1, <1>6 DEF StampLock, Settle
<1>7. ASSUME NEW p \in Procs, ReadLog(p) PROVE ChainInv'
  <2>1. UNCHANGED log /\ \A q \in Procs \ {p} : phase'[q] = phase[q]
    BY <1>7 DEF ReadLog
  <2>2. CASE phase'[p] = "write"
    <3>1. ViewFresh'
      BY <1>7, <2>1, <2>2, ReadLogView DEF ChainInv, ViewFresh, HashBefore
    <3>2. QED
      BY <2>1, <3>1 DEF ChainInv, ChainValid, HashBefore
  <2>3. CASE phase'[p] # "write"
    <3>1. UNCHANGED view
      BY <1>7, <2>3 DEF ReadLog
    <3>2. QED
      BY <1>1, <2>1, <2>3, <3>1
  <2>4. QED
    BY <2>2, <2>3
<1>8. ASSUME NEW p \in Procs, WriteEnvelope(p) \/ ShortWrite(p) PROVE ChainInv'
  <2>1. /\ phase[p] = "write"
        /\ phase' = [phase EXCEPT ![p] = "release"]
        /\ UNCHANGED view
        /\ log' = log \/ log' = Append(log, NextEnvelope(p))
    BY <1>8 DEF WriteEnvelope, ShortWrite
  <2>2. \A q \in Procs : phase'[q] # "write"
    BY <2>1 DEF LockInv, Holding
  <2>3. CASE log' = log
    BY <1>1, <2>1, <2>2, <2>3
  <2>4. CASE log' = Append(log, NextEnvelope(p))
    BY <2>1, <2>2, <2>4, ChainExtends DEF ChainInv, ViewFresh
  <2>5. QED
    BY <2>1, <2>3, <2>4
<1>9. ASSUME NEW p \in Procs, ReleaseLock(p) \/ ReleaseFails(p) PROVE ChainInv'
  BY <1>1, <1>9 DEF ReleaseLock, ReleaseFails, Settle
<1>10. ASSUME NEW p \in Procs, Crash(p) PROVE ChainInv'
  BY <1>1, <1>10 DEF Crash
<1>11. CASE InspectLock \/ RemoveOrphan
  BY <1>1, <1>11 DEF InspectLock, RemoveOrphan
<1>12. CASE UNCHANGED vars
  BY <1>1, <1>12 DEF vars
<1>13. QED
  BY <1>2, <1>3, <1>4, <1>5, <1>6, <1>7, <1>8, <1>9, <1>10, <1>11, <1>12 DEF Next, AppendStep

(* The log on disk is one hash chain at all times (memory-store.mjs,       *)
(* append's envelope against the checks of envelopes()).                   *)
THEOREM ChainStaysIntact == Spec => []ChainIntact
<1>1. Init => TypeInv /\ LockInv /\ ChainInv
  <2>1. Init => LockInv
    BY DEF Init, LockInv, Holding
  <2>2. Init => ChainInv
    BY DEF Init, ChainInv, ChainValid, ViewFresh
  <2>3. QED
    BY <2>1, <2>2, TypeInvInit
<1>2. TypeInv /\ LockInv /\ ChainInv /\ [Next]_vars => TypeInv' /\ LockInv' /\ ChainInv'
  BY TypeInvNext, LockInvNext, ChainInvNext
<1>3. ChainInv => ChainIntact
  BY DEF ChainInv, ChainIntact
<1>4. QED
  BY <1>1, <1>2, <1>3, PTL DEF Spec

----------------------------------------------------------------------------
(* A live process has answered exactly the calls before its running one; a *)
(* dead one owes no answers.                                               *)
AnsweredInTurn(p, i) ==
    /\ phase[p] # "crashed" /\ i <= turn[p] => outcome[<<p, i>>] \in {"ok", "refused", "unknown"}
    /\ phase[p] # "crashed" /\ i > turn[p] => outcome[<<p, i>>] \in {"none", "pending"}
    /\ phase[p] = "crashed" => outcome[<<p, i>>] # "pending"

CallInv ==
    /\ \A p \in Procs, i \in 1..MaxCalls : AnsweredInTurn(p, i)
    /\ \A p \in Procs : phase[p] \notin {"idle", "crashed"} => outcome[Current(p)] = "pending"
    /\ \A p \in Procs : phase[p] = "release" => verdict[p] \in {"ok", "refused", "unknown"}

LEMMA SettleKeepsCallInv ==
    ASSUME TypeInv, CallInv, NEW p \in Procs, phase[p] \notin {"idle", "crashed"},
           NEW o \in {"ok", "refused", "unknown"}, Settle(p, o), UNCHANGED verdict
    PROVE  CallInv'
<1> USE DEF TypeInv, TypeOK, Phases
<1>1. turn[p] < MaxCalls /\ turn[p] + 1 \in 1..MaxCalls /\ Current(p) = <<p, turn[p] + 1>>
  BY DEF RunningInRange, Current
<1>2. \A q \in Procs, i \in 1..MaxCalls :
        outcome'[<<q, i>>] = IF q = p /\ i = turn[p] + 1 THEN o ELSE outcome[<<q, i>>]
  BY <1>1 DEF Settle, Calls
<1>3. \A q \in Procs : /\ turn'[q] = (IF q = p THEN turn[p] + 1 ELSE turn[q])
                       /\ phase'[q] = (IF q = p THEN "idle" ELSE phase[q])
  BY DEF Settle
<1>4. ASSUME NEW q \in Procs, NEW i \in 1..MaxCalls PROVE AnsweredInTurn(q, i)'
  <2>1. AnsweredInTurn(q, i)
    BY DEF CallInv
  <2>2. turn[p] \in Nat /\ i \in Nat
    OBVIOUS
  <2>3. QED
    BY <1>2, <1>3, <2>1, <2>2 DEF AnsweredInTurn
<1>5. ASSUME NEW q \in Procs, phase'[q] \notin {"idle", "crashed"}
      PROVE  outcome'[Current(q)'] = "pending"
  <2>1. q # p /\ turn'[q] = turn[q] /\ outcome[Current(q)] = "pending"
    BY <1>3, <1>5 DEF CallInv
  <2>2. turn[q] + 1 \in 1..MaxCalls
    BY <1>3, <1>5 DEF RunningInRange
  <2>3. QED
    BY <1>2, <2>1, <2>2 DEF Current
<1>6. \A q \in Procs : phase'[q] = "release" => verdict'[q] \in {"ok", "refused", "unknown"}
  BY <1>3 DEF CallInv
<1>7. QED
  BY <1>4, <1>5, <1>6 DEF CallInv

LEMMA CallInvNext == TypeInv /\ CallInv /\ [Next]_vars => CallInv'
<1> SUFFICES ASSUME TypeInv, CallInv, [Next]_vars PROVE CallInv'
  OBVIOUS
<1> USE DEF TypeInv, TypeOK, Phases
<1>1. ASSUME UNCHANGED <<turn, outcome>>, NEW p \in Procs,
             \A q \in Procs \ {p} : phase'[q] = phase[q] /\ verdict'[q] = verdict[q],
             phase[p] # "crashed", phase'[p] # "crashed",
             phase'[p] # "idle" => outcome[Current(p)] = "pending",
             phase'[p] = "release" => verdict'[p] \in {"ok", "refused", "unknown"}
      PROVE  CallInv'
  <2>1. ASSUME NEW q \in Procs, NEW i \in 1..MaxCalls PROVE AnsweredInTurn(q, i)'
    <3>1. AnsweredInTurn(q, i) /\ (q # p => phase'[q] = phase[q])
      BY <1>1 DEF CallInv
    <3>2. QED
      BY <1>1, <3>1 DEF AnsweredInTurn
  <2>2. ASSUME NEW q \in Procs, phase'[q] \notin {"idle", "crashed"}
        PROVE  outcome'[Current(q)'] = "pending"
    <3>1. outcome[Current(q)] = "pending"
      BY <1>1, <2>2 DEF CallInv
    <3>2. QED
      BY <1>1, <3>1 DEF Current
  <2>3. \A q \in Procs : phase'[q] = "release" => verdict'[q] \in {"ok", "refused", "unknown"}
    BY <1>1 DEF CallInv
  <2>4. QED
    BY <2>1, <2>2, <2>3 DEF CallInv
<1>2. ASSUME NEW p \in Procs, NEW i \in 1..MaxCalls, Invoke(p, i) PROVE CallInv'
  <2>1. \A q \in Procs, j \in 1..MaxCalls :
          outcome'[<<q, j>>] = IF q = p /\ j = i THEN "pending" ELSE outcome[<<q, j>>]
    BY <1>2 DEF Invoke, Calls
  <2>2. UNCHANGED <<phase, turn, verdict>> /\ phase[p] # "crashed" /\ outcome[<<p, i>>] = "none"
    BY <1>2 DEF Invoke
  <2>3. ASSUME NEW q \in Procs, NEW j \in 1..MaxCalls PROVE AnsweredInTurn(q, j)'
    <3>1. AnsweredInTurn(q, j) /\ AnsweredInTurn(p, i)
      BY DEF CallInv
    <3>2. turn[p] \in Nat /\ i \in Nat /\ i > turn[p]
      BY <2>2, <3>1 DEF AnsweredInTurn
    <3>3. QED
      BY <2>1, <2>2, <3>1, <3>2 DEF AnsweredInTurn
  <2>4. ASSUME NEW q \in Procs, phase'[q] \notin {"idle", "crashed"}
        PROVE  outcome'[Current(q)'] = "pending"
    <3>1. turn[q] + 1 \in 1..MaxCalls /\ outcome[Current(q)] = "pending"
      BY <2>2, <2>4 DEF RunningInRange, CallInv
    <3>2. QED
      BY <2>1, <2>2, <3>1 DEF Current
  <2>5. QED
    BY <2>2, <2>3, <2>4 DEF CallInv
<1>3. ASSUME NEW p \in Procs, Dequeue(p) PROVE CallInv'
  BY <1>1, <1>3 DEF Dequeue
<1>4. ASSUME NEW p \in Procs, OpenLock(p) PROVE CallInv'
  BY <1>1, <1>4 DEF OpenLock, CallInv
<1>5. ASSUME NEW p \in Procs, GiveUp(p) PROVE CallInv'
  BY <1>5, SettleKeepsCallInv DEF GiveUp
<1>6. ASSUME NEW p \in Procs, StampLock(p) PROVE CallInv'
  <2>1. CASE phase' = [phase EXCEPT ![p] = "read"] /\ UNCHANGED <<turn, outcome>>
    BY <1>1, <1>6, <2>1 DEF StampLock, CallInv
  <2>2. CASE Settle(p, "refused")
    BY <1>6, <2>2, SettleKeepsCallInv DEF StampLock
  <2>3. QED
    BY <1>6, <2>1, <2>2 DEF StampLock
<1>7. ASSUME NEW p \in Procs, ReadLog(p) PROVE CallInv'
  <2>1. /\ phase[p] = "read"
        /\ \/ phase' = [phase EXCEPT ![p] = "write"] /\ UNCHANGED verdict
           \/ /\ phase' = [phase EXCEPT ![p] = "release"]
              /\ verdict' = [verdict EXCEPT ![p] = "refused"]
        /\ UNCHANGED <<turn, outcome>>
    BY <1>7 DEF ReadLog
  <2>2. /\ phase'[p] \in {"write", "release"}
        /\ phase'[p] = "release" => verdict'[p] = "refused"
        /\ \A q \in Procs \ {p} : phase'[q] = phase[q] /\ verdict'[q] = verdict[q]
    BY <2>1
  <2>3. outcome[Current(p)] = "pending"
    BY <2>1 DEF CallInv
  <2>4. QED
    BY <1>1, <2>1, <2>2, <2>3
<1>8. ASSUME NEW p \in Procs, WriteEnvelope(p) \/ ShortWrite(p) PROVE CallInv'
  <2>1. /\ phase[p] = "write"
        /\ phase' = [phase EXCEPT ![p] = "release"]
        /\ verdict' = [verdict EXCEPT ![p] = "ok"] \/ verdict' = [verdict EXCEPT ![p] = "unknown"]
        /\ UNCHANGED <<turn, outcome>>
    BY <1>8 DEF WriteEnvelope, ShortWrite
  <2>2. /\ phase'[p] = "release" /\ verdict'[p] \in {"ok", "unknown"}
        /\ \A q \in Procs \ {p} : phase'[q] = phase[q] /\ verdict'[q] = verdict[q]
    BY <2>1
  <2>3. outcome[Current(p)] = "pending"
    BY <2>1 DEF CallInv
  <2>4. QED
    BY <1>1, <2>1, <2>2, <2>3
<1>9. ASSUME NEW p \in Procs, ReleaseLock(p) PROVE CallInv'
  <2>1. verdict[p] \in {"ok", "refused", "unknown"}
    BY <1>9 DEF ReleaseLock, CallInv
  <2>2. QED
    BY <1>9, <2>1, SettleKeepsCallInv DEF ReleaseLock
<1>10. ASSUME NEW p \in Procs, ReleaseFails(p) PROVE CallInv'
  BY <1>10, SettleKeepsCallInv DEF ReleaseFails
<1>11. ASSUME NEW p \in Procs, Crash(p) PROVE CallInv'
  <2>1. \A q \in Procs, i \in 1..MaxCalls :
          outcome'[<<q, i>>] = IF q = p /\ outcome[<<q, i>>] = "pending" THEN "unknown"
                               ELSE outcome[<<q, i>>]
    BY <1>11 DEF Crash, Calls
  <2>2. /\ UNCHANGED <<turn, verdict>>
        /\ \A q \in Procs : phase'[q] = IF q = p THEN "crashed" ELSE phase[q]
    BY <1>11 DEF Crash
  <2>3. ASSUME NEW q \in Procs, NEW i \in 1..MaxCalls PROVE AnsweredInTurn(q, i)'
    BY <2>1, <2>2 DEF CallInv, AnsweredInTurn
  <2>4. ASSUME NEW q \in Procs, phase'[q] \notin {"idle", "crashed"}
        PROVE  outcome'[Current(q)'] = "pending"
    <3>1. q # p /\ turn[q] + 1 \in 1..MaxCalls /\ outcome[Current(q)] = "pending"
      BY <2>2, <2>4 DEF RunningInRange, CallInv
    <3>2. QED
      BY <2>1, <2>2, <3>1 DEF Current
  <2>5. QED
    BY <2>2, <2>3, <2>4 DEF CallInv
<1>12. CASE InspectLock \/ RemoveOrphan
  BY <1>12 DEF InspectLock, RemoveOrphan, CallInv, AnsweredInTurn, Current
<1>13. CASE UNCHANGED vars
  BY <1>13 DEF vars, CallInv, AnsweredInTurn, Current
<1>14. QED
  BY <1>2, <1>3, <1>4, <1>5, <1>6, <1>7, <1>8, <1>9, <1>10, <1>11, <1>12, <1>13
     DEF Next, AppendStep

LEMMA CallInvInit == Init => CallInv
BY DEF Init, CallInv, AnsweredInTurn, Calls

----------------------------------------------------------------------------
(* Every logged event belongs to a call that was, or is about to be,       *)
(* answered "ok" or "unknown"; every call answered "ok" is logged.         *)
Landed(c) ==
    \/ outcome[c] \in {"ok", "unknown"}
    \/ phase[c[1]] = "release" /\ c = Current(c[1]) /\ verdict[c[1]] \in {"ok", "unknown"}

LogInv ==
    /\ \A c \in Calls : Logged(c) => Landed(c)
    /\ \A c \in Calls : outcome[c] = "ok" => Logged(c)
    /\ \A p \in Procs : phase[p] = "release" /\ verdict[p] = "ok" => Logged(Current(p))
    /\ ProgramOrder

LEMMA PayloadType ==
    ASSUME TypeInv
    PROVE  /\ Len(log) \in Nat
           /\ \A k \in 1..Len(log) : log[k] \in Envelopes /\ log[k].payload \in Calls
<1>1. log \in Seq(Envelopes)
  BY DEF TypeInv, TypeOK
<1>2. ASSUME NEW k \in 1..Len(log) PROVE log[k] \in Envelopes /\ log[k].payload \in Calls
  <2>1. log[k] \in Envelopes
    BY <1>1
  <2>2. QED
    BY <2>1 DEF Envelopes
<1>3. QED
  BY <1>1, <1>2

(* A step that leaves the log alone keeps what is logged landed. *)
LEMMA LogInvSameLog ==
    ASSUME TypeInv, LogInv, UNCHANGED log,
           \A c \in Calls : Landed(c) => Landed(c)',
           \A c \in Calls : outcome'[c] = "ok" => Logged(c),
           \A p \in Procs : phase'[p] = "release" /\ verdict'[p] = "ok" => Logged(Current(p)')
    PROVE  LogInv'
<1>1. \A c : Logged(c)' <=> Logged(c)
  BY DEF Logged
<1>2. ProgramOrder'
  BY DEF LogInv, ProgramOrder
<1>3. QED
  BY <1>1, <1>2 DEF LogInv

(* The running call of a writer is not yet in the log, nor is a later one. *)
LEMMA WriterNotLanded ==
    ASSUME TypeInv, CallInv, NEW p \in Procs, phase[p] \notin {"idle", "crashed", "release"},
           NEW c \in Calls, c[1] = p, Landed(c)
    PROVE  c[2] < turn[p] + 1 /\ c # Current(p)
<1>1. PICK i \in 1..MaxCalls : c = <<p, i>>
  BY DEF Calls
<1>2. AnsweredInTurn(p, i) /\ outcome[Current(p)] = "pending"
  BY DEF CallInv
<1>3. outcome[<<p, i>>] \in {"ok", "unknown"}
  BY <1>1 DEF Landed
<1>4. turn[p] \in Nat /\ i \in Nat
  BY DEF TypeInv, TypeOK
<1>5. QED
  BY <1>1, <1>2, <1>3, <1>4 DEF AnsweredInTurn

LEMMA LogInvAppend ==
    ASSUME TypeInv, CallInv, LogInv, NEW p \in Procs, phase[p] = "write",
           NEW v \in {"ok", "unknown"}, verdict' = [verdict EXCEPT ![p] = v],
           phase' = [phase EXCEPT ![p] = "release"], UNCHANGED <<turn, outcome>>,
           log' = Append(log, NextEnvelope(p))
    PROVE  LogInv'
<1> USE DEF TypeInv, TypeOK, Phases
<1>1. /\ Len(log) \in Nat
      /\ Len(log') = Len(log) + 1
      /\ \A k \in 1..Len(log) : log'[k] = log[k]
      /\ log'[Len(log) + 1] = NextEnvelope(p)
  OBVIOUS
<1>2. NextEnvelope(p).payload = Current(p) /\ Current(p)' = Current(p)
  BY DEF NextEnvelope, Current
<1>3. phase'[p] = "release" /\ verdict'[p] = v /\ Current(p)[1] = p
  BY DEF Current
<1>4. ASSUME NEW c \in Calls, Landed(c) \/ c = Current(p) PROVE Landed(c)'
  <2>1. CASE c = Current(p)
    BY <1>2, <1>3, <2>1 DEF Landed
  <2>2. CASE outcome[c] \in {"ok", "unknown"}
    BY <2>2 DEF Landed
  <2>3. CASE phase[c[1]] = "release" /\ c = Current(c[1]) /\ verdict[c[1]] \in {"ok", "unknown"}
    <3>1. c[1] \in Procs /\ c[1] # p
      BY <2>3 DEF Calls
    <3>2. phase'[c[1]] = "release" /\ verdict'[c[1]] = verdict[c[1]] /\ Current(c[1])' = Current(c[1])
      BY <2>3, <3>1 DEF Current
    <3>3. QED
      BY <2>3, <3>2 DEF Landed
  <2>4. QED
    BY <1>4, <2>1, <2>2, <2>3 DEF Landed
<1>5. ASSUME NEW c, Logged(c)' PROVE Logged(c) \/ c = Current(p)
  <2>1. PICK k \in 1..(Len(log) + 1) : log'[k].payload = c
    BY <1>1, <1>5 DEF Logged
  <2>2. CASE k = Len(log) + 1
    BY <1>1, <1>2, <2>1, <2>2
  <2>3. CASE k \in 1..Len(log)
    BY <1>1, <2>1, <2>3 DEF Logged
  <2>4. QED
    BY <1>1, <2>2, <2>3
<1>6. ASSUME NEW c, Logged(c) PROVE Logged(c)'
  <2>1. PICK k \in 1..Len(log) : log[k].payload = c
    BY <1>6 DEF Logged
  <2>2. k \in 1..Len(log') /\ log'[k] = log[k]
    BY <1>1
  <2>3. QED
    BY <2>1, <2>2 DEF Logged
<1>7. Logged(Current(p))'
  <2>1. Len(log) + 1 \in 1..Len(log') /\ log'[Len(log) + 1].payload = Current(p)
    BY <1>1, <1>2
  <2>2. QED
    BY <1>2, <2>1 DEF Logged
<1>8. \A c \in Calls : Logged(c)' => Landed(c)'
  BY <1>4, <1>5 DEF LogInv
<1>9. \A c \in Calls : outcome'[c] = "ok" => Logged(c)'
  BY <1>6 DEF LogInv
<1>10. ASSUME NEW q \in Procs, phase'[q] = "release", verdict'[q] = "ok"
       PROVE  Logged(Current(q))'
  <2>1. CASE q = p
    BY <1>7, <2>1
  <2>2. CASE q # p
    <3>1. phase[q] = "release" /\ verdict[q] = "ok" /\ Current(q)' = Current(q)
      BY <1>10, <2>2 DEF Current
    <3>2. QED
      BY <1>6, <3>1 DEF LogInv
  <2>3. QED
    BY <2>1, <2>2
<1>11. ProgramOrder'
  <2>1. SUFFICES ASSUME NEW j \in 1..Len(log'), NEW k \in 1..Len(log'), j < k,
                        log'[j].payload[1] = log'[k].payload[1]
                 PROVE  log'[j].payload[2] < log'[k].payload[2]
    BY DEF ProgramOrder
  <2>2. j \in 1..Len(log)
    BY <1>1, <2>1
  <2>3. CASE k \in 1..Len(log)
    BY <1>1, <2>1, <2>2, <2>3 DEF LogInv, ProgramOrder
  <2>4. CASE k = Len(log) + 1
    <3>1. log'[k].payload = <<p, turn[p] + 1>> /\ log'[j] = log[j]
      BY <1>1, <1>2, <2>2, <2>4 DEF Current
    <3>2. log[j].payload \in Calls /\ Landed(log[j].payload) /\ log[j].payload[1] = p
      BY <2>1, <2>2, <3>1, PayloadType DEF LogInv, Logged
    <3>3. log[j].payload[2] < turn[p] + 1
      BY <3>2, WriterNotLanded
    <3>4. QED
      BY <3>1, <3>3
  <2>5. QED
    BY <1>1, <2>3, <2>4
<1>12. QED
  BY <1>8, <1>9, <1>10, <1>11 DEF LogInv

LEMMA SettleKeepsLogInv ==
    ASSUME TypeInv, CallInv, LogInv, NEW p \in Procs, phase[p] \notin {"idle", "crashed"},
           NEW o \in {"ok", "refused", "unknown"}, Settle(p, o), UNCHANGED <<log, verdict>>,
           o = "ok" => Logged(Current(p)),
           o = "refused" => ~Landed(Current(p))
    PROVE  LogInv'
<1> USE DEF TypeInv, TypeOK, Phases
<1>1. Current(p) \in Calls
  BY CurrentType DEF RunningInRange
<1>2. \A c \in Calls : outcome'[c] = IF c = Current(p) THEN o ELSE outcome[c]
  BY <1>1 DEF Settle
<1>3. \A q \in Procs : /\ q # p => phase'[q] = phase[q] /\ Current(q)' = Current(q)
                       /\ phase'[p] = "idle"
  BY DEF Settle, Current
<1>4. ASSUME NEW c \in Calls, Landed(c) PROVE Landed(c)'
  <2>1. CASE c = Current(p)
    BY <1>2, <1>4, <2>1 DEF Landed
  <2>2. CASE outcome[c] \in {"ok", "unknown"} /\ c # Current(p)
    BY <1>2, <2>2 DEF Landed
  <2>3. CASE /\ c # Current(p)
             /\ phase[c[1]] = "release" /\ c = Current(c[1]) /\ verdict[c[1]] \in {"ok", "unknown"}
    <3>1. c[1] \in Procs /\ c[1] # p
      BY <2>3 DEF Calls
    <3>2. QED
      BY <1>3, <2>3, <3>1 DEF Landed
  <2>4. QED
    BY <1>4, <2>1, <2>2, <2>3 DEF Landed
<1>5. \A c \in Calls : outcome'[c] = "ok" => Logged(c)
  BY <1>2 DEF LogInv
<1>6. \A q \in Procs : phase'[q] = "release" /\ verdict'[q] = "ok" => Logged(Current(q)')
  BY <1>3 DEF LogInv
<1>7. QED
  BY <1>4, <1>5, <1>6, LogInvSameLog

LEMMA LogInvNext == TypeInv /\ CallInv /\ LogInv /\ [Next]_vars => LogInv'
<1> SUFFICES ASSUME TypeInv, CallInv, LogInv, [Next]_vars PROVE LogInv'
  OBVIOUS
<1> USE DEF TypeInv, TypeOK, Phases
<1>1. ASSUME UNCHANGED <<log, turn, outcome>>, NEW p \in Procs, phase[p] # "release",
             \A q \in Procs \ {p} : phase'[q] = phase[q] /\ verdict'[q] = verdict[q],
             phase'[p] = "release" => verdict'[p] # "ok"
      PROVE  LogInv'
  <2>1. ASSUME NEW c \in Calls, Landed(c) PROVE Landed(c)'
    <3>1. CASE outcome[c] \in {"ok", "unknown"}
      BY <1>1, <3>1 DEF Landed
    <3>2. CASE phase[c[1]] = "release" /\ c = Current(c[1]) /\ verdict[c[1]] \in {"ok", "unknown"}
      <4>1. c[1] \in Procs \ {p}
        BY <1>1, <3>2 DEF Calls
      <4>2. QED
        BY <1>1, <3>2, <4>1 DEF Landed, Current
    <3>3. QED
      BY <2>1, <3>1, <3>2 DEF Landed
  <2>2. \A c \in Calls : outcome'[c] = "ok" => Logged(c)
    BY <1>1 DEF LogInv
  <2>3. ASSUME NEW q \in Procs, phase'[q] = "release", verdict'[q] = "ok"
        PROVE  Logged(Current(q)')
    BY <1>1, <2>3 DEF LogInv, Current
  <2>4. QED
    BY <1>1, <2>1, <2>2, <2>3, LogInvSameLog
<1>2. ASSUME NEW p \in Procs, NEW i \in 1..MaxCalls, Invoke(p, i) PROVE LogInv'
  <2>1. /\ outcome[<<p, i>>] = "none"
        /\ \A c \in Calls : outcome'[c] = IF c = <<p, i>> THEN "pending" ELSE outcome[c]
        /\ UNCHANGED <<log, phase, turn, verdict>>
    BY <1>2 DEF Invoke, Calls
  <2>2. ASSUME NEW c \in Calls, Landed(c) PROVE Landed(c)'
    BY <2>1, <2>2 DEF Landed, Current
  <2>3. \A c \in Calls : outcome'[c] = "ok" => Logged(c)
    BY <2>1 DEF LogInv
  <2>4. \A q \in Procs : phase'[q] = "release" /\ verdict'[q] = "ok" => Logged(Current(q)')
    BY <2>1 DEF LogInv, Current
  <2>5. QED
    BY <2>1, <2>2, <2>3, <2>4, LogInvSameLog
<1>3. ASSUME NEW p \in Procs, Dequeue(p) PROVE LogInv'
  BY <1>1, <1>3 DEF Dequeue
<1>4. ASSUME NEW p \in Procs, OpenLock(p) PROVE LogInv'
  BY <1>1, <1>4 DEF OpenLock
<1>5. ASSUME NEW p \in Procs, phase[p] \in {"open", "stamp"}, Settle(p, "refused"),
             UNCHANGED <<log, verdict>>
      PROVE  LogInv'
  <2>1. Current(p) \in Calls /\ Current(p)[1] = p
    BY <1>5, CurrentType DEF RunningInRange, Current
  <2>2. ~Landed(Current(p))
    BY <1>5, <2>1, WriterNotLanded
  <2>3. QED
    BY <1>5, <2>2, SettleKeepsLogInv
<1>6. ASSUME NEW p \in Procs, GiveUp(p) PROVE LogInv'
  BY <1>5, <1>6 DEF GiveUp
<1>7. ASSUME NEW p \in Procs, StampLock(p) PROVE LogInv'
  <2>1. CASE phase' = [phase EXCEPT ![p] = "read"] /\ UNCHANGED <<turn, outcome>>
    BY <1>1, <1>7, <2>1 DEF StampLock
  <2>2. CASE Settle(p, "refused")
    BY <1>5, <1>7, <2>2 DEF StampLock
  <2>3. QED
    BY <1>7, <2>1, <2>2 DEF StampLock
<1>8. ASSUME NEW p \in Procs, ReadLog(p) PROVE LogInv'
  <2>1. /\ phase[p] = "read"
        /\ \/ phase' = [phase EXCEPT ![p] = "write"] /\ UNCHANGED verdict
           \/ /\ phase' = [phase EXCEPT ![p] = "release"]
              /\ verdict' = [verdict EXCEPT ![p] = "refused"]
        /\ UNCHANGED <<log, turn, outcome>>
    BY <1>8 DEF ReadLog
  <2>2. /\ phase'[p] = "release" => verdict'[p] # "ok"
        /\ \A q \in Procs \ {p} : phase'[q] = phase[q] /\ verdict'[q] = verdict[q]
    BY <2>1
  <2>3. QED
    BY <1>1, <2>1, <2>2
<1>9. ASSUME NEW p \in Procs, WriteEnvelope(p) PROVE LogInv'
  BY <1>9, LogInvAppend DEF WriteEnvelope
<1>10. ASSUME NEW p \in Procs, ShortWrite(p) PROVE LogInv'
  <2>1. /\ phase[p] = "write"
        /\ phase' = [phase EXCEPT ![p] = "release"]
        /\ verdict' = [verdict EXCEPT ![p] = "unknown"]
        /\ UNCHANGED <<turn, outcome>>
        /\ log' = log \/ log' = Append(log, NextEnvelope(p))
    BY <1>10 DEF ShortWrite
  <2>2. CASE log' = log
    BY <1>1, <2>1, <2>2
  <2>3. CASE log' = Append(log, NextEnvelope(p))
    BY <2>1, <2>3, LogInvAppend
  <2>4. QED
    BY <2>1, <2>2, <2>3
<1>11. ASSUME NEW p \in Procs, ReleaseLock(p) PROVE LogInv'
  <2>1. /\ phase[p] = "release" /\ verdict[p] \in {"ok", "refused", "unknown"}
        /\ Settle(p, verdict[p]) /\ UNCHANGED <<log, verdict>>
    BY <1>11 DEF ReleaseLock, CallInv
  <2>2. verdict[p] = "ok" => Logged(Current(p))
    BY <2>1 DEF LogInv
  <2>3. verdict[p] = "refused" => ~Landed(Current(p))
    BY <2>1 DEF CallInv, Landed, Current
  <2>4. QED
    BY <2>1, <2>2, <2>3, SettleKeepsLogInv
<1>12. ASSUME NEW p \in Procs, ReleaseFails(p) PROVE LogInv'
  BY <1>12, SettleKeepsLogInv DEF ReleaseFails
<1>13. ASSUME NEW p \in Procs, Crash(p) PROVE LogInv'
  <2>1. /\ \A c \in Calls : outcome'[c] = IF c[1] = p /\ outcome[c] = "pending" THEN "unknown"
                                           ELSE outcome[c]
        /\ UNCHANGED <<log, turn, verdict>>
        /\ \A q \in Procs : phase'[q] = IF q = p THEN "crashed" ELSE phase[q]
    BY <1>13 DEF Crash
  <2>2. ASSUME NEW c \in Calls, Landed(c) PROVE Landed(c)'
    <3>1. CASE outcome[c] \in {"ok", "unknown"}
      BY <2>1, <3>1 DEF Landed
    <3>2. CASE phase[c[1]] = "release" /\ c = Current(c[1]) /\ verdict[c[1]] \in {"ok", "unknown"}
      <4>1. c[1] \in Procs /\ outcome[c] = "pending"
        BY <3>2 DEF Calls, CallInv
      <4>2. QED
        BY <2>1, <3>2, <4>1 DEF Landed, Current
    <3>3. QED
      BY <2>2, <3>1, <3>2 DEF Landed
  <2>3. \A c \in Calls : outcome'[c] = "ok" => Logged(c)
    BY <2>1 DEF LogInv
  <2>4. \A q \in Procs : phase'[q] = "release" /\ verdict'[q] = "ok" => Logged(Current(q)')
    BY <2>1 DEF LogInv, Current
  <2>5. QED
    BY <2>1, <2>2, <2>3, <2>4, LogInvSameLog
<1>14. CASE InspectLock \/ RemoveOrphan \/ UNCHANGED vars
  <2>1. UNCHANGED <<log, phase, turn, verdict, outcome>>
    BY <1>14 DEF InspectLock, RemoveOrphan, vars
  <2>2. \A c \in Calls : Landed(c) => Landed(c)'
    BY <2>1 DEF Landed, Current
  <2>3. \A c \in Calls : outcome'[c] = "ok" => Logged(c)
    BY <2>1 DEF LogInv
  <2>4. \A q \in Procs : phase'[q] = "release" /\ verdict'[q] = "ok" => Logged(Current(q)')
    BY <2>1 DEF LogInv, Current
  <2>5. QED
    BY <2>1, <2>2, <2>3, <2>4, LogInvSameLog
<1>15. QED
  BY <1>2, <1>3, <1>4, <1>6, <1>7, <1>8, <1>9, <1>10, <1>11, <1>12, <1>13, <1>14
     DEF Next, AppendStep

LEMMA LogInvInit == Init => LogInv
<1> SUFFICES ASSUME Init PROVE LogInv
  OBVIOUS
<1>1. log = <<>> /\ Len(log) = 0
  BY DEF Init
<1>2. /\ \A c \in Calls : outcome[c] = "none"
      /\ \A p \in Procs : phase[p] = "idle"
  BY DEF Init
<1>3. ProgramOrder /\ \A c : ~Logged(c)
  BY <1>1 DEF ProgramOrder, Logged
<1>4. QED
  BY <1>2, <1>3 DEF LogInv

----------------------------------------------------------------------------
(* The invariant that carries the store's promises. *)
IInv == TypeInv /\ LockInv /\ ChainInv /\ CallInv /\ LogInv

LEMMA Inductive == Spec => []IInv
<1>1. Init => IInv
  <2>1. Init => LockInv
    BY DEF Init, LockInv, Holding
  <2>2. Init => ChainInv
    BY DEF Init, ChainInv, ChainValid, ViewFresh
  <2>3. QED
    BY <2>1, <2>2, TypeInvInit, CallInvInit, LogInvInit DEF IInv
<1>2. IInv /\ [Next]_vars => IInv'
  BY TypeInvNext, LockInvNext, ChainInvNext, CallInvNext, LogInvNext DEF IInv
<1>3. QED
  BY <1>1, <1>2, PTL DEF Spec

(* The events of one process stand in call order (serializeLocalAppend),   *)
(* whatever became of the calls before.                                    *)
THEOREM ProgramOrderKept == Spec => []ProgramOrder
<1>1. IInv => ProgramOrder
  BY DEF IInv, LogInv
<1>2. QED
  BY <1>1, Inductive, PTL

----------------------------------------------------------------------------
(* A step keeps the excuse for a file without its last newline, as long as *)
(* it takes back no answer and lets no failed writer go unanswered.        *)
LEMMA ExcuseStays ==
    ASSUME FailedWrite,
           \A c \in Calls : outcome[c] = "unknown" => outcome'[c] = "unknown",
           \A p \in Procs : phase[p] = "release" /\ verdict[p] = "unknown" =>
               \/ phase'[p] = "release" /\ verdict'[p] = "unknown"
               \/ \E c \in Calls : outcome'[c] = "unknown"
    PROVE  FailedWrite'
BY DEF FailedWrite

LEMMA ReadableNext ==
    TypeInv /\ CallInv /\ HistoryReadable /\ [Next]_vars => HistoryReadable'
<1> SUFFICES ASSUME TypeInv, CallInv, HistoryReadable, [Next]_vars PROVE HistoryReadable'
  OBVIOUS
<1> USE DEF TypeInv, TypeOK, Phases
<1>1. (tail # "newline" => FailedWrite) /\ ((tail' # "newline" => FailedWrite') => HistoryReadable')
  BY DEF HistoryReadable
<1>2. ASSUME UNCHANGED outcome, NEW p \in Procs, phase[p] # "release",
             \A q \in Procs \ {p} : phase'[q] = phase[q] /\ verdict'[q] = verdict[q]
      PROVE  FailedWrite => FailedWrite'
  BY <1>2, ExcuseStays
<1>3. ASSUME NEW p \in Procs, phase[p] \notin {"idle", "crashed"},
             NEW o \in {"ok", "refused", "unknown"}, Settle(p, o), UNCHANGED verdict,
             phase[p] = "release" /\ verdict[p] = "unknown" => o = "unknown"
      PROVE  FailedWrite => FailedWrite'
  <2>1. Current(p) \in Calls /\ outcome[Current(p)] = "pending"
    BY <1>3, CurrentType DEF RunningInRange, CallInv
  <2>2. \A c \in Calls : outcome'[c] = IF c = Current(p) THEN o ELSE outcome[c]
    BY <1>3, <2>1 DEF Settle
  <2>3. \A c \in Calls : outcome[c] = "unknown" => outcome'[c] = "unknown"
    BY <2>1, <2>2
  <2>4. ASSUME NEW q \in Procs, phase[q] = "release", verdict[q] = "unknown"
        PROVE  \/ phase'[q] = "release" /\ verdict'[q] = "unknown"
               \/ \E c \in Calls : outcome'[c] = "unknown"
    <3>1. CASE q = p
      BY <1>3, <2>1, <2>2, <2>4, <3>1
    <3>2. CASE q # p
      BY <1>3, <2>4, <3>2 DEF Settle
    <3>3. QED
      BY <3>1, <3>2
  <2>5. QED
    BY <2>3, <2>4, ExcuseStays
<1>4. ASSUME NEW p \in Procs, NEW i \in 1..MaxCalls, Invoke(p, i) PROVE HistoryReadable'
  <2>1. UNCHANGED <<tail, phase, verdict>>
        /\ \A c \in Calls : outcome[c] = "unknown" => outcome'[c] = "unknown"
    BY <1>4 DEF Invoke
  <2>2. QED
    BY <1>1, <2>1, ExcuseStays
<1>5. ASSUME NEW p \in Procs, Dequeue(p) PROVE HistoryReadable'
  BY <1>1, <1>2, <1>5 DEF Dequeue
<1>6. ASSUME NEW p \in Procs, OpenLock(p) PROVE HistoryReadable'
  BY <1>1, <1>2, <1>6 DEF OpenLock
<1>7. ASSUME NEW p \in Procs, GiveUp(p) PROVE HistoryReadable'
  BY <1>1, <1>3, <1>7 DEF GiveUp
<1>8. ASSUME NEW p \in Procs, StampLock(p) PROVE HistoryReadable'
  <2>1. CASE phase' = [phase EXCEPT ![p] = "read"] /\ UNCHANGED outcome
    BY <1>1, <1>2, <1>8, <2>1 DEF StampLock
  <2>2. CASE Settle(p, "refused")
    BY <1>1, <1>3, <1>8, <2>2 DEF StampLock
  <2>3. QED
    BY <1>8, <2>1, <2>2 DEF StampLock
<1>9. ASSUME NEW p \in Procs, ReadLog(p) PROVE HistoryReadable'
  <2>1. /\ phase[p] = "read"
        /\ \A q \in Procs \ {p} : phase'[q] = phase[q] /\ verdict'[q] = verdict[q]
        /\ UNCHANGED <<tail, outcome>>
    BY <1>9 DEF ReadLog
  <2>2. QED
    BY <1>1, <1>2, <2>1
<1>10. ASSUME NEW p \in Procs, WriteEnvelope(p) PROVE HistoryReadable'
  <2>1. /\ phase[p] = "write"
        /\ \A q \in Procs \ {p} : phase'[q] = phase[q] /\ verdict'[q] = verdict[q]
        /\ UNCHANGED outcome
        /\ tail = "newline" => tail' = "newline"
    BY <1>10 DEF WriteEnvelope, TailAfter
  <2>2. QED
    BY <1>1, <1>2, <2>1
<1>11. ASSUME NEW p \in Procs, ShortWrite(p) PROVE HistoryReadable'
  <2>1. phase'[p] = "release" /\ verdict'[p] = "unknown"
    BY <1>11 DEF ShortWrite
  <2>2. QED
    BY <1>1, <2>1 DEF FailedWrite
<1>12. ASSUME NEW p \in Procs, ReleaseLock(p) PROVE HistoryReadable'
  <2>1. verdict[p] \in {"ok", "refused", "unknown"}
    BY <1>12 DEF ReleaseLock, CallInv
  <2>2. QED
    BY <1>1, <1>3, <1>12, <2>1 DEF ReleaseLock
<1>13. ASSUME NEW p \in Procs, ReleaseFails(p) PROVE HistoryReadable'
  BY <1>1, <1>3, <1>13 DEF ReleaseFails
<1>14. ASSUME NEW p \in Procs, Crash(p) PROVE HistoryReadable'
  <2>1. /\ \A c \in Calls : outcome'[c] = IF c[1] = p /\ outcome[c] = "pending" THEN "unknown"
                                           ELSE outcome[c]
        /\ UNCHANGED <<tail, verdict>>
        /\ \A q \in Procs \ {p} : phase'[q] = phase[q]
    BY <1>14 DEF Crash
  <2>2. phase[p] = "release" => \E c \in Calls : outcome'[c] = "unknown"
    <3>1. SUFFICES ASSUME phase[p] = "release" PROVE outcome'[Current(p)] = "unknown" /\ Current(p) \in Calls
      OBVIOUS
    <3>2. Current(p) \in Calls /\ Current(p)[1] = p /\ outcome[Current(p)] = "pending"
      BY <3>1, CurrentType DEF RunningInRange, CallInv, Current
    <3>3. QED
      BY <2>1, <3>2
  <2>3. QED
    BY <1>1, <2>1, <2>2, ExcuseStays
<1>15. CASE InspectLock \/ RemoveOrphan \/ UNCHANGED vars
  <2>1. UNCHANGED <<tail, phase, verdict, outcome>>
    BY <1>15 DEF InspectLock, RemoveOrphan, vars
  <2>2. QED
    BY <2>1 DEF HistoryReadable, FailedWrite
<1>16. QED
  BY <1>4, <1>5, <1>6, <1>7, <1>8, <1>9, <1>10, <1>11, <1>12, <1>13, <1>14, <1>15
     DEF Next, AppendStep

(* The file ends without its newline only after a write whose caller was   *)
(* told neither that it succeeded nor that it was refused (append's        *)
(* appendFile), however many writers follow it.                            *)
THEOREM HistoryStaysReadable == Spec => []HistoryReadable
<1>1. Init => HistoryReadable
  BY DEF Init, HistoryReadable
<1>2. IInv => TypeInv /\ CallInv
  BY DEF IInv
<1>3. QED
  BY <1>1, <1>2, Inductive, ReadableNext, PTL DEF Spec

(* What append() tells its caller is true: an acknowledged event is in the *)
(* file, and readers get it unless some write has failed; a refused one is *)
(* not in the file and never will be.                                      *)
THEOREM OutcomesStayHonest == Spec => []OutcomesHonest
<1>1. IInv /\ HistoryReadable => OutcomesHonest
  <2> SUFFICES ASSUME IInv, HistoryReadable, NEW c \in Calls
               PROVE  /\ outcome[c] = "ok" => Logged(c) /\ (Readable \/ FailedWrite)
                      /\ outcome[c] \in {"none", "refused"} => ~Logged(c)
    BY DEF OutcomesHonest
  <2>1. outcome[c] = "ok" => Logged(c)
    BY DEF IInv, LogInv
  <2>2. Readable \/ FailedWrite
    <3>1. ChainValid
      BY DEF IInv, ChainInv, ChainIntact
    <3>2. QED
      BY <3>1 DEF HistoryReadable, Readable
  <2>3. ASSUME outcome[c] \in {"none", "refused"}, Logged(c) PROVE FALSE
    <3>1. phase[c[1]] = "release" /\ c = Current(c[1])
      BY <2>3 DEF IInv, LogInv, Landed
    <3>2. c[1] \in Procs /\ outcome[Current(c[1])] = "pending"
      BY <2>3, <3>1 DEF Calls, IInv, CallInv
    <3>3. QED
      BY <2>3, <3>1, <3>2
  <2>4. QED
    BY <2>1, <2>2, <2>3
<1>2. QED
  BY <1>1, Inductive, HistoryStaysReadable, PTL

----------------------------------------------------------------------------
(* The refinement: the history of the atomic log is the log's payloads.    *)
Payloads == [k \in 1..Len(log) |-> log[k].payload]

LEMMA PayloadsType ==
    ASSUME TypeInv
    PROVE  /\ Payloads \in Seq(Calls) /\ Len(Payloads) = Len(log)
           /\ \A k \in 1..Len(log) : Payloads[k] = log[k].payload
           /\ \A c : Atomic!InHistory(c) <=> Logged(c)
<1>1. Len(log) \in Nat /\ \A k \in 1..Len(log) : log[k].payload \in Calls
  BY PayloadType
<1>2. Payloads \in Seq(Calls) /\ Len(Payloads) = Len(log)
  BY <1>1 DEF Payloads
<1>3. \A k \in 1..Len(log) : Payloads[k] = log[k].payload
  BY DEF Payloads
<1>4. ASSUME NEW c PROVE Atomic!InHistory(c) <=> \E k \in 1..Len(Payloads) : Payloads[k] = c
  BY DEF Atomic!InHistory, Payloads
<1>5. QED
  BY <1>2, <1>3, <1>4 DEF Logged

LEMMA PayloadsGrow ==
    ASSUME TypeInv, TypeInv', NEW p \in Procs, log' = Append(log, NextEnvelope(p))
    PROVE  Payloads' = Append(Payloads, Current(p))
<1>1. /\ log \in Seq(Envelopes) /\ Len(log) \in Nat
      /\ Len(log') = Len(log) + 1
      /\ \A k \in 1..Len(log) : log'[k] = log[k]
      /\ log'[Len(log) + 1].payload = Current(p)
  BY DEF TypeInv, TypeOK, NextEnvelope
<1>2. Payloads \in Seq(Calls) /\ Len(Payloads) = Len(log)
      /\ \A k \in 1..Len(log) : Payloads[k] = log[k].payload
  BY PayloadsType
<1>3. Payloads' \in Seq(Calls) /\ Len(Payloads') = Len(log) + 1
      /\ \A k \in 1..(Len(log) + 1) : Payloads'[k] = log'[k].payload
  <2>1. Len(log') \in Nat /\ \A k \in 1..Len(log') : log'[k] \in Envelopes
    BY <1>1 DEF TypeInv, TypeOK
  <2>2. \A k \in 1..Len(log') : log'[k].payload \in Calls
    BY <2>1 DEF Envelopes
  <2>3. QED
    BY <1>1, <2>1, <2>2 DEF Payloads
<1> DEFINE grown == Append(Payloads, Current(p))
<1>4. Current(p) \in Calls
  BY <1>1, <1>3
<1>5. grown \in Seq(Calls) /\ Len(grown) = Len(log) + 1
      /\ \A k \in 1..(Len(log) + 1) :
            grown[k] = IF k = Len(log) + 1 THEN Current(p) ELSE Payloads[k]
  BY <1>1, <1>2, <1>4, AppendProperties
<1>6. ASSUME NEW k \in 1..(Len(log) + 1) PROVE Payloads'[k] = grown[k]
  BY <1>1, <1>2, <1>3, <1>5
<1> HIDE DEF grown
<1>7. Payloads' = grown
  BY <1>3, <1>5, <1>6, SeqEqual
<1>8. QED
  BY <1>7 DEF grown

LEMMA PayloadsKept == ASSUME UNCHANGED log PROVE Payloads' = Payloads
BY DEF Payloads

(* A step that moves neither the history nor an outcome is a stutter.      *)
LEMMA AtomicStutters ==
    ASSUME UNCHANGED <<log, outcome>>
    PROVE  [Atomic!Next]_(Atomic!absVars)
BY PayloadsKept DEF Atomic!absVars, Payloads

(* The step that writes a whole envelope is the call's commit.             *)
LEMMA WriteCommits ==
    ASSUME IInv, TypeInv', NEW p \in Procs, phase[p] = "write",
           log' = Append(log, NextEnvelope(p)), UNCHANGED outcome
    PROVE  [Atomic!Next]_(Atomic!absVars)
<1>1. TypeInv /\ CallInv /\ LogInv
  BY DEF IInv
<1>2. turn[p] \in Nat /\ turn[p] + 1 \in 1..MaxCalls /\ Current(p) = <<p, turn[p] + 1>>
  <2>1. turn[p] \in 0..MaxCalls /\ turn[p] < MaxCalls
    BY <1>1 DEF TypeInv, TypeOK, RunningInRange
  <2>2. QED
    BY <2>1 DEF Current
<1>3. Current(p) \in Calls /\ outcome[Current(p)] = "pending"
  BY <1>1, <1>2 DEF CallInv, Calls
<1>4. ~Logged(Current(p))
  <2>1. SUFFICES ASSUME Logged(Current(p)) PROVE FALSE
    OBVIOUS
  <2>2. Landed(Current(p)) /\ Current(p)[1] = p
    BY <1>1, <1>2, <1>3, <2>1 DEF LogInv
  <2>3. QED
    BY <1>1, <1>3, <2>2, WriterNotLanded
<1>5. ASSUME NEW d \in Calls, d[1] = Current(p)[1], d[2] < Current(p)[2]
      PROVE  outcome[d] \notin {"none", "pending"}
  <2>1. PICK q \in Procs, i \in 1..MaxCalls : d = <<q, i>>
    BY DEF Calls
  <2>2. q = p /\ i \in Nat /\ i <= turn[p]
    BY <1>2, <1>5, <2>1
  <2>3. AnsweredInTurn(p, i)
    BY <1>1 DEF CallInv
  <2>4. QED
    BY <2>1, <2>2, <2>3 DEF AnsweredInTurn
<1>6. Payloads' = Append(Payloads, Current(p))
  BY <1>1, PayloadsGrow
<1>7. ~Atomic!InHistory(Current(p))
  BY <1>1, <1>4, PayloadsType
<1>8. Calls = Atomic!AppendCalls
  BY DEF Calls, Atomic!AppendCalls
<1>9. PICK c \in Atomic!AppendCalls : c = Current(p)
  BY <1>3, <1>8
<1>10. Atomic!Commit(c)
  BY <1>3, <1>5, <1>6, <1>7, <1>8, <1>9 DEF Atomic!Commit, Payloads
<1>11. QED
  BY <1>10 DEF Atomic!Next

(* A settled promise is an acknowledgement, a refusal or a call given up.  *)
LEMMA SettleAnswers ==
    ASSUME IInv, NEW p \in Procs, phase[p] \notin {"idle", "crashed"},
           NEW o \in {"ok", "refused", "unknown"}, Settle(p, o), UNCHANGED log,
           o = "ok" => Logged(Current(p)),
           o = "refused" => ~Landed(Current(p))
    PROVE  [Atomic!Next]_(Atomic!absVars)
<1>1. TypeInv /\ CallInv /\ LogInv
  BY DEF IInv
<1>2. Current(p) \in Calls /\ outcome[Current(p)] = "pending"
  BY <1>1, CurrentType DEF TypeInv, RunningInRange, CallInv
<1>3. outcome' = [outcome EXCEPT ![Current(p)] = o] /\ outcome \in [Calls -> Outcomes]
  BY <1>1 DEF Settle, TypeInv, TypeOK
<1>4. Payloads' = Payloads
  BY PayloadsKept
<1>5. Calls = Atomic!AppendCalls
  BY DEF Calls, Atomic!AppendCalls
<1>6. CASE o = "ok"
  <2>1. Atomic!InHistory(Current(p))
    BY <1>1, <1>6, PayloadsType
  <2>2. Atomic!Acknowledge(Current(p))
    BY <1>2, <1>3, <1>4, <1>6, <2>1 DEF Atomic!Acknowledge, Payloads
  <2>3. QED
    BY <1>2, <1>5, <2>2 DEF Atomic!Next
<1>7. CASE o = "refused"
  <2>1. ~Atomic!InHistory(Current(p))
    BY <1>1, <1>2, <1>7, PayloadsType DEF LogInv
  <2>2. Atomic!Refuse(Current(p))
    BY <1>2, <1>3, <1>4, <1>7, <2>1 DEF Atomic!Refuse, Payloads
  <2>3. QED
    BY <1>2, <1>5, <2>2 DEF Atomic!Next
<1>8. CASE o = "unknown"
  <2>1. outcome' = [c \in Calls |-> IF c \in {Current(p)} THEN "unknown" ELSE outcome[c]]
    BY <1>3, <1>8
  <2>2. Atomic!Abandon({Current(p)})
    BY <1>2, <1>4, <1>5, <2>1 DEF Atomic!Abandon, Payloads
  <2>3. QED
    BY <1>2, <1>5, <2>2 DEF Atomic!Next
<1>9. QED
  BY <1>6, <1>7, <1>8

(* A death abandons the calls its process had not been answered.           *)
LEMMA CrashAbandons ==
    ASSUME IInv, NEW p \in Procs, Crash(p)
    PROVE  [Atomic!Next]_(Atomic!absVars)
<1> DEFINE cut == {c \in Calls : c[1] = p /\ outcome[c] = "pending"}
<1>1. Payloads' = Payloads
  BY PayloadsKept DEF Crash
<1>2. Calls = Atomic!AppendCalls
  BY DEF Calls, Atomic!AppendCalls
<1>3. outcome' = [c \in Calls |-> IF c \in cut THEN "unknown" ELSE outcome[c]]
  BY DEF Crash
<1>4. cut \in SUBSET Calls /\ \A c \in cut : outcome[c] = "pending"
  OBVIOUS
<1> HIDE DEF cut
<1>5. Atomic!Abandon(cut)
  BY <1>1, <1>2, <1>3, <1>4 DEF Atomic!Abandon, Payloads
<1>6. QED
  BY <1>2, <1>4, <1>5 DEF Atomic!Next

LEMMA AtomicStep == IInv /\ TypeInv' /\ [Next]_vars => [Atomic!Next]_(Atomic!absVars)
<1> SUFFICES ASSUME IInv, TypeInv', [Next]_vars PROVE [Atomic!Next]_(Atomic!absVars)
  OBVIOUS
<1>1. TypeInv /\ CallInv /\ LogInv
  BY DEF IInv
<1>2. ASSUME NEW p \in Procs, NEW i \in 1..MaxCalls, Invoke(p, i)
      PROVE  [Atomic!Next]_(Atomic!absVars)
  <2>1. <<p, i>> \in Atomic!AppendCalls
    BY DEF Atomic!AppendCalls
  <2>2. Payloads' = Payloads
    BY <1>2, PayloadsKept DEF Invoke
  <2>3. Atomic!Invoke(<<p, i>>)
    BY <1>2, <2>2 DEF Invoke, Atomic!Invoke, Payloads
  <2>4. QED
    BY <2>1, <2>3 DEF Atomic!Next
<1>3. ASSUME NEW p \in Procs, phase[p] \in {"open", "stamp"}, Settle(p, "refused"), UNCHANGED log
      PROVE  [Atomic!Next]_(Atomic!absVars)
  <2>1. Current(p) \in Calls /\ Current(p)[1] = p
    BY <1>1, <1>3, CurrentType DEF TypeInv, RunningInRange, Current
  <2>2. ~Landed(Current(p))
    BY <1>1, <1>3, <2>1, WriterNotLanded
  <2>3. QED
    BY <1>3, <2>2, SettleAnswers
<1>4. ASSUME NEW p \in Procs, GiveUp(p) PROVE [Atomic!Next]_(Atomic!absVars)
  BY <1>3, <1>4 DEF GiveUp
<1>5. ASSUME NEW p \in Procs, StampLock(p) PROVE [Atomic!Next]_(Atomic!absVars)
  <2>1. CASE UNCHANGED outcome
    BY <1>5, <2>1, AtomicStutters DEF StampLock
  <2>2. CASE Settle(p, "refused")
    BY <1>3, <1>5, <2>2 DEF StampLock
  <2>3. QED
    BY <1>5, <2>1, <2>2 DEF StampLock
<1>6. ASSUME NEW p \in Procs, WriteEnvelope(p) \/ ShortWrite(p) PROVE [Atomic!Next]_(Atomic!absVars)
  <2>1. /\ phase[p] = "write" /\ UNCHANGED outcome
        /\ log' = log \/ log' = Append(log, NextEnvelope(p))
    BY <1>6 DEF WriteEnvelope, ShortWrite
  <2>2. QED
    BY <2>1, WriteCommits, AtomicStutters
<1>7. ASSUME NEW p \in Procs, ReleaseLock(p) PROVE [Atomic!Next]_(Atomic!absVars)
  <2>1. /\ phase[p] = "release" /\ verdict[p] \in {"ok", "refused", "unknown"}
        /\ Settle(p, verdict[p]) /\ UNCHANGED log
    BY <1>1, <1>7 DEF ReleaseLock, CallInv
  <2>2. verdict[p] = "ok" => Logged(Current(p))
    BY <1>1, <2>1 DEF LogInv
  <2>3. verdict[p] = "refused" => ~Landed(Current(p))
    BY <1>1, <2>1 DEF CallInv, Landed, Current
  <2>4. QED
    BY <2>1, <2>2, <2>3, SettleAnswers
<1>8. ASSUME NEW p \in Procs, ReleaseFails(p) PROVE [Atomic!Next]_(Atomic!absVars)
  BY <1>8, SettleAnswers DEF ReleaseFails
<1>9. ASSUME NEW p \in Procs, Dequeue(p) \/ OpenLock(p) \/ ReadLog(p)
      PROVE  [Atomic!Next]_(Atomic!absVars)
  BY <1>9, AtomicStutters DEF Dequeue, OpenLock, ReadLog
<1>10. CASE InspectLock \/ RemoveOrphan \/ UNCHANGED vars
  BY <1>10, AtomicStutters DEF InspectLock, RemoveOrphan, vars
<1>11. QED
  BY <1>2, <1>4, <1>5, <1>6, <1>7, <1>8, <1>9, <1>10, CrashAbandons DEF Next, AppendStep

(* The store is an atomic log (append, envelopes): to its callers, each    *)
(* event enters one shared history at an instant of its call, in program   *)
(* order, or never, whatever locks leak and writers fail or die.           *)
THEOREM StoreIsAtomicLog == Spec => Linearizable
<1>1. Init => Atomic!Init
  <2>1. SUFFICES ASSUME Init PROVE Atomic!Init
    OBVIOUS
  <2>2. log = <<>> /\ Len(log) = 0 /\ outcome = [c \in Calls |-> "none"]
    BY <2>1 DEF Init
  <2>3. Payloads = <<>>
    BY <2>2 DEF Payloads
  <2>4. QED
    BY <2>2, <2>3 DEF Atomic!Init, Atomic!AppendCalls, Calls, Payloads
<1>2. IInv => TypeInv
  BY DEF IInv
<1>3. QED
  BY <1>1, <1>2, AtomicStep, Inductive, PTL DEF Spec, Linearizable, Atomic!Spec
==============================================================================

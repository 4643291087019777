------------------------------ MODULE RecordsProofs ------------------------------
(***************************************************************************)
(* What the run of MCRecords shows of shared memory, receipts, takeover    *)
(* checkpoints and context packets, proved for any number of agents, keys, *)
(* senders, workers, files, branches, manifests and requests, and put      *)
(* together.                                                               *)
(***************************************************************************)
EXTENDS MCRecords, SequenceTheorems, TLAPS

----------------------------------------------------------------------------
(* SharedMemory.  The invariants about keys whose puts take turns rest on   *)
(* three facts a put relies on without saying so: it is alone, the record   *)
(* it read is the file's unless the file is ahead of it, and the record it  *)
(* is about to announce is newer than every one announced.                  *)
USE KeysAssumption, PutsAssumption

Putting == {"check", "replace", "link"}
Puts    == [key : Keys, seen : Records \cup {NoRecord}]

\* A put has a number of its own, from its call to its end.
Counted ==
    \A a \in Agents : /\ putPc[a] = "read" => puts[a] < MaxPuts
                      /\ putPc[a] \in Putting => puts[a] \in 1..MaxPuts

\* Where puts take turns there is one at a time.
Turns ==
    \A a, b \in Agents :
        /\ putPc[a] \in Putting /\ putPc[b] \in Putting
        /\ put[a].key = put[b].key /\ put[a].key \in TurnTaking
        => a = b

\* What an agent has read of such a key is what the file holds, or has held.
SeenIsPast ==
    \A a \in Agents : putPc[a] # "idle" /\ put[a].key \in TurnTaking =>
        /\ put[a].seen.revision <= record[put[a].key].revision
        /\ put[a].seen.revision = record[put[a].key].revision => put[a].seen = record[put[a].key]

\* And what the file holds, between the check and the rename.
SeenIsCurrent ==
    \A a \in Agents : putPc[a] = "replace" /\ put[a].key \in TurnTaking => put[a].seen = record[put[a].key]

\* Until it is announced, the record in the file is newer than those that are.
NewIsUnannounced ==
    \A a \in Agents : putPc[a] = "link" /\ put[a].key \in TurnTaking =>
        /\ record[put[a].key] = NewRecord(a)
        /\ \A i \in DOMAIN ledger : ledger[i].key = put[a].key =>
               ledger[i].record.revision < record[put[a].key].revision

MemInv == /\ MemTypeOK /\ Counted /\ Turns /\ SeenIsPast /\ SeenIsCurrent /\ NewIsUnannounced
          /\ LedgerFollowsRecords

----------------------------------------------------------------------------
LEMMA NoRecordIsOld == NoRecord.revision = 0 /\ NoPut \in Puts
BY DEF NoRecord, NoPut, Puts

LEMMA RevisionsCount ==
    ASSUME MemTypeOK
    PROVE  /\ \A k \in Keys : record[k].revision \in Nat
           /\ \A a \in Agents : put[a].seen.revision \in Nat /\ put[a].key \in Keys
           /\ \A i \in DOMAIN ledger : ledger[i].key \in Keys /\ ledger[i].record.revision \in Nat
<1>1. \A r \in Records \cup {NoRecord} : r.revision \in Nat
  BY DEF Records, NoRecord
<1>2. \A i \in DOMAIN ledger : ledger[i] \in Written
  BY DEF MemTypeOK
<1>3. \A k \in Keys : record[k] \in Records \cup {NoRecord}
  BY DEF MemTypeOK
<1>4. \A a \in Agents : put[a].seen \in Records \cup {NoRecord} /\ put[a].key \in Keys
  BY DEF MemTypeOK
<1>5. QED
  BY <1>1, <1>2, <1>3, <1>4 DEF Written

LEMMA NewRecordType ==
    ASSUME MemTypeOK, Counted, NEW a \in Agents, putPc[a] \in Putting
    PROVE  NewRecord(a) \in Records /\ NewRecord(a).revision = put[a].seen.revision + 1
           /\ Update(a) \in Written
<1>1. put[a].seen.revision \in Nat /\ put[a].key \in Keys
  BY RevisionsCount
<1>2. <<a, puts[a]>> \in Authors
  BY DEF Counted, Authors
<1>3. NewRecord(a) \in Records /\ NewRecord(a).revision = put[a].seen.revision + 1
  BY <1>1, <1>2 DEF NewRecord, Records
<1>4. QED
  BY <1>1, <1>3 DEF Update, Written

\* What the last entry of a longer ledger is, and where the others are.
LEMMA LedgerGrows ==
    ASSUME MemTypeOK, NEW u \in Written
    PROVE  /\ Append(ledger, u) \in Seq(Written)
           /\ DOMAIN ledger = 1..Len(ledger) /\ Len(ledger) \in Nat
           /\ DOMAIN Append(ledger, u) = 1..(Len(ledger) + 1)
           /\ \A i \in DOMAIN ledger : i \in DOMAIN Append(ledger, u) /\ Append(ledger, u)[i] = ledger[i]
           /\ Append(ledger, u)[Len(ledger) + 1] = u
BY DEF MemTypeOK

LEMMA MemInitInv == MemInit => MemInv
<1> SUFFICES ASSUME MemInit PROVE MemInv
  OBVIOUS
<1>1. MemTypeOK
  BY NoRecordIsOld DEF MemInit, MemTypeOK, Puts
<1>2. Counted /\ Turns /\ SeenIsPast /\ SeenIsCurrent /\ NewIsUnannounced
  BY DEF MemInit, Counted, Turns, SeenIsPast, SeenIsCurrent, NewIsUnannounced, Putting
<1>3. LedgerFollowsRecords
  BY DEF MemInit, LedgerFollowsRecords
<1>4. QED
  BY <1>1, <1>2, <1>3 DEF MemInv

----------------------------------------------------------------------------
\* A put that ends leaves one agent fewer to say anything of.
LEMMA EndKeepsInv ==
    ASSUME MemInv, NEW a \in Agents, EndPut(a), UNCHANGED <<record, ledger, puts, acked>>
    PROVE  MemInv'
<1> USE DEF MemInv
<1>1. /\ putPc' = [putPc EXCEPT ![a] = "idle"] /\ put' = [put EXCEPT ![a] = NoPut]
      /\ record' = record /\ ledger' = ledger /\ puts' = puts /\ acked' = acked
  BY DEF EndPut
<1>2. MemTypeOK'
  BY <1>1, NoRecordIsOld DEF MemTypeOK, Puts
<1>3. \A b \in Agents : putPc'[b] # "idle" => b # a /\ putPc'[b] = putPc[b] /\ put'[b] = put[b]
  BY <1>1 DEF MemTypeOK
<1>4. Counted' /\ Turns' /\ SeenIsPast' /\ SeenIsCurrent'
  BY <1>1, <1>3 DEF Counted, Turns, SeenIsPast, SeenIsCurrent, Putting
<1>5. NewIsUnannounced'
  BY <1>1, <1>3 DEF NewIsUnannounced, NewRecord
<1>6. LedgerFollowsRecords'
  BY <1>1 DEF LedgerFollowsRecords
<1>7. QED
  BY <1>2, <1>4, <1>5, <1>6

LEMMA GetKeepsInv ==
    ASSUME MemInv, NEW a \in Agents, NEW k \in Keys, Get(a, k) PROVE MemInv'
<1> USE DEF MemInv
<1>1. /\ puts[a] < MaxPuts /\ put' = [put EXCEPT ![a] = [key |-> k, seen |-> record[k]]]
      /\ putPc' = [putPc EXCEPT ![a] = "read"]
      /\ record' = record /\ ledger' = ledger /\ puts' = puts /\ acked' = acked
  BY DEF Get, PutGoto
<1>2. [key |-> k, seen |-> record[k]] \in Puts
  BY DEF Puts, MemTypeOK
<1>3. MemTypeOK'
  BY <1>1, <1>2 DEF MemTypeOK, Puts
<1>4. /\ putPc'[a] = "read" /\ put'[a].key = k /\ put'[a].seen = record[k]
      /\ \A b \in Agents \ {a} : putPc'[b] = putPc[b] /\ put'[b] = put[b]
  BY <1>1 DEF MemTypeOK
<1>5. Counted' /\ Turns' /\ SeenIsCurrent'
  BY <1>1, <1>4 DEF Counted, Turns, SeenIsCurrent, Putting
<1>6. SeenIsPast'
  BY <1>1, <1>4, RevisionsCount DEF SeenIsPast
<1>7. NewIsUnannounced'
  BY <1>1, <1>4 DEF NewIsUnannounced, NewRecord
<1>8. LedgerFollowsRecords'
  BY <1>1 DEF LedgerFollowsRecords
<1>9. QED
  BY <1>3, <1>5, <1>6, <1>7, <1>8

LEMMA PutKeepsInv ==
    ASSUME MemInv, NEW a \in Agents, Put(a) PROVE MemInv'
<1> USE DEF MemInv
<1>1. /\ putPc[a] = "read" /\ puts' = [puts EXCEPT ![a] = puts[a] + 1]
      /\ putPc' = [putPc EXCEPT ![a] = "check"]
      /\ put[a].key \in TurnTaking =>
             \A b \in Agents : putPc[b] \in Putting => put[b].key # put[a].key
      /\ record' = record /\ ledger' = ledger /\ put' = put /\ acked' = acked
  BY DEF Put, PutGoto, Putting
<1>2. puts[a] \in 0..MaxPuts /\ puts[a] < MaxPuts
  BY <1>1 DEF MemTypeOK, Counted
<1>3. puts[a] + 1 \in 0..MaxPuts /\ puts[a] + 1 \in 1..MaxPuts
  BY <1>2
<1>4. MemTypeOK'
  BY <1>1, <1>3 DEF MemTypeOK
<1>5. /\ putPc'[a] = "check" /\ puts'[a] = puts[a] + 1
      /\ \A b \in Agents \ {a} : putPc'[b] = putPc[b] /\ puts'[b] = puts[b]
  BY <1>1 DEF MemTypeOK
<1>6. Counted'
  BY <1>3, <1>5 DEF Counted, Putting
<1>7. Turns' /\ SeenIsCurrent' /\ SeenIsPast'
  BY <1>1, <1>5 DEF Turns, SeenIsCurrent, SeenIsPast, Putting
<1>8. NewIsUnannounced'
  BY <1>1, <1>5 DEF NewIsUnannounced, NewRecord
<1>9. LedgerFollowsRecords'
  BY <1>1 DEF LedgerFollowsRecords
<1>10. QED
  BY <1>4, <1>6, <1>7, <1>8, <1>9

\* The file's revision is the one that was read: where puts take turns, so is
\* the record.
LEMMA CheckKeepsInv ==
    ASSUME MemInv, NEW a \in Agents, CheckRevision(a) PROVE MemInv'
<1> USE DEF MemInv
<1>1. CASE record[put[a].key].revision = put[a].seen.revision
  <2>1. /\ putPc[a] = "check" /\ putPc' = [putPc EXCEPT ![a] = "replace"]
        /\ put' = put /\ record' = record /\ ledger' = ledger /\ puts' = puts /\ acked' = acked
    BY <1>1 DEF CheckRevision, PutGoto
  <2>2. MemTypeOK'
    BY <2>1 DEF MemTypeOK
  <2>3. putPc'[a] = "replace" /\ \A b \in Agents \ {a} : putPc'[b] = putPc[b]
    BY <2>1 DEF MemTypeOK
  <2>4. Counted' /\ Turns' /\ SeenIsPast'
    BY <2>1, <2>3 DEF Counted, Turns, SeenIsPast, Putting
  <2>5. SeenIsCurrent'
    BY <1>1, <2>1, <2>3 DEF SeenIsCurrent, SeenIsPast
  <2>6. NewIsUnannounced'
    BY <2>1, <2>3 DEF NewIsUnannounced, NewRecord
  <2>7. LedgerFollowsRecords'
    BY <2>1 DEF LedgerFollowsRecords
  <2>8. QED
    BY <2>2, <2>4, <2>5, <2>6, <2>7
<1>2. CASE record[put[a].key].revision # put[a].seen.revision
  BY <1>2, EndKeepsInv DEF CheckRevision
<1>3. QED
  BY <1>1, <1>2

----------------------------------------------------------------------------
LEMMA ReplaceKeepsInv ==
    ASSUME MemInv, NEW a \in Agents, ReplaceRecord(a) PROVE MemInv'
<1> USE DEF MemInv
<1> DEFINE k == put[a].key
<1> DEFINE new == NewRecord(a)
<1>1. /\ putPc[a] = "replace" /\ record' = [record EXCEPT ![k] = new]
      /\ putPc' = [putPc EXCEPT ![a] = "link"]
      /\ ledger' = ledger /\ put' = put /\ puts' = puts /\ acked' = acked
  BY DEF ReplaceRecord, PutGoto
<1>2. new \in Records /\ new.revision = put[a].seen.revision + 1 /\ k \in Keys /\ put[a].seen.revision \in Nat
  BY <1>1, NewRecordType, RevisionsCount DEF Putting
<1>3. new' = new
  BY <1>1 DEF NewRecord
<1> HIDE DEF new
<1>4. MemTypeOK'
  BY <1>1, <1>2 DEF MemTypeOK
<1>5. putPc'[a] = "link" /\ \A b \in Agents \ {a} : putPc'[b] = putPc[b]
  BY <1>1 DEF MemTypeOK
<1>6. record'[k] = new /\ \A j \in Keys \ {k} : record'[j] = record[j]
  BY <1>1, <1>2 DEF MemTypeOK
<1>7. k \in TurnTaking => /\ new.revision = record[k].revision + 1
                          /\ \A b \in Agents \ {a} : put[b].key = k => putPc[b] \notin Putting
  BY <1>1, <1>2 DEF SeenIsCurrent, Turns, Putting
<1>8. Counted' /\ Turns'
  BY <1>1, <1>5 DEF Counted, Turns, Putting
<1>9. SeenIsPast'
  <2> SUFFICES ASSUME NEW b \in Agents, putPc'[b] # "idle", put[b].key \in TurnTaking
               PROVE  /\ put[b].seen.revision <= record'[put[b].key].revision
                      /\ put[b].seen.revision = record'[put[b].key].revision =>
                             put[b].seen = record'[put[b].key]
    BY <1>1 DEF SeenIsPast
  <2>1. put[b].seen.revision <= record[put[b].key].revision
        /\ (put[b].seen.revision = record[put[b].key].revision => put[b].seen = record[put[b].key])
    BY <1>1, <1>5 DEF SeenIsPast
  <2>2. CASE put[b].key = k
    <3>1. put[b].seen.revision < record'[k].revision
      BY <1>6, <1>7, <2>1, <2>2, RevisionsCount
    <3>2. put[b].seen.revision \in Nat /\ record'[k].revision \in Nat
      BY <1>2, <1>6, RevisionsCount
    <3>3. QED
      BY <2>2, <3>1, <3>2
  <2>3. CASE put[b].key # k
    BY <1>6, <2>1, <2>3, RevisionsCount
  <2>4. QED
    BY <2>2, <2>3
<1>10. SeenIsCurrent'
  <2> SUFFICES ASSUME NEW b \in Agents, putPc'[b] = "replace", put[b].key \in TurnTaking
               PROVE  put[b].seen = record'[put[b].key]
    BY <1>1 DEF SeenIsCurrent
  <2>1. b # a /\ putPc[b] = "replace"
    BY <1>5
  <2>2. put[b].key # k
    BY <1>7, <2>1 DEF Putting
  <2>3. QED
    BY <1>6, <2>1, <2>2, RevisionsCount DEF SeenIsCurrent
<1>11. NewIsUnannounced'
  <2> SUFFICES ASSUME NEW b \in Agents, putPc'[b] = "link", put[b].key \in TurnTaking
               PROVE  /\ record'[put[b].key] = NewRecord(b)'
                      /\ \A i \in DOMAIN ledger : ledger[i].key = put[b].key =>
                             ledger[i].record.revision < record'[put[b].key].revision
    BY <1>1 DEF NewIsUnannounced
  <2>1. CASE b = a
    <3>1. \A i \in DOMAIN ledger : ledger[i].key = k => ledger[i].record.revision <= record[k].revision
      BY <2>1 DEF LedgerFollowsRecords
    <3>2. \A i \in DOMAIN ledger : ledger[i].key = k => ledger[i].record.revision < record'[k].revision
      BY <1>2, <1>6, <1>7, <2>1, <3>1, RevisionsCount
    <3>3. record'[k] = NewRecord(a)'
      BY <1>3, <1>6 DEF new
    <3>4. QED
      BY <2>1, <3>2, <3>3
  <2>2. CASE b # a
    <3>1. putPc[b] = "link" /\ NewRecord(b)' = NewRecord(b)
      BY <1>1, <1>5, <2>2 DEF NewRecord
    <3>2. put[b].key # k
      BY <1>7, <2>2, <3>1 DEF Putting
    <3>3. QED
      BY <1>6, <3>1, <3>2, RevisionsCount DEF NewIsUnannounced
  <2>3. QED
    BY <2>1, <2>2
<1>12. LedgerFollowsRecords'
  <2>1. \A j \in TurnTaking : record[j].revision <= record'[j].revision /\ record'[j].revision \in Nat
    BY <1>2, <1>6, <1>7, RevisionsCount
  <2>2. ASSUME NEW i \in DOMAIN ledger, ledger[i].key \in TurnTaking
        PROVE  ledger[i].record.revision <= record'[ledger[i].key].revision
    BY <2>1, <2>2, RevisionsCount DEF LedgerFollowsRecords
  <2>3. QED
    BY <1>1, <2>2 DEF LedgerFollowsRecords
<1>13. QED
  BY <1>4, <1>8, <1>9, <1>10, <1>11, <1>12

\* The event lands at the end of the ledger, where it is the newest of its key.
LEMMA LandKeepsLedger ==
    ASSUME MemInv, NEW a \in Agents, putPc[a] = "link",
           ledger' = Append(ledger, Update(a)), record' = record, acked' \subseteq acked \cup {Update(a)}
    PROVE  LedgerFollowsRecords'
<1> USE DEF MemInv
<1> DEFINE u == Update(a)
<1> DEFINE n == Len(ledger) + 1
<1>1. u \in Written /\ u.key = put[a].key /\ u.record = NewRecord(a) /\ u.record.revision \in Nat
  BY NewRecordType DEF Update, Putting, Records
<1> HIDE DEF u
<1>2. /\ DOMAIN ledger = 1..Len(ledger) /\ Len(ledger) \in Nat /\ DOMAIN ledger' = 1..n
      /\ \A i \in DOMAIN ledger : ledger'[i] = ledger[i] /\ i \in DOMAIN ledger'
      /\ ledger'[n] = u
  BY <1>1, LedgerGrows DEF u
<1>3. \A i \in DOMAIN ledger' : i = n \/ (i \in DOMAIN ledger /\ i < n)
  BY <1>2
<1>4. acked' \subseteq {ledger'[i] : i \in DOMAIN ledger'}
  <2>1. n \in DOMAIN ledger'
    BY <1>2
  <2>2. acked \subseteq {ledger[i] : i \in DOMAIN ledger}
    BY DEF LedgerFollowsRecords
  <2>3. QED
    BY <1>2, <2>1, <2>2 DEF u
<1>5. ASSUME NEW i \in DOMAIN ledger', NEW j \in DOMAIN ledger',
             ledger'[i].key = ledger'[j].key, ledger'[i].key \in TurnTaking
      PROVE  /\ i < j => ledger'[i].record.revision < ledger'[j].record.revision
             /\ ledger'[i].record.revision <= record[ledger'[i].key].revision
  <2>1. ASSUME NEW x \in DOMAIN ledger, ledger[x].key = put[a].key, put[a].key \in TurnTaking
        PROVE  ledger[x].record.revision < u.record.revision
    BY <1>1, <2>1 DEF NewIsUnannounced
  <2>2. put[a].key \in TurnTaking => u.record.revision = record[put[a].key].revision
    BY <1>1 DEF NewIsUnannounced
  <2>3. ledger'[i].record.revision <= record[ledger'[i].key].revision
    <3>1. CASE i = n
      BY <1>1, <1>2, <1>5, <2>2, <3>1
    <3>2. CASE i \in DOMAIN ledger
      BY <1>2, <1>5, <3>2 DEF LedgerFollowsRecords
    <3>3. QED
      BY <1>3, <3>1, <3>2
  <2>4. ASSUME i < j PROVE ledger'[i].record.revision < ledger'[j].record.revision
    <3>1. i \in DOMAIN ledger
      BY <1>2, <1>3, <2>4
    <3>2. CASE j = n
      BY <1>1, <1>2, <1>5, <2>1, <3>1, <3>2
    <3>3. CASE j \in DOMAIN ledger
      BY <1>2, <1>5, <2>4, <3>1, <3>3 DEF LedgerFollowsRecords
    <3>4. QED
      BY <1>3, <3>2, <3>3
  <2>5. QED
    BY <2>3, <2>4
<1>6. QED
  BY <1>4, <1>5 DEF LedgerFollowsRecords

LEMMA LinkKeepsInv ==
    ASSUME MemInv, NEW a \in Agents, LinkRecord(a) PROVE MemInv'
<1> USE DEF MemInv
<1>1. /\ putPc[a] = "link" /\ putPc' = [putPc EXCEPT ![a] = "idle"] /\ put' = [put EXCEPT ![a] = NoPut]
      /\ record' = record /\ puts' = puts /\ EndPut(a)
  BY DEF LinkRecord, EndPut
<1>2. CASE ledger' = ledger /\ acked' = acked
  BY <1>1, <1>2, EndKeepsInv
<1>3. CASE ledger' = Append(ledger, Update(a)) /\ acked' \subseteq acked \cup {Update(a)}
  <2>1. Update(a) \in Written /\ Update(a).key = put[a].key
    BY <1>1, NewRecordType DEF Putting, Update
  <2>2. acked' \subseteq Written /\ ledger' \in Seq(Written)
    BY <1>3, <2>1, LedgerGrows DEF MemTypeOK
  <2>3. MemTypeOK'
    BY <1>1, <2>2, NoRecordIsOld DEF MemTypeOK, Puts
  <2>4. \A b \in Agents : putPc'[b] # "idle" => b # a /\ putPc'[b] = putPc[b] /\ put'[b] = put[b]
    BY <1>1 DEF MemTypeOK
  <2>5. Counted' /\ Turns' /\ SeenIsPast' /\ SeenIsCurrent'
    BY <1>1, <2>4 DEF Counted, Turns, SeenIsPast, SeenIsCurrent, Putting
  <2>6. NewIsUnannounced'
    <3> SUFFICES ASSUME NEW b \in Agents, putPc'[b] = "link", put'[b].key \in TurnTaking
                 PROVE  /\ record[put'[b].key] = NewRecord(b)'
                        /\ \A i \in DOMAIN ledger' : ledger'[i].key = put'[b].key =>
                               ledger'[i].record.revision < record[put'[b].key].revision
      BY <1>1 DEF NewIsUnannounced
    <3>1. b # a /\ putPc[b] = "link" /\ put'[b] = put[b]
      BY <2>4
    <3>2. NewRecord(b)' = NewRecord(b)
      BY <1>1, <3>1 DEF NewRecord
    <3>3. put[a].key # put[b].key
      BY <1>1, <3>1 DEF Turns, Putting
    <3>4. \A i \in DOMAIN ledger' : (i \in DOMAIN ledger /\ ledger'[i] = ledger[i]) \/ ledger'[i] = Update(a)
      BY <1>3, <2>1, LedgerGrows
    <3>5. QED
      BY <2>1, <3>1, <3>2, <3>3, <3>4 DEF NewIsUnannounced
  <2>7. LedgerFollowsRecords'
    BY <1>1, <1>3, LandKeepsLedger
  <2>8. QED
    BY <2>3, <2>5, <2>6, <2>7
<1>4. QED
  BY <1>2, <1>3 DEF LinkRecord

LEMMA MemNextInv == MemInv /\ [MemNext]_memVars => MemInv'
<1> SUFFICES ASSUME MemInv, [MemNext]_memVars PROVE MemInv'
  OBVIOUS
<1>1. ASSUME NEW a \in Agents, NEW k \in Keys, Get(a, k) PROVE MemInv'
  BY <1>1, GetKeepsInv
<1>2. ASSUME NEW a \in Agents, Put(a) PROVE MemInv'
  BY <1>2, PutKeepsInv
<1>3. ASSUME NEW a \in Agents, CheckRevision(a) PROVE MemInv'
  BY <1>3, CheckKeepsInv
<1>4. ASSUME NEW a \in Agents, ReplaceRecord(a) PROVE MemInv'
  BY <1>4, ReplaceKeepsInv
<1>5. ASSUME NEW a \in Agents, LinkRecord(a) PROVE MemInv'
  BY <1>5, LinkKeepsInv
<1>6. ASSUME NEW a \in Agents, AbandonPut(a) PROVE MemInv'
  BY <1>6, EndKeepsInv DEF AbandonPut
<1>7. CASE UNCHANGED memVars
  BY <1>7 DEF memVars, MemInv, MemTypeOK, Counted, Turns, SeenIsPast, SeenIsCurrent, NewIsUnannounced,
              LedgerFollowsRecords, NewRecord
<1>8. QED
  BY <1>1, <1>2, <1>3, <1>4, <1>5, <1>6, <1>7 DEF MemNext

LEMMA MemInvariant == MemSpec => []MemInv
BY MemInitInv, MemNextInv, PTL DEF MemSpec

----------------------------------------------------------------------------
\* The variables of the shared records keep their types: a record's revision
\* counts from one and its author made the put with that number.
THEOREM RecordTypes == MemSpec => []MemTypeOK
<1>1. MemInv => MemTypeOK
  BY DEF MemInv
<1>2. QED
  BY <1>1, MemInvariant, PTL

\* shared-memory.mjs appends memory.updated after the rename.  What a put has
\* been acknowledged for is in the ledger, and where the puts of a key take
\* turns the ledger tells its revisions in order, none ahead of the file,
\* whatever puts fail or die between the two.
THEOREM LedgerTellsRevisions == MemSpec => []LedgerFollowsRecords
<1>1. MemInv => LedgerFollowsRecords
  BY DEF MemInv
<1>2. QED
  BY <1>1, MemInvariant, PTL

\* Where the puts of a key take turns, expectedRevision keeps what it promises:
\* a record is only replaced by an agent that has read that very record.
THEOREM StaleAgentsDoNotOverwrite == MemSpec => NoStaleOverwrite
<1>1. ASSUME MemInv, [MemNext]_memVars, NEW k \in TurnTaking, record'[k] # record[k]
      PROVE  \E a \in Agents : putPc[a] = "replace" /\ put[a].key = k /\ put[a].seen = record[k]
  <2>1. PICK a \in Agents : ReplaceRecord(a)
    BY <1>1 DEF MemNext, memVars, Get, Put, CheckRevision, LinkRecord, AbandonPut
  <2>2. putPc[a] = "replace" /\ record' = [record EXCEPT ![put[a].key] = NewRecord(a)]
    BY <2>1 DEF ReplaceRecord
  <2>3. put[a].key = k
    BY <1>1, <2>2 DEF MemInv, MemTypeOK
  <2>4. put[a].seen = record[k]
    BY <1>1, <2>2, <2>3 DEF MemInv, SeenIsCurrent
  <2>5. QED
    BY <2>2, <2>3, <2>4
<1>2. MemInv /\ [MemNext]_memVars =>
          [\A k \in TurnTaking : record'[k] # record[k] =>
              \E a \in Agents : putPc[a] = "replace" /\ put[a].key = k /\ put[a].seen = record[k]]_record
  BY <1>1
<1>3. QED
  BY <1>2, MemInvariant, PTL DEF MemSpec, NoStaleOverwrite

----------------------------------------------------------------------------
(* Heartbeats.  Where a worker's receipts are recorded one at a time, the   *)
(* one about to be appended still follows the newest, and so the receipts   *)
(* in the log are in order.                                                 *)
OneAtATime ==
    \A g, h \in Senders :
        /\ sending[g] # NoReceipt /\ sending[h] # NoReceipt
        /\ sending[g].worker = sending[h].worker /\ sending[g].worker \in OneSender
        => g = h

SendingFollows ==
    \A h \in Senders : sending[h] # NoReceipt /\ sending[h].worker \in OneSender => Follows(sending[h])

ReceiptsOrdered ==
    \A w \in OneSender : \A i, j \in Of(w) : i <= j =>
        /\ receipts[i].at <= receipts[j].at /\ receipts[i].cost <= receipts[j].cost
        /\ receipts[i].workflow = receipts[j].workflow

\* A worker that has receipts has a last one.
NewestExists == \A w : Of(w) # {} => \E i \in Of(w) : \A j \in Of(w) : j <= i

BeatInv == BeatTypeOK /\ OneAtATime /\ SendingFollows /\ ReceiptsOrdered /\ NewestExists

LEMMA ReceiptFacts ==
    ASSUME BeatTypeOK
    PROVE  /\ Len(receipts) \in Nat /\ DOMAIN receipts = 1..Len(receipts)
           /\ \A i \in DOMAIN receipts : /\ receipts[i] \in Receipts
                                         /\ receipts[i].at \in Nat /\ receipts[i].cost \in Nat
           /\ \A w : Of(w) \subseteq DOMAIN receipts
<1>1. Len(receipts) \in Nat /\ DOMAIN receipts = 1..Len(receipts)
  BY DEF BeatTypeOK
<1>2. \A i \in DOMAIN receipts : receipts[i] \in Receipts
  BY DEF BeatTypeOK
<1>3. \A r \in Receipts : r.at \in Nat /\ r.cost \in Nat
  BY LeaseAssumption DEF Receipts
<1>4. QED
  BY <1>1, <1>2, <1>3 DEF Of

\* The newest receipt is a receipt of the worker, and none is at a later place.
LEMMA NewestFacts ==
    ASSUME BeatTypeOK, NewestExists, NEW w, Of(w) # {}
    PROVE  \E i \in Of(w) : Newest(w) = receipts[i] /\ \A j \in Of(w) : j <= i
<1>1. \E i \in Of(w) : \A j \in Of(w) : j <= i
  BY DEF NewestExists
<1> DEFINE last == CHOOSE i \in Of(w) : \A j \in Of(w) : j <= i
<1>2. last \in Of(w) /\ \A j \in Of(w) : j <= last
  BY <1>1
<1>3. Newest(w) = receipts[last]
  BY DEF Newest
<1> HIDE DEF last
<1>4. QED
  BY <1>2, <1>3

LEMMA BeatInitInv == BeatInit => BeatInv
<1> SUFFICES ASSUME BeatInit PROVE BeatInv
  OBVIOUS
<1>1. receipts = <<>> /\ \A h \in Senders : sending[h] = NoReceipt
  BY DEF BeatInit
<1>2. \A w : Of(w) = {}
  BY <1>1 DEF Of
<1>3. BeatTypeOK
  BY DEF BeatInit, BeatTypeOK
<1>4. QED
  BY <1>1, <1>2, <1>3 DEF BeatInv, OneAtATime, SendingFollows, ReceiptsOrdered, NewestExists

LEMMA SameReceipts ==
    ASSUME UNCHANGED receipts
    PROVE  /\ \A w : Of(w)' = Of(w) /\ Newest(w)' = Newest(w)
           /\ \A r : Follows(r)' <=> Follows(r)
<1>1. \A w : Of(w)' = Of(w)
  BY DEF Of
<1>2. \A w : Newest(w)' = Newest(w)
  BY <1>1 DEF Newest
<1>3. QED
  BY <1>1, <1>2 DEF Follows

LEMMA CheckKeepsReceipts ==
    ASSUME BeatInv, NEW h \in Senders, NEW r \in Receipts, CheckReceipt(h, r)
    PROVE  BeatInv'
<1>1. /\ UNCHANGED receipts /\ sending' = [sending EXCEPT ![h] = r] /\ Follows(r)
      /\ r.worker \in OneSender => \A g \in Senders : sending[g] # NoReceipt => sending[g].worker # r.worker
      /\ sending \in [Senders -> Receipts \cup {NoReceipt}]
  BY DEF CheckReceipt, BeatInv, BeatTypeOK
<1>2. \A g \in Senders : sending'[g] = IF g = h THEN r ELSE sending[g]
  BY <1>1
<1>3. BeatTypeOK'
  BY <1>1 DEF BeatInv, BeatTypeOK
<1>4. OneAtATime'
  BY <1>1, <1>2 DEF BeatInv, OneAtATime
<1>5. SendingFollows'
  BY <1>1, <1>2, SameReceipts DEF BeatInv, SendingFollows
<1>6. ReceiptsOrdered' /\ NewestExists'
  BY <1>1, SameReceipts DEF BeatInv, ReceiptsOrdered, NewestExists
<1>7. QED
  BY <1>3, <1>4, <1>5, <1>6 DEF BeatInv

LEMMA AppendKeepsReceipts ==
    ASSUME BeatInv, NEW h \in Senders, AppendReceipt(h)
    PROVE  BeatInv'
<1> DEFINE r == sending[h]
           n == Len(receipts)
<1>1. /\ r # NoReceipt /\ r \in Receipts
      /\ sending' = [sending EXCEPT ![h] = NoReceipt]
      /\ sending \in [Senders -> Receipts \cup {NoReceipt}]
      /\ receipts' = receipts \/ receipts' = Append(receipts, r)
      /\ receipts \in Seq(Receipts)
  BY DEF AppendReceipt, BeatInv, BeatTypeOK
<1>2. \A g \in Senders : sending'[g] = IF g = h THEN NoReceipt ELSE sending[g]
  BY <1>1
<1>3. BeatTypeOK'
  <2>1. receipts' \in Seq(Receipts)
    BY <1>1
  <2>2. QED
    BY <1>1, <2>1 DEF BeatTypeOK
<1>4. OneAtATime'
  BY <1>2 DEF BeatInv, OneAtATime
<1>5. CASE receipts' = receipts
  <2>1. SendingFollows'
    BY <1>2, <1>5, SameReceipts DEF BeatInv, SendingFollows
  <2>2. ReceiptsOrdered' /\ NewestExists'
    BY <1>5, SameReceipts DEF BeatInv, ReceiptsOrdered, NewestExists
  <2>3. QED
    BY <1>3, <1>4, <2>1, <2>2 DEF BeatInv
<1>6. CASE receipts' = Append(receipts, r)
  <2>1. /\ n \in Nat /\ DOMAIN receipts = 1..n /\ DOMAIN receipts' = 1..(n + 1)
        /\ \A i \in 1..n : receipts'[i] = receipts[i]
        /\ receipts'[n + 1] = r
    BY <1>1, <1>6
  <2> HIDE DEF r, n
  <2>2. \A w : Of(w) \subseteq 1..n
    BY <2>1 DEF Of
  <2>3. \A w : Of(w)' = IF w = r.worker THEN Of(w) \cup {n + 1} ELSE Of(w)
    <3>1. ASSUME NEW w PROVE Of(w)' = {i \in 1..(n + 1) : receipts'[i].worker = w}
      BY <2>1 DEF Of
    <3>2. ASSUME NEW w PROVE Of(w) = {i \in 1..n : receipts[i].worker = w}
      BY <2>1 DEF Of
    <3>3. SUFFICES ASSUME NEW w
                   PROVE Of(w)' = IF w = r.worker THEN Of(w) \cup {n + 1} ELSE Of(w)
      OBVIOUS
    <3>4. \A i : i \in 1..(n + 1) <=> i \in 1..n \/ i = n + 1
      BY <2>1
    <3>5. \A i : i \in Of(w)' <=> i \in Of(w) \/ (i = n + 1 /\ w = r.worker)
      <4>1. n + 1 \notin 1..n
        BY <2>1
      <4>2. QED
        BY <2>1, <3>1, <3>2, <3>4, <4>1
    <3>6. QED
      BY <3>5
  <2>4. ASSUME NEW w, w # r.worker PROVE Of(w)' = Of(w) /\ (Of(w) # {} => Newest(w)' = Newest(w))
    <3>1. Of(w)' = Of(w)
      BY <2>3, <2>4
    <3>2. ASSUME Of(w) # {} PROVE Newest(w)' = Newest(w)
      <4> DEFINE last == CHOOSE i \in Of(w) : \A j \in Of(w) : j <= i
      <4>1. last \in Of(w)
        BY <3>2 DEF BeatInv, NewestExists
      <4>2. Newest(w) = receipts[last] /\ Newest(w)' = receipts'[last]
        BY <3>1 DEF Newest
      <4> HIDE DEF last
      <4>3. QED
        BY <2>1, <2>2, <4>1, <4>2
    <3>3. QED
      BY <3>1, <3>2
  <2>5. SendingFollows'
    <3>1. SUFFICES ASSUME NEW g \in Senders, NEW r2, r2 = sending'[g], r2 # NoReceipt, r2.worker \in OneSender
                   PROVE  Follows(r2)'
      BY DEF SendingFollows
    <3>2. g # h /\ r2 = sending[g]
      BY <1>2, <3>1
    <3>3. r2.worker # r.worker
      BY <1>1, <3>1, <3>2 DEF BeatInv, OneAtATime, r
    <3>4. Follows(r2)
      BY <3>1, <3>2 DEF BeatInv, SendingFollows
    <3>5. QED
      BY <2>4, <3>3, <3>4 DEF Follows
  <2>6. ReceiptsOrdered'
    <3>1. SUFFICES ASSUME NEW w \in OneSender, NEW i \in Of(w)', NEW j \in Of(w)', i <= j
                   PROVE  /\ receipts'[i].at <= receipts'[j].at /\ receipts'[i].cost <= receipts'[j].cost
                          /\ receipts'[i].workflow = receipts'[j].workflow
      BY DEF ReceiptsOrdered
    <3>2. CASE i \in Of(w) /\ j \in Of(w)
      BY <2>1, <2>2, <3>1, <3>2 DEF BeatInv, ReceiptsOrdered
    <3>3. CASE i \in Of(w) /\ j = n + 1 /\ w = r.worker
      <4>1. Follows(r) /\ Of(w) # {}
        BY <1>1, <3>3 DEF BeatInv, SendingFollows, r
      <4>2. PICK k \in Of(w) : Newest(w) = receipts[k] /\ \A l \in Of(w) : l <= k
        BY <4>1, NewestFacts DEF BeatInv
      <4>3. /\ receipts[i].at <= receipts[k].at /\ receipts[i].cost <= receipts[k].cost
            /\ receipts[i].workflow = receipts[k].workflow
        BY <3>3, <4>2 DEF BeatInv, ReceiptsOrdered
      <4>4. /\ receipts[k].at <= r.at /\ receipts[k].cost <= r.cost
            /\ receipts[k].workflow = r.workflow
        BY <3>3, <4>1, <4>2 DEF Follows
      <4>5. /\ receipts[i].at \in Nat /\ receipts[i].cost \in Nat
            /\ receipts[k].at \in Nat /\ receipts[k].cost \in Nat
            /\ r.at \in Nat /\ r.cost \in Nat
        <5>1. i \in DOMAIN receipts /\ k \in DOMAIN receipts
          BY <2>1, <2>2, <3>3, <4>2
        <5>2. r.at \in Nat /\ r.cost \in Nat
          BY <1>1, LeaseAssumption DEF Receipts
        <5>3. QED
          BY <5>1, <5>2, ReceiptFacts DEF BeatInv
      <4>6. receipts'[i] = receipts[i] /\ receipts'[j] = r
        BY <2>1, <2>2, <3>3
      <4>7. QED
        BY <4>3, <4>4, <4>5, <4>6
    <3>4. CASE i = n + 1 /\ j = n + 1
      <4>1. r.at \in Nat /\ r.cost \in Nat
        BY <1>1, LeaseAssumption DEF Receipts
      <4>2. QED
        BY <2>1, <3>4, <4>1
    <3>5. i = n + 1 => j = n + 1
      BY <2>1, <2>2, <2>3, <3>1
    <3>6. QED
      BY <2>3, <3>1, <3>2, <3>3, <3>4, <3>5
  <2>7. NewestExists'
    <3>1. SUFFICES ASSUME NEW w, Of(w)' # {} PROVE \E i \in Of(w)' : \A j \in Of(w)' : j <= i
      BY DEF NewestExists
    <3>2. CASE w = r.worker
      <4>1. Of(w)' = Of(w) \cup {n + 1}
        BY <2>3, <3>2
      <4>2. \A j \in Of(w) \cup {n + 1} : j <= n + 1
        BY <2>1, <2>2
      <4>3. QED
        BY <4>1, <4>2
    <3>3. CASE w # r.worker
      BY <2>3, <3>1, <3>3 DEF BeatInv, NewestExists
    <3>4. QED
      BY <3>2, <3>3
  <2>8. QED
    BY <1>3, <1>4, <2>5, <2>6, <2>7 DEF BeatInv
<1>7. QED
  BY <1>1, <1>5, <1>6

LEMMA BeatNextInv == BeatInv /\ [BeatNext]_beatVars => BeatInv'
<1> SUFFICES ASSUME BeatInv, [BeatNext]_beatVars PROVE BeatInv'
  OBVIOUS
<1>1. CASE UNCHANGED beatVars
  <2>1. UNCHANGED <<receipts, sending>>
    BY <1>1 DEF beatVars
  <2>2. QED
    BY <2>1, SameReceipts
       DEF BeatInv, BeatTypeOK, OneAtATime, SendingFollows, ReceiptsOrdered, NewestExists
<1>2. QED
  BY <1>1, CheckKeepsReceipts, AppendKeepsReceipts DEF BeatNext

LEMMA OrderedIsNewest == BeatInv => SummaryIsNewest
<1> SUFFICES ASSUME BeatInv, NEW w \in Reported \cap OneSender
             PROVE  /\ \A now \in 0..(MaxInstant + Lease + 1) :
                          w \in AliveAt(now) <=> \E i \in Of(w) : now <= receipts[i].at + Lease
                    /\ \A i \in Of(w) : /\ receipts[i].cost <= Newest(w).cost
                                        /\ receipts[i].workflow = Newest(w).workflow
  BY DEF SummaryIsNewest
<1>1. PICK k \in Of(w) : Newest(w) = receipts[k] /\ \A j \in Of(w) : j <= k
  BY NewestFacts DEF BeatInv, Reported
<1>2. \A i \in Of(w) : /\ receipts[i].at <= receipts[k].at /\ receipts[i].cost <= receipts[k].cost
                       /\ receipts[i].workflow = receipts[k].workflow
                       /\ receipts[i].at \in Nat /\ receipts[i].cost \in Nat
  BY <1>1, ReceiptFacts DEF BeatInv, ReceiptsOrdered
<1>3. Lease \in Nat /\ MaxInstant \in Nat
  BY LeaseAssumption
<1>4. ASSUME NEW now \in 0..(MaxInstant + Lease + 1)
      PROVE  w \in AliveAt(now) <=> \E i \in Of(w) : now <= receipts[i].at + Lease
  <2>1. w \in AliveAt(now) <=> now <= receipts[k].at + Lease
    BY <1>1 DEF AliveAt, Alive, Reported
  <2>2. now \in Nat
    BY <1>3
  <2>3. ASSUME NEW i \in Of(w), now <= receipts[i].at + Lease PROVE now <= receipts[k].at + Lease
    BY <1>2, <1>3, <2>2, <2>3, <1>1
  <2>4. QED
    BY <1>1, <2>1, <2>3
<1>5. QED
  BY <1>1, <1>2, <1>4

LEMMA BeatInvariant == BeatSpec => []BeatInv
BY BeatInitInv, BeatNextInv, PTL DEF BeatSpec

(* Receipts and what the senders are about to append keep their types.      *)
THEOREM ReceiptTypes == BeatSpec => []BeatTypeOK
<1>1. BeatInv => BeatTypeOK
  BY DEF BeatInv
<1>2. QED
  BY <1>1, BeatInvariant, PTL

(* recordHeartbeat reads, compares and appends with nothing held between;   *)
(* where a worker's receipts are recorded one at a time, summarizeHeartbeats *)
(* still shows it by its best receipt, whatever other workers append.       *)
THEOREM SummaryTellsTheNewest == BeatSpec => []SummaryIsNewest
BY OrderedIsNewest, BeatInvariant, PTL


----------------------------------------------------------------------------
(* Takeover checkpoints.  What a checkpoint says is what the repository was *)
(* when it was written, in terms of the commit it names, which the history *)
(* keeps, and of the work tree kept; a validation is of what there is now. *)

\* The status entry of a file in a work tree over a commit.
EntryOf(commit, tree, f) ==
    [code |-> IF commit[f] = 0 THEN "??" ELSE IF tree[f] = 0 THEN "D" ELSE "M", path |-> f]

Recorded == history[card.head].files

CardTells ==
    card # NoCard =>
        /\ card.head \in 1..Len(history)
        /\ \A e \in card.expected : \E f \in Files :
              kept[f] # Recorded[f] /\ e.entry = EntryOf(Recorded, kept, f)
        /\ \A f \in Files : kept[f] # Recorded[f] =>
              \E e \in card.expected : e.entry = EntryOf(Recorded, kept, f)
        /\ \A r \in card.register :
              r.path \in Files /\ kept[r.path] # 0 /\ r.digest \in {0, kept[r.path]}

HistoryTells ==
    /\ Len(history) >= 1
    /\ \A i \in 2..Len(history) : \A f \in Files :
          f \notin history[i].changed => history[i].files[f] = history[i - 1].files[f]

VerdictTells ==
    verdict.asked =>
        /\ card # NoCard
        /\ verdict.valid <=>
              IdentityFindings(verdict.project) \cup GitFindings(verdict.path) \cup FileFindings = {}
        /\ verdict.warnings = Warnings

HandoffInv == HandoffTypeOK /\ CardTells /\ HistoryTells /\ VerdictTells

LEMMA StatusEntries == Status = {EntryOf(Committed, work, f) : f \in {g \in Files : work[g] # Committed[g]}}
BY DEF Status, EntryOf, Code

LEMMA HistoryFacts ==
    ASSUME HandoffTypeOK, HistoryTells
    PROVE  /\ Len(history) \in Nat /\ Len(history) >= 1 /\ DOMAIN history = 1..Len(history)
           /\ \A i \in 1..Len(history) : history[i].files \in Trees
           /\ Last(history) = history[Len(history)] /\ Committed \in Trees
<1>1. Len(history) \in Nat /\ Len(history) >= 1 /\ DOMAIN history = 1..Len(history)
  BY DEF HandoffTypeOK, HistoryTells
<1>2. \A i \in 1..Len(history) : history[i] \in [changed : SUBSET (Files \cup {Card}), files : Trees]
  BY ElementOfSeq DEF HandoffTypeOK
<1>3. \A i \in 1..Len(history) : history[i].files \in Trees
  BY <1>2
<1>4. Last(history) = history[Len(history)]
  BY DEF Last
<1>5. QED
  BY <1>1, <1>3, <1>4 DEF Committed

\* A commit of the checkpoint alone leaves every other file as it was.
LEMMA CommittedIsRecorded ==
    ASSUME HandoffInv, card # NoCard,
           \/ Len(history) = card.head
           \/ Len(history) = card.head + 1 /\ Last(history).changed = {Card}
    PROVE  Committed = Recorded
<1>1. card.head \in 1..Len(history)
  BY DEF HandoffInv, CardTells
<1>2. CASE Len(history) = card.head
  BY <1>2, HistoryFacts DEF HandoffInv, Committed, Recorded
<1>3. CASE Len(history) = card.head + 1 /\ Last(history).changed = {Card}
  <2> DEFINE n == Len(history)
  <2>1. n \in 2..Len(history) /\ card.head = n - 1
    BY <1>1, <1>3, HistoryFacts DEF HandoffInv
  <2>2. \A f \in Files : f \notin history[n].changed
    BY <1>3, HistoryFacts, TrackedAssumption DEF HandoffInv
  <2>3. \A f \in Files : history[n].files[f] = history[n - 1].files[f]
    BY <2>1, <2>2 DEF HandoffInv, HistoryTells
  <2>4. history[n].files \in Trees /\ history[n - 1].files \in Trees
    <3>1. n \in 1..Len(history) /\ n - 1 \in 1..Len(history)
      BY <1>1, <2>1
    <3>2. \A i \in 1..Len(history) : history[i].files \in Trees
      BY HistoryFacts DEF HandoffInv
    <3> HIDE DEF n
    <3>3. QED
      BY <3>1, <3>2
  <2>5. history[n].files = history[n - 1].files
    <3> HIDE DEF n
    <3>1. QED
      BY <2>3, <2>4 DEF Trees
  <2>6. QED
    BY <2>1, <2>5, HistoryFacts DEF HandoffInv, Committed, Recorded
<1>4. QED
  BY <1>2, <1>3

LEMMA HandoffInitInv == HandoffInit => HandoffInv
<1> SUFFICES ASSUME HandoffInit PROVE HandoffInv
  OBVIOUS
<1>1. (CHOOSE b \in Branches : TRUE) \in Branches /\ (CHOOSE v \in Versions : TRUE) \in Versions
  BY NamesAssumption
<1>2. /\ branch \in Branches /\ work \in Trees /\ kept = work
      /\ history = <<[changed |-> Tracked, files |-> work]>>
      /\ card = NoCard /\ verdict = NoVerdict /\ moves = 0
  BY <1>1 DEF HandoffInit, Trees
<1>3. [changed |-> Tracked, files |-> work] \in [changed : SUBSET (Files \cup {Card}), files : Trees]
  BY <1>2, TrackedAssumption
<1>4. history \in Seq([changed : SUBSET (Files \cup {Card}), files : Trees]) /\ Len(history) = 1
  BY <1>2, <1>3
<1>5. card.head = 0 /\ verdict.valid = FALSE /\ verdict.asked = FALSE
  BY <1>2 DEF NoCard, NoVerdict
<1>6. HandoffTypeOK
  <2>1. card.head \in 0..Len(history)
    BY <1>4, <1>5
  <2>2. moves \in 0..MaxMoves
    BY <1>2, MovesAssumption
  <2>3. verdict.valid \in BOOLEAN
    BY <1>5, Zenon
  <2>4. QED
    BY <1>2, <1>4, <2>1, <2>2, <2>3, Zenon DEF HandoffTypeOK
<1>7. HistoryTells
  BY <1>4 DEF HistoryTells
<1>8. CardTells /\ VerdictTells
  BY <1>2, <1>5 DEF CardTells, VerdictTells
<1>9. QED
  BY <1>6, <1>7, <1>8 DEF HandoffInv

LEMMA WriteCardKeeps ==
    ASSUME HandoffInv, NEW p, NEW s, NEW l, NEW d \in SUBSET Files, NEW g \in SUBSET Files, WriteCard(p, s, l, g, d)
    PROVE  HandoffInv'
<1> DEFINE availability(f) == IF f \in l THEN "LOCAL_ONLY" ELSE "REPOSITORY"
           c == [project |-> p, schema |-> s, branch |-> branch, head |-> Len(history),
                 expected |-> {[entry |-> e, availability |-> availability(e.path)] : e \in Status},
                 register |-> {[path |-> f, availability |-> availability(f),
                                digest |-> IF f \in d THEN work[f] ELSE 0] : f \in g}]
<1>1. /\ card = NoCard /\ card' = c /\ kept' = work
      /\ UNCHANGED <<branch, history, work, verdict, moves>>
      /\ \A f \in g : work[f] # 0
  BY DEF WriteCard
<1>2. /\ c.head = Len(history)
      /\ c.expected = {[entry |-> e, availability |-> availability(e.path)] : e \in Status}
      /\ c.register = {[path |-> f, availability |-> availability(f),
                        digest |-> IF f \in d THEN work[f] ELSE 0] : f \in g}
  OBVIOUS
<1> HIDE DEF c
<1>3. Len(history) \in Nat /\ Len(history) >= 1
  BY HistoryFacts DEF HandoffInv
<1>4. HandoffTypeOK'
  <2>1. card'.head \in 0..Len(history)
    BY <1>1, <1>2, <1>3
  <2>2. QED
    BY <1>1, <2>1 DEF HandoffInv, HandoffTypeOK
<1>5. HistoryTells'
  BY <1>1 DEF HandoffInv, HistoryTells
<1>6. ~verdict.asked /\ VerdictTells'
  BY <1>1 DEF HandoffInv, VerdictTells
<1>7. CardTells'
  <2>1. Recorded' = Committed
    BY <1>1, <1>2, HistoryFacts DEF HandoffInv, Recorded, Committed
  <2>2. card'.head \in 1..Len(history)'
    BY <1>1, <1>2, <1>3
  <2>3. ASSUME NEW e \in card'.expected
        PROVE  \E f \in Files : kept'[f] # Recorded'[f] /\ e.entry = EntryOf(Recorded', kept', f)
    <3>1. PICK x \in Status : e = [entry |-> x, availability |-> availability(x.path)]
      BY <1>1, <1>2, <2>3
    <3>2. QED
      BY <1>1, <2>1, <3>1, StatusEntries
  <2>4. ASSUME NEW f \in Files, kept'[f] # Recorded'[f]
        PROVE  \E e \in card'.expected : e.entry = EntryOf(Recorded', kept', f)
    <3>1. EntryOf(Committed, work, f) \in Status
      BY <1>1, <2>1, <2>4, StatusEntries
    <3>2. PICK x \in Status : x = EntryOf(Committed, work, f)
      BY <3>1
    <3>3. [entry |-> x, availability |-> availability(x.path)] \in card'.expected
      BY <1>1, <1>2
    <3>4. [entry |-> x, availability |-> availability(x.path)].entry = EntryOf(Recorded', kept', f)
      BY <1>1, <2>1, <3>2
    <3>5. QED
      BY <3>3, <3>4
  <2>5. ASSUME NEW r \in card'.register
        PROVE  r.path \in Files /\ kept'[r.path] # 0 /\ r.digest \in {0, kept'[r.path]}
    <3>1. PICK f \in g : r = [path |-> f, availability |-> availability(f), digest |-> IF f \in d THEN work[f] ELSE 0]
      BY <1>1, <1>2, <2>5
    <3>2. QED
      BY <1>1, <3>1
  <2>6. QED
    BY <2>2, <2>3, <2>4, <2>5 DEF CardTells, EntryOf
<1>8. QED
  BY <1>4, <1>5, <1>6, <1>7 DEF HandoffInv

LEMMA ValidateKeeps ==
    ASSUME HandoffInv, NEW p, NEW path, Validate(p, path)
    PROVE  HandoffInv'
<1>1. /\ card # NoCard
      /\ verdict' = [valid    |-> IdentityFindings(p) \cup GitFindings(path) \cup FileFindings = {},
                     asked    |-> TRUE, project |-> p, path |-> path, warnings |-> Warnings]
      /\ UNCHANGED <<branch, history, work, card, kept, moves>>
  BY DEF Validate
<1>2. HandoffTypeOK' /\ HistoryTells'
  BY <1>1 DEF HandoffInv, HandoffTypeOK, HistoryTells
<1>3. CardTells'
  BY <1>1 DEF HandoffInv, CardTells, Recorded
<1>4. VerdictTells'
  <2>1. /\ Status' = Status /\ Committed' = Committed
    BY <1>1 DEF Status, Code, Committed
  <2>2. verdict'.project = p /\ verdict'.path = path /\ verdict'.warnings = Warnings
    BY <1>1
  <2>3. verdict'.valid <=> IdentityFindings(p) \cup GitFindings(path) \cup FileFindings = {}
    BY <1>1
  <2>4. IdentityFindings(verdict.project)' = IdentityFindings(p)
    BY <1>1, <2>2 DEF IdentityFindings
  <2>5. GitFindings(verdict.path)' = GitFindings(path)
    BY <1>1, <2>1, <2>2 DEF GitFindings, StatusFindings, CardCommitOnly
  <2>6. FileFindings' = FileFindings /\ Warnings' = Warnings
    BY <1>1, <2>1 DEF FileFindings, Warnings
  <2>7. QED
    BY <1>1, <2>2, <2>3, <2>4, <2>5, <2>6 DEF VerdictTells
<1>5. QED
  BY <1>2, <1>3, <1>4 DEF HandoffInv

\* What a change of the repository leaves: the checkpoint and what it says,
\* as long as the commits there were stay.
LEMMA MoveKeeps ==
    ASSUME HandoffInv, Move, HistoryTells',
           branch' \in Branches, work' \in Trees,
           history' \in Seq([changed : SUBSET (Files \cup {Card}), files : Trees]),
           Len(history') >= Len(history),
           \A i \in 1..Len(history) : history'[i] = history[i]
    PROVE  HandoffInv'
<1>1. UNCHANGED <<card, kept>> /\ verdict' = NoVerdict /\ moves' \in 0..MaxMoves
  BY MovesAssumption DEF Move, HandoffInv, HandoffTypeOK
<1>2. Len(history) \in Nat /\ Len(history') \in Nat
  BY HistoryFacts DEF HandoffInv
<1>3. HandoffTypeOK'
  <2>1. card.head \in 0..Len(history')
    BY <1>2 DEF HandoffInv, HandoffTypeOK
  <2>2. kept \in Trees /\ verdict'.valid \in BOOLEAN
    BY <1>1 DEF HandoffInv, HandoffTypeOK, NoVerdict
  <2>3. QED
    BY <1>1, <2>1, <2>2 DEF HandoffTypeOK
<1>4. VerdictTells'
  BY <1>1 DEF VerdictTells, NoVerdict
<1>5. CardTells'
  <2>1. card # NoCard => card.head \in 1..Len(history') /\ Recorded' = Recorded
    BY <1>1, <1>2 DEF HandoffInv, CardTells, Recorded
  <2>2. QED
    BY <1>1, <2>1 DEF HandoffInv, CardTells, EntryOf
<1>6. QED
  BY <1>3, <1>4, <1>5 DEF HandoffInv

LEMMA CommitKeeps ==
    ASSUME HandoffInv, NEW set \in SUBSET (Files \cup {Card}), CommitOf(set)
    PROVE  HandoffInv'
<1> DEFINE files == [f \in Files |-> IF f \in set THEN work[f] ELSE Committed[f]]
           n == Len(history)
<1>1. Move /\ history' = Append(history, [changed |-> set, files |-> files]) /\ UNCHANGED <<branch, work>>
  BY DEF CommitOf
<1>2. files \in Trees
  BY HistoryFacts DEF HandoffInv, HandoffTypeOK, Trees
<1>3. /\ n \in Nat /\ n >= 1 /\ Len(history') = n + 1
      /\ history' \in Seq([changed : SUBSET (Files \cup {Card}), files : Trees])
      /\ \A i \in 1..n : history'[i] = history[i]
      /\ history'[n + 1] = [changed |-> set, files |-> files]
  BY <1>1, <1>2, HistoryFacts DEF HandoffInv, HandoffTypeOK
<1>4. \A f \in Files : f \notin set => files[f] = history[n].files[f]
  BY HistoryFacts DEF HandoffInv, Committed
<1> HIDE DEF n, files
<1>5. HistoryTells'
  <2>1. SUFFICES ASSUME NEW i \in 2..(n + 1), NEW f \in Files, f \notin history'[i].changed
                 PROVE  history'[i].files[f] = history'[i - 1].files[f]
    BY <1>3 DEF HistoryTells
  <2>2. CASE i = n + 1
    BY <1>3, <1>4, <2>1, <2>2
  <2>3. CASE i \in 2..n
    <3>1. history'[i] = history[i] /\ history'[i - 1] = history[i - 1]
      BY <1>3, <2>3
    <3>2. QED
      BY <2>1, <2>3, <3>1 DEF HandoffInv, HistoryTells, n
  <2>4. QED
    BY <1>3, <2>2, <2>3
<1>6. n = Len(history) /\ Len(history') >= Len(history)
  BY <1>3 DEF n
<1>7. QED
  BY <1>1, <1>3, <1>5, <1>6, MoveKeeps DEF HandoffInv, HandoffTypeOK

LEMMA HandoffNextInv == HandoffInv /\ [HandoffNext]_handoffVars => HandoffInv'
<1> SUFFICES ASSUME HandoffInv, [HandoffNext]_handoffVars PROVE HandoffInv'
  OBVIOUS
<1>1. CASE UNCHANGED handoffVars
  <2>1. UNCHANGED <<branch, history, work, card, kept, verdict, moves>>
    BY <1>1 DEF handoffVars
  <2>2. Status' = Status /\ Committed' = Committed
    BY <2>1 DEF Status, Code, Committed
  <2>3. VerdictTells'
    <3>1. IdentityFindings(verdict.project)' = IdentityFindings(verdict.project)
      BY <2>1 DEF IdentityFindings
    <3>2. GitFindings(verdict.path)' = GitFindings(verdict.path)
      BY <2>1, <2>2 DEF GitFindings, StatusFindings, CardCommitOnly
    <3>3. FileFindings' = FileFindings /\ Warnings' = Warnings
      BY <2>1, <2>2 DEF FileFindings, Warnings
    <3>4. QED
      BY <2>1, <3>1, <3>2, <3>3 DEF HandoffInv, VerdictTells
  <2>4. QED
    BY <2>1, <2>3 DEF HandoffInv, HandoffTypeOK, CardTells, HistoryTells, Recorded
<1>2. ASSUME NEW p \in Projects \cup {NoProject}, NEW s \in Schemas,
             NEW l \in SUBSET Files, NEW r \in SUBSET Files, NEW d \in SUBSET Files, WriteCard(p, s, l, r, d)
      PROVE  HandoffInv'
  BY <1>2, WriteCardKeeps
<1>3. ASSUME NEW p \in Projects \cup {NoProject}, NEW path \in {Card, NoProject}, Validate(p, path)
      PROVE  HandoffInv'
  BY <1>3, ValidateKeeps
<1>4. ASSUME Move, UNCHANGED history, branch' \in Branches, work' \in Trees
      PROVE  HandoffInv'
  <2>1. HistoryTells' /\ Len(history') >= Len(history)
    BY <1>4, HistoryFacts DEF HandoffInv, HistoryTells
  <2>2. QED
    BY <1>4, <2>1, MoveKeeps DEF HandoffInv, HandoffTypeOK
<1>5. ASSUME NEW f \in Files, NEW v \in Versions \cup {0}, Edit(f, v)
      PROVE  HandoffInv'
  <2>1. work' \in Trees /\ UNCHANGED <<history, branch>> /\ Move
    BY <1>5 DEF Edit, HandoffInv, HandoffTypeOK, Trees
  <2>2. QED
    BY <1>4, <2>1 DEF HandoffInv, HandoffTypeOK
<1>6. ASSUME NEW b \in Branches, SwitchTo(b)
      PROVE  HandoffInv'
  BY <1>4, <1>6 DEF SwitchTo, HandoffInv, HandoffTypeOK
<1>7. ASSUME TakeToClone
      PROVE  HandoffInv'
  BY <1>4, <1>7, HistoryFacts DEF TakeToClone, HandoffInv, HandoffTypeOK
<1>8. QED
  BY <1>1, <1>2, <1>3, <1>5, <1>6, <1>7, CommitKeeps DEF HandoffNext

(* What a valid checkpoint, and one that is refused, say of the repository. *)
LEMMA ValidIsSound ==
    ASSUME HandoffInv, verdict.asked, verdict.valid
    PROVE  /\ verdict.project \in {NoProject, card.project} /\ branch = card.branch
           /\ Committed = history[card.head].files
           /\ \A f \in Files : work[f] # Committed[f] => kept[f] # Committed[f]
           /\ \A f \in Files : Committed[f] = 0 /\ work[f] # 0 => \E r \in card.register : r.path = f
           /\ \A r \in card.register : r.digest # 0 => work[r.path] \in {0, kept[r.path]}
           /\ \A f \in {r.path : r \in card.register} \cup {e.entry.path : e \in card.expected} :
                 work[f] = 0 /\ kept[f] # 0 => f \in verdict.warnings
<1>1. /\ card # NoCard /\ verdict.warnings = Warnings
      /\ IdentityFindings(verdict.project) = {} /\ GitFindings(verdict.path) = {} /\ FileFindings = {}
  BY DEF HandoffInv, VerdictTells
<1>2. verdict.project \in {NoProject, card.project}
  BY <1>1 DEF IdentityFindings, Report
<1>3. /\ branch = card.branch
      /\ card.head = Len(history) \/ CardCommitOnly(verdict.path)
      /\ StatusFindings = {}
      /\ \A s \in Status : s.code = "??" => \E r \in card.register : r.path = s.path
  BY <1>1 DEF GitFindings, Report
<1>4. /\ \A e \in card.expected : e.entry \in Status \/ e.availability = "LOCAL_ONLY"
      /\ Status \subseteq {e.entry : e \in card.expected}
  BY <1>3 DEF StatusFindings, Report
<1>5. /\ \A r \in card.register : work[r.path] # 0 \/ r.availability = "LOCAL_ONLY"
      /\ \A r \in card.register : r.digest # 0 => work[r.path] \in {0, r.digest}
  BY <1>1 DEF FileFindings, Report
<1>6. Committed = Recorded
  BY <1>1, <1>3, CommittedIsRecorded DEF CardCommitOnly
<1>7. \A f \in Files : work[f] # Committed[f] => EntryOf(Committed, work, f) \in Status
  BY StatusEntries
<1>8. /\ \A e \in card.expected : \E f \in Files :
            kept[f] # Committed[f] /\ e.entry = EntryOf(Committed, kept, f)
      /\ \A r \in card.register :
            r.path \in Files /\ kept[r.path] # 0 /\ r.digest \in {0, kept[r.path]}
  BY <1>1, <1>6 DEF HandoffInv, CardTells
<1>9. ASSUME NEW f \in Files, work[f] # Committed[f] PROVE kept[f] # Committed[f]
  <2>1. PICK e \in card.expected : e.entry = EntryOf(Committed, work, f)
    BY <1>4, <1>7, <1>9
  <2>2. PICK g \in Files : kept[g] # Committed[g] /\ e.entry = EntryOf(Committed, kept, g)
    BY <1>8
  <2>3. f = g
    BY <2>1, <2>2 DEF EntryOf
  <2>4. QED
    BY <2>2, <2>3
<1>10. ASSUME NEW f \in Files, Committed[f] = 0, work[f] # 0 PROVE \E r \in card.register : r.path = f
  <2>1. PICK s \in Status : s = EntryOf(Committed, work, f)
    BY <1>7, <1>10
  <2>2. s.code = "??" /\ s.path = f
    BY <1>10, <2>1 DEF EntryOf
  <2>3. QED
    BY <1>3, <2>2
<1>11. \A r \in card.register : r.digest # 0 => work[r.path] \in {0, kept[r.path]}
  BY <1>5, <1>8
<1>12. ASSUME NEW r \in card.register, work[r.path] = 0 PROVE r.path \in verdict.warnings
  BY <1>1, <1>5, <1>12 DEF Warnings
<1>13. ASSUME NEW e \in card.expected, work[e.entry.path] = 0, kept[e.entry.path] # 0
       PROVE  e.entry.path \in verdict.warnings
  <2>1. PICK f \in Files : kept[f] # Committed[f] /\ e.entry = EntryOf(Committed, kept, f)
    BY <1>8
  <2>2. e.entry.path = f /\ work[f] = 0 /\ kept[f] # 0
    BY <1>13, <2>1 DEF EntryOf
  <2>3. e.entry \notin Status
    <3>1. SUFFICES ASSUME e.entry \in Status PROVE FALSE
      OBVIOUS
    <3>2. PICK g \in Files : work[g] # Committed[g] /\ e.entry = EntryOf(Committed, work, g)
      BY <3>1, StatusEntries
    <3>3. g = f
      BY <2>2, <3>2 DEF EntryOf
    <3>4. Committed[f] # 0
      BY <2>2, <3>2, <3>3
    <3>5. e.entry.code = "M" /\ e.entry.code = "D"
      BY <2>1, <2>2, <3>2, <3>3, <3>4 DEF EntryOf
    <3>6. QED
      BY <3>5
  <2>4. QED
    BY <1>1, <1>4, <2>3 DEF Warnings
<1>14. QED
  BY <1>2, <1>3, <1>6, <1>9, <1>10, <1>11, <1>12, <1>13 DEF Recorded

LEMMA UnchangedIsValid ==
    ASSUME HandoffInv, verdict.asked,
           IdentityFindings(verdict.project) = {},
           work = kept, branch = card.branch,
           \/ Len(history) = card.head
           \/ verdict.path = Card /\ Len(history) = card.head + 1 /\ Last(history).changed = {Card},
           \A f \in Files : Committed[f] = 0 /\ work[f] # 0 => \E r \in card.register : r.path = f
    PROVE  verdict.valid
<1>1. card # NoCard
  BY DEF HandoffInv, VerdictTells
<1>2. Committed = Recorded
  BY <1>1, CommittedIsRecorded
<1>3. /\ \A e \in card.expected : \E f \in Files :
            work[f] # Committed[f] /\ e.entry = EntryOf(Committed, work, f)
      /\ \A f \in Files : work[f] # Committed[f] =>
            \E e \in card.expected : e.entry = EntryOf(Committed, work, f)
      /\ \A r \in card.register :
            r.path \in Files /\ work[r.path] # 0 /\ r.digest \in {0, work[r.path]}
  BY <1>1, <1>2 DEF HandoffInv, CardTells
<1>4. /\ \A e \in card.expected : e.entry \in Status
      /\ \A s \in Status : \E e \in card.expected : s = e.entry
  BY <1>3, StatusEntries
<1>5. StatusFindings = {}
  <2>1. Status \ {e.entry : e \in card.expected} = {}
    BY <1>4
  <2>2. ~\E e \in card.expected : e.entry \notin Status /\ e.availability # "LOCAL_ONLY"
    BY <1>4
  <2>3. QED
    BY <2>1, <2>2 DEF StatusFindings, Report
<1>6. \A s \in Status : s.code = "??" => \E r \in card.register : r.path = s.path
  <2>1. SUFFICES ASSUME NEW s \in Status, s.code = "??" PROVE \E r \in card.register : r.path = s.path
    OBVIOUS
  <2>2. PICK f \in Files : work[f] # Committed[f] /\ s = EntryOf(Committed, work, f)
    BY StatusEntries
  <2>3. s.path = f
    BY <2>2 DEF EntryOf
  <2>4. Committed[f] = 0
    BY <2>1, <2>2 DEF EntryOf
  <2>5. QED
    BY <2>2, <2>3, <2>4
<1>7. GitFindings(verdict.path) = {}
  <2>1. card.head = Len(history) \/ CardCommitOnly(verdict.path)
    BY DEF CardCommitOnly
  <2>2. ~\E s \in Status : s.code = "??" /\ \A r \in card.register : r.path # s.path
    BY <1>6
  <2>3. QED
    BY <1>5, <2>1, <2>2 DEF GitFindings, Report
<1>8. FileFindings = {}
  BY <1>3 DEF FileFindings, Report
<1>9. QED
  BY <1>7, <1>8 DEF HandoffInv, VerdictTells

LEMMA HandoffInvariant == HandoffSpec => []HandoffInv
BY HandoffInitInv, HandoffNextInv, PTL DEF HandoffSpec

LEMMA InvIsSound == HandoffInv => HandoffSound
BY ValidIsSound, UnchangedIsValid DEF HandoffSound

(* The repository, the checkpoint and its validation keep their types.      *)
THEOREM HandoffTypes == HandoffSpec => []HandoffTypeOK
<1>1. HandoffInv => HandoffTypeOK
  BY DEF HandoffInv
<1>2. QED
  BY <1>1, HandoffInvariant, PTL

(* validateTakeoverCheckpoint: whatever is edited, committed or switched to *)
(* and however often, a checkpoint found valid tells what the repository    *)
(* is, and one of an unchanged repository is not refused.                   *)
THEOREM CheckpointsAreSound == HandoffSpec => []HandoffSound
BY InvIsSound, HandoffInvariant, PTL

----------------------------------------------------------------------------
(* Project context.  The scope: a reference that is not found wanting is    *)
(* one the manifest declares, once.                                         *)
LEMMA SameScope ==
    ASSUME UNCHANGED manifest
    PROVE  /\ ManifestValid' <=> ManifestValid
           /\ Declarations' = Declarations
           /\ \A req : ScopeFindings(req)' = ScopeFindings(req)
           /\ \A r : Declared(r)' <=> Declared(r)
<1>1. Declarations' = Declarations
  BY DEF Declarations
<1>2. ManifestValid' <=> ManifestValid
  BY <1>1 DEF ManifestValid
<1>3. \A r : PrimaryCode(r)' = PrimaryCode(r) /\ DependencyCode(r)' = DependencyCode(r)
  BY DEF PrimaryCode, DependencyCode
<1>4. \A req, i : ScopeCode(req, i)' = ScopeCode(req, i)
  BY <1>3 DEF ScopeCode
<1>5. \A req : ScopeFindings(req)' = ScopeFindings(req)
  BY <1>4 DEF ScopeFindings
<1>6. \A r : Declared(r)' <=> Declared(r)
  BY DEF Declared
<1>7. QED
  BY <1>1, <1>2, <1>5, <1>6

LEMMA InScopeIsDeclared ==
    ASSUME ManifestValid, NEW req, NEW i, ScopeCode(req, i) = "none"
    PROVE  Declared(req[i])
<1>1. CASE req[i].owner = manifest.owner
  <2>1. PrimaryCode(req[i]) = "none"
    BY <1>1 DEF ScopeCode
  <2>2. req[i].dependency = None /\ Among(req[i], manifest.sources)
    BY <2>1 DEF PrimaryCode
  <2>3. QED
    BY <1>1, <2>2 DEF Declared, Among
<1>2. CASE req[i].owner # manifest.owner
  <2> DEFINE named == {d \in manifest.dependencies : d.id = req[i].dependency}
  <2>1. DependencyCode(req[i]) = "none"
    BY <1>2 DEF ScopeCode
  <2>2. /\ \E d \in named : req[i].owner = d.owner
        /\ \E d \in named : Among(req[i], d.sources)
    BY <2>1 DEF DependencyCode
  <2>3. \A d, e \in named : d = e
    BY DEF ManifestValid
  <2>4. QED
    BY <2>2, <2>3 DEF Declared, Among
<1>3. QED
  BY <1>1, <1>2

LEMMA DeclaredIsInScope ==
    ASSUME ManifestValid, NEW req, NEW i, Declared(req[i]),
           ~\E j \in 1..(i - 1) : req[j].id = req[i].id
    PROVE  ScopeCode(req, i) = "none"
<1>1. CASE req[i].owner = manifest.owner
  <2>1. req[i].dependency = None /\ Among(req[i], manifest.sources)
    BY <1>1 DEF Declared, Among, ManifestValid
  <2>2. PrimaryCode(req[i]) = "none"
    BY <2>1 DEF PrimaryCode
  <2>3. QED
    BY <1>1, <2>2 DEF ScopeCode
<1>2. CASE req[i].owner # manifest.owner
  <2> DEFINE named == {d \in manifest.dependencies : d.id = req[i].dependency}
  <2>1. PICK d \in named : req[i].owner = d.owner /\ Among(req[i], d.sources)
    BY <1>2 DEF Declared, Among
  <2>2. DependencyCode(req[i]) = "none"
    BY <2>1 DEF DependencyCode
  <2>3. QED
    BY <1>2, <2>2 DEF ScopeCode
<1>3. QED
  BY <1>1, <1>2

LEMMA ScopeIsEmpty ==
    ASSUME NEW req, ScopeFindings(req) = {}
    PROVE  \A i \in DOMAIN req : ScopeCode(req, i) = "none"
BY DEF ScopeFindings

\* The purpose of a source is looked up by its id alone: no other source has it.
LEMMA OneDeclaration ==
    ASSUME ManifestValid, NEW r, Declared(r), NEW x \in Declarations, x.source.id = r.id
    PROVE  x.by = r.dependency /\ x.source.path = r.path
<1> DEFINE s == [id |-> r.id, path |-> r.path]
<1>1. [by |-> r.dependency, source |-> s] \in Declarations
  <2>1. CASE r.dependency = None /\ s \in manifest.sources
    BY <2>1 DEF Declarations
  <2>2. CASE \E d \in manifest.dependencies : r.dependency = d.id /\ s \in d.sources
    <3>1. PICK d \in manifest.dependencies : r.dependency = d.id /\ s \in d.sources
      BY <2>2
    <3> HIDE DEF s
    <3>2. [by |-> d.id, source |-> s] \in {[by |-> d.id, source |-> t] : t \in d.sources}
      BY <3>1
    <3>3. {[by |-> d.id, source |-> t] : t \in d.sources} \subseteq Declarations
      BY DEF Declarations
    <3>4. QED
      BY <3>1, <3>2, <3>3
  <2>3. QED
    BY <2>1, <2>2 DEF Declared
<1>2. PICK y \in Declarations : y.by = r.dependency /\ y.source.id = r.id /\ y.source.path = r.path
  BY <1>1
<1>3. x = y
  BY <1>2 DEF ManifestValid
<1>4. QED
  BY <1>2, <1>3

(* The reading.  What has been read of the open file is what the file holds *)
(* as long as its stamp is the one found first.                             *)
InFlight == packPc \notin {"idle", "done"}
IsOpen   == packPc \in {"stat", "identify", "read", "restat", "reidentify"}

FilesKept == \A p \in Paths : \A i \in DOMAIN inode[p] :
                inode[p][i].bytes \in past[p] /\ inode[p][i].stamp <= writes

Underway ==
    /\ packPc = "idle" => writes = 0 /\ selected = <<>> /\ findings = <<>> /\ bytes = <<>>
    /\ packPc # "done" => packet = NoPacket
    /\ InFlight => ManifestValid /\ ScopeFindings(request) = {} /\ Reading <= Len(request)

HandleKept ==
    IsOpen => /\ opened.file \in DOMAIN inode[File] /\ opened.stamp <= writes
              /\ writes = 0 => opened.file = name[File]

PastLinks == IsOpen \/ packPc = "open" => File \notin Links

BytesTell ==
    /\ packPc \in {"walk", "open", "stat", "identify"} => bytes = <<>>
    /\ packPc = "read" => Len(bytes) \in {0, 1}
    /\ packPc = "restat" => Len(bytes) = 2
    /\ packPc \in {"read", "restat"} /\ inode[File][opened.file].stamp = opened.stamp =>
          \A k \in DOMAIN bytes : bytes[k] = inode[File][opened.file].bytes[k]
    /\ packPc = "reidentify" =>
          /\ bytes \in past[File]
          /\ writes = 0 => bytes = inode[File][opened.file].bytes

Chosen(chosen, i) ==
    /\ chosen[i].reference = request[i] /\ request[i].path \notin Links
    /\ \E b \in past[request[i].path] : TextCode(b) = "none" /\ chosen[i].content = Section(b)

SelectedTell ==
    InFlight => /\ findings = <<>> => \A i \in DOMAIN selected : Chosen(selected, i)
                /\ findings # <<>> /\ writes = 0 => CauseToBlock

PacketInv ==
    /\ PacketTypeOK /\ FilesKept /\ Underway /\ HandleKept /\ PastLinks /\ BytesTell
    /\ SelectedTell /\ PacketSound

LEMMA RequestFacts ==
    ASSUME NEW req \in Requests
    PROVE  req \in Seq(Candidates) /\ DOMAIN req = 1..Len(req) /\ Len(req) \in Nat
<1>1. PICK n \in 0..MaxRequest : req \in [1..n -> Candidates]
  BY DEF Requests
<1>2. n \in Nat
  BY BoundsAssumption
<1> HIDE DEF Requests
<1>3. QED
  BY <1>1, <1>2

\* Where a reading stands, the reference read and its path are of the request.
LEMMA ReadingFacts ==
    ASSUME PacketTypeOK, Underway, InFlight
    PROVE  /\ Len(selected) \in Nat /\ Len(findings) \in Nat
           /\ Reading \in 1..Len(request) /\ Reading \in DOMAIN request
           /\ Reference \in Candidates /\ File \in Paths
           /\ inode[File] \in Seq([bytes : Bytes, stamp : 0..MaxWrites])
           /\ DOMAIN inode[File] = 1..Len(inode[File]) /\ Len(inode[File]) \in Nat
           /\ name[File] \in Nat /\ name[File] <= Len(inode[File])
<1>1. Len(selected) \in Nat /\ Len(findings) \in Nat
  BY LenProperties, Zenon DEF PacketTypeOK
<1>2. request \in Seq(Candidates) /\ DOMAIN request = 1..Len(request) /\ Len(request) \in Nat
  BY RequestFacts DEF PacketTypeOK
<1>3. Reading \in 1..Len(request)
  BY <1>1, <1>2 DEF Reading, Underway
<1>4. Reference \in Candidates
  BY <1>2, <1>3, ElementOfSeq DEF Reference
<1>5. File \in Paths
  BY <1>4 DEF File, Paths
<1>6. inode[File] \in Seq([bytes : Bytes, stamp : 0..MaxWrites])
  BY <1>5 DEF PacketTypeOK
<1>7. DOMAIN inode[File] = 1..Len(inode[File]) /\ Len(inode[File]) \in Nat
  BY <1>6, LenProperties
<1>8. name[File] \in Nat /\ name[File] <= Len(inode[File])
  BY <1>5 DEF PacketTypeOK
<1>9. QED
  BY <1>1, <1>2, <1>3, <1>4, <1>5, <1>6, <1>7, <1>8

\* The file that is open is one of those there have been at the path.
LEMMA OpenFacts ==
    ASSUME PacketTypeOK, Underway, InFlight, NEW i \in DOMAIN inode[File]
    PROVE  /\ inode[File][i].bytes \in Bytes /\ inode[File][i].stamp \in 0..MaxWrites
           /\ \A k \in 1..2 : inode[File][i].bytes[k] \in Lines
<1>1. inode[File][i] \in [bytes : Bytes, stamp : 0..MaxWrites]
  BY ReadingFacts, ElementOfSeq
<1>2. \A b \in Bytes : \A k \in 1..2 : b[k] \in Lines
  BY DEF Bytes
<1>3. QED
  BY <1>1, <1>2

LEMMA PacketInitInv == PacketInit => PacketInv
<1> SUFFICES ASSUME PacketInit PROVE PacketInv
  OBVIOUS
<1> DEFINE S == [bytes : Bytes, stamp : 0..MaxWrites]
<1>1. /\ inode \in [Paths -> {<<>>} \cup {<<[bytes |-> b, stamp |-> 0]>> : b \in Contents}]
      /\ name = [p \in Paths |-> Len(inode[p])]
      /\ past = [p \in Paths |-> {f.bytes : f \in {inode[p][i] : i \in DOMAIN inode[p]}}]
      /\ writes = 0 /\ manifest \in Manifests /\ request = <<>> /\ packPc = "idle"
      /\ opened = NoHandle /\ bytes = <<>> /\ selected = <<>> /\ findings = <<>> /\ packet = NoPacket
  BY DEF PacketInit
<1>2. MaxWrites \in Nat /\ MaxRequest \in Nat /\ Contents \subseteq Bytes
  BY BoundsAssumption, FilesAssumption
<1>3. ASSUME NEW p \in Paths
      PROVE  /\ inode[p] \in Seq(S) /\ Len(inode[p]) \in Nat
             /\ \A i \in DOMAIN inode[p] : inode[p][i].bytes \in Bytes /\ inode[p][i].stamp = 0
  <2>1. CASE inode[p] = <<>>
    BY <2>1
  <2>2. ASSUME NEW b \in Contents, inode[p] = <<[bytes |-> b, stamp |-> 0]>>
        PROVE  <1>3!2
    <3>1. [bytes |-> b, stamp |-> 0] \in S
      BY <1>2
    <3>2. QED
      BY <1>2, <2>2, <3>1
  <2>3. QED
    BY <1>1, <2>1, <2>2
<1>4. PacketTypeOK
  <2>1. inode \in [Paths -> Seq(S)] /\ name \in [Paths -> Nat] /\ \A p \in Paths : name[p] <= Len(inode[p])
    <3> HIDE DEF S
    <3>1. \A p \in Paths : inode[p] \in Seq(S) /\ Len(inode[p]) \in Nat /\ name[p] = Len(inode[p])
      BY <1>1, <1>3
    <3>2. inode \in [Paths -> Seq(S)]
      <4>1. inode = [p \in Paths |-> inode[p]]
        BY <1>1
      <4>2. QED
        BY <3>1, <4>1
    <3>3. QED
      BY <1>1, <3>1, <3>2
  <2>2. past \in [Paths -> SUBSET Bytes]
    BY <1>1, <1>3
  <2>3. request \in Requests
    <3>1. <<>> \in [1..0 -> Candidates]
      OBVIOUS
    <3>2. [1..0 -> Candidates] \in {[1..n -> Candidates] : n \in 0..MaxRequest}
      BY <1>2
    <3>3. QED
      BY <1>1, <3>1, <3>2 DEF Requests
  <2>4. opened \in [file : Nat, stamp : 0..MaxWrites] /\ writes \in 0..MaxWrites
    BY <1>1, <1>2 DEF NoHandle
  <2>5. packet.status = "none"
    BY <1>1 DEF NoPacket
  <2>6. /\ bytes \in Seq(Lines)
        /\ selected \in Seq([reference : Candidates, content : Seq(Lines)])
        /\ findings \in Seq([code : SourceCodes, reference : Candidates])
    BY <1>1
  <2>7. QED
    BY <1>1, <2>1, <2>2, <2>3, <2>4, <2>5, <2>6 DEF PacketTypeOK
<1>5. FilesKept
  BY <1>1, <1>3 DEF FilesKept
<1>6. Underway /\ HandleKept /\ PastLinks /\ BytesTell /\ SelectedTell
  BY <1>1 DEF Underway, HandleKept, PastLinks, BytesTell, SelectedTell, InFlight, IsOpen
<1>7. PacketSound
  BY <1>1 DEF PacketSound, NoPacket
<1>8. QED
  BY <1>4, <1>5, <1>6, <1>7 DEF PacketInv

\* A step of the reading that goes on with the same source.
LEMMA ReadingOn ==
    ASSUME PacketInv, InFlight,
           packPc' \in {"walk", "open", "stat", "identify", "read", "restat", "reidentify"},
           UNCHANGED <<fileVars, manifest, request, selected, findings, packet>>,
           opened' \in [file : Nat, stamp : 0..MaxWrites], bytes' \in Seq(Lines),
           HandleKept', PastLinks', BytesTell'
    PROVE  PacketInv'
<1>1. UNCHANGED <<inode, name, past, writes>>
  BY DEF fileVars
<1>2. PacketTypeOK' /\ FilesKept'
  BY <1>1 DEF PacketInv, PacketTypeOK, FilesKept
<1>3. Reading' = Reading /\ CauseToBlock' = CauseToBlock
  BY <1>1, SameScope DEF Reading, CauseToBlock
<1>4. Underway'
  BY <1>1, <1>3, SameScope DEF PacketInv, Underway, InFlight
<1>5. SelectedTell'
  BY <1>1, <1>3 DEF PacketInv, SelectedTell, Chosen, InFlight
<1>6. PacketSound'
  <2>1. packet = NoPacket
    BY DEF PacketInv, Underway, InFlight
  <2>2. QED
    BY <2>1 DEF PacketSound, NoPacket
<1>7. QED
  BY <1>2, <1>4, <1>5, <1>6 DEF PacketInv

\* The last source, or a scope without any, leaves a packet that is sound.
LEMMA ReadyIsSound ==
    ASSUME ManifestValid, NEW req \in Requests, ScopeFindings(req) = {}, request' = req,
           UNCHANGED <<manifest, past>>,
           NEW chosen \in Seq([reference : Candidates, content : Seq(Lines)]), Len(chosen) = Len(req),
           \A i \in DOMAIN chosen : Chosen(chosen, i)',
           packet' = Packet(chosen, {})
    PROVE  PacketSound'
<1>1. packet'.status = "READY" /\ packet'.selected = chosen
  BY DEF Packet
<1>2. req \in Seq(Candidates) /\ DOMAIN req = 1..Len(req) /\ Len(req) \in Nat /\ DOMAIN chosen = DOMAIN req
  BY RequestFacts
<1>3. [i \in DOMAIN chosen |-> chosen[i].reference] = req
  <2>1. \A i \in DOMAIN chosen : chosen[i].reference = req[i]
    BY DEF Chosen
  <2>2. QED
    BY <1>2, <2>1
<1>4. \A i \in DOMAIN req : Declared(req[i])
  BY ScopeIsEmpty, InScopeIsDeclared
<1>5. ASSUME NEW i \in DOMAIN req
      PROVE  /\ Declared(req[i])'
             /\ \A x \in Declarations' : x.source.id = req[i].id =>
                   x.by = req[i].dependency /\ x.source.path = req[i].path
             /\ req[i].path \notin Links
             /\ \E b \in past'[req[i].path] : TextCode(b) = "none" /\ chosen[i].content = Section(b)
  <2>1. Declared(req[i])' /\ Declarations' = Declarations
    BY <1>4, SameScope
  <2>2. Chosen(chosen, i)'
    BY <1>2
  <2>3. QED
    BY <1>4, <2>1, <2>2, OneDeclaration DEF Chosen
<1>6. packet'.status # "BLOCKED"
  BY <1>1
<1>7. [i \in DOMAIN packet.selected |-> packet.selected[i].reference]' = request'
  BY <1>1, <1>3
<1>8. QED
  BY <1>1, <1>5, <1>6, <1>7 DEF PacketSound

LEMMA MaterializeKeeps ==
    ASSUME PacketInv, NEW req \in Requests, NEW roots, Materialize(req, roots)
    PROVE  PacketInv'
<1>1. /\ packPc = "idle" /\ request' = req
      /\ UNCHANGED <<inode, name, past, writes, manifest, opened, bytes, selected, findings>>
      /\ packPc' \in {"walk", "done"}
  BY DEF Materialize, PackGoto, fileVars
<1>2. /\ selected = <<>> /\ findings = <<>> /\ bytes = <<>> /\ packet = NoPacket /\ writes = 0
  BY <1>1 DEF PacketInv, Underway
<1>3. FilesKept' /\ HandleKept' /\ PastLinks' /\ BytesTell'
  BY <1>1, <1>2 DEF PacketInv, FilesKept, HandleKept, PastLinks, BytesTell, IsOpen
<1>4. SelectedTell'
  BY <1>1, <1>2 DEF SelectedTell
<1>5. packet'.status \in {"none", "READY", "BLOCKED"} => PacketTypeOK'
  BY <1>1 DEF PacketInv, PacketTypeOK
<1>6. CASE UNCHANGED packet /\ packPc' = "done"
  BY <1>2, <1>3, <1>4, <1>5, <1>6 DEF PacketInv, Underway, PacketSound, NoPacket, InFlight
<1>7. CASE UNCHANGED packet /\ packPc' = "walk" /\ ManifestValid /\ req # <<>> /\ ScopeFindings(req) = {}
  <2>1. Reading' <= Len(req)
    <3>1. req \in Seq(Candidates)
      BY RequestFacts
    <3>2. Len(req) \in Nat \ {0}
      BY <1>7, <3>1, EmptySeq
    <3>3. QED
      BY <1>1, <1>2, <3>2 DEF Reading
  <2>2. Underway'
    BY <1>1, <1>2, <1>7, <2>1, SameScope DEF Underway, InFlight
  <2>3. PacketSound' /\ PacketTypeOK'
    BY <1>2, <1>5, <1>7 DEF PacketSound, NoPacket
  <2>4. QED
    BY <1>3, <1>4, <2>2, <2>3 DEF PacketInv
<1>8. CASE /\ ManifestValid /\ (req = <<>> \/ ScopeFindings(req) # {})
           /\ packet' = Packet(<<>>, ScopeFindings(req)) /\ packPc' = "done"
  <2>1. Underway'
    BY <1>8 DEF Underway, InFlight
  <2>2. PacketTypeOK'
    BY <1>5, <1>8 DEF Packet
  <2>3. CASE ScopeFindings(req) = {}
    <3>1. Len(req) = 0 /\ <<>> \in Seq([reference : Candidates, content : Seq(Lines)])
      BY <1>8, <2>3
    <3>2. \A i \in DOMAIN <<>> : Chosen(<<>>, i)'
      <4>1. DOMAIN <<>> = {}
        BY <3>1
      <4>2. QED
        BY <4>1
    <3>3. Len(<<>>) = Len(req) /\ packet' = Packet(<<>>, {})
      BY <1>8, <2>3, <3>1
    <3>4. PacketSound'
      BY <1>1, <1>8, <2>3, <3>1, <3>2, <3>3, ReadyIsSound
    <3>5. QED
      BY <1>3, <1>4, <2>1, <2>2, <3>4 DEF PacketInv
  <2>4. CASE ScopeFindings(req) # {}
    <3>1. /\ packet'.status = "BLOCKED" /\ packet'.selected = <<>> /\ packet'.findings # {}
      BY <1>8, <2>4 DEF Packet
    <3>2. PICK i \in DOMAIN req : ScopeCode(req, i) # "none"
      BY <2>4 DEF ScopeFindings
    <3>5. CauseToBlock'
      <4>1. CASE \E j \in 1..(i - 1) : req[j].id = req[i].id
        <5>1. DOMAIN req = 1..Len(req) /\ Len(req) \in Nat
          BY RequestFacts
        <5>2. PICK j \in 1..(i - 1) : req[j].id = req[i].id
          BY <4>1
        <5>3. j \in DOMAIN req /\ j # i
          BY <3>2, <5>1, <5>2
        <5>4. QED
          BY <1>1, <3>2, <5>2, <5>3 DEF CauseToBlock
      <4>2. CASE ~\E j \in 1..(i - 1) : req[j].id = req[i].id
        <5>1. ~Declared(req[i])
          BY <1>8, <3>2, <4>2, DeclaredIsInScope
        <5>2. ~Declared(req[i])'
          BY <1>1, <5>1, SameScope
        <5>3. QED
          BY <1>1, <3>2, <5>2 DEF CauseToBlock
      <4>3. QED
        BY <4>1, <4>2
    <3>6. PacketSound'
      BY <3>1, <3>5 DEF PacketSound
    <3>7. QED
      BY <1>3, <1>4, <2>1, <2>2, <3>6 DEF PacketInv
  <2>5. QED
    BY <2>3, <2>4
<1>9. QED
  BY <1>6, <1>7, <1>8 DEF Materialize, PackGoto

\* The source being read is done with: it is chosen, or found wanting for a reason.
LEMMA ConcludeKeeps ==
    ASSUME PacketInv, InFlight,
           NEW chosen \in Seq([reference : Candidates, content : Seq(Lines)]),
           NEW found \in Seq([code : SourceCodes, reference : Candidates]),
           Conclude(chosen, found),
           Len(chosen) + Len(found) = Reading,
           found = <<>> => \A i \in DOMAIN chosen : Chosen(chosen, i),
           found # <<>> /\ writes = 0 => CauseToBlock
    PROVE  PacketInv'
<1> DEFINE F == {found[i] : i \in DOMAIN found}
<1>1. /\ opened' = NoHandle /\ bytes' = <<>> /\ selected' = chosen /\ findings' = found
      /\ UNCHANGED <<inode, name, past, writes, manifest, request>>
      /\ packPc' \in {"walk", "done"}
      /\ packPc' = "walk" => Reading < Len(request) /\ UNCHANGED packet
      /\ packPc' = "done" => ~(Reading < Len(request)) /\ packet' = Packet(chosen, F)
  BY DEF Conclude, PackGoto, fileVars
<1>0. (found = <<>> => F = {} /\ Len(found) = 0) /\ (found # <<>> => F # {})
  <2>1. CASE found = <<>>
    <3>1. DOMAIN found = {} /\ Len(found) = 0
      BY <2>1
    <3>2. QED
      BY <2>1, <3>1
  <2>2. CASE found # <<>>
    <3>1. Len(found) \in Nat \ {0} /\ DOMAIN found = 1..Len(found)
      BY <2>2, EmptySeq, LenProperties
    <3>2. 1 \in DOMAIN found
      BY <3>1
    <3>3. QED
      BY <2>2, <3>2
  <2>3. QED
    BY <2>1, <2>2
<1> HIDE DEF F
<1>2. /\ Reading \in 1..Len(request) /\ Len(request) \in Nat /\ request \in Requests
      /\ ManifestValid /\ ScopeFindings(request) = {} /\ packet = NoPacket
  <2>1. Len(request) \in Nat /\ request \in Requests
    BY RequestFacts DEF PacketInv, PacketTypeOK
  <2>2. QED
    BY <2>1, ReadingFacts DEF PacketInv, Underway, InFlight
<1>3. FilesKept' /\ HandleKept' /\ PastLinks' /\ BytesTell'
  BY <1>1 DEF PacketInv, FilesKept, HandleKept, PastLinks, BytesTell, IsOpen
<1>4. CauseToBlock' = CauseToBlock
  BY <1>1, SameScope DEF CauseToBlock
<1>5. \A i \in DOMAIN chosen : Chosen(chosen, i)' = Chosen(chosen, i)
  BY <1>1 DEF Chosen
<1>6. SelectedTell'
  BY <1>1, <1>4, <1>5 DEF SelectedTell, Chosen
<1>7. packet'.status \in {"none", "READY", "BLOCKED"} => PacketTypeOK'
  <2>1. NoHandle \in [file : Nat, stamp : 0..MaxWrites] /\ <<>> \in Seq(Lines)
    BY BoundsAssumption DEF NoHandle
  <2>2. packPc' \in {"idle", "walk", "open", "stat", "identify", "read", "restat", "reidentify", "done"}
    BY <1>1
  <2>3. QED
    BY <1>1, <2>1, <2>2 DEF PacketInv, PacketTypeOK
<1>8. CASE packPc' = "walk"
  <2>1. Reading' = Reading + 1
    BY <1>1, <1>2 DEF Reading
  <2>2. Underway'
    BY <1>1, <1>2, <1>8, <2>1, SameScope DEF Underway, InFlight
  <2>3. PacketSound' /\ PacketTypeOK'
    BY <1>1, <1>2, <1>7, <1>8 DEF PacketSound, NoPacket
  <2>4. QED
    BY <1>3, <1>6, <2>2, <2>3 DEF PacketInv
<1>9. CASE packPc' = "done"
  <2>1. Underway'
    BY <1>9 DEF Underway, InFlight
  <2>2. PacketTypeOK'
    BY <1>1, <1>7, <1>9 DEF Packet
  <2>3. CASE found = <<>>
    <3>1. Len(chosen) = Len(request) /\ packet' = Packet(chosen, {})
      <4>1. Len(chosen) \in Nat
        BY LenProperties
      <4>2. Reading = Len(request)
        BY <1>1, <1>2, <1>9
      <4>3. Len(found) = 0 /\ F = {}
        BY <1>0, <2>3
      <4>4. Len(chosen) = Len(request)
        BY <4>1, <4>2, <4>3
      <4>5. QED
        BY <1>1, <1>9, <4>3, <4>4
    <3>2. \A i \in DOMAIN chosen : Chosen(chosen, i)'
      BY <1>5, <2>3
    <3>3. PacketSound'
      BY <1>1, <1>2, <3>1, <3>2, ReadyIsSound
    <3>4. QED
      BY <1>3, <1>6, <2>1, <2>2, <3>3 DEF PacketInv
  <2>4. CASE found # <<>>
    <3>1. F # {}
      BY <1>0, <2>4
    <3>2. packet'.status = "BLOCKED" /\ packet'.selected = <<>> /\ packet'.findings # {}
      BY <1>1, <1>9, <3>1 DEF Packet
    <3>3. PacketSound'
      BY <1>1, <1>4, <2>4, <3>2 DEF PacketSound
    <3>4. QED
      BY <1>3, <1>6, <2>1, <2>2, <3>3 DEF PacketInv
  <2>5. QED
    BY <2>3, <2>4
<1>10. QED
  BY <1>1, <1>8, <1>9

LEMMA FailKeeps ==
    ASSUME PacketInv, InFlight, NEW code \in SourceCodes, FailSource(code), writes = 0 => CauseToBlock
    PROVE  PacketInv'
<1> DEFINE C == [code : SourceCodes, reference : Candidates]
           f == Finding(code, Reference)
<1>1. /\ Len(selected) \in Nat /\ Len(findings) \in Nat /\ Reference \in Candidates
      /\ selected \in Seq([reference : Candidates, content : Seq(Lines)]) /\ findings \in Seq(C)
  BY ReadingFacts DEF PacketInv, PacketTypeOK
<1>2. f \in C
  BY <1>1 DEF Finding
<1>3. Conclude(selected, Append(findings, f))
  BY DEF FailSource
<1> HIDE DEF f, C
<1>4. /\ Append(findings, f) \in Seq(C) /\ Append(findings, f) # <<>>
      /\ Len(Append(findings, f)) = Len(findings) + 1
  BY <1>1, <1>2, AppendProperties
<1>5. Len(selected) + Len(Append(findings, f)) = Reading
  BY <1>1, <1>4 DEF Reading
<1>6. QED
  BY <1>1, <1>3, <1>4, <1>5, ConcludeKeeps DEF C

\* What stands in the way of the source being read is a cause, while nobody writes.
LEMMA WhyItFails ==
    ASSUME PacketInv, InFlight,
           \/ File \in Links
           \/ name[File] = 0
           \/ TextCode(inode[File][name[File]].bytes) # "none"
    PROVE  CauseToBlock
<1>1. Reading \in DOMAIN request /\ request[Reading].path = File
  BY ReadingFacts DEF PacketInv, File, Reference
<1>2. QED
  BY <1>1 DEF CauseToBlock

LEMMA WalkKeeps == ASSUME PacketInv, Walk PROVE PacketInv'
<1>1. packPc = "walk" /\ InFlight
  BY DEF Walk, InFlight
<1>2. CASE File \in Links
  <2>1. FailSource("SOURCE_SYMLINK_BLOCKED")
    BY <1>2 DEF Walk
  <2>2. CauseToBlock
    BY <1>1, <1>2, WhyItFails
  <2>3. QED
    BY <1>1, <2>1, <2>2, FailKeeps DEF SourceCodes
<1>3. CASE File \notin Links /\ name[File] = 0
  <2>1. FailSource("SOURCE_UNAVAILABLE")
    BY <1>3 DEF Walk
  <2>2. CauseToBlock
    BY <1>1, <1>3, WhyItFails
  <2>3. QED
    BY <1>1, <2>1, <2>2, FailKeeps DEF SourceCodes
<1>4. CASE File \notin Links /\ name[File] # 0
  <2>1. /\ packPc' = "open"
        /\ UNCHANGED <<fileVars, manifest, request, opened, bytes, selected, findings, packet>>
    BY <1>4 DEF Walk, PackGoto
  <2>2. File' = File
    BY <2>1 DEF File, Reference, Reading
  <2>3. HandleKept' /\ PastLinks' /\ BytesTell'
    BY <1>1, <1>4, <2>1, <2>2 DEF PacketInv, HandleKept, PastLinks, BytesTell, IsOpen
  <2>4. QED
    BY <1>1, <2>1, <2>3, ReadingOn DEF PacketInv, PacketTypeOK
<1>5. QED
  BY <1>2, <1>3, <1>4

LEMMA OpenKeeps == ASSUME PacketInv, OpenSource PROVE PacketInv'
<1>1. packPc = "open" /\ InFlight
  BY DEF OpenSource, InFlight
<1>2. CASE name[File] = 0
  <2>1. FailSource("ENOENT")
    BY <1>2 DEF OpenSource
  <2>2. CauseToBlock
    BY <1>1, <1>2, WhyItFails
  <2>3. QED
    BY <1>1, <2>1, <2>2, FailKeeps DEF SourceCodes
<1>3. CASE name[File] # 0
  <2>1. /\ packPc' = "stat" /\ opened' = [file |-> name[File], stamp |-> 0]
        /\ UNCHANGED <<inode, name, past, writes, manifest, request, bytes, selected, findings, packet>>
        /\ UNCHANGED fileVars
    BY <1>3 DEF OpenSource, PackGoto, fileVars
  <2>2. File' = File
    BY <2>1 DEF File, Reference, Reading
  <2>3. name[File] \in DOMAIN inode[File] /\ writes \in Nat
    <3>1. /\ DOMAIN inode[File] = 1..Len(inode[File]) /\ Len(inode[File]) \in Nat
          /\ name[File] \in Nat /\ name[File] <= Len(inode[File])
      BY <1>1, ReadingFacts DEF PacketInv
    <3>2. writes \in Nat
      BY BoundsAssumption DEF PacketInv, PacketTypeOK
    <3>3. QED
      BY <1>3, <3>1, <3>2
  <2>4. opened' \in [file : Nat, stamp : 0..MaxWrites] /\ opened'.file = name[File] /\ opened'.stamp = 0
    BY <1>1, <2>1, ReadingFacts, BoundsAssumption DEF PacketInv
  <2>5. HandleKept'
    BY <2>1, <2>2, <2>3, <2>4 DEF HandleKept
  <2>6. PastLinks' /\ BytesTell'
    BY <1>1, <2>1, <2>2 DEF PacketInv, PastLinks, BytesTell, IsOpen
  <2>7. QED
    BY <1>1, <2>1, <2>4, <2>5, <2>6, ReadingOn DEF PacketInv, PacketTypeOK
<1>4. QED
  BY <1>2, <1>3

LEMMA StatKeeps == ASSUME PacketInv, StatHandle PROVE PacketInv'
<1>1. packPc = "stat" /\ InFlight /\ IsOpen
  BY DEF StatHandle, InFlight, IsOpen
<1>2. /\ packPc' = "identify" /\ opened' = [opened EXCEPT !.stamp = inode[File][opened.file].stamp]
      /\ UNCHANGED <<inode, name, past, writes, manifest, request, bytes, selected, findings, packet>>
      /\ UNCHANGED fileVars
  BY DEF StatHandle, PackGoto, fileVars
<1>3. File' = File
  BY <1>2 DEF File, Reference, Reading
<1>4. /\ opened.file \in DOMAIN inode[File] /\ inode[File][opened.file].stamp \in 0..MaxWrites
      /\ inode[File][opened.file].stamp <= writes /\ opened \in [file : Nat, stamp : 0..MaxWrites]
  BY <1>1, OpenFacts, ReadingFacts DEF PacketInv, HandleKept, FilesKept, PacketTypeOK
<1>5. /\ opened' \in [file : Nat, stamp : 0..MaxWrites]
      /\ opened'.file = opened.file /\ opened'.stamp = inode[File][opened.file].stamp
  BY <1>2, <1>4
<1>6. HandleKept'
  BY <1>1, <1>2, <1>3, <1>4, <1>5 DEF PacketInv, HandleKept
<1>7. PastLinks' /\ BytesTell'
  BY <1>1, <1>2, <1>3 DEF PacketInv, PastLinks, BytesTell, IsOpen
<1>8. QED
  BY <1>1, <1>2, <1>5, <1>6, <1>7, ReadingOn DEF PacketInv, PacketTypeOK

LEMMA IdentifyKeeps == ASSUME PacketInv, Identify PROVE PacketInv'
<1>1. packPc = "identify" /\ InFlight /\ IsOpen
  BY DEF Identify, InFlight, IsOpen
<1>2. CASE name[File] = 0
  <2>1. FailSource("ENOENT")
    BY <1>2 DEF Identify
  <2>2. CauseToBlock
    BY <1>1, <1>2, WhyItFails
  <2>3. QED
    BY <1>1, <2>1, <2>2, FailKeeps DEF SourceCodes
<1>3. CASE name[File] # 0 /\ name[File] # opened.file
  <2>1. writes # 0
    BY <1>1, <1>3 DEF PacketInv, HandleKept
  <2>2. FailSource("SOURCE_CHANGED_DURING_READ")
    BY <1>3 DEF Identify
  <2>3. QED
    BY <1>1, <2>1, <2>2, FailKeeps DEF SourceCodes
<1>4. CASE name[File] # 0 /\ name[File] = opened.file
  <2>1. /\ packPc' = "read"
        /\ UNCHANGED <<inode, name, past, writes, manifest, request, opened, bytes, selected, findings, packet>>
        /\ UNCHANGED fileVars
    BY <1>4 DEF Identify, PackGoto, fileVars
  <2>2. File' = File
    BY <2>1 DEF File, Reference, Reading
  <2>3. HandleKept' /\ PastLinks'
    BY <1>1, <2>1, <2>2 DEF PacketInv, HandleKept, PastLinks, IsOpen
  <2>4. bytes = <<>> /\ Len(bytes) = 0 /\ DOMAIN bytes = {}
    <3>1. bytes = <<>>
      BY <1>1 DEF PacketInv, BytesTell
    <3>2. QED
      BY <3>1
  <2>5. BytesTell'
    BY <2>1, <2>4 DEF BytesTell
  <2>6. QED
    BY <1>1, <2>1, <2>3, <2>5, ReadingOn DEF PacketInv, PacketTypeOK
<1>5. QED
  BY <1>2, <1>3, <1>4

LEMMA ReadKeeps == ASSUME PacketInv, ReadLine PROVE PacketInv'
<1> DEFINE line == inode[File][opened.file].bytes[Len(bytes) + 1]
<1>1. packPc = "read" /\ InFlight /\ IsOpen
  BY DEF ReadLine, InFlight, IsOpen
<1>2. /\ packPc' = IF Len(bytes) = 0 THEN "read" ELSE "restat"
      /\ bytes' = Append(bytes, line)
      /\ UNCHANGED <<inode, name, past, writes, manifest, request, opened, selected, findings, packet>>
      /\ UNCHANGED fileVars
  BY DEF ReadLine, PackGoto, fileVars
<1>3. File' = File
  BY <1>2 DEF File, Reference, Reading
<1>4. opened.file \in DOMAIN inode[File] /\ Len(bytes) \in {0, 1} /\ bytes \in Seq(Lines)
  BY <1>1 DEF PacketInv, HandleKept, BytesTell, PacketTypeOK
<1>5. line \in Lines
  <2>1. \A k \in 1..2 : inode[File][opened.file].bytes[k] \in Lines
    BY <1>1, <1>4, OpenFacts DEF PacketInv
  <2>2. Len(bytes) + 1 \in 1..2
    <3>1. PICK n \in {0, 1} : Len(bytes) = n
      BY <1>4
    <3>2. n + 1 \in 1..2
      OBVIOUS
    <3>3. QED
      BY <3>1, <3>2
  <2>3. QED
    BY <2>1, <2>2
<1>6. HandleKept' /\ PastLinks'
  BY <1>1, <1>2, <1>3 DEF PacketInv, HandleKept, PastLinks, IsOpen
<1>7. inode[File][opened.file].stamp = opened.stamp =>
         \A k \in DOMAIN bytes : bytes[k] = inode[File][opened.file].bytes[k]
  BY <1>1 DEF PacketInv, BytesTell
<1>8. /\ bytes' \in Seq(Lines) /\ Len(bytes') = Len(bytes) + 1 /\ DOMAIN bytes' = 1..(Len(bytes) + 1)
      /\ \A k \in 1..Len(bytes) : bytes'[k] = bytes[k]
      /\ bytes'[Len(bytes) + 1] = line
      /\ DOMAIN bytes = 1..Len(bytes)
  <2> HIDE DEF line
  <2>1. QED
    BY <1>2, <1>4, <1>5, AppendProperties, LenProperties
<1>9. inode[File][opened.file].stamp = opened.stamp =>
         \A k \in DOMAIN bytes' : bytes'[k] = inode[File][opened.file].bytes[k]
  BY <1>4, <1>7, <1>8
<1>10. BytesTell'
  <2>1. packPc' = "read" => Len(bytes') \in {0, 1}
    BY <1>2, <1>4, <1>8
  <2>2. packPc' = "restat" => Len(bytes') = 2
    BY <1>2, <1>4, <1>8
  <2>3. QED
    BY <1>2, <1>3, <1>9, <2>1, <2>2 DEF BytesTell
<1>11. QED
  BY <1>1, <1>2, <1>6, <1>8, <1>10, ReadingOn DEF PacketInv, PacketTypeOK

\* Two lines that agree with those of a file are what the file holds.
LEMMA TwoLines ==
    ASSUME NEW b \in Bytes, NEW s \in Seq(Lines), Len(s) = 2, \A k \in DOMAIN s : s[k] = b[k]
    PROVE  s = b
<1>1. PICK x \in Lines, y \in Lines : b = <<x, y>>
  BY DEF Bytes
<1>2. DOMAIN s = 1..2
  BY LenProperties
<1>3. s[1] = x /\ s[2] = y
  BY <1>1, <1>2
<1>4. <<x, y>> \in Seq(Lines) /\ Len(<<x, y>>) = 2 /\ <<x, y>>[1] = x /\ <<x, y>>[2] = y
  OBVIOUS
<1>5. \A k \in 1..Len(s) : s[k] = <<x, y>>[k]
  BY <1>3, <1>4
<1> HIDE DEF Lines
<1>6. s = <<x, y>>
  BY <1>4, <1>5, SeqEqual
<1>7. QED
  BY <1>1, <1>6

LEMMA RestatKeeps == ASSUME PacketInv, RestatHandle PROVE PacketInv'
<1>1. packPc = "restat" /\ InFlight /\ IsOpen
  BY DEF RestatHandle, InFlight, IsOpen
<1>2. opened.file \in DOMAIN inode[File] /\ File \in Paths /\ opened.stamp <= writes /\ opened.stamp \in Nat
  <2>1. opened.stamp \in Nat
    BY BoundsAssumption DEF PacketInv, PacketTypeOK
  <2>2. File \in Paths
    BY <1>1, ReadingFacts DEF PacketInv
  <2>3. QED
    BY <1>1, <2>1, <2>2 DEF PacketInv, HandleKept
<1>3. inode[File][opened.file].stamp <= writes /\ inode[File][opened.file].stamp \in Nat
  BY <1>1, <1>2, OpenFacts DEF PacketInv, FilesKept
<1>4. CASE inode[File][opened.file].stamp # opened.stamp
  <2>1. writes # 0
    BY <1>2, <1>3, <1>4
  <2>2. FailSource("SOURCE_CHANGED_DURING_READ")
    BY <1>4 DEF RestatHandle
  <2>3. QED
    BY <1>1, <2>1, <2>2, FailKeeps DEF SourceCodes
<1>5. CASE inode[File][opened.file].stamp = opened.stamp
  <2>1. /\ packPc' = "reidentify"
        /\ UNCHANGED <<inode, name, past, writes, manifest, request, opened, bytes, selected, findings, packet>>
        /\ UNCHANGED fileVars
    BY <1>5 DEF RestatHandle, PackGoto, fileVars
  <2>2. File' = File
    BY <2>1 DEF File, Reference, Reading
  <2>3. HandleKept' /\ PastLinks'
    BY <1>1, <2>1, <2>2 DEF PacketInv, HandleKept, PastLinks, IsOpen
  <2>4. bytes = inode[File][opened.file].bytes
    <3>1. inode[File][opened.file].bytes \in Bytes
      BY <1>1, <1>2, OpenFacts DEF PacketInv
    <3>2. /\ Len(bytes) = 2 /\ bytes \in Seq(Lines)
          /\ \A k \in DOMAIN bytes : bytes[k] = inode[File][opened.file].bytes[k]
      BY <1>1, <1>5 DEF PacketInv, BytesTell, PacketTypeOK
    <3>3. QED
      BY <3>1, <3>2, TwoLines
  <2>5. bytes \in past[File]
    BY <1>2, <2>4 DEF PacketInv, FilesKept
  <2>6. BytesTell'
    BY <2>1, <2>2, <2>4, <2>5 DEF BytesTell
  <2>7. QED
    BY <1>1, <2>1, <2>3, <2>6, ReadingOn DEF PacketInv, PacketTypeOK
<1>6. QED
  BY <1>4, <1>5

\* The section selected from what two lines hold.
LEMMA SectionIsLines ==
    ASSUME NEW b \in Seq(Lines), Len(b) = 2, Titles(b) # {}
    PROVE  Section(b) \in Seq(Lines)
<1> DEFINE i == CHOOSE j \in Titles(b) : TRUE
           later == {j \in Visible(b) : j > i}
           n == IF later = {} THEN Len(b) ELSE (CHOOSE j \in later : \A k \in later : j <= k) - 1
<1>1. DOMAIN b = 1..2
  BY LenProperties
<1>2. i \in 1..2
  BY <1>1 DEF Titles, Visible
<1>3. n \in 0..2
  <2>1. later \subseteq {2}
    <3>1. \A j \in later : j \in 1..2 /\ j > i
      BY <1>1 DEF Visible
    <3> HIDE DEF i, later
    <3>2. QED
      BY <1>2, <3>1
  <2>2. CASE later = {}
    BY <2>2
  <2>3. CASE later = {2}
    <3>1. (CHOOSE j \in later : \A k \in later : j <= k) = 2
      BY <2>3
    <3>2. QED
      BY <2>3, <3>1
  <2>4. QED
    BY <2>1, <2>2, <2>3
<1>4. Section(b) = SubSeq(b, i, n)
  BY DEF Section, SectionAt
<1> HIDE DEF i, n
<1>5. \A k \in i..n : b[k] \in Lines
  BY <1>1, <1>2, <1>3, ElementOfSeq
<1>6. QED
  BY <1>2, <1>3, <1>4, <1>5, SubSeqProperties

LEMMA ReidentifyKeeps == ASSUME PacketInv, Reidentify PROVE PacketInv'
<1>1. packPc = "reidentify" /\ InFlight /\ IsOpen
  BY DEF Reidentify, InFlight, IsOpen
<1>2. CASE name[File] = 0
  <2>1. FailSource("ENOENT")
    BY <1>2 DEF Reidentify
  <2>2. CauseToBlock
    BY <1>1, <1>2, WhyItFails
  <2>3. QED
    BY <1>1, <2>1, <2>2, FailKeeps DEF SourceCodes
<1>3. CASE name[File] # 0 /\ (name[File] # opened.file \/ Named.stamp # opened.stamp)
  <2>1. writes # 0
    <3>1. SUFFICES ASSUME writes = 0 PROVE FALSE
      OBVIOUS
    <3>2. opened.file = name[File] /\ opened.file \in DOMAIN inode[File] /\ opened.stamp <= writes
      BY <1>1, <3>1 DEF PacketInv, HandleKept
    <3>3. File \in Paths
      BY <1>1, ReadingFacts DEF PacketInv
    <3>4. Named.stamp <= writes
      BY <3>2, <3>3 DEF PacketInv, FilesKept, Named
    <3>5. opened.stamp \in Nat
      BY BoundsAssumption DEF PacketInv, PacketTypeOK
    <3>6. Named.stamp \in Nat
      BY <1>1, <3>2, OpenFacts, BoundsAssumption DEF PacketInv, Named
    <3>7. QED
      BY <1>3, <3>1, <3>2, <3>4, <3>5, <3>6
  <2>2. FailSource("SOURCE_CHANGED_DURING_READ")
    BY <1>3 DEF Reidentify
  <2>3. QED
    BY <1>1, <2>1, <2>2, FailKeeps DEF SourceCodes
<1>4. bytes \in past[File] /\ File \in Paths /\ bytes \in Seq(Lines) /\ Len(bytes) = 2
  <2>1. bytes \in past[File] /\ bytes \in Seq(Lines)
    BY <1>1 DEF PacketInv, BytesTell, PacketTypeOK
  <2>2. File \in Paths
    BY <1>1, ReadingFacts DEF PacketInv
  <2>3. bytes \in Bytes
    BY <2>1, <2>2 DEF PacketInv, PacketTypeOK
  <2>4. Len(bytes) = 2
    BY <2>3 DEF Bytes
  <2>5. QED
    BY <2>1, <2>2, <2>4
<1>5. CASE /\ name[File] # 0 /\ name[File] = opened.file /\ Named.stamp = opened.stamp
           /\ TextCode(bytes) # "none"
  <2>1. FailSource(TextCode(bytes))
    BY <1>5 DEF Reidentify
  <2>2. TextCode(bytes) \in SourceCodes
    BY <1>5 DEF TextCode, SourceCodes
  <2>3. writes = 0 => CauseToBlock
    <3>1. SUFFICES ASSUME writes = 0 PROVE CauseToBlock
      OBVIOUS
    <3>2. bytes = inode[File][name[File]].bytes
      BY <1>1, <1>5, <3>1 DEF PacketInv, BytesTell
    <3>3. QED
      BY <1>1, <1>5, <3>2, WhyItFails
  <2>4. QED
    BY <1>1, <2>1, <2>2, <2>3, FailKeeps
<1>6. CASE /\ name[File] # 0 /\ name[File] = opened.file /\ Named.stamp = opened.stamp
           /\ TextCode(bytes) = "none"
  <2> DEFINE R == [reference : Candidates, content : Seq(Lines)]
             e == [reference |-> Reference, content |-> Section(bytes)]
             chosen == Append(selected, e)
  <2>1. Conclude(chosen, findings)
    BY <1>6 DEF Reidentify
  <2>2. Titles(bytes) # {}
    BY <1>6 DEF TextCode
  <2>3. e \in R /\ e.reference = Reference /\ e.content = Section(bytes)
    BY <1>1, <1>4, <2>2, SectionIsLines, ReadingFacts DEF PacketInv
  <2>4. selected \in Seq(R) /\ findings \in Seq([code : SourceCodes, reference : Candidates])
    BY DEF PacketInv, PacketTypeOK
  <2> HIDE DEF e, R
  <2>5. /\ chosen \in Seq(R) /\ Len(chosen) = Len(selected) + 1 /\ DOMAIN chosen = 1..(Len(selected) + 1)
        /\ \A i \in 1..Len(selected) : chosen[i] = selected[i]
        /\ chosen[Len(selected) + 1] = e
        /\ DOMAIN selected = 1..Len(selected)
    BY <2>3, <2>4, AppendProperties, LenProperties
  <2> HIDE DEF chosen
  <2>6. Len(selected) \in Nat /\ Len(findings) \in Nat /\ Reading = Len(selected) + Len(findings) + 1
    BY <1>1, ReadingFacts DEF PacketInv, Reading
  <2>7. findings = <<>> => \A i \in DOMAIN chosen : Chosen(chosen, i)
    <3>1. SUFFICES ASSUME findings = <<>>, NEW i \in DOMAIN chosen PROVE Chosen(chosen, i)
      OBVIOUS
    <3>2. CASE i \in DOMAIN selected
      <4>1. Chosen(selected, i)
        BY <1>1, <3>1, <3>2 DEF PacketInv, SelectedTell
      <4>2. chosen[i] = selected[i]
        BY <2>5, <3>2
      <4>3. QED
        BY <4>1, <4>2 DEF Chosen
    <3>3. CASE i = Len(selected) + 1
      <4>1. Len(findings) = 0
        BY <3>1
      <4>2. i = Reading
        BY <2>6, <3>3, <4>1
      <4>3. request[i] = Reference /\ request[i].path = File
        BY <4>2 DEF Reference, File
      <4>4. File \notin Links
        BY <1>1 DEF PacketInv, PastLinks
      <4>5. chosen[i].reference = Reference /\ chosen[i].content = Section(bytes)
        BY <2>3, <2>5, <3>3
      <4>6. QED
        BY <1>4, <1>6, <4>3, <4>4, <4>5 DEF Chosen
    <3>4. QED
      BY <2>5, <2>6, <3>1, <3>2, <3>3
  <2>8. findings # <<>> /\ writes = 0 => CauseToBlock
    BY <1>1 DEF PacketInv, SelectedTell
  <2>9. Len(chosen) + Len(findings) = Reading
    BY <2>5, <2>6
  <2>10. QED
    BY <1>1, <2>1, <2>4, <2>5, <2>7, <2>8, <2>9, ConcludeKeeps DEF R
<1>7. QED
  BY <1>2, <1>3, <1>5, <1>6

\* Whatever others do to the files: every file there has been at a path is kept,
\* and one that has changed has a stamp newer than any the reading has found.
LEMMA WriteLeaves ==
    ASSUME PacketInv, InFlight, writes < MaxWrites, writes' = writes + 1,
           UNCHANGED <<manifest, request, packPc, opened, bytes, selected, findings, packet>>,
           inode' \in [Paths -> Seq([bytes : Bytes, stamp : 0..MaxWrites])],
           name' \in [Paths -> Nat], \A q \in Paths : name'[q] <= Len(inode'[q]),
           past' \in [Paths -> SUBSET Bytes],
           \A q \in Paths : past[q] \subseteq past'[q] /\ DOMAIN inode[q] \subseteq DOMAIN inode'[q],
           \A q \in Paths : \A i \in DOMAIN inode[q] :
               inode'[q][i] = inode[q][i] \/ inode'[q][i].stamp = writes + 1,
           FilesKept'
    PROVE  PacketInv'
<1>1. writes \in Nat /\ writes' \in 0..MaxWrites /\ writes' # 0 /\ opened.stamp \in Nat
  BY BoundsAssumption DEF PacketInv, PacketTypeOK
<1>2. PacketTypeOK'
  BY <1>1 DEF PacketInv, PacketTypeOK
<1>3. Reading' = Reading /\ File' = File /\ File \in Paths
  BY ReadingFacts DEF PacketInv, Reading, File, Reference
<1>4. Underway'
  BY <1>3, SameScope DEF PacketInv, Underway, InFlight
<1>5. ASSUME IsOpen
      PROVE  /\ opened.file \in DOMAIN inode[File] /\ opened.file \in DOMAIN inode'[File]
             /\ opened.stamp <= writes
  BY <1>3, <1>5 DEF PacketInv, HandleKept
<1>6. HandleKept'
  <2>1. SUFFICES ASSUME IsOpen PROVE HandleKept'
    BY DEF HandleKept, IsOpen
  <2>2. opened.file \in DOMAIN inode'[File] /\ opened.stamp <= writes'
    BY <1>1, <1>5, <2>1
  <2>3. QED
    BY <1>1, <1>3, <2>2 DEF HandleKept
<1>7. PastLinks'
  BY <1>3 DEF PacketInv, PastLinks, IsOpen
<1>8. BytesTell'
  <2>1. ASSUME packPc \in {"read", "restat"}, inode'[File][opened.file].stamp = opened.stamp,
               NEW k \in DOMAIN bytes
        PROVE  bytes[k] = inode'[File][opened.file].bytes[k]
    <3>1. IsOpen
      BY <2>1 DEF IsOpen
    <3>2. inode'[File][opened.file] = inode[File][opened.file]
      <4>1. opened.file \in DOMAIN inode[File] /\ opened.stamp <= writes
        BY <1>5, <3>1
      <4>2. \/ inode'[File][opened.file] = inode[File][opened.file]
            \/ inode'[File][opened.file].stamp = writes + 1
        BY <1>3, <4>1
      <4>3. opened.stamp # writes + 1
        BY <1>1, <4>1
      <4>4. QED
        BY <2>1, <4>2, <4>3
    <3>3. QED
      BY <2>1, <3>2 DEF PacketInv, BytesTell
  <2>2. packPc = "reidentify" => bytes \in past'[File]
    BY <1>3 DEF PacketInv, BytesTell
  <2>3. /\ packPc \in {"walk", "open", "stat", "identify"} => bytes = <<>>
        /\ packPc = "read" => Len(bytes) \in {0, 1}
        /\ packPc = "restat" => Len(bytes) = 2
    BY DEF PacketInv, BytesTell
  <2>4. QED
    BY <1>1, <1>3, <2>1, <2>2, <2>3 DEF BytesTell
<1>9. SelectedTell'
  <2>1. ASSUME findings = <<>>, NEW i \in DOMAIN selected PROVE Chosen(selected, i)'
    <3>1. Chosen(selected, i)
      BY <2>1 DEF PacketInv, SelectedTell
    <3>2. request[i].path \in Paths
      <4>1. DOMAIN selected = 1..Len(selected) /\ request \in Seq(Candidates) /\ Len(request) \in Nat
        BY RequestFacts, LenProperties DEF PacketInv, PacketTypeOK
      <4>2. Reading \in 1..Len(request) /\ Len(selected) \in Nat /\ Len(findings) \in Nat
        BY ReadingFacts DEF PacketInv
      <4>3. i \in 1..Len(request)
        BY <2>1, <4>1, <4>2 DEF Reading
      <4>4. QED
        BY <4>1, <4>3, ElementOfSeq DEF Paths
    <3>3. QED
      BY <3>1, <3>2 DEF Chosen
  <2>2. QED
    BY <1>1, <2>1 DEF SelectedTell
<1>10. PacketSound'
  BY DEF PacketInv, Underway, InFlight, PacketSound, NoPacket
<1>11. QED
  BY <1>2, <1>4, <1>6, <1>7, <1>8, <1>9, <1>10 DEF PacketInv

LEMMA WriteKeeps == ASSUME PacketInv, NEW p \in Paths, Write(p) PROVE PacketInv'
<1> DEFINE S == [bytes : Bytes, stamp : 0..MaxWrites]
           n == Len(inode[p])
<1>1. /\ InFlight /\ writes < MaxWrites /\ writes' = writes + 1
      /\ UNCHANGED <<manifest, request, packPc, opened, bytes, selected, findings, packet>>
  BY DEF Write, InFlight
<1>2. /\ inode \in [Paths -> Seq(S)] /\ name \in [Paths -> Nat] /\ past \in [Paths -> SUBSET Bytes]
      /\ \A q \in Paths : name[q] <= Len(inode[q])
      /\ writes \in Nat /\ writes + 1 \in 0..MaxWrites
  <2>1. /\ inode \in [Paths -> Seq(S)] /\ name \in [Paths -> Nat] /\ past \in [Paths -> SUBSET Bytes]
        /\ \A q \in Paths : name[q] <= Len(inode[q])
    BY DEF PacketInv, PacketTypeOK
  <2>2. writes \in 0..MaxWrites /\ MaxWrites \in Nat
    BY BoundsAssumption DEF PacketInv, PacketTypeOK
  <2> HIDE DEF S
  <2>3. QED
    BY <1>1, <2>1, <2>2
<1>3. /\ \A q \in Paths : DOMAIN inode[q] = 1..Len(inode[q]) /\ Len(inode[q]) \in Nat
      /\ \A q \in Paths : \A i \in DOMAIN inode[q] :
            /\ inode[q][i] \in S /\ inode[q][i].bytes \in past[q]
            /\ inode[q][i].stamp <= writes /\ inode[q][i].stamp \in Nat
  <2> HIDE DEF S
  <2>1. \A q \in Paths : DOMAIN inode[q] = 1..Len(inode[q]) /\ Len(inode[q]) \in Nat
    BY <1>2, LenProperties
  <2>2. \A q \in Paths : \A i \in DOMAIN inode[q] : inode[q][i] \in S
    BY <1>2, <2>1, ElementOfSeq
  <2>3. \A f \in S : f.stamp \in Nat
    BY BoundsAssumption DEF S
  <2>4. QED
    BY <2>1, <2>2, <2>3 DEF PacketInv, FilesKept
<1>4. ASSUME name[p] # 0, NEW i \in 1..2, NEW l \in Edits, NEW new,
             new = [inode[p][name[p]].bytes EXCEPT ![i] = l],
             inode' = [inode EXCEPT ![p][name[p]] = [bytes |-> new, stamp |-> writes']],
             past' = [past EXCEPT ![p] = @ \cup {new}], UNCHANGED name
      PROVE  PacketInv'
  <2> DEFINE f == [bytes |-> new, stamp |-> writes + 1]
             k == name[p]
  <2>1. k \in 1..n /\ k \in DOMAIN inode[p]
    BY <1>2, <1>3, <1>4
  <2>2. new \in Bytes
    <3>1. PICK x \in Lines, y \in Lines : inode[p][k].bytes = <<x, y>>
      BY <1>3, <2>1 DEF Bytes
    <3>2. l \in Lines
      BY FilesAssumption
    <3>3. new = <<l, y>> \/ new = <<x, l>>
      BY <1>4, <3>1
    <3>4. QED
      BY <3>1, <3>2, <3>3 DEF Bytes
  <2>3. f \in S /\ f.bytes = new /\ f.stamp = writes + 1
    BY <1>2, <2>2
  <2>4. inode' = [inode EXCEPT ![p] = [inode[p] EXCEPT ![k] = f]]
    BY <1>1, <1>2, <1>4
  <2> HIDE DEF f, S, k
  <2>5. /\ [inode[p] EXCEPT ![k] = f] \in Seq(S) /\ Len([inode[p] EXCEPT ![k] = f]) = n
        /\ \A j \in 1..n : [inode[p] EXCEPT ![k] = f][j] = IF j = k THEN f ELSE inode[p][j]
    BY <1>2, <2>1, <2>3, ExceptSeq
  <2>6. /\ inode'[p] \in Seq(S) /\ Len(inode'[p]) = n /\ DOMAIN inode'[p] = DOMAIN inode[p]
        /\ \A j \in DOMAIN inode[p] : inode'[p][j] = IF j = k THEN f ELSE inode[p][j]
        /\ \A q \in Paths : q # p => inode'[q] = inode[q]
        /\ inode' \in [Paths -> Seq(S)]
    BY <1>2, <1>3, <2>4, <2>5, LenProperties
  <2>7. /\ past' \in [Paths -> SUBSET Bytes] /\ past'[p] = past[p] \cup {new}
        /\ \A q \in Paths : past[q] \subseteq past'[q]
    BY <1>2, <1>4, <2>2
  <2>8. FilesKept'
    <3>1. SUFFICES ASSUME NEW q \in Paths, NEW j \in DOMAIN inode'[q]
                   PROVE  inode'[q][j].bytes \in past'[q] /\ inode'[q][j].stamp <= writes + 1
      BY <1>1 DEF FilesKept
    <3>2. CASE q = p /\ j = k
      BY <1>2, <2>1, <2>3, <2>6, <2>7, <3>2
    <3>3. CASE ~(q = p /\ j = k)
      <4>1. j \in DOMAIN inode[q] /\ inode'[q][j] = inode[q][j]
        BY <2>6, <3>1, <3>3
      <4>2. QED
        BY <1>2, <1>3, <2>7, <4>1
    <3>4. QED
      BY <3>2, <3>3
  <2>9. /\ \A q \in Paths : DOMAIN inode[q] \subseteq DOMAIN inode'[q] /\ name'[q] <= Len(inode'[q])
        /\ \A q \in Paths : \A j \in DOMAIN inode[q] :
              inode'[q][j] = inode[q][j] \/ inode'[q][j].stamp = writes + 1
    BY <1>2, <1>4, <2>3, <2>6
  <2>10. QED
    BY <1>1, <1>2, <1>4, <2>6, <2>7, <2>8, <2>9, WriteLeaves DEF S
<1>5. ASSUME NEW b \in Contents,
             inode' = [inode EXCEPT ![p] = Append(@, [bytes |-> b, stamp |-> writes'])],
             past' = [past EXCEPT ![p] = @ \cup {b}],
             name' = [name EXCEPT ![p] = Len(inode[p]) + 1]
      PROVE  PacketInv'
  <2> DEFINE f == [bytes |-> b, stamp |-> writes + 1]
  <2>1. b \in Bytes
    BY FilesAssumption
  <2>2. f \in S /\ f.bytes = b /\ f.stamp = writes + 1
    BY <1>2, <2>1
  <2>3. inode' = [inode EXCEPT ![p] = Append(inode[p], f)]
    BY <1>1, <1>2, <1>5
  <2> HIDE DEF f, S
  <2>4. /\ Append(inode[p], f) \in Seq(S) /\ Len(Append(inode[p], f)) = n + 1
        /\ \A j \in 1..n : Append(inode[p], f)[j] = inode[p][j]
        /\ Append(inode[p], f)[n + 1] = f
    BY <1>2, <2>2, AppendProperties
  <2>5. /\ inode'[p] \in Seq(S) /\ Len(inode'[p]) = n + 1 /\ DOMAIN inode'[p] = 1..(n + 1)
        /\ \A j \in 1..n : inode'[p][j] = inode[p][j]
        /\ inode'[p][n + 1] = f
        /\ \A q \in Paths : q # p => inode'[q] = inode[q]
        /\ inode' \in [Paths -> Seq(S)]
    BY <1>2, <1>3, <2>3, <2>4, LenProperties
  <2>6. /\ past' \in [Paths -> SUBSET Bytes] /\ past'[p] = past[p] \cup {b}
        /\ \A q \in Paths : past[q] \subseteq past'[q]
    BY <1>2, <1>5, <2>1
  <2>7. /\ name' \in [Paths -> Nat] /\ name'[p] = n + 1 /\ \A q \in Paths : q # p => name'[q] = name[q]
    BY <1>2, <1>3, <1>5
  <2>8. n \in Nat /\ DOMAIN inode[p] = 1..n
    BY <1>3
  <2> HIDE DEF n
  <2>9. FilesKept'
    <3>1. SUFFICES ASSUME NEW q \in Paths, NEW j \in DOMAIN inode'[q]
                   PROVE  inode'[q][j].bytes \in past'[q] /\ inode'[q][j].stamp <= writes + 1
      BY <1>1 DEF FilesKept
    <3>2. CASE q = p /\ j = n + 1
      BY <1>2, <2>2, <2>5, <2>6, <3>2
    <3>3. CASE ~(q = p /\ j = n + 1)
      <4>1. j \in DOMAIN inode[q] /\ inode'[q][j] = inode[q][j]
        BY <2>5, <2>8, <3>1, <3>3
      <4>2. QED
        BY <1>2, <1>3, <2>6, <4>1
    <3>4. QED
      BY <3>2, <3>3
  <2>10. /\ \A q \in Paths : DOMAIN inode[q] \subseteq DOMAIN inode'[q] /\ name'[q] <= Len(inode'[q])
         /\ \A q \in Paths : \A j \in DOMAIN inode[q] : inode'[q][j] = inode[q][j]
    <3>1. SUFFICES ASSUME NEW q \in Paths
                   PROVE  /\ DOMAIN inode[q] \subseteq DOMAIN inode'[q] /\ name'[q] <= Len(inode'[q])
                          /\ \A j \in DOMAIN inode[q] : inode'[q][j] = inode[q][j]
      OBVIOUS
    <3>2. CASE q = p
      BY <2>5, <2>7, <2>8, <3>2
    <3>3. CASE q # p
      <4>1. inode'[q] = inode[q] /\ name'[q] = name[q] /\ name[q] <= Len(inode[q])
        BY <1>2, <2>5, <2>7, <3>3
      <4>2. QED
        BY <4>1
    <3>4. QED
      BY <3>2, <3>3
  <2>11. QED
    BY <1>1, <1>2, <2>5, <2>6, <2>7, <2>9, <2>10, WriteLeaves DEF S
<1>6. ASSUME name' = [name EXCEPT ![p] = 0], UNCHANGED <<inode, past>>
      PROVE  PacketInv'
  <2>1. /\ name' \in [Paths -> Nat] /\ \A q \in Paths : name'[q] <= Len(inode[q])
    BY <1>2, <1>3, <1>6
  <2>2. FilesKept'
    <3>1. \A q \in Paths : \A j \in DOMAIN inode[q] :
              inode[q][j].bytes \in past[q] /\ inode[q][j].stamp <= writes + 1
      BY <1>2, <1>3
    <3>2. QED
      BY <1>1, <1>6, <3>1 DEF FilesKept
  <2>3. QED
    BY <1>1, <1>2, <1>6, <2>1, <2>2, WriteLeaves
<1>7. QED
  BY <1>4, <1>5, <1>6 DEF Write

LEMMA PacketNextInv == PacketInv /\ [PacketNext]_packetVars => PacketInv'
<1> SUFFICES ASSUME PacketInv, [PacketNext]_packetVars PROVE PacketInv'
  OBVIOUS
<1>1. CASE UNCHANGED packetVars
  <2>1. UNCHANGED <<inode, name, past, writes, manifest, request, packPc, opened, bytes, selected, findings, packet>>
    BY <1>1 DEF packetVars, fileVars
  <2>2. Reading' = Reading /\ File' = File /\ CauseToBlock' = CauseToBlock
    BY <2>1, SameScope DEF Reading, File, Reference, CauseToBlock
  <2>3. PacketTypeOK' /\ FilesKept' /\ Underway' /\ HandleKept' /\ PastLinks' /\ BytesTell' /\ SelectedTell'
    <3>1. PacketTypeOK'
      BY <2>1 DEF PacketInv, PacketTypeOK
    <3>2. FilesKept' /\ HandleKept' /\ PastLinks'
      BY <2>1, <2>2 DEF PacketInv, FilesKept, HandleKept, PastLinks, IsOpen
    <3>3. Underway'
      BY <2>1, <2>2, SameScope DEF PacketInv, Underway, InFlight
    <3>4. BytesTell'
      BY <2>1, <2>2 DEF PacketInv, BytesTell
    <3>5. SelectedTell'
      BY <2>1, <2>2 DEF PacketInv, SelectedTell, Chosen, InFlight
    <3>6. QED
      BY <3>1, <3>2, <3>3, <3>4, <3>5
  <2>4. PacketSound'
    BY <2>1, <2>2, SameScope DEF PacketInv, PacketSound
  <2>5. QED
    BY <2>3, <2>4 DEF PacketInv
<1>2. QED
  BY <1>1, MaterializeKeeps, WalkKeeps, OpenKeeps, StatKeeps, IdentifyKeeps, ReadKeeps, RestatKeeps,
     ReidentifyKeeps, WriteKeeps DEF PacketNext

LEMMA PacketInvariant == PacketSpec => []PacketInv
BY PacketInitInv, PacketNextInv, PTL DEF PacketSpec

(* Files, requests and what is read of them keep their types.               *)
THEOREM PacketTypes == PacketSpec => []PacketTypeOK
<1>1. PacketInv => PacketTypeOK
  BY DEF PacketInv
<1>2. QED
  BY <1>1, PacketInvariant, PTL

(* materializeProjectContext: whatever others write while the sources are   *)
(* read, a packet that is ready holds all of what was asked for, each       *)
(* section as its file had it, and one that is blocked holds nothing.       *)
THEOREM PacketsAreSound == PacketSpec => []PacketSound
<1>1. PacketInv => PacketSound
  BY DEF PacketInv
<1>2. QED
  BY <1>1, PacketInvariant, PTL

----------------------------------------------------------------------------
\* Each part goes on as it does alone, and the others stand still.
LEMMA PartsAreAlone == RecordsSpec => MemSpec /\ BeatSpec /\ PacketSpec /\ HandoffSpec
<1>1. RecordsInit => MemInit /\ BeatInit /\ PacketInit /\ HandoffInit
  BY DEF RecordsInit
<1>2. [RecordsNext]_recordsVars =>
          [MemNext]_memVars /\ [BeatNext]_beatVars /\ [PacketNext]_packetVars /\ [HandoffNext]_handoffVars
  BY DEF RecordsNext, recordsVars
<1>3. QED
  BY <1>1, <1>2, PTL DEF RecordsSpec, MemSpec, BeatSpec, PacketSpec, HandoffSpec

(* The variables of the four parts keep their types.                        *)
THEOREM RecordsTyped == RecordsSpec => []RecordsTypeOK
<1>1. MemTypeOK /\ BeatTypeOK /\ PacketTypeOK /\ HandoffTypeOK => RecordsTypeOK
  BY DEF RecordsTypeOK
<1>2. QED
  BY <1>1, PartsAreAlone, RecordTypes, ReceiptTypes, PacketTypes, HandoffTypes, PTL

(* What the run of MCRecords checks of the four kinds of records, together. *)
THEOREM RecordsAreSound ==
    RecordsSpec => /\ [](LedgerFollowsRecords /\ SummaryIsNewest /\ PacketSound /\ HandoffSound)
                   /\ NoStaleOverwrite
BY PartsAreAlone, LedgerTellsRevisions, StaleAgentsDoNotOverwrite, SummaryTellsTheNewest, PacketsAreSound,
   CheckpointsAreSound, PTL
==============================================================================

------------------------------ MODULE SharedMemory ------------------------------
(***************************************************************************)
(* SharedMemory (shared-memory.mjs): named records in files of their own,  *)
(* which agents read and replace without a lock, and the memory.updated    *)
(* events that link them into the event ledger.  One action per await.     *)
(*                                                                         *)
(* A record is its revision and the put that wrote it; contract, value and *)
(* digest go with that identity.  A process has a temporary file of its    *)
(* own for a key and makes one put of a key at a time, so that a record    *)
(* appears whole, in the rename.  The ledger is the log of AtomicLog: an   *)
(* append lands or not, and one that rejects may have landed all the same. *)
(***************************************************************************)
EXTENDS Naturals, Sequences

CONSTANTS Agents,      \* the processes that use the records
          Keys,        \* the names of the records
          TurnTaking,  \* the keys whose agents start no put while another's is under way
          MaxPuts      \* bound: puts an agent begins

ASSUME KeysAssumption == TurnTaking \subseteq Keys /\ Keys # {}
ASSUME PutsAssumption == MaxPuts \in Nat

VARIABLES
    record,  \* the record in each key's file
    ledger,  \* the memory.updated events, in order
    putPc,   \* the await at which each agent stands
    put,     \* the put it is making
    puts,    \* how many it has begun
    acked    \* the records whose put has returned

memVars == <<record, ledger, putPc, put, puts, acked>>

Authors  == Agents \X (1..MaxPuts)
Records  == [revision : Nat \ {0}, by : Authors]
NoRecord == [revision |-> 0, by |-> <<>>]  \* get returns null
Written  == [key : Keys, record : Records]

NoPut == [key |-> CHOOSE k \in Keys : TRUE, seen |-> NoRecord]

MemInit ==
    /\ record = [k \in Keys |-> NoRecord]
    /\ ledger = <<>>
    /\ putPc = [a \in Agents |-> "idle"]
    /\ put = [a \in Agents |-> NoPut]
    /\ puts = [a \in Agents |-> 0]
    /\ acked = {}

EndPut(a) == putPc' = [putPc EXCEPT ![a] = "idle"] /\ put' = [put EXCEPT ![a] = NoPut]
PutGoto(a, p) == putPc' = [putPc EXCEPT ![a] = p]

\* The record put a writes, once its revision has been found to be the file's,
\* and the event that announces it.
NewRecord(a) == [revision |-> put[a].seen.revision + 1, by |-> <<a, puts[a]>>]
Update(a)    == [key |-> put[a].key, record |-> NewRecord(a)]

\* get(key): what the agent's next put will be based on.
Get(a, k) ==
    /\ putPc[a] = "idle"
    /\ puts[a] < MaxPuts
    /\ put' = [put EXCEPT ![a] = [key |-> k, seen |-> record[k]]]
    /\ PutGoto(a, "read")
    /\ UNCHANGED <<record, ledger, puts, acked>>

\* put(...) with the revision that was read as expectedRevision.
Put(a) ==
    /\ putPc[a] = "read"
    /\ put[a].key \in TurnTaking =>
           \A b \in Agents : putPc[b] \in {"check", "replace", "link"} => put[b].key # put[a].key
    /\ puts' = [puts EXCEPT ![a] = @ + 1]
    /\ PutGoto(a, "check")
    /\ UNCHANGED <<record, ledger, put, acked>>

\* Mutant of CheckRevision: the expected revision is not looked at.
CheckRevision_Blind(a) ==
    /\ putPc[a] = "check"
    /\ PutGoto(a, "replace")
    /\ put' = [put EXCEPT ![a].seen.revision = record[put[a].key].revision]
    /\ UNCHANGED <<record, ledger, puts, acked>>

\* put reads the file (REVISION_CONFLICT otherwise).
CheckRevision(a) ==
    /\ putPc[a] = "check"
    /\ IF record[put[a].key].revision = put[a].seen.revision
       THEN PutGoto(a, "replace") /\ UNCHANGED put
       ELSE EndPut(a)
    /\ UNCHANGED <<record, ledger, puts, acked>>

\* Mutant of ReplaceRecord: the update is announced before it is made.
ReplaceRecord_LinkedFirst(a) ==
    /\ putPc[a] = "replace"
    /\ ledger' = Append(ledger, Update(a))
    /\ \/ record' = [record EXCEPT ![put[a].key] = NewRecord(a)]
       \/ UNCHANGED record
    /\ EndPut(a)
    /\ UNCHANGED <<puts, acked>>

\* The temporary file takes the place of the record.
ReplaceRecord(a) ==
    /\ putPc[a] = "replace"
    /\ record' = [record EXCEPT ![put[a].key] = NewRecord(a)]
    /\ PutGoto(a, "link")
    /\ UNCHANGED <<ledger, put, puts, acked>>

\* The event is appended and put returns, or append rejects and so does put.
LinkRecord(a) ==
    /\ putPc[a] = "link"
    /\ \/ ledger' = Append(ledger, Update(a)) /\ acked' = acked \cup {Update(a)}
       \/ ledger' \in {ledger, Append(ledger, Update(a))} /\ UNCHANGED acked
    /\ EndPut(a)
    /\ UNCHANGED <<record, puts>>

\* The contract refuses the value, a file operation rejects, or the process
\* dies and is started again.
AbandonPut(a) ==
    /\ putPc[a] \in {"check", "replace", "link"}
    /\ EndPut(a)
    /\ UNCHANGED <<record, ledger, puts, acked>>

MemNext == \E a \in Agents :
    \/ \E k \in Keys : Get(a, k)
    \/ Put(a) \/ CheckRevision(a) \/ ReplaceRecord(a) \/ LinkRecord(a) \/ AbandonPut(a)

MemSpec == MemInit /\ [][MemNext]_memVars

----------------------------------------------------------------------------
MemTypeOK ==
    /\ record \in [Keys -> Records \cup {NoRecord}]
    /\ ledger \in Seq(Written)
    /\ putPc \in [Agents -> {"idle", "read", "check", "replace", "link"}]
    /\ put \in [Agents -> [key : Keys, seen : Records \cup {NoRecord}]]
    /\ puts \in [Agents -> 0..MaxPuts]
    /\ acked \subseteq Written

\* README.md: a stale agent cannot silently overwrite a newer fact.  Where the
\* puts of a key take turns, a record is replaced by an agent that has read
\* that very record, however long ago and whoever put in the meantime.
NoStaleOverwrite ==
    [][\A k \in TurnTaking : record'[k] # record[k] =>
          \E a \in Agents : putPc[a] = "replace" /\ put[a].key = k /\ put[a].seen = record[k]]_record

\* README.md: records are revisioned and linked into the event ledger.  What
\* has been acknowledged is there, and where puts take turns the ledger tells a
\* key's revisions in order and never one that its file has not had.
LedgerFollowsRecords ==
    /\ acked \subseteq {ledger[i] : i \in DOMAIN ledger}
    /\ \A i, j \in DOMAIN ledger :
          ledger[i].key = ledger[j].key /\ ledger[i].key \in TurnTaking =>
              /\ i < j => ledger[i].record.revision < ledger[j].record.revision
              /\ ledger[i].record.revision <= record[ledger[i].key].revision
==============================================================================

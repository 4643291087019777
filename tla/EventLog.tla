------------------------------- MODULE EventLog -------------------------------
(***************************************************************************)
(* FileMemoryStore's hash-chained event log (memory-store.mjs): the        *)
(* processes that append to one events.jsonl under events.lock, what a     *)
(* failed or interrupted file operation leaves behind, and the operator    *)
(* who clears an orphaned lock after lockStatus calls it safe to remove.   *)
(*                                                                         *)
(* One action per await of append().  An event's payload is the identity   *)
(* of the call that appends it: <<p, i>> is the i-th call of process p.    *)
(* A SHA-256 digest is modelled by what it commits to, the payloads from   *)
(* the first envelope to the one hashed; two chains with the same last     *)
(* digest are then the same chain.  A process that dies is not restarted   *)
(* under its old pid: its successor is another member of Procs.            *)
(***************************************************************************)
EXTENDS Naturals, Sequences

CONSTANTS Procs,     \* the local processes that share one memory root
          MaxCalls,  \* bound: append calls a process makes
          Nobody     \* no process: the lock file is absent

ASSUME CallsAssumption == MaxCalls \in Nat
ASSUME NobodyAssumption == Nobody \notin Procs

VARIABLES
    log,        \* the envelopes whose bytes are all in events.jsonl
    tail,       \* how the file ends: see Tails
    lock,       \* events.lock: the process that created it, or Nobody
    stamped,    \* the lock file holds its creator's pid and time
    phase,      \* where in append() each process stands
    turn,       \* how many of its calls each process has settled
    view,       \* sequence number and previous digest of the next envelope
    verdict,    \* how the try block of the running call ended
    outcome,    \* what each call's promise has come to
    inspected   \* the dead owner lockStatus last reported, or Nobody

vars == <<log, tail, lock, stamped, phase, turn, view, verdict, outcome, inspected>>

Calls    == Procs \X (1..MaxCalls)
Outcomes == {"none", "pending", "ok", "refused", "unknown"}
Phases   == {"idle", "open", "stamp", "read", "write", "release", "crashed"}
\* A newline; a whole envelope without its newline; a line JSON.parse rejects.
Tails    == {"newline", "unterminated", "garbage"}
Digests  == Seq(Calls)
Places    == [sequence : Nat, previousHash : Digests]
Envelopes == [sequence : Nat, previousHash : Digests, payload : Calls]

----------------------------------------------------------------------------
NoHash == <<>>
Hash(e) == Append(e.previousHash, e.payload)
HashBefore(k) == IF k = 1 THEN NoHash ELSE Hash(log[k - 1])

\* The call process p is running, or would run next.
Current(p) == <<p, turn[p] + 1>>

\* envelopes(): every line parses, is numbered by its position, and carries
\* the digest of the line before it.
ChainValid ==
    \A k \in 1..Len(log) : /\ log[k].sequence = k - 1
                           /\ log[k].previousHash = HashBefore(k)
Readable == tail # "garbage" /\ ChainValid

Init ==
    /\ log = <<>>
    /\ tail = "newline"
    /\ lock = Nobody
    /\ stamped = FALSE
    /\ phase = [p \in Procs |-> "idle"]
    /\ turn = [p \in Procs |-> 0]
    /\ view = [p \in Procs |-> [sequence |-> 0, previousHash |-> NoHash]]
    /\ verdict = [p \in Procs |-> "pending"]
    /\ outcome = [c \in Calls |-> "none"]
    /\ inspected = Nobody

----------------------------------------------------------------------------
\* append(event): the caller's event joins the process's chain of promises.
\* Earlier calls are made first.
Invoke(p, i) ==
    /\ phase[p] # "crashed"
    /\ outcome[<<p, i>>] = "none"
    /\ \A j \in 1..(i - 1) : outcome[<<p, j>>] # "none"
    /\ outcome' = [outcome EXCEPT ![<<p, i>>] = "pending"]
    /\ UNCHANGED <<log, tail, lock, stamped, phase, turn, view, verdict, inspected>>

\* serializeLocalAppend: the next operation starts when the one before it has
\* settled, whatever became of it.
Dequeue(p) ==
    /\ phase[p] = "idle"
    /\ turn[p] < MaxCalls
    /\ outcome[Current(p)] = "pending"
    /\ phase' = [phase EXCEPT ![p] = "open"]
    /\ UNCHANGED <<log, tail, lock, stamped, turn, view, verdict, outcome, inspected>>

\* The running call's promise settles as o and the next one may start.
Settle(p, o) ==
    /\ outcome' = [outcome EXCEPT ![Current(p)] = o]
    /\ turn' = [turn EXCEPT ![p] = @ + 1]
    /\ phase' = [phase EXCEPT ![p] = "idle"]

\* Mutant of OpenLock: the flag is "w", which does not fail on a lock that exists.
OpenLock_NotExclusive(p) ==
    /\ phase[p] = "open"
    /\ lock' = p
    /\ stamped' = FALSE
    /\ phase' = [phase EXCEPT ![p] = "stamp"]
    /\ UNCHANGED <<log, tail, turn, view, verdict, outcome, inspected>>

\* open(lockPath, "wx") succeeds: the file exists, and is still empty.
OpenLock(p) ==
    /\ phase[p] = "open"
    /\ lock = Nobody
    /\ lock' = p
    /\ stamped' = FALSE
    /\ phase' = [phase EXCEPT ![p] = "stamp"]
    /\ UNCHANGED <<log, tail, turn, view, verdict, outcome, inspected>>

\* Mutant of GiveUp: the retry loop has no timeout.
GiveUp_Never(p) ==
    /\ phase[p] = "open"
    /\ lock # Nobody
    /\ UNCHANGED vars

\* EEXIST until lockTimeoutMs has passed: EVENT_LOG_LOCKED.  (Before that the
\* process pauses and tries again, which changes nothing.)  Or mkdir or open
\* fails otherwise, whoever has the lock.
GiveUp(p) ==
    /\ phase[p] = "open"
    /\ Settle(p, "refused")
    /\ UNCHANGED <<log, tail, lock, stamped, view, verdict, inspected>>

\* lock.writeFile({ pid, acquiredAt }).  When it fails, the error leaves the
\* loop before the try block that would release the lock: the file stays.
StampLock(p) ==
    /\ phase[p] = "stamp"
    /\ \/ /\ stamped' = TRUE
          /\ phase' = [phase EXCEPT ![p] = "read"]
          /\ UNCHANGED <<turn, outcome>>
       \/ /\ Settle(p, "refused")
          /\ UNCHANGED stamped
    /\ UNCHANGED <<log, tail, lock, view, verdict, inspected>>

\* envelopes(): the whole log is read and validated.  It fails if the log is
\* not valid, and may fail if it is.
ReadLog(p) ==
    /\ phase[p] = "read"
    /\ \/ /\ Readable
          /\ view' = [view EXCEPT ![p] = [sequence     |-> Len(log),
                                          previousHash |-> HashBefore(Len(log) + 1)]]
          /\ phase' = [phase EXCEPT ![p] = "write"]
          /\ UNCHANGED verdict
       \/ /\ verdict' = [verdict EXCEPT ![p] = "refused"]
          /\ phase' = [phase EXCEPT ![p] = "release"]
          /\ UNCHANGED view
    /\ UNCHANGED <<log, tail, lock, stamped, turn, outcome, inspected>>

\* Mutant of NextEnvelope: numbered after the last envelope, and not past it.
NextEnvelope_OffByOne(p) == [sequence     |-> view[p].sequence - 1,
                             previousHash |-> view[p].previousHash,
                             payload      |-> Current(p)]

NextEnvelope(p) == [sequence     |-> view[p].sequence,
                    previousHash |-> view[p].previousHash,
                    payload      |-> Current(p)]

\* How the file ends once more bytes follow what it ended with.
TailAfter(t) == IF tail = "newline" THEN t ELSE "garbage"

\* appendFile writes the envelope and its newline.
WriteEnvelope(p) ==
    /\ phase[p] = "write"
    /\ log' = Append(log, NextEnvelope(p))
    /\ tail' = TailAfter("newline")
    /\ verdict' = [verdict EXCEPT ![p] = "ok"]
    /\ phase' = [phase EXCEPT ![p] = "release"]
    /\ UNCHANGED <<lock, stamped, turn, view, outcome, inspected>>

\* Mutants of ShortWrite: the error is swallowed, is reported as a refusal, or
\* is answered by writing the envelope again.
ShortWrite_Swallowed(p) ==
    /\ phase[p] = "write"
    /\ \/ UNCHANGED <<log, tail>>
       \/ /\ tail' = TailAfter("garbage")
          /\ UNCHANGED log
       \/ /\ log' = Append(log, NextEnvelope(p))
          /\ tail' = TailAfter("unterminated")
    /\ verdict' = [verdict EXCEPT ![p] = "ok"]
    /\ phase' = [phase EXCEPT ![p] = "release"]
    /\ UNCHANGED <<lock, stamped, turn, view, outcome, inspected>>
ShortWrite_Refused(p) ==
    /\ phase[p] = "write"
    /\ \/ UNCHANGED <<log, tail>>
       \/ /\ tail' = TailAfter("garbage")
          /\ UNCHANGED log
       \/ /\ log' = Append(log, NextEnvelope(p))
          /\ tail' = TailAfter("unterminated")
    /\ verdict' = [verdict EXCEPT ![p] = "refused"]
    /\ phase' = [phase EXCEPT ![p] = "release"]
    /\ UNCHANGED <<lock, stamped, turn, view, outcome, inspected>>
ShortWrite_Retried(p) ==
    /\ phase[p] = "write"
    /\ \/ UNCHANGED <<log, tail>>
       \/ /\ tail' = TailAfter("garbage")
          /\ UNCHANGED log
       \/ /\ log' = Append(log, NextEnvelope(p))
          /\ tail' = TailAfter("unterminated")
    /\ UNCHANGED <<lock, stamped, phase, turn, view, verdict, outcome, inspected>>

\* appendFile rejects (a full disk, an I/O error) or the machine loses the end
\* of the write: nothing, a fragment, or all but the newline is in the file.
ShortWrite(p) ==
    /\ phase[p] = "write"
    /\ \/ UNCHANGED <<log, tail>>
       \/ /\ tail' = TailAfter("garbage")
          /\ UNCHANGED log
       \/ /\ log' = Append(log, NextEnvelope(p))
          /\ tail' = TailAfter("unterminated")
    /\ verdict' = [verdict EXCEPT ![p] = "unknown"]
    /\ phase' = [phase EXCEPT ![p] = "release"]
    /\ UNCHANGED <<lock, stamped, turn, view, outcome, inspected>>

\* Mutant of ReleaseLock: the finally block answers for the try block.
ReleaseLock_Acknowledges(p) ==
    /\ phase[p] = "release"
    /\ lock # Nobody
    /\ lock' = Nobody
    /\ stamped' = FALSE
    /\ Settle(p, "ok")
    /\ UNCHANGED <<log, tail, view, verdict, inspected>>

\* finally: close, then unlink whatever file has the lock's name.
ReleaseLock(p) ==
    /\ phase[p] = "release"
    /\ lock # Nobody
    /\ lock' = Nobody
    /\ stamped' = FALSE
    /\ Settle(p, verdict[p])
    /\ UNCHANGED <<log, tail, view, verdict, inspected>>

\* close or unlink fails: the caller gets that error, and the file stays.
ReleaseFails(p) ==
    /\ phase[p] = "release"
    /\ Settle(p, "unknown")
    /\ UNCHANGED <<log, tail, lock, stamped, view, verdict, inspected>>

\* The process dies.  Its lock file, if any, and what it wrote remain.
Crash(p) ==
    /\ phase[p] # "crashed"
    /\ phase' = [phase EXCEPT ![p] = "crashed"]
    /\ outcome' = [c \in Calls |-> IF c[1] = p /\ outcome[c] = "pending"
                                   THEN "unknown" ELSE outcome[c]]
    /\ UNCHANGED <<log, tail, lock, stamped, turn, view, verdict, inspected>>

\* Mutant of InspectLock: a lock that is merely old (stale-active) is safe to
\* remove too.
InspectLock_StaleIsSafe ==
    /\ inspected = Nobody
    /\ lock # Nobody
    /\ stamped
    /\ inspected' = lock
    /\ UNCHANGED <<log, tail, lock, stamped, phase, turn, view, verdict, outcome>>

\* lockStatus: the recorded pid is gone, so the lock is orphaned and safe to
\* remove.  An unstamped lock file fails to parse and is reported as an error.
InspectLock ==
    /\ inspected = Nobody
    /\ lock # Nobody
    /\ stamped
    /\ phase[lock] = "crashed"
    /\ inspected' = lock
    /\ UNCHANGED <<log, tail, lock, stamped, phase, turn, view, verdict, outcome>>

\* The operator, some time later, deletes the file that was reported orphaned.
RemoveOrphan ==
    /\ inspected # Nobody
    /\ lock' = Nobody
    /\ stamped' = FALSE
    /\ inspected' = Nobody
    /\ UNCHANGED <<log, tail, phase, turn, view, verdict, outcome>>

AppendStep(p) ==
    \/ Dequeue(p) \/ OpenLock(p) \/ GiveUp(p) \/ StampLock(p) \/ ReadLog(p)
    \/ WriteEnvelope(p) \/ ShortWrite(p) \/ ReleaseLock(p) \/ ReleaseFails(p)

Next ==
    \/ \E p \in Procs, i \in 1..MaxCalls : Invoke(p, i)
    \/ \E p \in Procs : AppendStep(p) \/ Crash(p)
    \/ InspectLock
    \/ RemoveOrphan

Spec == Init /\ [][Next]_vars

\* The event loop of a live process keeps running its promises.
Fairness == \A p \in Procs : WF_vars(AppendStep(p))
FairSpec == Spec /\ Fairness

----------------------------------------------------------------------------
\* The variables' types.
TypeOK ==
    /\ log \in Seq(Envelopes)
    /\ tail \in Tails
    /\ lock \in Procs \cup {Nobody}
    /\ stamped \in BOOLEAN
    /\ phase \in [Procs -> Phases]
    /\ turn \in [Procs -> 0..MaxCalls]
    /\ view \in [Procs -> Places]
    /\ verdict \in [Procs -> {"pending", "ok", "refused", "unknown"}]
    /\ outcome \in [Calls -> Outcomes]
    /\ inspected \in Procs \cup {Nobody}

Holding == {"stamp", "read", "write", "release"}

\* Two processes are never between taking and giving back the lock at once,
\* in spite of leaked locks, crashes and the operator's late removals.
MutualExclusion ==
    \A p, q \in Procs : phase[p] \in Holding /\ phase[q] \in Holding => p = q

\* The history is one chain, whichever writers interleaved, died or failed: no
\* interleaving makes envelopes() report EVENT_LOG_CORRUPT.
ChainIntact == ChainValid

\* Some append failed while it wrote: its caller was not, or will not be, told
\* that it succeeded.
FailedWrite ==
    \/ \E c \in Calls : outcome[c] = "unknown"
    \/ \E p \in Procs : phase[p] = "release" /\ verdict[p] = "unknown"

\* The file stops ending in a newline only through a write that some caller
\* was not told had succeeded.
HistoryReadable == tail # "newline" => FailedWrite

\* Whether the bytes of call c's event are in the file.
Logged(c) == \E k \in 1..Len(log) : log[k].payload = c

\* A caller that was acknowledged has its event in the file, and readers find
\* it there as long as no write has failed; one that was refused never has it
\* there, even if its process goes on and others write.
OutcomesHonest ==
    \A c \in Calls : /\ outcome[c] = "ok" => Logged(c) /\ (Readable \/ FailedWrite)
                     /\ outcome[c] \in {"none", "refused"} => ~Logged(c)

\* THREAT-MODEL.md: run history remains inspectable - an event that is being
\* acknowledged is one that envelopes() returns.
AcknowledgedReadable ==
    [][\A c \in Calls : outcome[c] = "pending" /\ outcome'[c] = "ok" => Logged(c)' /\ Readable']_vars

\* The events of one process stand in the order of its append calls, each at
\* most once.
ProgramOrder ==
    \A j, k \in 1..Len(log) :
        j < k /\ log[j].payload[1] = log[k].payload[1]
            => log[j].payload[2] < log[k].payload[2]

\* The store implements the atomic log, whose history is what is in the file
\* (HistoryReadable says when it can be read).
Atomic == INSTANCE AtomicLog
            WITH entries <- [k \in 1..Len(log) |-> log[k].payload]
Linearizable == Atomic!Spec

\* Every append call is answered, with a leaked or orphaned lock in the way
\* too: none waits forever.
EveryCallSettles == \A c \in Calls : (outcome[c] = "pending") ~> (outcome[c] # "pending")
==============================================================================

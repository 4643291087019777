------------------------------ MODULE AtomicLog ------------------------------
(***************************************************************************)
(* What FileMemoryStore.append promises its callers about events.jsonl,    *)
(* and nothing of how it keeps the promise: one shared history that only   *)
(* grows, into which every call puts its event at most once.  A call that  *)
(* is acknowledged has its event in the history, a refused call never has, *)
(* and a call cut short (its process died, or the file system failed under *)
(* it) may or may not have it, but will not put it there later.  The calls *)
(* of one process take effect in the order in which it made them.          *)
(*                                                                         *)
(* The history is what has been written.  It is what events() returns as   *)
(* long as no write has failed; after one that did, the reader may reject  *)
(* the file that holds it.                                                 *)
(***************************************************************************)
EXTENDS Naturals, Sequences

CONSTANTS Procs,     \* the local processes that share one memory root
          MaxCalls   \* bound: append calls a process makes

VARIABLES entries,   \* the calls whose event has been written, in order
          outcome    \* what each call's promise has come to

absVars == <<entries, outcome>>

AppendCalls == Procs \X (1..MaxCalls)

Init ==
    /\ entries = <<>>
    /\ outcome = [c \in AppendCalls |-> "none"]

\* Written, whether or not the file can be read.
InHistory(c) == \E k \in 1..Len(entries) : entries[k] = c

\* The caller asks for an event to be appended.
Invoke(c) ==
    /\ outcome[c] = "none"
    /\ outcome' = [outcome EXCEPT ![c] = "pending"]
    /\ UNCHANGED entries

\* The event becomes part of the history.
Commit(c) ==
    /\ outcome[c] = "pending"
    /\ ~InHistory(c)
    /\ \A d \in AppendCalls : d[1] = c[1] /\ d[2] < c[2] => outcome[d] \notin {"none", "pending"}
    /\ entries' = Append(entries, c)
    /\ UNCHANGED outcome

\* The promise resolves: the event has been written.
Acknowledge(c) ==
    /\ outcome[c] = "pending"
    /\ InHistory(c)
    /\ outcome' = [outcome EXCEPT ![c] = "ok"]
    /\ UNCHANGED entries

\* The promise rejects, and the event has not been written.
Refuse(c) ==
    /\ outcome[c] = "pending"
    /\ ~InHistory(c)
    /\ outcome' = [outcome EXCEPT ![c] = "refused"]
    /\ UNCHANGED entries

\* Calls end without an answer either way, the last one perhaps committing.
Abandon(cs) ==
    /\ \A c \in cs : outcome[c] = "pending"
    /\ outcome' = [c \in AppendCalls |-> IF c \in cs THEN "unknown" ELSE outcome[c]]
    /\ UNCHANGED entries

Next ==
    \/ \E c \in AppendCalls : Invoke(c) \/ Commit(c) \/ Acknowledge(c) \/ Refuse(c)
    \/ \E cs \in SUBSET AppendCalls : Abandon(cs)

Spec == Init /\ [][Next]_absVars
==============================================================================

------------------------------- MODULE Heartbeats -------------------------------
(***************************************************************************)
(* Heartbeat receipts (heartbeat.mjs): recordHeartbeat reads the log,      *)
(* compares with the worker's last receipt and appends, with nothing held  *)
(* between; summarizeHeartbeats reports each worker by its last receipt.   *)
(* A worker stands for a run and a worker id.  The log is that of          *)
(* AtomicLog, seen by its heartbeat.received events.                       *)
(***************************************************************************)
EXTENDS Naturals, Sequences

CONSTANTS Workers,    \* the streams of receipts: a worker in a run
          Senders,    \* the processes that record receipts
          OneSender,  \* the workers for whom one receipt at a time is recorded
          Workflows,  \* workflow digests
          MaxCost,    \* bound: cumulative cost
          MaxInstant, \* bound: times a receipt may carry
          Lease,      \* leaseMs
          MaxReceipts \* bound: receipts in the log

ASSUME SendersAssumption == OneSender \subseteq Workers
ASSUME LeaseAssumption == Lease \in Nat \ {0} /\ MaxCost \in Nat /\ MaxInstant \in Nat /\ MaxReceipts \in Nat

VARIABLES receipts,  \* the receipts in the log, in order
          sending    \* the receipt each sender has checked and not appended yet, or NoReceipt

beatVars == <<receipts, sending>>

Receipts  == [worker : Workers, workflow : Workflows, cost : 0..MaxCost, at : 0..MaxInstant]
NoReceipt == <<>>

BeatInit == receipts = <<>> /\ sending = [h \in Senders |-> NoReceipt]

\* The places of a worker's receipts in the log, and the receipt in the last.
Of(w)     == {i \in DOMAIN receipts : receipts[i].worker = w}
Newest(w) == receipts[CHOOSE i \in Of(w) : \A j \in Of(w) : j <= i]

\* Mutant of Follows: the time of the receipt is not compared.
Follows_AnyTime(r) ==
    Of(r.worker) # {} =>
        Newest(r.worker).workflow = r.workflow /\ Newest(r.worker).cost <= r.cost

\* HEARTBEAT_WORKFLOW_MISMATCH, HEARTBEAT_TIME_REGRESSION, HEARTBEAT_COST_REGRESSION.
Follows(r) ==
    Of(r.worker) # {} =>   /\ Newest(r.worker).workflow = r.workflow
                           /\ Newest(r.worker).at <= r.at
                           /\ Newest(r.worker).cost <= r.cost

\* recordHeartbeat reads the log and finds the receipt in order.
CheckReceipt(h, r) ==
    /\ sending[h] = NoReceipt
    /\ Len(receipts) < MaxReceipts
    /\ r.worker \in OneSender => \A g \in Senders : sending[g] # NoReceipt => sending[g].worker # r.worker
    /\ Follows(r)
    /\ sending' = [sending EXCEPT ![h] = r]
    /\ UNCHANGED receipts

\* It appends it.  An append that rejects may have landed.
AppendReceipt(h) ==
    /\ sending[h] # NoReceipt
    /\ receipts' \in {receipts, Append(receipts, sending[h])}
    /\ sending' = [sending EXCEPT ![h] = NoReceipt]

BeatNext == \E h \in Senders : AppendReceipt(h) \/ \E r \in Receipts : CheckReceipt(h, r)
BeatSpec == BeatInit /\ [][BeatNext]_beatVars

\* heartbeatStatus: its age is within the lease.  A receipt from the future is new.
Alive(r, now) == now <= r.at + Lease
\* summarizeHeartbeats: the workers reported, and which of them as alive.
Reported == {w \in Workers : Of(w) # {}}
AliveAt(now) == {w \in Reported : Alive(Newest(w), now)}

----------------------------------------------------------------------------
BeatTypeOK ==
    /\ receipts \in Seq(Receipts)
    /\ sending \in [Senders -> Receipts \cup {NoReceipt}]

\* THREAT-MODEL.md: identity, timestamp and cumulative cost cannot regress
\* within one stream.  Where a worker's receipts are recorded one at a time,
\* the summary reports it alive exactly while some receipt of it is within the
\* lease, with the highest cost it has ever reported, on one workflow.
SummaryIsNewest ==
    \A w \in Reported \cap OneSender :
        /\ \A now \in 0..(MaxInstant + Lease + 1) :
               w \in AliveAt(now) <=> \E i \in Of(w) : now <= receipts[i].at + Lease
        /\ \A i \in Of(w) : /\ receipts[i].cost <= Newest(w).cost
                           /\ receipts[i].workflow = Newest(w).workflow
==============================================================================

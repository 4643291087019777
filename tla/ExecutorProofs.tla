---------------------------- MODULE ExecutorProofs ----------------------------
(***************************************************************************)
(* What the runs of MCExecutor show for two steps and a few attempts,      *)
(* proved for any workflow, any costs and budget, and any number of        *)
(* attempts.                                                               *)
(***************************************************************************)
EXTENDS RunSummary, FoldLemmas, SequenceTheorems, FiniteSetTheorems, TLAPS

----------------------------------------------------------------------------
(* The inductive invariant. *)

\* The steps a log records as completed.
Done(l) == {s \in Steps : HasStep(l, "step.completed", s)}

\* What is pending once the first m steps are done.
Rest(m) == [k \in 1..(NumSteps - m) |-> m + k]

\* How far a run object has come.
Reached(r) == NumSteps - Len(r.pending)

\* A run object has done the steps up to one of them, and has the others pending.
Shaped(completed, pending) ==
    \E m \in 0..NumSteps : Range(completed) = 1..m /\ pending = Rest(m)

\* The phases in which nothing of the run object is missing in the log.
Synced == {"announce", "govern", "loop", "park", "prepare", "invoke", "answer", "save", "saveResult"}

\* The one step that may be done but not recorded is the last, and it has been started.
Lead(completed, l) ==
    \A s \in Range(completed) \ Done(l) : s = Last(completed) /\ HasStep(l, "step.started", s)

\* What holds of an attempt in phase p with run object r, whatever other attempts do.
AttemptOK(p, r, l, d) ==
    /\ Shaped(r.completed, r.pending)
    /\ 1..Reached(r) \subseteq d
    /\ Lead(r.completed, l)
    /\ p \in Synced => 1..Reached(r) \subseteq Done(l)
    /\ p \in {"park", "prepare", "invoke", "answer"} => Reached(r) < NumSteps
    /\ p \in {"invoke", "answer"} => HasStep(l, "step.started", Reached(r) + 1)
    /\ p = "complete" => /\ Reached(r) > 0
                         /\ Last(r.completed) = Reached(r)
                         /\ 1..(Reached(r) - 1) \subseteq Done(l)
    /\ p = "saveResult" => Reached(r) = NumSteps /\ Has(l, "run.completed")

AttemptsInv == \A a \in Attempts : AttemptOK(phase[a], run[a], log, delivered)

LogInv == DependenciesFirst /\ Done(log) \subseteq delivered

\* What can be read in a file is some attempt's run object, no further than the
\* log and the adapters have come by now.
FileOK(file, l, d) ==
    Holds(file) => /\ Range(file.completed) \subseteq d
                   /\ Lead(file.completed, l)
                   /\ Shaped(file.completed, file.pending)
                   /\ file.status = "completed" => Has(l, "run.completed")

CheckpointInv == FileOK(checkpoint, log, delivered) /\ FileOK(temp, log, delivered)

SharedInv == TypeOK /\ LogInv /\ AttemptsInv /\ CheckpointInv

----------------------------------------------------------------------------
(* What more is true when no two attempts are under way at once. *)
Upto(m) == [k \in 1..m |-> k]

OneAtATime == \A a, b \in Attempts : Live(a) /\ Live(b) => a = b

AloneOK(p, r, l, calls) ==
    /\ p \in Synced => r.completed = CompletedSteps(l) /\ r.spent = RecordedCost(l)
    /\ p \in {"invoke", "answer"} => r.spent + Cost[Reached(r) + 1] <= Budget
    /\ p = "complete" => /\ r.completed = Append(CompletedSteps(l), Reached(r))
                         /\ Len(CompletedSteps(l)) = Reached(r) - 1
                         /\ r.spent = RecordedCost(l) + r.cost
                         /\ r.cost <= Cost[Reached(r)]
                         /\ r.spent <= Budget
    /\ p = "prepare" => l # <<>> /\ Last(l) = StepEvent("step.approval-verified", Reached(r) + 1)
    /\ p \in Synced \cup {"complete"} =>
          \A s \in (Reached(r) + 1)..NumSteps : HasStep(l, "step.started", s) =>
              s \in r.ambiguous \/ (p \in {"invoke", "answer"} /\ s = Reached(r) + 1)
    /\ p = "invoke" /\ Reached(r) + 1 \in External \ Keyed => calls[Reached(r) + 1] = 0
    /\ p \notin {"new", "ended", "crashed"} /\ Has(l, "run.completed") =>
          p \in {"saveResult", "fail", "saveFailure"}

AttemptsAlone == \A a \in Attempts : AloneOK(phase[a], run[a], log, invoked)

\* What an attempt reported as completed is what the log says of the run from then on.
ReportsInv == \A a \in Attempts : outcome[a] = "completed" =>
                  /\ phase[a] = "ended" /\ Has(log, "run.completed")
                  /\ run[a].completed = CompletedSteps(log) /\ run[a].spent = RecordedCost(log)

LogAlone == /\ CompletedSteps(log) = Upto(Len(CompletedSteps(log)))
            /\ RecordedCost(log) <= Budget
            /\ ApprovalPerAttempt

CallsAlone == /\ UnkeyedInvokedOnce
              /\ \A s \in Steps : invoked[s] > 0 => HasStep(log, "step.started", s)

AloneInv == SharedInv /\ OneAtATime /\ AttemptsAlone /\ ReportsInv /\ LogAlone /\ CallsAlone

----------------------------------------------------------------------------
(* What reconstruct finds in a log, event by event.                           *)

LEMMA EventTypes ==
    ASSUME NEW e \in Events
    PROVE  /\ e.type \in StepTypes \cup RunTypes /\ e.cost \in Nat
           /\ e.type \in StepTypes => e.step \in Steps
BY DEF Events, StepTypes, RunTypes

LEMMA AppendEvent ==
    ASSUME NEW l \in Seq(Events), NEW e \in Events
    PROVE  /\ Append(l, e) \in Seq(Events) /\ Append(l, e) # <<>>
           /\ Len(Append(l, e)) = Len(l) + 1 /\ Len(l) \in Nat
           /\ \A k \in 1..Len(l) : Append(l, e)[k] = l[k] /\ l[k] \in Events
           /\ Append(l, e)[Len(l) + 1] = e
           /\ Last(Append(l, e)) = e
BY AppendProperties DEF Last

\* One step of reconstruct's two folds.
CompletesAt(e, done) == IF e.type = "step.completed" THEN Append(done, e.step) ELSE done
ChargesAt(e, sum) == IF e.type = "step.completed" THEN sum + e.cost ELSE sum

LEMMA CompletedStepsFold ==
    ASSUME NEW l \in Seq(Events)
    PROVE  \E f \in [0..Len(l) -> Seq(Steps)] :
              /\ f[0] = <<>>
              /\ \A k \in 1..Len(l) : f[k] = CompletesAt(l[k], f[k - 1])
              /\ CompletedSteps(l) = f[Len(l)]
<1> DEFINE n == Len(l)
           S == Seq(Steps)
           F == [k \in 1..n |-> [x \in S |-> CompletesAt(l[k], x)]]
           Body(f) == [k \in 0..n |->
                         IF k = 0 THEN <<>>
                         ELSE IF l[k].type = "step.completed" THEN Append(f[k - 1], l[k].step) ELSE f[k - 1]]
           done == CHOOSE f : f = Body(f)
<1>1. n \in Nat /\ <<>> \in S
  OBVIOUS
<1>2. F \in [1..n -> [S -> S]]
  <2>1. ASSUME NEW k \in 1..n, NEW x \in S PROVE CompletesAt(l[k], x) \in S
    <3>1. l[k] \in Events
      OBVIOUS
    <3>2. QED
      BY <3>1, EventTypes, AppendProperties DEF CompletesAt, StepTypes
  <2>2. QED
    BY <2>1
<1>3. PICK f \in [0..n -> S] : Folds(f, n, S, <<>>, F)
  <2> HIDE DEF F, S, n
  <2> QED
    BY <1>1, <1>2, FoldExists
<1>4. f[0] = <<>> /\ \A k \in 1..n : f[k] = CompletesAt(l[k], f[k - 1])
  <2>1. ASSUME NEW k \in 1..n PROVE f[k] = CompletesAt(l[k], f[k - 1])
    <3>1. f[k - 1] \in S
      <4> HIDE DEF S
      <4> QED
        BY <1>1
    <3>2. f[k] = F[k][f[k - 1]]
      BY <1>3, <3>1 DEF Folds
    <3>3. QED
      BY <3>1, <3>2
  <2>2. QED
    BY <1>3, <2>1 DEF Folds
<1>5. f = Body(f)
  <2>1. ASSUME NEW k \in 0..n PROVE f[k] = Body(f)[k]
    <3>1. CASE k = 0
      BY <1>1, <1>4, <3>1
    <3>2. CASE k \in 1..n
      <4>1. f[k] = CompletesAt(l[k], f[k - 1])
        BY <1>4, <3>2
      <4>2. Body(f)[k] = CompletesAt(l[k], f[k - 1])
        BY <3>2 DEF CompletesAt
      <4>3. QED
        BY <4>1, <4>2
    <3>3. QED
      BY <1>1, <3>1, <3>2
  <2>2. QED
    BY <1>3, <2>1
<1>6. done = Body(done)
  BY <1>5
<1>7. Folds(done, n, S, <<>>, F)
  <2>1. done[0] = <<>>
    <3> HIDE DEF done
    <3>1. Body(done)[0] = <<>>
      BY <1>1
    <3>2. QED
      BY <1>6, <3>1
  <2>2. ASSUME NEW k \in 1..n, done[k - 1] \in S PROVE done[k] = F[k][done[k - 1]]
    <3>1. done[k] = Body(done)[k]
      BY <1>6
    <3>2. Body(done)[k] = CompletesAt(l[k], done[k - 1])
      BY <1>1 DEF CompletesAt
    <3>3. QED
      BY <2>2, <3>1, <3>2
  <2>3. QED
    BY <2>1, <2>2 DEF Folds
<1>8. done[n] = f[n]
  <2> HIDE DEF F, S, n, done
  <2> QED
    BY <1>1, <1>2, <1>3, <1>7, FoldUnique
<1>9. CompletedSteps(l) = done[n]
  BY DEF CompletedSteps
<1>10. QED
  BY <1>4, <1>8, <1>9

LEMMA RecordedCostFold ==
    ASSUME NEW l \in Seq(Events)
    PROVE  \E f \in [0..Len(l) -> Nat] :
              /\ f[0] = 0
              /\ \A k \in 1..Len(l) : f[k] = ChargesAt(l[k], f[k - 1])
              /\ RecordedCost(l) = f[Len(l)]
<1> DEFINE n == Len(l)
           S == Nat
           F == [k \in 1..n |-> [x \in S |-> ChargesAt(l[k], x)]]
           Body(f) == [k \in 0..n |->
                         IF k = 0 THEN 0
                         ELSE IF l[k].type = "step.completed" THEN f[k - 1] + l[k].cost ELSE f[k - 1]]
           sum == CHOOSE f : f = Body(f)
<1>1. n \in Nat /\ 0 \in S
  OBVIOUS
<1>2. F \in [1..n -> [S -> S]]
  <2>1. ASSUME NEW k \in 1..n, NEW x \in S PROVE ChargesAt(l[k], x) \in S
    <3>1. l[k] \in Events
      OBVIOUS
    <3>2. QED
      BY <3>1, EventTypes DEF ChargesAt, StepTypes
  <2>2. QED
    BY <2>1
<1>3. PICK f \in [0..n -> S] : Folds(f, n, S, 0, F)
  <2> HIDE DEF F, S, n
  <2> QED
    BY <1>1, <1>2, FoldExists
<1>4. f[0] = 0 /\ \A k \in 1..n : f[k] = ChargesAt(l[k], f[k - 1])
  <2>1. ASSUME NEW k \in 1..n PROVE f[k] = ChargesAt(l[k], f[k - 1])
    <3>1. f[k - 1] \in S
      <4> HIDE DEF S
      <4> QED
        BY <1>1
    <3>2. f[k] = F[k][f[k - 1]]
      BY <1>3, <3>1 DEF Folds
    <3>3. QED
      BY <3>1, <3>2
  <2>2. QED
    BY <1>3, <2>1 DEF Folds
<1>5. f = Body(f)
  <2>1. ASSUME NEW k \in 0..n PROVE f[k] = Body(f)[k]
    <3>1. CASE k = 0
      BY <1>1, <1>4, <3>1
    <3>2. CASE k \in 1..n
      <4>1. f[k] = ChargesAt(l[k], f[k - 1])
        BY <1>4, <3>2
      <4>2. Body(f)[k] = ChargesAt(l[k], f[k - 1])
        BY <3>2 DEF ChargesAt
      <4>3. QED
        BY <4>1, <4>2
    <3>3. QED
      BY <1>1, <3>1, <3>2
  <2>2. QED
    BY <1>3, <2>1
<1>6. sum = Body(sum)
  BY <1>5
<1>7. Folds(sum, n, S, 0, F)
  <2>1. sum[0] = 0
    <3> HIDE DEF sum
    <3>1. Body(sum)[0] = 0
      BY <1>1
    <3>2. QED
      BY <1>6, <3>1
  <2>2. ASSUME NEW k \in 1..n, sum[k - 1] \in S PROVE sum[k] = F[k][sum[k - 1]]
    <3>1. sum[k] = Body(sum)[k]
      BY <1>6
    <3>2. Body(sum)[k] = ChargesAt(l[k], sum[k - 1])
      BY <1>1 DEF ChargesAt
    <3>3. QED
      BY <2>2, <3>1, <3>2
  <2>3. QED
    BY <2>1, <2>2 DEF Folds
<1>8. sum[n] = f[n]
  <2> HIDE DEF F, S, n, sum
  <2> QED
    BY <1>1, <1>2, <1>3, <1>7, FoldUnique
<1>9. RecordedCost(l) = sum[n]
  BY DEF RecordedCost
<1>10. QED
  BY <1>4, <1>8, <1>9

\* One step of PendingAfter.
PendsAt(c, k, rest) == IF Contains(c, k) THEN rest ELSE Append(rest, k)

LEMMA PendingAfterFold ==
    ASSUME NEW c
    PROVE  \E f \in [0..NumSteps -> Seq(Steps)] :
              /\ f[0] = <<>>
              /\ \A k \in 1..NumSteps : f[k] = PendsAt(c, k, f[k - 1])
              /\ PendingAfter(c) = f[NumSteps]
<1> DEFINE n == NumSteps
           S == Seq(Steps)
           F == [k \in 1..n |-> [x \in S |-> PendsAt(c, k, x)]]
           Body(f) == [k \in 0..n |->
                         IF k = 0 THEN <<>>
                         ELSE IF Contains(c, k) THEN f[k - 1] ELSE Append(f[k - 1], k)]
           rest == CHOOSE f : f = Body(f)
<1>1. n \in Nat /\ <<>> \in S
  BY SizesAssumption
<1>2. F \in [1..n -> [S -> S]]
  <2>1. ASSUME NEW k \in 1..n, NEW x \in S PROVE PendsAt(c, k, x) \in S
    BY AppendProperties DEF PendsAt, Steps
  <2>2. QED
    BY <2>1
<1>3. PICK f \in [0..n -> S] : Folds(f, n, S, <<>>, F)
  <2> HIDE DEF F, S, n
  <2> QED
    BY <1>1, <1>2, FoldExists
<1>4. f[0] = <<>> /\ \A k \in 1..n : f[k] = PendsAt(c, k, f[k - 1])
  <2>1. ASSUME NEW k \in 1..n PROVE f[k] = PendsAt(c, k, f[k - 1])
    <3>1. f[k - 1] \in S
      <4> HIDE DEF S
      <4> QED
        BY <1>1
    <3>2. f[k] = F[k][f[k - 1]]
      BY <1>3, <3>1 DEF Folds
    <3>3. QED
      BY <3>1, <3>2
  <2>2. QED
    BY <1>3, <2>1 DEF Folds
<1>5. f = Body(f)
  <2>1. ASSUME NEW k \in 0..n PROVE f[k] = Body(f)[k]
    <3>1. CASE k = 0
      BY <1>1, <1>4, <3>1
    <3>2. CASE k \in 1..n
      <4>1. f[k] = PendsAt(c, k, f[k - 1])
        BY <1>4, <3>2
      <4>2. Body(f)[k] = PendsAt(c, k, f[k - 1])
        BY <3>2 DEF PendsAt
      <4>3. QED
        BY <4>1, <4>2
    <3>3. QED
      BY <1>1, <3>1, <3>2
  <2>2. QED
    BY <1>3, <2>1
<1>6. rest = Body(rest)
  BY <1>5
<1>7. Folds(rest, n, S, <<>>, F)
  <2>1. rest[0] = <<>>
    <3> HIDE DEF rest
    <3>1. Body(rest)[0] = <<>>
      BY <1>1
    <3>2. QED
      BY <1>6, <3>1
  <2>2. ASSUME NEW k \in 1..n, rest[k - 1] \in S PROVE rest[k] = F[k][rest[k - 1]]
    <3>1. rest[k] = Body(rest)[k]
      BY <1>6
    <3>2. Body(rest)[k] = PendsAt(c, k, rest[k - 1])
      BY <1>1 DEF PendsAt
    <3>3. QED
      BY <2>2, <3>1, <3>2
  <2>3. QED
    BY <2>1, <2>2 DEF Folds
<1>8. rest[n] = f[n]
  <2> HIDE DEF F, S, n, rest
  <2> QED
    BY <1>1, <1>2, <1>3, <1>7, FoldUnique
<1>9. PendingAfter(c) = rest[n]
  BY DEF PendingAfter
<1>10. QED
  BY <1>4, <1>8, <1>9

LEMMA RangeAppend ==
    ASSUME NEW S, NEW q \in Seq(S), NEW x \in S
    PROVE  Range(Append(q, x)) = Range(q) \cup {x}
<1>1. /\ Append(q, x) \in Seq(S) /\ Len(Append(q, x)) = Len(q) + 1 /\ Len(q) \in Nat
      /\ \A i \in 1..Len(q) : Append(q, x)[i] = q[i]
      /\ Append(q, x)[Len(q) + 1] = x
  BY AppendProperties
<1>2. Range(Append(q, x)) = {Append(q, x)[i] : i \in 1..(Len(q) + 1)}
  BY <1>1, RangeEquality
<1>3. Range(q) = {q[i] : i \in 1..Len(q)}
  BY RangeEquality
<1>4. QED
  BY <1>1, <1>2, <1>3

LEMMA ContainsIsRange ==
    ASSUME NEW S, NEW q \in Seq(S), NEW x
    PROVE  Contains(q, x) <=> x \in Range(q)
BY RangeEquality DEF Contains

(* An empty log, and one event more. *)
LEMMA ReconstructEmpty == CompletedSteps(<<>>) = <<>> /\ RecordedCost(<<>>) = 0
<1>1. <<>> \in Seq(Events) /\ Len(<<>>) = 0
  OBVIOUS
<1>2. CompletedSteps(<<>>) = <<>>
  BY <1>1, CompletedStepsFold
<1>3. RecordedCost(<<>>) = 0
  BY <1>1, RecordedCostFold
<1>4. QED
  BY <1>2, <1>3

LEMMA ReconstructTypes ==
    ASSUME NEW l \in Seq(Events)
    PROVE  CompletedSteps(l) \in Seq(Steps) /\ RecordedCost(l) \in Nat
<1>1. Len(l) \in Nat
  OBVIOUS
<1>2. CompletedSteps(l) \in Seq(Steps)
  BY <1>1, CompletedStepsFold
<1>3. RecordedCost(l) \in Nat
  BY <1>1, RecordedCostFold
<1>4. QED
  BY <1>2, <1>3

LEMMA CompletedStepsAppend ==
    ASSUME NEW l \in Seq(Events), NEW e \in Events
    PROVE  CompletedSteps(Append(l, e)) = CompletesAt(e, CompletedSteps(l))
<1> DEFINE n == Len(l)
           S == Seq(Steps)
           F == [k \in 1..n |-> [x \in S |-> CompletesAt(l[k], x)]]
<1>1. n \in Nat /\ <<>> \in S
  OBVIOUS
<1>2. F \in [1..n -> [S -> S]]
  <2>1. ASSUME NEW k \in 1..n, NEW x \in S PROVE CompletesAt(l[k], x) \in S
    <3>1. l[k] \in Events
      OBVIOUS
    <3>2. QED
      BY <3>1, EventTypes, AppendProperties DEF CompletesAt, StepTypes
  <2>2. QED
    BY <2>1
<1>3. PICK f \in [0..n -> S] : /\ f[0] = <<>>
                               /\ \A k \in 1..n : f[k] = CompletesAt(l[k], f[k - 1])
                               /\ CompletedSteps(l) = f[n]
  BY CompletedStepsFold
<1>4. PICK g \in [0..(n + 1) -> S] : /\ g[0] = <<>>
                                     /\ \A k \in 1..(n + 1) : g[k] = CompletesAt(Append(l, e)[k], g[k - 1])
                                     /\ CompletedSteps(Append(l, e)) = g[n + 1]
  <2>1. Append(l, e) \in Seq(Events) /\ Len(Append(l, e)) = n + 1
    BY AppendEvent
  <2> HIDE DEF n
  <2> QED
    BY <2>1, CompletedStepsFold
<1>5. Folds(f, n, S, <<>>, F)
  BY <1>3 DEF Folds
<1>6. Folds(g, n, S, <<>>, F)
  <2>1. ASSUME NEW k \in 1..n, g[k - 1] \in S PROVE g[k] = F[k][g[k - 1]]
    <3>1. g[k] = CompletesAt(Append(l, e)[k], g[k - 1]) /\ Append(l, e)[k] = l[k]
      BY <1>1, <1>4, AppendEvent
    <3>2. QED
      BY <2>1, <3>1
  <2>2. QED
    BY <1>4, <2>1 DEF Folds
<1>7. f[n] = g[n]
  <2> HIDE DEF F, S, n
  <2>1. \A k \in 0..n : f[k] = g[k] /\ f[k] \in S
    BY <1>1, <1>2, <1>5, <1>6, FoldUnique, Zenon
  <2>2. QED
    BY <1>1, <2>1
<1>8. g[n + 1] = CompletesAt(e, g[n])
  <2>1. n + 1 \in 1..(n + 1) /\ (n + 1) - 1 = n /\ Append(l, e)[n + 1] = e
    BY <1>1, AppendEvent
  <2>2. g[n + 1] = CompletesAt(Append(l, e)[n + 1], g[(n + 1) - 1])
    BY <1>4, <2>1
  <2>3. QED
    BY <2>1, <2>2
<1>9. CompletedSteps(l) = f[n] /\ CompletedSteps(Append(l, e)) = g[n + 1]
  BY <1>3, <1>4
<1>10. QED
  BY <1>7, <1>8, <1>9

LEMMA RecordedCostAppend ==
    ASSUME NEW l \in Seq(Events), NEW e \in Events
    PROVE  RecordedCost(Append(l, e)) = ChargesAt(e, RecordedCost(l))
<1> DEFINE n == Len(l)
           S == Nat
           F == [k \in 1..n |-> [x \in S |-> ChargesAt(l[k], x)]]
<1>1. n \in Nat /\ 0 \in S
  OBVIOUS
<1>2. F \in [1..n -> [S -> S]]
  <2>1. ASSUME NEW k \in 1..n, NEW x \in S PROVE ChargesAt(l[k], x) \in S
    <3>1. l[k] \in Events
      OBVIOUS
    <3>2. QED
      BY <3>1, EventTypes DEF ChargesAt
  <2>2. QED
    BY <2>1
<1>3. PICK f \in [0..n -> S] : /\ f[0] = 0
                               /\ \A k \in 1..n : f[k] = ChargesAt(l[k], f[k - 1])
                               /\ RecordedCost(l) = f[n]
  BY RecordedCostFold
<1>4. PICK g \in [0..(n + 1) -> S] : /\ g[0] = 0
                                     /\ \A k \in 1..(n + 1) : g[k] = ChargesAt(Append(l, e)[k], g[k - 1])
                                     /\ RecordedCost(Append(l, e)) = g[n + 1]
  <2>1. Append(l, e) \in Seq(Events) /\ Len(Append(l, e)) = n + 1
    BY AppendEvent
  <2> HIDE DEF n
  <2> QED
    BY <2>1, RecordedCostFold
<1>5. Folds(f, n, S, 0, F)
  BY <1>3 DEF Folds
<1>6. Folds(g, n, S, 0, F)
  <2>1. ASSUME NEW k \in 1..n, g[k - 1] \in S PROVE g[k] = F[k][g[k - 1]]
    <3>1. g[k] = ChargesAt(Append(l, e)[k], g[k - 1]) /\ Append(l, e)[k] = l[k]
      BY <1>1, <1>4, AppendEvent
    <3>2. QED
      BY <2>1, <3>1
  <2>2. QED
    BY <1>4, <2>1 DEF Folds
<1>7. f[n] = g[n]
  <2> HIDE DEF F, S, n
  <2>1. \A k \in 0..n : f[k] = g[k] /\ f[k] \in S
    BY <1>1, <1>2, <1>5, <1>6, FoldUnique, Zenon
  <2>2. QED
    BY <1>1, <2>1
<1>8. g[n + 1] = ChargesAt(e, g[n])
  <2>1. n + 1 \in 1..(n + 1) /\ (n + 1) - 1 = n /\ Append(l, e)[n + 1] = e
    BY <1>1, AppendEvent
  <2>2. g[n + 1] = ChargesAt(Append(l, e)[n + 1], g[(n + 1) - 1])
    BY <1>4, <2>1
  <2>3. QED
    BY <2>1, <2>2
<1>9. RecordedCost(l) = f[n] /\ RecordedCost(Append(l, e)) = g[n + 1]
  BY <1>3, <1>4
<1>10. QED
  BY <1>7, <1>8, <1>9

(* The steps reconstruct finds are those with a completion on record. *)
LEMMA CompletedStepsRange ==
    ASSUME NEW l \in Seq(Events)
    PROVE  Range(CompletedSteps(l)) = Done(l)
<1> DEFINE n == Len(l)
           Upon(k) == {s \in Steps : \E j \in 1..k : l[j].type = "step.completed" /\ l[j].step = s}
<1>1. PICK f \in [0..n -> Seq(Steps)] : /\ f[0] = <<>>
                                        /\ \A k \in 1..n : f[k] = CompletesAt(l[k], f[k - 1])
                                        /\ CompletedSteps(l) = f[n]
  BY CompletedStepsFold
<1> DEFINE T == {k \in Nat : k <= n => Range(f[k]) = Upon(k)}
<1>2. 0 \in T
  BY <1>1 DEF Range
<1>3. ASSUME NEW k \in Nat, k \in T PROVE k + 1 \in T
  <2> SUFFICES ASSUME k + 1 <= n PROVE Range(f[k + 1]) = Upon(k + 1)
    OBVIOUS
  <2>1. n \in Nat /\ k + 1 \in 1..n /\ (k + 1) - 1 = k /\ k \in 0..n
    OBVIOUS
  <2>2. Range(f[k]) = Upon(k) /\ f[k] \in Seq(Steps) /\ l[k + 1] \in Events
    BY <1>3, <2>1
  <2>3. f[k + 1] = CompletesAt(l[k + 1], f[k])
    BY <1>1, <2>1
  <2>4. CASE l[k + 1].type = "step.completed"
    <3>1. l[k + 1].step \in Steps
      BY <2>2, <2>4, EventTypes DEF StepTypes
    <3>2. Range(f[k + 1]) = Upon(k) \cup {l[k + 1].step}
      BY <2>2, <2>3, <2>4, <3>1, RangeAppend DEF CompletesAt
    <3>3. Upon(k + 1) = Upon(k) \cup {l[k + 1].step}
      BY <2>1, <2>4, <3>1
    <3>4. QED
      BY <3>2, <3>3
  <2>5. CASE l[k + 1].type # "step.completed"
    <3>1. f[k + 1] = f[k]
      BY <2>3, <2>5 DEF CompletesAt
    <3>2. Upon(k + 1) = Upon(k)
      BY <2>1, <2>5
    <3>3. QED
      BY <2>2, <3>1, <3>2
  <2>6. QED
    BY <2>4, <2>5
<1>4. Nat \subseteq T
  <2> HIDE DEF T
  <2> QED
    BY <1>2, <1>3, Induction
<1>5. n \in Nat /\ n \in T
  <2> HIDE DEF T
  <2>1. n \in Nat
    OBVIOUS
  <2>2. QED
    BY <1>4, <2>1
<1>6. QED
  BY <1>1, <1>5 DEF Done, HasStep

(* When the first m steps are done, the others are pending, in order. *)
LEMMA PendingAfterFirst ==
    ASSUME NEW m \in 0..NumSteps, NEW c \in Seq(Steps), Range(c) = 1..m
    PROVE  PendingAfter(c) = Rest(m)
<1> DEFINE Part(k) == [i \in 1..(IF k <= m THEN 0 ELSE k - m) |-> m + i]
<1> USE SizesAssumption
<1>1. PICK f \in [0..NumSteps -> Seq(Steps)] : /\ f[0] = <<>>
                                               /\ \A k \in 1..NumSteps : f[k] = PendsAt(c, k, f[k - 1])
                                               /\ PendingAfter(c) = f[NumSteps]
  BY PendingAfterFold
<1> DEFINE T == {k \in Nat : k <= NumSteps => f[k] = Part(k)}
<1>2. 0 \in T
  BY <1>1
<1>3. ASSUME NEW k \in Nat, k \in T PROVE k + 1 \in T
  <2> SUFFICES ASSUME k + 1 <= NumSteps PROVE f[k + 1] = Part(k + 1)
    OBVIOUS
  <2>1. k + 1 \in 1..NumSteps /\ (k + 1) - 1 = k /\ f[k] = Part(k) /\ f[k] \in Seq(Steps)
    BY <1>3
  <2>2. f[k + 1] = PendsAt(c, k + 1, f[k])
    BY <1>1, <2>1
  <2>3. Contains(c, k + 1) <=> k + 1 <= m
    BY <2>1, ContainsIsRange
  <2>4. CASE k + 1 <= m
    BY <2>1, <2>2, <2>3, <2>4 DEF PendsAt
  <2>5. CASE ~(k + 1 <= m)
    <3>1. f[k + 1] = Append(Part(k), k + 1)
      BY <2>1, <2>2, <2>3, <2>5 DEF PendsAt
    <3>2. Append(Part(k), k + 1) = Part(k + 1)
      <4>1. Part(k) = [i \in 1..(k - m) |-> m + i] /\ k - m \in Nat
        BY <2>5
      <4>2. Part(k + 1) = [i \in 1..(k + 1 - m) |-> m + i]
        BY <2>5
      <4>3. QED
        BY <4>1, <4>2
    <3>3. QED
      BY <3>1, <3>2
  <2>6. QED
    BY <2>4, <2>5
<1>4. Nat \subseteq T
  <2> HIDE DEF T
  <2> QED
    BY <1>2, <1>3, Induction
<1>5. NumSteps \in T
  <2> HIDE DEF T
  <2> QED
    BY <1>4
<1>6. Part(NumSteps) = Rest(m)
  BY DEF Rest
<1>7. f[NumSteps] = Part(NumSteps)
  BY <1>5
<1>8. PendingAfter(c) = f[NumSteps]
  BY <1>1, Zenon
<1>9. QED
  BY <1>6, <1>7, <1>8

----------------------------------------------------------------------------
(* What one event adds to a log, and the shape of a run object.               *)

LEMMA HasAppend ==
    ASSUME NEW l \in Seq(Events), NEW e \in Events, NEW t
    PROVE  Has(Append(l, e), t) <=> Has(l, t) \/ e.type = t
<1>1. Len(Append(l, e)) = Len(l) + 1 /\ Len(l) \in Nat /\ Append(l, e)[Len(l) + 1] = e
      /\ \A k \in 1..Len(l) : Append(l, e)[k] = l[k]
  BY AppendEvent
<1>2. ASSUME Has(Append(l, e), t) PROVE Has(l, t) \/ e.type = t
  <2>1. PICK k \in 1..(Len(l) + 1) : Append(l, e)[k].type = t
    BY <1>1, <1>2 DEF Has
  <2>2. CASE k = Len(l) + 1
    BY <1>1, <2>1, <2>2
  <2>3. CASE k \in 1..Len(l)
    BY <1>1, <2>1, <2>3 DEF Has
  <2>4. QED
    BY <1>1, <2>2, <2>3
<1>3. ASSUME Has(l, t) PROVE Has(Append(l, e), t)
  <2>1. PICK k \in 1..Len(l) : l[k].type = t
    BY <1>3 DEF Has
  <2>2. k \in 1..(Len(l) + 1) /\ Append(l, e)[k].type = t
    BY <1>1, <2>1
  <2>3. QED
    BY <1>1, <2>2 DEF Has
<1>4. ASSUME e.type = t PROVE Has(Append(l, e), t)
  <2>1. Len(l) + 1 \in 1..(Len(l) + 1)
    BY <1>1
  <2>2. QED
    BY <1>1, <1>4, <2>1 DEF Has
<1>5. QED
  BY <1>2, <1>3, <1>4

LEMMA HasStepAppend ==
    ASSUME NEW l \in Seq(Events), NEW e \in Events, NEW t, NEW s
    PROVE  HasStep(Append(l, e), t, s) <=> HasStep(l, t, s) \/ (e.type = t /\ e.step = s)
<1>1. Len(Append(l, e)) = Len(l) + 1 /\ Len(l) \in Nat /\ Append(l, e)[Len(l) + 1] = e
      /\ \A k \in 1..Len(l) : Append(l, e)[k] = l[k]
  BY AppendEvent
<1>2. ASSUME HasStep(Append(l, e), t, s) PROVE HasStep(l, t, s) \/ (e.type = t /\ e.step = s)
  <2>1. PICK k \in 1..(Len(l) + 1) : Append(l, e)[k].type = t /\ Append(l, e)[k].step = s
    BY <1>1, <1>2 DEF HasStep
  <2>2. CASE k = Len(l) + 1
    BY <1>1, <2>1, <2>2
  <2>3. CASE k \in 1..Len(l)
    BY <1>1, <2>1, <2>3 DEF HasStep
  <2>4. QED
    BY <1>1, <2>2, <2>3
<1>3. ASSUME HasStep(l, t, s) PROVE HasStep(Append(l, e), t, s)
  <2>1. PICK k \in 1..Len(l) : l[k].type = t /\ l[k].step = s
    BY <1>3 DEF HasStep
  <2>2. k \in 1..(Len(l) + 1) /\ Append(l, e)[k].type = t /\ Append(l, e)[k].step = s
    BY <1>1, <2>1
  <2>3. QED
    BY <1>1, <2>2 DEF HasStep
<1>4. ASSUME e.type = t /\ e.step = s PROVE HasStep(Append(l, e), t, s)
  <2>1. Len(l) + 1 \in 1..(Len(l) + 1)
    BY <1>1
  <2>2. QED
    BY <1>1, <1>4, <2>1 DEF HasStep
<1>5. QED
  BY <1>2, <1>3, <1>4

LEMMA DoneAppend ==
    ASSUME NEW l \in Seq(Events), NEW e \in Events
    PROVE  Done(Append(l, e)) = IF e.type = "step.completed" THEN Done(l) \cup {e.step} ELSE Done(l)
<1>1. e.type = "step.completed" => e.step \in Steps
  BY EventTypes DEF StepTypes
<1>2. \A s \in Steps : HasStep(Append(l, e), "step.completed", s)
                         <=> HasStep(l, "step.completed", s) \/ (e.type = "step.completed" /\ e.step = s)
  BY HasStepAppend
<1>3. QED
  BY <1>1, <1>2 DEF Done

LEMMA RestShape ==
    ASSUME NEW m \in 0..NumSteps
    PROVE  /\ Rest(m) \in Seq(Steps)
           /\ Len(Rest(m)) = NumSteps - m
           /\ Range(Rest(m)) = (m + 1)..NumSteps
           /\ m < NumSteps => Rest(m) # <<>> /\ Head(Rest(m)) = m + 1 /\ Tail(Rest(m)) = Rest(m + 1)
<1> USE SizesAssumption
<1> DEFINE n == NumSteps - m
<1>1. n \in Nat /\ \A k \in 1..n : m + k \in Steps
  BY DEF Steps
<1>2. Rest(m) \in [1..n -> Steps]
  BY <1>1 DEF Rest
<1>3. Rest(m) \in Seq(Steps) /\ Len(Rest(m)) = n
  <2> HIDE DEF n
  <2> QED
    BY <1>1, <1>2
<1>4. Range(Rest(m)) = (m + 1)..NumSteps
  <2>1. Range(Rest(m)) = {Rest(m)[k] : k \in 1..n}
    BY <1>3, RangeEquality
  <2>2. \A k \in 1..n : Rest(m)[k] = m + k
    BY DEF Rest
  <2>3. \A s \in (m + 1)..NumSteps : s - m \in 1..n /\ m + (s - m) = s
    BY <1>1
  <2>4. QED
    BY <1>1, <2>1, <2>2, <2>3
<1>5. ASSUME m < NumSteps
      PROVE  Rest(m) # <<>> /\ Head(Rest(m)) = m + 1 /\ Tail(Rest(m)) = Rest(m + 1)
  <2>1. Rest(m) # <<>> /\ Head(Rest(m)) = m + 1
    BY <1>3, <1>5 DEF Rest
  <2>2. Tail(Rest(m)) \in Seq(Steps) /\ Len(Tail(Rest(m))) = n - 1
        /\ \A i \in 1..Len(Tail(Rest(m))) : Tail(Rest(m))[i] = Rest(m)[i + 1]
    BY <1>3, <2>1, HeadTailProperties
  <2>3. Rest(m + 1) \in Seq(Steps) /\ Len(Rest(m + 1)) = n - 1
        /\ \A i \in 1..(n - 1) : Rest(m + 1)[i] = m + 1 + i
    <3>1. Rest(m + 1) \in [1..(n - 1) -> Steps] /\ n - 1 \in Nat
      BY <1>5 DEF Rest, Steps
    <3>2. QED
      BY <3>1 DEF Rest
  <2>4. \A i \in 1..(n - 1) : Rest(m)[i + 1] = m + 1 + i
    BY <1>5 DEF Rest
  <2>5. QED
    BY <2>1, <2>2, <2>3, <2>4, SeqEqual
<1>6. QED
  BY <1>3, <1>4, <1>5

LEMMA ShapedReached ==
    ASSUME NEW r, Shaped(r.completed, r.pending)
    PROVE  /\ Reached(r) \in 0..NumSteps
           /\ Range(r.completed) = 1..Reached(r)
           /\ r.pending = Rest(Reached(r))
<1>1. PICK m \in 0..NumSteps : Range(r.completed) = 1..m /\ r.pending = Rest(m)
  BY DEF Shaped
<1>2. Reached(r) = m
  BY <1>1, RestShape, SizesAssumption DEF Reached
<1>3. QED
  BY <1>1, <1>2

(* The loop goes on with the step after those the attempt has reached. *)
LEMMA FirstRemaining ==
    ASSUME TypeOK, NEW a \in Attempts, Shaped(run[a].completed, run[a].pending)
    PROVE  /\ Remaining(a) = (Reached(run[a]) + 1)..NumSteps
           /\ Remaining(a) # {} <=> Reached(run[a]) < NumSteps
           /\ Reached(run[a]) < NumSteps => Step(a) = Reached(run[a]) + 1 /\ Step(a) \in Steps
<1> DEFINE m == Reached(run[a])
<1>1. m \in 0..NumSteps /\ Range(run[a].completed) = 1..m /\ NumSteps \in Nat
  BY ShapedReached, SizesAssumption
<1>2. run[a].completed \in Seq(Steps)
  BY DEF TypeOK
<1>3. \A s : Contains(run[a].completed, s) <=> s \in 1..m
  BY <1>1, <1>2, ContainsIsRange
<1>4. Remaining(a) = (m + 1)..NumSteps
  <2> HIDE DEF m
  <2> QED
    BY <1>1, <1>3 DEF Remaining, Steps
<1>5. ASSUME m < NumSteps PROVE Step(a) = m + 1 /\ Step(a) \in Steps
  <2> HIDE DEF m
  <2>1. m + 1 \in Remaining(a) /\ \A t \in Remaining(a) : t \in Nat /\ m + 1 <= t
    BY <1>1, <1>4, <1>5
  <2>2. Step(a) \in Remaining(a) /\ \A t \in Remaining(a) : Step(a) <= t
    BY <2>1 DEF Step
  <2>3. Step(a) = m + 1
    BY <1>1, <2>1, <2>2
  <2>4. QED
    BY <1>1, <1>5, <2>3 DEF Steps
<1>6. Remaining(a) # {} <=> m < NumSteps
  <2> HIDE DEF m
  <2>1. m < NumSteps => m + 1 \in Remaining(a)
    BY <1>1, <1>4
  <2>2. ~(m < NumSteps) => (m + 1)..NumSteps = {}
    BY <1>1
  <2>3. QED
    BY <1>4, <2>1, <2>2
<1>7. QED
  BY <1>4, <1>5, <1>6

(* Steps that are done with all the steps before them are the first ones. *)
LEMMA FirstSteps ==
    ASSUME NEW D, D \subseteq Steps, \A s \in D : 1..(s - 1) \subseteq D
    PROVE  \E m \in 0..NumSteps : D = 1..m
<1> USE SizesAssumption DEF Steps
<1> DEFINE T == {m \in 0..NumSteps : \A s \in D : s <= m}
<1>1. T \subseteq Nat /\ T # {}
  <2>1. NumSteps \in T /\ \A m \in T : m \in Nat
    OBVIOUS
  <2> HIDE DEF T
  <2>2. QED
    BY <2>1
<1>2. PICK m \in T : \A n \in T : m <= n
  <2> HIDE DEF T
  <2> QED
    BY <1>1, Least
<1>3. m = 0 \/ m \in D
  <2> SUFFICES ASSUME m # 0, m \notin D PROVE FALSE
    OBVIOUS
  <2>1. m - 1 \in T
    OBVIOUS
  <2>2. QED
    BY <1>2, <2>1
<1>4. D = 1..m
  <2>1. \A s \in D : s \in 1..m
    OBVIOUS
  <2>2. \A s \in 1..m : s \in D
    BY <1>3
  <2>3. QED
    BY <2>1, <2>2
<1>5. QED
  BY <1>4

LEMMA DoneFirst ==
    ASSUME TypeOK, DependenciesFirst
    PROVE  \E m \in 0..NumSteps : Done(log) = 1..m
<1>1. ASSUME NEW s \in Done(log), NEW t \in 1..(s - 1) PROVE t \in Done(log)
  <2>1. PICK k \in 1..Len(log) : log[k].type = "step.completed" /\ log[k].step = s
    BY <1>1 DEF Done, HasStep
  <2>2. t \in Needs(log[k])
    BY <1>1, <2>1 DEF Needs
  <2>3. PICK j \in 1..(k - 1) : log[j].type = "step.completed" /\ log[j].step = t
    BY <2>2 DEF DependenciesFirst
  <2>4. j \in 1..Len(log) /\ Len(log) \in Nat
    BY <2>1, <2>3 DEF TypeOK
  <2>5. t \in Steps
    BY <1>1, SizesAssumption DEF Done, Steps
  <2>6. QED
    BY <2>3, <2>4, <2>5 DEF Done, HasStep
<1>2. Done(log) \subseteq Steps
  BY DEF Done
<1>3. QED
  BY <1>1, <1>2, FirstSteps

----------------------------------------------------------------------------
(* The invariant of attempts that may overlap.  A log only grows, and all     *)
(* that AttemptOK and Lead ask of it stays true.                              *)

RunObjects == [resumed : BOOLEAN, completed : Seq(Steps), pending : Seq(Steps), spent : Nat,
               ambiguous : SUBSET Steps, approvals : SUBSET Gated, cost : Nat]
Outcomes == {"none", "completed", "awaiting", "rejected", "crashed"}

Grows(l, l2) == l2 = l \/ \E e \in Events : l2 = Append(l, e)

LEMMA GrowsKeeps ==
    ASSUME NEW l \in Seq(Events), NEW l2, Grows(l, l2)
    PROVE  /\ l2 \in Seq(Events)
           /\ Done(l) \subseteq Done(l2)
           /\ \A t : Has(l, t) => Has(l2, t)
           /\ \A t, s : HasStep(l, t, s) => HasStep(l2, t, s)
<1>1. CASE l2 = l
  BY <1>1
<1>2. ASSUME NEW e \in Events, l2 = Append(l, e)
      PROVE  /\ l2 \in Seq(Events)
             /\ Done(l) \subseteq Done(l2)
             /\ \A t : Has(l, t) => Has(l2, t)
             /\ \A t, s : HasStep(l, t, s) => HasStep(l2, t, s)
  <2>1. l2 \in Seq(Events)
    BY <1>2, AppendEvent
  <2>2. \A t : Has(l, t) => Has(l2, t)
    BY <1>2, HasAppend
  <2>3. \A t, s : HasStep(l, t, s) => HasStep(l2, t, s)
    BY <1>2, HasStepAppend
  <2>4. Done(l) \subseteq Done(l2)
    BY <2>3 DEF Done
  <2>5. QED
    BY <2>1, <2>2, <2>3, <2>4
<1>3. QED
  BY <1>1, <1>2 DEF Grows

LEMMA LeadGrows ==
    ASSUME NEW l \in Seq(Events), NEW l2, Grows(l, l2), NEW c, Lead(c, l)
    PROVE  Lead(c, l2)
BY GrowsKeeps DEF Lead

LEMMA AttemptGrows ==
    ASSUME NEW l \in Seq(Events), NEW l2, Grows(l, l2), NEW d, NEW d2, d \subseteq d2,
           NEW p, NEW r, AttemptOK(p, r, l, d)
    PROVE  AttemptOK(p, r, l2, d2)
<1>1. Lead(r.completed, l2)
  BY LeadGrows DEF AttemptOK
<1>2. Done(l) \subseteq Done(l2) /\ (Has(l, "run.completed") => Has(l2, "run.completed"))
      /\ \A s : HasStep(l, "step.started", s) => HasStep(l2, "step.started", s)
  BY GrowsKeeps
<1>3. QED
  BY <1>1, <1>2 DEF AttemptOK

\* The phases that ask nothing of the log.
Idle == {"new", "fail", "saveFailure", "ended", "crashed"}

LEMMA IdleOK ==
    ASSUME NEW p, NEW r, NEW l, NEW d, AttemptOK(p, r, l, d), NEW q \in Idle
    PROVE  AttemptOK(q, r, l, d)
BY DEF AttemptOK, Idle, Synced

LEMMA OnwardOK ==
    ASSUME NEW p \in Synced, NEW r, NEW l, NEW d, AttemptOK(p, r, l, d),
           NEW q \in {"announce", "govern", "loop", "park", "prepare", "save"},
           q \in {"park", "prepare"} => Reached(r) < NumSteps
    PROVE  AttemptOK(q, r, l, d)
BY DEF AttemptOK, Synced

\* One attempt moves, the others are left where they were.
LEMMA OneMoves ==
    ASSUME TypeOK, AttemptsInv, NEW a \in Attempts, NEW q, NEW r,
           Grows(log, log'), delivered \subseteq delivered',
           phase' = [phase EXCEPT ![a] = q], run' = [run EXCEPT ![a] = r],
           AttemptOK(q, r, log', delivered')
    PROVE  AttemptsInv'
<1>1. log \in Seq(Events) /\ DOMAIN phase = Attempts /\ DOMAIN run = Attempts
  BY DEF TypeOK
<1>2. ASSUME NEW b \in Attempts PROVE AttemptOK(phase'[b], run'[b], log', delivered')
  <2>1. CASE b = a
    BY <1>1, <2>1
  <2>2. CASE b # a
    <3>1. phase'[b] = phase[b] /\ run'[b] = run[b] /\ AttemptOK(phase[b], run[b], log, delivered)
      BY <1>1, <2>2 DEF AttemptsInv
    <3>2. AttemptOK(phase[b], run[b], log', delivered')
      BY <1>1, <3>1, AttemptGrows
    <3>3. QED
      BY <3>1, <3>2
  <2>3. QED
    BY <2>1, <2>2
<1>3. QED
  BY <1>2 DEF AttemptsInv

LEMMA LogStays ==
    ASSUME LogInv, log' = log, delivered \subseteq delivered'
    PROVE  LogInv'
BY DEF LogInv, DependenciesFirst

LEMMA LogGrows ==
    ASSUME TypeOK, LogInv, NEW e \in Events, log' = Append(log, e), delivered \subseteq delivered',
           Needs(e) \subseteq Done(log), e.type = "step.completed" => e.step \in delivered
    PROVE  LogInv'
<1>1. /\ Len(log') = Len(log) + 1 /\ Len(log) \in Nat /\ log'[Len(log) + 1] = e
      /\ \A k \in 1..Len(log) : log'[k] = log[k]
  BY AppendEvent DEF TypeOK
<1>2. Done(log') \subseteq delivered'
  <2>1. Done(log') = IF e.type = "step.completed" THEN Done(log) \cup {e.step} ELSE Done(log)
    BY DoneAppend DEF TypeOK
  <2>2. QED
    BY <2>1 DEF LogInv
<1>3. ASSUME NEW k \in 1..Len(log'), NEW s \in Needs(log'[k])
      PROVE  \E j \in 1..(k - 1) : log'[j].type = "step.completed" /\ log'[j].step = s
  <2>1. CASE k \in 1..Len(log)
    <3>1. s \in Needs(log[k])
      BY <1>1, <1>3, <2>1
    <3>2. PICK j \in 1..(k - 1) : log[j].type = "step.completed" /\ log[j].step = s
      BY <2>1, <3>1 DEF LogInv, DependenciesFirst
    <3>3. j \in 1..Len(log)
      BY <1>1, <2>1
    <3>4. QED
      BY <1>1, <3>2, <3>3
  <2>2. CASE k = Len(log) + 1
    <3>1. s \in Done(log)
      BY <1>1, <1>3, <2>2
    <3>2. PICK j \in 1..Len(log) : log[j].type = "step.completed" /\ log[j].step = s
      BY <3>1 DEF Done, HasStep
    <3>3. j \in 1..(k - 1) /\ log'[j] = log[j]
      BY <1>1, <2>2
    <3>4. QED
      BY <3>2, <3>3
  <2>3. QED
    BY <1>1, <2>1, <2>2
<1>4. QED
  BY <1>2, <1>3 DEF LogInv, DependenciesFirst

\* What a step of attempt a may leave in either file, whichever of them the name
\* belongs to by then.
Left(a)      == {checkpoint, temp, NoCheckpoint, EmptyFile, TornFile, Saved(a)}
FilesKept(a) == checkpoint' \in Left(a) /\ temp' \in Left(a) /\ handle' \in [Attempts -> Handles]

LEMMA FilesStay ==
    ASSUME TypeOK, NEW a \in Attempts, UNCHANGED fileVars
    PROVE  FilesKept(a)
BY DEF fileVars, FilesKept, Left, TypeOK

LEMMA FilesCutShort ==
    ASSUME TypeOK, NEW a \in Attempts, CutShort(a)
    PROVE  FilesKept(a)
BY DEF CutShort, Open, Now, Leave, FilesKept, Left, TypeOK, Handles

LEMMA FilesSaved ==
    ASSUME TypeOK, NEW a \in Attempts, CheckpointThen(a, TRUE, TRUE)
    PROVE  FilesKept(a)
<1>1. CASE CutShort(a)
  BY <1>1, FilesCutShort
<1>2. CASE ~CutShort(a)
  <2>1. /\ checkpoint' = temp /\ temp' = NoCheckpoint
        /\ handle' = [b \in Attempts |-> CASE b = a                -> "none"
                                           [] handle[b] = "temp"   -> "target"
                                           [] handle[b] = "target" -> "unlinked"
                                           [] OTHER                -> handle[b]]
    BY <1>2 DEF CheckpointThen
  <2>2. handle' \in [Attempts -> Handles]
    BY <2>1 DEF TypeOK, Handles
  <2>3. QED
    BY <2>1, <2>2 DEF FilesKept, Left
<1>3. QED
  BY <1>1, <1>2

LEMMA FilesWritten ==
    ASSUME TypeOK, NEW a \in Attempts, OpenTemp(a) \/ FillTemp(a)
    PROVE  FilesKept(a)
<1>1. CASE OpenTemp(a)
  BY <1>1 DEF OpenTemp, FilesKept, Left, TypeOK, Handles
<1>2. CASE FillTemp(a)
  <2>1. PICK c \in {Saved(a), TornFile} : Leave(a, c, "closed")
    BY <1>2 DEF FillTemp
  <2>2. QED
    BY <2>1 DEF Leave, FilesKept, Left, TypeOK, Handles
<1>3. QED
  BY <1>1, <1>2

\* The record an attempt is about to write is what it has done.
LEMMA SavedOK ==
    ASSUME TypeOK, AttemptsInv, NEW a \in Attempts
    PROVE  FileOK(Saved(a), log, delivered) /\ Saved(a) \in Checkpoints
<1> DEFINE r == run[a]
<1>1. AttemptOK(phase[a], r, log, delivered) /\ r \in RunObjects
  BY DEF AttemptsInv, TypeOK, RunObjects
<1>2. Shaped(r.completed, r.pending) /\ 1..Reached(r) \subseteq delivered /\ Lead(r.completed, log)
      /\ (phase[a] = "saveResult" => Has(log, "run.completed"))
  BY <1>1 DEF AttemptOK
<1>3. Range(r.completed) \subseteq delivered
  BY <1>2, ShapedReached
<1>4. PICK status \in {"awaiting", "completed", "recovery"} :
         Saved(a) = Recovery(r, status) /\ (status = "completed" => phase[a] = "saveResult")
  <2>1. CASE phase[a] = "park"
    BY <2>1 DEF Saved
  <2>2. CASE phase[a] = "saveResult"
    BY <2>2 DEF Saved
  <2>3. CASE phase[a] \notin {"park", "saveResult"}
    BY <2>3 DEF Saved
  <2>4. QED
    BY <2>1, <2>2, <2>3
<1>5. /\ Saved(a).completed = r.completed /\ Saved(a).pending = r.pending
      /\ Saved(a).status = status
  BY <1>4 DEF Recovery
<1>6. Saved(a) \in Checkpoints
  BY <1>1, <1>4 DEF Recovery, RunObjects, Checkpoints
<1>7. QED
  <2> HIDE DEF r
  <2> QED
    BY <1>2, <1>3, <1>4, <1>5, <1>6 DEF FileOK

LEMMA FileGrows ==
    ASSUME NEW l \in Seq(Events), NEW l2, Grows(l, l2), NEW d, NEW d2, d \subseteq d2,
           NEW file, FileOK(file, l, d)
    PROVE  FileOK(file, l2, d2)
<1> SUFFICES ASSUME Holds(file)
             PROVE  /\ Range(file.completed) \subseteq d2
                    /\ Lead(file.completed, l2)
                    /\ Shaped(file.completed, file.pending)
                    /\ file.status = "completed" => Has(l2, "run.completed")
  BY DEF FileOK
<1>1. Lead(file.completed, l2)
  BY LeadGrows DEF FileOK
<1>2. Has(l, "run.completed") => Has(l2, "run.completed")
  BY GrowsKeeps
<1>3. QED
  BY <1>1, <1>2 DEF FileOK

LEMMA FilesStepKeeps ==
    ASSUME TypeOK, AttemptsInv, CheckpointInv, NEW a \in Attempts, FilesKept(a),
           Grows(log, log'), delivered \subseteq delivered'
    PROVE  /\ CheckpointInv' /\ checkpoint' \in Checkpoints /\ temp' \in Checkpoints
           /\ handle' \in [Attempts -> Handles]
<1>1. /\ NoCheckpoint \in Checkpoints /\ EmptyFile \in Checkpoints /\ TornFile \in Checkpoints
      /\ ~Holds(NoCheckpoint) /\ ~Holds(EmptyFile) /\ ~Holds(TornFile)
  <2>1. NoCheckpoint = [status |-> "none", completed |-> <<>>, pending |-> <<>>, spent |-> 0]
    BY DEF NoCheckpoint
  <2>2. EmptyFile = [status |-> "empty", completed |-> <<>>, pending |-> <<>>, spent |-> 0]
    BY <2>1 DEF EmptyFile
  <2>3. TornFile = [status |-> "torn", completed |-> <<>>, pending |-> <<>>, spent |-> 0]
    BY <2>1 DEF TornFile
  <2> HIDE DEF NoCheckpoint, EmptyFile, TornFile
  <2>4. <<>> \in Seq(Steps)
    OBVIOUS
  <2>5. QED
    BY <2>1, <2>2, <2>3, <2>4 DEF Holds, Checkpoints
<1>2. \A file \in Left(a) : file \in Checkpoints /\ FileOK(file, log, delivered)
  BY <1>1, SavedOK DEF Left, CheckpointInv, FileOK, TypeOK
<1>3. log \in Seq(Events)
  BY DEF TypeOK
<1>4. \A file \in Left(a) : FileOK(file, log', delivered')
  BY <1>2, <1>3, FileGrows
<1>5. QED
  BY <1>2, <1>4 DEF FilesKept, CheckpointInv

----------------------------------------------------------------------------
(* The steps of one attempt, by what they touch.                              *)

LEMMA EventsMade ==
    /\ \A t \in RunTypes : RunEvent(t) \in Events /\ RunEvent(t).type = t
    /\ \A t \in StepTypes, s \in Steps :
          StepEvent(t, s) \in Events /\ StepEvent(t, s).type = t /\ StepEvent(t, s).step = s
    /\ \A s \in Steps, c \in Nat :
          /\ StepCompleted(s, c) \in Events /\ StepCompleted(s, c).type = "step.completed"
          /\ StepCompleted(s, c).step = s /\ StepCompleted(s, c).cost = c
BY DEF RunEvent, StepEvent, StepCompleted, Events, RunTypes, StepTypes

\* e may come next in the log.
Allowed(e) == e \in Events /\ Needs(e) \subseteq Done(log) /\ (e.type = "step.completed" => e.step \in delivered)

\* The attempt moves to q, and its outcome is settled or left.
Moves(a, q) == /\ phase' = [phase EXCEPT ![a] = q]
               /\ outcome' = outcome \/ \E o \in Outcomes : outcome' = [outcome EXCEPT ![a] = o]

LEMMA RunKept ==
    ASSUME TypeOK, NEW a \in Attempts, run' = run
    PROVE  run' = [run EXCEPT ![a] = run[a]]
BY DEF TypeOK

LEMMA AppendMoves ==
    ASSUME SharedInv, NEW a \in Attempts, NEW q \in Phases, Moves(a, q), NEW e, Allowed(e),
           log' \in {log, Append(log, e)}, UNCHANGED <<fileVars, run, invoked, delivered, consumed>>,
           AttemptOK(q, run[a], log', delivered)
    PROVE  SharedInv'
<1> USE DEF SharedInv
<1>1. Grows(log, log') /\ log' \in Seq(Events)
  BY AppendEvent DEF Grows, Allowed, TypeOK
<1>2. TypeOK'
  <2>1. phase' \in [Attempts -> Phases]
    BY DEF TypeOK, Moves
  <2>2. outcome' \in [Attempts -> Outcomes]
    BY DEF TypeOK, Moves, Outcomes
  <2>3. QED
    BY <1>1, <2>1, <2>2 DEF TypeOK, Outcomes, fileVars
<1>3. LogInv'
  <2>1. CASE log' = log
    BY <2>1, LogStays
  <2>2. CASE log' = Append(log, e)
    BY <2>2, LogGrows DEF Allowed
  <2>3. QED
    BY <2>1, <2>2
<1>4. AttemptsInv'
  <2>1. run' = [run EXCEPT ![a] = run[a]]
    BY RunKept
  <2>2. QED
    BY <1>1, <2>1, OneMoves DEF Moves
<1>5. CheckpointInv'
  BY <1>1, FilesStay, FilesStepKeeps
<1>6. QED
  BY <1>2, <1>3, <1>4, <1>5

\* The append fails, and its event has landed or not.
LEMMA AppendFails ==
    ASSUME SharedInv, NEW a \in Attempts, NEW q \in Phases \cap Idle, Moves(a, q), NEW e, Allowed(e),
           log' \in {log, Append(log, e)}, UNCHANGED <<fileVars, run, invoked, delivered, consumed>>
    PROVE  SharedInv'
<1>1. AttemptOK(phase[a], run[a], log, delivered) /\ log \in Seq(Events)
  BY DEF SharedInv, AttemptsInv, TypeOK
<1>2. Grows(log, log')
  BY DEF Grows, Allowed
<1>3. AttemptOK(q, run[a], log', delivered)
  BY <1>1, <1>2, AttemptGrows, IdleOK
<1>4. QED
  BY <1>3, AppendMoves

LEMMA LocalMoves ==
    ASSUME SharedInv, NEW a \in Attempts, NEW q \in Phases, Moves(a, q), NEW r \in RunObjects,
           run' = [run EXCEPT ![a] = r], log' = log, FilesKept(a),
           delivered \subseteq delivered', delivered' \subseteq Steps, consumed' \in Nat,
           invoked' \in [Steps -> Nat], AttemptOK(q, r, log, delivered')
    PROVE  SharedInv'
<1> USE DEF SharedInv
<1>1. Grows(log, log')
  BY DEF Grows
<1>2. /\ CheckpointInv' /\ checkpoint' \in Checkpoints /\ temp' \in Checkpoints
      /\ handle' \in [Attempts -> Handles]
  BY <1>1, FilesStepKeeps
<1>3. TypeOK'
  <2>1. phase' \in [Attempts -> Phases]
    BY DEF TypeOK, Moves
  <2>2. outcome' \in [Attempts -> Outcomes]
    BY DEF TypeOK, Moves, Outcomes
  <2>3. run' \in [Attempts -> RunObjects]
    BY DEF TypeOK, RunObjects
  <2>4. QED
    BY <1>2, <2>1, <2>2, <2>3 DEF TypeOK, Outcomes, RunObjects
<1>4. AttemptsInv'
  BY <1>1, OneMoves DEF Moves
<1>5. LogInv'
  BY LogStays
<1>6. QED
  BY <1>2, <1>3, <1>4, <1>5

----------------------------------------------------------------------------
(* The steps of one attempt, one by one.                                      *)

LEMMA AttemptFacts ==
    ASSUME SharedInv, NEW a \in Attempts
    PROVE  /\ run[a] \in RunObjects /\ phase[a] \in Phases /\ log \in Seq(Events)
           /\ AttemptOK(phase[a], run[a], log, delivered)
           /\ Reached(run[a]) \in 0..NumSteps /\ Range(run[a].completed) = 1..Reached(run[a])
           /\ run[a].pending = Rest(Reached(run[a]))
           /\ Remaining(a) # {} <=> Reached(run[a]) < NumSteps
           /\ Reached(run[a]) < NumSteps => Step(a) = Reached(run[a]) + 1 /\ Step(a) \in Steps
<1>1. run[a] \in RunObjects /\ phase[a] \in Phases /\ log \in Seq(Events)
  BY DEF SharedInv, TypeOK, RunObjects
<1>2. AttemptOK(phase[a], run[a], log, delivered)
  BY DEF SharedInv, AttemptsInv
<1>3. Shaped(run[a].completed, run[a].pending)
  BY <1>2 DEF AttemptOK
<1>4. QED
  BY <1>1, <1>2, <1>3, ShapedReached, FirstRemaining DEF SharedInv

\* An event that no step has to precede.
LEMMA Harmless ==
    ASSUME NEW e \in Events,
           e.type \notin {"step.started", "step.completed", "run.completed"}
    PROVE  Allowed(e)
BY DEF Allowed, Needs

LEMMA SharedAnnounce ==
    ASSUME SharedInv, NEW a \in Attempts, Announce(a) \/ Govern(a)
    PROVE  SharedInv'
<1>1. PICK t \in {"run.started", "run.resumed", "governance.verified"} :
         /\ phase[a] \in {"announce", "govern"}
         /\ \/ log' = Append(log, RunEvent(t)) /\ \E q \in {"govern", "loop"} : Goto(a, q)
            \/ log' \in {log, Append(log, RunEvent(t))} /\ End(a, "rejected")
         /\ UNCHANGED <<fileVars, run, invoked, delivered, consumed>>
  BY DEF Announce, Govern, AppendThen
<1>2. t \in RunTypes /\ Allowed(RunEvent(t))
  BY EventsMade, Harmless DEF RunTypes
<1>3. log \in Seq(Events) /\ AttemptOK(phase[a], run[a], log, delivered) /\ phase[a] \in Synced
  BY <1>1, AttemptFacts DEF Synced
<1>4. ASSUME log' = Append(log, RunEvent(t)), NEW q \in {"govern", "loop"}, Goto(a, q)
      PROVE  SharedInv'
  <2>1. Grows(log, log')
    BY <1>2, <1>4 DEF Grows, Allowed
  <2>2. AttemptOK(phase[a], run[a], log', delivered)
    BY <1>3, <2>1, AttemptGrows
  <2>3. AttemptOK(q, run[a], log', delivered)
    BY <1>3, <1>4, <2>2, OnwardOK
  <2>4. Moves(a, q) /\ q \in Phases
    BY <1>4 DEF Moves, Goto, Phases
  <2>5. QED
    BY <1>1, <1>2, <1>4, <2>3, <2>4, AppendMoves
<1>5. ASSUME log' \in {log, Append(log, RunEvent(t))}, End(a, "rejected")
      PROVE  SharedInv'
  <2>1. Moves(a, "ended") /\ "ended" \in Phases \cap Idle
    BY <1>5 DEF Moves, End, Phases, Idle, Outcomes
  <2>2. QED
    BY <1>1, <1>2, <1>5, <2>1, AppendFails
<1>6. QED
  BY <1>1, <1>4, <1>5

\* The failing half of AppendThen, for the steps inside the try block.
LEMMA SharedAppendFails ==
    ASSUME SharedInv, NEW a \in Attempts, NEW e, Allowed(e), log' \in {log, Append(log, e)}, Goto(a, "fail"),
           UNCHANGED <<fileVars, run, invoked, delivered, consumed>>
    PROVE  SharedInv'
<1>1. Moves(a, "fail") /\ "fail" \in Phases \cap Idle
  BY DEF Moves, Goto, Phases, Idle
<1>2. QED
  BY <1>1, AppendFails

LEMMA SharedApproval ==
    ASSUME SharedInv, NEW a \in Attempts, AwaitApproval(a) \/ VerifyApproval(a)
    PROVE  SharedInv'
<1>1. PICK t \in {"run.awaiting-approval", "step.approval-verified"}, q \in {"park", "prepare"} :
         /\ AtStep(a)
         /\ \/ log' = Append(log, StepEvent(t, Step(a))) /\ Goto(a, q)
            \/ log' \in {log, Append(log, StepEvent(t, Step(a)))} /\ Goto(a, "fail")
         /\ UNCHANGED <<fileVars, run, invoked, delivered, consumed>>
  BY DEF AwaitApproval, VerifyApproval, AppendThen
<1>2. /\ log \in Seq(Events) /\ AttemptOK(phase[a], run[a], log, delivered)
      /\ phase[a] \in Synced /\ Reached(run[a]) < NumSteps /\ Step(a) \in Steps
  BY <1>1, AttemptFacts DEF Synced, AtStep
<1>3. Allowed(StepEvent(t, Step(a)))
  BY <1>2, EventsMade, Harmless DEF StepTypes
<1>4. ASSUME log' = Append(log, StepEvent(t, Step(a))), Goto(a, q)
      PROVE  SharedInv'
  <2>1. Grows(log, log')
    BY <1>3, <1>4 DEF Grows, Allowed
  <2>2. AttemptOK(phase[a], run[a], log', delivered)
    BY <1>2, <2>1, AttemptGrows
  <2>3. AttemptOK(q, run[a], log', delivered)
    BY <1>2, <2>2, OnwardOK
  <2>4. Moves(a, q) /\ q \in Phases
    BY <1>4 DEF Moves, Goto, Phases
  <2>5. QED
    BY <1>1, <1>3, <1>4, <2>3, <2>4, AppendMoves
<1>5. QED
  BY <1>1, <1>3, <1>4, SharedAppendFails

LEMMA SharedStart ==
    ASSUME SharedInv, NEW a \in Attempts, StartStep(a)
    PROVE  SharedInv'
<1> DEFINE s == Step(a)
           e == StepEvent("step.started", s)
<1>1. /\ phase[a] \in {"loop", "prepare"} /\ AttemptOK(phase[a], run[a], log, delivered)
      /\ log \in Seq(Events) /\ Reached(run[a]) \in 0..NumSteps
      /\ Reached(run[a]) < NumSteps /\ s = Reached(run[a]) + 1 /\ s \in Steps
  BY AttemptFacts DEF StartStep, ToPrepare, AtStep, AttemptOK
<1>2. 1..Reached(run[a]) \subseteq Done(log)
  BY <1>1 DEF AttemptOK, Synced
<1>3. Allowed(e)
  <2>1. e \in Events /\ e.type = "step.started" /\ e.step = s
    BY <1>1, EventsMade DEF StepTypes
  <2>2. Needs(e) = 1..(s - 1) /\ s - 1 = Reached(run[a])
    BY <1>1, <2>1 DEF Needs
  <2>3. QED
    BY <1>2, <2>1, <2>2 DEF Allowed
<1>4. ASSUME log' = Append(log, e), Goto(a, "invoke"),
             UNCHANGED <<fileVars, run, invoked, delivered, consumed>>
      PROVE  SharedInv'
  <2>1. Grows(log, log')
    BY <1>3, <1>4 DEF Grows, Allowed
  <2>2. AttemptOK(phase[a], run[a], log', delivered)
    BY <1>1, <2>1, AttemptGrows
  <2>3. HasStep(log', "step.started", Reached(run[a]) + 1)
    BY <1>1, <1>3, <1>4, HasStepAppend, EventsMade DEF Allowed, StepTypes
  <2>4. AttemptOK("invoke", run[a], log', delivered)
    BY <1>1, <2>2, <2>3 DEF AttemptOK, Synced
  <2>5. Moves(a, "invoke") /\ "invoke" \in Phases
    BY <1>4 DEF Moves, Goto, Phases
  <2> HIDE DEF e
  <2>6. QED
    BY <1>3, <1>4, <2>4, <2>5, AppendMoves
<1>5. QED
  BY <1>3, <1>4, SharedAppendFails DEF StartStep, AppendThen

LEMMA SharedComplete ==
    ASSUME SharedInv, NEW a \in Attempts, RecordCompletion(a)
    PROVE  SharedInv'
<1> DEFINE m == Reached(run[a])
           e == StepCompleted(Last(run[a].completed), run[a].cost)
<1>1. /\ phase[a] = "complete" /\ AttemptOK("complete", run[a], log, delivered)
      /\ log \in Seq(Events) /\ m \in 0..NumSteps /\ run[a].cost \in Nat
  BY AttemptFacts DEF RecordCompletion, RunObjects
<1>2. /\ m > 0 /\ Last(run[a].completed) = m /\ 1..(m - 1) \subseteq Done(log) /\ 1..m \subseteq delivered
      /\ m \in Steps
  BY <1>1 DEF AttemptOK, Steps
<1>3. e \in Events /\ e.type = "step.completed" /\ e.step = m
  BY <1>1, <1>2, EventsMade
<1>4. Allowed(e)
  <2>1. Needs(e) = 1..(m - 1)
    BY <1>3 DEF Needs
  <2>2. m \in delivered
    BY <1>1, <1>2
  <2>3. QED
    BY <1>2, <1>3, <2>1, <2>2 DEF Allowed
<1>5. ASSUME log' = Append(log, e), Goto(a, "save"),
             UNCHANGED <<fileVars, run, invoked, delivered, consumed>>
      PROVE  SharedInv'
  <2>1. Grows(log, log')
    BY <1>3, <1>5 DEF Grows
  <2>2. AttemptOK("complete", run[a], log', delivered)
    BY <1>1, <2>1, AttemptGrows
  <2>3. Done(log') = Done(log) \cup {m}
    BY <1>1, <1>3, <1>5, DoneAppend
  <2>4. 1..m \subseteq Done(log')
    BY <1>1, <1>2, <2>3
  <2>5. AttemptOK("save", run[a], log', delivered)
    BY <2>2, <2>4 DEF AttemptOK, Synced
  <2>6. Moves(a, "save") /\ "save" \in Phases
    BY <1>5 DEF Moves, Goto, Phases
  <2> HIDE DEF e, m
  <2>7. QED
    BY <1>4, <1>5, <2>5, <2>6, AppendMoves
<1>6. QED
  BY <1>4, <1>5, SharedAppendFails DEF RecordCompletion, AppendThen

LEMMA SharedFinish ==
    ASSUME SharedInv, NEW a \in Attempts, Finish(a)
    PROVE  SharedInv'
<1> DEFINE e == RunEvent("run.completed")
<1>1. /\ phase[a] = "loop" /\ AttemptOK("loop", run[a], log, delivered)
      /\ log \in Seq(Events) /\ Reached(run[a]) = NumSteps
  BY AttemptFacts, SizesAssumption DEF Finish
<1>2. e \in Events /\ e.type = "run.completed"
  BY EventsMade DEF RunTypes
<1>3. Allowed(e)
  <2>1. Steps \subseteq Done(log)
    BY <1>1 DEF AttemptOK, Synced, Steps
  <2>2. Needs(e) = Steps
    BY <1>2 DEF Needs
  <2>3. QED
    BY <1>2, <2>1, <2>2 DEF Allowed
<1>4. ASSUME log' = Append(log, e), Goto(a, "saveResult"),
             UNCHANGED <<fileVars, run, invoked, delivered, consumed>>
      PROVE  SharedInv'
  <2>1. Grows(log, log')
    BY <1>2, <1>4 DEF Grows
  <2>2. AttemptOK("loop", run[a], log', delivered)
    BY <1>1, <2>1, AttemptGrows
  <2>3. Has(log', "run.completed")
    BY <1>1, <1>2, <1>4, HasAppend
  <2>4. AttemptOK("saveResult", run[a], log', delivered)
    BY <1>1, <2>2, <2>3 DEF AttemptOK, Synced
  <2>5. Moves(a, "saveResult") /\ "saveResult" \in Phases
    BY <1>4 DEF Moves, Goto, Phases
  <2> HIDE DEF e
  <2>6. QED
    BY <1>3, <1>4, <2>4, <2>5, AppendMoves
<1>5. QED
  BY <1>3, <1>4, SharedAppendFails DEF Finish, AppendThen

LEMMA SharedFailure ==
    ASSUME SharedInv, NEW a \in Attempts, RecordFailure(a)
    PROVE  SharedInv'
<1>1. PICK q \in {"saveFailure", "ended"} : Moves(a, q)
  BY DEF RecordFailure, AppendThen, Goto, End, Moves, Outcomes
<1>2. q \in Phases \cap Idle
  BY DEF Phases, Idle
<1>3. Allowed(RunEvent("run.failed"))
  BY EventsMade, Harmless DEF RunTypes
<1>4. /\ log' \in {log, Append(log, RunEvent("run.failed"))}
      /\ UNCHANGED <<fileVars, run, invoked, delivered, consumed>>
  BY DEF RecordFailure, AppendThen
<1>5. QED
  BY <1>1, <1>2, <1>3, <1>4, AppendFails

\* The operations on the two files.
LEMMA SharedSave ==
    ASSUME SharedInv, NEW a \in Attempts,
           Park(a) \/ SaveProgress(a) \/ SaveResult(a) \/ SaveFailure(a) \/ OpenTemp(a) \/ FillTemp(a)
    PROVE  SharedInv'
<1>1. phase[a] \in Phases /\ AttemptOK(phase[a], run[a], log, delivered) /\ run[a] \in RunObjects
  BY AttemptFacts
<1>2. PICK q \in {"loop", "fail", "ended", phase[a]} :
         /\ FilesKept(a) /\ Moves(a, q)
         /\ UNCHANGED <<log, run, invoked, delivered, consumed>>
         /\ q = "loop" => phase[a] \in {"save", "loop"}
  <2> USE DEF SharedInv
  <2>1. CASE Park(a) \/ SaveProgress(a) \/ SaveResult(a) \/ SaveFailure(a)
    <3>1. CheckpointThen(a, TRUE, TRUE)
      BY <2>1 DEF Park, SaveProgress, SaveResult, SaveFailure, CheckpointThen
    <3>2. FilesKept(a)
      BY <3>1, FilesSaved
    <3>3. UNCHANGED <<log, run, invoked, delivered, consumed>>
      BY <2>1 DEF Park, SaveProgress, SaveResult, SaveFailure
    <3>4. CASE Park(a)
      BY <3>2, <3>3, <3>4 DEF Park, CheckpointThen, Goto, End, Moves, Outcomes
    <3>5. CASE SaveProgress(a)
      BY <3>2, <3>3, <3>5 DEF SaveProgress, CheckpointThen, Goto, Moves
    <3>6. CASE SaveResult(a)
      BY <3>2, <3>3, <3>6 DEF SaveResult, CheckpointThen, Goto, End, Moves, Outcomes
    <3>7. CASE SaveFailure(a)
      BY <3>2, <3>3, <3>7 DEF SaveFailure, CheckpointThen, End, Moves, Outcomes
    <3>8. QED
      BY <2>1, <3>4, <3>5, <3>6, <3>7
  <2>2. CASE OpenTemp(a) \/ FillTemp(a)
    <3>1. FilesKept(a)
      BY <2>2, FilesWritten
    <3>2. UNCHANGED <<log, phase, run, outcome, invoked, delivered, consumed>>
      BY <2>2 DEF OpenTemp, FillTemp
    <3>3. Moves(a, phase[a])
      BY <3>2 DEF Moves, TypeOK
    <3>4. QED
      BY <3>1, <3>2, <3>3
  <2>3. QED
    BY <2>1, <2>2
<1>3. AttemptOK(q, run[a], log, delivered)
  BY <1>1, <1>2, IdleOK, OnwardOK DEF Idle, Synced
<1>4. q \in Phases /\ run' = [run EXCEPT ![a] = run[a]]
  BY <1>1, <1>2, RunKept DEF Phases, SharedInv
<1>5. delivered' \subseteq Steps /\ consumed' \in Nat /\ invoked' \in [Steps -> Nat]
  BY <1>2 DEF SharedInv, TypeOK
<1>6. QED
  BY <1>1, <1>2, <1>3, <1>4, <1>5, LocalMoves

\* The steps that touch the phases and counters only.
LEMMA SharedLocal ==
    ASSUME SharedInv, NEW a \in Attempts, NEW q \in {"fail", "ended", "crashed", "answer"}, Moves(a, q),
           q = "answer" => phase[a] = "invoke",
           FilesKept(a), UNCHANGED <<log, run, delivered>>,
           consumed' \in Nat, invoked' \in [Steps -> Nat]
    PROVE  SharedInv'
<1>1. run[a] \in RunObjects /\ AttemptOK(phase[a], run[a], log, delivered)
  BY AttemptFacts
<1>2. AttemptOK(q, run[a], log, delivered')
  <2>1. CASE q \in Idle
    BY <1>1, <2>1, IdleOK
  <2>2. CASE q = "answer"
    BY <1>1, <2>2 DEF AttemptOK, Synced
  <2>3. QED
    BY <2>1, <2>2 DEF Idle
<1>3. run' = [run EXCEPT ![a] = run[a]] /\ delivered' \subseteq Steps
  BY RunKept DEF SharedInv, TypeOK
<1>4. q \in Phases
  BY DEF Phases
<1>5. QED
  BY <1>1, <1>2, <1>3, <1>4, LocalMoves

LEMMA SharedQuiet ==
    ASSUME SharedInv, NEW a \in Attempts,
           RefuseBegin(a) \/ Abort(a) \/ RefuseStep(a) \/ Crash(a) \/ Invoke(a) \/ AnswerRefused(a)
    PROVE  SharedInv'
<1>1. consumed \in Nat /\ invoked \in [Steps -> Nat] /\ FilesKept(a)
  <2>1. CASE Crash(a)
    BY <2>1, FilesCutShort DEF Crash, SharedInv, TypeOK
  <2>2. CASE ~Crash(a)
    <3>1. UNCHANGED fileVars
      BY <2>2 DEF RefuseBegin, Abort, RefuseStep, Invoke, AnswerRefused
    <3>2. QED
      BY <3>1, FilesStay DEF SharedInv, TypeOK
  <2>3. QED
    BY <2>1, <2>2
<1>2. CASE RefuseBegin(a)
  <2>1. Moves(a, "ended")
    BY <1>2 DEF RefuseBegin, End, Moves, Outcomes
  <2>2. QED
    BY <1>1, <1>2, <2>1, SharedLocal DEF RefuseBegin
<1>3. CASE Abort(a) \/ RefuseStep(a)
  <2>1. Moves(a, "fail")
    BY <1>3 DEF Abort, RefuseStep, Goto, Moves
  <2>2. QED
    BY <1>1, <1>3, <2>1, SharedLocal DEF Abort, RefuseStep
<1>4. CASE Crash(a)
  <2>1. Moves(a, "crashed")
    BY <1>4 DEF Crash, Moves, Outcomes
  <2>2. QED
    BY <1>1, <1>4, <2>1, SharedLocal DEF Crash
<1>5. CASE Invoke(a)
  <2>1. phase[a] = "invoke" /\ Moves(a, "answer")
    BY <1>5 DEF Invoke, Goto, Moves
  <2>2. Step(a) \in Steps
    BY <2>1, AttemptFacts DEF AttemptOK
  <2>3. invoked' \in [Steps -> Nat]
    BY <1>1, <1>5, <2>2 DEF Invoke
  <2>4. QED
    BY <1>1, <1>5, <2>1, <2>3, SharedLocal DEF Invoke
<1>6. CASE AnswerRefused(a)
  <2>1. Moves(a, "fail")
    BY <1>6 DEF AnswerRefused, Goto, Moves
  <2>2. Step(a) \in Steps
    BY <1>6, AttemptFacts DEF AnswerRefused, AttemptOK
  <2>3. consumed' \in Nat
    BY <1>1, <1>6, <2>2, CostAssumption DEF AnswerRefused
  <2>4. QED
    BY <1>1, <1>6, <2>1, <2>3, SharedLocal DEF AnswerRefused
<1>7. QED
  BY <1>2, <1>3, <1>4, <1>5, <1>6

\* The run object that Answer leaves.
LEMMA Answered ==
    ASSUME SharedInv, NEW a \in Attempts, phase[a] = "answer", NEW cost \in Nat, NEW r,
           r = [run[a] EXCEPT !.completed = Append(@, Step(a)), !.pending = Tail(@),
                              !.spent = @ + cost, !.cost = cost]
    PROVE  /\ r \in RunObjects /\ Reached(r) = Reached(run[a]) + 1 /\ Step(a) = Reached(r)
           /\ Reached(r) \in Steps /\ Last(r.completed) = Reached(r)
           /\ AttemptOK("complete", r, log, delivered \cup {Step(a)})
<1> DEFINE m == Reached(run[a])
           c == run[a].completed
<1>1. /\ run[a] \in RunObjects /\ c \in Seq(Steps) /\ m \in 0..NumSteps /\ Range(c) = 1..m
      /\ run[a].pending = Rest(m) /\ AttemptOK("answer", run[a], log, delivered)
  BY AttemptFacts DEF RunObjects
<1>2. m < NumSteps /\ Step(a) = m + 1 /\ Step(a) \in Steps
  BY <1>1, AttemptFacts DEF AttemptOK
<1>3. r.completed = Append(c, m + 1) /\ r.pending = Tail(Rest(m))
  BY <1>1, <1>2 DEF RunObjects
<1>4. Tail(Rest(m)) = Rest(m + 1) /\ Rest(m + 1) \in Seq(Steps) /\ Len(Rest(m + 1)) = NumSteps - (m + 1)
      /\ m + 1 \in 0..NumSteps
  <2> HIDE DEF m
  <2>1. m + 1 \in 0..NumSteps
    BY <1>1, <1>2, SizesAssumption
  <2>2. QED
    BY <1>1, <1>2, <2>1, RestShape
<1>5. Append(c, m + 1) \in Seq(Steps) /\ Last(Append(c, m + 1)) = m + 1
  BY <1>1, <1>2, AppendProperties DEF Last
<1>6. Range(Append(c, m + 1)) = 1..(m + 1)
  <2>1. Range(Append(c, m + 1)) = Range(c) \cup {m + 1}
    BY <1>1, <1>2, RangeAppend
  <2> HIDE DEF m, c
  <2>2. (1..m) \cup {m + 1} = 1..(m + 1)
    BY <1>1
  <2>3. QED
    BY <1>1, <2>1, <2>2
<1>7. Reached(r) = m + 1
  BY <1>1, <1>3, <1>4, SizesAssumption DEF Reached
<1>8. r \in RunObjects
  <2>1. run[a].spent + cost \in Nat
    BY <1>1 DEF RunObjects
  <2>2. QED
    BY <1>1, <1>2, <1>4, <1>5, <2>1 DEF RunObjects
<1>9. Shaped(r.completed, r.pending)
  BY <1>3, <1>4, <1>6 DEF Shaped
<1>10. /\ 1..m \subseteq Done(log) /\ 1..m \subseteq delivered
       /\ HasStep(log, "step.started", m + 1)
  BY <1>1 DEF AttemptOK, Synced
<1>11. 1..Reached(r) \subseteq delivered \cup {Step(a)}
  BY <1>1, <1>2, <1>7, <1>10
<1>12. Lead(r.completed, log)
  <2>1. ASSUME NEW s \in Range(r.completed) \ Done(log) PROVE s = m + 1
    BY <1>1, <1>3, <1>6, <1>10, <2>1
  <2>2. QED
    BY <1>3, <1>5, <1>10, <2>1 DEF Lead
<1>13. QED
  <2>1. Reached(r) > 0 /\ Last(r.completed) = Reached(r) /\ 1..(Reached(r) - 1) \subseteq Done(log)
    BY <1>1, <1>3, <1>5, <1>7, <1>10
  <2>2. AttemptOK("complete", r, log, delivered \cup {Step(a)})
    BY <1>9, <1>11, <1>12, <2>1 DEF AttemptOK, Synced
  <2>3. QED
    BY <1>2, <1>7, <1>8, <2>1, <2>2

LEMMA SharedAnswer ==
    ASSUME SharedInv, NEW a \in Attempts, Answer(a)
    PROVE  SharedInv'
<1>1. phase[a] = "answer" /\ run[a] \in RunObjects
  BY AttemptFacts DEF Answer
<1>2. Step(a) \in Steps
  BY <1>1, AttemptFacts DEF AttemptOK
<1>3. PICK cost \in 0..Cost[Step(a)] :
         /\ run' = [run EXCEPT ![a].completed = Append(@, Step(a)), ![a].pending = Tail(@),
                               ![a].spent = @ + cost, ![a].cost = cost]
         /\ consumed' = consumed + cost
  BY DEF Answer
<1>4. cost \in Nat /\ consumed' \in Nat
  <2>1. Cost[Step(a)] \in Nat /\ consumed \in Nat
    BY <1>2, CostAssumption DEF SharedInv, TypeOK
  <2>2. QED
    BY <1>3, <2>1
<1> DEFINE r == [run[a] EXCEPT !.completed = Append(@, Step(a)), !.pending = Tail(@),
                               !.spent = @ + cost, !.cost = cost]
<1>5. run' = [run EXCEPT ![a] = r]
  BY <1>3 DEF SharedInv, TypeOK
<1>6. r \in RunObjects /\ AttemptOK("complete", r, log, delivered \cup {Step(a)})
  BY <1>1, <1>4, Answered
<1>7. Moves(a, "complete") /\ "complete" \in Phases
  BY DEF Answer, Goto, Moves, Phases
<1>8. UNCHANGED <<log, invoked>> /\ delivered' = delivered \cup {Step(a)} /\ FilesKept(a)
  BY FilesStay DEF Answer, SharedInv
<1>9. delivered' \subseteq Steps /\ invoked' \in [Steps -> Nat]
  BY <1>2, <1>8 DEF SharedInv, TypeOK
<1>10. QED
  <2> HIDE DEF r
  <2> QED
    BY <1>4, <1>5, <1>6, <1>7, <1>8, <1>9, LocalMoves

\* The run object that Begin makes of the log.
LEMMA Begun ==
    ASSUME SharedInv, NEW approvals \in SUBSET Gated, NEW r,
           r = [Reconstruct(log) EXCEPT !.approvals = approvals]
    PROVE  /\ r \in RunObjects /\ AttemptOK("announce", r, log, delivered)
           /\ Done(log) = 1..Reached(r)
           /\ r.completed = CompletedSteps(log) /\ r.spent = RecordedCost(log)
           /\ r.ambiguous = AmbiguousSteps(log)
<1>1. log \in Seq(Events) /\ Done(log) \subseteq delivered
  BY DEF SharedInv, TypeOK, LogInv
<1>2. CompletedSteps(log) \in Seq(Steps) /\ RecordedCost(log) \in Nat
      /\ Range(CompletedSteps(log)) = Done(log)
  BY <1>1, ReconstructTypes, CompletedStepsRange
<1>3. PICK m \in 0..NumSteps : Done(log) = 1..m
  BY DoneFirst DEF SharedInv, LogInv
<1>4. PendingAfter(CompletedSteps(log)) = Rest(m) /\ Rest(m) \in Seq(Steps)
  BY <1>2, <1>3, PendingAfterFirst, RestShape
<1>5. CASE log = <<>>
  <2>1. CompletedSteps(log) = <<>> /\ RecordedCost(log) = 0
    BY <1>5, ReconstructEmpty
  <2>2. \A t, s : ~HasStep(log, t, s)
    BY <1>5 DEF HasStep
  <2>3. AmbiguousSteps(log) = {} /\ Done(log) = {}
    BY <2>2 DEF AmbiguousSteps, Done
  <2>4. m = 0
    BY <1>3, <2>3
  <2>5. [s \in Steps |-> s] = Rest(0)
    BY SizesAssumption DEF Rest, Steps
  <2>6. r = [resumed |-> FALSE, completed |-> <<>>, pending |-> Rest(0), spent |-> 0,
             ambiguous |-> {}, approvals |-> approvals, cost |-> 0]
    BY <1>5, <2>5 DEF Reconstruct, FreshRun
  <2>7. r \in RunObjects
    <3>1. Rest(0) \in Seq(Steps) /\ <<>> \in Seq(Steps) /\ {} \in SUBSET Steps
      BY <1>4, <2>4
    <3>2. ASSUME NEW rest \in Seq(Steps)
          PROVE  [resumed |-> FALSE, completed |-> <<>>, pending |-> rest, spent |-> 0,
                  ambiguous |-> {}, approvals |-> approvals, cost |-> 0] \in RunObjects
      BY <3>1 DEF RunObjects
    <3>3. QED
      BY <2>6, <3>1, <3>2
  <2>8. Shaped(r.completed, r.pending)
    <3>1. r.completed = <<>> /\ r.pending = Rest(m) /\ Range(<<>>) = 1..m
      BY <1>2, <1>3, <2>1, <2>4, <2>6
    <3>2. QED
      BY <3>1 DEF Shaped
  <2>9. Reached(r) = m
    BY <2>4, <2>6, RestShape, SizesAssumption DEF Reached
  <2>10. QED
    BY <1>1, <1>2, <1>3, <2>1, <2>3, <2>6, <2>7, <2>8, <2>9 DEF AttemptOK, Lead
<1>6. CASE log # <<>>
  <2>1. [s \in Steps |-> s] \in Seq(Steps)
    BY SizesAssumption DEF Steps
  <2>2. r = [resumed |-> TRUE, completed |-> CompletedSteps(log), pending |-> Rest(m),
             spent |-> RecordedCost(log), ambiguous |-> AmbiguousSteps(log),
             approvals |-> approvals, cost |-> 0]
    BY <1>4, <1>6 DEF Reconstruct, FreshRun
  <2>3. r \in RunObjects
    <3>1. AmbiguousSteps(log) \in SUBSET Steps
      BY DEF AmbiguousSteps
    <3>2. ASSUME NEW done \in Seq(Steps), NEW rest \in Seq(Steps), NEW spent \in Nat,
                 NEW ambiguous \in SUBSET Steps
          PROVE  [resumed |-> TRUE, completed |-> done, pending |-> rest, spent |-> spent,
                  ambiguous |-> ambiguous, approvals |-> approvals, cost |-> 0] \in RunObjects
      BY DEF RunObjects
    <3>3. /\ CompletedSteps(log) \in Seq(Steps) /\ Rest(m) \in Seq(Steps)
          /\ RecordedCost(log) \in Nat /\ AmbiguousSteps(log) \in SUBSET Steps
      BY <1>2, <1>4, <3>1
    <3>4. [resumed |-> TRUE, completed |-> CompletedSteps(log), pending |-> Rest(m),
           spent |-> RecordedCost(log), ambiguous |-> AmbiguousSteps(log),
           approvals |-> approvals, cost |-> 0] \in RunObjects
      BY <3>2, <3>3
    <3>5. QED
      BY <2>2, <3>4
  <2>4. Shaped(r.completed, r.pending)
    BY <1>2, <1>3, <2>2 DEF Shaped
  <2>5. Reached(r) = m
    BY <2>2, RestShape, SizesAssumption DEF Reached
  <2>6. QED
    BY <1>1, <1>2, <1>3, <2>2, <2>3, <2>4, <2>5 DEF AttemptOK, Lead
<1>7. QED
  BY <1>5, <1>6

LEMMA SharedBegin ==
    ASSUME SharedInv, NEW a \in Attempts, NEW resume, NEW approvals \in SUBSET Gated,
           Begin(a, resume, approvals)
    PROVE  SharedInv'
<1> DEFINE r == [Reconstruct(log) EXCEPT !.approvals = approvals]
<1>1. r \in RunObjects /\ AttemptOK("announce", r, log, delivered)
  BY Begun
<1>2. run' = [run EXCEPT ![a] = r] /\ UNCHANGED <<log, invoked, delivered, consumed>> /\ FilesKept(a)
  BY FilesStay DEF Begin, SharedInv
<1>3. Moves(a, "announce") /\ "announce" \in Phases
  BY DEF Begin, Goto, Moves, Phases
<1>4. delivered' \subseteq Steps /\ consumed' \in Nat /\ invoked' \in [Steps -> Nat]
  BY <1>2 DEF SharedInv, TypeOK
<1>5. QED
  <2> HIDE DEF r
  <2> QED
    BY <1>1, <1>2, <1>3, <1>4, LocalMoves

LEMMA SharedInit == Init => SharedInv
<1> SUFFICES ASSUME Init PROVE SharedInv
  OBVIOUS
<1>1. [s \in Steps |-> s] = Rest(0) /\ Rest(0) \in Seq(Steps) /\ Reached(FreshRun) = 0
  <2>1. [s \in Steps |-> s] = Rest(0)
    BY SizesAssumption DEF Rest, Steps
  <2>2. QED
    BY <2>1, RestShape, SizesAssumption DEF FreshRun, Reached
<1>2. FreshRun \in RunObjects /\ FreshRun.completed = <<>> /\ FreshRun.pending = Rest(0)
  BY <1>1 DEF FreshRun, RunObjects
<1>3. TypeOK
  BY <1>2 DEF Init, TypeOK, RunObjects, NoCheckpoint, Checkpoints, Handles, Phases
<1>4. log = <<>> /\ Done(log) = {} /\ Range(<<>>) = {}
  BY DEF Init, Done, HasStep, Range
<1>5. LogInv
  BY <1>4 DEF LogInv, DependenciesFirst
<1>6. AttemptsInv
  <2>1. Shaped(<<>>, Rest(0))
    <3>1. 0 \in 0..NumSteps /\ 1..0 = {}
      BY SizesAssumption
    <3>2. QED
      BY <1>4, <3>1 DEF Shaped
  <2>2. AttemptOK("new", FreshRun, log, delivered)
    BY <1>1, <1>2, <1>4, <2>1 DEF AttemptOK, Lead, Synced
  <2>3. QED
    BY <2>2 DEF AttemptsInv, Init
<1>7. CheckpointInv
  BY DEF Init, CheckpointInv, FileOK, Holds, NoCheckpoint
<1>8. QED
  BY <1>3, <1>5, <1>6, <1>7 DEF SharedInv

LEMMA SharedNext == SharedInv /\ [Next]_vars => SharedInv'
<1> SUFFICES ASSUME SharedInv, [Next]_vars PROVE SharedInv'
  OBVIOUS
<1>1. ASSUME NEW a \in Attempts, OwnStep(a) PROVE SharedInv'
  BY <1>1, SharedAnnounce, SharedApproval, SharedStart, SharedComplete, SharedFinish, SharedFailure,
     SharedSave, SharedQuiet DEF OwnStep
<1>2. CASE UNCHANGED vars
  <2>1. UNCHANGED <<log, checkpoint, temp, handle, phase, run, outcome, invoked, delivered, consumed>>
    BY <1>2 DEF vars
  <2>2. TypeOK'
    BY <2>1 DEF SharedInv, TypeOK
  <2>3. LogInv'
    BY <2>1 DEF SharedInv, LogInv, DependenciesFirst, Done, HasStep
  <2>4. AttemptsInv'
    BY <2>1 DEF SharedInv, AttemptsInv
  <2>5. CheckpointInv'
    BY <2>1 DEF SharedInv, CheckpointInv
  <2>6. QED
    BY <2>2, <2>3, <2>4, <2>5 DEF SharedInv
<1>3. QED
  BY <1>1, <1>2, SharedBegin, SharedQuiet, SharedAnswer DEF Next

----------------------------------------------------------------------------
(* What holds whatever attempts overlap.                                      *)

LEMMA SharedAlways == Spec => []SharedInv
<1>1. Init => SharedInv
  BY SharedInit
<1>2. SharedInv /\ [Next]_vars => SharedInv'
  BY SharedNext
<1>3. QED
  BY <1>1, <1>2, PTL DEF Spec

(* The variables of the executor keep their types: an attempt that goes on    *)
(* always has a step to go on with.                                           *)
THEOREM ExecutorTypes == Spec => []TypeOK
<1>1. SharedInv => TypeOK
  BY DEF SharedInv
<1>2. QED
  BY <1>1, SharedAlways, PTL

(* No step starts or completes before every earlier step has completed in the *)
(* log, though nothing in executeWorkflow keeps two attempts apart.           *)
THEOREM StepsFollowDependencies == Spec => []DependenciesFirst
<1>1. SharedInv => DependenciesFirst
  BY DEF SharedInv, LogInv
<1>2. QED
  BY <1>1, SharedAlways, PTL

(* A checkpoint that can be read calls done what was delivered and pending    *)
(* the rest, and a completed run is one in the log: however many attempts     *)
(* truncate, write, rename and go on writing in the one temporary file of     *)
(* memory-store.mjs, and wherever they are cut short.  That the file can be   *)
(* read is not said here.                                                     *)
THEOREM CheckpointsAreDelivered == Spec => []CheckpointDelivered
<1>1. SharedInv => CheckpointDelivered
  <2> SUFFICES ASSUME SharedInv, Holds(checkpoint)
               PROVE  /\ Range(checkpoint.completed) \subseteq delivered
                      /\ Range(checkpoint.pending) = Steps \ Range(checkpoint.completed)
                      /\ checkpoint.status = "completed" => Has(log, "run.completed")
    BY DEF CheckpointDelivered
  <2>1. PICK m \in 0..NumSteps : Range(checkpoint.completed) = 1..m /\ checkpoint.pending = Rest(m)
    BY DEF SharedInv, CheckpointInv, FileOK, Shaped
  <2>2. Range(checkpoint.pending) = (m + 1)..NumSteps
    BY <2>1, RestShape
  <2>3. (m + 1)..NumSteps = Steps \ (1..m)
    BY <2>1, SizesAssumption DEF Steps
  <2>4. QED
    BY <2>1, <2>2, <2>3 DEF SharedInv, CheckpointInv, FileOK
<1>2. QED
  BY <1>1, SharedAlways, PTL

(* A checkpoint that can be read is ahead of the log by its last step at      *)
(* most, and that step was started - executeWorkflow updates its run object   *)
(* before it records - however attempts overlap on the temporary file.        *)
THEOREM CheckpointLeadsByOne == Spec => []CheckpointLead
<1>1. SharedInv => CheckpointLead
  <2> SUFFICES ASSUME SharedInv PROVE CheckpointLead
    OBVIOUS
  <2>1. Range(CompletedSteps(log)) = Done(log)
    BY CompletedStepsRange DEF SharedInv, TypeOK
  <2>2. QED
    BY <2>1 DEF SharedInv, CheckpointInv, FileOK, Lead, CheckpointLead
<1>2. QED
  BY <1>1, SharedAlways, PTL

----------------------------------------------------------------------------
(* The invariant of attempts that take turns.                                 *)

\* The events that reconstruct counts nothing for.
Plain(e) == e \in Events /\ e.type \notin {"step.started", "step.completed"}

LEMMA PlainAppend ==
    ASSUME NEW l \in Seq(Events), NEW e, Plain(e)
    PROVE  /\ CompletedSteps(Append(l, e)) = CompletedSteps(l)
           /\ RecordedCost(Append(l, e)) = RecordedCost(l)
           /\ \A s : HasStep(Append(l, e), "step.started", s) <=> HasStep(l, "step.started", s)
           /\ Has(Append(l, e), "run.completed") <=> Has(l, "run.completed") \/ e.type = "run.completed"
<1> USE DEF Plain
<1>1. CompletedSteps(Append(l, e)) = CompletedSteps(l)
  BY CompletedStepsAppend DEF CompletesAt
<1>2. RecordedCost(Append(l, e)) = RecordedCost(l)
  BY RecordedCostAppend DEF ChargesAt
<1>3. \A s : HasStep(Append(l, e), "step.started", s) <=> HasStep(l, "step.started", s)
  BY HasStepAppend
<1>4. Has(Append(l, e), "run.completed") <=> Has(l, "run.completed") \/ e.type = "run.completed"
  BY HasAppend
<1>5. QED
  BY <1>1, <1>2, <1>3, <1>4

LEMMA IdleAlone ==
    ASSUME NEW p \in Idle, NEW r, NEW l, NEW calls
    PROVE  AloneOK(p, r, l, calls)
BY DEF AloneOK, Idle, Synced

\* The phases of an attempt that has begun and has not come to its result.
Midway == {"announce", "govern", "loop", "park", "prepare", "invoke", "answer", "complete", "save"}

LEMMA MidwayOpen ==
    ASSUME NEW p \in Midway, NEW r, NEW l, NEW calls, AloneOK(p, r, l, calls)
    PROVE  ~Has(l, "run.completed")
BY DEF AloneOK, Midway

LEMMA OnwardAlone ==
    ASSUME NEW p \in {"announce", "govern", "loop", "park", "prepare", "save"}, NEW r, NEW l \in Seq(Events),
           NEW calls, AloneOK(p, r, l, calls), NEW q \in {"govern", "loop", "park", "save"}, NEW l2,
           \/ l2 = l
           \/ \E e : Plain(e) /\ e.type # "run.completed" /\ l2 = Append(l, e)
    PROVE  AloneOK(q, r, l2, calls)
<1>1. ~Has(l, "run.completed")
  BY MidwayOpen DEF Midway
<1>2. /\ CompletedSteps(l2) = CompletedSteps(l) /\ RecordedCost(l2) = RecordedCost(l)
      /\ \A s : HasStep(l2, "step.started", s) <=> HasStep(l, "step.started", s)
      /\ ~Has(l2, "run.completed")
  <2>1. CASE l2 = l
    BY <1>1, <2>1
  <2>2. ASSUME NEW e, Plain(e), e.type # "run.completed", l2 = Append(l, e)
        PROVE  /\ CompletedSteps(l2) = CompletedSteps(l) /\ RecordedCost(l2) = RecordedCost(l)
               /\ \A s : HasStep(l2, "step.started", s) <=> HasStep(l, "step.started", s)
               /\ ~Has(l2, "run.completed")
    BY <1>1, <2>2, PlainAppend
  <2>3. QED
    BY <2>1, <2>2
<1>3. QED
  BY <1>2 DEF AloneOK, Synced

\* The attempt that moves is the only one under way.
Sole(a) == \A b \in Attempts : Live(b) => b = a

LEMMA SoleMoves ==
    ASSUME SharedInv, NEW a \in Attempts, Sole(a), NEW q, NEW r,
           phase' = [phase EXCEPT ![a] = q], run' = [run EXCEPT ![a] = r],
           AloneOK(q, r, log', invoked')
    PROVE  OneAtATime' /\ AttemptsAlone'
<1>1. DOMAIN phase = Attempts /\ DOMAIN run = Attempts
  BY DEF SharedInv, TypeOK
<1>2. ASSUME NEW b \in Attempts, b # a
      PROVE  phase'[b] = phase[b] /\ phase[b] \in {"new", "ended", "crashed"}
  BY <1>1, <1>2 DEF Sole, Live
<1>3. OneAtATime'
  BY <1>2 DEF OneAtATime, Live
<1>4. AttemptsAlone'
  <2>1. ASSUME NEW b \in Attempts PROVE AloneOK(phase'[b], run'[b], log', invoked')
    <3>1. CASE b = a
      BY <1>1, <3>1
    <3>2. CASE b # a
      BY <1>2, <3>2, IdleAlone DEF Idle
    <3>3. QED
      BY <3>1, <3>2
  <2>2. QED
    BY <2>1 DEF AttemptsAlone
<1>5. QED
  BY <1>3, <1>4

LEMMA ReportsKept ==
    ASSUME SharedInv, ReportsInv, NEW a \in Attempts, phase[a] # "ended", NEW q, NEW r,
           phase' = [phase EXCEPT ![a] = q], run' = [run EXCEPT ![a] = r],
           outcome' = outcome \/ \E o : outcome' = [outcome EXCEPT ![a] = o],
           Grows(log, log'),
           Has(log, "run.completed") =>
               CompletedSteps(log') = CompletedSteps(log) /\ RecordedCost(log') = RecordedCost(log),
           outcome'[a] = "completed" =>
               /\ q = "ended" /\ Has(log', "run.completed")
               /\ r.completed = CompletedSteps(log') /\ r.spent = RecordedCost(log')
    PROVE  ReportsInv'
<1>1. DOMAIN phase = Attempts /\ DOMAIN run = Attempts /\ DOMAIN outcome = Attempts /\ log \in Seq(Events)
  BY DEF SharedInv, TypeOK
<1>2. ASSUME NEW b \in Attempts, outcome'[b] = "completed"
      PROVE  /\ phase'[b] = "ended" /\ Has(log', "run.completed")
             /\ run'[b].completed = CompletedSteps(log') /\ run'[b].spent = RecordedCost(log')
  <2>1. CASE b = a
    BY <1>1, <1>2, <2>1
  <2>2. CASE b # a
    <3>1. outcome[b] = "completed" /\ phase'[b] = phase[b] /\ run'[b] = run[b]
      BY <1>1, <1>2, <2>2
    <3>2. /\ phase[b] = "ended" /\ Has(log, "run.completed")
          /\ run[b].completed = CompletedSteps(log) /\ run[b].spent = RecordedCost(log)
      BY <3>1 DEF ReportsInv
    <3>3. Has(log', "run.completed")
      BY <1>1, <3>2, GrowsKeeps
    <3>4. QED
      BY <3>1, <3>2, <3>3
  <2>3. QED
    BY <2>1, <2>2
<1>3. QED
  BY <1>2 DEF ReportsInv

\* Nothing gated starts by e.
ApprovalGiven(e) == e.type = "step.started" /\ e.step \in Gated =>
                        log # <<>> /\ Last(log) = StepEvent("step.approval-verified", e.step)

LEMMA ApprovalGrows ==
    ASSUME SharedInv, ApprovalPerAttempt, NEW e \in Events, ApprovalGiven(e), log' \in {log, Append(log, e)}
    PROVE  ApprovalPerAttempt'
<1>1. log \in Seq(Events)
  BY DEF SharedInv, TypeOK
<1>2. CASE log' = log
  BY <1>2 DEF ApprovalPerAttempt
<1>3. CASE log' = Append(log, e)
  <2>1. /\ Len(log') = Len(log) + 1 /\ Len(log) \in Nat /\ log'[Len(log) + 1] = e
        /\ \A k \in 1..Len(log) : log'[k] = log[k]
    BY <1>1, <1>3, AppendEvent
  <2>2. ASSUME NEW k \in 1..Len(log'), log'[k].type = "step.started", log'[k].step \in Gated
        PROVE  \E j \in 1..(k - 1) :
                 /\ log'[j].type = "step.approval-verified" /\ log'[j].step = log'[k].step
                 /\ \A i \in j..k : log'[i].type \notin {"run.started", "run.resumed"}
    <3>1. CASE k \in 1..Len(log)
      <4>1. PICK j \in 1..(k - 1) :
              /\ log[j].type = "step.approval-verified" /\ log[j].step = log[k].step
              /\ \A i \in j..k : log[i].type \notin {"run.started", "run.resumed"}
        BY <2>1, <2>2, <3>1 DEF ApprovalPerAttempt
      <4>2. \A i \in j..k : i \in 1..Len(log)
        BY <2>1, <3>1
      <4>3. log'[j] = log[j] /\ log'[k] = log[k] /\ \A i \in j..k : log'[i] = log[i]
        BY <2>1, <3>1, <4>2
      <4>4. QED
        BY <4>1, <4>3
    <3>2. CASE k = Len(log) + 1
      <4>1. log # <<>> /\ Last(log) = StepEvent("step.approval-verified", e.step)
        BY <2>1, <2>2, <3>2 DEF ApprovalGiven
      <4>2. Len(log) \in 1..(k - 1) /\ log[Len(log)] = StepEvent("step.approval-verified", e.step)
        BY <1>1, <3>2, <4>1 DEF Last
      <4>3. log'[Len(log)].type = "step.approval-verified" /\ log'[Len(log)].step = e.step
        BY <2>1, <4>2 DEF StepEvent
      <4>4. \A i \in Len(log)..k : i = Len(log) \/ i = k
        BY <2>1, <3>2
      <4>5. \A i \in Len(log)..k : log'[i].type \notin {"run.started", "run.resumed"}
        BY <2>2, <4>3, <4>4
      <4>6. QED
        BY <2>1, <3>2, <4>2, <4>3, <4>5
    <3>3. QED
      BY <2>1, <3>1, <3>2
  <2>3. QED
    BY <2>2 DEF ApprovalPerAttempt
<1>4. QED
  BY <1>2, <1>3

\* The attempt a appends a plain event, or none.
LEMMA PlainMoves ==
    ASSUME AloneInv, SharedInv', NEW a \in Attempts, Sole(a), phase[a] # "ended", NEW q, NEW r,
           phase' = [phase EXCEPT ![a] = q], run' = [run EXCEPT ![a] = r],
           outcome' = outcome \/ \E o : outcome' = [outcome EXCEPT ![a] = o],
           NEW e, Plain(e), log' \in {log, Append(log, e)}, invoked' = invoked,
           AloneOK(q, r, log', invoked),
           outcome'[a] = "completed" =>
               /\ q = "ended" /\ Has(log', "run.completed")
               /\ r.completed = CompletedSteps(log') /\ r.spent = RecordedCost(log')
    PROVE  AloneInv'
<1> USE DEF AloneInv
<1>1. log \in Seq(Events) /\ Grows(log, log')
  BY DEF SharedInv, TypeOK, Grows, Plain
<1>2. CompletedSteps(log') = CompletedSteps(log) /\ RecordedCost(log') = RecordedCost(log)
      /\ \A s : HasStep(log', "step.started", s) <=> HasStep(log, "step.started", s)
  <2>1. CASE log' = log
    BY <2>1
  <2>2. CASE log' = Append(log, e)
    BY <1>1, <2>2, PlainAppend
  <2>3. QED
    BY <2>1, <2>2
<1>3. OneAtATime' /\ AttemptsAlone'
  BY SoleMoves
<1>4. ReportsInv'
  BY <1>1, <1>2, ReportsKept
<1>5. ApprovalPerAttempt'
  BY ApprovalGrows DEF Plain, ApprovalGiven, LogAlone
<1>6. LogAlone'
  BY <1>2, <1>5 DEF LogAlone
<1>7. CallsAlone'
  BY <1>2 DEF CallsAlone, UnkeyedInvokedOnce
<1>8. QED
  BY <1>3, <1>4, <1>6, <1>7

LEMMA PlainEvents ==
    /\ \A t \in RunTypes : Plain(RunEvent(t))
    /\ \A t \in {"step.approval-verified", "run.awaiting-approval"}, s \in Steps : Plain(StepEvent(t, s))
BY EventsMade DEF Plain, RunTypes, StepTypes

\* Only one attempt is under way: the one that moves.
LEMMA LiveSole ==
    ASSUME OneAtATime, NEW a \in Attempts, Live(a)
    PROVE  Sole(a)
BY DEF OneAtATime, Sole

\* What AloneInv knows of the attempt that moves.
LEMMA AloneFacts ==
    ASSUME AloneInv, NEW a \in Attempts
    PROVE  /\ AloneOK(phase[a], run[a], log, invoked)
           /\ log \in Seq(Events) /\ phase[a] \in Phases /\ run[a] \in RunObjects
           /\ run' = run => run' = [run EXCEPT ![a] = run[a]]
           /\ phase[a] # "ended" => outcome[a] # "completed"
           /\ \A o : [outcome EXCEPT ![a] = o][a] = o
BY RunKept DEF AloneInv, AttemptsAlone, ReportsInv, SharedInv, TypeOK, RunObjects

\* A step to a phase that asks nothing, with a plain event or none.
LEMMA AloneGivesUp ==
    ASSUME AloneInv, SharedInv', NEW a \in Attempts, Sole(a), phase[a] # "ended", NEW q \in Idle,
           phase' = [phase EXCEPT ![a] = q], run' = run, invoked' = invoked,
           outcome' = outcome \/ \E o \in Outcomes \ {"completed"} : outcome' = [outcome EXCEPT ![a] = o],
           NEW e, Plain(e), log' \in {log, Append(log, e)}
    PROVE  AloneInv'
<1>1. AloneOK(q, run[a], log', invoked)
  BY IdleAlone
<1>2. outcome'[a] # "completed"
  BY AloneFacts
<1>3. run' = [run EXCEPT ![a] = run[a]]
  BY AloneFacts
<1>4. QED
  BY <1>1, <1>2, <1>3, PlainMoves

LEMMA AloneBegin ==
    ASSUME Exclusive, AloneInv, SharedInv', NEW a \in Attempts, NEW resume, NEW approvals \in SUBSET Gated,
           Begin(a, resume, approvals)
    PROVE  AloneInv'
<1> DEFINE r == [Reconstruct(log) EXCEPT !.approvals = approvals]
<1>1. /\ phase[a] = "new" /\ Sole(a) /\ run' = [run EXCEPT ![a] = r]
      /\ phase' = [phase EXCEPT ![a] = "announce"] /\ outcome' = outcome
      /\ log' = log /\ invoked' = invoked /\ (log = <<>> \/ ~Has(log, "run.completed"))
  BY DEF Begin, Goto, Sole
<1>2. /\ Done(log) = 1..Reached(r) /\ Reached(r) \in 0..NumSteps
      /\ r.completed = CompletedSteps(log) /\ r.spent = RecordedCost(log)
      /\ r.ambiguous = AmbiguousSteps(log)
  <2> HIDE DEF r
  <2>1. /\ Done(log) = 1..Reached(r) /\ AttemptOK("announce", r, log, delivered)
        /\ r.completed = CompletedSteps(log) /\ r.spent = RecordedCost(log)
        /\ r.ambiguous = AmbiguousSteps(log)
    BY Begun DEF r, AloneInv
  <2>2. QED
    BY <2>1, ShapedReached DEF AttemptOK
<1>3. ~Has(log, "run.completed")
  <2>1. log = <<>> => ~Has(log, "run.completed")
    BY DEF Has
  <2>2. QED
    BY <1>1, <2>1
<1>4. ASSUME NEW s \in (Reached(r) + 1)..NumSteps, HasStep(log, "step.started", s)
      PROVE  s \in r.ambiguous
  <2> HIDE DEF r
  <2>1. s \in Steps /\ s \notin Done(log)
    BY <1>2, SizesAssumption DEF Steps
  <2>2. QED
    BY <1>2, <1>4, <2>1 DEF AmbiguousSteps, Done
<1>5. AloneOK("announce", r, log, invoked)
  <2> HIDE DEF r
  <2> QED
    BY <1>2, <1>3, <1>4 DEF AloneOK
<1>6. Plain(RunEvent("run.started")) /\ outcome'[a] # "completed"
  BY <1>1, PlainEvents, AloneFacts DEF RunTypes
<1>7. QED
  <2> HIDE DEF r
  <2> QED
    BY <1>1, <1>5, <1>6, PlainMoves

LEMMA AloneAnnounce ==
    ASSUME AloneInv, SharedInv', NEW a \in Attempts, Announce(a) \/ Govern(a)
    PROVE  AloneInv'
<1>1. PICK t \in {"run.started", "run.resumed", "governance.verified"} :
         /\ phase[a] \in {"announce", "govern"}
         /\ \/ log' = Append(log, RunEvent(t)) /\ \E q \in {"govern", "loop"} : Goto(a, q)
            \/ log' \in {log, Append(log, RunEvent(t))} /\ End(a, "rejected")
         /\ UNCHANGED <<fileVars, run, invoked, delivered, consumed>>
  BY DEF Announce, Govern, AppendThen
<1>2. Plain(RunEvent(t)) /\ RunEvent(t).type # "run.completed"
  BY PlainEvents, EventsMade DEF RunTypes
<1>3. Sole(a) /\ phase[a] # "ended" /\ run' = [run EXCEPT ![a] = run[a]] /\ invoked' = invoked
      /\ AloneOK(phase[a], run[a], log, invoked) /\ log \in Seq(Events)
  BY <1>1, LiveSole, AloneFacts DEF Live, AloneInv
<1>4. ASSUME log' = Append(log, RunEvent(t)), NEW q \in {"govern", "loop"}, Goto(a, q)
      PROVE  AloneInv'
  <2>1. AloneOK(q, run[a], log', invoked)
    <3>1. \E e : Plain(e) /\ e.type # "run.completed" /\ log' = Append(log, e)
      BY <1>2, <1>4
    <3>2. phase[a] \in {"announce", "govern", "loop", "park", "prepare", "save"}
          /\ q \in {"govern", "loop", "park", "save"}
      BY <1>1
    <3>3. QED
      BY <1>3, <3>1, <3>2, OnwardAlone
  <2>2. phase' = [phase EXCEPT ![a] = q] /\ outcome' = outcome /\ outcome'[a] # "completed"
    BY <1>3, <1>4, AloneFacts DEF Goto
  <2>3. QED
    BY <1>2, <1>3, <1>4, <2>1, <2>2, PlainMoves
<1>5. ASSUME log' \in {log, Append(log, RunEvent(t))}, End(a, "rejected")
      PROVE  AloneInv'
  <2>1. phase' = [phase EXCEPT ![a] = "ended"] /\ outcome' = [outcome EXCEPT ![a] = "rejected"]
        /\ "ended" \in Idle /\ "rejected" \in Outcomes \ {"completed"} /\ run' = run
    BY <1>1, <1>5 DEF End, Idle, Outcomes
  <2>2. QED
    BY <1>2, <1>3, <1>5, <2>1, AloneGivesUp
<1>6. QED
  BY <1>1, <1>4, <1>5

LEMMA AloneApproval ==
    ASSUME AloneInv, SharedInv', NEW a \in Attempts, AwaitApproval(a) \/ VerifyApproval(a)
    PROVE  AloneInv'
<1>1. PICK t \in {"run.awaiting-approval", "step.approval-verified"}, q \in {"park", "prepare"} :
         /\ AtStep(a) /\ (q = "prepare" => t = "step.approval-verified")
         /\ \/ log' = Append(log, StepEvent(t, Step(a))) /\ Goto(a, q)
            \/ log' \in {log, Append(log, StepEvent(t, Step(a)))} /\ Goto(a, "fail")
         /\ UNCHANGED <<fileVars, run, invoked, delivered, consumed>>
  BY DEF AwaitApproval, VerifyApproval, AppendThen
<1>2. phase[a] = "loop" /\ Step(a) = Reached(run[a]) + 1 /\ Step(a) \in Steps
  BY <1>1, AttemptFacts DEF AtStep, AloneInv
<1>3. Plain(StepEvent(t, Step(a))) /\ StepEvent(t, Step(a)).type # "run.completed"
      /\ StepEvent(t, Step(a)) \in Events
  BY <1>2, PlainEvents, EventsMade DEF StepTypes
<1>4. Sole(a) /\ run' = [run EXCEPT ![a] = run[a]] /\ invoked' = invoked
      /\ AloneOK("loop", run[a], log, invoked) /\ log \in Seq(Events) /\ outcome[a] # "completed"
  BY <1>1, <1>2, LiveSole, AloneFacts DEF Live, AloneInv
<1>5. ASSUME log' = Append(log, StepEvent(t, Step(a))), Goto(a, q)
      PROVE  AloneInv'
  <2>1. AloneOK("loop", run[a], log', invoked)
    BY <1>3, <1>4, <1>5, OnwardAlone
  <2>2. AloneOK("park", run[a], log', invoked)
    BY <1>3, <1>4, <1>5, OnwardAlone
  <2>3. q = "prepare" => log' # <<>> /\ Last(log') = StepEvent("step.approval-verified", Reached(run[a]) + 1)
    BY <1>1, <1>2, <1>3, <1>4, <1>5, AppendEvent
  <2>4. AloneOK(q, run[a], log', invoked)
    <3>1. CASE q = "park"
      BY <2>2, <3>1
    <3>2. CASE q = "prepare"
      BY <2>1, <2>3, <3>2 DEF AloneOK, Synced
    <3>3. QED
      BY <3>1, <3>2
  <2>5. phase' = [phase EXCEPT ![a] = q] /\ outcome' = outcome
    BY <1>5 DEF Goto
  <2>6. QED
    BY <1>2, <1>3, <1>4, <1>5, <2>4, <2>5, PlainMoves
<1>6. ASSUME log' \in {log, Append(log, StepEvent(t, Step(a)))}, Goto(a, "fail")
      PROVE  AloneInv'
  <2>1. phase' = [phase EXCEPT ![a] = "fail"] /\ outcome' = outcome /\ "fail" \in Idle /\ run' = run
    BY <1>1, <1>6 DEF Goto, Idle
  <2>2. QED
    BY <1>2, <1>3, <1>4, <1>6, <2>1, AloneGivesUp
<1>7. QED
  BY <1>1, <1>5, <1>6

LEMMA AloneStart ==
    ASSUME AloneInv, SharedInv', NEW a \in Attempts, StartStep(a)
    PROVE  AloneInv'
<1> DEFINE s == Step(a)
           e == StepEvent("step.started", s)
           m == Reached(run[a])
<1> USE DEF AloneInv
<1>1. /\ phase[a] \in {"loop", "prepare"} /\ m \in 0..NumSteps /\ m < NumSteps
      /\ s = m + 1 /\ s \in Steps /\ log \in Seq(Events) /\ AloneOK(phase[a], run[a], log, invoked)
      /\ run' = [run EXCEPT ![a] = run[a]] /\ outcome[a] # "completed" /\ Sole(a)
  <2>1. phase[a] \in {"loop", "prepare"} /\ run' = run
    BY DEF StartStep, ToPrepare, AtStep
  <2>2. m \in 0..NumSteps /\ m < NumSteps /\ s = m + 1 /\ s \in Steps
    BY <2>1, AttemptFacts DEF StartStep, ToPrepare, AtStep, AttemptOK
  <2>3. Sole(a)
    BY <2>1, LiveSole DEF Live
  <2> HIDE DEF s, m
  <2>4. QED
    BY <2>1, <2>2, <2>3, AloneFacts
<1>2. e \in Events /\ e.type = "step.started" /\ e.step = s
  BY <1>1, EventsMade DEF StepTypes
<1>3. MayRun(a) /\ (phase[a] = "prepare" \/ s \notin Gated)
      /\ UNCHANGED <<run, invoked>> /\ outcome' = outcome
      /\ \/ log' = Append(log, e) /\ phase' = [phase EXCEPT ![a] = "invoke"]
         \/ log' \in {log, Append(log, e)} /\ phase' = [phase EXCEPT ![a] = "fail"]
  BY DEF StartStep, ToPrepare, AppendThen, Goto
<1>4. PICK q \in {"invoke", "fail"} : /\ phase' = [phase EXCEPT ![a] = q]
                                      /\ log' \in {log, Append(log, e)}
                                      /\ q = "invoke" => log' = Append(log, e)
  BY <1>3
<1>5. ApprovalGiven(e)
  BY <1>1, <1>2, <1>3 DEF ApprovalGiven, AloneOK
<1> HIDE DEF e, s, m
<1>6. /\ CompletedSteps(log') = CompletedSteps(log) /\ RecordedCost(log') = RecordedCost(log)
      /\ \A t : HasStep(log, "step.started", t) => HasStep(log', "step.started", t)
      /\ Has(log', "run.completed") <=> Has(log, "run.completed")
  <2>1. CASE log' = log
    BY <2>1
  <2>2. CASE log' = Append(log, e)
    <3>1. CompletedSteps(log') = CompletedSteps(log)
      BY <1>1, <1>2, <2>2, CompletedStepsAppend DEF CompletesAt
    <3>2. RecordedCost(log') = RecordedCost(log)
      BY <1>1, <1>2, <2>2, RecordedCostAppend DEF ChargesAt
    <3>3. \A t : HasStep(log, "step.started", t) => HasStep(log', "step.started", t)
      BY <1>1, <1>2, <2>2, HasStepAppend
    <3>4. Has(log', "run.completed") <=> Has(log, "run.completed")
      BY <1>1, <1>2, <2>2, HasAppend
    <3>5. QED
      BY <3>1, <3>2, <3>3, <3>4
  <2>3. QED
    BY <1>4, <2>1, <2>2
<1>7. ~Has(log, "run.completed")
  BY <1>1, MidwayOpen DEF Midway
<1>8. AloneOK(q, run[a], log', invoked)
  <2>1. CASE q = "fail"
    BY <2>1, IdleAlone DEF Idle
  <2>2. CASE q = "invoke"
    <3>1. run[a].completed = CompletedSteps(log') /\ run[a].spent = RecordedCost(log')
      BY <1>1, <1>6 DEF AloneOK, Synced
    <3>2. run[a].spent + Cost[m + 1] <= Budget
      BY <1>1, <1>3 DEF MayRun, s
    <3>3. ASSUME NEW t \in (m + 1)..NumSteps, HasStep(log', "step.started", t)
          PROVE  t \in run[a].ambiguous \/ t = m + 1
      <4>1. HasStep(log, "step.started", t) \/ t = s
        <5>1. log' = Append(log, e)
          BY <1>4, <2>2
        <5>2. HasStep(Append(log, e), "step.started", t)
          BY <3>3, <5>1
        <5>3. QED
          BY <1>1, <1>2, <5>2, HasStepAppend
      <4>2. HasStep(log, "step.started", t) => t \in run[a].ambiguous
        BY <1>1, <3>3 DEF AloneOK, Synced, m
      <4>3. QED
        BY <1>1, <4>1, <4>2
    <3>4. ASSUME m + 1 \in External \ Keyed PROVE invoked[m + 1] = 0
      <4>1. s \notin run[a].ambiguous
        BY <1>1, <1>3, <3>4 DEF MayRun, s
      <4>2. ~HasStep(log, "step.started", s)
        <5>1. m + 1 \in (m + 1)..NumSteps
          BY <1>1, SizesAssumption
        <5>2. QED
          BY <1>1, <4>1, <5>1 DEF AloneOK, Synced, m
      <4>3. ~(invoked[s] > 0) /\ invoked[s] \in Nat
        BY <1>1, <4>2 DEF CallsAlone, SharedInv, TypeOK
      <4>4. QED
        BY <1>1, <4>3
    <3>5. QED
      BY <1>6, <1>7, <2>2, <3>1, <3>2, <3>3, <3>4 DEF AloneOK, Synced, m
  <2>3. QED
    BY <2>1, <2>2
<1>9. OneAtATime' /\ AttemptsAlone'
  BY <1>1, <1>3, <1>4, <1>8, SoleMoves
<1>10. ReportsInv'
  <2>1. Grows(log, log') /\ outcome'[a] # "completed" /\ phase[a] # "ended"
    BY <1>1, <1>2, <1>3, <1>4 DEF Grows
  <2>2. QED
    BY <1>1, <1>3, <1>4, <1>6, <2>1, ReportsKept
<1>11. ApprovalPerAttempt'
  BY <1>2, <1>4, <1>5, ApprovalGrows DEF LogAlone
<1>12. LogAlone'
  BY <1>6, <1>11 DEF LogAlone
<1>13. CallsAlone'
  BY <1>3, <1>6 DEF CallsAlone, UnkeyedInvokedOnce
<1>14. QED
  BY <1>9, <1>10, <1>12, <1>13

LEMMA AloneInvoke ==
    ASSUME AloneInv, SharedInv', NEW a \in Attempts, Invoke(a)
    PROVE  AloneInv'
<1> DEFINE s == Step(a)
           m == Reached(run[a])
<1> USE DEF AloneInv
<1>1. /\ phase[a] = "invoke" /\ m \in 0..NumSteps /\ m < NumSteps
      /\ s = m + 1 /\ s \in Steps /\ log \in Seq(Events) /\ AloneOK("invoke", run[a], log, invoked)
      /\ AttemptOK("invoke", run[a], log, delivered)
      /\ run' = [run EXCEPT ![a] = run[a]] /\ outcome[a] # "completed" /\ Sole(a)
  <2>1. phase[a] = "invoke" /\ run' = run
    BY DEF Invoke
  <2>2. m \in 0..NumSteps /\ m < NumSteps /\ s = m + 1 /\ s \in Steps
        /\ AttemptOK("invoke", run[a], log, delivered)
    BY <2>1, AttemptFacts DEF AttemptOK
  <2>3. Sole(a)
    BY <2>1, LiveSole DEF Live
  <2> HIDE DEF s, m
  <2>4. QED
    BY <2>1, <2>2, <2>3, AloneFacts
<1>2. /\ invoked' = [invoked EXCEPT ![s] = @ + 1] /\ phase' = [phase EXCEPT ![a] = "answer"]
      /\ log' = log /\ outcome' = outcome
  BY DEF Invoke, Goto
<1>3. invoked \in [Steps -> Nat]
  BY DEF SharedInv, TypeOK
<1> HIDE DEF s, m
<1>4. AloneOK("answer", run[a], log', invoked')
  BY <1>1, <1>2 DEF AloneOK, Synced
<1>5. OneAtATime' /\ AttemptsAlone'
  BY <1>1, <1>2, <1>4, SoleMoves
<1>6. ReportsInv'
  <2>1. Grows(log, log') /\ outcome'[a] # "completed" /\ phase[a] # "ended"
    BY <1>1, <1>2 DEF Grows
  <2>2. QED
    BY <1>1, <1>2, <2>1, ReportsKept
<1>7. LogAlone'
  BY <1>2 DEF LogAlone, ApprovalPerAttempt
<1>8. CallsAlone'
  <2>1. ASSUME NEW t \in External \ Keyed PROVE invoked'[t] <= 1
    <3>1. t \in Steps /\ invoked[t] <= 1 /\ invoked[t] \in Nat
      BY <1>3, StepsAssumption DEF CallsAlone, UnkeyedInvokedOnce
    <3>2. CASE t = s
      <4>1. invoked[t] = 0
        BY <1>1, <2>1, <3>2 DEF AloneOK, m
      <4>2. QED
        BY <1>2, <1>3, <3>1, <3>2, <4>1
    <3>3. CASE t # s
      BY <1>2, <1>3, <3>1, <3>3
    <3>4. QED
      BY <3>2, <3>3
  <2>2. ASSUME NEW t \in Steps, invoked'[t] > 0 PROVE HasStep(log', "step.started", t)
    <3>1. CASE t = s
      BY <1>1, <1>2, <3>1 DEF AttemptOK, m
    <3>2. CASE t # s
      BY <1>2, <1>3, <2>2, <3>2 DEF CallsAlone
    <3>3. QED
      BY <3>1, <3>2
  <2>3. QED
    BY <2>1, <2>2 DEF CallsAlone, UnkeyedInvokedOnce
<1>9. QED
  BY <1>5, <1>6, <1>7, <1>8

LEMMA UptoFacts ==
    ASSUME NEW m \in 0..NumSteps
    PROVE  /\ Upto(m) \in Seq(Steps) /\ Len(Upto(m)) = m /\ Range(Upto(m)) = 1..m
           /\ m < NumSteps => Append(Upto(m), m + 1) = Upto(m + 1)
<1>1. m \in Nat /\ \A k \in 1..m : k \in Steps
  BY SizesAssumption DEF Steps
<1>2. Upto(m) \in [1..m -> Steps]
  BY <1>1 DEF Upto
<1>3. Upto(m) \in Seq(Steps) /\ Len(Upto(m)) = m
  BY <1>1, <1>2
<1>4. Range(Upto(m)) = 1..m
  <2>1. Range(Upto(m)) = {Upto(m)[k] : k \in 1..m}
    BY <1>3, RangeEquality
  <2>2. QED
    BY <2>1 DEF Upto
<1>5. ASSUME m < NumSteps PROVE Append(Upto(m), m + 1) = Upto(m + 1)
  <2>1. Upto(m) = [k \in 1..m |-> k] /\ Upto(m + 1) = [k \in 1..(m + 1) |-> k]
    BY DEF Upto
  <2>2. Append([k \in 1..m |-> k], m + 1) = [k \in 1..(m + 1) |-> k]
    BY <1>1
  <2>3. QED
    BY <2>1, <2>2
<1>6. QED
  BY <1>3, <1>4, <1>5

\* How long the record is where the attempt's memory agrees with it.
LEMMA RecordLength ==
    ASSUME AloneInv, NEW a \in Attempts, run[a].completed = CompletedSteps(log)
    PROVE  Len(CompletedSteps(log)) = Reached(run[a])
<1> DEFINE n == Len(CompletedSteps(log))
           m == Reached(run[a])
<1>1. CompletedSteps(log) = Upto(n) /\ CompletedSteps(log) \in Seq(Steps) /\ Range(CompletedSteps(log)) = 1..m
      /\ m \in 0..NumSteps
  BY AttemptFacts, ReconstructTypes DEF AloneInv, LogAlone, SharedInv, TypeOK
<1>2. n \in Nat
  BY <1>1
<1>3. Range(CompletedSteps(log)) = 1..n
  <2>1. Range(CompletedSteps(log)) = {CompletedSteps(log)[k] : k \in 1..n}
    BY <1>1, RangeEquality
  <2>2. \A k \in 1..n : CompletedSteps(log)[k] = k
    BY <1>1 DEF Upto
  <2>3. QED
    BY <2>1, <2>2
<1>4. 1..n = 1..m
  BY <1>1, <1>3
<1>5. n = m
  <2> HIDE DEF n, m
  <2>1. n > m => n \in 1..n /\ n \notin 1..m
    BY <1>1, <1>2
  <2>2. m > n => m \in 1..m /\ m \notin 1..n
    BY <1>1, <1>2
  <2>3. QED
    BY <1>1, <1>2, <1>4, <2>1, <2>2
<1>6. QED
  BY <1>5

LEMMA AloneAnswer ==
    ASSUME AloneInv, SharedInv', NEW a \in Attempts, Answer(a)
    PROVE  AloneInv'
<1> DEFINE s == Step(a)
           m == Reached(run[a])
<1> USE DEF AloneInv
<1>1. /\ phase[a] = "answer" /\ m \in 0..NumSteps /\ m < NumSteps /\ s = m + 1 /\ s \in Steps
      /\ log \in Seq(Events) /\ AloneOK("answer", run[a], log, invoked) /\ run[a] \in RunObjects
      /\ outcome[a] # "completed" /\ Sole(a)
  <2>1. phase[a] = "answer"
    BY DEF Answer
  <2>2. m \in 0..NumSteps /\ m < NumSteps /\ s = m + 1 /\ s \in Steps
    BY <2>1, AttemptFacts DEF AttemptOK
  <2>3. Sole(a)
    BY <2>1, LiveSole DEF Live
  <2> HIDE DEF s, m
  <2>4. QED
    BY <2>1, <2>2, <2>3, AloneFacts
<1>2. PICK cost \in 0..Cost[s] :
        run' = [run EXCEPT ![a].completed = Append(@, Step(a)), ![a].pending = Tail(@),
                           ![a].spent = @ + cost, ![a].cost = cost]
  BY DEF Answer
<1>3. Cost[s] \in Nat /\ cost \in Nat
  <2> HIDE DEF s
  <2>1. Cost[s] \in Nat
    BY <1>1, CostAssumption
  <2>2. QED
    BY <2>1
<1> DEFINE r == [run[a] EXCEPT !.completed = Append(@, Step(a)), !.pending = Tail(@),
                               !.spent = @ + cost, !.cost = cost]
<1>4. run' = [run EXCEPT ![a] = r]
  BY <1>2 DEF SharedInv, TypeOK
<1>5. Reached(r) = m + 1
  BY <1>1, <1>3, Answered
<1>6. /\ r.completed = Append(run[a].completed, s) /\ r.spent = run[a].spent + cost /\ r.cost = cost
      /\ r.ambiguous = run[a].ambiguous
  BY <1>1 DEF RunObjects
<1>7. phase' = [phase EXCEPT ![a] = "complete"] /\ log' = log /\ outcome' = outcome /\ invoked' = invoked
  BY DEF Answer, Goto
<1>8. /\ run[a].completed = CompletedSteps(log) /\ run[a].spent = RecordedCost(log)
      /\ run[a].spent + Cost[s] <= Budget
      /\ \A t \in (m + 1)..NumSteps : HasStep(log, "step.started", t) => t \in run[a].ambiguous \/ t = m + 1
  BY <1>1 DEF AloneOK, Synced
<1>9. Len(CompletedSteps(log)) = m
  BY <1>8, RecordLength
<1>10. RecordedCost(log) \in Nat /\ ~Has(log, "run.completed")
  BY <1>1, ReconstructTypes, MidwayOpen DEF Midway
<1> HIDE DEF r, s, m
<1>11. AloneOK("complete", r, log', invoked)
  <2>1. r.completed = Append(CompletedSteps(log), Reached(r)) /\ Len(CompletedSteps(log)) = Reached(r) - 1
    BY <1>1, <1>5, <1>6, <1>8, <1>9
  <2>2. r.spent = RecordedCost(log) + r.cost /\ r.cost <= Cost[Reached(r)] /\ r.spent <= Budget
    BY <1>1, <1>2, <1>3, <1>5, <1>6, <1>8, <1>10, CostAssumption
  <2>3. ASSUME NEW t \in (Reached(r) + 1)..NumSteps, HasStep(log, "step.started", t)
        PROVE  t \in r.ambiguous
    <3>1. t \in (m + 1)..NumSteps /\ t # m + 1
      BY <1>1, <1>5
    <3>2. QED
      BY <1>6, <1>8, <2>3, <3>1
  <2>4. QED
    BY <1>7, <1>10, <2>1, <2>2, <2>3 DEF AloneOK, Synced
<1>12. Plain(RunEvent("run.failed"))
  BY PlainEvents DEF RunTypes
<1>13. QED
  BY <1>1, <1>4, <1>7, <1>11, <1>12, PlainMoves

LEMMA AloneComplete ==
    ASSUME AloneInv, SharedInv', NEW a \in Attempts, RecordCompletion(a)
    PROVE  AloneInv'
<1> DEFINE m == Reached(run[a])
           e == StepCompleted(Last(run[a].completed), run[a].cost)
<1> USE DEF AloneInv
<1>1. /\ phase[a] = "complete" /\ m \in 0..NumSteps /\ m > 0 /\ Last(run[a].completed) = m
      /\ log \in Seq(Events) /\ AloneOK("complete", run[a], log, invoked) /\ run[a] \in RunObjects
      /\ run' = [run EXCEPT ![a] = run[a]] /\ outcome[a] # "completed" /\ Sole(a)
  <2>1. phase[a] = "complete" /\ run' = run
    BY DEF RecordCompletion
  <2>2. m \in 0..NumSteps /\ m > 0 /\ Last(run[a].completed) = m
    BY <2>1, AttemptFacts DEF AttemptOK
  <2>3. Sole(a)
    BY <2>1, LiveSole DEF Live
  <2> HIDE DEF m
  <2>4. QED
    BY <2>1, <2>2, <2>3, AloneFacts
<1>2. e \in Events /\ e.type = "step.completed" /\ e.step = m /\ e.cost = run[a].cost /\ run[a].cost \in Nat
  <2>1. m \in Steps /\ run[a].cost \in Nat
    BY <1>1, SizesAssumption DEF RunObjects, Steps
  <2>2. e = StepCompleted(m, run[a].cost)
    BY <1>1
  <2> HIDE DEF e, m
  <2>3. QED
    BY <2>1, <2>2, EventsMade
<1>3. PICK q \in {"save", "fail"} : /\ phase' = [phase EXCEPT ![a] = q]
                                    /\ log' \in {log, Append(log, e)}
                                    /\ q = "save" => log' = Append(log, e)
  BY DEF RecordCompletion, AppendThen, Goto
<1>4. invoked' = invoked /\ outcome' = outcome
  BY DEF RecordCompletion, AppendThen, Goto
<1>5. /\ run[a].completed = Append(CompletedSteps(log), m) /\ Len(CompletedSteps(log)) = m - 1
      /\ run[a].spent = RecordedCost(log) + run[a].cost /\ run[a].spent <= Budget
      /\ ~Has(log, "run.completed")
      /\ \A t \in (m + 1)..NumSteps : HasStep(log, "step.started", t) => t \in run[a].ambiguous
  BY <1>1 DEF AloneOK, Synced
<1> HIDE DEF e, m
<1>6. CompletedSteps(log) = Upto(m - 1) /\ Append(Upto(m - 1), m) = Upto(m) /\ Len(Upto(m)) = m
  <2>1. CompletedSteps(log) = Upto(m - 1)
    BY <1>5 DEF LogAlone
  <2>2. m - 1 \in 0..NumSteps /\ m - 1 < NumSteps /\ m - 1 + 1 = m
    BY <1>1, SizesAssumption
  <2>3. Append(Upto(m - 1), m) = Upto(m)
    BY <2>2, UptoFacts
  <2>4. QED
    BY <1>1, <2>1, <2>3, UptoFacts
<1>7. ASSUME log' = Append(log, e)
      PROVE  /\ CompletedSteps(log') = run[a].completed /\ RecordedCost(log') = run[a].spent
             /\ \A t : HasStep(log', "step.started", t) <=> HasStep(log, "step.started", t)
             /\ ~Has(log', "run.completed") /\ CompletedSteps(log') = Upto(m)
  <2>1. CompletedSteps(log') = run[a].completed
    BY <1>1, <1>2, <1>5, <1>7, CompletedStepsAppend DEF CompletesAt
  <2>2. RecordedCost(log') = run[a].spent
    BY <1>1, <1>2, <1>5, <1>7, RecordedCostAppend DEF ChargesAt
  <2>3. \A t : HasStep(log', "step.started", t) <=> HasStep(log, "step.started", t)
    BY <1>1, <1>2, <1>7, HasStepAppend
  <2>4. ~Has(log', "run.completed")
    BY <1>1, <1>2, <1>5, <1>7, HasAppend
  <2>5. QED
    BY <1>5, <1>6, <2>1, <2>2, <2>3, <2>4
<1>8. AloneOK(q, run[a], log', invoked)
  <2>1. CASE q = "fail"
    BY <2>1, IdleAlone DEF Idle
  <2>2. CASE q = "save"
    <3>1. log' = Append(log, e)
      BY <1>3, <2>2
    <3>2. \A t \in (m + 1)..NumSteps : HasStep(log', "step.started", t) => t \in run[a].ambiguous
      BY <1>5, <1>7, <3>1
    <3>3. QED
      BY <1>7, <2>2, <3>1, <3>2 DEF AloneOK, Synced, m
  <2>3. QED
    BY <2>1, <2>2
<1>9. OneAtATime' /\ AttemptsAlone'
  BY <1>1, <1>3, <1>4, <1>8, SoleMoves
<1>10. ReportsInv'
  <2>1. Grows(log, log') /\ outcome'[a] # "completed" /\ phase[a] # "ended"
    BY <1>1, <1>2, <1>3, <1>4 DEF Grows
  <2>2. QED
    BY <1>1, <1>3, <1>4, <1>5, <2>1, ReportsKept
<1>11. ApprovalPerAttempt'
  BY <1>2, <1>3, ApprovalGrows DEF LogAlone, ApprovalGiven
<1>12. LogAlone'
  <2>1. CASE log' = log
    BY <1>11, <2>1 DEF LogAlone
  <2>2. CASE log' = Append(log, e)
    BY <1>5, <1>6, <1>7, <1>11, <2>2 DEF LogAlone
  <2>3. QED
    BY <1>3, <2>1, <2>2
<1>13. CallsAlone'
  <2>1. \A t : HasStep(log, "step.started", t) => HasStep(log', "step.started", t)
    BY <1>3, <1>7
  <2>2. QED
    BY <1>4, <2>1 DEF CallsAlone, UnkeyedInvokedOnce
<1>14. QED
  BY <1>9, <1>10, <1>12, <1>13

LEMMA AloneFinish ==
    ASSUME AloneInv, SharedInv', NEW a \in Attempts, Finish(a)
    PROVE  AloneInv'
<1> DEFINE e == RunEvent("run.completed")
<1>1. /\ phase[a] = "loop" /\ Sole(a) /\ AloneOK("loop", run[a], log, invoked) /\ log \in Seq(Events)
      /\ run' = [run EXCEPT ![a] = run[a]] /\ outcome[a] # "completed"
  BY AloneFacts, LiveSole DEF Finish, Live, AloneInv
<1>2. Plain(e) /\ e.type = "run.completed"
  BY PlainEvents, EventsMade DEF RunTypes
<1>3. PICK q \in {"saveResult", "fail"} : /\ phase' = [phase EXCEPT ![a] = q]
                                          /\ log' \in {log, Append(log, e)}
  BY DEF Finish, AppendThen, Goto
<1>4. invoked' = invoked /\ outcome' = outcome
  BY DEF Finish, AppendThen, Goto
<1> HIDE DEF e
<1>5. /\ CompletedSteps(log') = CompletedSteps(log) /\ RecordedCost(log') = RecordedCost(log)
      /\ \A s : HasStep(log', "step.started", s) <=> HasStep(log, "step.started", s)
  <2>1. CASE log' = log
    BY <2>1
  <2>2. CASE log' = Append(log, e)
    BY <1>1, <1>2, <2>2, PlainAppend
  <2>3. QED
    BY <1>3, <2>1, <2>2
<1>6. AloneOK(q, run[a], log', invoked)
  BY <1>1, <1>5 DEF AloneOK, Synced
<1>7. QED
  BY <1>1, <1>2, <1>3, <1>4, <1>6, PlainMoves

\* The steps that append nothing, or run.failed.
LEMMA AloneRest ==
    ASSUME AloneInv, SharedInv', NEW a \in Attempts,
           \/ Abort(a) \/ RefuseStep(a) \/ Park(a) \/ SaveProgress(a) \/ SaveResult(a)
           \/ RecordFailure(a) \/ SaveFailure(a) \/ AnswerRefused(a) \/ Crash(a)
    PROVE  AloneInv'
<1> DEFINE e == RunEvent("run.failed")
<1>1. Plain(e)
  BY PlainEvents DEF RunTypes
<1>2. /\ Live(a) /\ phase[a] # "ended" /\ invoked' = invoked /\ run' = run /\ log' \in {log, Append(log, e)}
  BY DEF Abort, RefuseStep, ToPrepare, AtStep, Park, SaveProgress, SaveResult, RecordFailure, AppendThen,
         SaveFailure, AnswerRefused, Crash, Live
<1>3. Sole(a) /\ run' = [run EXCEPT ![a] = run[a]] /\ log \in Seq(Events) /\ outcome[a] # "completed"
      /\ AloneOK(phase[a], run[a], log, invoked)
  BY <1>2, LiveSole, AloneFacts DEF AloneInv
<1> HIDE DEF e
<1>4. CASE SaveProgress(a) /\ phase' = [phase EXCEPT ![a] = "loop"]
  <2>1. log' = log /\ outcome' = outcome /\ phase[a] = "save"
    BY <1>4 DEF SaveProgress, CheckpointThen, Goto
  <2>2. AloneOK("loop", run[a], log', invoked)
    BY <1>3, <2>1, OnwardAlone
  <2>3. QED
    BY <1>1, <1>2, <1>3, <1>4, <2>1, <2>2, PlainMoves
<1>5. CASE SaveResult(a) /\ phase' = [phase EXCEPT ![a] = "ended"] /\ outcome' = [outcome EXCEPT ![a] = "completed"]
  <2>1. log' = log /\ phase[a] = "saveResult"
    BY <1>5 DEF SaveResult
  <2>2. run[a].completed = CompletedSteps(log') /\ run[a].spent = RecordedCost(log')
    BY <1>3, <2>1 DEF AloneOK, Synced
  <2>3. Has(log', "run.completed")
    BY <2>1, AttemptFacts DEF AloneInv, AttemptOK
  <2>4. AloneOK("ended", run[a], log', invoked)
    BY IdleAlone DEF Idle
  <2>5. QED
    BY <1>1, <1>2, <1>3, <1>5, <2>1, <2>2, <2>3, <2>4, PlainMoves
<1>6. CASE \E q \in Idle : /\ phase' = [phase EXCEPT ![a] = q]
                           /\ outcome' = outcome \/ \E o \in Outcomes \ {"completed"} : outcome' = [outcome EXCEPT ![a] = o]
  BY <1>1, <1>2, <1>3, <1>6, AloneGivesUp
<1>7. QED
  BY <1>4, <1>5, <1>6 DEF Abort, RefuseStep, Park, SaveProgress, SaveResult, RecordFailure, AppendThen, CheckpointThen,
         SaveFailure, AnswerRefused, Crash, Goto, End, Idle, Outcomes

\* The steps on the two files that no phase ends with.
LEMMA AloneFiles ==
    ASSUME AloneInv, SharedInv', UNCHANGED <<log, phase, run, outcome, invoked>>
    PROVE  AloneInv'
BY DEF AloneInv, OneAtATime, Live, AttemptsAlone, ReportsInv, LogAlone, ApprovalPerAttempt, CallsAlone,
       UnkeyedInvokedOnce

LEMMA AloneRefuseBegin ==
    ASSUME Exclusive, AloneInv, SharedInv', NEW a \in Attempts, RefuseBegin(a)
    PROVE  AloneInv'
<1>1. /\ Sole(a) /\ phase[a] # "ended" /\ "ended" \in Idle /\ "rejected" \in Outcomes \ {"completed"}
      /\ phase' = [phase EXCEPT ![a] = "ended"] /\ outcome' = [outcome EXCEPT ![a] = "rejected"]
      /\ run' = run /\ invoked' = invoked /\ log' = log
  BY DEF RefuseBegin, End, Sole, Idle, Outcomes
<1>2. Plain(RunEvent("run.failed"))
  BY PlainEvents DEF RunTypes
<1>3. QED
  BY <1>1, <1>2, AloneGivesUp

LEMMA AloneInit == Init => AloneInv
<1> SUFFICES ASSUME Init PROVE AloneInv
  OBVIOUS
<1>1. SharedInv
  BY SharedInit
<1>2. OneAtATime /\ ReportsInv
  BY DEF Init, OneAtATime, Live, ReportsInv
<1>3. AttemptsAlone
  BY IdleAlone DEF Init, AttemptsAlone, Idle
<1>4. CompletedSteps(log) = <<>> /\ RecordedCost(log) = 0 /\ log = <<>>
  BY ReconstructEmpty DEF Init
<1>5. Upto(0) = <<>> /\ Len(<<>>) = 0
  BY UptoFacts, SizesAssumption DEF Upto
<1>6. LogAlone
  BY <1>4, <1>5, CostAssumption DEF LogAlone, ApprovalPerAttempt
<1>7. CallsAlone
  BY StepsAssumption DEF Init, CallsAlone, UnkeyedInvokedOnce
<1>8. QED
  BY <1>1, <1>2, <1>3, <1>6, <1>7 DEF AloneInv

LEMMA AloneNext == Exclusive /\ AloneInv /\ [Next]_vars => AloneInv'
<1> SUFFICES ASSUME Exclusive, AloneInv, [Next]_vars PROVE AloneInv'
  OBVIOUS
<1>1. SharedInv'
  BY SharedNext DEF AloneInv
<1>2. ASSUME NEW a \in Attempts, OwnStep(a) PROVE AloneInv'
  <2>1. CASE OpenTemp(a) \/ FillTemp(a)
    BY <1>1, <2>1, AloneFiles DEF OpenTemp, FillTemp
  <2>2. CASE ~(OpenTemp(a) \/ FillTemp(a))
    BY <1>1, <1>2, <2>2, AloneAnnounce, AloneApproval, AloneStart, AloneInvoke, AloneComplete, AloneFinish,
       AloneRest DEF OwnStep
  <2>3. QED
    BY <2>1, <2>2
<1>3. CASE UNCHANGED vars
  BY <1>1, <1>3, AloneFiles DEF vars
<1>4. QED
  BY <1>1, <1>2, <1>3, AloneBegin, AloneRefuseBegin, AloneAnswer, AloneRest DEF Next

----------------------------------------------------------------------------
(* What holds when the run is resumed only while no attempt is under way.     *)

LEMMA AloneAlways == ASSUME Exclusive PROVE Spec => []AloneInv
<1>1. Init => AloneInv
  BY AloneInit
<1>2. AloneInv /\ [Next]_vars => AloneInv'
  BY AloneNext
<1>3. QED
  BY <1>1, <1>2, PTL DEF Spec

(* A gated step starts only in an attempt that was given its approval and has *)
(* recorded that, through any failures and resumptions.                       *)
THEOREM ApprovalsAreNotInherited == ASSUME Exclusive PROVE Spec => []ApprovalPerAttempt
<1>1. AloneInv => ApprovalPerAttempt
  BY DEF AloneInv, LogAlone
<1>2. QED
  BY <1>1, AloneAlways, PTL

(* The adapter of an external step without an idempotency key is called once, *)
(* through any failures, crashes and resumptions: executeWorkflow refuses to  *)
(* repeat a step it may have run.                                             *)
THEOREM UnkeyedEffectsHappenOnce == ASSUME Exclusive PROVE Spec => []UnkeyedInvokedOnce
<1>1. AloneInv => UnkeyedInvokedOnce
  BY DEF AloneInv, CallsAlone
<1>2. QED
  BY <1>1, AloneAlways, PTL

(* What an attempt believes between two steps, and what it reports as         *)
(* completed, is what a resumption would reconstruct from the log.            *)
THEOREM MemoryIsTheLog == ASSUME Exclusive PROVE Spec => []MemoryMatchesLog
<1>1. AloneInv => MemoryMatchesLog
  <2> SUFFICES ASSUME AloneInv, NEW a \in Attempts, phase[a] = "loop" \/ outcome[a] = "completed"
               PROVE  run[a].completed = CompletedSteps(log) /\ run[a].spent = RecordedCost(log)
    BY DEF MemoryMatchesLog
  <2>1. CASE phase[a] = "loop"
    BY <2>1 DEF AloneInv, AttemptsAlone, AloneOK, Synced
  <2>2. CASE outcome[a] = "completed"
    BY <2>2 DEF AloneInv, ReportsInv
  <2>3. QED
    BY <2>1, <2>2
<1>2. QED
  BY <1>1, AloneAlways, PTL

----------------------------------------------------------------------------
(* The checkpoint file of attempts that take turns.                           *)

\* Where an attempt that is alone has come with the temporary file.
Writing(a) ==
    /\ Saving(a)
    /\ \/ handle[a] = "temp" /\ temp = EmptyFile
       \/ handle[a] = "closed" /\ temp = Saved(a)

FilesInv == CheckpointAtomic /\ \A a \in Attempts : handle[a] # "none" => Writing(a)

\* While a is under way the other attempts have no file open.
LEMMA OthersIdle ==
    ASSUME OneAtATime, FilesInv, NEW a \in Attempts, Live(a), NEW b \in Attempts, b # a
    PROVE  handle[b] = "none"
<1>1. handle[b] # "none" => Live(b)
  BY DEF FilesInv, Writing, Saving, Live
<1>2. QED
  BY <1>1 DEF OneAtATime

\* A step of an attempt that is not at a checkpoint.
LEMMA FilesAside ==
    ASSUME FilesInv, NEW a \in Attempts, ~Saving(a), UNCHANGED fileVars,
           \A b \in Attempts : b # a => phase'[b] = phase[b] /\ run'[b] = run[b]
    PROVE  FilesInv'
<1>1. ASSUME NEW b \in Attempts, handle'[b] # "none" PROVE Writing(b)'
  <2>1. Writing(b) /\ b # a
    BY <1>1 DEF FilesInv, Writing, fileVars
  <2>2. phase'[b] = phase[b] /\ run'[b] = run[b]
    BY <2>1
  <2>3. Saved(b)' = Saved(b)
    BY <2>2 DEF Saved
  <2>4. QED
    BY <2>1, <2>2, <2>3 DEF Writing, Saving, fileVars
<1>2. CheckpointAtomic'
  BY DEF FilesInv, CheckpointAtomic, fileVars
<1>3. QED
  BY <1>1, <1>2 DEF FilesInv

LEMMA FilesOpened ==
    ASSUME AloneInv, FilesInv, NEW a \in Attempts, OpenTemp(a)
    PROVE  FilesInv'
<1>1. Saving(a) /\ Live(a) /\ OneAtATime /\ handle \in [Attempts -> Handles]
  BY DEF OpenTemp, Saving, Live, AloneInv, SharedInv, TypeOK
<1>2. /\ temp' = EmptyFile /\ handle' = [handle EXCEPT ![a] = "temp"]
      /\ UNCHANGED <<checkpoint, phase>>
  BY DEF OpenTemp
<1>3. \A b \in Attempts : handle'[b] # "none" => b = a
  BY <1>1, <1>2, OthersIdle
<1>4. Writing(a)'
  BY <1>1, <1>2 DEF Writing, Saving
<1>5. QED
  BY <1>2, <1>3, <1>4 DEF FilesInv, CheckpointAtomic

LEMMA FilesFilled ==
    ASSUME AloneInv, FilesInv, NEW a \in Attempts, FillTemp(a)
    PROVE  FilesInv'
<1>1. Writing(a) /\ handle[a] = "temp" /\ temp = EmptyFile
  BY DEF FillTemp, Open, FilesInv, Writing
<1>2. Saving(a) /\ Live(a) /\ OneAtATime /\ handle \in [Attempts -> Handles]
  BY <1>1 DEF Writing, Saving, Live, AloneInv, SharedInv, TypeOK
<1>3. Leave(a, Saved(a), "closed") /\ UNCHANGED <<phase, run>>
  BY <1>1 DEF FillTemp, Now
<1>4. temp' = Saved(a) /\ checkpoint' = checkpoint /\ handle' = [handle EXCEPT ![a] = "closed"]
  BY <1>1, <1>3 DEF Leave
<1>5. \A b \in Attempts : handle'[b] # "none" => b = a
  BY <1>2, <1>4, OthersIdle
<1>6. Saved(a)' = Saved(a)
  BY <1>3 DEF Saved
<1>7. Writing(a)'
  BY <1>2, <1>3, <1>4, <1>6 DEF Writing, Saving
<1>8. QED
  BY <1>4, <1>5, <1>7 DEF FilesInv, CheckpointAtomic

\* The last operation of a checkpoint, or the end of a process.
LEMMA FilesClosed ==
    ASSUME AloneInv, FilesInv, NEW a \in Attempts, Live(a), CheckpointThen(a, TRUE, TRUE)
    PROVE  FilesInv'
<1>1. handle \in [Attempts -> Handles] /\ \A b \in Attempts : b # a => handle[b] = "none"
  BY OthersIdle DEF AloneInv, SharedInv, TypeOK
<1>2. CASE CutShort(a)
  <2>1. checkpoint' = checkpoint /\ handle' = [handle EXCEPT ![a] = "none"]
    BY <1>2 DEF CutShort, Leave, Open, FilesInv, Writing
  <2>2. QED
    BY <1>1, <2>1 DEF FilesInv, CheckpointAtomic
<1>3. CASE ~CutShort(a)
  <2>1. /\ handle[a] = "closed" /\ checkpoint' = temp
        /\ handle' = [b \in Attempts |-> CASE b = a                -> "none"
                                           [] handle[b] = "temp"   -> "target"
                                           [] handle[b] = "target" -> "unlinked"
                                           [] OTHER                -> handle[b]]
    BY <1>3 DEF CheckpointThen
  <2>2. checkpoint' = Saved(a)
    BY <2>1 DEF FilesInv, Writing
  <2>3. Holds(Saved(a))
    BY DEF Holds, Saved, Recovery
  <2>4. \A b \in Attempts : handle'[b] = "none"
    BY <1>1, <2>1
  <2>5. QED
    BY <2>2, <2>3, <2>4 DEF FilesInv, CheckpointAtomic
<1>4. QED
  BY <1>2, <1>3

LEMMA FilesNext == AloneInv /\ FilesInv /\ [Next]_vars => FilesInv'
<1> SUFFICES ASSUME AloneInv, FilesInv, [Next]_vars PROVE FilesInv'
  OBVIOUS
<1>1. DOMAIN phase = Attempts /\ DOMAIN run = Attempts
  BY DEF AloneInv, SharedInv, TypeOK
<1>2. ASSUME NEW a \in Attempts, Park(a) \/ SaveProgress(a) \/ SaveResult(a) \/ SaveFailure(a) \/ Crash(a)
      PROVE  FilesInv'
  <2>1. Live(a) /\ CheckpointThen(a, TRUE, TRUE)
    BY <1>2 DEF Park, SaveProgress, SaveResult, SaveFailure, Crash, Live, CheckpointThen
  <2>2. QED
    BY <2>1, FilesClosed
<1>3. ASSUME NEW a \in Attempts,
             \/ RefuseBegin(a) \/ Announce(a) \/ Govern(a) \/ Abort(a) \/ AwaitApproval(a) \/ VerifyApproval(a)
             \/ Finish(a) \/ RecordFailure(a) \/ RecordCompletion(a) \/ Invoke(a) \/ AnswerRefused(a)
             \/ StartStep(a) \/ RefuseStep(a)
      PROVE  FilesInv'
  <2>1. ~Saving(a) /\ UNCHANGED fileVars /\ run' = run
    BY <1>3 DEF RefuseBegin, Announce, Govern, Abort, AwaitApproval, VerifyApproval, Finish, RecordFailure,
                RecordCompletion, Invoke, AnswerRefused, StartStep, RefuseStep, ToPrepare, AtStep, Saving
  <2>2. \E q : phase' = [phase EXCEPT ![a] = q]
    BY <1>3 DEF RefuseBegin, Announce, Govern, Abort, AwaitApproval, VerifyApproval, Finish, RecordFailure,
                RecordCompletion, Invoke, AnswerRefused, StartStep, RefuseStep, AppendThen, Goto, End
  <2>3. QED
    BY <1>1, <2>1, <2>2, FilesAside
<1>4. ASSUME NEW a \in Attempts,
             Answer(a) \/ \E resume \in BOOLEAN, approvals \in SUBSET Gated : Begin(a, resume, approvals)
      PROVE  FilesInv'
  <2>1. ~Saving(a) /\ UNCHANGED fileVars /\ \E q : phase' = [phase EXCEPT ![a] = q]
    BY <1>4 DEF Answer, Begin, Goto, Saving
  <2>2. \A b \in Attempts : b # a => run'[b] = run[b]
    BY <1>1, <1>4 DEF Answer, Begin
  <2>3. QED
    BY <1>1, <2>1, <2>2, FilesAside
<1>5. CASE UNCHANGED vars
  <2>1. \A a \in Attempts : Saved(a)' = Saved(a)
    BY <1>5 DEF vars, Saved
  <2>2. QED
    BY <1>5, <2>1 DEF vars, FilesInv, CheckpointAtomic, Writing, Saving
<1>6. QED
  BY <1>2, <1>3, <1>4, <1>5, FilesOpened, FilesFilled DEF Next, OwnStep

(* Through any failures and crashes, in the middle of a write too, the        *)
(* checkpoint file is missing or holds a whole record - where attempts do not *)
(* overlap on the temporary file of memory-store.mjs.                         *)
THEOREM CheckpointsAreAtomic == ASSUME Exclusive PROVE Spec => []CheckpointAtomic
<1>1. Init => FilesInv
  BY DEF Init, FilesInv, CheckpointAtomic
<1>2. AloneInv /\ FilesInv /\ [Next]_vars => FilesInv'
  BY FilesNext
<1>3. FilesInv => CheckpointAtomic
  BY DEF FilesInv
<1>4. QED
  BY <1>1, <1>2, <1>3, AloneAlways, PTL DEF Spec

----------------------------------------------------------------------------
(* The refinement of Run: each step of an attempt is a step of the one run    *)
(* that the log tells of, or leaves it alone.                                 *)

LEMMA RunKeeps ==
    ASSUME UNCHANGED <<CompletedSteps(log), RecordedCost(log), Has(log, "run.completed")>>
    PROVE  UNCHANGED History!runVars
BY DEF History!runVars

\* An append that completes neither a step nor the run.
LEMMA RunIgnores ==
    ASSUME SharedInv, NEW e \in Events, e.type \notin {"step.completed", "run.completed"},
           log' \in {log, Append(log, e)}
    PROVE  UNCHANGED History!runVars
<1>1. log \in Seq(Events)
  BY DEF SharedInv, TypeOK
<1>2. CASE log' = log
  BY <1>2, RunKeeps
<1>3. CASE log' = Append(log, e)
  <2>1. CompletedSteps(log') = CompletedSteps(log)
    BY <1>1, <1>3, CompletedStepsAppend DEF CompletesAt
  <2>2. RecordedCost(log') = RecordedCost(log)
    BY <1>1, <1>3, RecordedCostAppend DEF ChargesAt
  <2>3. Has(log', "run.completed") = Has(log, "run.completed")
    BY <1>1, <1>3, HasAppend DEF Has
  <2>4. QED
    BY <2>1, <2>2, <2>3, RunKeeps
<1>4. QED
  BY <1>2, <1>3

LEMMA RunCompletes ==
    ASSUME AloneInv, NEW a \in Attempts, RecordCompletion(a)
    PROVE  [History!Next]_(History!runVars)
<1> DEFINE m == Reached(run[a])
           c == run[a].cost
           e == StepCompleted(Last(run[a].completed), c)
<1>1. /\ phase[a] = "complete" /\ m \in 0..NumSteps /\ m > 0 /\ Last(run[a].completed) = m
      /\ log \in Seq(Events) /\ AloneOK("complete", run[a], log, invoked) /\ c \in Nat
  <2>1. phase[a] = "complete"
    BY DEF RecordCompletion
  <2>2. QED
    BY <2>1, AttemptFacts, AloneFacts DEF AttemptOK, AloneInv, RunObjects
<1>2. /\ Len(CompletedSteps(log)) = m - 1 /\ ~Has(log, "run.completed")
      /\ run[a].spent = RecordedCost(log) + c /\ c <= Cost[m] /\ run[a].spent <= Budget
  BY <1>1 DEF AloneOK
<1>3. e \in Events /\ e.type = "step.completed" /\ e.step = m /\ e.cost = c
  <2>1. m \in Steps
    BY <1>1, SizesAssumption DEF Steps
  <2>2. e = StepCompleted(m, c)
    BY <1>1
  <2> HIDE DEF e, m, c
  <2>3. QED
    BY <1>1, <2>1, <2>2, EventsMade
<1>4. log' \in {log, Append(log, e)}
  BY DEF RecordCompletion, AppendThen
<1> HIDE DEF e, m, c
<1>5. CASE log' = log
  BY <1>5, RunKeeps
<1>6. CASE log' = Append(log, e)
  <2>1. CompletedSteps(log) \in Seq(Steps) /\ RecordedCost(log) \in Nat /\ m \in Steps
    BY <1>1, ReconstructTypes, SizesAssumption DEF Steps
  <2>2. CompletedSteps(log') = Append(CompletedSteps(log), m)
    BY <1>1, <1>3, <1>6, CompletedStepsAppend DEF CompletesAt
  <2>3. Len(CompletedSteps(log')) = Len(CompletedSteps(log)) + 1
    BY <2>1, <2>2, AppendProperties
  <2>4. RecordedCost(log') = RecordedCost(log) + c
    BY <1>1, <1>3, <1>6, RecordedCostAppend DEF ChargesAt
  <2>5. Has(log', "run.completed") = Has(log, "run.completed")
    BY <1>1, <1>3, <1>6, HasAppend DEF Has
  <2>6. ~Has(log, "run.completed") /\ Len(CompletedSteps(log)) < NumSteps
        /\ c <= Cost[Len(CompletedSteps(log)) + 1] /\ RecordedCost(log) + c <= Budget
    BY <1>1, <1>2, SizesAssumption
  <2>7. History!CompleteStep(c)
    BY <2>3, <2>4, <2>5, <2>6 DEF History!CompleteStep
  <2>8. c \in 0..Budget
    BY <1>1, <2>1, <2>6, CostAssumption
  <2>9. QED
    BY <2>7, <2>8 DEF History!Next
<1>7. QED
  BY <1>4, <1>5, <1>6

LEMMA RunCloses ==
    ASSUME AloneInv, NEW a \in Attempts, Finish(a)
    PROVE  [History!Next]_(History!runVars)
<1> DEFINE e == RunEvent("run.completed")
<1>1. /\ phase[a] = "loop" /\ log \in Seq(Events) /\ AloneOK("loop", run[a], log, invoked)
      /\ Reached(run[a]) = NumSteps
  BY AttemptFacts, AloneFacts, SizesAssumption DEF Finish, AloneInv
<1>2. run[a].completed = CompletedSteps(log) /\ ~Has(log, "run.completed")
  BY <1>1, MidwayOpen DEF AloneOK, Synced, Midway
<1>3. Len(CompletedSteps(log)) = NumSteps
  BY <1>1, <1>2, RecordLength
<1>4. Plain(e) /\ e.type = "run.completed"
  BY PlainEvents, EventsMade DEF RunTypes
<1>5. log' \in {log, Append(log, e)}
  BY DEF Finish, AppendThen
<1> HIDE DEF e
<1>6. CASE log' = log
  BY <1>6, RunKeeps
<1>7. CASE log' = Append(log, e)
  <2>1. CompletedSteps(log') = CompletedSteps(log) /\ RecordedCost(log') = RecordedCost(log)
        /\ Has(log', "run.completed")
    BY <1>1, <1>4, <1>7, PlainAppend
  <2>2. Has(log', "run.completed") = TRUE
    BY <2>1 DEF Has
  <2>3. History!Close
    BY <1>2, <1>3, <2>1, <2>2 DEF History!Close
  <2>4. QED
    BY <2>3 DEF History!Next
<1>8. QED
  BY <1>5, <1>6, <1>7

LEMMA RunSteps == AloneInv /\ [Next]_vars => [History!Next]_(History!runVars)
<1> SUFFICES ASSUME AloneInv, [Next]_vars PROVE [History!Next]_(History!runVars)
  OBVIOUS
<1>1. SharedInv
  BY DEF AloneInv
<1>2. ASSUME NEW a \in Attempts, NEW t \in RunTypes \ {"run.completed"}, log' \in {log, Append(log, RunEvent(t))}
      PROVE  UNCHANGED History!runVars
  <2>1. RunEvent(t) \in Events /\ RunEvent(t).type = t /\ t # "step.completed"
    BY EventsMade DEF RunTypes
  <2>2. QED
    BY <1>1, <1>2, <2>1, RunIgnores
<1>3. ASSUME NEW a \in Attempts, NEW t \in StepTypes \ {"step.completed"}, Reached(run[a]) < NumSteps,
             log' \in {log, Append(log, StepEvent(t, Step(a)))}
      PROVE  UNCHANGED History!runVars
  <2>1. Step(a) \in Steps
    BY <1>1, <1>3, AttemptFacts
  <2>2. StepEvent(t, Step(a)) \in Events /\ StepEvent(t, Step(a)).type = t /\ t # "run.completed"
    BY <2>1, EventsMade DEF StepTypes
  <2>3. QED
    BY <1>1, <1>3, <2>2, RunIgnores
<1>4. CASE log' = log
  BY <1>4, RunKeeps
<1>5. ASSUME NEW a \in Attempts, Announce(a) \/ Govern(a) \/ RecordFailure(a)
      PROVE  UNCHANGED History!runVars
  <2>1. \E t \in RunTypes \ {"run.completed"} : log' \in {log, Append(log, RunEvent(t))}
    BY <1>5 DEF Announce, Govern, RecordFailure, AppendThen, RunTypes
  <2>2. QED
    BY <1>2, <1>5, <2>1
<1>6. ASSUME NEW a \in Attempts, AwaitApproval(a) \/ VerifyApproval(a) \/ StartStep(a)
      PROVE  UNCHANGED History!runVars
  <2>1. Reached(run[a]) < NumSteps
    BY <1>1, <1>6, AttemptFacts DEF AwaitApproval, VerifyApproval, StartStep, ToPrepare, AtStep, AttemptOK
  <2>2. \E t \in StepTypes \ {"step.completed"} : log' \in {log, Append(log, StepEvent(t, Step(a)))}
    BY <1>6 DEF AwaitApproval, VerifyApproval, StartStep, AppendThen, StepTypes
  <2>3. QED
    BY <1>3, <2>1, <2>2
<1>7. ASSUME NEW a \in Attempts,
             \/ RefuseBegin(a) \/ Abort(a) \/ Park(a) \/ RefuseStep(a) \/ Invoke(a) \/ SaveProgress(a)
             \/ SaveResult(a) \/ SaveFailure(a) \/ Answer(a) \/ AnswerRefused(a) \/ Crash(a)
             \/ OpenTemp(a) \/ FillTemp(a)
             \/ \E resume \in BOOLEAN, approvals \in SUBSET Gated : Begin(a, resume, approvals)
      PROVE  log' = log
  BY <1>7 DEF RefuseBegin, Abort, Park, RefuseStep, Invoke, SaveProgress, SaveResult, SaveFailure, Answer,
              AnswerRefused, Crash, OpenTemp, FillTemp, Begin
<1>8. CASE UNCHANGED vars
  BY <1>4, <1>8 DEF vars
<1>9. QED
  BY <1>4, <1>5, <1>6, <1>7, <1>8, RunCompletes, RunCloses DEF Next, OwnStep

LEMMA RunInit == Init => History!Init
<1> SUFFICES ASSUME Init PROVE History!Init
  OBVIOUS
<1>1. log = <<>> /\ CompletedSteps(log) = <<>> /\ RecordedCost(log) = 0 /\ Len(<<>>) = 0
  BY ReconstructEmpty DEF Init
<1>2. Has(log, "run.completed") = FALSE
  BY <1>1 DEF Has
<1>3. QED
  BY <1>1, <1>2 DEF History!Init

(* Whatever attempts fail, die and are resumed, one after the other, the log  *)
(* tells of one run: its steps complete in order, each once and inside its    *)
(* reservation, the charge stays in the budget, and complete is for good.     *)
THEOREM LogTellsOneRun == ASSUME Exclusive PROVE Spec => OneRun
<1>1. Init => History!Init
  BY RunInit
<1>2. AloneInv /\ [Next]_vars => [History!Next]_(History!runVars)
  BY RunSteps
<1>3. QED
  BY <1>1, <1>2, AloneAlways, PTL DEF Spec, OneRun, History!Spec

----------------------------------------------------------------------------
(* What an operator is shown of attempts that take turns.                     *)

Statuses  == {"unknown", "running", "awaiting_approval", "completed", "failed"}
Summaries == [status : Statuses, waitingFor : Nat, completed : Nat, spent : Nat, reserved : Nat,
              failure : BOOLEAN]

LEMMA AbsorbTypes ==
    ASSUME NEW r \in Summaries, NEW e \in Events
    PROVE  Absorb(r, e) \in Summaries
<1>1. e.type \in StepTypes \cup RunTypes /\ e.cost \in Nat /\ (e.type \in StepTypes => e.step \in Steps /\ e.step \in Nat)
  BY EventTypes, SizesAssumption DEF Steps
<1>2. e.type = "step.completed" => e.step \in Steps /\ Cost[e.step] \in Nat
  BY <1>1, CostAssumption DEF StepTypes
<1>3. /\ r.status \in Statuses /\ r.waitingFor \in Nat /\ r.completed \in Nat /\ r.spent \in Nat /\ r.reserved \in Nat
      /\ r.failure \in BOOLEAN
      /\ r = [status |-> r.status, waitingFor |-> r.waitingFor, completed |-> r.completed, spent |-> r.spent,
              reserved |-> r.reserved, failure |-> r.failure]
  BY DEF Summaries
<1>4. CASE e.type = "step.completed"
  <2>1. Absorb(r, e) = [r EXCEPT !.completed = @ + 1, !.spent = @ + e.cost, !.reserved = @ + Cost[e.step]]
    BY <1>4 DEF Absorb
  <2>2. r.completed + 1 \in Nat /\ r.spent + e.cost \in Nat /\ r.reserved + Cost[e.step] \in Nat
    BY <1>1, <1>2, <1>3, <1>4
  <2>3. QED
    BY <2>1, <2>2 DEF Summaries
<1>5. CASE e.type = "run.awaiting-approval"
  <2>1. Absorb(r, e) = [r EXCEPT !.status = "awaiting_approval", !.waitingFor = e.step]
    BY <1>5 DEF Absorb
  <2>2. QED
    BY <1>1, <1>5, <2>1 DEF Summaries, Statuses, StepTypes
<1>6. CASE e.type \notin {"step.completed", "run.awaiting-approval"}
  <2>1. \/ Absorb(r, e) = r
        \/ \E s \in Statuses : \/ Absorb(r, e) = [r EXCEPT !.status = s]
                               \/ Absorb(r, e) = [r EXCEPT !.status = s, !.waitingFor = 0]
                               \/ Absorb(r, e) = [r EXCEPT !.status = s, !.waitingFor = 0, !.failure = TRUE]
    BY <1>6 DEF Absorb, Statuses
  <2>2. ASSUME NEW s \in Statuses
        PROVE  /\ [r EXCEPT !.status = s] \in Summaries
               /\ [r EXCEPT !.status = s, !.waitingFor = 0] \in Summaries
               /\ [r EXCEPT !.status = s, !.waitingFor = 0, !.failure = TRUE] \in Summaries
    BY <1>3 DEF Summaries
  <2>3. QED
    BY <2>1, <2>2
<1>7. QED
  BY <1>4, <1>5, <1>6

LEMMA SummarizeFold ==
    ASSUME NEW l \in Seq(Events)
    PROVE  \E f \in [0..Len(l) -> Summaries] :
              /\ f[0] = NoSummary
              /\ \A k \in 1..Len(l) : f[k] = Absorb(f[k - 1], l[k])
              /\ Summarize(l) = f[Len(l)]
<1> DEFINE n == Len(l)
           S == Summaries
           F == [k \in 1..n |-> [x \in S |-> Absorb(x, l[k])]]
           Body(f) == [k \in 0..n |-> IF k = 0 THEN NoSummary ELSE Absorb(f[k - 1], l[k])]
           shown == CHOOSE f : f = Body(f)
<1>1. n \in Nat /\ NoSummary \in S
  BY DEF NoSummary, Summaries, Statuses
<1>2. F \in [1..n -> [S -> S]]
  <2>1. ASSUME NEW k \in 1..n, NEW x \in S PROVE Absorb(x, l[k]) \in S
    <3>1. l[k] \in Events
      OBVIOUS
    <3>2. QED
      BY <3>1, AbsorbTypes
  <2>2. QED
    BY <2>1
<1>3. PICK f \in [0..n -> S] : Folds(f, n, S, NoSummary, F)
  <2> HIDE DEF F, S, n
  <2> QED
    BY <1>1, <1>2, FoldExists
<1>4. f[0] = NoSummary /\ \A k \in 1..n : f[k] = Absorb(f[k - 1], l[k])
  <2>1. ASSUME NEW k \in 1..n PROVE f[k] = Absorb(f[k - 1], l[k])
    <3>1. f[k - 1] \in S
      <4> HIDE DEF S
      <4> QED
        BY <1>1
    <3>2. f[k] = F[k][f[k - 1]]
      BY <1>3, <3>1 DEF Folds
    <3>3. QED
      BY <3>1, <3>2
  <2>2. QED
    BY <1>3, <2>1 DEF Folds
<1>5. f = Body(f)
  <2>1. ASSUME NEW k \in 0..n PROVE f[k] = Body(f)[k]
    <3>1. CASE k = 0
      BY <1>1, <1>4, <3>1
    <3>2. CASE k \in 1..n
      <4>1. f[k] = Absorb(f[k - 1], l[k])
        BY <1>4, <3>2
      <4>2. Body(f)[k] = Absorb(f[k - 1], l[k])
        BY <3>2
      <4>3. QED
        BY <4>1, <4>2
    <3>3. QED
      BY <1>1, <3>1, <3>2
  <2>2. QED
    BY <1>3, <2>1
<1>6. shown = Body(shown)
  BY <1>5
<1>7. Folds(shown, n, S, NoSummary, F)
  <2>1. shown[0] = NoSummary
    <3> HIDE DEF shown
    <3>1. Body(shown)[0] = NoSummary
      BY <1>1
    <3>2. QED
      BY <1>6, <3>1
  <2>2. ASSUME NEW k \in 1..n, shown[k - 1] \in S PROVE shown[k] = F[k][shown[k - 1]]
    <3>1. shown[k] = Body(shown)[k]
      BY <1>6
    <3>2. Body(shown)[k] = Absorb(shown[k - 1], l[k])
      BY <1>1
    <3>3. QED
      BY <2>2, <3>1, <3>2
  <2>3. QED
    BY <2>1, <2>2 DEF Folds
<1>8. shown[n] = f[n]
  <2> HIDE DEF F, S, n, shown
  <2> QED
    BY <1>1, <1>2, <1>3, <1>7, FoldUnique
<1>9. Summarize(l) = shown[n]
  BY DEF Summarize
<1>10. QED
  BY <1>4, <1>8, <1>9

LEMMA SummarizeAppend ==
    ASSUME NEW l \in Seq(Events), NEW e \in Events
    PROVE  /\ Summarize(Append(l, e)) = Absorb(Summarize(l), e)
           /\ Summarize(l) \in Summaries
<1> DEFINE n == Len(l)
           S == Summaries
           F == [k \in 1..n |-> [x \in S |-> Absorb(x, l[k])]]
<1>1. n \in Nat /\ NoSummary \in S
  BY DEF NoSummary, Summaries, Statuses
<1>2. F \in [1..n -> [S -> S]]
  <2>1. ASSUME NEW k \in 1..n, NEW x \in S PROVE Absorb(x, l[k]) \in S
    <3>1. l[k] \in Events
      OBVIOUS
    <3>2. QED
      BY <3>1, AbsorbTypes
  <2>2. QED
    BY <2>1
<1>3. PICK f \in [0..n -> S] : /\ f[0] = NoSummary
                               /\ \A k \in 1..n : f[k] = Absorb(f[k - 1], l[k])
                               /\ Summarize(l) = f[n]
  BY SummarizeFold
<1>4. PICK g \in [0..(n + 1) -> S] : /\ g[0] = NoSummary
                                     /\ \A k \in 1..(n + 1) : g[k] = Absorb(g[k - 1], Append(l, e)[k])
                                     /\ Summarize(Append(l, e)) = g[n + 1]
  <2>1. Append(l, e) \in Seq(Events) /\ Len(Append(l, e)) = n + 1
    BY AppendEvent
  <2> HIDE DEF n
  <2> QED
    BY <2>1, SummarizeFold
<1>5. Folds(f, n, S, NoSummary, F)
  BY <1>3 DEF Folds
<1>6. Folds(g, n, S, NoSummary, F)
  <2>1. ASSUME NEW k \in 1..n, g[k - 1] \in S PROVE g[k] = F[k][g[k - 1]]
    <3>1. g[k] = Absorb(g[k - 1], Append(l, e)[k]) /\ Append(l, e)[k] = l[k]
      BY <1>1, <1>4, AppendEvent
    <3>2. QED
      BY <2>1, <3>1
  <2>2. QED
    BY <1>4, <2>1 DEF Folds
<1>7. f[n] = g[n]
  <2> HIDE DEF F, S, n
  <2>1. \A k \in 0..n : f[k] = g[k] /\ f[k] \in S
    BY <1>1, <1>2, <1>5, <1>6, FoldUnique, Zenon
  <2>2. QED
    BY <1>1, <2>1
<1>8. g[n + 1] = Absorb(g[n], e)
  <2>1. n + 1 \in 1..(n + 1) /\ (n + 1) - 1 = n /\ Append(l, e)[n + 1] = e
    BY <1>1, AppendEvent
  <2>2. g[n + 1] = Absorb(g[(n + 1) - 1], Append(l, e)[n + 1])
    BY <1>4, <2>1
  <2>3. QED
    BY <2>1, <2>2
<1>9. Summarize(l) = f[n] /\ Summarize(Append(l, e)) = g[n + 1]
  BY <1>3, <1>4
<1>10. f[n] \in S
  BY <1>1
<1>11. QED
  BY <1>7, <1>8, <1>9, <1>10

LEMMA SummarizeEmpty == Summarize(<<>>) = NoSummary
<1>1. <<>> \in Seq(Events) /\ Len(<<>>) = 0
  OBVIOUS
<1>2. QED
  BY <1>1, SummarizeFold

\* What one more event makes of the summary.
LEMMA AbsorbShows ==
    ASSUME NEW r \in Summaries, NEW e \in Events
    PROVE  /\ e.type = "run.started" => Absorb(r, e).status = "running" /\ Absorb(r, e).waitingFor = r.waitingFor
           /\ e.type = "run.resumed" => Absorb(r, e).status = "running" /\ Absorb(r, e).waitingFor = 0
           /\ e.type = "run.awaiting-approval" => /\ Absorb(r, e).status = "awaiting_approval"
                                                  /\ Absorb(r, e).waitingFor = e.step
           /\ e.type = "run.completed" => Absorb(r, e).status = "completed" /\ Absorb(r, e).waitingFor = 0
           /\ e.type \in {"governance.verified", "step.approval-verified", "step.started", "step.completed"} =>
                 Absorb(r, e).status = r.status /\ Absorb(r, e).waitingFor = r.waitingFor
<1>1. DOMAIN r = {"status", "waitingFor", "completed", "spent", "reserved", "failure"}
  BY DEF Summaries
<1>2. CASE e.type = "run.started"
  BY <1>1, <1>2 DEF Absorb
<1>3. CASE e.type = "run.resumed"
  BY <1>1, <1>3 DEF Absorb
<1>4. CASE e.type = "run.awaiting-approval"
  BY <1>1, <1>4 DEF Absorb
<1>5. CASE e.type = "run.completed"
  BY <1>1, <1>5 DEF Absorb
<1>6. CASE e.type = "step.completed"
  BY <1>1, <1>6 DEF Absorb
<1>7. CASE e.type \in {"governance.verified", "step.approval-verified", "step.started"}
  BY <1>1, <1>7 DEF Absorb
<1>8. QED
  BY <1>2, <1>3, <1>4, <1>5, <1>6, <1>7

LEMMA AbsorbCounts ==
    ASSUME NEW r \in Summaries, NEW e \in Events
    PROVE  IF e.type = "step.completed"
           THEN /\ Absorb(r, e).completed = r.completed + 1
                /\ Absorb(r, e).spent = r.spent + e.cost
                /\ Absorb(r, e).reserved = r.reserved + Cost[e.step]
           ELSE /\ Absorb(r, e).completed = r.completed
                /\ Absorb(r, e).spent = r.spent
                /\ Absorb(r, e).reserved = r.reserved
<1>1. DOMAIN r = {"status", "waitingFor", "completed", "spent", "reserved", "failure"}
  BY DEF Summaries
<1>2. CASE e.type = "step.completed"
  BY <1>1, <1>2 DEF Absorb
<1>3. CASE e.type # "step.completed"
  <2>1. \/ Absorb(r, e) = r
        \/ \E s, w : \/ Absorb(r, e) = [r EXCEPT !.status = s]
                     \/ Absorb(r, e) = [r EXCEPT !.status = s, !.waitingFor = w]
                     \/ Absorb(r, e) = [r EXCEPT !.status = s, !.waitingFor = w, !.failure = TRUE]
    BY <1>3 DEF Absorb
  <2>2. QED
    BY <1>1, <1>3, <2>1
<1>4. QED
  BY <1>2, <1>3

\* A failure is on show from the event that records it: no event clears it.
LEMMA AbsorbFailure ==
    ASSUME NEW r \in Summaries, NEW e \in Events
    PROVE  Absorb(r, e).failure <=> r.failure \/ e.type = "run.failed"
<1>1. DOMAIN r = {"status", "waitingFor", "completed", "spent", "reserved", "failure"}
      /\ r.failure \in BOOLEAN
  BY DEF Summaries
<1>2. CASE e.type = "run.failed"
  BY <1>1, <1>2 DEF Absorb
<1>3. CASE e.type = "step.completed"
  BY <1>1, <1>3 DEF Absorb
<1>4. CASE e.type \notin {"run.failed", "step.completed"}
  <2>1. \/ Absorb(r, e) = r
        \/ \E s, w : \/ Absorb(r, e) = [r EXCEPT !.status = s]
                     \/ Absorb(r, e) = [r EXCEPT !.status = s, !.waitingFor = w]
    BY <1>4 DEF Absorb
  <2>2. QED
    BY <1>1, <1>4, <2>1
<1>5. QED
  BY <1>2, <1>3, <1>4

\* An attempt begins only after those before it, and nothing happens to them
\* from then on.
TurnsInv ==
    /\ \A a, b \in Attempts : b > a /\ phase[a] = "new" => phase[b] = "new"
    /\ \A a \in Attempts : Live(a) => Latest(a)
    /\ \A a \in Attempts : outcome[a] \in {"awaiting", "completed"} => phase[a] = "ended"

\* The sums of the summary are those of a resumption, its failure is one in the log.
TotalsInv ==
    /\ Summary.completed = Len(CompletedSteps(log)) /\ Summary.spent = RecordedCost(log)
    /\ Summary.spent <= Summary.reserved
    /\ Summary.failure <=> Has(log, "run.failed")

\* What the summary shows while attempt a, the last, is in phase p and has come to o.
ShownOK(p, o, r, l) ==
    /\ p = "announce" /\ ~r.resumed => l = <<>>
    /\ p \in Midway \ {"announce", "park"} => Summarize(l).status = "running" /\ Summarize(l).waitingFor = 0
    /\ p = "park" \/ o = "awaiting" => /\ Summarize(l).status = "awaiting_approval"
                                       /\ Summarize(l).waitingFor = Head(Reconstruct(l).pending)
    /\ p = "saveResult" \/ o = "completed" => /\ Summarize(l).status = "completed" /\ Summarize(l).waitingFor = 0
                                              /\ Len(CompletedSteps(l)) = NumSteps
                                              /\ RecordedCost(l) = r.spent

SummaryInv ==
    /\ TurnsInv
    /\ TotalsInv
    /\ \A a \in Attempts : Latest(a) => ShownOK(phase[a], outcome[a], run[a], log)

\* The attempt a makes the step.
Acts(a) ==
    /\ \E q, r : phase' = [phase EXCEPT ![a] = q] /\ q # "new" /\ run' = [run EXCEPT ![a] = r]
    /\ \/ outcome' = outcome /\ phase[a] # "ended"
       \/ \E o : outcome' = [outcome EXCEPT ![a] = o] /\ (o \in {"awaiting", "completed"} => phase'[a] = "ended")
    /\ \/ Live(a)
       \/ phase[a] = "new" /\ (\A b \in 1..(a - 1) : phase[b] # "new") /\ \A b \in Attempts : ~Live(b)

\* Then it is the last one from now on.
LEMMA ActsInTurn ==
    ASSUME SharedInv, TurnsInv, NEW a \in Attempts, Acts(a)
    PROVE  TurnsInv' /\ Latest(a)' /\ \A b \in Attempts : Latest(b)' => b = a
<1>1. DOMAIN phase = Attempts /\ DOMAIN outcome = Attempts /\ \A b \in Attempts : b \in Nat
  BY SizesAssumption DEF SharedInv, TypeOK, Attempts
<1>2. PICK q : phase' = [phase EXCEPT ![a] = q] /\ q # "new"
  BY DEF Acts
<1>3. phase'[a] = q /\ \A b \in Attempts : b # a => phase'[b] = phase[b]
  BY <1>1, <1>2
<1>4. \A b \in Attempts : b > a => phase[b] = "new"
  <2>1. CASE Live(a)
    BY <2>1 DEF TurnsInv, Latest
  <2>2. CASE phase[a] = "new"
    BY <2>2 DEF TurnsInv
  <2>3. QED
    BY <2>1, <2>2 DEF Acts
<1>5. \A b \in Attempts : b < a => phase[b] # "new"
  <2>1. CASE Live(a)
    BY <2>1 DEF TurnsInv, Live
  <2>2. CASE \A b \in 1..(a - 1) : phase[b] # "new"
    BY <1>1, <2>2 DEF Attempts
  <2>3. QED
    BY <2>1, <2>2 DEF Acts
<1>6. \A b \in Attempts : b # a => ~Live(b)
  <2>1. CASE Live(a)
    <3>1. SUFFICES ASSUME NEW b \in Attempts, b # a, Live(b) PROVE FALSE
      OBVIOUS
    <3>2. Latest(a) /\ Latest(b)
      BY <2>1, <3>1 DEF TurnsInv
    <3>3. b > a \/ a > b
      BY <1>1, <3>1
    <3>4. QED
      BY <3>2, <3>3 DEF Latest
  <2>2. QED
    BY <2>1 DEF Acts
<1>7. Latest(a)'
  BY <1>1, <1>2, <1>3, <1>4 DEF Latest
<1>8. ASSUME NEW b \in Attempts, Latest(b)' PROVE b = a
  <2>1. b < a \/ b > a \/ b = a
    BY <1>1
  <2>2. b < a => phase'[a] = "new"
    BY <1>8 DEF Latest
  <2>3. b > a => phase'[b] = "new"
    BY <1>1, <1>3, <1>4
  <2>4. phase'[b] # "new"
    BY <1>8 DEF Latest
  <2>5. QED
    BY <1>2, <1>3, <2>1, <2>2, <2>3, <2>4
<1>9. ASSUME NEW b \in Attempts, NEW c \in Attempts, c > b, phase'[b] = "new" PROVE phase'[c] = "new"
  <2>1. b # a /\ phase[b] = "new" /\ ~(b < a)
    BY <1>2, <1>3, <1>5, <1>9
  <2>2. c > a /\ c # a
    BY <1>1, <1>9, <2>1
  <2>3. QED
    BY <1>3, <1>4, <2>2
<1>10. ASSUME NEW b \in Attempts, Live(b)' PROVE Latest(b)'
  <2>1. b = a
    BY <1>3, <1>6, <1>10 DEF Live
  <2>2. QED
    BY <1>7, <2>1
<1>11. ASSUME NEW b \in Attempts, outcome'[b] \in {"awaiting", "completed"} PROVE phase'[b] = "ended"
  <2>1. CASE outcome' = outcome /\ phase[a] # "ended"
    BY <1>3, <1>11, <2>1 DEF TurnsInv
  <2>2. CASE \E o : outcome' = [outcome EXCEPT ![a] = o] /\ (o \in {"awaiting", "completed"} => phase'[a] = "ended")
    BY <1>1, <1>3, <1>11, <2>2 DEF TurnsInv
  <2>3. QED
    BY <2>1, <2>2 DEF Acts
<1>12. TurnsInv'
  BY <1>9, <1>10, <1>11 DEF TurnsInv
<1>13. QED
  BY <1>7, <1>8, <1>12

\* An event that may be appended: a completion keeps to its reservation.
Fits(e) == e \in Events /\ (e.type = "step.completed" => e.cost <= Cost[e.step])

LEMMA TotalsKept ==
    ASSUME SharedInv, TotalsInv, NEW e, Fits(e), log' \in {log, Append(log, e)}
    PROVE  TotalsInv'
<1>1. log \in Seq(Events) /\ e \in Events
  BY DEF SharedInv, TypeOK, Fits
<1>2. CASE log' = log
  BY <1>2 DEF TotalsInv, Summary
<1>3. CASE log' = Append(log, e)
  <2>1. /\ Summary \in Summaries /\ Summary' = Absorb(Summary, e)
        /\ CompletedSteps(log') = CompletesAt(e, CompletedSteps(log))
        /\ RecordedCost(log') = ChargesAt(e, RecordedCost(log))
        /\ CompletedSteps(log) \in Seq(Steps) /\ RecordedCost(log) \in Nat
    BY <1>1, <1>3, SummarizeAppend, CompletedStepsAppend, RecordedCostAppend, ReconstructTypes DEF Summary
  <2>2. Summary'.failure <=> Has(log', "run.failed")
    <3>1. Summary'.failure <=> Summary.failure \/ e.type = "run.failed"
      BY <1>1, <2>1, AbsorbFailure
    <3>2. Has(log', "run.failed") <=> Has(log, "run.failed") \/ e.type = "run.failed"
      BY <1>1, <1>3, HasAppend
    <3>3. QED
      BY <3>1, <3>2 DEF TotalsInv
  <2>3. CASE e.type = "step.completed"
    <3>1. e.step \in Steps /\ e.cost \in Nat /\ e.cost <= Cost[e.step] /\ Cost[e.step] \in Nat
      BY <1>1, <2>3, EventTypes, CostAssumption DEF Fits, StepTypes
    <3>2. /\ Summary'.completed = Summary.completed + 1 /\ Summary'.spent = Summary.spent + e.cost
          /\ Summary'.reserved = Summary.reserved + Cost[e.step]
      BY <1>1, <2>1, <2>3, AbsorbCounts
    <3>3. /\ Len(CompletedSteps(log')) = Len(CompletedSteps(log)) + 1
          /\ RecordedCost(log') = RecordedCost(log) + e.cost
      BY <2>1, <2>3, <3>1, AppendProperties DEF CompletesAt, ChargesAt
    <3>4. Summary.spent \in Nat /\ Summary.reserved \in Nat
      BY <2>1 DEF Summaries
    <3>5. QED
      BY <2>2, <3>1, <3>2, <3>3, <3>4 DEF TotalsInv
  <2>4. CASE e.type # "step.completed"
    <3>1. /\ Summary'.completed = Summary.completed /\ Summary'.spent = Summary.spent
          /\ Summary'.reserved = Summary.reserved
      BY <1>1, <2>1, <2>4, AbsorbCounts
    <3>2. CompletedSteps(log') = CompletedSteps(log) /\ RecordedCost(log') = RecordedCost(log)
      BY <2>1, <2>4 DEF CompletesAt, ChargesAt
    <3>3. QED
      BY <2>2, <3>1, <3>2 DEF TotalsInv
  <2>5. QED
    BY <2>3, <2>4
<1>4. QED
  BY <1>2, <1>3

\* The invariant is kept by a step of a that leaves the summary right for a.
LEMMA SummaryActs ==
    ASSUME SharedInv, SummaryInv, NEW a \in Attempts, Acts(a), NEW e, Fits(e), log' \in {log, Append(log, e)},
           ShownOK(phase'[a], outcome'[a], run'[a], log')
    PROVE  SummaryInv'
<1>1. TurnsInv' /\ \A b \in Attempts : Latest(b)' => b = a
  BY ActsInTurn DEF SummaryInv
<1>2. TotalsInv'
  BY TotalsKept DEF SummaryInv
<1>3. ASSUME NEW b \in Attempts, Latest(b)' PROVE ShownOK(phase'[b], outcome'[b], run'[b], log')
  BY <1>1, <1>3
<1>4. QED
  BY <1>1, <1>2, <1>3 DEF SummaryInv

\* What is known of an attempt under way.
LEMMA LiveShown ==
    ASSUME SharedInv, SummaryInv, NEW a \in Attempts, Live(a)
    PROVE  /\ ShownOK(phase[a], outcome[a], run[a], log) /\ outcome[a] \notin {"awaiting", "completed"}
           /\ phase[a] # "ended"
           /\ run' = run => run' = [run EXCEPT ![a] = run[a]]
           /\ log \in Seq(Events) /\ Summarize(log) \in Summaries
<1>1. log \in Seq(Events) /\ Summarize(log) \in Summaries
  <2>1. log \in Seq(Events) /\ RunEvent("run.failed") \in Events
    BY EventsMade DEF SharedInv, TypeOK, RunTypes
  <2>2. QED
    BY <2>1, SummarizeAppend
<1>2. Latest(a) /\ phase[a] # "ended" /\ outcome[a] \notin {"awaiting", "completed"}
  BY DEF SummaryInv, TurnsInv, Live
<1>3. ShownOK(phase[a], outcome[a], run[a], log)
  BY <1>2 DEF SummaryInv
<1>4. run' = run => run' = [run EXCEPT ![a] = run[a]]
  BY RunKept DEF SharedInv
<1>5. QED
  BY <1>1, <1>2, <1>3, <1>4

\* The attempt under way goes to the phase q and its promise is still open.
LEMMA GoesOn ==
    ASSUME SharedInv, SummaryInv, NEW a \in Attempts, Live(a), NEW q, q # "new", Goto(a, q),
           NEW r, run' = [run EXCEPT ![a] = r], NEW e, Fits(e), log' \in {log, Append(log, e)},
           \A o : o \notin {"awaiting", "completed"} => ShownOK(q, o, r, log')
    PROVE  SummaryInv'
<1>1. /\ phase' = [phase EXCEPT ![a] = q] /\ outcome' = outcome /\ phase'[a] = q /\ run'[a] = r
      /\ outcome[a] \notin {"awaiting", "completed"} /\ phase[a] # "ended"
  BY LiveShown DEF Goto, SharedInv, TypeOK
<1>2. Acts(a)
  BY <1>1 DEF Acts
<1>3. ShownOK(phase'[a], outcome'[a], run'[a], log')
  BY <1>1
<1>4. QED
  BY <1>2, <1>3, SummaryActs

\* It stops, or goes to the catch block.
LEMMA GivesUp ==
    ASSUME SharedInv, SummaryInv, NEW a \in Attempts, Live(a), run' = run,
           \/ \E q \in {"fail", "saveFailure"} : Goto(a, q)
           \/ \E o \in {"rejected", "crashed"} : /\ phase' \in {[phase EXCEPT ![a] = p] : p \in {"ended", "crashed"}}
                                                 /\ outcome' = [outcome EXCEPT ![a] = o],
           NEW e, Fits(e), log' \in {log, Append(log, e)}
    PROVE  SummaryInv'
<1>1. run' = [run EXCEPT ![a] = run[a]]
  BY LiveShown
<1>2. ASSUME NEW q \in {"fail", "saveFailure", "ended", "crashed"}, NEW o, o \notin {"awaiting", "completed"}
      PROVE  ShownOK(q, o, run[a], log')
  BY <1>2 DEF ShownOK, Midway
<1>3. ASSUME NEW q \in {"fail", "saveFailure"}, Goto(a, q) PROVE SummaryInv'
  BY <1>1, <1>2, <1>3, GoesOn
<1>4. ASSUME NEW o \in {"rejected", "crashed"}, NEW p \in {"ended", "crashed"},
             phase' = [phase EXCEPT ![a] = p], outcome' = [outcome EXCEPT ![a] = o]
      PROVE  SummaryInv'
  <2>1. phase'[a] = p /\ outcome'[a] = o /\ run'[a] = run[a]
    BY <1>4 DEF SharedInv, TypeOK
  <2>2. Acts(a)
    BY <1>1, <1>4, <2>1 DEF Acts
  <2>3. ShownOK(phase'[a], outcome'[a], run'[a], log')
    BY <1>2, <2>1
  <2>4. QED
    BY <2>2, <2>3, SummaryActs
<1>5. QED
  BY <1>3, <1>4

LEMMA FitsMade ==
    /\ \A t \in RunTypes : Fits(RunEvent(t)) /\ RunEvent(t) \in Events /\ RunEvent(t).type = t
    /\ \A t \in StepTypes \ {"step.completed"}, s \in Steps :
          Fits(StepEvent(t, s)) /\ StepEvent(t, s) \in Events /\ StepEvent(t, s).type = t /\ StepEvent(t, s).step = s
BY EventsMade DEF Fits, RunTypes, StepTypes

LEMMA SummaryBegin ==
    ASSUME Exclusive, AloneInv, SummaryInv, NEW a \in Attempts, NEW resume, NEW approvals \in SUBSET Gated,
           Begin(a, resume, approvals)
    PROVE  SummaryInv'
<1> DEFINE r == [Reconstruct(log) EXCEPT !.approvals = approvals]
<1>1. /\ phase[a] = "new" /\ (\A b \in 1..(a - 1) : phase[b] # "new") /\ (\A b \in Attempts : ~Live(b))
      /\ run' = [run EXCEPT ![a] = r] /\ phase' = [phase EXCEPT ![a] = "announce"] /\ outcome' = outcome
      /\ log' = log
  BY DEF Begin, Goto
<1>2. ~r.resumed => log = <<>>
  BY DEF Reconstruct, FreshRun
<1> HIDE DEF r
<1>3. SharedInv /\ phase'[a] = "announce" /\ run'[a] = r /\ outcome'[a] \notin {"awaiting", "completed"}
  BY <1>1 DEF AloneInv, SharedInv, TypeOK, SummaryInv, TurnsInv
<1>4. Acts(a)
  BY <1>1, <1>3 DEF Acts
<1>5. ShownOK(phase'[a], outcome'[a], run'[a], log')
  BY <1>1, <1>2, <1>3 DEF ShownOK
<1>6. Fits(RunEvent("run.failed"))
  BY FitsMade DEF RunTypes
<1>7. QED
  BY <1>1, <1>3, <1>4, <1>5, <1>6, SummaryActs

LEMMA SummaryRefuses ==
    ASSUME Exclusive, AloneInv, SummaryInv, NEW a \in Attempts, RefuseBegin(a)
    PROVE  SummaryInv'
<1>1. /\ phase[a] = "new" /\ (\A b \in 1..(a - 1) : phase[b] # "new") /\ (\A b \in Attempts : ~Live(b))
      /\ run' = run /\ phase' = [phase EXCEPT ![a] = "ended"] /\ outcome' = [outcome EXCEPT ![a] = "rejected"]
      /\ log' = log
  BY DEF RefuseBegin, End
<1>2. SharedInv /\ phase'[a] = "ended" /\ outcome'[a] = "rejected" /\ run' = [run EXCEPT ![a] = run[a]]
  BY <1>1, RunKept DEF AloneInv, SharedInv, TypeOK
<1>3. Acts(a)
  BY <1>1, <1>2 DEF Acts
<1>4. ShownOK(phase'[a], outcome'[a], run'[a], log')
  BY <1>2 DEF ShownOK, Midway
<1>5. Fits(RunEvent("run.failed"))
  BY FitsMade DEF RunTypes
<1>6. QED
  BY <1>1, <1>2, <1>3, <1>4, <1>5, SummaryActs

LEMMA SummaryAnnounce ==
    ASSUME AloneInv, SummaryInv, NEW a \in Attempts, Announce(a)
    PROVE  SummaryInv'
<1> DEFINE t == IF run[a].resumed THEN "run.resumed" ELSE "run.started"
           e == RunEvent(t)
<1>1. /\ phase[a] = "announce" /\ run' = run
      /\ \/ log' = Append(log, e) /\ \E q \in {"govern", "loop"} : Goto(a, q)
         \/ log' \in {log, Append(log, e)} /\ End(a, "rejected")
  BY DEF Announce, AppendThen
<1>2. t \in RunTypes /\ t \in {"run.resumed", "run.started"} /\ (t = "run.started" => ~run[a].resumed)
  BY DEF RunTypes
<1> HIDE DEF t
<1>3. Fits(e) /\ e \in Events /\ e.type = t
  BY <1>2, FitsMade
<1> HIDE DEF e
<1>4. /\ SharedInv /\ Live(a) /\ ShownOK("announce", outcome[a], run[a], log) /\ log \in Seq(Events)
      /\ Summarize(log) \in Summaries /\ run' = [run EXCEPT ![a] = run[a]]
  BY <1>1, LiveShown DEF Live, AloneInv
<1>5. ASSUME log' = Append(log, e), NEW q \in {"govern", "loop"}, Goto(a, q) PROVE SummaryInv'
  <2>1. Summarize(log') = Absorb(Summarize(log), e)
    BY <1>3, <1>4, <1>5, SummarizeAppend
  <2>2. t = "run.started" => Summarize(log).waitingFor = 0
    BY <1>2, <1>4, SummarizeEmpty DEF ShownOK, NoSummary
  <2>3. Summarize(log').status = "running" /\ Summarize(log').waitingFor = 0
    BY <1>2, <1>3, <1>4, <2>1, <2>2, AbsorbShows
  <2>4. \A o : o \notin {"awaiting", "completed"} => ShownOK(q, o, run[a], log')
    BY <2>3 DEF ShownOK
  <2>5. QED
    BY <1>3, <1>4, <1>5, <2>4, GoesOn
<1>6. ASSUME log' \in {log, Append(log, e)}, End(a, "rejected") PROVE SummaryInv'
  BY <1>1, <1>3, <1>4, <1>6, GivesUp DEF End
<1>7. QED
  BY <1>1, <1>5, <1>6

\* An event that the summary only counts, if at all.
LEMMA SummaryCounts ==
    ASSUME AloneInv, SummaryInv, NEW a \in Attempts, phase[a] \in Midway \ {"announce", "park"},
           NEW q \in Midway \ {"announce", "park"}, Goto(a, q), NEW r, run' = [run EXCEPT ![a] = r],
           NEW e, Fits(e), log' \in {log, Append(log, e)},
           e.type \in {"governance.verified", "step.approval-verified", "step.started", "step.completed"}
    PROVE  SummaryInv'
<1>1. /\ SharedInv /\ Live(a) /\ ShownOK(phase[a], outcome[a], run[a], log) /\ log \in Seq(Events) /\ e \in Events
      /\ Summarize(log) \in Summaries
  BY LiveShown DEF Live, AloneInv, Midway, Fits
<1>2. Summarize(log).status = "running" /\ Summarize(log).waitingFor = 0
  BY <1>1 DEF ShownOK
<1>3. Summarize(log').status = "running" /\ Summarize(log').waitingFor = 0
  <2>1. CASE log' = log
    BY <1>2, <2>1
  <2>2. CASE log' = Append(log, e)
    BY <1>1, <1>2, <2>2, SummarizeAppend, AbsorbShows
  <2>3. QED
    BY <2>1, <2>2
<1>4. \A o : o \notin {"awaiting", "completed"} => ShownOK(q, o, r, log')
  BY <1>3 DEF ShownOK, Midway
<1>5. q # "new"
  BY DEF Midway
<1>6. QED
  BY <1>1, <1>4, <1>5, GoesOn

\* The steps of an attempt from one of those phases to another.
LEMMA SummaryGoesOn ==
    ASSUME AloneInv, SummaryInv, NEW a \in Attempts,
           \/ Govern(a) \/ VerifyApproval(a) \/ StartStep(a) \/ Invoke(a) \/ Answer(a) \/ RecordCompletion(a)
           \/ SaveProgress(a)
    PROVE  SummaryInv'
<1> DEFINE On == Midway \ {"announce", "park"}
           Counted == {"governance.verified", "step.approval-verified", "step.started", "step.completed"}
<1>1. SharedInv
  BY DEF AloneInv
<1>2. ASSUME NEW e, Fits(e), e.type \in Counted, log' \in {log, Append(log, e)}, phase[a] \in On, run' = run,
             Goto(a, "fail") \/ \E q \in On : Goto(a, q)
      PROVE  SummaryInv'
  <2>1. Live(a) /\ run' = [run EXCEPT ![a] = run[a]]
    BY <1>1, <1>2, RunKept DEF Live, Midway, SharedInv
  <2>2. CASE Goto(a, "fail")
    BY <1>1, <1>2, <2>1, <2>2, GivesUp
  <2>3. ASSUME NEW q \in On, Goto(a, q) PROVE SummaryInv'
    BY <1>2, <2>1, <2>3, SummaryCounts
  <2>4. QED
    BY <1>2, <2>2, <2>3
<1>3. CASE Govern(a)
  <2>1. phase[a] \in On /\ run' = run /\ log' \in {log, Append(log, RunEvent("governance.verified"))}
        /\ (Goto(a, "loop") \/ End(a, "rejected"))
    BY <1>3 DEF Govern, AppendThen, Midway
  <2>2. Fits(RunEvent("governance.verified")) /\ RunEvent("governance.verified").type \in Counted
    BY FitsMade DEF RunTypes
  <2>3. CASE Goto(a, "loop")
    BY <1>2, <2>1, <2>2, <2>3 DEF Midway
  <2>4. CASE End(a, "rejected")
    BY <1>1, <2>1, <2>2, <2>4, GivesUp DEF End, Live, Midway
  <2>5. QED
    BY <2>1, <2>3, <2>4
<1>4. ASSUME NEW t \in {"step.approval-verified", "step.started"}, NEW q \in On, phase[a] \in {"loop", "prepare"},
             Reached(run[a]) < NumSteps, run' = run,
             \/ log' = Append(log, StepEvent(t, Step(a))) /\ Goto(a, q)
             \/ log' \in {log, Append(log, StepEvent(t, Step(a)))} /\ Goto(a, "fail")
      PROVE  SummaryInv'
  <2>1. Step(a) \in Steps
    BY <1>1, <1>4, AttemptFacts
  <2>2. Fits(StepEvent(t, Step(a))) /\ StepEvent(t, Step(a)).type \in Counted
    BY <2>1, FitsMade DEF StepTypes
  <2>3. log' \in {log, Append(log, StepEvent(t, Step(a)))} /\ (Goto(a, "fail") \/ \E p \in On : Goto(a, p))
    BY <1>4
  <2>4. phase[a] \in On
    BY <1>4 DEF Midway
  <2>5. QED
    BY <1>2, <1>4, <2>2, <2>3, <2>4
<1>5. CASE VerifyApproval(a)
  <2>1. phase[a] = "loop" /\ Reached(run[a]) < NumSteps /\ run' = run
    BY <1>1, <1>5, AttemptFacts DEF VerifyApproval, AtStep
  <2>2. QED
    BY <1>4, <1>5, <2>1 DEF VerifyApproval, AppendThen, Midway
<1>6. CASE StartStep(a)
  <2>1. phase[a] \in {"loop", "prepare"} /\ Reached(run[a]) < NumSteps /\ run' = run
    BY <1>1, <1>6, AttemptFacts DEF StartStep, ToPrepare, AtStep, AttemptOK
  <2>2. QED
    BY <1>4, <1>6, <2>1 DEF StartStep, AppendThen, Midway
<1>7. Fits(RunEvent("governance.verified")) /\ RunEvent("governance.verified").type \in Counted
  BY FitsMade DEF RunTypes
<1>8. CASE Invoke(a) \/ SaveProgress(a)
  <2>1. phase[a] \in On /\ run' = run /\ log' = log /\ (Goto(a, "fail") \/ \E q \in On : Goto(a, q))
    BY <1>8 DEF Invoke, SaveProgress, CheckpointThen, Midway
  <2>2. QED
    BY <1>2, <1>7, <2>1
<1>9. CASE Answer(a)
  <2>1. phase[a] \in On /\ log' = log /\ Goto(a, "complete") /\ "complete" \in On
    BY <1>9 DEF Answer, Midway
  <2>2. \E r : run' = [run EXCEPT ![a] = r]
    BY <1>9 DEF Answer
  <2>3. QED
    BY <1>7, <2>1, <2>2, SummaryCounts
<1>10. CASE RecordCompletion(a)
  <2> DEFINE m == Reached(run[a])
             e == StepCompleted(Last(run[a].completed), run[a].cost)
  <2>1. /\ phase[a] = "complete" /\ run' = run /\ log' \in {log, Append(log, e)}
        /\ (Goto(a, "fail") \/ Goto(a, "save"))
    BY <1>10 DEF RecordCompletion, AppendThen
  <2>2. m \in 0..NumSteps /\ m > 0 /\ Last(run[a].completed) = m /\ run[a].cost <= Cost[m] /\ run[a].cost \in Nat
    BY <1>1, <2>1, AttemptFacts, AloneFacts DEF AttemptOK, AloneOK, RunObjects
  <2>3. e = StepCompleted(m, run[a].cost) /\ m \in Steps
    BY <2>2, SizesAssumption DEF Steps
  <2> HIDE DEF e, m
  <2>4. Fits(e) /\ e.type \in Counted
    BY <2>2, <2>3, EventsMade DEF Fits
  <2>5. phase[a] \in On /\ "save" \in On
    BY <2>1 DEF Midway
  <2>6. QED
    BY <1>2, <2>1, <2>4, <2>5
<1>11. QED
  BY <1>3, <1>5, <1>6, <1>8, <1>9, <1>10

\* Where the steps up to m are on record, the next is the first pending.
LEMMA HeadPending ==
    ASSUME NEW l \in Seq(Events), l # <<>>, NEW m \in 0..NumSteps, m < NumSteps, Range(CompletedSteps(l)) = 1..m
    PROVE  Head(Reconstruct(l).pending) = m + 1
<1>1. PendingAfter(CompletedSteps(l)) = Rest(m) /\ Head(Rest(m)) = m + 1
  BY ReconstructTypes, PendingAfterFirst, RestShape
<1>2. Reconstruct(l).pending = PendingAfter(CompletedSteps(l))
  BY DEF Reconstruct, FreshRun
<1>3. QED
  BY <1>1, <1>2

LEMMA SummaryAwaits ==
    ASSUME AloneInv, SummaryInv, NEW a \in Attempts, AwaitApproval(a)
    PROVE  SummaryInv'
<1> DEFINE m == Reached(run[a])
           e == StepEvent("run.awaiting-approval", Step(a))
<1>1. /\ phase[a] = "loop" /\ run' = run /\ Remaining(a) # {}
      /\ \/ log' = Append(log, e) /\ Goto(a, "park")
         \/ log' \in {log, Append(log, e)} /\ Goto(a, "fail")
  BY DEF AwaitApproval, AtStep, AppendThen
<1>2. /\ SharedInv /\ Live(a) /\ log \in Seq(Events) /\ Summarize(log) \in Summaries
      /\ run' = [run EXCEPT ![a] = run[a]] /\ AloneOK("loop", run[a], log, invoked)
  BY <1>1, LiveShown, AloneFacts DEF Live, AloneInv
<1>3. m \in 0..NumSteps /\ m < NumSteps /\ Step(a) = m + 1 /\ Step(a) \in Steps /\ Range(run[a].completed) = 1..m
  BY <1>1, <1>2, AttemptFacts
<1>4. Fits(e) /\ e \in Events /\ e.type = "run.awaiting-approval" /\ e.step = m + 1 /\ Plain(e)
  BY <1>3, FitsMade DEF StepTypes, Plain
<1> HIDE DEF e, m
<1>5. ASSUME log' = Append(log, e), Goto(a, "park") PROVE SummaryInv'
  <2>1. Summarize(log').status = "awaiting_approval" /\ Summarize(log').waitingFor = m + 1
    BY <1>2, <1>4, <1>5, SummarizeAppend, AbsorbShows
  <2>2. log' \in Seq(Events) /\ log' # <<>>
    BY <1>2, <1>4, <1>5, AppendEvent
  <2>3. Range(CompletedSteps(log')) = 1..m
    BY <1>2, <1>3, <1>4, <1>5, PlainAppend DEF AloneOK, Synced
  <2>4. ASSUME NEW l, l = log' PROVE Head(Reconstruct(l).pending) = m + 1
    BY <1>3, <2>2, <2>3, <2>4, HeadPending
  <2>5. \A o : o \notin {"awaiting", "completed"} => ShownOK("park", o, run[a], log')
    BY <2>1, <2>4 DEF ShownOK, Midway
  <2>6. QED
    BY <1>2, <1>4, <1>5, <2>5, GoesOn
<1>6. ASSUME log' \in {log, Append(log, e)}, Goto(a, "fail") PROVE SummaryInv'
  BY <1>1, <1>2, <1>4, <1>6, GivesUp
<1>7. QED
  BY <1>1, <1>5, <1>6

LEMMA SummaryFinishes ==
    ASSUME AloneInv, SummaryInv, NEW a \in Attempts, Finish(a)
    PROVE  SummaryInv'
<1> DEFINE e == RunEvent("run.completed")
<1>1. /\ phase[a] = "loop" /\ run' = run /\ Remaining(a) = {}
      /\ \/ log' = Append(log, e) /\ Goto(a, "saveResult")
         \/ log' \in {log, Append(log, e)} /\ Goto(a, "fail")
  BY DEF Finish, AppendThen
<1>2. /\ SharedInv /\ Live(a) /\ log \in Seq(Events) /\ Summarize(log) \in Summaries
      /\ run' = [run EXCEPT ![a] = run[a]] /\ AloneOK("loop", run[a], log, invoked)
  BY <1>1, LiveShown, AloneFacts DEF Live, AloneInv
<1>3. Fits(e) /\ e \in Events /\ e.type = "run.completed" /\ Plain(e)
  BY FitsMade DEF RunTypes, Plain
<1> HIDE DEF e
<1>4. Len(CompletedSteps(log)) = NumSteps /\ RecordedCost(log) = run[a].spent
  <2>1. run[a].completed = CompletedSteps(log) /\ RecordedCost(log) = run[a].spent
    BY <1>2 DEF AloneOK, Synced
  <2>2. Reached(run[a]) = NumSteps
    BY <1>1, <1>2, AttemptFacts, SizesAssumption
  <2>3. QED
    BY <2>1, <2>2, RecordLength
<1>5. ASSUME log' = Append(log, e), Goto(a, "saveResult") PROVE SummaryInv'
  <2>1. Summarize(log').status = "completed" /\ Summarize(log').waitingFor = 0
    BY <1>2, <1>3, <1>5, SummarizeAppend, AbsorbShows
  <2>2. CompletedSteps(log') = CompletedSteps(log) /\ RecordedCost(log') = RecordedCost(log)
    BY <1>2, <1>3, <1>5, PlainAppend
  <2>3. \A o : o \notin {"awaiting", "completed"} => ShownOK("saveResult", o, run[a], log')
    BY <1>4, <2>1, <2>2 DEF ShownOK, Midway
  <2>4. QED
    BY <1>2, <1>3, <1>5, <2>3, GoesOn
<1>6. ASSUME log' \in {log, Append(log, e)}, Goto(a, "fail") PROVE SummaryInv'
  BY <1>1, <1>2, <1>3, <1>6, GivesUp
<1>7. QED
  BY <1>1, <1>5, <1>6

\* The two ends an attempt may report.
LEMMA SummaryReports ==
    ASSUME AloneInv, SummaryInv, NEW a \in Attempts, Park(a) \/ SaveResult(a)
    PROVE  SummaryInv'
<1>1. PICK p \in {"park", "saveResult"}, o \in {"awaiting", "completed"} :
         /\ phase[a] = p /\ run' = run /\ log' = log /\ (p = "park" <=> o = "awaiting")
         /\ End(a, o) \/ Goto(a, "fail")
  BY DEF Park, SaveResult, CheckpointThen
<1>2. SharedInv /\ Live(a) /\ ShownOK(p, outcome[a], run[a], log) /\ run' = [run EXCEPT ![a] = run[a]]
  BY <1>1, LiveShown DEF Live, AloneInv
<1>3. Fits(RunEvent("run.failed"))
  BY FitsMade DEF RunTypes
<1>4. CASE Goto(a, "fail")
  BY <1>1, <1>2, <1>3, <1>4, GivesUp
<1>5. CASE End(a, o)
  <2>1. /\ phase' = [phase EXCEPT ![a] = "ended"] /\ outcome' = [outcome EXCEPT ![a] = o]
        /\ phase'[a] = "ended" /\ outcome'[a] = o /\ run'[a] = run[a]
    BY <1>1, <1>2, <1>5 DEF End, SharedInv, TypeOK
  <2>2. Acts(a)
    BY <1>2, <2>1 DEF Acts
  <2>3. ShownOK("ended", o, run[a], log)
    BY <1>1, <1>2 DEF ShownOK, Midway
  <2>4. QED
    BY <1>1, <1>2, <1>3, <2>1, <2>2, <2>3, SummaryActs
<1>6. QED
  BY <1>1, <1>4, <1>5

LEMMA SummaryEnds ==
    ASSUME AloneInv, SummaryInv, NEW a \in Attempts,
           Abort(a) \/ RefuseStep(a) \/ RecordFailure(a) \/ SaveFailure(a) \/ AnswerRefused(a) \/ Crash(a)
    PROVE  SummaryInv'
<1>1. /\ Live(a) /\ run' = run /\ log' \in {log, Append(log, RunEvent("run.failed"))}
      /\ \/ \E q \in {"fail", "saveFailure"} : Goto(a, q)
         \/ \E o \in {"rejected", "crashed"} : /\ phase' \in {[phase EXCEPT ![a] = p] : p \in {"ended", "crashed"}}
                                               /\ outcome' = [outcome EXCEPT ![a] = o]
  <2>1. Live(a) /\ run' = run /\ log' \in {log, Append(log, RunEvent("run.failed"))}
    BY DEF Abort, RefuseStep, ToPrepare, AtStep, RecordFailure, AppendThen, SaveFailure, AnswerRefused, Crash, Live
  <2>2. CASE Abort(a) \/ RefuseStep(a) \/ RecordFailure(a) \/ AnswerRefused(a) \/ Crash(a)
    BY <2>1, <2>2 DEF Abort, RefuseStep, RecordFailure, AppendThen, AnswerRefused, Crash, Goto, End
  <2>3. CASE SaveFailure(a)
    BY <2>1, <2>3 DEF SaveFailure, CheckpointThen, End
  <2>4. QED
    BY <2>1, <2>2, <2>3
<1>2. Fits(RunEvent("run.failed")) /\ SharedInv
  BY FitsMade DEF RunTypes, AloneInv
<1>3. QED
  BY <1>1, <1>2, GivesUp

LEMMA SummaryInit == Init => SummaryInv
<1> SUFFICES ASSUME Init PROVE SummaryInv
  OBVIOUS
<1>1. Summary = NoSummary /\ CompletedSteps(log) = <<>> /\ RecordedCost(log) = 0 /\ Len(<<>>) = 0
  BY SummarizeEmpty, ReconstructEmpty DEF Init, Summary
<1>2. TotalsInv
  BY <1>1 DEF Init, Has, TotalsInv, NoSummary
<1>3. TurnsInv
  BY DEF Init, TurnsInv, Live
<1>4. QED
  BY <1>2, <1>3 DEF Init, SummaryInv, Latest

LEMMA SummaryNext == Exclusive /\ AloneInv /\ SummaryInv /\ [Next]_vars => SummaryInv'
<1> SUFFICES ASSUME Exclusive, AloneInv, SummaryInv, [Next]_vars PROVE SummaryInv'
  OBVIOUS
<1>1. ASSUME UNCHANGED <<log, phase, run, outcome>> PROVE SummaryInv'
  BY <1>1 DEF SummaryInv, TurnsInv, TotalsInv, Live, Latest, Summary
<1>2. ASSUME NEW a \in Attempts, OwnStep(a) PROVE SummaryInv'
  <2>1. CASE OpenTemp(a) \/ FillTemp(a)
    BY <1>1, <2>1 DEF OpenTemp, FillTemp
  <2>2. CASE ~(OpenTemp(a) \/ FillTemp(a))
    BY <1>2, <2>2, SummaryAnnounce, SummaryGoesOn, SummaryAwaits, SummaryFinishes, SummaryReports, SummaryEnds
       DEF OwnStep
  <2>3. QED
    BY <2>1, <2>2
<1>3. QED
  BY <1>1, <1>2, SummaryBegin, SummaryRefuses, SummaryGoesOn, SummaryEnds DEF Next, vars

(* The summary an operator is shown agrees with what the last attempt was     *)
(* told, however the ones before it ended, and with no saving that was not    *)
(* made; and a failure that any of them recorded is on show with it from then *)
(* on: no event that summarizeEvents takes in clears one.                     *)
THEOREM SummaryIsFaithful == ASSUME Exclusive PROVE Spec => []SummaryAgrees
<1>1. SharedInv /\ SummaryInv => SummaryAgrees
  <2> SUFFICES ASSUME SharedInv, SummaryInv PROVE SummaryAgrees
    OBVIOUS
  <2>1. Summary \in Summaries
    BY EventsMade, SummarizeAppend DEF SharedInv, TypeOK, Summary, RunTypes
  <2>2. Savings >= 0 /\ (Summary.failure <=> Has(log, "run.failed"))
    BY <2>1 DEF Savings, Summaries, SummaryInv, TotalsInv
  <2>3. ASSUME NEW a \in Attempts, Latest(a)
        PROVE  /\ phase[a] = "loop" => Summary.status = "running" /\ Summary.waitingFor = 0
               /\ outcome[a] = "awaiting" => /\ Summary.status = "awaiting_approval"
                                             /\ Summary.waitingFor = Head(Reconstruct(log).pending)
               /\ outcome[a] = "completed" => /\ Summary.status = "completed" /\ Summary.waitingFor = 0
                                              /\ Summary.completed = NumSteps /\ Summary.spent = run[a].spent
    <3>1. ShownOK(phase[a], outcome[a], run[a], log)
      BY <2>3 DEF SummaryInv
    <3>2. QED
      BY <3>1 DEF ShownOK, Midway, Summary, SummaryInv, TotalsInv
  <2>4. QED
    BY <2>2, <2>3 DEF SummaryAgrees
<1>2. Init => AloneInv /\ SummaryInv
  BY AloneInit, SummaryInit
<1>3. (AloneInv /\ SummaryInv) /\ [Next]_vars => (AloneInv /\ SummaryInv)'
  BY AloneNext, SummaryNext
<1>4. AloneInv => SharedInv
  BY DEF AloneInv
<1>5. QED
  BY <1>1, <1>2, <1>3, <1>4, PTL DEF Spec
==============================================================================

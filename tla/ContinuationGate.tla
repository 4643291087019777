---------------------------- MODULE ContinuationGate ----------------------------
(***************************************************************************)
(* Whether work may go on (continuation-controller.mjs): reviewers record  *)
(* what they found of a workflow and its floor (continuation-gate.mjs),    *)
(* either of which may be replaced at any time, and a host asks for a      *)
(* decision and keeps the forks it is given (continuation-fork.mjs).  The  *)
(* model tier is a matter of cost and risk (model-policy.mjs).             *)
(*                                                                         *)
(* A digest is the version it is a digest of.  When a wait is over is      *)
(* OwnerWake's subject, and here one of the inputs of a decision.          *)
(***************************************************************************)
EXTENDS Naturals, Sequences, FiniteSets

CONSTANTS Roles,       \* the review roles, all of which are required
          Reviews,     \* what reviewers record: [role, status, findings]
          Workflows,   \* the digests of compiled workflows
          GateFloors,  \* the floors: [maxCost, localOnly]
          Classes,     \* the risk classes asked about, of A to D
          MaxReviews,  \* bound: reviews recorded
          MaxEdits     \* bound: replacements of the workflow or of the floor

ASSUME GateAssumption == /\ Classes \subseteq {"A", "B", "C", "D"}
                         /\ \A f \in GateFloors : f.maxCost \in Nat \ {0} /\ f.localOnly \in BOOLEAN
                         /\ Workflows # {} /\ \A r \in Reviews : r.findings \in BOOLEAN
                         /\ MaxReviews \in Nat /\ MaxEdits \in Nat

VARIABLES version,   \* the workflow and the floor as they are
          reviews,   \* the reviews recorded, each with the version it is about
          forks,     \* the forks the host has persisted
          answer,    \* the last decision about what there is now, with its inputs
          edits      \* bound

gateVars == <<version, reviews, forks, answer, edits>>

Unasked == [decision |-> "none"]

GateInit ==
    /\ version \in {[workflow |-> CHOOSE w \in Workflows : TRUE, floor |-> f] : f \in GateFloors}
    /\ reviews = <<>> /\ forks = {} /\ answer = Unasked /\ edits = 0

----------------------------------------------------------------------------
\* validateReviewRecord: findings, if and only if it did not pass.
ReviewValid(r) == r.role \in Roles /\ r.status \in {"PASS", "FAIL"} /\ (r.findings <=> r.status = "FAIL")

\* What evaluateContinuationGate holds against the reviews.
MissingRoles   == {role \in Roles : \A i \in DOMAIN reviews : reviews[i].role # role}
DuplicateRoles == {reviews[i].role : i \in {j \in DOMAIN reviews : \E k \in 1..(j - 1) : reviews[k].role = reviews[j].role}}
StaleRoles     == {reviews[i].role : i \in {j \in DOMAIN reviews : reviews[j].version # version}}
FailedRoles    == {reviews[i].role : i \in {j \in DOMAIN reviews : reviews[j].status # "PASS"}}

\* Mutant of GatePasses: a review of an earlier version is as good.
GatePasses_Stale == MissingRoles = {} /\ DuplicateRoles = {} /\ FailedRoles = {}

GatePasses == MissingRoles = {} /\ DuplicateRoles = {} /\ StaleRoles = {} /\ FailedRoles = {}

\* selectModelTier.
Tiers == {"frontier", "standard", "economy"}
Cost  == [frontier |-> 4, standard |-> 2, economy |-> 1]
SelectTier(class, tier, fork, budget) ==
    LET chosen == IF fork THEN "economy" ELSE tier IN
    IF class \in {"C", "D"} THEN "HUMAN_FLOOR_REQUIRED"
    ELSE IF Cost[chosen] > budget THEN "MODEL_BUDGET_EXCEEDED" ELSE chosen

\* createContinuationFork: the one there is for the version, or a new one with
\* half the floor's budget.
ForkOf(v) ==
    LET existing == {f \in forks : f.version = v}  half == v.floor.maxCost \div 2 IN
    IF existing # {} THEN CHOOSE f \in existing : TRUE
    ELSE [version |-> v, budget |-> IF half > 1 THEN half ELSE 1]

----------------------------------------------------------------------------
\* A decision that rests on the selection of a tier; a budget that is too
\* small is an error.
Resting(decision, tier) ==
    [decision |-> CASE tier = "HUMAN_FLOOR_REQUIRED" -> "ESCALATE_OWNER"
                    [] tier = "MODEL_BUDGET_EXCEEDED" -> "rejected"
                    [] OTHER -> decision,
     tier |-> tier]

\* decideContinuation; due: the owner was last asked forkAfterMinutes ago.
DecisionOn(owner, due, class, tier) ==
    LET floor == version.floor IN
    IF \E i \in DOMAIN reviews : ~ReviewValid(reviews[i]) THEN Resting("rejected", "none")
    ELSE IF ~GatePasses THEN Resting("ESCALATE_OWNER", "none")
    ELSE IF owner       THEN Resting("CONTINUE_MAIN", SelectTier(class, tier, FALSE, floor.maxCost))
    ELSE IF ~due        THEN Resting("WAIT_OWNER", "none")
    ELSE IF class \in {"C", "D"} THEN Resting("ESCALATE_OWNER", SelectTier(class, tier, FALSE, floor.maxCost))
    ELSE IF ~floor.localOnly     THEN Resting("rejected", "none")
    ELSE Resting("CONTINUE_FORK", SelectTier(class, tier, TRUE, ForkOf(version).budget))

Ask(owner, due, class, tier) ==
    LET result == DecisionOn(owner, due, class, tier) IN
    /\ answer = Unasked
    /\ answer' = [decision |-> result.decision, tier |-> result.tier,
                  owner |-> owner, due |-> due, class |-> class, asked |-> tier]
    /\ forks' = IF result.decision = "CONTINUE_FORK" THEN forks \cup {ForkOf(version)} ELSE forks
    /\ UNCHANGED <<version, reviews, edits>>

\* The host has acted on the decision and may ask again.
CarriedOut == answer # Unasked /\ answer' = Unasked /\ UNCHANGED <<version, reviews, forks, edits>>

\* A reviewer records a review of what there is.
Review(r) ==
    /\ Len(reviews) < MaxReviews
    /\ reviews' = Append(reviews, [role |-> r.role, status |-> r.status, findings |-> r.findings, version |-> version])
    /\ answer' = Unasked  \* a decision is about what there was
    /\ UNCHANGED <<version, forks, edits>>

\* The workflow is compiled anew, or the floor is replaced; the reviews there
\* are may be dropped.
Replace(workflow, floor) ==
    /\ edits < MaxEdits
    /\ edits' = edits + 1
    /\ version' = [workflow |-> workflow, floor |-> floor]
    /\ reviews' \in {reviews, <<>>}
    /\ answer' = Unasked
    /\ UNCHANGED forks

GateNext ==
    \/ \E owner, due \in BOOLEAN, class \in Classes, tier \in Tiers : Ask(owner, due, class, tier)
    \/ CarriedOut
    \/ \E r \in Reviews : Review(r)
    \/ \E w \in Workflows, f \in GateFloors : Replace(w, f)

GateSpec == GateInit /\ [][GateNext]_gateVars

----------------------------------------------------------------------------
GateTypeOK ==
    /\ version \in [workflow : Workflows, floor : GateFloors]
    /\ \A i \in DOMAIN reviews : reviews[i].version \in [workflow : Workflows, floor : GateFloors]
    /\ answer.decision \in {"none", "rejected", "ESCALATE_OWNER", "CONTINUE_MAIN", "WAIT_OWNER", "CONTINUE_FORK"}
    /\ edits \in 0..MaxEdits

\* README.md:251-257: work goes on, or waits for the owner, only with one
\* passing review of each role of the very workflow and floor decided on,
\* whatever was replaced between the reviews and the decision, and no other
\* review; only work of class A or B, within the floor's cost; as a fork only
\* when the wait is over, at the lowest tier, and there is one fork for the
\* version, with no more than half the floor's budget (or one unit).
\* Conversely, reviewed work that fits goes on.
ContinuationSound ==
    LET about(role) == {i \in DOMAIN reviews : reviews[i].role = role}
        reviewed    == /\ \A role \in Roles : Cardinality(about(role)) = 1
                       /\ \A i \in DOMAIN reviews :
                             /\ reviews[i].role \in Roles /\ reviews[i].version = version
                             /\ reviews[i].status = "PASS" /\ ~reviews[i].findings
        decision    == answer.decision
        local       == ~answer.owner /\ answer.due /\ version.floor.localOnly
    IN
    /\ decision \in {"CONTINUE_MAIN", "WAIT_OWNER", "CONTINUE_FORK"} => reviewed
    /\ decision \in {"CONTINUE_MAIN", "CONTINUE_FORK"} =>
          answer.class \in {"A", "B"} /\ Cost[answer.tier] <= version.floor.maxCost
    /\ decision = "CONTINUE_FORK" => local /\ answer.tier = "economy" /\ \E f \in forks : f.version = version
    /\ \A f \in forks : /\ 2 * f.budget <= f.version.floor.maxCost \/ f.budget = 1
                        /\ \A g \in forks : g.version = f.version => g = f
    /\ decision # "none" /\ reviewed /\ answer.class \in {"A", "B"} =>
          /\ answer.owner /\ Cost[answer.asked] <= version.floor.maxCost => decision = "CONTINUE_MAIN"
          /\ local => decision = "CONTINUE_FORK"
==============================================================================

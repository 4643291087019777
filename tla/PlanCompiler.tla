------------------------------ MODULE PlanCompiler ------------------------------
(***************************************************************************)
(* From a plan to a compiled workflow: specialists are chosen for the      *)
(* steps that leave the choice open (specialist-router.mjs) by the         *)
(* evidence of their accepted outputs, the plan and its project floor are  *)
(* checked (contracts.mjs, floor-policy.mjs) and the steps are put in      *)
(* order (workflow-compiler.mjs).                                          *)
(*                                                                         *)
(* Ids are numbers in the order in which sort() puts them.  A plan that is *)
(* refused is refused with the first check that fails; which of those that *)
(* fail is the first is left out.  Digests and wording are left out.       *)
(***************************************************************************)
EXTENDS Naturals, Sequences, FiniteSets, Functions

CONSTANTS Profiles,    \* the specialists: id -> [capabilities, authority]
          AutoId,      \* "auto", in the place of a step's specialist
          Claims,      \* the evidence the profiles may come with
          Contracts,   \* the contracts registered
          Plans,       \* the plans submitted: [budget, steps]
          Floors,      \* the floor manifests, and NoFloor
          NoFloor,
          MaxOutcomes  \* bound: outcomes recorded

\* A step as the first checks of validatePlan leave it.
PlanSteps == [id : Nat, specialist : Nat \cup {AutoId}, capability : STRING, authority : STRING,
              dependsOn : SUBSET Nat, projects : SUBSET Nat, contracts : SUBSET STRING, inputFits : BOOLEAN,
              cost : Nat, effect : {"read", "local", "external"}, keyed : BOOLEAN]

ASSUME ProfilesAssumption == IsFiniteSet(DOMAIN Profiles) /\ DOMAIN Profiles \subseteq Nat
ASSUME AutoAssumption     == AutoId \notin DOMAIN Profiles
ASSUME PlansAssumption    == Plans \subseteq [budget : Nat, steps : Seq(PlanSteps)]
ASSUME FloorsAssumption   == \A floor \in Floors \ {NoFloor} : floor.maxCost \in Nat
ASSUME OutcomesAssumption == MaxOutcomes \in Nat
ASSUME ClaimsAssumption   ==
    Claims \subseteq [DOMAIN Profiles -> [completed : Nat, accepted : Nat, rejected : Nat]]

VARIABLES evidence,  \* each specialist's completed runs and accepted and rejected outputs
          compiled   \* the last compilation: its inputs and its artifact or its refusals

compilerVars == <<evidence, compiled>>

Evidence   == [completed : Nat, accepted : Nat, rejected : Nat]
NoPlan     == [budget |-> 0, steps |-> <<>>]
NoWorkflow == [asked |-> NoPlan, plan |-> NoPlan, floor |-> NoFloor, refused |-> {"nothing compiled"}, order |-> <<>>]

CompilerInit ==
    /\ evidence \in Claims
    /\ compiled = NoWorkflow

----------------------------------------------------------------------------
Eligible(step) == {p \in DOMAIN Profiles : /\ step.capability \in Profiles[p].capabilities
                                           /\ step.authority \in Profiles[p].authority}

\* p comes before q: a specialist with a history before one without, then the
\* higher rate of accepted outputs (compared without dividing), then the
\* longer history, then the id.
Before(p, q) ==
    LET e == evidence[p]  f == evidence[q]
        byRate == e.accepted * f.completed  byRateOf == f.accepted * e.completed
    IN  \/ e.completed > 0 /\ f.completed = 0
        \/ (e.completed = 0) = (f.completed = 0) /\
              \/ byRate > byRateOf
              \/ byRate = byRateOf /\ (e.completed > f.completed \/ (e.completed = f.completed /\ p < q))

\* selectSpecialist.
Select(step) == CHOOSE p \in Eligible(step) : \A q \in Eligible(step) \ {p} : Before(p, q)

\* assignSpecialists: steps that are not auto keep what they name.
Route(step) == IF step.specialist = AutoId /\ Eligible(step) # {}
               THEN [step EXCEPT !.specialist = Select(step)] ELSE step
Routed(plan) == [plan EXCEPT !.steps = [i \in DOMAIN plan.steps |-> Route(plan.steps[i])]]

----------------------------------------------------------------------------
Total(steps) ==
    LET sum[k \in 0..Len(steps)] == IF k = 0 THEN 0 ELSE sum[k - 1] + steps[k].cost IN sum[Len(steps)]
Ids(steps)   == {steps[i].id : i \in DOMAIN steps}

\* Where a condition holds, its error is among the refusals.
If(condition, code) == IF condition THEN {code} ELSE {}

\* validateSpecialist: no profile claims more outcomes than it has runs.
SpecialistValid(p) == evidence[p].accepted + evidence[p].rejected <= evidence[p].completed

\* validatePlan, of the whole and of one step.
PlanShape(plan) ==
    If(plan.steps = <<>>, "INVALID_STEPS")
    \cup If(Cardinality(Ids(plan.steps)) < Len(plan.steps), "DUPLICATE_STEP")
StepShape(step) ==
    If(step.projects # step.dependsOn, "INVALID_CONTEXT_PROJECTION")
    \cup If(step.effect = "external" /\ ~step.keyed, "IDEMPOTENCY_REQUIRED")
    \cup If(step.effect # "external" /\ step.keyed, "UNEXPECTED_IDEMPOTENCY_KEY")

\* validateFloorManifest; what a floor says of reviews and of waiting is left out.
EffectKinds == {"read", "local-test", "local-reversible-artifact", "external-effect", "deploy", "dns", "payment",
                "email-send", "live-database-write", "customer-site-write"}
FloorValid(floor) ==
    /\ floor.allowed # {} /\ floor.allowed \cup floor.forbidden \subseteq EffectKinds
    /\ floor.allowed \cap floor.forbidden = {}
    /\ floor.maxCost > 0

\* assertPlanWithinFloor.
EffectNeeded(step) == CASE step.effect = "read" -> "read"
                        [] step.effect = "local" -> "local-reversible-artifact"
                        [] OTHER -> "external-effect"
Permitted(floor, effect) ==
    /\ effect \notin floor.forbidden
    /\ effect \in floor.allowed \/ (effect = "local-reversible-artifact" /\ "local-test" \in floor.allowed)
FloorRefusals(plan, floor) ==
    IF floor = NoFloor THEN {}
    ELSE LET needed == {EffectNeeded(plan.steps[i]) : i \in DOMAIN plan.steps} IN
         If(~FloorValid(floor), "INVALID_FLOOR")
         \cup If(plan.budget > floor.maxCost, "FLOOR_BUDGET_EXCEEDED")
         \cup If(\E e \in needed : ~Permitted(floor, e), "FLOOR_EFFECT_FORBIDDEN")
         \cup If(floor.localOnly /\ "external-effect" \in needed, "FLOOR_NOT_LOCAL_ONLY")

\* compileWorkflow, of one step and of the specialist it names.
StepRefusals(step, ids) ==
    If(step.specialist = AutoId, "NO_ELIGIBLE_SPECIALIST")
    \cup If(step.specialist # AutoId /\ step.specialist \notin DOMAIN Profiles, "UNKNOWN_SPECIALIST")
    \cup (IF step.specialist \notin DOMAIN Profiles THEN {}
          ELSE If(step.capability \notin Profiles[step.specialist].capabilities, "CAPABILITY_MISMATCH")
               \cup If(step.authority \notin Profiles[step.specialist].authority, "AUTHORITY_ESCALATION"))
    \cup If(~(step.contracts \subseteq Contracts), "UNKNOWN_CONTRACT")
    \cup If(~step.inputFits, "CONTRACT_REJECTED")
    \cup If(~(step.dependsOn \subseteq ids), "UNKNOWN_DEPENDENCY")

\* Mutant of Ready: one dependency that is in order is enough.
Ready_Some(steps, ordered) ==
    {id \in Ids(steps) \ ordered :
        \A i \in DOMAIN steps : steps[i].id = id =>
            steps[i].dependsOn = {} \/ steps[i].dependsOn \cap ordered # {}}

\* The steps not in order yet whose dependencies all are.
Ready(steps, ordered) ==
    {id \in Ids(steps) \ ordered :
        \A i \in DOMAIN steps : steps[i].id = id => steps[i].dependsOn \subseteq ordered}

\* sort().
Sorted(ids) ==
    CHOOSE s \in [1..Cardinality(ids) -> ids] : \A i, j \in DOMAIN s : i < j => s[i] < s[j]

\* What the loop has put in order after n rounds: in each round the steps that
\* are ready, sorted.  A round with none ready is a cycle.
OrderedBy(steps) ==
    LET ordered[n \in 0..Len(steps)] ==
            IF n = 0 THEN <<>>
            ELSE ordered[n - 1] \o Sorted(Ready(steps, Range(ordered[n - 1])))
    IN  ordered
OrderOf(steps) == OrderedBy(steps)[Len(steps)]
Cyclic(steps)  == Range(OrderOf(steps)) # Ids(steps)

Refusals(plan, floor) ==
    PlanShape(plan)
    \cup If(\E p \in DOMAIN Profiles : ~SpecialistValid(p), "INVALID_EVIDENCE")
    \cup (UNION {StepShape(plan.steps[i]) : i \in DOMAIN plan.steps})
    \cup FloorRefusals(plan, floor)
    \cup If(Total(plan.steps) > plan.budget, "BUDGET_EXCEEDED")
    \cup (UNION {StepRefusals(plan.steps[i], Ids(plan.steps)) : i \in DOMAIN plan.steps})
    \cup If(Cyclic(plan.steps), "DEPENDENCY_CYCLE")

----------------------------------------------------------------------------
\* What a compilation may be refused for.
Codes == {"nothing compiled", "INVALID_STEPS", "DUPLICATE_STEP", "INVALID_CONTEXT_PROJECTION",
          "IDEMPOTENCY_REQUIRED", "UNEXPECTED_IDEMPOTENCY_KEY", "INVALID_EVIDENCE", "INVALID_FLOOR",
          "FLOOR_BUDGET_EXCEEDED", "FLOOR_EFFECT_FORBIDDEN", "FLOOR_NOT_LOCAL_ONLY", "NO_ELIGIBLE_SPECIALIST",
          "UNKNOWN_SPECIALIST", "CAPABILITY_MISMATCH", "AUTHORITY_ESCALATION", "UNKNOWN_CONTRACT",
          "CONTRACT_REJECTED", "UNKNOWN_DEPENDENCY", "BUDGET_EXCEEDED", "DEPENDENCY_CYCLE"}

\* A plan is routed and compiled.
Compile(plan, floor) ==
    LET routed == Routed(plan)  refused == Refusals(routed, floor) IN
    /\ compiled = NoWorkflow  \* bound: one plan
    /\ compiled' = [asked |-> plan, plan |-> routed, floor |-> floor, refused |-> refused,
                    order |-> IF refused = {} THEN OrderOf(routed.steps) ELSE <<>>]
    /\ UNCHANGED evidence

\* recordSpecialistOutcome.
RecordOutcome(p, outcome) ==
    /\ compiled = NoWorkflow
    /\ SpecialistValid(p) /\ evidence[p].completed < MaxOutcomes
    /\ evidence' = [evidence EXCEPT ![p] =
           [completed |-> @.completed + 1,
            accepted  |-> @.accepted + (IF outcome = "accepted" THEN 1 ELSE 0),
            rejected  |-> @.rejected + (IF outcome = "rejected" THEN 1 ELSE 0)]]
    /\ UNCHANGED compiled

CompilerNext ==
    \/ \E plan \in Plans, floor \in Floors \cup {NoFloor} : Compile(plan, floor)
    \/ \E p \in DOMAIN Profiles, outcome \in {"accepted", "rejected", "completed-unreviewed"} :
          RecordOutcome(p, outcome)

CompilerSpec == CompilerInit /\ [][CompilerNext]_compilerVars

----------------------------------------------------------------------------
CompilerTypeOK ==
    /\ evidence \in [DOMAIN Profiles -> Evidence]
    /\ \A p \in DOMAIN Profiles :
          evidence[p].accepted + evidence[p].rejected > evidence[p].completed => \E c \in Claims : evidence[p] = c[p]
    /\ compiled.refused \subseteq Codes
    /\ compiled.order \in Seq(Nat)

\* No eligible specialist has had a larger share of its outputs accepted.
BestRate(p, step) ==
    \A q \in Eligible(step) : evidence[q].completed > 0 =>
        /\ evidence[p].completed > 0
        /\ evidence[q].accepted * evidence[p].completed <= evidence[p].accepted * evidence[q].completed

StepsOf(id) == {compiled.plan.steps[i] : i \in {j \in DOMAIN compiled.plan.steps : compiled.plan.steps[j].id = id}}

\* PRODUCT.md and README.md: authority is narrowed, never widened, and a plan
\* beyond its floor does not compile.  A compiled workflow runs each step of
\* its plan once and after all it depends on, by a specialist that holds the
\* step's capability and authority (the one the plan names, or one with the
\* best record), within its budget and its floor, with a key on exactly the
\* external effects; and a plan refused for a cycle has one.
CompiledSound ==
    LET steps == compiled.plan.steps  order == compiled.order  floor == compiled.floor
        at(id) == CHOOSE k \in DOMAIN order : order[k] = id
    IN
    /\ compiled.refused = {} =>
          /\ Len(order) = Len(steps) /\ {order[k] : k \in DOMAIN order} = Ids(steps)
          /\ \A i \in DOMAIN steps :
                /\ \A d \in steps[i].dependsOn : d \in Ids(steps) /\ at(d) < at(steps[i].id)
                /\ steps[i].specialist \in Eligible(steps[i])
                /\ IF compiled.asked.steps[i].specialist = AutoId THEN BestRate(steps[i].specialist, steps[i])
                   ELSE steps[i].specialist = compiled.asked.steps[i].specialist
                /\ steps[i].keyed <=> steps[i].effect = "external"
                /\ floor # NoFloor =>
                      /\ steps[i].effect = "external" => "external-effect" \in floor.allowed /\ ~floor.localOnly
                      /\ EffectNeeded(steps[i]) \notin floor.forbidden
                      /\ Total(steps) <= floor.maxCost
          /\ Total(steps) <= compiled.plan.budget
    /\ "DEPENDENCY_CYCLE" \in compiled.refused =>
          \/ "UNKNOWN_DEPENDENCY" \in compiled.refused
          \/ \E C \in (SUBSET Ids(steps)) \ {{}} : \A id \in C :
                 \E step \in StepsOf(id) : step.dependsOn \cap C # {}
==============================================================================

------------------------------- MODULE MCControl -------------------------------
(* What stands before and around a step's execution: compilation, the     *)
(* continuation gate, the life of steps under a host, and the call of a    *)
(* provider.  Each behaviour is one part's, so that their states add up    *)
(* and do not multiply.                                                    *)
EXTENDS PlanCompiler, ContinuationGate, StepLifecycle, ProviderCall

\* A step that nothing is wrong with, and plans made of it.
Simple(n) == [id |-> n, specialist |-> 1, capability |-> "write", authority |-> "draft", dependsOn |-> {},
              projects |-> {}, contracts |-> {"note"}, inputFits |-> TRUE, cost |-> 1,
              effect |-> "local", keyed |-> FALSE]
After(n, deps) == [Simple(n) EXCEPT !.dependsOn = deps, !.projects = deps]
Plan(steps)    == [budget |-> 3, steps |-> steps]

TwoProfiles == <<[capabilities |-> {"write"}, authority |-> {"draft"}],
                 [capabilities |-> {"write", "send"}, authority |-> {"draft", "publish"}]>>

\* Specialists without a record, and one that claims an output of a run it has not had.
NoRecord   == [completed |-> 0, accepted |-> 0, rejected |-> 0]
SomeClaims == {<<NoRecord, NoRecord>>, <<NoRecord, [NoRecord EXCEPT !.accepted = 1]>>}

\* Graphs of three steps, of which only the third may need itself.
Graphs3 == {Plan(<<After(3, c), After(1, a), After(2, b)>>) :
               a \in SUBSET {2, 3}, b \in SUBSET {1, 3}, c \in (SUBSET {1, 2}) \cup {{3}}}

\* One step in every way right or wrong.
OneStep == {Plan(<<[Simple(1) EXCEPT !.specialist = sp, !.capability = ca, !.authority = au, !.effect = ef,
                                     !.keyed = k]>>) :
               sp \in {0, 2, 3}, ca \in {"write", "send", "sing"}, au \in {"draft", "publish"},
               ef \in {"read", "local", "external"}, k \in BOOLEAN}

Faulty == {Plan(<<>>), Plan(<<Simple(1), Simple(1)>>), Plan(<<After(1, {9})>>),
           Plan(<<[Simple(1) EXCEPT !.contracts = {"none"}]>>), Plan(<<[Simple(1) EXCEPT !.inputFits = FALSE]>>),
           Plan(<<[Simple(1) EXCEPT !.cost = 4]>>), Plan(<<[Simple(1) EXCEPT !.projects = {1}]>>)}

SomePlans  == Graphs3 \cup OneStep \cup Faulty
Floor(m, a, f, l) == [maxCost |-> m, allowed |-> a, forbidden |-> f, localOnly |-> l]
SomeFloors == {Floor(2, {"local-test"}, {}, TRUE), Floor(3, {"local-test"}, {"external-effect"}, TRUE),
               Floor(3, {"read", "external-effect"}, {}, TRUE), Floor(3, {"read", "external-effect"}, {}, FALSE),
               Floor(3, {}, {"dns"}, FALSE), Floor(3, {"read", "local-test", "dns"}, {"dns"}, FALSE)}

\* What a call is for: an effect with a key, or for one of the callers also
\* an effect without one, or reading.
Errand(e, k) == [effect |-> e, keyed |-> k]
SomeErrands  == [c \in Callers |-> IF c = CHOOSE d \in Callers : TRUE THEN {Errand("external", TRUE)}
                    ELSE {Errand("external", TRUE), Errand("external", FALSE), Errand("read", FALSE)}]

\* Each role passes, one fails, and one passes with a finding.
SomeReviews == {[role |-> r, status |-> "PASS", findings |-> FALSE] : r \in Roles}
               \cup {[role |-> "domain", status |-> s, findings |-> TRUE] : s \in {"PASS", "FAIL"}}
SomeGateFloors == {[maxCost |-> 1, localOnly |-> TRUE], [maxCost |-> 4, localOnly |-> TRUE],
                   [maxCost |-> 3, localOnly |-> FALSE]}

Prompts == [c \in Callers |-> 5]

VARIABLE part

controlVars == <<part, compilerVars, gateVars, workVars, callVars>>

\* The steps of a host that has nothing to do.
WorkOver ==
    /\ state = [s \in Work |-> "COMPLETED"] /\ host = "done"
    /\ tries = [s \in Work |-> 1] /\ applied = tries /\ call = [s \in Work |-> "none"] /\ late = {}
    /\ mode = "CONTINUOUS_RUN" /\ window = "OPEN" /\ saved = FALSE /\ alarm = FALSE /\ stops = 0

ControlInit ==
    /\ part \in {"compiler", "gate", "work", "call"}
    /\ CompilerInit /\ GateInit /\ CallInit
    /\ part # "compiler" => evidence = [p \in DOMAIN Profiles |-> NoRecord]
    /\ version.floor.maxCost = 1
    /\ IF part = "work" THEN WorkInit ELSE WorkOver

ControlNext ==
    /\ UNCHANGED part
    /\ \/ part = "compiler" /\ CompilerNext /\ UNCHANGED <<gateVars, workVars, callVars>>
       \/ part = "gate" /\ GateNext /\ UNCHANGED <<compilerVars, workVars, callVars>>
       \/ part = "work" /\ WorkNext /\ UNCHANGED <<compilerVars, gateVars, callVars>>
       \/ part = "call" /\ CallNext /\ UNCHANGED <<compilerVars, gateVars, workVars>>

ControlSpec == ControlInit /\ [][ControlNext]_controlVars /\ WorkFairness

\* Every part's variables hold what they should.
ControlTypeOK == CompilerTypeOK /\ GateTypeOK /\ WorkTypeOK /\ CallTypeOK
==============================================================================

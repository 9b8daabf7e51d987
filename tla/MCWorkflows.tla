----------------------------- MODULE MCWorkflows -----------------------------
(* The tools run beside the program, one per behaviour: the formal          *)
(* verification autopilot (three ticks, the script's three reviews of a     *)
(* skill update, a bound on the edits), the ledger of mandated steps, and   *)
(* the check that every test case is registered.                            *)
EXTENDS Autopilot, MandatedSteps, AlcotestRegistration

VARIABLES tool

Call(step, outcome, actor, result, reason, of) ==
    [step |-> step, outcome |-> outcome, actor |-> actor, result |-> result,
     reason |-> reason, task |-> of]
MCCalls ==
    {Call(s, "ran", a, r, why, "mine") : s \in {"preflight", "human-gate"},
       a \in {"human", "agent"}, r \in {"READY", "FAIL"}, why \in BOOLEAN}
    \cup {Call("human-gate", "skipped", "agent", "none", why, "mine") : why \in BOOLEAN}
    \cup {Call("preflight", "ran", "agent", "READY", FALSE, "theirs"),
          Call("degraded-specialist", "skipped", "agent", "none", TRUE, "mine"),
          Call("prefligt", "ran", "agent", "READY", FALSE, "mine"),
          Call("preflight", "ran", "agent", "fine", FALSE, "mine"),
          Call("preflight", "ran", "someone", "READY", FALSE, "mine")}
MCDemands ==
    {[phase |-> p, steps |-> {}] : p \in {"plan", "implement", "review", "ship", "shop"}}
    \cup {[phase |-> "none", steps |-> s] : s \in {{"xruntime"}, {"degraded-specialist"}, {"prefligt"}}}
Let(name, names, indent) ==
    [kind |-> "let", name |-> name, params |-> name # "suite" /\ name # "", names |-> names,
     cases |-> {}, run |-> {}, indent |-> indent, quoted |-> "code"]
Suite(name, names, cases, run) ==
    [Let(name, names, 0) EXCEPT !.cases = cases, !.run = run]
Delimiter(kind) == [Let("", {}, 0) EXCEPT !.kind = kind, !.params = FALSE]
Quoted(chunk, how) == [chunk EXCEPT !.quoted = how]
File(test, alcotest, text) == [test |-> test, alcotest |-> alcotest, text |-> text]

Definitions ==
    {<<Let("test_a", n, 0), Let("test_b", m, 0)>> :
        n \in {{}, {"test_b"}, {"helper"}}, m \in {{}, {"test_a"}}}
    \cup {<<Let("test_a", {}, 0), Delimiter("module"), Let("test_b", {}, 2), Delimiter("end")>>,
          <<Let("test_a", {}, 0), Let("test_b", {}, 2)>>,
          <<Let("", {"test_a", "test_b"}, 0), Let("test_b", {}, 0), Let("helper", {"test_b"}, 0)>>,
          <<Quoted(Let("test_a", {}, 0), "comment"), Let("helper", {"test_b"}, 0)>>,
          <<Quoted(Let("", {}, 0), "open"), Quoted(Let("test_a", {}, 0), "comment")>>}
Suites ==
    {<<Suite("", {}, {"test_a"}, {"Alcotest", "test_a"})>>,
     <<Suite("suite", {}, {"test_b"}, {}), Suite("", {}, {}, {"suite"})>>,
     <<Suite("", {}, {}, {"suite"}), Let("helper", {"test_b"}, 0), Let("suite", {"helper"}, 0)>>,
     <<Quoted(Suite("", {}, {"test_a"}, {"test_a"}), "comment"), Suite("", {}, {}, {"none"})>>}
TestFiles == {File(TRUE, a, d) : a \in BOOLEAN, d \in Definitions}
Found(fs) == [at |-> "found", files |-> fs]
At(where) == [at |-> where, files |-> <<>>]
MCTrees ==
    {<<Found(<<f, File(TRUE, TRUE, s)>>)>> : f \in TestFiles, s \in Suites}
    \cup {<<Found(<<File(TRUE, TRUE, s), f>>), At(w)>> : f \in TestFiles, s \in Suites,
              w \in {"missing", "unreadable", "found"}}
    \cup {<<Found(<<File(FALSE, TRUE, d)>>), Found(<<f>>), Found(<<File(TRUE, TRUE, s)>>)>> :
              d \in Definitions, f \in TestFiles, s \in Suites}

\* The tools that are not run rest in their first state.
AutopilotRests ==
    /\ pc = "done" /\ tick = 0 /\ spec = 0 /\ pushed = NoVersion
    /\ task = "skipped" /\ gate = "SKIP"
    /\ passed = NoVersion /\ approved = NoVersion /\ revised = FALSE
    /\ attempt = 0 /\ content = 0 /\ endorsed = NoVersion
    /\ applied = [t \in 0..MaxTick |-> {}]
RegistrationRests ==
    /\ targets = <<>> /\ files = <<>> /\ unreadable = FALSE /\ read = 0 /\ live = {}
    /\ perFile = {} /\ bodies = <<>> /\ queue = <<>> /\ exit = "running"

ToolInit ==
    /\ tool \in {"autopilot", "ledger", "registration"}
    /\ IF tool = "autopilot" THEN PInit ELSE AutopilotRests
    /\ MInit
    /\ IF tool = "registration" THEN AInit ELSE RegistrationRests
ToolNext ==
    /\ UNCHANGED tool
    /\ \/ tool = "autopilot" /\ PNext /\ UNCHANGED <<mvars, avars>>
       \/ tool = "ledger" /\ MNext /\ UNCHANGED <<pvars, avars>>
       \/ tool = "registration" /\ ANext /\ UNCHANGED <<pvars, mvars>>
toolVars == <<tool, pvars, mvars, avars>>
ToolSpec ==
    /\ ToolInit /\ [][ToolNext]_toolVars
    /\ WF_pvars(tool = "autopilot" /\ (Agents \/ Throw) /\ UNCHANGED <<tool, mvars, avars>>)
=============================================================================

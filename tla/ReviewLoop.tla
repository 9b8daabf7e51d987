----------------------------- MODULE ReviewLoop -----------------------------
(***************************************************************************)
(* The review of one task, round after round and cycle after cycle: the    *)
(* defects specialists report, the tools that turn them into a verdict     *)
(* (normalize, assemble, gate, write-strike) and the files the tools leave *)
(* in briefs/.  The probes of other runtimes are in XRuntime.              *)
(*                                                                         *)
(* Each tool is one action: a process that reads files and writes files.   *)
(* The skill that calls them is external; `step` is how far it got with    *)
(* the draft, and a crash of it keeps the files and forgets the step.      *)
(***************************************************************************)
EXTENDS ReviewVerdict, FiniteSets

CONSTANTS
    Events,     \* the events a trace line can record
    Modes,      \* "full", "fast"
    Counting    \* whether a NO-GO round advances no_go_round (1) or holds it (0)

ASSUME LoopAssumption == Counting \subseteq {0, 1} /\ MaxCycle \in Nat /\ "normalizer" \in Events

VARIABLES
    draft,      \* briefs/<task>-review.json.draft, or Nothing
    report,     \* briefs/<task>-gate-report.json, or Nothing
    trace,      \* the readable lines of briefs/<task>-review-trace.jsonl
    traceTorn,  \* the trace holds a line that cannot be parsed
    step,       \* how far the skill is with the draft
    defective,  \* the defects that are in the tree
    fresh,      \* history: per round of this cycle, the findings new or back in it
    seen,       \* history: the findings reported in this cycle's verdicts
    noticed     \* history of the draft: what was reported for it, and what of it was fresh

vars == <<review, draft, report, trace, traceTorn, step, defective, fresh, seen, noticed>>

Verdict == [state : {"valid", "malformed"}, status : {"GO", "NO-GO"}, mode : Modes,
            round : Rounds, cycle : Cycles, noGo : 0..MaxRound, override : Rounds \cup {Nothing},
            findings : Ledgers, crossFindings : SUBSET Findings,
            audit : [Rounds -> BOOLEAN \cup {Absent, Nothing}]]
Outcomes == {Nothing, "flagged", "vacuous", "green-failed", "verified", "inconclusive"}
Report == [round : Rounds, strike : BOOLEAN, exit : 0..3, checks : [Findings -> Outcomes]]
TraceLine == [cycle : Cycles, round : Rounds, event : Events]

ASSUME NothingAssumption == /\ Nothing \notin Entries /\ Nothing \notin Verdict /\ Nothing \notin Report
                            /\ Nothing \notin {"sound", "vacuous"} /\ Nothing \notin Rounds
ASSUME AuditAssumption   == {Nothing, Absent} \cap BOOLEAN = {} /\ Absent # Nothing

(* The files are well formed; `fresh`, `seen` and `noticed` hold findings.  *)
TypeOK ==
    /\ review = NoVerdict \/ review \in Verdict
    /\ draft = Nothing \/ draft \in Verdict
    /\ report = Nothing \/ report \in Report
    /\ trace \subseteq TraceLine /\ traceTorn \in BOOLEAN
    /\ step \in {"start", "assembled", "gated", "struck", "regated"}
    /\ defective \subseteq Findings /\ seen \subseteq Findings
    /\ fresh \in [Rounds -> SUBSET Findings]

NothingNoticed == [reported |-> {}, fresh |-> {}]

Init ==
    /\ review = NoVerdict /\ draft = Nothing /\ report = Nothing
    /\ trace = {} /\ traceTorn = FALSE
    /\ step = "start"
    /\ defective \in SUBSET Findings
    /\ fresh = [r \in Rounds |-> {}]
    /\ seen = {}
    /\ noticed = NothingNoticed

-----------------------------------------------------------------------------
Round == NextRound(review)
Cycle == NextCycle(review)
Ledger == Carried(review, review.findings, EmptyLedger)

(* review-trace.js: while the round runs, the skill records each specialist *)
(* and the scope gate that ran; an append that is cut short leaves an       *)
(* unreadable line.                                                         *)
LineOf(e) == [cycle |-> Cycle, round |-> Round, event |-> e]
RecordEvents(events) ==
    /\ Open /\ step = "start"
    /\ trace' = trace \cup { LineOf(e) : e \in events }
    /\ UNCHANGED <<review, draft, report, traceTorn, step, defective, fresh, seen, noticed>>

TraceCutShort ==
    /\ Open /\ step = "start" /\ ~traceTorn
    /\ traceTorn' = TRUE
    /\ UNCHANGED <<review, draft, report, trace, step, defective, fresh, seen, noticed>>

RepairTrace ==
    /\ traceTorn
    /\ traceTorn' = FALSE
    /\ UNCHANGED <<review, draft, report, trace, step, defective, fresh, seen, noticed>>

(* review-verdict-assemble.js, first phase.  The normalizer runs, and leaves *)
(* its trace line, before the refusals that follow it.                       *)
Normalizes ==
    /\ Open /\ step = "start"
    /\ AuditCarries(AuditOf(review), Round)
    /\ trace' = trace \cup {LineOf("normalizer")}

AcceptsDraft(reported, fixed, status) ==
    /\ Disposed(Ledger, reported, report, "pending-check") = {}
    /\ GoIsClean(status, Normalized(Ledger, reported, fixed, Round, report))

NoGoRounds(status) ==
    IF status = "GO" THEN {0}
    ELSE { Carried(review, review.noGo, 0) + n : n \in Counting }

DraftOf(reported, fixed, crossed, status, mode, noGo, override) ==
    [state |-> "valid", status |-> status, mode |-> mode, round |-> Round, cycle |-> Cycle,
     noGo |-> noGo, override |-> override,
     findings |-> Normalized(Ledger, reported, fixed, Round, report),
     crossFindings |-> Carried(review, review.crossFindings, {}) \cup crossed,
     audit |-> [AuditOf(review) EXCEPT ![Round] = Absent]]

(* Reported again after it was resolved, and no check showed it fixed.      *)
Regressed(f) ==
    /\ Ledger[f].status = "RESOLVED"
    /\ report = Nothing \/ ~RedVerified(report.checks[f])

Assemble(reported, fixed, crossed, status, mode, noGo, override) ==
    /\ Normalizes
    /\ reported \subseteq defective /\ crossed \subseteq defective
    /\ fixed \subseteq { f \in reported : Ledger[f] = Nothing }
    /\ noGo \in NoGoRounds(status)
    /\ AcceptsDraft(reported, fixed, status)
    /\ draft' = DraftOf(reported, fixed, crossed, status, mode, noGo, override)
    /\ noticed' = [reported |-> reported \cup crossed,
                   fresh |-> { f \in reported \ fixed : Ledger[f] = Nothing \/ Regressed(f) }]
    /\ defective' = defective \ fixed
    /\ step' = "assembled"
    /\ UNCHANGED <<review, report, traceTorn, fresh, seen>>

AssembleRefused(reported, status) ==
    /\ Normalizes
    /\ reported \subseteq defective
    /\ ~AcceptsDraft(reported, {}, status)
    /\ UNCHANGED <<review, draft, report, traceTorn, step, defective, fresh, seen, noticed>>

-----------------------------------------------------------------------------
(* check-review-convergence.js, on the draft or, to repair a strike that    *)
(* was never written, on the persisted verdict.                             *)
RunChecks(v) == { f \in Findings : Checks(v, defective)[f] \notin {Nothing, "flagged"} }

ReportOn(v, stuck) ==
    [round |-> v.round, strike |-> CurrentStrike(v),
     exit |-> DecideExit(Causes(v, defective, trace), stuck # {} \/ traceTorn),
     checks |-> [f \in Findings |-> IF f \in stuck THEN "inconclusive" ELSE Checks(v, defective)[f]]]

GateDraft(stuck) ==
    /\ step \in {"start", "assembled"} /\ draft # Nothing
    /\ stuck \subseteq RunChecks(draft)
    /\ report' = IF Ungateable(draft) THEN Nothing ELSE ReportOn(draft, stuck)
    /\ step' = IF Ungateable(draft) THEN "start" ELSE "gated"
    /\ UNCHANGED <<review, draft, trace, traceTorn, defective, fresh, seen, noticed>>

StrikeMissing(v) == v.state = "valid" /\ v.audit[v.round] = Absent

RegateReview ==
    /\ step = "start" /\ StrikeMissing(review)
    /\ report' = ReportOn(review, {})
    /\ step' = "regated"
    /\ UNCHANGED <<review, draft, trace, traceTorn, defective, fresh, seen, noticed>>

(* review-verdict-assemble.js --write-strike: the report's strike goes into *)
(* the verdict's entry for the report's round.                              *)
Struck(v) == [v EXCEPT !.audit[report.round] = report.strike]
Writable(v) == report # Nothing /\ report.round = v.round

WriteStrikeToDraft ==
    /\ step = "gated" /\ Writable(draft)
    /\ draft' = Struck(draft)
    /\ step' = "struck"
    /\ UNCHANGED <<review, report, trace, traceTorn, defective, fresh, seen, noticed>>

WriteStrikeToReview ==
    /\ step = "regated" /\ Writable(review)
    /\ review' = Struck(review)
    /\ step' = "start"
    /\ UNCHANGED <<draft, report, trace, traceTorn, defective, fresh, seen, noticed>>

(* The skill persists a verdict the gate let through, or a NO-GO it backed; *)
(* it may forget to write the strike first.  A draft the gate found         *)
(* incomplete (exit 3) or could not check (exit 2) is not persisted.        *)
FreshIn(r) ==
    IF r # draft.round THEN fresh[r]
    ELSE IF draft.override = r THEN {} ELSE noticed.fresh
LetThrough == report.exit = 0 \/ (report.exit = 1 /\ draft.status = "NO-GO")

(* Trace lines of rounds before the persisted one are never looked at again. *)
Persist ==
    /\ step \in {"gated", "struck"} /\ LetThrough
    /\ review' = draft
    /\ draft' = Nothing
    /\ step' = "start"
    /\ trace' = LinesOf(trace, draft)
    /\ fresh' = Carried(draft, [fresh EXCEPT ![draft.round] = FreshIn(draft.round)],
                       [r \in Rounds |-> {}])
    /\ seen' = Carried(draft, seen \cup noticed.reported, {})
    /\ noticed' = NothingNoticed
    /\ UNCHANGED <<report, traceTorn, defective>>

(* A verdict the gate does not let through is assembled again.              *)
Discard ==
    /\ step \in {"gated", "struck"} /\ ~LetThrough
    /\ step' = "start"
    /\ UNCHANGED <<review, draft, report, trace, traceTorn, defective, fresh, seen, noticed>>

Crash ==
    /\ step # "start"
    /\ step' = "start"
    /\ UNCHANGED <<review, draft, report, trace, traceTorn, defective, fresh, seen, noticed>>

-----------------------------------------------------------------------------
(* Between rounds: the code changes, and with it the ledger's statuses.     *)
Between == step = "start" /\ draft = Nothing /\ review.state = "valid" /\ review.status = "NO-GO"

Resolve(f, check, preFix) ==
    /\ Between /\ review.findings[f] # Nothing /\ IsOpen(review.findings[f])
    /\ preFix => check \in {"sound", "vacuous"}
    /\ defective' = defective \ {f}
    /\ review' = [review EXCEPT !.findings[f] =
            [@ EXCEPT !.status = "RESOLVED", !.resolved = review.round + 1,
                      !.check = check, !.preFix = preFix]]
    /\ UNCHANGED <<draft, report, trace, traceTorn, step, fresh, seen, noticed>>

Accept(f) ==
    /\ Between /\ review.findings[f] # Nothing /\ IsOpen(review.findings[f])
    /\ review' = [review EXCEPT !.findings[f].status = "ACCEPTED"]
    /\ UNCHANGED <<draft, report, trace, traceTorn, step, defective, fresh, seen, noticed>>

FixDefect(f) ==
    /\ Between /\ f \in defective
    /\ defective' = defective \ {f}
    /\ UNCHANGED <<review, draft, report, trace, traceTorn, step, fresh, seen, noticed>>

Introduce(f) ==
    /\ step = "start" /\ draft = Nothing /\ f \notin defective
    /\ defective' = defective \cup {f}
    /\ UNCHANGED <<review, draft, report, trace, traceTorn, step, fresh, seen, noticed>>

(* A write of the persisted verdict is cut short, and later repaired.       *)
Damage ==
    /\ step = "start" /\ review.state = "valid"
    /\ review' = [review EXCEPT !.state = "malformed"]
    /\ UNCHANGED <<draft, report, trace, traceTorn, step, defective, fresh, seen, noticed>>
Repair ==
    /\ review.state = "malformed"
    /\ review' = [review EXCEPT !.state = "valid"]
    /\ UNCHANGED <<draft, report, trace, traceTorn, step, defective, fresh, seen, noticed>>

-----------------------------------------------------------------------------
Skill ==
    \/ \E events \in SUBSET (Events \ {"normalizer"}) : RecordEvents(events)
    \/ TraceCutShort \/ RepairTrace
    \/ \E reported, fixed, crossed \in SUBSET Findings, status \in {"GO", "NO-GO"},
          mode \in Modes, noGo \in 0..MaxRound, override \in {Nothing, Round} :
            Assemble(reported, fixed, crossed, status, mode, noGo, override)
    \/ \E reported \in SUBSET Findings, status \in {"GO", "NO-GO"} : AssembleRefused(reported, status)
    \/ \E stuck \in SUBSET Findings : GateDraft(stuck)
    \/ RegateReview \/ WriteStrikeToDraft \/ WriteStrikeToReview
    \/ Persist \/ Discard \/ Crash

Team ==
    \/ \E f \in Findings : \/ \E check \in {Nothing, "sound", "vacuous", "unencodable"},
                                  preFix \in BOOLEAN : Resolve(f, check, preFix)
                           \/ Accept(f) \/ FixDefect(f) \/ Introduce(f)
    \/ Damage \/ Repair

Next == Skill \/ Team
Spec == Init /\ [][Next]_vars

-----------------------------------------------------------------------------
(* Two rounds in a row that each brought a new or regressed defect never    *)
(* pass the gate, however the verdict was put together after crashes,       *)
(* forgotten strikes and repairs.                                           *)
TrulyStruck(r) ==
    r >= 2 /\ \E f \in FreshIn(r) \ ScopeFindings : draft.findings[f].status # "ACCEPTED"
NoQuietStreak ==
    step = "gated" /\ report.exit \in {0, 3}
    => \E r \in draft.round - Strikes + 1 .. draft.round : ~TrulyStruck(r)

(* A GO the gate lets through means that everything reported in the cycle   *)
(* is in the ledger, and is accepted by a human, no longer in the tree, or  *)
(* fixed before there was a commit to check it against.                     *)
GoMeansFixed ==
    step \in {"gated", "struck"} /\ draft.status = "GO" /\ report.exit = 0
    => \A f \in seen \cup noticed.reported :
           /\ f \in InLedger(draft.findings)
           /\ LET e == draft.findings[f] IN
              \/ e.status = "ACCEPTED"
              \/ e.status = "RESOLVED" /\ (f \notin defective \/ ~e.preFix)

=============================================================================

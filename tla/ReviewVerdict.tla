---------------------------- MODULE ReviewVerdict ----------------------------
(***************************************************************************)
(* The rules a review verdict goes through, as operators on a verdict:     *)
(* scripts/review-normalize.js with lib/review/normalize-rules.js, the     *)
(* assembler's lib/review-verdict-rules.js, the lifecycle, and the gate    *)
(* check-review-convergence.js with lib/review-gate-hardening.js,          *)
(* lib/review/review-convergence-rules.js, review-trace-rules.js and       *)
(* redgreen-scratch.js.                                                    *)
(*                                                                         *)
(* A finding is its identity (fid); what is kept of it is what the rules   *)
(* look at.  All of them are about the severities CRITICAL and HIGH, so    *)
(* every finding here has one of those.                                    *)
(***************************************************************************)
EXTENDS ReviewCycle

CONSTANTS
    Findings,       \* what a specialist can report
    ScopeFindings,  \* those of category "scope", which never strike
    Specialists,    \* the specialists a round claims to have run
    Strikes,        \* --strikes: consecutive striking rounds that escalate
    MaxNoGo,        \* --max-rounds: the round cap
    Absent          \* a rounds_audit entry whose strike was not written

ASSUME FindingsAssumption == ScopeFindings \subseteq Findings /\ Nothing \notin Findings
ASSUME GateAssumption == {Strikes, MaxNoGo, MaxRound} \subseteq Nat \ {0}

(* A ledger entry.  `check` is the linked check: none, one that tells the   *)
(* defect apart ("sound"), one that never fails ("vacuous"), or the mark    *)
(* check_encodable: false; `preFix` is whether pre_fix_sha was recorded.    *)
Entries == [status : {"OPEN", "RESOLVED", "ACCEPTED"}, first : Rounds,
            resolved : Rounds \cup {MaxRound + 1, Nothing}, reopened : Rounds \cup {Nothing},
            check : {Nothing, "sound", "vacuous", "unencodable"}, preFix : BOOLEAN]
Ledgers == [Findings -> Entries \cup {Nothing}]
EmptyLedger == [f \in Findings |-> Nothing]
InLedger(ledger) == { f \in Findings : ledger[f] # Nothing }
IsOpen(entry) == entry.status = "OPEN"

-----------------------------------------------------------------------------
(* A round's entry of rounds_audit is present once the round is assembled;  *)
(* its strike is absent until --write-strike.                               *)
NoAudit == [r \in Rounds |-> Nothing]
AuditOf(prior) == Carried(prior, prior.audit, NoAudit)

(* carryForwardRoundsAudit: a carried round from the second on that has no  *)
(* boolean strike, or an entry for this round or a later one, is refused.   *)
AuditCarries(audit, round) ==
    \A r \in Rounds : audit[r] # Nothing => r < round /\ (r >= 2 => audit[r] \in BOOLEAN)

-----------------------------------------------------------------------------
(* verifyFinding: what the gate finds when it runs a linked check, red on   *)
(* the tree before the fix and green on the current one.  Without a         *)
(* pre-fix commit the check is flagged and not run.                         *)
\* mutant: the green phase is not run
RedOnly(entry, stillDefective) ==
    IF entry = Nothing \/ entry.check \in {Nothing, "unencodable"} THEN Nothing
    ELSE IF ~entry.preFix THEN "flagged"
    ELSE IF entry.check = "vacuous" THEN "vacuous" ELSE "verified"

RedGreen(entry, stillDefective) ==
    IF entry = Nothing \/ entry.check \in {Nothing, "unencodable"} THEN Nothing
    ELSE IF ~entry.preFix THEN "flagged"
    ELSE IF entry.check = "vacuous" THEN "vacuous"
    ELSE IF stillDefective THEN "green-failed" ELSE "verified"

(* The entry of checks[] says red_verified: true as soon as red was seen,   *)
(* whatever green did.                                                      *)
RedVerified(outcome) == outcome \in {"verified", "green-failed"}

(* classifyDisposition, for a re-reported finding the ledger knows.  A      *)
(* flagged check is reported without its fid, so it is looked up in vain.   *)
Disposition(entry, report, f) ==
    IF entry.status # "RESOLVED" THEN "reobserved"
    ELSE IF entry.check \in {Nothing, "unencodable"} \/ report = Nothing THEN "reopen"
    ELSE IF report.checks[f] \in {Nothing, "flagged"} THEN "pending-check"
    ELSE IF RedVerified(report.checks[f]) THEN "reobserved" ELSE "reopen"

(* splitReobservations and applyDispositions: a new finding enters the      *)
(* ledger, open unless it was fixed on the spot; a reopened one is open     *)
(* again in this round.                                                     *)
NewEntry(round) ==
    [status |-> "OPEN", first |-> round, resolved |-> Nothing, reopened |-> Nothing,
     check |-> Nothing, preFix |-> FALSE]
FixedEntry(round) == [NewEntry(round) EXCEPT !.status = "RESOLVED", !.resolved = round]
\* mutant: the round of the regression is not recorded
ReopenedUnstamped(entry, round) == [entry EXCEPT !.status = "OPEN", !.resolved = Nothing]
Reopened(entry, round) ==
    [entry EXCEPT !.status = "OPEN", !.first = round, !.resolved = Nothing, !.reopened = round]

Disposed(ledger, reported, report, disposition) ==
    { f \in reported \cap InLedger(ledger) : Disposition(ledger[f], report, f) = disposition }
Normalized(ledger, reported, fixed, round, report) ==
    [f \in Findings |->
        IF f \in fixed /\ ledger[f] = Nothing                         THEN FixedEntry(round)
        ELSE IF f \in reported /\ ledger[f] = Nothing                 THEN NewEntry(round)
        ELSE IF f \in Disposed(ledger, reported, report, "reopen")    THEN Reopened(ledger[f], round)
        ELSE ledger[f]]

(* assertGoIsClean *)
GoIsClean(status, ledger) == status = "GO" => \A f \in InLedger(ledger) : ~IsOpen(ledger[f])

-----------------------------------------------------------------------------
(* The gate.  isNovelStrikeFinding, isReopenedStrikeFinding, and the strike *)
(* of the round being gated, unless a human overrode the streak in it.      *)
SameRoundResolved(e) == e.status = "RESOLVED" /\ e.resolved = e.first
NovelStrike(f, e, round) ==
    /\ f \notin ScopeFindings /\ e.status # "ACCEPTED"
    /\ e.first = round /\ ~SameRoundResolved(e)
ReopenedStrike(f, e, round) ==
    f \notin ScopeFindings /\ e.status # "ACCEPTED" /\ e.reopened = round
CurrentStrike(v) ==
    /\ v.round >= 2
    /\ v.override # v.round
    /\ \E f \in InLedger(v.findings) :
           NovelStrike(f, v.findings[f], v.round) \/ ReopenedStrike(f, v.findings[f], v.round)

(* computeStrikeMap and computeStreakViolation *)
StrikeOf(v, r) == IF r = v.round THEN CurrentStrike(v) ELSE v.audit[r] = TRUE
Streak(v) ==
    /\ v.round >= 2
    /\ \A r \in v.round - Strikes + 1 .. v.round : r >= 2 /\ StrikeOf(v, r)

(* checkStrikeBooleans: the verdict cannot be gated at all.                 *)
Ungateable(v) ==
    \E r \in 2..MaxRound : v.audit[r] # Nothing /\ r # v.round /\ v.audit[r] \notin BOOLEAN

(* computeAuditGapViolations and computeMissingAuditViolation               *)
AuditGap(v) == \E r \in 2..v.round : v.audit[r] = Nothing

(* computeFindingViolations: resolved in a later round with no check, or    *)
(* marked unencodable and not accepted.                                     *)
BreaksRatchet(e) ==
    \/ /\ e.status = "RESOLVED" /\ e.resolved > e.first
       /\ e.check \in {Nothing, "unencodable"}
    \/ e.check = "unencodable" /\ e.status # "ACCEPTED"

(* computeCrossRuntimeFindingViolations: an open finding of another runtime *)
(* that is not among the verdict's own.                                     *)
Unmirrored(v) == v.crossFindings \ InLedger(v.findings)

(* computeRequiredCoverage: with no line at all for the round the trace is  *)
(* missing; with some, every claimed invocation needs its own.              *)
LinesOf(trace, v) == { l \in trace : l.cycle = v.cycle /\ l.round = v.round }
ClaimedEvents(v) ==
    {"normalizer"} \cup Specialists \cup (IF v.mode = "full" THEN {"scope-gate"} ELSE {})
MissingTrace(trace, v) == LinesOf(trace, v) = {}
UnattestedEvent(trace, v) ==
    /\ ~MissingTrace(trace, v)
    /\ ~(ClaimedEvents(v) \subseteq { l.event : l \in LinesOf(trace, v) })

Checks(v, defective) == [f \in Findings |-> RedGreen(v.findings[f], f \in defective)]

(* The causes of all violations and decideExit over them.  The violation    *)
(* for a GO that has others adds no cause; the probes a verdict claims are  *)
(* in XRuntime.                                                             *)
Causes(v, defective, trace) ==
    LET entries == { v.findings[f] : f \in InLedger(v.findings) }
        checks  == Checks(v, defective)
    IN  { c \in {"process-incomplete", "unencodable-finding", "unattested-invocation",
                 "novel-finding-streak", "round-cap"} :
            CASE c = "process-incomplete"     -> AuditGap(v) \/ MissingTrace(trace, v)
              [] c = "unencodable-finding"    -> \/ \E e \in entries : BreaksRatchet(e)
                                                 \/ Unmirrored(v) # {}
                                                 \/ \E f \in Findings : checks[f] \in {"vacuous", "green-failed"}
              [] c = "unattested-invocation"  -> UnattestedEvent(trace, v)
              [] c = "novel-finding-streak"   -> Streak(v)
              [] c = "round-cap"              -> v.noGo >= MaxNoGo }

DecideExit(causes, inconclusive) ==
    IF inconclusive THEN 2
    ELSE IF causes \ {"process-incomplete"} # {} THEN 1
    ELSE IF causes # {} THEN 3 ELSE 0
=============================================================================

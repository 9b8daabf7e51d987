------------------------- MODULE ReviewToolsProofs --------------------------
(***************************************************************************)
(* The tools that decide when work has been reviewed enough, for every     *)
(* value of their constants: the convergence gate (ReviewLoop), the helper *)
(* that asks another runtime for a review (XRuntime), the formal           *)
(* verification autopilot (Autopilot), the ledger of mandated steps        *)
(* (MandatedSteps) and the scan for test cases nobody registered           *)
(* (AlcotestRegistration).  Each has its own specification: Spec, XSpec,   *)
(* PSpec, LedgerSpec and RegistrationSpec.                                 *)
(***************************************************************************)
EXTENDS ReviewLoop, XRuntime, Autopilot, MandatedSteps, AlcotestRegistration,
        FiniteSetTheorems, TLAPS

-----------------------------------------------------------------------------
(*************************** The convergence gate **************************)

(* What the normalizer does to a ledger *)

\* A check that has a pre-fix commit is one that can be run.
Encoded(ledger) ==
    \A f \in InLedger(ledger) : ledger[f].preFix => ledger[f].check \in {"sound", "vacuous"}

\* Of an entry: it says that its finding is new, or back, in the round.
Stamped(e, round) == (e.first = round /\ ~SameRoundResolved(e)) \/ e.reopened = round

LEMMA NewEntryTyped ==
    ASSUME NEW round \in Rounds
    PROVE  /\ NewEntry(round) \in Entries /\ FixedEntry(round) \in Entries
           /\ ~NewEntry(round).preFix /\ ~FixedEntry(round).preFix
           /\ Stamped(NewEntry(round), round)
  BY DEF NewEntry, FixedEntry, Entries, Stamped, SameRoundResolved

LEMMA ReopenedTyped ==
    ASSUME NEW round \in Rounds, NEW e \in Entries
    PROVE  /\ Reopened(e, round) \in Entries
           /\ Reopened(e, round).preFix = e.preFix /\ Reopened(e, round).check = e.check
           /\ Stamped(Reopened(e, round), round)
  BY DEF Reopened, Entries, Stamped

LEMMA NormalizedCases ==
    ASSUME NEW ledger \in Ledgers, NEW reported, NEW fixed, NEW round, NEW rep, NEW f \in Findings
    PROVE  LET n == Normalized(ledger, reported, fixed, round, rep) IN
           /\ ledger[f] = Nothing /\ f \in fixed => n[f] = FixedEntry(round)
           /\ ledger[f] = Nothing /\ f \in reported \ fixed => n[f] = NewEntry(round)
           /\ ledger[f] = Nothing /\ f \notin reported \cup fixed => n[f] = Nothing
           /\ ledger[f] # Nothing =>
                 n[f] = IF f \in reported /\ Disposition(ledger[f], rep, f) = "reopen"
                        THEN Reopened(ledger[f], round) ELSE ledger[f]
  BY DEF Normalized, Disposed, InLedger

LEMMA NormalizedTyped ==
    ASSUME NEW ledger \in Ledgers, NEW reported, NEW fixed, NEW round \in Rounds, NEW rep
    PROVE  Normalized(ledger, reported, fixed, round, rep) \in Ledgers
<1> DEFINE n == Normalized(ledger, reported, fixed, round, rep)
<1>1. ASSUME NEW f \in Findings PROVE n[f] \in Entries \cup {Nothing}
  <2>1. ledger[f] \in Entries \cup {Nothing}
    BY DEF Ledgers
  <2> HIDE DEF n
  <2> QED BY <2>1, NormalizedCases, NewEntryTyped, ReopenedTyped DEF n
<1>2. n = [f \in Findings |-> n[f]]
  BY DEF Normalized
<1> HIDE DEF n
<1> QED BY <1>1, <1>2 DEF Ledgers, n

LEMMA NormalizedKeeps ==
    ASSUME NEW ledger \in Ledgers, NEW reported, NEW fixed, fixed \subseteq reported,
           NEW round \in Rounds, NEW rep, Encoded(ledger)
    PROVE  Encoded(Normalized(ledger, reported, fixed, round, rep))
<1> DEFINE n == Normalized(ledger, reported, fixed, round, rep)
<1>1. ASSUME NEW f \in Findings
      PROVE  n[f] # Nothing /\ n[f].preFix => n[f].check \in {"sound", "vacuous"}
  <2>1. ledger[f] \in Entries \cup {Nothing} /\ Nothing \notin Entries
    BY NothingAssumption DEF Ledgers
  <2>2. ledger[f] # Nothing /\ ledger[f].preFix => ledger[f].check \in {"sound", "vacuous"}
    BY DEF Encoded, InLedger
  <2> HIDE DEF n
  <2>4. CASE ledger[f] = Nothing
    BY <2>1, <2>4, NormalizedCases, NewEntryTyped DEF n
  <2>5. CASE ledger[f] # Nothing
    BY <2>1, <2>2, <2>5, NormalizedCases, ReopenedTyped DEF n
  <2> QED BY <2>4, <2>5
<1> HIDE DEF n
<1> QED BY <1>1 DEF Encoded, InLedger, n

LEMMA NormalizedEnters ==
    ASSUME NEW ledger \in Ledgers, NEW reported, NEW fixed, NEW round \in Rounds, NEW rep,
           NEW f \in Findings, ledger[f] # Nothing \/ f \in reported
    PROVE  Normalized(ledger, reported, fixed, round, rep)[f] # Nothing
<1> DEFINE n == Normalized(ledger, reported, fixed, round, rep)
<1>1. ledger[f] \in Entries \cup {Nothing} /\ Nothing \notin Entries
  BY NothingAssumption DEF Ledgers
<1> HIDE DEF n
<1>2. CASE ledger[f] = Nothing
  BY <1>1, <1>2, NormalizedCases, NewEntryTyped DEF n
<1>3. CASE ledger[f] # Nothing
  BY <1>1, <1>3, NormalizedCases, ReopenedTyped DEF n
<1> QED BY <1>2, <1>3 DEF n

LEMMA NormalizedAccepts ==
    ASSUME NEW ledger \in Ledgers, NEW reported, NEW fixed, NEW round \in Rounds, NEW rep,
           NEW f \in Findings, ledger[f] # Nothing, ledger[f].status = "ACCEPTED"
    PROVE  Normalized(ledger, reported, fixed, round, rep)[f] = ledger[f]
<1>1. Disposition(ledger[f], rep, f) # "reopen"
  BY DEF Disposition
<1> QED BY <1>1, NormalizedCases

\* A finding that is new in a round, or reported again although it was resolved and no
\* check showed it fixed, is stamped with the round.
LEMMA NormalizedStamps ==
    ASSUME NEW ledger \in Ledgers, NEW reported, NEW fixed, NEW round \in Rounds,
           NEW rep, Disposed(ledger, reported, rep, "pending-check") = {},
           NEW f \in (reported \cap Findings) \ fixed,
           ledger[f] = Nothing \/ (ledger[f].status = "RESOLVED"
                                   /\ (rep = Nothing \/ ~RedVerified(rep.checks[f])))
    PROVE  LET n == Normalized(ledger, reported, fixed, round, rep) IN
           n[f] # Nothing /\ Stamped(n[f], round)
<1> DEFINE n == Normalized(ledger, reported, fixed, round, rep)
<1>1. ledger[f] \in Entries \cup {Nothing} /\ Nothing \notin Entries
  BY NothingAssumption DEF Ledgers
<1>2. CASE ledger[f] = Nothing
  <2>1. n[f] = NewEntry(round)
    BY <1>2, NormalizedCases
  <2> HIDE DEF n
  <2> QED BY <1>1, <2>1, NewEntryTyped DEF n
<1>3. CASE ledger[f] # Nothing
  <2>1. Disposition(ledger[f], rep, f) # "pending-check"
    BY <1>3 DEF Disposed, InLedger
  <2>2. Disposition(ledger[f], rep, f) = "reopen"
    BY <1>3, <2>1 DEF Disposition
  <2>3. n[f] = Reopened(ledger[f], round)
    BY <1>3, <2>2, NormalizedCases
  <2> HIDE DEF n
  <2> QED BY <1>1, <1>3, <2>3, ReopenedTyped DEF n
<1> QED BY <1>2, <1>3

-----------------------------------------------------------------------------
(* The invariant of the loop *)

\* A round whose audit says it did not strike found nothing that has not been accepted, and
\* one that has no audit found nothing.
Accepted(v, f) == v.findings[f] # Nothing /\ v.findings[f].status = "ACCEPTED"
AuditTells(v, found) ==
    \A r \in Rounds : r >= 2 =>
        /\ v.audit[r] = Nothing => found[r] = {}
        /\ v.audit[r] = FALSE => \A f \in found[r] \ ScopeFindings : Accepted(v, f)

\* What a round found new or back is in the ledger of its verdict, stamped or accepted.
Marked(v, found) ==
    \A f \in found : /\ v.findings[f] # Nothing
                     /\ v.findings[f].status = "ACCEPTED" \/ Stamped(v.findings[f], v.round)

VerdictHolds ==
    /\ review # NoVerdict => Encoded(review.findings)
    /\ FreshCycle(review) => seen = {} /\ fresh = [r \in Rounds |-> {}]
    /\ ~FreshCycle(review) =>
          /\ seen \subseteq InLedger(review.findings) \cup review.crossFindings
          /\ Marked(review, fresh[review.round])
          /\ review.override = review.round => fresh[review.round] = {}
          /\ AuditTells(review, fresh)

\* The rounds' findings, with those of the draft.
Found == [r \in Rounds |-> FreshIn(r)]

DraftHolds ==
    draft # Nothing =>
        /\ Encoded(draft.findings)
        /\ GoIsClean(draft.status, draft.findings)
        /\ seen \cup noticed.reported \subseteq InLedger(draft.findings) \cup draft.crossFindings
        /\ Marked(draft, noticed.fresh)
        /\ AuditTells(draft, Found)

\* The report is about what the skill is working on.
ReportOf(v) == report # Nothing /\ report.round = v.round /\ report.strike = CurrentStrike(v)
ReportHolds ==
    /\ step \in {"gated", "struck"} => draft # Nothing /\ ReportOf(draft)
    /\ step = "regated" => review # NoVerdict /\ ReportOf(review)

Typed == TypeOK /\ noticed \in [reported : SUBSET Findings, fresh : SUBSET Findings]

Passes == NoQuietStreak /\ GoMeansFixed

LoopInv == Typed /\ VerdictHolds /\ DraftHolds /\ ReportHolds /\ Passes

-----------------------------------------------------------------------------
(* The fields of what is in the files *)

LEMMA VerdictFields ==
    ASSUME NEW v \in Verdict
    PROVE  /\ v # Nothing /\ v.state # "absent" /\ v # NoVerdict
           /\ v.findings \in Ledgers /\ v.round \in Rounds /\ v.round \in Nat
           /\ v.crossFindings \subseteq Findings /\ v.status \in {"GO", "NO-GO"}
           /\ v.audit \in [Rounds -> BOOLEAN \cup {Absent, Nothing}]
<1>1. v # Nothing
  BY NothingAssumption
<1>2. v.state # "absent" /\ v.round \in Rounds
  BY DEF Verdict
<1>3. v # NoVerdict
  BY <1>2 DEF NoVerdict
<1>4. v.round \in Nat
  BY <1>2 DEF Rounds
<1> QED BY <1>1, <1>2, <1>3, <1>4 DEF Verdict

LEMMA FreshIsNotCarried ==
    ASSUME Typed
    PROVE  /\ review # NoVerdict => review \in Verdict
           /\ draft # Nothing => draft \in Verdict
           /\ ~FreshCycle(review) => review \in Verdict /\ review.status = "NO-GO"
<1>1. NoVerdict.state = "absent"
  BY DEF NoVerdict
<1>2. review # NoVerdict => review \in Verdict
  BY DEF Typed, TypeOK
<1>3. ~FreshCycle(review) => review # NoVerdict
  BY <1>1 DEF FreshCycle
<1> QED BY <1>2, <1>3, VerdictFields DEF Typed, TypeOK, FreshCycle

\* A verdict that strikes nothing in its round found nothing in it that is not accepted,
\* unless its findings are not counted.
LEMMA QuietRound ==
    ASSUME NEW v \in Verdict, NEW found \in SUBSET Findings, Marked(v, found), v.round >= 2,
           ~CurrentStrike(v), v.override # v.round
    PROVE  \A f \in found \ ScopeFindings : Accepted(v, f)
  BY DEF Accepted, CurrentStrike, Marked, Stamped, NovelStrike, ReopenedStrike, InLedger

-----------------------------------------------------------------------------
(* The gate *)

LEMMA GateLetsThrough ==
    ASSUME NEW v, NEW inconclusive, DecideExit(Causes(v, defective, trace), inconclusive) \in {0, 3}
    PROVE  /\ ~inconclusive /\ ~Streak(v) /\ Unmirrored(v) = {}
           /\ \A f \in Findings : Checks(v, defective)[f] \notin {"vacuous", "green-failed"}
<1>1. ~inconclusive /\ Causes(v, defective, trace) \ {"process-incomplete"} = {}
  BY DEF DecideExit
<1>2. "novel-finding-streak" \notin Causes(v, defective, trace)
      /\ "unencodable-finding" \notin Causes(v, defective, trace)
  BY <1>1
<1>3. ~Streak(v)
  BY <1>2 DEF Causes
<1>4. Unmirrored(v) = {} /\ \A f \in Findings : Checks(v, defective)[f] \notin {"vacuous", "green-failed"}
  BY <1>2 DEF Causes
<1> QED BY <1>1, <1>3, <1>4

\* Exit 0 or 3 leaves a quiet round in the last ones.
LEMMA QuietAtGate ==
    ASSUME LoopInv, draft # Nothing, ~Streak(draft), ~Ungateable(draft)
    PROVE  \E r \in draft.round - Strikes + 1 .. draft.round : ~TrulyStruck(r)
<1>1. draft \in Verdict
  BY FreshIsNotCarried DEF LoopInv
<1>2. draft.round \in Nat /\ draft.round \in Rounds /\ Strikes \in Nat /\ Strikes # 0 /\ MaxRound \in Nat
  BY <1>1, VerdictFields, GateAssumption
<1>3. CASE draft.round < 2
  BY <1>2, <1>3 DEF TrulyStruck
<1>4. CASE draft.round >= 2
  <2>1. PICK r \in draft.round - Strikes + 1 .. draft.round : r < 2 \/ ~StrikeOf(draft, r)
    BY <1>4 DEF Streak
  <2>2. CASE r < 2
    BY <2>2 DEF TrulyStruck
  <2>3. CASE r >= 2 /\ r = draft.round
    <3>1. ~CurrentStrike(draft)
      BY <2>1, <2>3 DEF StrikeOf
    <3>2. FreshIn(r) = IF draft.override = r THEN {} ELSE noticed.fresh
      BY <2>3 DEF FreshIn
    <3>3. noticed.fresh \in SUBSET Findings /\ Marked(draft, noticed.fresh)
      BY DEF LoopInv, Typed, DraftHolds
    <3>4. \A f \in FreshIn(r) \ ScopeFindings : Accepted(draft, f)
      BY <1>1, <1>4, <2>3, <3>1, <3>2, <3>3, QuietRound
    <3> QED BY <3>4 DEF TrulyStruck, Accepted
  <2>4. CASE r >= 2 /\ r # draft.round
    <3>1. r \in Rounds /\ r \in 2..MaxRound
      BY <1>2, <2>4 DEF Rounds
    <3>2. ~StrikeOf(draft, r) /\ r # draft.round
      BY <2>1, <2>4
    <3>5. draft.audit[r] # TRUE
      BY <3>2, Zenon DEF StrikeOf
    <3>3. draft.audit[r] = Nothing \/ draft.audit[r] = FALSE
      BY <2>4, <3>1, <3>5 DEF Ungateable
    <3>4. \A f \in FreshIn(r) \ ScopeFindings : Accepted(draft, f)
      BY <2>4, <3>1, <3>3 DEF LoopInv, DraftHolds, AuditTells, Found
    <3> QED BY <3>4 DEF TrulyStruck, Accepted
  <2> QED BY <1>2, <2>2, <2>3, <2>4
<1> QED BY <1>2, <1>3, <1>4

\* A clean draft that passes leaves nothing behind in the tree.
LEMMA FixedAtGate ==
    ASSUME LoopInv, draft # Nothing, draft.status = "GO", Unmirrored(draft) = {},
           \A f \in Findings : Checks(draft, defective)[f] \notin {"vacuous", "green-failed"}
    PROVE  \A f \in seen \cup noticed.reported :
              /\ f \in InLedger(draft.findings)
              /\ LET e == draft.findings[f] IN
                 \/ e.status = "ACCEPTED"
                 \/ e.status = "RESOLVED" /\ (f \notin defective \/ ~e.preFix)
<1>1. draft \in Verdict
  BY FreshIsNotCarried DEF LoopInv
<1>2. draft.findings \in Ledgers
  BY <1>1, VerdictFields
<1> SUFFICES ASSUME NEW f \in seen \cup noticed.reported
             PROVE  /\ f \in InLedger(draft.findings)
                    /\ \/ draft.findings[f].status = "ACCEPTED"
                       \/ draft.findings[f].status = "RESOLVED" /\ (f \notin defective \/ ~draft.findings[f].preFix)
  OBVIOUS
<1>3. f \in InLedger(draft.findings) /\ f \in Findings
  BY DEF LoopInv, DraftHolds, Unmirrored, InLedger
<1> DEFINE e == draft.findings[f]
<1>4. e \in Entries /\ e # Nothing
  BY <1>2, <1>3 DEF Ledgers, InLedger
<1>5. e.status \in {"RESOLVED", "ACCEPTED"}
  BY <1>3, <1>4 DEF LoopInv, DraftHolds, GoIsClean, IsOpen, Entries
<1>6. f \in defective /\ e.preFix => FALSE
  <2>1. e.preFix => e.check \in {"sound", "vacuous"}
    BY <1>3 DEF LoopInv, DraftHolds, Encoded
  <2>2. Checks(draft, defective)[f] = RedGreen(e, f \in defective)
    BY <1>3 DEF Checks
  <2>3. RedGreen(e, f \in defective) \notin {"vacuous", "green-failed"}
    BY <1>3, <2>2
  <2>4. CASE f \in defective /\ e.preFix
    <3>1. e.check # Nothing /\ e.check # "unencodable"
      BY <2>1, <2>4, NothingAssumption
    <3>2. RedGreen(e, f \in defective) \in {"vacuous", "green-failed"}
      BY <1>4, <2>1, <2>4, <3>1 DEF RedGreen
    <3> QED BY <2>3, <3>2
  <2> QED BY <2>4
<1> QED BY <1>3, <1>5, <1>6
-----------------------------------------------------------------------------
(* What a tool or a person does to a verdict *)

LEMMA StruckFields ==
    ASSUME NEW v \in Verdict, report \in Report, report.round = v.round
    PROVE  /\ Struck(v) \in Verdict
           /\ Struck(v).state = v.state /\ Struck(v).status = v.status
           /\ Struck(v).round = v.round /\ Struck(v).override = v.override
           /\ Struck(v).findings = v.findings /\ Struck(v).crossFindings = v.crossFindings
           /\ Struck(v).audit = [v.audit EXCEPT ![v.round] = report.strike]
  BY DEF Verdict, Report, Struck

\* The strike depends on neither the audit nor the readability of the file.
LEMMA SameStrike ==
    ASSUME NEW v, NEW w, w.round = v.round, w.override = v.override, w.findings = v.findings
    PROVE  CurrentStrike(w) = CurrentStrike(v)
  BY DEF CurrentStrike

LEMMA ReportTyped ==
    ASSUME NEW v \in Verdict, NEW stuck
    PROVE  /\ ReportOn(v, stuck) \in Report
           /\ ReportOn(v, stuck).round = v.round /\ ReportOn(v, stuck).strike = CurrentStrike(v)
           /\ ReportOn(v, stuck).exit = DecideExit(Causes(v, defective, trace), stuck # {} \/ traceTorn)
<1>1. DecideExit(Causes(v, defective, trace), stuck # {} \/ traceTorn) \in 0..3
  BY DEF DecideExit
<1>2. CurrentStrike(v) \in BOOLEAN
  BY DEF CurrentStrike
<1>3. \A f \in Findings : (IF f \in stuck THEN "inconclusive" ELSE Checks(v, defective)[f]) \in Outcomes
  BY DEF Checks, RedGreen, Outcomes
<1>4. v.round \in Rounds
  BY VerdictFields
<1> QED BY <1>1, <1>2, <1>3, <1>4 DEF ReportOn, Report

\* A step that leaves the verdict, the draft, the report and the tree alone.
LEMMA Aside ==
    ASSUME LoopInv, step' \in {step, "start"}, trace' \subseteq TraceLine, traceTorn' \in BOOLEAN,
           UNCHANGED <<review, draft, report, defective, fresh, seen, noticed>>
    PROVE  LoopInv'
<1>1. Typed'
  BY DEF LoopInv, Typed, TypeOK
<1>2. VerdictHolds'
  BY DEF LoopInv, VerdictHolds, AuditTells, Marked, Encoded, Accepted
<1>3. DraftHolds'
  BY DEF LoopInv, DraftHolds, AuditTells, Marked, Encoded, Accepted, Found, FreshIn
<1>4. ReportHolds'
  BY DEF LoopInv, ReportHolds, ReportOf
<1>5. Passes'
  BY DEF LoopInv, Passes, NoQuietStreak, GoMeansFixed, TrulyStruck, FreshIn
<1> QED BY <1>1, <1>2, <1>3, <1>4, <1>5 DEF LoopInv

LEMMA NewLines ==
    ASSUME LoopInv, Open, NEW events \in SUBSET Events
    PROVE  trace \cup { LineOf(e) : e \in events } \subseteq TraceLine
  BY DEF LoopInv, Typed, TypeOK, Open, LineOf, Round, Cycle, TraceLine

-----------------------------------------------------------------------------
(* Assembling a draft *)

\* The ledger the draft starts from.
LEMMA LedgerCarried ==
    ASSUME LoopInv
    PROVE  /\ Ledger \in Ledgers /\ Encoded(Ledger)
           /\ seen \subseteq InLedger(Ledger) \cup Carried(review, review.crossFindings, {})
           /\ Carried(review, review.crossFindings, {}) \subseteq Findings
           /\ AuditOf(review) \in [Rounds -> BOOLEAN \cup {Absent, Nothing}]
<1>1. CASE FreshCycle(review)
  <2>1. Ledger = EmptyLedger /\ AuditOf(review) = NoAudit /\ seen = {}
        /\ Carried(review, review.crossFindings, {}) = {}
    BY <1>1 DEF Ledger, AuditOf, Carried, LoopInv, VerdictHolds
  <2> QED BY <2>1 DEF EmptyLedger, Ledgers, Encoded, InLedger, NoAudit
<1>2. CASE ~FreshCycle(review)
  <2>1. review \in Verdict /\ review # NoVerdict
    BY <1>2, FreshIsNotCarried, VerdictFields DEF LoopInv
  <2>2. Ledger = review.findings /\ AuditOf(review) = review.audit
        /\ Carried(review, review.crossFindings, {}) = review.crossFindings
    BY <1>2 DEF Ledger, AuditOf, Carried
  <2> QED BY <1>2, <2>1, <2>2, VerdictFields DEF LoopInv, VerdictHolds
<1> QED BY <1>1, <1>2

LEMMA AssembleKeeps ==
    ASSUME LoopInv,
           NEW told \in SUBSET Findings, NEW mended \in SUBSET Findings,
           NEW crossed \in SUBSET Findings, NEW verdict \in {"GO", "NO-GO"}, NEW kind \in Modes,
           NEW cap \in 0..MaxRound, NEW over \in {Nothing, Round},
           Assemble(told, mended, crossed, verdict, kind, cap, over)
    PROVE  LoopInv'
<1> DEFINE n == Normalized(Ledger, told, mended, Round, report)
<1>1. Open /\ Round \in Rounds /\ Round \in Nat
  BY DEF Assemble, Normalizes, Open, Round, Rounds
<1>2. /\ draft' \in Verdict /\ draft' # Nothing /\ draft'.round = Round /\ draft'.status = verdict
      /\ draft'.findings = n
      /\ draft'.crossFindings = Carried(review, review.crossFindings, {}) \cup crossed
      /\ draft'.audit = [AuditOf(review) EXCEPT ![Round] = Absent]
  <2> DEFINE c == Carried(review, review.crossFindings, {}) \cup crossed
  <2> DEFINE a == [AuditOf(review) EXCEPT ![Round] = Absent]
  <2>1. n \in Ledgers
    BY <1>1, LedgerCarried, NormalizedTyped
  <2>2. a \in [Rounds -> BOOLEAN \cup {Absent, Nothing}] /\ c \subseteq Findings
    BY LedgerCarried
  <2>3. Cycle \in Cycles /\ over \in Rounds \cup {Nothing}
    BY <1>1 DEF Open, Cycle
  <2>4. draft' = [state |-> "valid", status |-> verdict, mode |-> kind, round |-> Round, cycle |-> Cycle,
                  noGo |-> cap, override |-> over, findings |-> n, crossFindings |-> c, audit |-> a]
    BY DEF Assemble, DraftOf
  <2> HIDE DEF n, c, a
  <2>5. draft' \in Verdict
    BY <1>1, <2>1, <2>2, <2>3, <2>4 DEF Verdict
  <2>6. draft' # Nothing
    BY <2>5, VerdictFields
  <2> QED BY <2>4, <2>5, <2>6 DEF c, a
<1>3. /\ noticed'.reported = told \cup crossed
      /\ noticed'.fresh = { f \in told \ mended : Ledger[f] = Nothing \/ Regressed(f) }
      /\ noticed' \in [reported : SUBSET Findings, fresh : SUBSET Findings]
  BY DEF Assemble
<1>4. UNCHANGED <<review, report, traceTorn, fresh, seen>> /\ step' = "assembled"
      /\ defective' \subseteq defective /\ mended \subseteq told
      /\ trace' = trace \cup {LineOf("normalizer")}
  BY DEF Assemble, Normalizes
<1>5. Ledger \in Ledgers /\ Encoded(Ledger)
  BY LedgerCarried
<1>6. trace' \subseteq TraceLine
  BY <1>1, <1>4, NewLines, LoopAssumption, trace' = trace \cup { LineOf(e) : e \in {"normalizer"} }
<1>7. Typed'
  BY <1>2, <1>3, <1>4, <1>6 DEF LoopInv, Typed, TypeOK
<1>8. VerdictHolds'
  BY <1>4 DEF LoopInv, VerdictHolds, AuditTells, Marked, Encoded, Accepted
<1>9. DraftHolds'
  <2>1. Encoded(n) /\ InLedger(Ledger) \cup told \subseteq InLedger(n)
        /\ \A f \in Findings : Ledger[f] # Nothing /\ Ledger[f].status = "ACCEPTED" => n[f] = Ledger[f]
    <3>1. Encoded(n)
      BY <1>1, <1>4, <1>5, NormalizedKeeps
    <3>2. ASSUME NEW f \in Findings, Ledger[f] # Nothing \/ f \in told PROVE n[f] # Nothing
      BY <1>1, <1>5, <3>2, NormalizedEnters
    <3>3. ASSUME NEW f \in Findings, Ledger[f] # Nothing, Ledger[f].status = "ACCEPTED" PROVE n[f] = Ledger[f]
      BY <1>1, <1>5, <3>3, NormalizedAccepts
    <3> HIDE DEF n
    <3> QED BY <3>1, <3>2, <3>3 DEF InLedger
  <2>2. GoIsClean(verdict, n)
    BY DEF Assemble, AcceptsDraft
  <2>3. seen \cup told \cup crossed \subseteq InLedger(n) \cup draft'.crossFindings
    BY <1>2, <2>1, LedgerCarried
  <2>4. Marked(draft', noticed'.fresh)
    <3>1. ASSUME NEW f \in noticed'.fresh PROVE n[f] # Nothing /\ Stamped(n[f], Round)
      <4>1. Disposed(Ledger, told, report, "pending-check") = {}
        BY DEF Assemble, AcceptsDraft
      <4> QED BY <1>1, <1>3, <1>5, <3>1, <4>1, NormalizedStamps DEF Regressed
    <3> HIDE DEF n
    <3> QED BY <1>2, <3>1 DEF Marked
  <2>5. AuditTells(draft', [r \in Rounds |-> FreshIn(r)'])
    <3> SUFFICES ASSUME NEW r \in Rounds, r >= 2
                 PROVE  /\ draft'.audit[r] = Nothing => FreshIn(r)' = {}
                        /\ draft'.audit[r] = FALSE =>
                              \A f \in FreshIn(r)' \ ScopeFindings : Accepted(draft', f)
      BY DEF AuditTells
    <3>1. AuditOf(review) \in [Rounds -> BOOLEAN \cup {Absent, Nothing}]
      BY LedgerCarried
    <3>2. CASE r = Round
      BY <1>2, <3>1, <3>2, AuditAssumption
    <3>3. CASE r # Round
      <4>1. FreshIn(r)' = fresh[r] /\ fresh[r] \subseteq Findings
        BY <1>2, <1>4, <3>3 DEF FreshIn, LoopInv, Typed, TypeOK
      <4>2. draft'.audit[r] = AuditOf(review)[r]
        BY <1>2, <3>1, <3>3
      <4>3. CASE FreshCycle(review)
        BY <4>1, <4>3 DEF LoopInv, VerdictHolds
      <4>4. CASE ~FreshCycle(review)
        <5>1. AuditOf(review) = review.audit /\ Ledger = review.findings
          BY <4>4 DEF AuditOf, Carried, Ledger
        <5>2. AuditTells(review, fresh)
          BY <4>4 DEF LoopInv, VerdictHolds
        <5>3. /\ draft'.audit[r] = Nothing => fresh[r] = {}
              /\ draft'.audit[r] = FALSE => \A f \in fresh[r] \ ScopeFindings : Accepted(review, f)
          BY <4>2, <5>1, <5>2 DEF AuditTells
        <5>4. \A f \in Findings : Accepted(review, f) => Accepted(draft', f)
          BY <1>2, <2>1, <5>1 DEF Accepted
        <5> QED BY <4>1, <5>3, <5>4
      <4> QED BY <4>3, <4>4
    <3> QED BY <3>2, <3>3
  <2> HIDE DEF n
  <2> QED BY <1>2, <1>3, <1>4, <2>1, <2>2, <2>3, <2>4, <2>5 DEF DraftHolds, Found
<1>10. ReportHolds' /\ Passes'
  BY <1>4 DEF ReportHolds, Passes, NoQuietStreak, GoMeansFixed
<1> QED BY <1>7, <1>8, <1>9, <1>10 DEF LoopInv

-----------------------------------------------------------------------------
(* Gating a draft and writing the strike *)

LEMMA GateKeeps ==
    ASSUME LoopInv, NEW stuck \in SUBSET Findings, GateDraft(stuck)
    PROVE  LoopInv'
<1>1. draft \in Verdict /\ draft # Nothing
  BY FreshIsNotCarried DEF LoopInv, GateDraft
<1>2. UNCHANGED <<review, draft, trace, traceTorn, defective, fresh, seen, noticed>>
  BY DEF GateDraft
<1>3. /\ Ungateable(draft) => report' = Nothing /\ step' = "start"
      /\ ~Ungateable(draft) => report' = ReportOn(draft, stuck) /\ step' = "gated"
  BY DEF GateDraft
<1>4. report' = Nothing \/ report' \in Report
  BY <1>1, <1>3, ReportTyped
<1>5. Typed'
  BY <1>2, <1>3, <1>4 DEF LoopInv, Typed, TypeOK
<1>6. VerdictHolds' /\ DraftHolds'
  BY <1>2 DEF LoopInv, VerdictHolds, DraftHolds, AuditTells, Marked, Encoded, Accepted, Found, FreshIn
<1>7. ReportHolds'
  <2>1. CASE Ungateable(draft)
    BY <1>3, <2>1 DEF ReportHolds
  <2>2. CASE ~Ungateable(draft)
    <3>1. report' \in Report /\ report'.round = draft.round /\ report'.strike = CurrentStrike(draft)
      BY <1>1, <1>3, <2>2, ReportTyped
    <3> QED BY <1>1, <1>2, <1>3, <2>2, <3>1, NothingAssumption DEF ReportHolds, ReportOf
  <2> QED BY <2>1, <2>2
<1>8. Passes'
  <2>1. CASE Ungateable(draft)
    BY <1>3, <2>1 DEF Passes, NoQuietStreak, GoMeansFixed
  <2>2. CASE ~Ungateable(draft)
    <3>1. report'.exit = DecideExit(Causes(draft, defective, trace), stuck # {} \/ traceTorn)
      BY <1>1, <1>3, <2>2, ReportTyped
    <3>2. ASSUME report'.exit \in {0, 3}
          PROVE  /\ ~Streak(draft) /\ Unmirrored(draft) = {}
                 /\ \A f \in Findings : Checks(draft, defective)[f] \notin {"vacuous", "green-failed"}
      BY <3>1, <3>2, GateLetsThrough
    <3>3. NoQuietStreak'
      <4>1. report'.exit \in {0, 3} => \E r \in draft.round - Strikes + 1 .. draft.round : ~TrulyStruck(r)
        BY <1>1, <2>2, <3>2, QuietAtGate
      <4>2. \A r : TrulyStruck(r)' <=> TrulyStruck(r)
        BY <1>2 DEF TrulyStruck, FreshIn
      <4> QED BY <1>2, <4>1, <4>2 DEF NoQuietStreak
    <3>4. GoMeansFixed'
      <4>1. draft.status = "GO" /\ report'.exit = 0 =>
               \A f \in seen \cup noticed.reported :
                  /\ f \in InLedger(draft.findings)
                  /\ LET e == draft.findings[f] IN
                     \/ e.status = "ACCEPTED"
                     \/ e.status = "RESOLVED" /\ (f \notin defective \/ ~e.preFix)
        BY <1>1, <3>2, FixedAtGate
      <4> QED BY <1>2, <4>1 DEF GoMeansFixed
    <3> QED BY <3>3, <3>4 DEF Passes
  <2> QED BY <2>1, <2>2
<1> QED BY <1>5, <1>6, <1>7, <1>8 DEF LoopInv

LEMMA RegateKeeps ==
    ASSUME LoopInv, RegateReview
    PROVE  LoopInv'
<1>1. review \in Verdict /\ review # NoVerdict
  <2>1. review # NoVerdict
    BY DEF RegateReview, StrikeMissing, NoVerdict
  <2> QED BY <2>1 DEF LoopInv, Typed, TypeOK
<1>2. UNCHANGED <<review, draft, trace, traceTorn, defective, fresh, seen, noticed>> /\ step' = "regated"
  BY DEF RegateReview
<1>3. report' \in Report /\ report'.round = review.round /\ report'.strike = CurrentStrike(review)
  BY <1>1, ReportTyped DEF RegateReview
<1>4. Typed'
  BY <1>2, <1>3 DEF LoopInv, Typed, TypeOK
<1>5. VerdictHolds' /\ DraftHolds'
  BY <1>2 DEF LoopInv, VerdictHolds, DraftHolds, AuditTells, Marked, Encoded, Accepted, Found, FreshIn
<1>6. ReportHolds' /\ Passes'
  BY <1>1, <1>2, <1>3, NothingAssumption DEF ReportHolds, ReportOf, Passes, NoQuietStreak, GoMeansFixed
<1> QED BY <1>4, <1>5, <1>6 DEF LoopInv

\* The strike of the report tells what the round of the verdict found.
LEMMA StrikeTells ==
    ASSUME NEW v \in Verdict, NEW w \in Verdict, NEW old, NEW found, NEW strike,
           w.findings = v.findings,
           w.audit = [v.audit EXCEPT ![v.round] = strike],
           strike = CurrentStrike(v),
           AuditTells(v, old),
           \A r \in Rounds \ {v.round} : found[r] = old[r],
           v.override = v.round => found[v.round] = {},
           found[v.round] \in SUBSET Findings, Marked(v, found[v.round])
    PROVE  AuditTells(w, found)
<1> SUFFICES ASSUME NEW r \in Rounds, r >= 2
             PROVE  /\ w.audit[r] = Nothing => found[r] = {}
                    /\ w.audit[r] = FALSE => \A f \in found[r] \ ScopeFindings : Accepted(w, f)
  BY DEF AuditTells
<1>1. \A f : Accepted(w, f) <=> Accepted(v, f)
  BY DEF Accepted
<1>2. v.audit \in [Rounds -> BOOLEAN \cup {Absent, Nothing}] /\ v.round \in Rounds
  BY VerdictFields
<1>3. CASE r # v.round
  <2>1. w.audit[r] = v.audit[r] /\ found[r] = old[r]
    BY <1>2, <1>3
  <2>2. v.audit[r] = Nothing => old[r] = {}
    BY DEF AuditTells
  <2>3. v.audit[r] = FALSE => \A f \in old[r] \ ScopeFindings : Accepted(v, f)
    BY DEF AuditTells
  <2> QED BY <1>1, <2>1, <2>2, <2>3
<1>4. CASE r = v.round
  <2>1. w.audit[r] = CurrentStrike(v)
    BY <1>2, <1>4
  <2>2. w.audit[r] # Nothing
    BY <2>1, AuditAssumption DEF CurrentStrike
  <2>3. ASSUME w.audit[r] = FALSE PROVE \A f \in found[r] \ ScopeFindings : Accepted(v, f)
    <3>1. ~CurrentStrike(v)
      BY <2>1, <2>3
    <3>2. CASE v.override = v.round
      BY <1>4, <3>2
    <3>3. CASE v.override # v.round
      BY <1>4, <3>1, <3>3, QuietRound
    <3> QED BY <3>2, <3>3
  <2> QED BY <1>1, <2>2, <2>3
<1> QED BY <1>3, <1>4

LEMMA StrikeDraftKeeps ==
    ASSUME LoopInv, WriteStrikeToDraft
    PROVE  LoopInv'
<1>1. /\ draft \in Verdict /\ draft # Nothing /\ report \in Report
      /\ report.round = draft.round /\ report.strike = CurrentStrike(draft)
  BY FreshIsNotCarried DEF LoopInv, ReportHolds, ReportOf, WriteStrikeToDraft, Typed, TypeOK
<1>2. UNCHANGED <<review, report, trace, traceTorn, defective, fresh, seen, noticed>>
      /\ step = "gated" /\ step' = "struck"
  BY DEF WriteStrikeToDraft
<1>3. /\ draft' \in Verdict /\ draft' # Nothing
      /\ draft'.status = draft.status /\ draft'.round = draft.round
      /\ draft'.override = draft.override /\ draft'.findings = draft.findings
      /\ draft'.crossFindings = draft.crossFindings
      /\ draft'.audit = [draft.audit EXCEPT ![draft.round] = report.strike]
  BY <1>1, StruckFields, VerdictFields DEF WriteStrikeToDraft
<1>4. Typed'
  BY <1>2, <1>3 DEF LoopInv, Typed, TypeOK
<1>5. VerdictHolds'
  BY <1>2 DEF LoopInv, VerdictHolds, AuditTells, Marked, Encoded, Accepted
<1>6. Found' = Found
  BY <1>2, <1>3 DEF Found, FreshIn
<1>7. AuditTells(draft', Found)
  <2>1. draft.round \in Rounds
    BY <1>1, VerdictFields
  <2>2. Found[draft.round] = IF draft.override = draft.round THEN {} ELSE noticed.fresh
    BY <2>1 DEF Found, FreshIn
  <2>3. noticed.fresh \in SUBSET Findings /\ Marked(draft, noticed.fresh)
    BY <1>1 DEF LoopInv, Typed, DraftHolds
  <2>4. Found[draft.round] \in SUBSET Findings /\ Marked(draft, Found[draft.round])
    BY <2>2, <2>3 DEF Marked
  <2>5. AuditTells(draft, Found)
    BY <1>1 DEF LoopInv, DraftHolds
  <2>6. draft.override = draft.round => Found[draft.round] = {}
    BY <2>2
  <2> QED BY <1>1, <1>3, <2>4, <2>5, <2>6, StrikeTells
<1>8. DraftHolds'
  <2>1. Encoded(draft.findings) /\ GoIsClean(draft.status, draft.findings)
        /\ seen \cup noticed.reported \subseteq InLedger(draft.findings) \cup draft.crossFindings
        /\ Marked(draft, noticed.fresh)
    BY <1>1 DEF LoopInv, DraftHolds
  <2>2. Marked(draft', noticed.fresh)
    BY <1>3, <2>1 DEF Marked
  <2>3. noticed' = noticed /\ seen' = seen
    BY <1>2
  <2> QED BY <1>3, <1>6, <1>7, <2>1, <2>2, <2>3 DEF DraftHolds
<1>9. ReportHolds'
  <2>1. CurrentStrike(draft') = CurrentStrike(draft)
    BY <1>3, SameStrike
  <2>2. report # Nothing
    BY <1>1, NothingAssumption
  <2> QED BY <1>1, <1>2, <1>3, <2>1, <2>2 DEF ReportHolds, ReportOf
<1>10. Passes'
  BY <1>2, <1>3 DEF LoopInv, Passes, NoQuietStreak, GoMeansFixed
<1> QED BY <1>4, <1>5, <1>8, <1>9, <1>10 DEF LoopInv

LEMMA StrikeReviewKeeps ==
    ASSUME LoopInv, WriteStrikeToReview
    PROVE  LoopInv'
<1>1. /\ review \in Verdict /\ review # NoVerdict /\ report \in Report
      /\ report.round = review.round /\ report.strike = CurrentStrike(review)
  BY DEF LoopInv, ReportHolds, ReportOf, WriteStrikeToReview, Typed, TypeOK
<1>2. UNCHANGED <<draft, report, trace, traceTorn, defective, fresh, seen, noticed>>
      /\ step' = "start"
  BY DEF WriteStrikeToReview
<1>3. /\ review' \in Verdict /\ review' # NoVerdict /\ review'.state = review.state
      /\ review'.status = review.status /\ review'.round = review.round
      /\ review'.override = review.override /\ review'.findings = review.findings
      /\ review'.crossFindings = review.crossFindings
      /\ review'.audit = [review.audit EXCEPT ![review.round] = report.strike]
  BY <1>1, StruckFields, VerdictFields DEF WriteStrikeToReview
<1>4. Typed'
  BY <1>2, <1>3 DEF LoopInv, Typed, TypeOK
<1>5. VerdictHolds'
  <2>1. FreshCycle(review') <=> FreshCycle(review)
    BY <1>3 DEF FreshCycle
  <2>2. Encoded(review'.findings)
    BY <1>1, <1>3 DEF LoopInv, VerdictHolds
  <2>3. CASE FreshCycle(review)
    BY <1>2, <2>1, <2>2, <2>3 DEF LoopInv, VerdictHolds
  <2>4. CASE ~FreshCycle(review)
    <3>1. /\ seen \subseteq InLedger(review.findings) \cup review.crossFindings
          /\ Marked(review, fresh[review.round])
          /\ review.override = review.round => fresh[review.round] = {}
          /\ AuditTells(review, fresh)
      BY <2>4 DEF LoopInv, VerdictHolds
    <3>2. fresh[review.round] \in SUBSET Findings
      BY <1>1, VerdictFields DEF LoopInv, Typed, TypeOK
    <3>3. AuditTells(review', fresh)
      BY <1>1, <1>3, <3>1, <3>2, StrikeTells
    <3>4. Marked(review', fresh[review.round])
      BY <1>3, <3>1 DEF Marked
    <3>5. fresh' = fresh /\ seen' = seen
      BY <1>2
    <3> QED BY <1>3, <2>1, <2>2, <2>4, <3>1, <3>3, <3>4, <3>5 DEF VerdictHolds
  <2> QED BY <2>3, <2>4
<1>6. DraftHolds'
  BY <1>2 DEF LoopInv, DraftHolds, AuditTells, Marked, Encoded, Accepted, Found, FreshIn
<1>7. ReportHolds' /\ Passes'
  BY <1>2 DEF ReportHolds, Passes, NoQuietStreak, GoMeansFixed
<1> QED BY <1>4, <1>5, <1>6, <1>7 DEF LoopInv

LEMMA PersistKeeps ==
    ASSUME LoopInv, Persist
    PROVE  LoopInv'
<1>1. draft # Nothing /\ draft \in Verdict
  BY FreshIsNotCarried DEF LoopInv, ReportHolds, Persist
<1>2. /\ review' = draft /\ draft' = Nothing /\ step' = "start" /\ noticed' = NothingNoticed
      /\ trace' = LinesOf(trace, draft) /\ UNCHANGED <<report, traceTorn, defective>>
  BY DEF Persist
<1>3. /\ FreshCycle(draft) => fresh' = [r \in Rounds |-> {}] /\ seen' = {}
      /\ ~FreshCycle(draft) => /\ fresh' = [fresh EXCEPT ![draft.round] = FreshIn(draft.round)]
                               /\ seen' = seen \cup noticed.reported
  BY DEF Persist, Carried
<1>4. draft.round \in Rounds /\ draft # NoVerdict /\ draft.crossFindings \subseteq Findings
  BY <1>1, VerdictFields
<1>5. /\ noticed.reported \subseteq Findings /\ noticed.fresh \subseteq Findings
      /\ fresh \in [Rounds -> SUBSET Findings]
  BY DEF LoopInv, Typed, TypeOK
<1>6. FreshIn(draft.round) = IF draft.override = draft.round THEN {} ELSE noticed.fresh
  BY DEF FreshIn
<1>7. ~FreshCycle(draft) => fresh' = Found
  BY <1>3, <1>4, <1>5 DEF Found, FreshIn
<1>8. Typed'
  <2>1. fresh' \in [Rounds -> SUBSET Findings]
    BY <1>3, <1>4, <1>5, <1>6
  <2>2. seen' \subseteq Findings
    BY <1>3, <1>5 DEF LoopInv, Typed, TypeOK
  <2>3. trace' \subseteq TraceLine
    BY <1>2 DEF LinesOf, LoopInv, Typed, TypeOK
  <2>4. noticed' \in [reported : SUBSET Findings, fresh : SUBSET Findings]
    BY <1>2 DEF NothingNoticed
  <2> QED BY <1>1, <1>2, <2>1, <2>2, <2>3, <2>4 DEF LoopInv, Typed, TypeOK
<1>9. VerdictHolds'
  <2>1. Encoded(draft.findings)
    BY <1>1 DEF LoopInv, DraftHolds
  <2>2. CASE FreshCycle(draft)
    BY <1>2, <1>3, <2>1, <2>2 DEF VerdictHolds
  <2>3. CASE ~FreshCycle(draft)
    <3>1. seen' \subseteq InLedger(draft.findings) \cup draft.crossFindings
      BY <1>1, <1>3, <2>3 DEF LoopInv, DraftHolds
    <3>2. fresh'[draft.round] = FreshIn(draft.round)
      BY <1>4, <1>7, <2>3 DEF Found
    <3>3. Marked(draft, FreshIn(draft.round))
      BY <1>1, <1>6 DEF LoopInv, DraftHolds, Marked
    <3>4. AuditTells(draft, fresh')
      BY <1>1, <1>7, <2>3 DEF LoopInv, DraftHolds
    <3> QED BY <1>2, <1>6, <2>1, <2>3, <3>1, <3>2, <3>3, <3>4 DEF VerdictHolds
  <2> QED BY <2>2, <2>3
<1>10. DraftHolds' /\ ReportHolds' /\ Passes'
  BY <1>2 DEF DraftHolds, ReportHolds, Passes, NoQuietStreak, GoMeansFixed
<1> QED BY <1>8, <1>9, <1>10 DEF LoopInv

-----------------------------------------------------------------------------
(* Between rounds *)

\* What a change of one open entry of the ledger has to keep.
LEMMA EntryChanges ==
    ASSUME LoopInv, Between, NEW f \in Findings, review.findings[f] # Nothing,
           IsOpen(review.findings[f]),
           NEW e \in Entries, review' = [review EXCEPT !.findings[f] = e],
           e.preFix => e.check \in {"sound", "vacuous"},
           \/ e.status = "ACCEPTED"
           \/ /\ e.first = review.findings[f].first /\ e.reopened = review.findings[f].reopened
              /\ e.resolved # e.first \/ e.first # review.round,
           defective' \subseteq defective,
           UNCHANGED <<draft, report, trace, traceTorn, step, fresh, seen, noticed>>
    PROVE  LoopInv'
<1>1. review # NoVerdict /\ review \in Verdict /\ ~FreshCycle(review)
  <2>1. review # NoVerdict
    BY DEF Between, NoVerdict
  <2> QED BY <2>1 DEF LoopInv, Typed, TypeOK, Between, FreshCycle
<1>2. review.findings \in Ledgers /\ review.round \in Rounds
  BY <1>1, VerdictFields
<1>3. /\ review' \in Verdict
      /\ review'.state = review.state /\ review'.status = review.status
      /\ review'.round = review.round /\ review'.override = review.override
      /\ review'.audit = review.audit /\ review'.crossFindings = review.crossFindings
      /\ review'.findings = [review.findings EXCEPT ![f] = e]
  BY <1>1, <1>2 DEF Verdict, Ledgers
<1>4. review'.findings[f] = e /\ \A g \in Findings : g # f => review'.findings[g] = review.findings[g]
  BY <1>2, <1>3 DEF Ledgers
<1>5. e # Nothing
  BY NothingAssumption
<1>6. Typed'
  BY <1>3 DEF LoopInv, Typed, TypeOK
<1>7. VerdictHolds'
  <2>1. /\ Encoded(review.findings)
        /\ seen \subseteq InLedger(review.findings) \cup review.crossFindings
        /\ Marked(review, fresh[review.round])
        /\ review.override = review.round => fresh[review.round] = {}
        /\ AuditTells(review, fresh)
    BY <1>1 DEF LoopInv, VerdictHolds
  <2>2. fresh \in [Rounds -> SUBSET Findings]
    BY DEF LoopInv, Typed, TypeOK
  <2>3. Encoded(review'.findings)
    <3>1. ASSUME NEW g \in Findings, review'.findings[g] # Nothing, review'.findings[g].preFix
          PROVE  review'.findings[g].check \in {"sound", "vacuous"}
      BY <1>4, <2>1, <3>1 DEF Encoded, InLedger
    <3> QED BY <3>1 DEF Encoded, InLedger
  <2>4. seen \subseteq InLedger(review'.findings) \cup review'.crossFindings
    BY <1>3, <1>4, <1>5, <2>1 DEF InLedger
  <2>5. Marked(review', fresh[review.round])
    <3> SUFFICES ASSUME NEW g \in fresh[review.round]
                 PROVE  /\ review'.findings[g] # Nothing
                        /\ review'.findings[g].status = "ACCEPTED" \/ Stamped(review'.findings[g], review.round)
      BY <1>3 DEF Marked
    <3>1. g \in Findings
      BY <1>2, <2>2
    <3>2. /\ review.findings[g] # Nothing
          /\ review.findings[g].status = "ACCEPTED" \/ Stamped(review.findings[g], review.round)
      BY <2>1 DEF Marked
    <3>3. CASE g # f
      BY <1>4, <3>1, <3>2, <3>3
    <3>4. CASE g = f
      BY <1>4, <1>5, <3>2, <3>4 DEF IsOpen, Stamped, SameRoundResolved
    <3> QED BY <3>3, <3>4
  <2>6. AuditTells(review', fresh)
    <3> SUFFICES ASSUME NEW r \in Rounds, r >= 2
                 PROVE  /\ review'.audit[r] = Nothing => fresh[r] = {}
                        /\ review'.audit[r] = FALSE =>
                              \A g \in fresh[r] \ ScopeFindings : Accepted(review', g)
      BY DEF AuditTells
    <3>1. /\ review.audit[r] = Nothing => fresh[r] = {}
          /\ review.audit[r] = FALSE => \A g \in fresh[r] \ ScopeFindings : Accepted(review, g)
      BY <2>1 DEF AuditTells
    <3>2. \A g \in Findings : Accepted(review, g) => Accepted(review', g)
      BY <1>4 DEF Accepted, IsOpen
    <3>3. fresh[r] \subseteq Findings
      BY <2>2
    <3> QED BY <1>3, <3>1, <3>2, <3>3
  <2>7. ~FreshCycle(review')
    BY <1>1, <1>3 DEF FreshCycle
  <2>8. fresh' = fresh /\ seen' = seen
    OBVIOUS
  <2> QED BY <1>3, <2>1, <2>3, <2>4, <2>5, <2>6, <2>7, <2>8 DEF VerdictHolds
<1>8. draft = Nothing /\ draft' = Nothing /\ step' = "start"
  BY DEF Between
<1>9. DraftHolds' /\ ReportHolds' /\ Passes'
  BY <1>8 DEF DraftHolds, ReportHolds, Passes, NoQuietStreak, GoMeansFixed
<1> QED BY <1>6, <1>7, <1>9 DEF LoopInv

LEMMA BetweenReviews ==
    ASSUME LoopInv, Between
    PROVE  review \in Verdict
<1>1. review # NoVerdict
  BY DEF Between, NoVerdict
<1> QED BY <1>1 DEF LoopInv, Typed, TypeOK

LEMMA ResolveKeeps ==
    ASSUME LoopInv, NEW f \in Findings, NEW check \in {Nothing, "sound", "vacuous", "unencodable"},
           NEW preFix \in BOOLEAN, Resolve(f, check, preFix)
    PROVE  LoopInv'
<1> DEFINE e == [review.findings[f] EXCEPT !.status = "RESOLVED", !.resolved = review.round + 1,
                                           !.check = check, !.preFix = preFix]
<1>1. Between /\ review.findings[f] # Nothing /\ IsOpen(review.findings[f])
  BY DEF Resolve
<1>2. review \in Verdict /\ review.findings \in Ledgers /\ review.round \in Rounds
  BY <1>1, BetweenReviews, VerdictFields
<1>3. review.findings[f] \in Entries
  BY <1>1, <1>2 DEF Ledgers
<1>4. review.round + 1 \in Rounds \cup {MaxRound + 1, Nothing} /\ review.round + 1 # review.round
  BY <1>2, GateAssumption DEF Rounds
<1>5. e \in Entries /\ e.first = review.findings[f].first /\ e.reopened = review.findings[f].reopened
      /\ e.resolved = review.round + 1 /\ e.check = check /\ e.preFix = preFix
  BY <1>3, <1>4 DEF Entries
<1>6. review' = [review EXCEPT !.findings[f] = e]
  BY DEF Resolve
<1>7. defective' \subseteq defective /\ (preFix => check \in {"sound", "vacuous"})
      /\ UNCHANGED <<draft, report, trace, traceTorn, step, fresh, seen, noticed>>
  BY DEF Resolve
<1> HIDE DEF e
<1>8. e.preFix => e.check \in {"sound", "vacuous"}
  BY <1>5, <1>7
<1>9. e.resolved # e.first \/ e.first # review.round
  BY <1>4, <1>5
<1> QED BY <1>1, <1>5, <1>6, <1>7, <1>8, <1>9, EntryChanges

LEMMA AcceptKeeps ==
    ASSUME LoopInv, NEW f \in Findings, Accept(f)
    PROVE  LoopInv'
<1> DEFINE e == [review.findings[f] EXCEPT !.status = "ACCEPTED"]
<1>1. Between /\ review.findings[f] # Nothing /\ IsOpen(review.findings[f])
  BY DEF Accept
<1>2. review \in Verdict /\ review.findings \in Ledgers /\ review # NoVerdict
  BY <1>1, BetweenReviews, VerdictFields
<1>3. review.findings[f] \in Entries
  BY <1>1, <1>2 DEF Ledgers
<1>4. e \in Entries /\ e.status = "ACCEPTED" /\ e.check = review.findings[f].check
      /\ e.preFix = review.findings[f].preFix
  BY <1>3 DEF Entries
<1>5. review' = [review EXCEPT !.findings[f] = e]
  BY DEF Accept
<1>6. review.findings[f].preFix => review.findings[f].check \in {"sound", "vacuous"}
  BY <1>1, <1>2 DEF LoopInv, VerdictHolds, Encoded, InLedger
<1>7. UNCHANGED <<draft, report, trace, traceTorn, step, defective, fresh, seen, noticed>>
  BY DEF Accept
<1> HIDE DEF e
<1>8. e.preFix => e.check \in {"sound", "vacuous"}
  BY <1>4, <1>6
<1> QED BY <1>1, <1>4, <1>5, <1>7, <1>8, EntryChanges

\* The tree changes only while nothing is drafted.
LEMMA TreeChanges ==
    ASSUME LoopInv, step = "start", draft = Nothing, defective' \subseteq Findings,
           UNCHANGED <<review, draft, report, trace, traceTorn, step, fresh, seen, noticed>>
    PROVE  LoopInv'
<1>1. Typed'
  BY DEF LoopInv, Typed, TypeOK
<1>2. VerdictHolds'
  BY DEF LoopInv, VerdictHolds, AuditTells, Marked, Encoded, Accepted
<1>3. DraftHolds' /\ ReportHolds' /\ Passes'
  BY DEF DraftHolds, ReportHolds, Passes, NoQuietStreak, GoMeansFixed
<1> QED BY <1>1, <1>2, <1>3 DEF LoopInv

\* A verdict whose file is damaged or repaired keeps all it says.
LEMMA FileChanges ==
    ASSUME LoopInv, NEW state \in {"valid", "malformed"}, review # NoVerdict,
           review' = [review EXCEPT !.state = state],
           UNCHANGED <<draft, report, trace, traceTorn, step, defective, fresh, seen, noticed>>
    PROVE  LoopInv'
<1>1. review \in Verdict
  BY DEF LoopInv, Typed, TypeOK
<1>2. /\ review' \in Verdict /\ review'.state # "absent"
      /\ review'.status = review.status /\ review'.round = review.round
      /\ review'.override = review.override /\ review'.audit = review.audit
      /\ review'.crossFindings = review.crossFindings /\ review'.findings = review.findings
  BY <1>1 DEF Verdict
<1>3. review' # NoVerdict /\ review.state # "absent"
  BY <1>1, <1>2, VerdictFields
<1>4. Typed'
  BY <1>2 DEF LoopInv, Typed, TypeOK
<1>5. VerdictHolds'
  <2>1. FreshCycle(review') <=> FreshCycle(review)
    BY <1>2, <1>3 DEF FreshCycle
  <2>2. \A found : (Marked(review', found) <=> Marked(review, found))
    BY <1>2 DEF Marked
  <2>3. AuditTells(review', fresh) <=> AuditTells(review, fresh)
    BY <1>2 DEF AuditTells, Accepted
  <2>4. fresh' = fresh /\ seen' = seen
    OBVIOUS
  <2> QED BY <1>2, <1>3, <2>1, <2>2, <2>3, <2>4 DEF LoopInv, VerdictHolds
<1>6. DraftHolds'
  BY DEF LoopInv, DraftHolds, AuditTells, Marked, Encoded, Accepted, Found, FreshIn
<1>7. ReportHolds'
  <2>1. CurrentStrike(review') = CurrentStrike(review)
    BY <1>2, SameStrike
  <2> QED BY <1>2, <1>3, <2>1 DEF LoopInv, ReportHolds, ReportOf
<1>8. Passes'
  BY DEF LoopInv, Passes, NoQuietStreak, GoMeansFixed, TrulyStruck, FreshIn
<1> QED BY <1>4, <1>5, <1>6, <1>7, <1>8 DEF LoopInv

-----------------------------------------------------------------------------
(* Every step *)

LEMMA InitLoop == Init => LoopInv
<1> SUFFICES ASSUME Init PROVE LoopInv
  OBVIOUS
<1>1. Typed
  BY DEF Init, Typed, TypeOK, NothingNoticed
<1>2. FreshCycle(review) /\ review = NoVerdict
  BY DEF Init, FreshCycle, NoVerdict
<1> QED BY <1>1, <1>2 DEF Init, LoopInv, VerdictHolds, DraftHolds, ReportHolds, Passes, NoQuietStreak, GoMeansFixed

LEMMA SkillKeeps == LoopInv /\ Skill => LoopInv'
<1> SUFFICES ASSUME LoopInv, Skill PROVE LoopInv'
  OBVIOUS
<1>1. ASSUME NEW events \in SUBSET (Events \ {"normalizer"}), RecordEvents(events) PROVE LoopInv'
  <2>1. trace' \subseteq TraceLine
    BY <1>1, NewLines DEF RecordEvents
  <2> QED BY <1>1, <2>1, Aside DEF RecordEvents, LoopInv, Typed, TypeOK
<1>2. CASE TraceCutShort
  BY <1>2, Aside DEF TraceCutShort, LoopInv, Typed, TypeOK
<1>3. CASE RepairTrace
  BY <1>3, Aside DEF RepairTrace, LoopInv, Typed, TypeOK
<1>4. ASSUME NEW told \in SUBSET Findings, NEW mended \in SUBSET Findings,
             NEW crossed \in SUBSET Findings, NEW verdict \in {"GO", "NO-GO"}, NEW kind \in Modes,
             NEW cap \in 0..MaxRound, NEW over \in {Nothing, Round},
             Assemble(told, mended, crossed, verdict, kind, cap, over)
      PROVE  LoopInv'
  BY <1>4, AssembleKeeps
<1>5. ASSUME NEW told \in SUBSET Findings, NEW verdict \in {"GO", "NO-GO"}, AssembleRefused(told, verdict)
      PROVE  LoopInv'
  <2>1. Open /\ trace' = trace \cup { LineOf(e) : e \in {"normalizer"} }
    BY <1>5 DEF AssembleRefused, Normalizes
  <2>2. trace' \subseteq TraceLine
    BY <2>1, NewLines, LoopAssumption
  <2> QED BY <1>5, <2>2, Aside DEF AssembleRefused, LoopInv, Typed, TypeOK
<1>6. ASSUME NEW stuck \in SUBSET Findings, GateDraft(stuck) PROVE LoopInv'
  BY <1>6, GateKeeps
<1>7. CASE RegateReview
  BY <1>7, RegateKeeps
<1>8. CASE WriteStrikeToDraft
  BY <1>8, StrikeDraftKeeps
<1>9. CASE WriteStrikeToReview
  BY <1>9, StrikeReviewKeeps
<1>10. CASE Persist
  BY <1>10, PersistKeeps
<1>11. CASE Discard
  BY <1>11, Aside DEF Discard, LoopInv, Typed, TypeOK
<1>12. CASE Crash
  BY <1>12, Aside DEF Crash, LoopInv, Typed, TypeOK
<1>13. CASE \E events \in SUBSET (Events \ {"normalizer"}) : RecordEvents(events)
  BY <1>1, <1>13
<1>14. CASE \E reported, fixed, crossed \in SUBSET Findings, status \in {"GO", "NO-GO"},
               mode \in Modes, noGo \in 0..MaxRound, override \in {Nothing, Round} :
                  Assemble(reported, fixed, crossed, status, mode, noGo, override)
  <2>1. PICK told \in SUBSET Findings, mended \in SUBSET Findings, crossed \in SUBSET Findings,
             verdict \in {"GO", "NO-GO"}, kind \in Modes, cap \in 0..MaxRound, over \in {Nothing, Round} :
                Assemble(told, mended, crossed, verdict, kind, cap, over)
    BY <1>14, Zenon
  <2> QED BY <1>4, <2>1
<1>15. CASE \E reported \in SUBSET Findings, status \in {"GO", "NO-GO"} : AssembleRefused(reported, status)
  BY <1>5, <1>15, Zenon
<1>16. CASE \E stuck \in SUBSET Findings : GateDraft(stuck)
  BY <1>6, <1>16
<1> QED BY <1>2, <1>3, <1>7, <1>8, <1>9, <1>10, <1>11, <1>12, <1>13, <1>14, <1>15, <1>16, Zenon DEF Skill

LEMMA TeamKeeps == LoopInv /\ Team => LoopInv'
<1> SUFFICES ASSUME LoopInv, Team PROVE LoopInv'
  OBVIOUS
<1>1. ASSUME NEW f \in Findings, NEW check \in {Nothing, "sound", "vacuous", "unencodable"},
             NEW preFix \in BOOLEAN, Resolve(f, check, preFix)
      PROVE  LoopInv'
  BY <1>1, ResolveKeeps
<1>2. ASSUME NEW f \in Findings, Accept(f) PROVE LoopInv'
  BY <1>2, AcceptKeeps
<1>3. ASSUME NEW f \in Findings, FixDefect(f) PROVE LoopInv'
  BY <1>3, TreeChanges DEF FixDefect, Between, LoopInv, Typed, TypeOK
<1>4. ASSUME NEW f \in Findings, Introduce(f) PROVE LoopInv'
  BY <1>4, TreeChanges DEF Introduce, LoopInv, Typed, TypeOK
<1>5. CASE Damage
  <2>1. review # NoVerdict
    BY <1>5 DEF Damage, NoVerdict
  <2> QED BY <1>5, <2>1, FileChanges DEF Damage
<1>6. CASE Repair
  <2>1. review # NoVerdict
    BY <1>6 DEF Repair, NoVerdict
  <2> QED BY <1>6, <2>1, FileChanges DEF Repair
<1> QED BY <1>1, <1>2, <1>3, <1>4, <1>5, <1>6 DEF Team

(* The audit tells which rounds struck, and the stamps of the ledger what   *)
(* each round found, in every state of the loop.                            *)
THEOREM LoopInvariant == Spec => []LoopInv
<1>1. LoopInv /\ [Next]_vars => LoopInv'
  <2> SUFFICES ASSUME LoopInv, [Next]_vars PROVE LoopInv'
    OBVIOUS
  <2>1. CASE Skill
    BY <2>1, SkillKeeps
  <2>2. CASE Team
    BY <2>2, TeamKeeps
  <2>3. CASE UNCHANGED vars
    BY <2>3, Aside DEF vars, LoopInv, Typed, TypeOK
  <2> QED BY <2>1, <2>2, <2>3 DEF Next
<1> QED BY <1>1, InitLoop, PTL DEF Spec

THEOREM LoopTyped == Spec => []TypeOK
<1>1. LoopInv => TypeOK
  BY DEF LoopInv, Typed
<1> QED BY <1>1, LoopInvariant, PTL

(* Rounds that each brought a new or regressed defect, as many as escalate, *)
(* never pass the gate of check-review-convergence.js.                      *)
THEOREM StreaksEscalate == Spec => []NoQuietStreak
<1>1. LoopInv => NoQuietStreak
  BY DEF LoopInv, Passes
<1> QED BY <1>1, LoopInvariant, PTL

(* A GO the gate lets through: everything reported in the cycle is in the   *)
(* ledger, and accepted, gone from the tree, or fixed without a commit to   *)
(* check it against.                                                        *)
THEOREM GoIsFixed == Spec => []GoMeansFixed
<1>1. LoopInv => GoMeansFixed
  BY DEF LoopInv, Passes
<1> QED BY <1>1, LoopInvariant, PTL

-----------------------------------------------------------------------------
(******************** The cross-runtime review helper **********************)

(* What an invocation reads is what the journal said last *)

Told == Cycles \cup {Nothing}
Invocation == [args : [runtime : Runtimes, sandbox : Sandboxes, cycle : Told, humanRetry : BOOLEAN],
               digest : Digests]

WellFormed ==
    /\ journal \in Seq(Line \cup {Corrupt})
    /\ torn \in BOOLEAN
    /\ torn => Len(journal) > 0 /\ journal[Len(journal)] = Corrupt
    /\ review = NoVerdict \/ review \in XVerdict
    /\ claims \in [Runtimes -> Claim \cup {Nothing}]
    /\ installed \in [Runtimes -> Versions \cup {Nothing}]
    /\ running \in [Helpers -> Invocation \cup {Nothing}]
    /\ answer.phase = "review" /\ answer.runtime \in Runtimes =>
          /\ answer.status \in CheckedStatuses \cup {"skipped-degraded", "blocked"}
          /\ answer.fault \in {"runtime", "caller", Nothing}
          /\ answer.digest \in Digests
    /\ armed \subseteq Runtimes \X Digests

\* A helper in flight belongs to the cycle under way, or was not told one.
HelpersOfThisCycle ==
    \A h \in Helpers : running[h] # Nothing => running[h].args.cycle \in {CurrentCycle, Nothing}

\* The journal runs ahead of no cycle, and a degradation is somebody's fault.
LinesOfCycles ==
    \A i \in 1..Len(journal) : journal[i] # Corrupt =>
        /\ journal[i].cycle # Nothing => journal[i].cycle <= CurrentCycle
        /\ journal[i].outcome = "degraded" => journal[i].fault \in {"runtime", "caller"}

\* Every line of this cycle was printed when it was journaled.
LinesPrinted ==
    \A i \in 1..Len(journal) : journal[i] # Corrupt /\ journal[i].cycle = CurrentCycle =>
        <<journal[i].runtime, journal[i].digest, Faulty(journal[i])>> \in printed

\* What the skill carries from a helper to the verdict was printed in this cycle.
Blames(r, c) == c # Nothing /\ c.status = "degraded" /\ ~IsCallerFault(c)
AnswerPrinted ==
    answer.phase = "review" /\ answer.status = "degraded" /\ answer.fault # "caller" =>
        <<answer.runtime, answer.digest, TRUE>> \in printed
ClaimsPrinted ==
    \A r \in Runtimes :
        /\ Blames(r, claims[r]) => <<r, claims[r].digest, TRUE>> \in printed
        /\ review # NoVerdict /\ review.status = "NO-GO" /\ Blames(r, review.cross[r]) =>
              <<r, review.cross[r].digest, TRUE>> \in printed

\* An armed breaker is in the journal: from some line on that a reader stops at, all that
\* is said of the runtime at this digest is that it failed in this cycle.
Stops(i, r, d, cycle) ==
    IF journal[i] = Corrupt THEN InsideWindow(i, cycle) ELSE Answers(journal[i], r, d)
FailingSince(i, r, d) ==
    /\ Stops(i, r, d, CurrentCycle)
    /\ \A j \in i..Len(journal) :
          Answers(journal[j], r, d) => Faulty(journal[j]) /\ journal[j].cycle = CurrentCycle
ArmedInJournal ==
    \A a \in armed : \E i \in 1..Len(journal) : FailingSince(i, a[1], a[2])

XInv ==
    /\ WellFormed /\ HelpersOfThisCycle /\ LinesOfCycles /\ LinesPrinted
    /\ AnswerPrinted /\ ClaimsPrinted /\ ArmedInJournal

-----------------------------------------------------------------------------
LEMMA LargestExists ==
    ASSUME NEW n \in Nat, NEW S, S \subseteq 1..n, S # {}
    PROVE  \E m \in S : \A j \in S : j <= m
<1> DEFINE T == { n - j : j \in S }
<1>1. T \subseteq Nat /\ T # {}
  <2>1. \A j \in S : n - j \in Nat
    OBVIOUS
  <2> QED BY <2>1
<1>2. PICK x \in T : \A y \in T : <<y, x>> \notin OpToRel(<, Nat)
  BY <1>1, NatLessThanWellFounded, WFMin
<1>3. PICK m \in S : x = n - m
  BY <1>2
<1>4. ASSUME NEW j \in S PROVE j <= m
  <2>1. ~(n - j < n - m)
    BY <1>1, <1>2, <1>3 DEF OpToRel
  <2> QED BY <2>1
<1> QED BY <1>4

\* readLatestJournalEntry finds the last of the lines a reader stops at.
LEMMA LatestIsLast ==
    ASSUME journal \in Seq(Line \cup {Corrupt}), NEW r, NEW d, NEW cycle,
           NEW i \in 1..Len(journal), Stops(i, r, d, cycle)
    PROVE  \E m \in i..Len(journal) :
              Stops(m, r, d, cycle) /\ LatestEntry(r, d, cycle) = journal[m]
<1> DEFINE stops == { k \in 1..Len(journal) : Stops(k, r, d, cycle) }
           last == CHOOSE k \in stops : \A j \in stops : j <= k
<1>1. i \in stops /\ stops \subseteq 1..Len(journal) /\ Len(journal) \in Nat
  OBVIOUS
<1>2. \E k \in stops : \A j \in stops : j <= k
  BY <1>1, LargestExists
<1>3. last \in stops /\ i <= last
  BY <1>1, <1>2
<1>4. LatestEntry(r, d, cycle) = journal[last]
  BY <1>1 DEF LatestEntry, Stops
<1> HIDE DEF last
<1> QED BY <1>1, <1>3, <1>4

LEMMA LatestIsALine ==
    ASSUME journal \in Seq(Line \cup {Corrupt}), NEW r, NEW d, NEW cycle,
           LatestEntry(r, d, cycle) # Nothing
    PROVE  \E i \in 1..Len(journal) :
              Stops(i, r, d, cycle) /\ LatestEntry(r, d, cycle) = journal[i]
<1>1. PICK i \in 1..Len(journal) : Stops(i, r, d, cycle)
  BY DEF LatestEntry, Stops
<1> QED BY <1>1, LatestIsLast

-----------------------------------------------------------------------------
(* What a helper's last step leaves in the journal *)

\* A line that a helper of this cycle journals.
Journaled(line) ==
    /\ line \in Line
    /\ line.cycle \in {CurrentCycle, Nothing}
    /\ line.outcome = "degraded" => line.fault \in {"runtime", "caller"}

\* What Finish and FinishBlocked have in common: the line is appended and printed, or the
\* append fails and either nothing is printed or a refusal to go on is.
Ends(line) ==
    \/ AppendLine(line) /\ Prints(line)
    \/ AppendFails /\ answer' = NoAnswer /\ UNCHANGED <<armed, printed>>
    \/ AppendFails /\ line.outcome = "blocked" /\ Prints(line)

LEMMA FinishEnds == ASSUME NEW line, Finish(line) PROVE Ends(line)
  BY DEF Finish, Ends

LEMMA FinishBlockedEnds ==
    ASSUME NEW line, FinishBlocked(line), line.outcome = "blocked" PROVE Ends(line)
  BY DEF FinishBlocked, Ends

LEMMA CycleIsNat ==
    ASSUME review = NoVerdict \/ review \in XVerdict
    PROVE  CurrentCycle \in Nat
<1>1. MaxCycle \in Nat /\ Cycles \subseteq Nat
  BY XBoundsAssumption DEF Cycles
<1>2. CASE review = NoVerdict
  <2>1. review.state = "absent"
    BY <1>2 DEF NoVerdict
  <2> QED BY <2>1 DEF CurrentCycle, NextCycle
<1>3. CASE review \in XVerdict
  <2>1. review.cycle \in Nat /\ review.state # "absent"
    BY <1>1, <1>3 DEF XVerdict
  <2> QED BY <2>1 DEF CurrentCycle, NextCycle
<1> QED BY <1>2, <1>3

\* The journal is as it was, or has one line more: the helper's, or an unreadable one.
LEMMA JournalGrows ==
    ASSUME WellFormed, NEW line, Journaled(line), Ends(line)
    PROVE  /\ journal' \in Seq(Line \cup {Corrupt}) /\ torn' \in BOOLEAN
           /\ torn' => Len(journal') > 0 /\ journal'[Len(journal')] = Corrupt
           /\ \/ journal' = journal
              \/ /\ Len(journal') = Len(journal) + 1
                 /\ \A i \in 1..Len(journal) : journal'[i] = journal[i]
                 /\ journal'[Len(journal')] \in {line, Corrupt}
                 /\ journal'[Len(journal')] = line => AppendLine(line) /\ Prints(line)
<1>1. line \in Line /\ Corrupt \notin Line
  BY DEF Journaled, Line, Corrupt
<1>2. \A x \in Line \cup {Corrupt} :
        /\ Append(journal, x) \in Seq(Line \cup {Corrupt})
        /\ Len(Append(journal, x)) = Len(journal) + 1
        /\ \A i \in 1..Len(journal) : Append(journal, x)[i] = journal[i]
        /\ Append(journal, x)[Len(journal) + 1] = x
  <2> DEFINE S == Line \cup {Corrupt}
  <2>1. journal \in Seq(S)
    BY DEF WellFormed
  <2> HIDE DEF S
  <2>2. \A x \in S :
          /\ Append(journal, x) \in Seq(S)
          /\ Len(Append(journal, x)) = Len(journal) + 1
          /\ \A i \in 1..Len(journal) : Append(journal, x)[i] = journal[i]
          /\ Append(journal, x)[Len(journal) + 1] = x
    BY <2>1
  <2> QED BY <2>2 DEF S
<1>3. CASE AppendLine(line) /\ Prints(line)
  <2>1. torn' = FALSE /\ (journal' = journal \/ journal' = Append(journal, line))
    BY <1>3 DEF AppendLine
  <2>2. CASE journal' = journal
    BY <1>3, <2>1, <2>2 DEF WellFormed
  <2>3. CASE journal' = Append(journal, line)
    <3>1. Len(journal) \in Nat /\ Len(journal') = Len(journal) + 1 /\ journal'[Len(journal')] = line
      BY <1>1, <1>2, <2>3 DEF WellFormed
    <3> QED BY <1>1, <1>2, <1>3, <2>1, <2>3, <3>1
  <2> QED BY <2>1, <2>2, <2>3
<1>4. CASE AppendFails
  <2>1. \/ journal' = journal /\ torn' = torn
        \/ torn' = TRUE /\ ((torn /\ journal' = journal) \/ journal' = Append(journal, Corrupt))
    BY <1>4 DEF AppendFails, AppendCutShort
  <2>2. CASE journal' = journal /\ (torn' = torn \/ (torn /\ torn' = TRUE))
    <3>1. torn' \in BOOLEAN
      BY <2>2 DEF WellFormed
    <3>2. torn' => torn
      BY <2>2, Zenon
    <3> QED BY <2>2, <3>1, <3>2 DEF WellFormed
  <2>3. CASE torn' = TRUE /\ journal' = Append(journal, Corrupt)
    <3>1. /\ Len(journal) \in Nat /\ Len(journal') = Len(journal) + 1
          /\ journal'[Len(journal')] = Corrupt /\ line # Corrupt
      BY <1>1, <1>2, <2>3 DEF WellFormed
    <3> QED BY <1>2, <2>3, <3>1
  <2> QED BY <2>1, <2>2, <2>3
<1> QED BY <1>3, <1>4 DEF Ends

LEMMA EndsKeepLines ==
    ASSUME XInv, NEW line, Journaled(line), Ends(line), UNCHANGED <<review, claims>>
    PROVE  LinesOfCycles' /\ LinesPrinted'
<1>1. CurrentCycle' = CurrentCycle /\ CurrentCycle \in Nat
  BY CycleIsNat DEF CurrentCycle, XInv, WellFormed
<1>2. line.cycle # Nothing => line.cycle <= CurrentCycle
  BY <1>1 DEF Journaled
<1>3. printed \subseteq printed'
  BY DEF Ends, Prints
<1>4. Prints(line) => <<line.runtime, line.digest, Faulty(line)>> \in printed'
  BY DEF Prints
<1>5. LinesOfCycles'
  BY <1>1, <1>2, JournalGrows DEF XInv, LinesOfCycles, Journaled, WellFormed
<1>6. ASSUME NEW i \in 1..Len(journal'), journal'[i] # Corrupt, journal'[i].cycle = CurrentCycle'
      PROVE  <<journal'[i].runtime, journal'[i].digest, Faulty(journal'[i])>> \in printed'
  <2>1. CASE i \in 1..Len(journal) /\ journal'[i] = journal[i]
    BY <1>1, <1>3, <1>6, <2>1 DEF XInv, LinesPrinted
  <2>2. CASE journal'[i] = line /\ Prints(line)
    BY <1>4, <2>2
  <2> QED BY <1>6, <2>1, <2>2, JournalGrows DEF XInv, WellFormed
<1>7. LinesPrinted'
  BY <1>6 DEF LinesPrinted, Faulty
<1> QED BY <1>5, <1>7

LEMMA EndsKeepBlame ==
    ASSUME XInv, NEW line, Journaled(line), Ends(line), UNCHANGED <<review, claims>>
    PROVE  AnswerPrinted' /\ ClaimsPrinted'
<1>1. printed \subseteq printed'
  BY DEF Ends, Prints
<1>2. ClaimsPrinted'
  BY <1>1 DEF XInv, ClaimsPrinted, Blames, IsCallerFault
<1>3. CASE answer' = NoAnswer
  <2>1. answer'.status = "failed"
    BY <1>3 DEF NoAnswer, AnswerOf
  <2> QED BY <1>2, <2>1 DEF AnswerPrinted
<1>4. CASE Prints(line)
  <2>1. /\ answer'.status = line.outcome /\ answer'.fault = line.fault
        /\ answer'.runtime = line.runtime /\ answer'.digest = line.digest
        /\ <<line.runtime, line.digest, Faulty(line)>> \in printed'
    BY <1>4 DEF Prints, AnswerOf
  <2>2. ASSUME answer'.status = "degraded", answer'.fault # "caller"
        PROVE  <<answer'.runtime, answer'.digest, TRUE>> \in printed'
    <3>1. Faulty(line) = TRUE
      BY <2>1, <2>2 DEF Journaled, Faulty
    <3> QED BY <2>1, <3>1
  <2> QED BY <1>2, <2>2 DEF AnswerPrinted
<1> QED BY <1>2, <1>3, <1>4 DEF Ends

\* A line of this cycle, or of none, closes no reader's window.
LEMMA WindowStaysOpen ==
    ASSUME XInv, NEW line, Journaled(line), Ends(line), UNCHANGED review,
           NEW i \in 1..Len(journal), NEW r, NEW d, Stops(i, r, d, CurrentCycle)
    PROVE  Stops(i, r, d, CurrentCycle)' /\ i \in 1..Len(journal')
<1>1. CurrentCycle' = CurrentCycle
  BY DEF CurrentCycle
<1>2. ~ClosesWindow(line, CurrentCycle) /\ ~ClosesWindow(Corrupt, CurrentCycle)
  BY DEF ClosesWindow, Journaled
<1>3. /\ Len(journal) \in Nat /\ Len(journal') \in Nat /\ Len(journal') >= Len(journal)
      /\ journal'[i] = journal[i]
      /\ \A j \in 1..Len(journal') :
            \/ j \in 1..Len(journal) /\ journal'[j] = journal[j]
            \/ journal'[j] \in {line, Corrupt}
  BY JournalGrows DEF XInv, WellFormed
<1>4. InsideWindow(i, CurrentCycle) => InsideWindow(i, CurrentCycle)'
  BY <1>1, <1>2, <1>3 DEF InsideWindow, ClosesWindow
<1> QED BY <1>1, <1>3, <1>4 DEF Stops, Answers, IsRefusal

LEMMA EndsKeepArmed ==
    ASSUME XInv, NEW line, Journaled(line), Ends(line), UNCHANGED <<review, claims>>
    PROVE  ArmedInJournal' /\ armed' \subseteq Runtimes \X Digests
<1> DEFINE key == <<line.runtime, line.digest>>
<1>0. CurrentCycle' = CurrentCycle
  BY DEF CurrentCycle
<1>1. line.runtime \in Runtimes /\ line.digest \in Digests /\ line \in Line /\ line # Corrupt
  BY DEF Journaled, Line, Corrupt
<1>2. \/ Prints(line) /\ ~IsRefusal(line) /\ Faulty(line) /\ line.cycle # Nothing
            /\ AppendLine(line) /\ armed' = armed \cup {key}
      \/ Prints(line) /\ ~IsRefusal(line) /\ armed' = armed \ {key}
      \/ armed' = armed /\ (Prints(line) => IsRefusal(line))
  <2>1. CASE UNCHANGED armed /\ ~Prints(line)
    BY <2>1
  <2>2. CASE Prints(line) /\ IsRefusal(line)
    <3>1. armed' = armed
      BY <2>2 DEF Prints, IsRefusal
    <3> QED BY <2>2, <3>1
  <2>3. CASE Prints(line) /\ ~IsRefusal(line) /\ Faulty(line) /\ line.cycle # Nothing
    <3>1. AppendLine(line)
      BY <1>1, <2>3 DEF Ends, Faulty, Prints, NoAnswer, AnswerOf
    <3> QED BY <2>3, <3>1 DEF Prints, IsRefusal
  <2>4. CASE Prints(line) /\ ~IsRefusal(line) /\ ~(Faulty(line) /\ line.cycle # Nothing)
    BY <2>4 DEF Prints, IsRefusal
  <2> QED BY <2>1, <2>2, <2>3, <2>4 DEF Ends
<1>3. armed' \subseteq Runtimes \X Digests
  BY <1>1, <1>2 DEF XInv, WellFormed
\* What was failing keeps failing, unless the line says otherwise of it.
<1>4. ASSUME NEW a \in armed, a \in armed' PROVE \E i \in 1..Len(journal') : FailingSince(i, a[1], a[2])'
  <2>1. PICK i \in 1..Len(journal) : FailingSince(i, a[1], a[2])
    BY <1>4 DEF XInv, ArmedInJournal
  <2>2. Stops(i, a[1], a[2], CurrentCycle)' /\ i \in 1..Len(journal')
    BY <2>1, WindowStaysOpen DEF FailingSince
  <2>3. Answers(line, a[1], a[2]) /\ Prints(line) =>
           Faulty(line) /\ line.cycle = CurrentCycle
    <3>1. a \in Runtimes \X Digests
      BY DEF XInv, WellFormed
    <3>2. Answers(line, a[1], a[2]) => a = key /\ ~IsRefusal(line)
      BY <3>1 DEF Answers
    <3> QED BY <1>2, <1>4, <3>2 DEF Journaled
  <2>4. ASSUME NEW j \in i..Len(journal'), Answers(journal'[j], a[1], a[2])
        PROVE  Faulty(journal'[j]) /\ journal'[j].cycle = CurrentCycle
    <3>1. \/ j \in i..Len(journal) /\ journal'[j] = journal[j]
          \/ journal'[j] = line /\ Prints(line)
      BY <2>4, JournalGrows DEF XInv, WellFormed, Answers
    <3> QED BY <2>1, <2>3, <2>4, <3>1 DEF FailingSince
  <2> QED BY <1>0, <2>2, <2>4 DEF FailingSince, Answers, Faulty, IsRefusal
<1>5. ASSUME key \in armed', key \notin armed PROVE \E i \in 1..Len(journal') : FailingSince(i, key[1], key[2])'
  <2>1. AppendLine(line) /\ Faulty(line) /\ ~IsRefusal(line) /\ line.cycle = CurrentCycle
    BY <1>2, <1>5 DEF Journaled
  <2>2. PICK n \in 1..Len(journal') : n = Len(journal') /\ journal'[n] \in {line, Corrupt}
    BY <1>1, <2>1 DEF AppendLine, XInv, WellFormed
  <2>3. Stops(n, key[1], key[2], CurrentCycle)'
    <3>1. \A j \in n + 1 .. Len(journal') : FALSE
      BY <2>2
    <3>2. InsideWindow(n, CurrentCycle)'
      BY <3>1 DEF InsideWindow
    <3>3. Answers(line, key[1], key[2])
      BY <1>1, <2>1 DEF Answers
    <3> QED BY <2>2, <3>2, <3>3 DEF Stops, Answers, IsRefusal
  <2>4. \A j \in n..Len(journal') : j = n
    BY <2>2
  <2> QED BY <1>0, <2>1, <2>2, <2>3, <2>4 DEF FailingSince, Answers, Faulty, IsRefusal
<1>6. \A a \in armed' : a \in armed \/ a = key
  BY <1>2
<1>7. ArmedInJournal'
  BY <1>4, <1>5, <1>6 DEF ArmedInJournal
<1> QED BY <1>3, <1>7

\* The end of an invocation keeps the invariant.
LEMMA EndsKeepAll ==
    ASSUME XInv, NEW line, Journaled(line), Ends(line), UNCHANGED <<review, claims, installed>>,
           running' \in [Helpers -> Invocation \cup {Nothing}],
           \A h \in Helpers : running'[h] # Nothing => running'[h] = running[h]
    PROVE  XInv'
<1>1. HelpersOfThisCycle'
  BY DEF XInv, HelpersOfThisCycle, CurrentCycle
<1>2. answer'.phase = "review" /\ answer'.runtime \in Runtimes =>
          /\ answer'.status \in CheckedStatuses \cup {"skipped-degraded", "blocked"}
          /\ answer'.fault \in {"runtime", "caller", Nothing}
          /\ answer'.digest \in Digests
  BY XNothingAssumption
  DEF Ends, Prints, Journaled, Line, AnswerOf, NoAnswer, CheckedStatuses
<1>3. WellFormed'
  BY <1>2, JournalGrows, EndsKeepArmed DEF XInv, WellFormed
<1> QED BY <1>1, <1>3, EndsKeepLines, EndsKeepBlame, EndsKeepArmed DEF XInv

-----------------------------------------------------------------------------
(* Each action keeps the invariant *)

LEMMA XInvInit == XInit => XInv
<1> SUFFICES ASSUME XInit PROVE XInv
  OBVIOUS
<1>1. Len(journal) = 0 /\ journal \in Seq(Line \cup {Corrupt})
  BY DEF XInit
<1>2. answer.runtime = Nothing /\ answer.status = "failed"
  BY DEF XInit, NoAnswer, AnswerOf
<1>3. WellFormed
  BY <1>1, <1>2, XNothingAssumption DEF XInit, WellFormed, NoClaims
<1>4. HelpersOfThisCycle /\ LinesOfCycles /\ LinesPrinted /\ ArmedInJournal
  BY <1>1 DEF XInit, HelpersOfThisCycle, LinesOfCycles, LinesPrinted, ArmedInJournal
<1>5. AnswerPrinted /\ ClaimsPrinted
  BY <1>2 DEF XInit, AnswerPrinted, ClaimsPrinted, Blames, NoClaims
<1> QED BY <1>3, <1>4, <1>5 DEF XInv

LEMMA DigestTyped ==
    ASSUME WellFormed, NEW r \in Runtimes, NEW s \in Sandboxes PROVE DigestOf(r, s) \in Digests
  BY DEF WellFormed, DigestOf, Digests

\* What a helper that starts may journal.
LEMMA StartJournals ==
    ASSUME XInv, NEW args \in ReviewArgs, CurrentCycle \in Cycles,
           NEW outcome \in {"healthy", "degraded", "skipped-human", "skipped-degraded", "blocked"},
           NEW fault \in {"runtime", "caller", Nothing},
           outcome = "degraded" => fault \in {"runtime", "caller"},
           NEW poison \in BOOLEAN
    PROVE  Journaled(JournalLine(args, Digest(args), outcome, fault, poison))
<1>1. Digest(args) \in Digests
  BY DigestTyped DEF Digest, ReviewArgs, XInv
<1>2. args.runtime \in Runtimes /\ args.cycle \in {CurrentCycle, Nothing}
  BY DEF ReviewArgs
<1> QED BY <1>1, <1>2 DEF Journaled, JournalLine, Line

LEMMA StartsKeep ==
    ASSUME XInv, NEW h \in Helpers, NEW args \in ReviewArgs,
           \/ SkippedByHuman(h, args) \/ VerdictMalformed(h, args) \/ JournalMalformed(h, args)
           \/ Refused(h, args) \/ VersionProbeFailed(h, args)
    PROVE  XInv'
<1>1. CurrentCycle \in Cycles /\ UNCHANGED <<review, claims, installed, running>>
  BY DEF SkippedByHuman, VerdictMalformed, JournalMalformed, Refused, VersionProbeFailed, Proceeds, Decides
<1>2. PICK line : Journaled(line) /\ Ends(line)
  <2>1. CASE SkippedByHuman(h, args)
    BY <1>1, <2>1, StartJournals, FinishEnds DEF SkippedByHuman
  <2>2. CASE VerdictMalformed(h, args)
    BY <1>1, <2>2, StartJournals, FinishBlockedEnds DEF VerdictMalformed, JournalLine
  <2>3. CASE JournalMalformed(h, args)
    BY <1>1, <2>3, StartJournals, FinishBlockedEnds DEF JournalMalformed, JournalLine
  <2>4. CASE Refused(h, args)
    BY <1>1, <2>4, StartJournals, FinishEnds DEF Refused
  <2>5. CASE VersionProbeFailed(h, args)
    BY <1>1, <2>5, StartJournals, FinishEnds DEF VersionProbeFailed
  <2> QED BY <2>1, <2>2, <2>3, <2>4, <2>5
<1> QED BY <1>1, <1>2, EndsKeepAll DEF XInv, WellFormed

\* What the journal and the verdict say stays true as long as they do.
LEMMA JournalKept ==
    ASSUME XInv, UNCHANGED <<journal, review, claims, armed, printed>>
    PROVE  LinesOfCycles' /\ LinesPrinted' /\ ClaimsPrinted' /\ ArmedInJournal'
<1>1. CurrentCycle' = CurrentCycle
  BY DEF CurrentCycle
<1>2. LinesOfCycles'
  BY <1>1 DEF XInv, LinesOfCycles
<1>3. LinesPrinted'
  BY <1>1 DEF XInv, LinesPrinted, Faulty
<1>4. ClaimsPrinted'
  BY DEF XInv, ClaimsPrinted, Blames, IsCallerFault
<1>5. ArmedInJournal'
  BY <1>1 DEF XInv, ArmedInJournal, FailingSince, Stops, InsideWindow, Answers, Faulty, IsRefusal, ClosesWindow
<1> QED BY <1>2, <1>3, <1>4, <1>5

LEMMA JournalRead ==
    ASSUME XInv, UNCHANGED <<journal, review, claims, answer, armed, printed>>
    PROVE  LinesOfCycles' /\ LinesPrinted' /\ AnswerPrinted' /\ ClaimsPrinted' /\ ArmedInJournal'
  BY JournalKept DEF XInv, AnswerPrinted

LEMMA InvokeKeeps ==
    ASSUME XInv, NEW h \in Helpers, NEW args \in ReviewArgs, Invoke(h, args) PROVE XInv'
<1>1. /\ CurrentCycle \in Cycles
      /\ running' = [running EXCEPT ![h] = [args |-> args, digest |-> Digest(args)]]
      /\ UNCHANGED <<journal, torn, review, claims, installed, answer, armed, printed>>
  BY DEF Invoke, Proceeds, Decides
<1>2. Digest(args) \in Digests
  BY DigestTyped DEF Digest, ReviewArgs, XInv
<1>3. [args |-> args, digest |-> Digest(args)] \in Invocation
  BY <1>1, <1>2 DEF Invocation, ReviewArgs, Told
<1>4. args.cycle \in {CurrentCycle, Nothing}
  BY DEF ReviewArgs
<1>5. WellFormed'
  BY <1>1, <1>3 DEF XInv, WellFormed
<1>6. HelpersOfThisCycle'
  BY <1>1, <1>4 DEF XInv, WellFormed, HelpersOfThisCycle, CurrentCycle
<1>7. LinesOfCycles' /\ LinesPrinted' /\ AnswerPrinted' /\ ClaimsPrinted' /\ ArmedInJournal'
  BY <1>1, JournalRead
<1> QED BY <1>5, <1>6, <1>7 DEF XInv

LEMMA ClassifiedTyped ==
    ASSUME NEW run \in Runs
    PROVE  /\ Classify(run).outcome \in {"healthy", "degraded"}
           /\ Classify(run).fault \in {"runtime", "caller", Nothing}
           /\ Classify(run).outcome = "degraded" => Classify(run).fault \in {"runtime", "caller"}
  BY DEF Classify, Runs

LEMMA WrapperKeeps ==
    ASSUME XInv, NEW h \in Helpers, NEW run \in Runs, WrapperEnds(h, Classify(run)) PROVE XInv'
<1> DEFINE i == running[h]
           c == Classify(run)
           line == JournalLine(i.args, i.digest, c.outcome, c.fault, FALSE)
<1>1. i \in Invocation /\ i.args.cycle \in {CurrentCycle, Nothing}
  BY DEF WrapperEnds, XInv, WellFormed, HelpersOfThisCycle
<1>2. Journaled(line)
  <2>1. i.args.runtime \in Runtimes /\ i.args.cycle \in Told /\ i.digest \in Digests
    BY <1>1 DEF Invocation
  <2> HIDE DEF i, c
  <2> QED BY <1>1, <2>1, ClassifiedTyped DEF Journaled, JournalLine, Line, Told, c, i
<1>3. Ends(line)
  BY FinishEnds DEF WrapperEnds
<1>4. UNCHANGED <<review, claims, installed>> /\ running' = [running EXCEPT ![h] = Nothing]
  BY DEF WrapperEnds
<1> HIDE DEF line
<1> QED BY <1>2, <1>3, <1>4, EndsKeepAll DEF XInv, WellFormed

\* Damage and Repair keep what the journal is read for.
LEMMA DamageKeeps == ASSUME XInv, XDamage \/ XRepair PROVE XInv'
<1>1. /\ review \in XVerdict /\ review' \in XVerdict
      /\ review'.cycle = review.cycle /\ review'.status = review.status /\ review'.cross = review.cross
      /\ review.state # "absent" /\ review'.state # "absent"
      /\ UNCHANGED <<journal, torn, claims, installed, running, answer, armed, printed>>
  BY DEF XDamage, XRepair, XInv, WellFormed, XVerdict, NoVerdict
<1>2. CurrentCycle' = CurrentCycle
  BY <1>1 DEF CurrentCycle, NextCycle
<1>3. WellFormed'
  BY <1>1 DEF XInv, WellFormed
<1>4. HelpersOfThisCycle' /\ LinesOfCycles'
  BY <1>1, <1>2 DEF XInv, HelpersOfThisCycle, LinesOfCycles
<1>5. LinesPrinted'
  BY <1>1, <1>2 DEF XInv, LinesPrinted, Faulty
<1>6. AnswerPrinted'
  BY <1>1 DEF XInv, AnswerPrinted
<1>7. ClaimsPrinted'
  <2>1. review # NoVerdict
    BY <1>1 DEF NoVerdict
  <2> QED BY <1>1, <2>1 DEF XInv, ClaimsPrinted, Blames, IsCallerFault
<1>8. ArmedInJournal'
  BY <1>1, <1>2 DEF XInv, ArmedInJournal, FailingSince, Stops, InsideWindow, Answers, Faulty, IsRefusal, ClosesWindow
<1> QED BY <1>3, <1>4, <1>5, <1>6, <1>7, <1>8 DEF XInv

\* What the skill writes of a probe: what a helper printed, or one that never was.
LEMMA ClaimKeeps ==
    ASSUME XInv, NEW r \in Runtimes, NEW status \in CheckedStatuses \cup {"skipped-degraded", "blocked"},
           NEW fault \in {"runtime", "caller", Nothing}, NEW d \in Digests, ClaimNow(r, status, fault, d),
           status = "degraded" /\ fault # "caller" => <<r, d, TRUE>> \in printed
    PROVE  XInv'
<1> DEFINE claim == [status |-> status, digest |-> d, fault |-> fault, round |-> NextRound(review)]
<1>1. /\ NextRound(review) \in Rounds
      /\ claims' = [claims EXCEPT ![r] = claim] /\ answer' = NoAnswer
      /\ UNCHANGED <<journal, torn, review, installed, running, armed, printed>>
  BY DEF ClaimNow, Open
<1>2. claim \in Claim
  BY <1>1 DEF Claim
<1>3. answer'.runtime = Nothing /\ answer'.status = "failed"
  BY <1>1 DEF NoAnswer, AnswerOf
<1>4. WellFormed'
  BY <1>1, <1>2, <1>3, XNothingAssumption DEF XInv, WellFormed
<1>5. CurrentCycle' = CurrentCycle
  BY <1>1 DEF CurrentCycle
<1>6. HelpersOfThisCycle' /\ LinesOfCycles'
  BY <1>1, <1>5 DEF XInv, HelpersOfThisCycle, LinesOfCycles
<1>7. LinesPrinted'
  BY <1>1, <1>5 DEF XInv, LinesPrinted, Faulty
<1>8. AnswerPrinted'
  BY <1>3 DEF AnswerPrinted
<1>9. ClaimsPrinted'
  <2>1. claim.status = status /\ claim.fault = fault /\ claim.digest = d
    OBVIOUS
  <2> HIDE DEF claim
  <2>2. \A q \in Runtimes : claims'[q] = IF q = r THEN claim ELSE claims[q]
    BY <1>1 DEF XInv, WellFormed
  <2>3. ASSUME NEW q \in Runtimes, Blames(q, claims'[q])
        PROVE  <<q, claims'[q].digest, TRUE>> \in printed
    <3>1. CASE q = r
      BY <2>1, <2>2, <2>3, <3>1 DEF Blames, IsCallerFault
    <3>2. CASE q # r
      BY <2>2, <2>3, <3>2 DEF XInv, ClaimsPrinted
    <3> QED BY <3>1, <3>2
  <2>4. \A q \in Runtimes : Blames(q, claims[q])' => <<q, claims'[q].digest, TRUE>> \in printed'
    BY <1>1, <2>3 DEF Blames, IsCallerFault
  <2> QED BY <1>1, <2>4 DEF XInv, ClaimsPrinted, Blames, IsCallerFault
<1>10. ArmedInJournal'
  BY <1>1, <1>5 DEF XInv, ArmedInJournal, FailingSince, Stops, InsideWindow, Answers, Faulty, IsRefusal, ClosesWindow
<1> QED BY <1>4, <1>6, <1>7, <1>8, <1>9, <1>10 DEF XInv

LEMMA RecordKeeps == ASSUME XInv, NEW r \in Runtimes, RecordProbe(r) PROVE XInv'
<1>1. answer.phase = "review" /\ answer.runtime = r /\ ClaimNow(r, answer.status, answer.fault, answer.digest)
  BY DEF RecordProbe
<1>2. /\ answer.status \in CheckedStatuses \cup {"skipped-degraded", "blocked"}
      /\ answer.fault \in {"runtime", "caller", Nothing} /\ answer.digest \in Digests
  BY <1>1 DEF XInv, WellFormed
<1>3. answer.status = "degraded" /\ answer.fault # "caller" => <<r, answer.digest, TRUE>> \in printed
  BY <1>1 DEF XInv, AnswerPrinted
<1> QED BY <1>1, <1>2, <1>3, ClaimKeeps

LEMMA InventKeeps ==
    ASSUME XInv, NEW r \in Runtimes, NEW s \in Sandboxes, InventProbe(r, s) PROVE XInv'
  BY ClaimKeeps, DigestTyped DEF InventProbe, CheckedStatuses, XInv

\* Within a cycle the skill's verdict carries everything over; a GO ends the cycle.
LEMMA XPersistKeeps ==
    ASSUME XInv, NEW status \in {"GO", "NO-GO"}, XPersist(status) PROVE XInv'
<1>1. /\ CurrentCycle \in Cycles /\ NextRound(review) \in Rounds
      /\ \A h \in Helpers : running[h] = Nothing
      /\ review' = [state |-> "valid", status |-> status, cycle |-> CurrentCycle,
                    round |-> NextRound(review), cross |-> claims]
      /\ answer' = NoAnswer /\ UNCHANGED <<journal, torn, installed, running>>
  BY DEF XPersist, Open, CurrentCycle
<1>2. review' \in XVerdict /\ review'.state = "valid" /\ review'.status = status /\ review'.cross = claims
  BY <1>1 DEF XVerdict, XInv, WellFormed
<1>3. answer'.runtime = Nothing /\ answer'.status = "failed"
  BY <1>1 DEF NoAnswer, AnswerOf
<1>4. HelpersOfThisCycle' /\ AnswerPrinted'
  BY <1>1, <1>3 DEF HelpersOfThisCycle, AnswerPrinted
<1>5. CurrentCycle \in Nat
  BY CycleIsNat DEF XInv, WellFormed
<1>6. CASE status = "GO"
  <2>1. CurrentCycle' = CurrentCycle + 1
    BY <1>1, <1>6 DEF CurrentCycle, NextCycle
  <2>2. claims' = NoClaims /\ armed' = {} /\ printed' = {}
    BY <1>2, <1>6 DEF XPersist, Carried, FreshCycle
  <2>3. WellFormed'
    BY <1>1, <1>2, <1>3, <2>2, XNothingAssumption DEF XInv, WellFormed, NoClaims
  <2>4. \A i \in 1..Len(journal) : journal[i] # Corrupt =>
            journal[i].cycle = Nothing \/ journal[i].cycle \in Nat
    BY XBoundsAssumption DEF XInv, WellFormed, Line, Cycles
  <2>5. LinesOfCycles'
    BY <1>1, <1>5, <2>1, <2>4 DEF XInv, LinesOfCycles
  <2>6. LinesPrinted'
    BY <1>1, <1>5, <2>1, <2>4, XNothingAssumption DEF XInv, LinesOfCycles, LinesPrinted
  <2>7. ClaimsPrinted'
    BY <1>2, <1>6, <2>2 DEF ClaimsPrinted, NoClaims, Blames
  <2>8. ArmedInJournal'
    BY <2>2 DEF ArmedInJournal
  <2> QED BY <1>4, <2>3, <2>5, <2>6, <2>7, <2>8 DEF XInv
<1>7. CASE status = "NO-GO"
  <2>1. CurrentCycle' = CurrentCycle
    BY <1>1, <1>7 DEF CurrentCycle, NextCycle
  <2>2. UNCHANGED <<claims, armed, printed>>
    BY <1>2, <1>7 DEF XPersist, Carried, FreshCycle
  <2>3. WellFormed'
    BY <1>1, <1>2, <1>3, <2>2, XNothingAssumption DEF XInv, WellFormed
  <2>4. LinesOfCycles'
    BY <1>1, <2>1 DEF XInv, LinesOfCycles
  <2>5. LinesPrinted'
    BY <1>1, <2>1, <2>2 DEF XInv, LinesPrinted, Faulty
  <2>6. ClaimsPrinted'
    BY <1>2, <2>2 DEF XInv, ClaimsPrinted, Blames, IsCallerFault
  <2>7. ArmedInJournal'
    BY <1>1, <2>1, <2>2
    DEF XInv, ArmedInJournal, FailingSince, Stops, InsideWindow, Answers, Faulty, IsRefusal, ClosesWindow
  <2> QED BY <1>4, <2>3, <2>4, <2>5, <2>6, <2>7 DEF XInv
<1> QED BY <1>6, <1>7

LEMMA XInvStep == XInv /\ [XNext]_xvars => XInv'
<1> SUFFICES ASSUME XInv, [XNext]_xvars PROVE XInv'
  OBVIOUS
<1>1. ASSUME NEW h \in Helpers, NEW args \in ReviewArgs,
             \/ SkippedByHuman(h, args) \/ VerdictMalformed(h, args) \/ JournalMalformed(h, args)
             \/ Refused(h, args) \/ VersionProbeFailed(h, args)
      PROVE  XInv'
  BY <1>1, StartsKeep
<1>2. ASSUME NEW h \in Helpers, NEW args \in ReviewArgs, Invoke(h, args) PROVE XInv'
  BY <1>2, InvokeKeeps
<1>3. ASSUME NEW h \in Helpers, Killed(h) PROVE XInv'
  <2>1. /\ running' = [running EXCEPT ![h] = Nothing]
        /\ UNCHANGED <<journal, torn, review, claims, installed, answer, armed, printed>>
    BY <1>3 DEF Killed
  <2>2. WellFormed'
    BY <2>1 DEF XInv, WellFormed
  <2>3. HelpersOfThisCycle'
    BY <2>1 DEF XInv, WellFormed, HelpersOfThisCycle, CurrentCycle
  <2> QED BY <2>1, <2>2, <2>3, JournalRead DEF XInv
<1>4. ASSUME NEW h \in Helpers, NEW run \in Runs, WrapperEnds(h, Classify(run)) PROVE XInv'
  BY <1>4, WrapperKeeps
<1>5. ASSUME NEW r \in Runtimes, NEW retry \in BOOLEAN, QaAvailability(r, retry) PROVE XInv'
  <2>1. /\ answer'.phase = "qa"
        /\ UNCHANGED <<journal, torn, review, claims, installed, running, armed, printed>>
    BY <1>5 DEF QaAvailability, AnswerOf
  <2>2. WellFormed' /\ HelpersOfThisCycle' /\ AnswerPrinted'
    BY <2>1 DEF XInv, WellFormed, HelpersOfThisCycle, CurrentCycle, AnswerPrinted
  <2> QED BY <2>1, <2>2, JournalKept DEF XInv
<1>6. ASSUME NEW r \in Runtimes, NEW s \in Sandboxes, QaVerdictMalformed(r, s) PROVE XInv'
  <2> DEFINE line == JournalLine([runtime |-> r, cycle |-> Nothing], DigestOf(r, s), "blocked", Nothing, FALSE)
  <2>1. DigestOf(r, s) \in Digests
    BY DigestTyped DEF XInv
  <2>2. Journaled(line) /\ line.outcome = "blocked"
    BY <2>1 DEF Journaled, JournalLine, Line
  <2>3. FinishBlocked(line) /\ UNCHANGED <<review, claims, installed, running>>
    BY <1>6 DEF QaVerdictMalformed
  <2> HIDE DEF line
  <2> QED BY <2>2, <2>3, FinishBlockedEnds, EndsKeepAll DEF XInv, WellFormed
<1>7. ASSUME NEW r \in Runtimes, NEW v \in Versions \cup {Nothing}, Upgrade(r, v) PROVE XInv'
  <2>1. /\ installed' = [installed EXCEPT ![r] = v]
        /\ UNCHANGED <<journal, torn, review, claims, running, answer, armed, printed>>
    BY <1>7 DEF Upgrade
  <2>2. WellFormed' /\ HelpersOfThisCycle'
    BY <2>1 DEF XInv, WellFormed, HelpersOfThisCycle, CurrentCycle
  <2> QED BY <2>1, <2>2, JournalRead DEF XInv
<1>8. ASSUME NEW r \in Runtimes, NEW s \in Sandboxes, InventProbe(r, s) PROVE XInv'
  BY <1>8, InventKeeps
<1>9. ASSUME NEW status \in {"GO", "NO-GO"}, XPersist(status) PROVE XInv'
  BY <1>9, XPersistKeeps
<1>10. CASE XDamage \/ XRepair
  BY <1>10, DamageKeeps
<1>11. CASE UNCHANGED xvars
  <2>1. WellFormed' /\ HelpersOfThisCycle'
    BY <1>11 DEF xvars, XInv, WellFormed, HelpersOfThisCycle, CurrentCycle
  <2> QED BY <1>11, <2>1, JournalRead DEF xvars, XInv
<1>12. ASSUME NEW r \in Runtimes, RecordProbe(r) PROVE XInv'
  BY <1>12, RecordKeeps
<1> QED
  BY <1>1, <1>2, <1>3, <1>4, <1>5, <1>6, <1>7, <1>8, <1>9, <1>10, <1>11, <1>12 DEF XNext

THEOREM HelperInvariant == XSpec => []XInv
  BY XInvInit, XInvStep, PTL DEF XSpec

\* The files and the helpers' state are well formed.
THEOREM HelperTyped == XSpec => []XTypeOK
<1>1. XInv => XTypeOK
  BY DEF XInv, WellFormed, XTypeOK, Invocation
<1> QED BY <1>1, HelperInvariant, PTL

-----------------------------------------------------------------------------
(* What the helper promises *)

\* A helper that journals prints what it journals, or nothing.
LEMMA EndsPrint ==
    ASSUME NEW line, Ends(line)
    PROVE  /\ answer'.status \in {line.outcome, "failed"}
           /\ answer'.status # "failed" => answer'.runtime = line.runtime /\ answer'.digest = line.digest
  BY DEF Ends, Prints, NoAnswer, AnswerOf

\* shouldRefuseDegraded goes by a fault of the runtime that was printed in this cycle.
LEMMA RefusalsHaveReasons ==
    ASSUME XInv, NEW args \in ReviewArgs, review.state # "malformed",
           ShouldRefuse(args, Digest(args), Entry(args))
    PROVE  <<args.runtime, Digest(args), TRUE>> \in printed
<1> DEFINE r == args.runtime
           d == Digest(args)
<1>1. r \in Runtimes /\ args.cycle \in {CurrentCycle, Nothing}
  BY DEF ReviewArgs
<1>2. CASE VerdictRefuses(r, d)
  <2>1. review # NoVerdict /\ review.status = "NO-GO" /\ Blames(r, review.cross[r]) /\ review.cross[r].digest = d
    BY <1>2 DEF VerdictRefuses, NoVerdict, Blames
  <2> HIDE DEF r, d
  <2> QED BY <1>1, <2>1 DEF XInv, ClaimsPrinted, r, d
<1>3. CASE JournalRefuses(Entry(args), args.cycle)
  <2>1. PICK i \in 1..Len(journal) : Stops(i, r, d, args.cycle) /\ Entry(args) = journal[i]
    BY <1>3, LatestIsALine DEF JournalRefuses, Entry, Digest, XInv, WellFormed
  <2>2. /\ journal[i].outcome = "degraded" /\ journal[i].fault # "caller" /\ journal[i].cycle = CurrentCycle
    BY <1>1, <1>3, <2>1 DEF JournalRefuses, IsCallerFault
  <2>3. journal[i] # Corrupt
    BY <2>2 DEF Corrupt
  <2>4. journal[i].runtime = r /\ journal[i].digest = d
    BY <2>1, <2>3 DEF Stops, Answers
  <2>5. Faulty(journal[i]) = TRUE
    BY <2>2, <2>3 DEF XInv, LinesOfCycles, Faulty
  <2>6. <<journal[i].runtime, journal[i].digest, Faulty(journal[i])>> \in printed
    BY <2>2, <2>3 DEF XInv, LinesPrinted
  <2> QED BY <2>4, <2>5, <2>6
<1> QED BY <1>2, <1>3 DEF ShouldRefuse

\* A probe is refused only when a fault of the runtime, never one of the caller, was
\* reported at this digest in this cycle.
THEOREM RefusalsJustified == XSpec => RefusalJustified
<1> DEFINE Refuses == answer' # answer /\ answer'.phase = "review" /\ answer'.status = "skipped-degraded"
           Justified == <<answer'.runtime, answer'.digest, TRUE>> \in printed
<1>1. ASSUME XInv, [XNext]_xvars, Refuses PROVE Justified
  <2> USE <1>1
  <2>1. ASSUME NEW h \in Helpers, NEW args \in ReviewArgs,
               \/ SkippedByHuman(h, args) \/ VerdictMalformed(h, args) \/ JournalMalformed(h, args)
               \/ VersionProbeFailed(h, args)
        PROVE  FALSE
    <3>1. PICK line : Ends(line) /\ line.outcome \in {"skipped-human", "blocked", "degraded"}
      <4>1. CASE SkippedByHuman(h, args)
        BY <4>1, FinishEnds DEF SkippedByHuman, JournalLine
      <4>2. CASE VerdictMalformed(h, args)
        BY <4>2, FinishBlockedEnds DEF VerdictMalformed, JournalLine
      <4>3. CASE JournalMalformed(h, args)
        BY <4>3, FinishBlockedEnds DEF JournalMalformed, JournalLine
      <4>4. CASE VersionProbeFailed(h, args)
        BY <4>4, FinishEnds DEF VersionProbeFailed, JournalLine
      <4> QED BY <2>1, <4>1, <4>2, <4>3, <4>4
    <3> QED BY <3>1, EndsPrint
  <2>2. ASSUME NEW h \in Helpers, NEW args \in ReviewArgs, Refused(h, args) PROVE Justified
    <3> DEFINE line == JournalLine(args, Digest(args), "skipped-degraded", Nothing, FALSE)
    <3>1. Ends(line) /\ line.runtime = args.runtime /\ line.digest = Digest(args)
      BY <2>2, FinishEnds DEF Refused, JournalLine
    <3>2. <<args.runtime, Digest(args), TRUE>> \in printed
      BY <2>2, RefusalsHaveReasons DEF Refused, Proceeds
    <3> HIDE DEF line
    <3> QED BY <3>1, <3>2, EndsPrint
  <2>3. ASSUME NEW h \in Helpers, NEW run \in Runs, WrapperEnds(h, Classify(run)) PROVE FALSE
    <3> DEFINE line == JournalLine(running[h].args, running[h].digest, Classify(run).outcome, Classify(run).fault, FALSE)
    <3>1. Ends(line) /\ line.outcome = Classify(run).outcome
      BY <2>3, FinishEnds DEF WrapperEnds, JournalLine
    <3> HIDE DEF line
    <3> QED BY <3>1, EndsPrint, ClassifiedTyped
  <2>4. ASSUME NEW r \in Runtimes, NEW s \in Sandboxes, QaVerdictMalformed(r, s) PROVE FALSE
    <3> DEFINE line == JournalLine([runtime |-> r, cycle |-> Nothing], DigestOf(r, s), "blocked", Nothing, FALSE)
    <3>1. Ends(line) /\ line.outcome = "blocked"
      BY <2>4, FinishBlockedEnds DEF QaVerdictMalformed, JournalLine
    <3> HIDE DEF line
    <3> QED BY <3>1, EndsPrint
  <2>5. ASSUME NEW r \in Runtimes, NEW retry \in BOOLEAN, QaAvailability(r, retry) PROVE FALSE
    BY <2>5 DEF QaAvailability, AnswerOf
  <2>6. ASSUME NEW r \in Runtimes, NEW s \in Sandboxes, InventProbe(r, s) PROVE FALSE
    BY <2>6 DEF InventProbe, ClaimNow, NoAnswer, AnswerOf
  <2>7. ASSUME NEW status \in {"GO", "NO-GO"}, XPersist(status) PROVE FALSE
    BY <2>7 DEF XPersist, NoAnswer, AnswerOf
  <2>8. /\ \A h \in Helpers, args \in ReviewArgs : ~Invoke(h, args)
        /\ \A h \in Helpers : ~Killed(h)
        /\ \A r \in Runtimes, v \in Versions \cup {Nothing} : ~Upgrade(r, v)
        /\ ~XDamage /\ ~XRepair
    BY DEF Invoke, Killed, Upgrade, XDamage, XRepair
  <2>9. \A r \in Runtimes : ~RecordProbe(r)
    BY DEF RecordProbe, ClaimNow, NoAnswer, AnswerOf
  <2> QED
    BY <2>1, <2>2, <2>3, <2>4, <2>5, <2>6, <2>7, <2>8, <2>9 DEF XNext, xvars
<1>2. XInv /\ [XNext]_xvars => [Refuses => Justified]_xvars
  BY <1>1
<1> QED BY <1>2, HelperInvariant, PTL DEF XSpec, RefusalJustified

\* Once a fault of the runtime is the last thing reported at a digest in this cycle, by an
\* invocation that knew the cycle, no other one that does asks the runtime again unless a
\* human says so.
THEOREM BreakerHolds == XSpec => ArmedStaysArmed
<1> DEFINE Allowed(i) ==
               \/ i.args.humanRetry \/ i.args.cycle = Nothing
               \/ <<i.args.runtime, i.digest>> \notin armed
<1>1. ASSUME XInv, NEW h \in Helpers, NEW args \in ReviewArgs, Invoke(h, args),
             ~args.humanRetry, args.cycle # Nothing
      PROVE  <<args.runtime, Digest(args)>> \notin armed
  <2> DEFINE r == args.runtime
             d == Digest(args)
  <2>1. args.cycle = CurrentCycle /\ ~Malformed(Entry(args)) /\ ~JournalRefuses(Entry(args), args.cycle)
    BY <1>1 DEF ReviewArgs, Invoke, Proceeds, ShouldRefuse
  <2>2. ASSUME <<r, d>> \in armed PROVE FALSE
    <3>1. PICK i \in 1..Len(journal) : FailingSince(i, r, d)
      BY <1>1, <2>2 DEF XInv, ArmedInJournal
    <3>2. PICK m \in i..Len(journal) : Stops(m, r, d, CurrentCycle) /\ LatestEntry(r, d, CurrentCycle) = journal[m]
      BY <1>1, <3>1, LatestIsLast DEF FailingSince, XInv, WellFormed
    <3>3. Entry(args) = journal[m] /\ journal[m] \in Line \cup {Corrupt} /\ journal[m] # Nothing
      <4>1. m \in 1..Len(journal)
        BY <1>1, <3>1, <3>2 DEF XInv, WellFormed
      <4>2. journal[m] \in Line \cup {Corrupt}
        BY <1>1, <4>1 DEF XInv, WellFormed
      <4> QED BY <2>1, <3>2, <4>2, XLinesAssumption DEF Entry, Digest
    <3>4. CASE journal[m] = Corrupt
      BY <2>1, <3>3, <3>4 DEF Malformed
    <3>5. CASE journal[m] # Corrupt
      <4>1. Answers(journal[m], r, d)
        BY <3>2, <3>5 DEF Stops
      <4>2. Faulty(journal[m]) /\ journal[m].cycle = CurrentCycle
        BY <3>1, <3>2, <4>1 DEF FailingSince
      <4> QED BY <1>1, <2>1, <3>3, <4>2 DEF JournalRefuses, Faulty, IsCallerFault
    <3> QED BY <3>4, <3>5
  <2> QED BY <2>2
<1>2. ASSUME XInv, [XNext]_xvars, NEW h \in Helpers, running[h] = Nothing, running'[h] # Nothing
      PROVE  Allowed(running'[h])
  <2>1. PICK g \in Helpers, args \in ReviewArgs : Invoke(g, args)
    <3>1. \A g \in Helpers : ~Killed(g) /\ \A run \in Runs : ~WrapperEnds(g, Classify(run))
      BY <1>2 DEF WrapperEnds, Killed, XInv, WellFormed
    <3>2. running' # running
      BY <1>2
    <3> QED
      BY <1>2, <3>1, <3>2
      DEF XNext, xvars, SkippedByHuman, VerdictMalformed, JournalMalformed, Refused, VersionProbeFailed,
          QaAvailability, QaVerdictMalformed, Upgrade, RecordProbe, InventProbe, ClaimNow, XPersist,
          XDamage, XRepair
  <2>2. running' = [running EXCEPT ![g] = [args |-> args, digest |-> Digest(args)]]
    BY <2>1 DEF Invoke
  <2>3. running'[h].args = args /\ running'[h].digest = Digest(args)
    BY <1>2, <2>2 DEF XInv, WellFormed
  <2> QED BY <1>1, <1>2, <2>1, <2>3
<1>3. XInv /\ [XNext]_xvars =>
         [\A h \in Helpers : running[h] = Nothing /\ running'[h] # Nothing => Allowed(running'[h])]_xvars
  BY <1>2
<1> QED BY <1>3, HelperInvariant, PTL DEF XSpec, ArmedStaysArmed

\* The probes a GO claims for its own round are ones that were made, and told what they
\* found, in its cycle.
THEOREM ClaimsJournaled == XSpec => ClaimsAreJournaled
<1> DEFINE GoWritten == review' # review /\ review'.state = "valid" /\ review.state # "malformed" /\ review'.status = "GO"
           ClaimsPrintedNow ==
               \A r \in Runtimes : LET c == review'.cross[r] IN
                  c # Nothing /\ c.round = review'.round /\ c.status \in CheckedStatuses
                  => \E p \in printed : p[1] = r /\ p[2] = c.digest
<1>1. ASSUME XInv, [XNext]_xvars, GoWritten PROVE ClaimsPrintedNow
  <2>1. XPersist("GO")
    <3>1. ~XDamage /\ ~XRepair
      BY <1>1 DEF XDamage, XRepair, XInv, WellFormed, XVerdict, NoVerdict
    <3>2. ASSUME NEW status \in {"GO", "NO-GO"}, XPersist(status) PROVE status = "GO"
      BY <1>1, <3>2 DEF XPersist
    <3> QED
      BY <1>1, <3>1, <3>2
      DEF XNext, xvars, SkippedByHuman, VerdictMalformed, JournalMalformed, Refused, VersionProbeFailed,
          QaAvailability, QaVerdictMalformed, Upgrade, RecordProbe, InventProbe, ClaimNow, Killed, Invoke, WrapperEnds
  <2>2. /\ review'.cross = claims /\ review'.round = NextRound(review)
        /\ ~UnattestedProbe(claims, CurrentCycle, NextRound(review))
    BY <2>1 DEF XPersist
  <2>3. ASSUME NEW r \in Runtimes, claims[r] # Nothing, claims[r].round = NextRound(review),
               claims[r].status \in CheckedStatuses
        PROVE  \E p \in printed : p[1] = r /\ p[2] = claims[r].digest
    <3>1. PICK i \in 1..Len(journal) : Corroborates(journal[i], r, claims[r], CurrentCycle)
      BY <2>2, <2>3 DEF UnattestedProbe
    <3>2. <<journal[i].runtime, journal[i].digest, Faulty(journal[i])>> \in printed
      BY <1>1, <3>1 DEF XInv, LinesPrinted, Corroborates
    <3> QED BY <3>1, <3>2 DEF Corroborates
  <2> QED BY <2>2, <2>3
<1>2. XInv /\ [XNext]_xvars => [GoWritten => ClaimsPrintedNow]_xvars
  BY <1>1
<1> QED BY <1>2, HelperInvariant, PTL DEF XSpec, ClaimsAreJournaled

-----------------------------------------------------------------------------
(****************** The formal verification autopilot **********************)

\* The places of the script before a skill update is reviewed.
BeforeReviews == Waiting \ {"skill-review", "apply", "rewrite", "feedback", "log", "self-adapt"}

\* The gate in front of the commit: what a review looks at has passed the check, or is
\* the revision of what has; what is about to be committed is what was approved.
GateHolds ==
    /\ pc = "review" => passed = spec
    /\ pc = "revise" => passed # NoVersion
    /\ pc = "second-review" => passed # NoVersion /\ revised
    /\ pc \in {"cmbt", "commit"} =>
          /\ gate = "GO" /\ approved = spec
          /\ passed # NoVersion
          /\ passed = spec \/ revised

\* The loop over skill reviews: there is a review left for whoever waits for one, and the
\* text about to be applied is the one endorsed.
LoopHolds ==
    /\ pc \in BeforeReviews => attempt = 0
    /\ pc \in {"skill-review", "rewrite"} => attempt < MaxAttempts
    /\ pc = "apply" => endorsed = content

AInv == PTypeOK /\ GateHolds /\ LoopHolds

-----------------------------------------------------------------------------
LEMMA PilotInit == PInit => AInv
<1> SUFFICES ASSUME PInit PROVE AInv
  OBVIOUS
<1>1. PTypeOK
  <2>1. revised \in BOOLEAN
    BY DEF PInit
  <2>2. applied \in [0..MaxTick -> SUBSET (0..MaxAttempts)]
    BY DEF PInit
  <2> QED
    BY <2>1, <2>2, BoundsAssumption DEF PInit, PTypeOK, Waiting, SpecVersions
<1> QED
  BY <1>1, BoundsAssumption DEF PInit, AInv, GateHolds, LoopHolds

\* What an edit leaves is a version.
LEMMA EditType ==
    ASSUME spec \in SpecVersions, EditSpec PROVE spec' \in SpecVersions
  BY BoundsAssumption DEF EditSpec, SpecVersions

(* Each action keeps the types. *)
LEMMA TypesKept == AInv /\ [PNext]_pvars => PTypeOK'
<1> SUFFICES ASSUME AInv, [PNext]_pvars PROVE PTypeOK'
  OBVIOUS
<1> USE BoundsAssumption DEF Tree, gateVars, skillVars
<1>1. CASE Plan \/ Baseline \/ Cmbt \/ Feedback \/ Throw
  BY <1>1 DEF AInv, PTypeOK, Waiting, Plan, Baseline, Cmbt, Feedback, Throw
<1>2. CASE Execute
  BY <1>2, EditType DEF AInv, PTypeOK, Waiting, Execute
<1>3. ASSUME NEW ok \in BOOLEAN, Check(ok) PROVE PTypeOK'
  BY <1>3 DEF AInv, PTypeOK, Waiting, Check
<1>4. CASE LinkFix \/ Revise
  BY <1>4, EditType DEF AInv, PTypeOK, Waiting, LinkFix, Revise
<1>5. ASSUME NEW v \in Verdicts, Decide(v) PROVE PTypeOK'
  BY <1>5 DEF AInv, PTypeOK, Waiting, Decide
<1>6. ASSUME NEW v \in Verdicts, Review(v) \/ SecondReview(v) PROVE PTypeOK'
  BY <1>5, <1>6 DEF AInv, PTypeOK, Waiting, Review, SecondReview
<1>7. ASSUME NEW v \in Verdicts, SkillReview(v) PROVE PTypeOK'
  BY <1>7 DEF AInv, PTypeOK, LoopHolds, Waiting, SkillReview
<1>8. CASE Commit
  BY <1>8 DEF AInv, PTypeOK, Waiting, Commit
<1>9. CASE Propose
  BY <1>9 DEF AInv, PTypeOK, Waiting, Propose
<1>10. CASE Apply
  BY <1>10 DEF AInv, PTypeOK, Waiting, Apply
<1>11. CASE Rewrite
  BY <1>11 DEF AInv, PTypeOK, LoopHolds, Waiting, Rewrite
<1>12. CASE NextTick
  <2>1. revised' \in BOOLEAN
    BY <1>12 DEF NextTick
  <2>2. tick' \in 0..MaxTick /\ attempt' \in 0..MaxAttempts /\ content' \in 0..MaxAttempts
    BY <1>12 DEF AInv, PTypeOK, NextTick
  <2> QED
    BY <1>12, <2>1, <2>2 DEF AInv, PTypeOK, Waiting, NextTick
<1>13. CASE UNCHANGED pvars
  BY <1>13 DEF AInv, PTypeOK, pvars
<1> QED
  BY <1>1, <1>2, <1>3, <1>4, <1>6, <1>7, <1>8, <1>9, <1>10, <1>11, <1>12, <1>13 DEF PNext, Agents

\* Each action keeps the gate: an edit of the specification leads to another check or
\* review, never past one.
LEMMA GateKept == AInv /\ [PNext]_pvars => GateHolds'
<1> SUFFICES ASSUME AInv, [PNext]_pvars PROVE GateHolds'
  OBVIOUS
<1> USE DEF Tree, gateVars, skillVars
<1>1. CASE Plan \/ Baseline \/ Cmbt \/ Feedback \/ Throw
  BY <1>1 DEF AInv, GateHolds, Plan, Baseline, Cmbt, Feedback, Throw
<1>2. CASE Execute
  BY <1>2 DEF GateHolds, Execute
<1>3. ASSUME NEW ok \in BOOLEAN, Check(ok) PROVE GateHolds'
  BY <1>3 DEF GateHolds, Check
<1>4. CASE LinkFix \/ Revise
  BY <1>4 DEF AInv, GateHolds, LinkFix, Revise
<1>5. ASSUME NEW v \in Verdicts, SecondReview(v) PROVE GateHolds'
  BY <1>5 DEF AInv, GateHolds, SecondReview, Decide
<1>6. ASSUME NEW v \in Verdicts, Review(v) PROVE GateHolds'
  <2>1. passed # NoVersion
    BY <1>6 DEF AInv, GateHolds, Review, PTypeOK, SpecVersions, NoVersion
  <2> QED
    BY <1>6, <2>1 DEF AInv, GateHolds, Review, Decide
<1>7. ASSUME NEW v \in Verdicts, SkillReview(v) PROVE GateHolds'
  BY <1>7 DEF GateHolds, SkillReview
<1>8. CASE Commit \/ Propose \/ Apply \/ Rewrite
  BY <1>8 DEF GateHolds, Commit, Propose, Apply, Rewrite
<1>9. CASE NextTick
  BY <1>9 DEF GateHolds, NextTick
<1>10. CASE UNCHANGED pvars
  BY <1>10 DEF AInv, GateHolds, pvars
<1> QED
  BY <1>1, <1>2, <1>3, <1>4, <1>5, <1>6, <1>7, <1>8, <1>9, <1>10 DEF PNext, Agents

\* Each action keeps the loop over skill reviews.
LEMMA LoopKept == AInv /\ [PNext]_pvars => LoopHolds'
<1> SUFFICES ASSUME AInv, [PNext]_pvars PROVE LoopHolds'
  OBVIOUS
<1> USE BoundsAssumption DEF Tree, gateVars, skillVars, BeforeReviews, Waiting
<1>1. CASE Plan \/ Baseline \/ Cmbt \/ Feedback \/ Throw
  BY <1>1 DEF AInv, LoopHolds, Plan, Baseline, Cmbt, Feedback, Throw
<1>2. CASE Execute \/ LinkFix \/ Revise \/ Commit
  BY <1>2 DEF AInv, LoopHolds, Execute, LinkFix, Revise, Commit
<1>3. ASSUME NEW ok \in BOOLEAN, Check(ok) PROVE LoopHolds'
  BY <1>3 DEF AInv, LoopHolds, Check
<1>4. ASSUME NEW v \in Verdicts, Review(v) \/ SecondReview(v) PROVE LoopHolds'
  BY <1>4 DEF AInv, LoopHolds, Review, SecondReview, Decide
<1>5. ASSUME NEW v \in Verdicts, SkillReview(v) PROVE LoopHolds'
  BY <1>5 DEF AInv, LoopHolds, SkillReview
<1>6. CASE Propose
  BY <1>6 DEF AInv, LoopHolds, Propose
<1>7. CASE Apply \/ Rewrite
  BY <1>7 DEF AInv, LoopHolds, Apply, Rewrite
<1>8. CASE NextTick
  BY <1>8 DEF LoopHolds, NextTick
<1>9. CASE UNCHANGED pvars
  BY <1>9 DEF AInv, LoopHolds, pvars
<1> QED
  BY <1>1, <1>2, <1>3, <1>4, <1>5, <1>6, <1>7, <1>8, <1>9 DEF PNext, Agents

-----------------------------------------------------------------------------
(* Theorems *)

\* The inductive invariant of the autopilot.
THEOREM PilotInvariant == PSpec => []AInv
<1>1. AInv /\ [PNext]_pvars => AInv'
  BY TypesKept, GateKept, LoopKept DEF AInv
<1> QED
  BY PilotInit, <1>1, PTL DEF PSpec

\* The script's state is well typed.
THEOREM PilotTyped == PSpec => []PTypeOK
<1>1. AInv => PTypeOK
  BY DEF AInv
<1> QED
  BY <1>1, PilotInvariant, PTL

\* What is committed was approved as it stands, and checked, or revised from what was.
THEOREM GatedCommits == PSpec => CommitsAreGated
<1>1. ASSUME AInv, [PNext]_pvars, pushed' # pushed
      PROVE  /\ gate = "GO" /\ approved = pushed'
             /\ passed # NoVersion
             /\ passed = pushed' \/ revised
  <2>1. Commit
    BY <1>1 DEF PNext, Agents, pvars, Tree, Plan, Baseline, Execute, Check, Review, SecondReview,
                Decide, SkillReview, LinkFix, Revise, Cmbt, Propose, Apply, Rewrite, Feedback,
                Throw, NextTick
  <2>2. pc = "commit" /\ pushed' = spec
    BY <1>1, <2>1 DEF Commit
  <2> QED
    BY <1>1, <2>2 DEF AInv, GateHolds
<1>2. AInv /\ [PNext]_pvars
        => [pushed' # pushed =>
              /\ gate = "GO" /\ approved = pushed'
              /\ passed # NoVersion
              /\ passed = pushed' \/ revised]_pvars
  BY <1>1
<1> QED
  BY PilotInvariant, <1>2, PTL DEF PSpec, CommitsAreGated

\* What is applied to the apparatus skill is what the last review of it endorsed.
THEOREM EndorsedUpdates == PSpec => AppliedIsEndorsed
<1>1. ASSUME AInv, [PNext]_pvars, NEW t \in 0..MaxTick, applied'[t] # applied[t]
      PROVE  applied'[t] = applied[t] \cup {endorsed}
  <2>1. Apply
    BY <1>1 DEF PNext, Agents, pvars, skillVars, Plan, Baseline, Execute, Check, Review, SecondReview,
                Decide, SkillReview, LinkFix, Revise, Cmbt, Commit, Propose, Rewrite, Feedback,
                Throw, NextTick
  <2>2. pc = "apply" /\ applied' = [applied EXCEPT ![tick] = @ \cup {content}]
    BY <2>1 DEF Apply
  <2>3. endorsed = content
    BY <1>1, <2>2 DEF AInv, LoopHolds
  <2>4. applied \in [0..MaxTick -> SUBSET (0..MaxAttempts)]
    BY <1>1 DEF AInv, PTypeOK
  <2> QED
    BY <1>1, <2>2, <2>3, <2>4
<1>2. AInv /\ [PNext]_pvars
        => [\A t \in 0..MaxTick : applied'[t] # applied[t]
                                     => applied'[t] = applied[t] \cup {endorsed}]_pvars
  BY <1>1
<1> QED
  BY PilotInvariant, <1>2, PTL DEF PSpec, AppliedIsEndorsed

-----------------------------------------------------------------------------
(************************ The ledger of mandated steps *********************)

\* The lines of a ledger: what record mode wrote in full, or a line that does not parse.
Written == {WithoutResult(r) : r \in Calls}
LedgerTyped ==
    /\ ledgerLines \in Seq(Written \cup {MalformedLine}) /\ acked \in Seq(Written)
    /\ tornLine \in BOOLEAN /\ (tornLine => Len(ledgerLines) > 0)

\* f gives every acknowledged record a line of its own, never the last one if that is torn.
Keeps(f, lines, records, last) ==
    /\ f \in [DOMAIN records -> DOMAIN lines]
    /\ \A i, j \in DOMAIN records : f[i] = f[j] => i = j
    /\ \A i \in DOMAIN records : lines[f[i]] = records[i] /\ (last => f[i] # Len(lines))
AckedAreKept ==
    Malformations(ledgerLines) = {} => \E f : Keeps(f, ledgerLines, acked, tornLine)

\* A check that passed read the ledger as it still is.
PassIsCurrent ==
    checked.exit = "ok" => Malformations(ledgerLines) = {} /\ ValidRecordSet(DOMAIN ledgerLines)

LedgerInv == LedgerTyped /\ AckedAreKept /\ PassIsCurrent

\* An append after a whole line adds one; after a torn line it leaves a line that does not parse.
LEMMA AppendedLine ==
    ASSUME LedgerTyped, NEW line \in Written \cup {MalformedLine}, ledgerLines' = Appended(line)
    PROVE  /\ ledgerLines' \in Seq(Written \cup {MalformedLine}) /\ Len(ledgerLines') > 0
           /\ tornLine => Malformations(ledgerLines') # {}
           /\ ~tornLine => /\ ledgerLines' = Append(ledgerLines, line)
                           /\ Malformations(ledgerLines) \subseteq Malformations(ledgerLines')
<1> USE DEF LedgerTyped
<1>1. CASE tornLine
  <2>1. ledgerLines' = Front(ledgerLines) \o <<MalformedLine>>
    BY <1>1 DEF Appended
  <2>2. Front(ledgerLines) \in Seq(Written \cup {MalformedLine})
    BY <1>1 DEF Front
  <2>3. /\ ledgerLines' \in Seq(Written \cup {MalformedLine})
        /\ Len(ledgerLines') = Len(Front(ledgerLines)) + 1
        /\ ledgerLines'[Len(ledgerLines')] = MalformedLine
    BY <2>1, <2>2
  <2>4. Len(ledgerLines') \in Malformations(ledgerLines')
    BY <2>2, <2>3 DEF Malformations
  <2> QED BY <1>1, <2>2, <2>3, <2>4
<1>2. CASE ~tornLine
  <2>1. ledgerLines' = Append(ledgerLines, line)
    BY <1>2 DEF Appended
  <2>2. \A i \in DOMAIN ledgerLines : i \in DOMAIN ledgerLines' /\ ledgerLines'[i] = ledgerLines[i]
    BY <2>1
  <2> QED BY <1>2, <2>1, <2>2 DEF Malformations
<1> QED BY <1>1, <1>2

\* Both what record mode writes and what a crash leaves of it keep the invariant.
LEMMA WriteKeeps ==
    ASSUME LedgerInv, NEW r \in Calls, NEW line \in {MalformedLine, WithoutResult(r)},
           ledgerLines' = Appended(line), checked' = NotChecked,
           \/ line = WithoutResult(r) /\ tornLine' = FALSE /\ acked' = Append(acked, line)
           \/ tornLine' = TRUE /\ acked' = acked
    PROVE  LedgerInv'
<1> USE DEF LedgerInv
<1>1. line \in Written \cup {MalformedLine}
  BY DEF Written
<1>2. WithoutResult(r) \in Written
  BY DEF Written
<1>3. LedgerTyped'
  <2>1. ledgerLines' \in Seq(Written \cup {MalformedLine}) /\ Len(ledgerLines') > 0
    BY <1>1, AppendedLine
  <2>2. acked \in Seq(Written)
    BY DEF LedgerTyped
  <2>3. acked' \in Seq(Written)
    <3>1. CASE line = WithoutResult(r) /\ acked' = Append(acked, line)
      BY <1>2, <2>2, <3>1
    <3>2. CASE acked' = acked
      BY <2>2, <3>2
    <3> QED BY <3>1, <3>2
  <2>4. tornLine' \in BOOLEAN
    OBVIOUS
  <2> QED BY <2>1, <2>3, <2>4 DEF LedgerTyped
<1>4. PassIsCurrent'
  BY DEF PassIsCurrent, NotChecked
<1>5. AckedAreKept'
  <2> SUFFICES ASSUME Malformations(ledgerLines') = {}
               PROVE  \E f : Keeps(f, ledgerLines', acked', tornLine')
    BY DEF AckedAreKept
  <2>1. /\ ~tornLine /\ ledgerLines' = Append(ledgerLines, line)
        /\ Malformations(ledgerLines) = {}
    BY <1>1, AppendedLine DEF LedgerTyped
  <2>2. PICK f : Keeps(f, ledgerLines, acked, tornLine)
    BY <2>1 DEF AckedAreKept
  <2>3. CASE line = WithoutResult(r) /\ tornLine' = FALSE /\ acked' = Append(acked, line)
    <3> DEFINE g == [i \in DOMAIN acked' |-> IF i = Len(acked) + 1 THEN Len(ledgerLines) + 1 ELSE f[i]]
    <3>1. /\ DOMAIN acked' = 1..Len(acked) + 1 /\ DOMAIN acked = 1..Len(acked)
          /\ DOMAIN ledgerLines' = 1..Len(ledgerLines) + 1 /\ DOMAIN ledgerLines = 1..Len(ledgerLines)
          /\ Len(acked) \in Nat /\ Len(ledgerLines) \in Nat
      BY <2>1, <2>3 DEF LedgerTyped
    <3>2. \A i \in DOMAIN acked : f[i] \in 1..Len(ledgerLines) /\ g[i] = f[i]
      BY <2>2, <3>1 DEF Keeps
    <3>3. g[Len(acked) + 1] = Len(ledgerLines) + 1
      BY <3>1
    <3>4. \A i \in DOMAIN acked' : i \in DOMAIN acked \/ i = Len(acked) + 1
      BY <3>1
    <3>5. g \in [DOMAIN acked' -> DOMAIN ledgerLines']
      <4>1. \A i \in DOMAIN acked' : g[i] \in DOMAIN ledgerLines'
        <5> HIDE DEF g
        <5> QED BY <3>1, <3>2, <3>3, <3>4
      <4> QED BY <4>1
    <3>6. \A i, j \in DOMAIN acked' : g[i] = g[j] => i = j
      <4> HIDE DEF g
      <4> QED BY <2>2, <3>1, <3>2, <3>3, <3>4 DEF Keeps
    <3>7. \A i \in DOMAIN acked' : ledgerLines'[g[i]] = acked'[i]
      <4> HIDE DEF g
      <4>1. ASSUME NEW i \in DOMAIN acked PROVE ledgerLines'[g[i]] = acked'[i]
        <5>1. ledgerLines[f[i]] = acked[i]
          BY <2>2 DEF Keeps
        <5>2. acked'[i] = acked[i]
          BY <2>3 DEF LedgerTyped
        <5>3. ledgerLines'[f[i]] = ledgerLines[f[i]]
          BY <2>1, <3>2 DEF LedgerTyped
        <5> QED BY <3>2, <5>1, <5>2, <5>3
      <4>2. ledgerLines'[Len(ledgerLines) + 1] = line /\ acked'[Len(acked) + 1] = line
        BY <2>1, <2>3 DEF LedgerTyped
      <4> QED BY <3>3, <3>4, <4>1, <4>2
    <3> HIDE DEF g
    <3> QED BY <2>3, <3>5, <3>6, <3>7 DEF Keeps
  <2>4. CASE tornLine' = TRUE /\ acked' = acked
    <3>1. /\ DOMAIN ledgerLines' = 1..Len(ledgerLines) + 1 /\ DOMAIN ledgerLines = 1..Len(ledgerLines)
          /\ Len(ledgerLines') = Len(ledgerLines) + 1 /\ Len(ledgerLines) \in Nat
      BY <2>1 DEF LedgerTyped
    <3>2. \A i \in DOMAIN acked : f[i] \in 1..Len(ledgerLines)
      BY <2>2, <3>1 DEF Keeps
    <3>3. \A n \in 1..Len(ledgerLines) : ledgerLines'[n] = ledgerLines[n]
      BY <2>1 DEF LedgerTyped
    <3>4. f \in [DOMAIN acked -> DOMAIN ledgerLines']
      BY <2>2, <3>1, <3>2 DEF Keeps
    <3>5. \A i \in DOMAIN acked : ledgerLines'[f[i]] = acked[i] /\ f[i] # Len(ledgerLines')
      BY <2>2, <3>1, <3>2, <3>3 DEF Keeps
    <3> QED BY <2>2, <2>4, <3>4, <3>5 DEF Keeps
  <2> QED BY <2>3, <2>4
<1> QED BY <1>3, <1>4, <1>5

LEMMA LedgerStep == LedgerInv /\ [MNext]_mvars => LedgerInv'
<1> SUFFICES ASSUME LedgerInv, [MNext]_mvars PROVE LedgerInv'
  OBVIOUS
<1> USE DEF LedgerInv
<1>u. ASSUME UNCHANGED <<ledgerLines, tornLine, acked>> PROVE LedgerTyped' /\ AckedAreKept'
  BY <1>u DEF LedgerTyped, AckedAreKept
<1>1. ASSUME NEW r \in Calls, RecordMode(r) PROVE LedgerInv'
  <2>1. CASE UNCHANGED <<ledgerLines, tornLine, acked>>
    BY <1>1, <2>1, <1>u DEF RecordMode, PassIsCurrent, NotChecked
  <2>2. CASE ledgerLines' = Appended(WithoutResult(r)) /\ tornLine' = FALSE
             /\ acked' = Append(acked, WithoutResult(r))
    BY <1>1, <2>2, WriteKeeps DEF RecordMode
  <2> QED BY <1>1, <2>1, <2>2 DEF RecordMode
<1>2. ASSUME NEW r \in Calls, Tear(r) PROVE LedgerInv'
  BY <1>2, WriteKeeps DEF Tear
<1>3. ASSUME NEW demand \in Demands, CheckMode(demand) PROVE LedgerInv'
  <2>1. ledgerLines' = ledgerLines
    BY <1>3 DEF CheckMode
  <2>2. ASSUME checked'.exit = "ok"
        PROVE  Malformations(ledgerLines) = {} /\ ValidRecordSet(DOMAIN ledgerLines)
    <3>1. Malformations(ledgerLines) = {}
      BY <1>3, <2>2 DEF CheckMode
    <3>2. {i \in DOMAIN ledgerLines : ledgerLines[i] # MalformedLine} = DOMAIN ledgerLines
      BY <3>1 DEF Malformations
    <3>3. checked' = Evaluate(DOMAIN ledgerLines, demand)
      BY <1>3, <2>2, <3>1, <3>2 DEF CheckMode
    <3> QED BY <2>2, <3>1, <3>3 DEF Evaluate
  <2>3. PassIsCurrent'
    BY <2>1, <2>2 DEF PassIsCurrent, ValidRecordSet
  <2> QED BY <1>3, <1>u, <2>3 DEF CheckMode
<1>4. CASE UNCHANGED mvars
  BY <1>4, <1>u DEF mvars, PassIsCurrent, ValidRecordSet
<1> QED BY <1>1, <1>2, <1>3, <1>4 DEF MNext

LEMMA LedgerInit == MInit => LedgerInv
<1> SUFFICES ASSUME MInit PROVE LedgerInv
  OBVIOUS
<1>1. LedgerTyped
  <2>1. ledgerLines = <<>> /\ acked = <<>> /\ tornLine = FALSE
    BY DEF MInit
  <2>2. ledgerLines \in Seq(Written \cup {MalformedLine}) /\ acked \in Seq(Written)
    BY <2>1
  <2> QED BY <2>1, <2>2 DEF LedgerTyped
<1>2. AckedAreKept
  <2> DEFINE f == [i \in {} |-> i]
  <2>1. Keeps(f, ledgerLines, acked, tornLine)
    BY DEF MInit, Keeps
  <2> QED BY <2>1 DEF AckedAreKept
<1>3. PassIsCurrent
  BY DEF MInit, PassIsCurrent, NotChecked
<1> QED BY <1>1, <1>2, <1>3 DEF LedgerInv

\* Whatever was recorded, torn and glued together, a ledger whose lines all parse has a
\* line of its own for every acknowledged record, and a pass is about it as it is.
THEOREM LedgerInvariant == LedgerSpec => []LedgerInv
  BY LedgerInit, LedgerStep, PTL DEF LedgerSpec

\* A check that passes has counted every acknowledged record, whatever was called and torn.
THEOREM PassedLedger == LedgerSpec => []PassCountsEverything
<1>1. LedgerInv => PassCountsEverything
  <2> SUFFICES ASSUME LedgerInv, checked.exit = "ok" PROVE PassCountsEverything
    BY DEF PassCountsEverything
  <2>1. ValidRecordSet(DOMAIN ledgerLines)
    BY DEF LedgerInv, PassIsCurrent
  <2>2. PICK f : Keeps(f, ledgerLines, acked, tornLine)
    BY DEF LedgerInv, PassIsCurrent, AckedAreKept
  <2>3. \A i \in DOMAIN acked : f[i] \in DOMAIN ledgerLines /\ ledgerLines[f[i]] = acked[i]
    BY <2>2 DEF Keeps
  <2>4. ASSUME NEW i \in DOMAIN acked, NEW j \in DOMAIN acked, i # j, acked[i].step = acked[j].step
        PROVE  acked[i].step = "degraded-specialist"
    <3>1. f[i] # f[j]
      BY <2>2, <2>4 DEF Keeps
    <3> QED BY <2>1, <2>3, <2>4, <3>1 DEF ValidRecordSet, Repeatable
  <2>5. ASSUME NEW i \in DOMAIN acked
        PROVE  /\ acked[i].task = Task
               /\ acked[i].step = "human-gate" /\ acked[i].outcome = "ran" => acked[i].actor = "human"
    BY <2>1, <2>3 DEF ValidRecordSet, ValidRecord, HumanOnly
  <2> QED BY <2>3, <2>4, <2>5 DEF PassCountsEverything
<1> QED BY <1>1, LedgerInvariant, PTL

-----------------------------------------------------------------------------
(********************* Test cases nobody registered ************************)

\* A binding as the scan sees it.
Piece == [kind : {"let", "module", "end", "blank"}, name : Identifiers \cup {""}, params : BOOLEAN,
          names : SUBSET Identifiers, cases : SUBSET Identifiers, run : SUBSET Identifiers,
          indent : Nat, quoted : {"code", "comment", "open"}]

\* What the files read so far register, name and define.
ReadRoots == UNION {CollectRegistered(Text(f)) \cup CollectRunRoots(Text(f)) : f \in 1..read}
ReadNames(n) == UNION {BodiesOf(Text(f), n) : f \in 1..read}
ReadCases == UNION {CollectDefs(Text(f)) : f \in {g \in 1..read : InScope(files[g])}}

ScanTyped ==
    /\ targets \in Seq(Target) /\ files \in Seq(SourceFile) /\ unreadable \in BOOLEAN
    /\ read \in 0..Len(files) /\ live \subseteq Identifiers /\ queue \in Seq(Identifiers)
    /\ targets # <<>> => read = 0
    /\ read = 0 => live = {}

\* Before the last file is read, live is the roots read so far.
RootsAreLive == ReadRoots \subseteq live /\ (read < Len(files) => live = ReadRoots)
\* A name that waits to be expanded has all its bodies; those of one that does not are live.
BodiesHold ==
    \A n \in Identifiers :
        IF n \in DOMAIN bodies THEN bodies[n] = ReadNames(n)
        ELSE ReadNames(n) \subseteq (IF read < Len(files) THEN {} ELSE live)
\* What is live is reached, and a live name with bodies is in the queue, but for nothing else.
LiveIsReached == \A S \in Closed : live \subseteq S
QueueHolds ==
    /\ \A i \in DOMAIN queue : queue[i] \in live
    /\ read = Len(files) =>
          \A n \in live : n \in DOMAIN bodies => \E i \in DOMAIN queue : queue[i] = n
ScanHolds == /\ perFile = ReadCases /\ RootsAreLive /\ BodiesHold /\ LiveIsReached /\ QueueHolds

RegistrationInv == ScanTyped /\ (exit = "running" => ScanHolds) /\ VerdictIsReachability

\* SetToSeq lists every member of a finite set.
LEMMA SetToSeqLists ==
    ASSUME NEW S, IsFiniteSet(S)
    PROVE  /\ SetToSeq(S) \in Seq(S)
           /\ \A x \in S : \E i \in DOMAIN SetToSeq(S) : SetToSeq(S)[i] = x
<1> DEFINE n == Cardinality(S)
<1>1. n \in Nat /\ ExistsBijection(1..n, S)
  BY FS_CardinalityType
<1>2. \E f \in [1..n -> S] : IsInjective(f)
  BY <1>1 DEF ExistsBijection, Bijection, Injection
<1>3. SetToSeq(S) \in [1..n -> S] /\ IsInjective(SetToSeq(S))
  BY <1>2 DEF SetToSeq
<1>4. SetToSeq(S) \in Injection(1..n, S)
  BY <1>3 DEF Injection
<1>5. Cardinality(1..n) = n
  BY <1>1, FS_Interval
<1>6. SetToSeq(S) \in Surjection(1..n, S)
  BY <1>4, <1>5, FS_Injection
<1> HIDE DEF n
<1> QED BY <1>1, <1>3, <1>6 DEF Surjection

LEMMA StrippedIsCode ==
    ASSUME NEW chunks \in Seq(Chunk) PROVE Stripped(chunks) \in Seq(Piece)
<1>1. ASSUME NEW i \in DOMAIN chunks PROVE Stripped(chunks)[i] \in Piece
  <2>1. chunks[i] \in Chunk
    OBVIOUS
  <2>2. chunks[i] \in Piece
    BY <2>1 DEF Chunk, Piece
  <2>3. [chunks[i] EXCEPT !.kind = "blank", !.name = "", !.names = {}, !.cases = {}, !.run = {}]
          \in Piece
    BY <2>2 DEF Piece
  <2>4. Stripped(chunks)[i] \in
          {chunks[i], [chunks[i] EXCEPT !.kind = "blank", !.name = "", !.names = {}, !.cases = {},
                                        !.run = {}]}
    BY DEF Stripped
  <2> QED BY <2>2, <2>3, <2>4
<1>2. Stripped(chunks) = [i \in 1..Len(chunks) |-> Stripped(chunks)[i]] /\ Len(chunks) \in Nat
  BY DEF Stripped
<1>3. \A i \in 1..Len(chunks) : Stripped(chunks)[i] \in Piece
  BY <1>1
<1> QED BY <1>2, <1>3

\* What a text registers, binds and names are identifiers.
LEMMA CodeNames ==
    ASSUME NEW code \in Seq(Piece)
    PROVE  /\ CollectRegistered(code) \subseteq Identifiers
           /\ CollectRunRoots(code) \subseteq Identifiers
           /\ CollectDefs(code) \subseteq Identifiers /\ Bound(code) \subseteq Identifiers
           /\ \A n : BodiesOf(code, n) \subseteq Identifiers
           /\ \A n \in Identifiers : n \notin Bound(code) => BodiesOf(code, n) = {}
<1>1. \A i \in DOMAIN code : /\ code[i].name \in Identifiers \cup {""} /\ code[i].names \subseteq Identifiers
                             /\ code[i].cases \subseteq Identifiers /\ code[i].run \subseteq Identifiers
  <2> TAKE i \in DOMAIN code
  <2>1. code[i] \in Piece
    OBVIOUS
  <2> QED BY <2>1 DEF Piece
<1>2. DOMAIN code = 1..Len(code) /\ Len(code) \in Nat
  OBVIOUS
<1>3. CollectRegistered(code) \subseteq Identifiers
  BY <1>1 DEF CollectRegistered
<1>4. CollectRunRoots(code) \subseteq Identifiers
  <2>1. ASSUME NEW i \in DOMAIN code PROVE ArgumentRegion(code, i) \subseteq Identifiers
    <3>1. i..Len(code) \subseteq DOMAIN code
      BY <1>2
    <3>2. PICK inside : /\ inside \subseteq DOMAIN code
                        /\ ArgumentRegion(code, i) =
                              code[i].run \cup UNION {code[j].names \cup code[j].cases : j \in inside \ {i}}
      BY <3>1 DEF ArgumentRegion
    <3> QED BY <1>1, <3>2
  <2> QED BY <2>1 DEF CollectRunRoots
<1>5. CollectDefs(code) \subseteq Identifiers
  BY NamesAssumption DEF CollectDefs
<1>6. Bound(code) \subseteq Identifiers
  BY <1>1 DEF Bound
<1>7. ASSUME NEW i \in DOMAIN code PROVE BodyOf(code, i) \subseteq Identifiers
  <2>1. i..Len(code) \subseteq DOMAIN code
    BY <1>2
  <2>2. PICK inside : /\ inside \subseteq DOMAIN code
                      /\ BodyOf(code, i) =
                            UNION {code[j].names \cup code[j].cases \cup code[j].run
                                     \cup ({code[j].name} \ {""}) : j \in inside}
    BY <2>1 DEF BodyOf
  <2> QED BY <1>1, <2>2
<1>8. ASSUME NEW n PROVE BodiesOf(code, n) \subseteq Identifiers
  BY <1>7 DEF BodiesOf
<1>9. ASSUME NEW n \in Identifiers, n \notin Bound(code) PROVE BodiesOf(code, n) = {}
  BY <1>9, NamesAssumption DEF BodiesOf, Bound
<1> QED BY <1>3, <1>4, <1>5, <1>6, <1>8, <1>9

LEMMA TextNames ==
    ASSUME files \in Seq(SourceFile), NEW f \in DOMAIN files
    PROVE  Text(f) \in Seq(Piece)
<1>0. files[f] \in SourceFile
  OBVIOUS
<1>1. files[f].text \in Seq(Chunk)
  BY <1>0 DEF SourceFile
<1> QED BY <1>1, StrippedIsCode DEF Text

\* One more file read.
LEMMA ReadMore ==
    ASSUME read \in Nat, read' = read + 1, files' = files
    PROVE  /\ ReadRoots' = ReadRoots \cup CollectRegistered(Text(read + 1))
                                     \cup CollectRunRoots(Text(read + 1))
           /\ \A n : ReadNames(n)' = ReadNames(n) \cup BodiesOf(Text(read + 1), n)
           /\ ReadCases' = ReadCases \cup (IF InScope(files[read + 1])
                                           THEN CollectDefs(Text(read + 1)) ELSE {})
<1>1. 1..read' = 1..read \cup {read + 1}
  OBVIOUS
<1>2. \A f : Text(f)' = Text(f)
  BY DEF Text
<1>3. ReadRoots' = UNION {CollectRegistered(Text(f)) \cup CollectRunRoots(Text(f)) : f \in 1..read'}
  BY <1>2 DEF ReadRoots
<1>4. ASSUME NEW n PROVE ReadNames(n)' = UNION {BodiesOf(Text(f), n) : f \in 1..read'}
  BY <1>2 DEF ReadNames
<1>5. ReadCases' = UNION {CollectDefs(Text(f)) : f \in {g \in 1..read' : InScope(files[g])}}
  BY <1>2 DEF ReadCases
<1>6. ReadRoots' = ReadRoots \cup CollectRegistered(Text(read + 1)) \cup CollectRunRoots(Text(read + 1))
  <2> DEFINE R(f) == CollectRegistered(Text(f)) \cup CollectRunRoots(Text(f))
  <2>1. ReadRoots = UNION {R(f) : f \in 1..read} /\ ReadRoots' = UNION {R(f) : f \in 1..read'}
    BY <1>3 DEF ReadRoots
  <2>2. R(read + 1) = CollectRegistered(Text(read + 1)) \cup CollectRunRoots(Text(read + 1))
    OBVIOUS
  <2> HIDE DEF R
  <2>3. ReadRoots' = ReadRoots \cup R(read + 1)
    BY <1>1, <2>1
  <2> QED BY <2>2, <2>3
<1>7. ASSUME NEW n PROVE ReadNames(n)' = ReadNames(n) \cup BodiesOf(Text(read + 1), n)
  BY <1>1, <1>4 DEF ReadNames
<1>8. ReadCases' = ReadCases \cup (IF InScope(files[read + 1]) THEN CollectDefs(Text(read + 1)) ELSE {})
  BY <1>1, <1>5 DEF ReadCases
<1> QED BY <1>6, <1>7, <1>8

\* What has been read is part of what there is to read, and all of it at the end.
LEMMA ReadIsPart ==
    ASSUME ScanTyped
    PROVE  /\ ReadRoots \subseteq Roots /\ \A n : ReadNames(n) \subseteq Names(n)
           /\ read = Len(files) => /\ ReadRoots = Roots /\ ReadCases = Cases
                                   /\ \A n : ReadNames(n) = Names(n)
<1>1. 1..read \subseteq DOMAIN files /\ (read = Len(files) => 1..read = DOMAIN files)
  BY DEF ScanTyped
<1> QED BY <1>1 DEF ReadRoots, Roots, ReadNames, Names, ReadCases, Cases

LEMMA FilesStand ==
    ASSUME files' = files, read' = read
    PROVE  /\ ReadRoots' = ReadRoots /\ ReadCases' = ReadCases /\ Closed' = Closed
           /\ \A n : ReadNames(n)' = ReadNames(n) /\ Names(n)' = Names(n)
           /\ Roots' = Roots /\ Cases' = Cases
<1>1. \A f : Text(f)' = Text(f)
  BY DEF Text
<1>2. \A n : Names(n)' = Names(n)
  BY <1>1 DEF Names
<1>3. Roots' = Roots
  BY <1>1 DEF Roots
<1> QED BY <1>1, <1>2, <1>3 DEF ReadRoots, ReadCases, ReadNames, Cases, Closed

LEMMA ScanInit == AInit => RegistrationInv
<1> SUFFICES ASSUME AInit PROVE RegistrationInv
  OBVIOUS
<1>1. /\ files = <<>> /\ unreadable = FALSE /\ read = 0 /\ live = {} /\ perFile = {}
      /\ DOMAIN bodies = {} /\ queue = <<>> /\ exit = "running" /\ targets \in Seq(Target)
  BY TreesAssumption DEF AInit
<1>2. ScanTyped
  <2>1. files \in Seq(SourceFile) /\ queue \in Seq(Identifiers) /\ Len(files) = 0
    BY <1>1
  <2>2. read \in 0..Len(files) /\ live \subseteq Identifiers
    BY <1>1, <2>1
  <2>3. (targets # <<>> => read = 0) /\ (read = 0 => live = {})
    BY <1>1
  <2>4. unreadable \in BOOLEAN
    BY <1>1
  <2> QED BY <1>1, <2>1, <2>2, <2>3, <2>4 DEF ScanTyped
<1>3. ReadRoots = {} /\ ReadCases = {} /\ (\A n : ReadNames(n) = {})
  <2>1. 1..read = {}
    BY <1>1
  <2> QED BY <2>1 DEF ReadRoots, ReadCases, ReadNames
<1>4. ScanHolds
  <2>1. DOMAIN queue = {}
    BY <1>1
  <2> QED BY <1>1, <1>3, <2>1 DEF ScanHolds, RootsAreLive, BodiesHold, LiveIsReached, QueueHolds
<1> QED BY <1>1, <1>2, <1>4 DEF RegistrationInv, VerdictIsReachability

\* Nothing has been read while there are targets to walk, so that more files change nothing yet.
LEMMA WalkKeeps == RegistrationInv /\ Walk => RegistrationInv'
<1> SUFFICES ASSUME RegistrationInv, Walk PROVE RegistrationInv'
  OBVIOUS
<1>1. ScanTyped /\ ScanHolds /\ read = 0 /\ live = {}
  BY DEF RegistrationInv, Walk, ScanTyped
<1>2. /\ targets # <<>> /\ targets' = Tail(targets)
      /\ UNCHANGED <<read, live, perFile, bodies, queue>>
  BY DEF Walk
<1>3. Head(targets) \in Target /\ targets' \in Seq(Target)
  BY <1>1, <1>2 DEF ScanTyped
<1>4. files' \in Seq(SourceFile) /\ unreadable' \in BOOLEAN /\ exit' \in {"running", "error"}
  <2>1. Head(targets).files \in Seq(SourceFile)
    BY <1>3 DEF Target
  <2>2. files \in Seq(SourceFile) /\ unreadable \in BOOLEAN /\ exit = "running"
    BY <1>1 DEF ScanTyped, Walk
  <2>3. \/ exit' = "error" /\ UNCHANGED <<files, unreadable>>
        \/ unreadable' = TRUE /\ UNCHANGED <<files, exit>>
        \/ files' = files \o Head(targets).files /\ UNCHANGED <<unreadable, exit>>
    BY DEF Walk
  <2>4. CASE exit' = "error" /\ UNCHANGED <<files, unreadable>>
    BY <2>2, <2>4
  <2>5. CASE unreadable' = TRUE /\ UNCHANGED <<files, exit>>
    BY <2>2, <2>5
  <2>6. CASE files' = files \o Head(targets).files /\ UNCHANGED <<unreadable, exit>>
    BY <2>1, <2>2, <2>6
  <2> QED BY <2>3, <2>4, <2>5, <2>6
<1>5. ScanTyped'
  <2>1. Len(files') \in Nat
    BY <1>4
  <2> QED BY <1>1, <1>2, <1>3, <1>4, <2>1 DEF ScanTyped
<1>6. ReadRoots = {} /\ ReadCases = {} /\ (\A n : ReadNames(n) = {})
      /\ ReadRoots' = {} /\ ReadCases' = {} /\ (\A n : ReadNames(n)' = {})
  <2>1. 1..read = {} /\ 1..read' = {}
    BY <1>1, <1>2
  <2> QED BY <2>1 DEF ReadRoots, ReadCases, ReadNames
<1>7. ScanHolds'
  <2>1. perFile' = ReadCases'
    BY <1>1, <1>2, <1>6 DEF ScanHolds
  <2>2. RootsAreLive'
    BY <1>1, <1>2, <1>6 DEF RootsAreLive
  <2>3. BodiesHold'
    BY <1>1, <1>2, <1>6 DEF ScanHolds, BodiesHold
  <2>4. LiveIsReached' /\ QueueHolds'
    BY <1>1, <1>2 DEF ScanHolds, LiveIsReached, QueueHolds
  <2> QED BY <2>1, <2>2, <2>3, <2>4 DEF ScanHolds
<1> QED BY <1>4, <1>5, <1>7 DEF RegistrationInv, VerdictIsReachability

LEMMA AnalyzeKeeps == RegistrationInv /\ Analyze => RegistrationInv'
<1> SUFFICES ASSUME RegistrationInv, Analyze PROVE RegistrationInv'
  OBVIOUS
<1>1. ScanTyped /\ ScanHolds /\ read \in Nat /\ read < Len(files) /\ targets = <<>>
  BY DEF RegistrationInv, Analyze, ScanTyped
<1>2. read' = read + 1 /\ UNCHANGED <<targets, files, unreadable>>
  BY DEF Analyze
<1>3. CASE exit' = "error" /\ UNCHANGED <<live, perFile, bodies, queue>>
  <2>1. ScanTyped'
    BY <1>1, <1>2, <1>3 DEF ScanTyped
  <2> QED BY <1>3, <2>1 DEF RegistrationInv, VerdictIsReachability
<1>4. CASE ~(exit' = "error" /\ UNCHANGED <<live, perFile, bodies, queue>>)
  <2> DEFINE code == Text(read + 1)
             roots == live \cup CollectRegistered(code) \cup CollectRunRoots(code)
  <2>1. /\ live' = roots /\ bodies' = CollectBindings(code, bodies) /\ exit' = exit
        /\ perFile' = IF InScope(files[read + 1]) THEN perFile \cup CollectDefs(code) ELSE perFile
        /\ queue' = IF read' = Len(files) THEN SetToSeq(roots) ELSE <<>>
    BY <1>4 DEF Analyze, Text
  <2>2. read + 1 \in DOMAIN files /\ files \in Seq(SourceFile)
    BY <1>1 DEF ScanTyped
  <2>3. code \in Seq(Piece)
    BY <2>2, TextNames
  <2> HIDE DEF code
  <2>4. roots \subseteq Identifiers
    BY <1>1, <2>3, CodeNames DEF ScanTyped
  <2>5. SetToSeq(roots) \in Seq(roots) /\ \A x \in roots : \E i \in DOMAIN SetToSeq(roots) : SetToSeq(roots)[i] = x
    <3>1. IsFiniteSet(roots)
      BY <2>4, NamesAssumption, FS_Subset
    <3> QED BY <3>1, SetToSeqLists
  <2>6. /\ ReadRoots' = ReadRoots \cup CollectRegistered(code) \cup CollectRunRoots(code)
        /\ \A n : ReadNames(n)' = ReadNames(n) \cup BodiesOf(code, n)
        /\ ReadCases' = ReadCases \cup (IF InScope(files[read + 1]) THEN CollectDefs(code) ELSE {})
    BY <1>1, <1>2, ReadMore DEF code
  <2>7. live = ReadRoots /\ roots = ReadRoots'
    BY <1>1, <2>6 DEF ScanHolds, RootsAreLive
  <2> HIDE DEF roots
  <2>8. ScanTyped'
    <3>1. queue' \in Seq(Identifiers)
      BY <2>1, <2>4, <2>5
    <3> QED BY <1>1, <1>2, <2>1, <2>4, <3>1 DEF ScanTyped
  <2>9. perFile' = ReadCases'
    BY <1>1, <2>1, <2>6 DEF ScanHolds
  <2>10. RootsAreLive'
    BY <2>1, <2>7 DEF RootsAreLive
  <2>11. BodiesHold'
    <3> SUFFICES ASSUME NEW n \in Identifiers
                 PROVE  IF n \in DOMAIN bodies' THEN bodies'[n] = ReadNames(n)'
                        ELSE ReadNames(n)' \subseteq (IF read' < Len(files') THEN {} ELSE live')
      BY DEF BodiesHold
    <3>1. ReadNames(n)' = ReadNames(n) \cup BodiesOf(code, n)
      BY <2>6
    <3>2. DOMAIN bodies' = DOMAIN bodies \cup Bound(code)
      BY <2>1 DEF CollectBindings
    <3>3. n \notin DOMAIN bodies => ReadNames(n) = {}
      BY <1>1 DEF ScanHolds, BodiesHold
    <3>4. n \in DOMAIN bodies => bodies[n] = ReadNames(n)
      BY <1>1 DEF ScanHolds, BodiesHold
    <3>5. n \in DOMAIN bodies' =>
             bodies'[n] = (IF n \in DOMAIN bodies THEN bodies[n] ELSE {}) \cup BodiesOf(code, n)
      BY <2>1, <3>2 DEF CollectBindings
    <3>6. n \notin Bound(code) => BodiesOf(code, n) = {}
      BY <2>3, CodeNames
    <3>7. CASE n \in DOMAIN bodies'
      BY <3>1, <3>3, <3>4, <3>5, <3>7
    <3>8. CASE n \notin DOMAIN bodies'
      BY <3>1, <3>2, <3>3, <3>6, <3>8
    <3> QED BY <3>7, <3>8
  <2>12. LiveIsReached'
    <3>1. ReadRoots' \subseteq Roots'
      <4>1. 1..read' \subseteq DOMAIN files'
        BY <2>8 DEF ScanTyped
      <4> QED BY <4>1 DEF ReadRoots, Roots
    <3> QED BY <2>1, <2>7, <3>1 DEF LiveIsReached, Closed
  <2>13. QueueHolds'
    <3>1. CASE read' = Len(files)
      <4>1. queue' = SetToSeq(roots)
        BY <2>1, <3>1
      <4> QED BY <2>1, <2>5, <4>1 DEF QueueHolds
    <3>2. CASE read' # Len(files)
      <4>1. queue' = <<>>
        BY <2>1, <3>2
      <4> QED BY <1>2, <3>2, <4>1 DEF QueueHolds
    <3> QED BY <3>1, <3>2
  <2>14. exit' = "running"
    BY <2>1 DEF Analyze
  <2> QED BY <2>8, <2>9, <2>10, <2>11, <2>12, <2>13, <2>14 DEF RegistrationInv, ScanHolds, VerdictIsReachability
<1> QED BY <1>3, <1>4

\* A name is expanded once: its bodies join what is live, and what is new joins the queue.
LEMMA ExpandKeeps == RegistrationInv /\ Expand => RegistrationInv'
<1> SUFFICES ASSUME RegistrationInv, Expand PROVE RegistrationInv'
  OBVIOUS
<1> DEFINE name == Last(queue)
           found == IF name \in DOMAIN bodies THEN bodies[name] \ live ELSE {}
<1>1. /\ ScanTyped /\ ScanHolds /\ read = Len(files) /\ queue # <<>>
      /\ live' = live \cup found /\ queue' = Front(queue) \o SetToSeq(found)
      /\ bodies' = [n \in DOMAIN bodies \ {name} |-> bodies[n]]
      /\ UNCHANGED <<targets, files, unreadable, read, perFile, exit>>
  BY DEF RegistrationInv, Expand
<1>2. queue \in Seq(Identifiers) /\ Len(queue) \in Nat \ {0}
  BY <1>1 DEF ScanTyped
<1>3. name \in live /\ name \in Identifiers
  <2>1. Len(queue) \in DOMAIN queue
    BY <1>2
  <2> QED BY <1>1, <1>2, <2>1 DEF ScanHolds, QueueHolds, Last
<1>4. /\ ReadRoots' = ReadRoots /\ ReadCases' = ReadCases /\ Closed' = Closed
      /\ \A n : ReadNames(n)' = ReadNames(n)
  BY <1>1, FilesStand
<1>5. /\ name \in DOMAIN bodies => bodies[name] = Names(name)
      /\ name \notin DOMAIN bodies => Names(name) \subseteq live
  BY <1>1, <1>3, ReadIsPart DEF ScanHolds, BodiesHold, ScanTyped
<1>6. found \subseteq Names(name) /\ Names(name) \subseteq live \cup found
  BY <1>5
<1>7. Names(name) \subseteq Identifiers
  <2>1. ASSUME NEW f \in DOMAIN files PROVE BodiesOf(Text(f), name) \subseteq Identifiers
    BY <1>1, TextNames, CodeNames DEF ScanTyped
  <2> QED BY <2>1 DEF Names
<1> HIDE DEF found
<1>8. /\ SetToSeq(found) \in Seq(found)
      /\ \A x \in found : \E i \in DOMAIN SetToSeq(found) : SetToSeq(found)[i] = x
  <2>1. IsFiniteSet(found)
    BY <1>6, <1>7, NamesAssumption, FS_Subset
  <2> QED BY <2>1, SetToSeqLists
<1>9. PICK front, more : /\ front = Front(queue) /\ more = SetToSeq(found)
                         /\ front \in Seq(Identifiers) /\ more \in Seq(Identifiers)
                         /\ Len(front) = Len(queue) - 1
                         /\ \A i \in DOMAIN front : front[i] = queue[i]
                         /\ \A i \in DOMAIN more : more[i] \in found
  <2>1. Front(queue) \in Seq(Identifiers) /\ Len(Front(queue)) = Len(queue) - 1
    <3>1. PICK m \in Nat : m = Len(queue) - 1
      BY <1>2
    <3>2. Front(queue) = SubSeq(queue, 1, m)
      BY <3>1 DEF Front
    <3>3. SubSeq(queue, 1, m) \in Seq(Identifiers)
      BY <1>2, <3>1
    <3>4. Len(SubSeq(queue, 1, m)) = m
      BY <1>2, <3>1
    <3> QED BY <3>1, <3>2, <3>3, <3>4
  <2>2. ASSUME NEW i \in DOMAIN Front(queue) PROVE Front(queue)[i] = queue[i]
    <3>1. i \in 1..Len(queue) - 1
      BY <2>1
    <3>2. Front(queue) = SubSeq(queue, 1, Len(queue) - 1)
      BY DEF Front
    <3> QED BY <1>2, <3>1, <3>2
  <2>3. SetToSeq(found) \in Seq(Identifiers)
    BY <1>6, <1>7, <1>8
  <2>4. \A i \in DOMAIN SetToSeq(found) : SetToSeq(found)[i] \in found
    BY <1>8
  <2> QED BY <2>1, <2>2, <2>3, <2>4
<1>10. ScanTyped'
  <2>1. queue' \in Seq(Identifiers)
    BY <1>1, <1>9
  <2>2. live' \subseteq Identifiers
    BY <1>1, <1>6, <1>7 DEF ScanTyped
  <2>3. read = 0 => live' = {}
    BY <1>1, <1>3 DEF ScanTyped
  <2> QED BY <1>1, <2>1, <2>2, <2>3 DEF ScanTyped
<1>11. perFile' = ReadCases' /\ RootsAreLive'
  BY <1>1, <1>4 DEF ScanHolds, RootsAreLive
<1>12. BodiesHold'
  <2> SUFFICES ASSUME NEW n \in Identifiers
               PROVE  IF n \in DOMAIN bodies' THEN bodies'[n] = ReadNames(n)'
                      ELSE ReadNames(n)' \subseteq (IF read' < Len(files') THEN {} ELSE live')
    BY DEF BodiesHold
  <2>0. Len(files) \in Nat
    BY <1>1 DEF ScanTyped
  <2>1. IF n \in DOMAIN bodies THEN bodies[n] = ReadNames(n) ELSE ReadNames(n) \subseteq live
    BY <1>1, <2>0 DEF ScanHolds, BodiesHold
  <2>2. ReadNames(n)' = ReadNames(n) /\ ~(read' < Len(files'))
    BY <1>1, <1>4, <2>0
  <2>3. CASE n = name
    <3>1. ReadNames(name) = Names(name)
      BY <1>1, ReadIsPart
    <3> QED BY <1>1, <1>6, <2>2, <2>3, <3>1
  <2>4. CASE n # name
    BY <1>1, <2>1, <2>2, <2>4
  <2> QED BY <2>3, <2>4
<1>13. LiveIsReached'
  <2> SUFFICES ASSUME NEW S \in Closed PROVE live' \subseteq S
    BY <1>4 DEF LiveIsReached
  <2>1. live \subseteq S
    BY <1>1 DEF ScanHolds, LiveIsReached
  <2>2. Names(name) \subseteq S
    BY <1>3, <2>1 DEF Closed
  <2> QED BY <1>1, <1>6, <2>1, <2>2
<1>14. QueueHolds'
  <2>1. queue' = front \o more /\ Len(front) \in Nat /\ Len(more) \in Nat
        /\ DOMAIN front = 1..Len(front) /\ DOMAIN more = 1..Len(more)
    BY <1>1, <1>9
  <2>2. /\ DOMAIN queue' = 1..Len(front) + Len(more)
        /\ \A i \in 1..Len(front) : queue'[i] = front[i]
        /\ \A i \in 1..Len(more) : queue'[Len(front) + i] = more[i]
    <3>1. \A i \in 1..Len(more) : Len(front) + i \in 1..Len(front) + Len(more)
      BY <2>1
    <3> HIDE DEF name
    <3>2. DOMAIN (front \o more) = 1..Len(front) + Len(more)
      BY <1>9
    <3>3. \A i \in 1..Len(front) : (front \o more)[i] = front[i]
      BY <1>9
    <3>4. \A i \in 1..Len(more) : (front \o more)[Len(front) + i] = more[i]
      BY <1>9
    <3> QED BY <2>1, <3>2, <3>3, <3>4
  <2>3. ASSUME NEW i \in DOMAIN queue' PROVE queue'[i] \in live'
    <3>1. CASE i \in 1..Len(front)
      <4>1. i \in DOMAIN queue
        BY <1>2, <1>9, <3>1
      <4> QED BY <1>1, <1>9, <2>1, <2>2, <3>1, <4>1 DEF ScanHolds, QueueHolds
    <3>2. CASE i \notin 1..Len(front)
      <4>1. i - Len(front) \in 1..Len(more) /\ i = Len(front) + (i - Len(front))
        BY <2>1, <2>2, <2>3, <3>2
      <4>2. queue'[i] = more[i - Len(front)]
        BY <2>2, <4>1
      <4> QED BY <1>1, <1>9, <2>1, <4>1, <4>2
    <3> QED BY <3>1, <3>2
  <2>4. ASSUME NEW n \in live', n \in DOMAIN bodies' PROVE \E i \in DOMAIN queue' : queue'[i] = n
    <3>1. CASE n \in found
      <4>1. PICK i \in 1..Len(more) : more[i] = n
        BY <1>8, <1>9, <2>1, <3>1
      <4>2. Len(front) + i \in DOMAIN queue' /\ queue'[Len(front) + i] = n
        BY <2>1, <2>2, <4>1
      <4> QED BY <4>2
    <3>2. CASE n \notin found
      <4>1. n \in live /\ n \in DOMAIN bodies /\ n # name
        BY <1>1, <2>4, <3>2
      <4>2. PICK i \in DOMAIN queue : queue[i] = n
        BY <1>1, <4>1 DEF ScanHolds, QueueHolds
      <4>3. i \in 1..Len(front)
        BY <1>2, <1>9, <4>1, <4>2 DEF Last
      <4>4. i \in DOMAIN queue' /\ queue'[i] = n
        BY <1>9, <2>1, <2>2, <4>2, <4>3
      <4> QED BY <4>4
    <3> QED BY <3>1, <3>2
  <2> QED BY <2>3, <2>4 DEF QueueHolds
<1>15. ScanHolds'
  BY <1>11, <1>12, <1>13, <1>14 DEF ScanHolds
<1>16. VerdictIsReachability'
  BY <1>1 DEF VerdictIsReachability, Expand
<1> QED BY <1>10, <1>15, <1>16 DEF RegistrationInv

\* With an empty queue, what is live is closed, hence all that is reached.
LEMMA ReportKeeps == RegistrationInv /\ ReportOrphans => RegistrationInv'
<1> SUFFICES ASSUME RegistrationInv, ReportOrphans PROVE RegistrationInv'
  OBVIOUS
<1>1. /\ ScanTyped /\ ScanHolds /\ read = Len(files) /\ queue = <<>> /\ ~unreadable
      /\ exit' = IF perFile \subseteq live THEN "ok" ELSE "orphans"
      /\ UNCHANGED <<targets, files, unreadable, read, live, perFile, bodies, queue>>
  BY DEF RegistrationInv, ReportOrphans
<1>2. /\ ReadRoots = Roots /\ ReadCases = Cases /\ \A n : ReadNames(n) = Names(n)
  BY <1>1, ReadIsPart
<1>3. ASSUME NEW n \in live PROVE Names(n) \subseteq live
  <2>1. n \in Identifiers
    BY <1>1 DEF ScanTyped
  <2>2. DOMAIN queue = {}
    BY <1>1
  <2>3. n \notin DOMAIN bodies
    BY <1>1, <2>2 DEF ScanHolds, QueueHolds
  <2>4. ~(read < Len(files))
    BY <1>1 DEF ScanTyped
  <2> QED BY <1>1, <1>2, <2>1, <2>3, <2>4 DEF ScanHolds, BodiesHold
<1>4. live \in Closed
  <2>1. live \subseteq Identifiers
    BY <1>1 DEF ScanTyped
  <2>2. Roots \subseteq live
    BY <1>1, <1>2 DEF ScanHolds, RootsAreLive
  <2> QED BY <1>3, <2>1, <2>2 DEF Closed
<1>5. live = Reached
  <2>1. live \subseteq Identifiers
    BY <1>1 DEF ScanTyped
  <2>2. \A S \in Closed : live \subseteq S
    BY <1>1 DEF ScanHolds, LiveIsReached
  <2> QED BY <1>4, <2>1, <2>2 DEF Reached
<1>6. perFile = Cases
  BY <1>1, <1>2 DEF ScanHolds
<1>7. Reached' = Reached /\ Cases' = Cases
  BY <1>1, FilesStand DEF Reached
<1>8. VerdictIsReachability'
  BY <1>1, <1>5, <1>6, <1>7 DEF VerdictIsReachability
<1>9. ScanTyped'
  BY <1>1 DEF ScanTyped
<1> QED BY <1>1, <1>8, <1>9 DEF RegistrationInv

LEMMA RegistrationStep == RegistrationInv /\ [ANext]_avars => RegistrationInv'
<1>1. RegistrationInv /\ GiveUp => RegistrationInv'
  <2> SUFFICES ASSUME RegistrationInv, GiveUp PROVE RegistrationInv'
    OBVIOUS
  <2>1. ScanTyped'
    BY DEF RegistrationInv, GiveUp, ScanTyped
  <2> QED BY <2>1 DEF RegistrationInv, GiveUp, VerdictIsReachability
<1>2. RegistrationInv /\ UNCHANGED avars => RegistrationInv'
  <2> SUFFICES ASSUME RegistrationInv, UNCHANGED avars PROVE RegistrationInv'
    OBVIOUS
  <2>1. UNCHANGED <<targets, files, unreadable, read, live, perFile, bodies, queue, exit>>
    BY DEF avars
  <2>2. /\ ReadRoots' = ReadRoots /\ ReadCases' = ReadCases /\ Closed' = Closed
        /\ (\A n : ReadNames(n)' = ReadNames(n)) /\ Cases' = Cases /\ Reached' = Reached
    BY <2>1, FilesStand DEF Reached
  <2>3. ScanTyped'
    BY <2>1 DEF RegistrationInv, ScanTyped
  <2>4. ScanHolds => ScanHolds'
    BY <2>1, <2>2 DEF ScanHolds, RootsAreLive, BodiesHold, LiveIsReached, QueueHolds
  <2>5. VerdictIsReachability'
    BY <2>1, <2>2 DEF RegistrationInv, VerdictIsReachability
  <2> QED BY <2>1, <2>3, <2>4, <2>5 DEF RegistrationInv
<1> QED BY <1>1, <1>2, WalkKeeps, AnalyzeKeeps, ExpandKeeps, ReportKeeps DEF ANext

\* Whatever is scanned, what is live is reached, and what its bodies lead to is live or
\* waits in the queue.
THEOREM RegistrationInvariant == RegistrationSpec => []RegistrationInv
  BY ScanInit, RegistrationStep, PTL DEF RegistrationSpec

\* Of any tree, the scan says ok exactly when every case is reached from a registration.
THEOREM VerdictOfTheScan == RegistrationSpec => []VerdictIsReachability
<1>1. RegistrationInv => VerdictIsReachability
  BY DEF RegistrationInv
<1> QED BY <1>1, RegistrationInvariant, PTL
=============================================================================

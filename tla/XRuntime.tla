------------------------------ MODULE XRuntime ------------------------------
(***************************************************************************)
(* scripts/xruntime-review.js and scripts/lib/xruntime/: the helper that   *)
(* asks another runtime (codex, opencode) for a review, journals every     *)
(* invocation of one task, and refuses to ask again a runtime whose        *)
(* failure in this cycle is on record (the circuit breaker).               *)
(*                                                                         *)
(* Several invocations run at once (the passes of a review are parallel).  *)
(* An invocation is the two halves around the runtime's own run, which     *)
(* lasts minutes: it decides on the journal and the verdict it reads first *)
(* and appends its line last.  A helper can be killed in between, and an   *)
(* append can be cut short, which leaves a line no one can parse.          *)
(***************************************************************************)
EXTENDS ReviewCycle, Sequences

CONSTANTS
    Runtimes,   \* the runtimes that can be asked
    Versions,   \* what `<runtime> --version` can print
    Sandboxes,  \* "read-only", "workspace-write"
    Helpers,    \* the invocations that can be in flight at once
    MaxLines    \* bound on the length of the journal

ASSUME XBoundsAssumption == {MaxLines, MaxCycle, MaxRound} \subseteq Nat
ASSUME XNothingAssumption == Nothing \notin Versions \cup Runtimes \cup Nat

VARIABLES
    journal,    \* briefs/<task>-xruntime.jsonl, a sequence of lines
    torn,       \* the journal's last line has no end: the next append joins it
    claims,     \* the cross_runtime of the next verdict, as drafted so far
    installed,  \* per runtime, the version that answers, Nothing if none does
    running,    \* per helper, the invocation whose runtime is working, or Nothing
    answer,     \* what the last helper printed
    armed,      \* history: <<runtime, digest>> last found faulty in this cycle
    printed     \* history: <<runtime, digest, faulty>> printed in this cycle

xvars == <<journal, torn, review, claims, installed, running, answer, armed, printed>>

(* computeDigest(s): the runtime's name, what its version probe printed and *)
(* the sandbox; a probe that hangs or cannot start gets a placeholder that  *)
(* names neither.                                                           *)
DigestOf(r, sandbox) ==
    IF installed[r] = Nothing
    THEN [runtime |-> r, version |-> Nothing, sandbox |-> Nothing]
    ELSE [runtime |-> r, version |-> installed[r], sandbox |-> sandbox]
Digests == [runtime : Runtimes, version : Versions, sandbox : Sandboxes]
           \cup [runtime : Runtimes, version : {Nothing}, sandbox : {Nothing}]

(* A line of the journal.  Only what a reader of the journal looks at is    *)
(* kept: `poison` stands for reason "malformed-journal".                    *)
Line == [runtime : Runtimes, digest : Digests, cycle : Cycles \cup {Nothing},
         outcome : {"healthy", "degraded", "skipped-human", "skipped-degraded", "blocked"},
         fault : {"runtime", "caller", Nothing}, poison : BOOLEAN]
Corrupt == [outcome |-> "corrupt"]    \* a line JSON.parse rejects
ASSUME XLinesAssumption == Nothing \notin Line \cup {Corrupt}

(* What the rules of the helper look at in the persisted verdict, and what  *)
(* its cross_runtime says of one runtime.                                   *)
CheckedStatuses == {"healthy", "degraded", "skipped-human"}
Claim == [status : CheckedStatuses \cup {"skipped-degraded", "blocked"}, digest : Digests,
          round : Rounds, fault : {"runtime", "caller", Nothing}]
NoClaims == [r \in Runtimes |-> Nothing]
XVerdict == [state : {"valid", "malformed"}, status : {"GO", "NO-GO"}, cycle : Cycles,
            round : Rounds, cross : [Runtimes -> Claim \cup {Nothing}]]

(* The cycle the skill passes as --cycle.                                   *)
CurrentCycle == NextCycle(review)

-----------------------------------------------------------------------------
(* classify: what one finished run of the wrapper is worth, and whose fault *)
(* it is (FAULT_BY_OUTCOME).  Spawn errors, corroborated timeouts and tree  *)
(* mutations, any other exit than 0, and an empty answer are the runtime's  *)
(* fault; an answer that is not a findings array is the caller's.           *)
Runs == [exit : {"spawn-error", "tree-mutated", "timed-out", "nonzero", "zero"},
         output : {"empty", "findings", "other"}]
Classify(run) ==
    IF run.exit # "zero" \/ run.output = "empty"
    THEN [outcome |-> "degraded", fault |-> "runtime"]
    ELSE IF run.output = "other"
    THEN [outcome |-> "degraded", fault |-> "caller"]
    ELSE [outcome |-> "healthy", fault |-> Nothing]

(* readLatestJournalEntry: scanning from the end, the first line that is    *)
(* either an unreadable one inside the enforcement window or a record of    *)
(* this runtime and digest that is not itself a refusal.  A readable line   *)
(* of another cycle closes the window, when the current cycle is known.     *)
ClosesWindow(line, cycle) ==
    cycle # Nothing /\ line # Corrupt /\ line.cycle # Nothing /\ line.cycle # cycle
InsideWindow(i, cycle) == \A j \in i + 1 .. Len(journal) : ~ClosesWindow(journal[j], cycle)
\* mutant: the breaker's own refusal counts as the last outcome
IsHumanRefusal(line) == line.outcome = "skipped-human"
IsRefusal(line) == line.outcome \in {"skipped-degraded", "skipped-human"}
Answers(line, r, d) == line # Corrupt /\ line.runtime = r /\ line.digest = d /\ ~IsRefusal(line)

LatestEntry(r, d, cycle) ==
    LET stops == { i \in 1..Len(journal) :
                     IF journal[i] = Corrupt THEN InsideWindow(i, cycle)
                                             ELSE Answers(journal[i], r, d) }
    IN  IF stops = {} THEN Nothing ELSE journal[CHOOSE i \in stops : \A j \in stops : j <= i]

(* What the caller of readLatestJournalEntry sees as malformed: an          *)
(* unreadable line, or the record that an earlier invocation met one.       *)
Malformed(entry) == entry # Nothing /\ (entry = Corrupt \/ (entry.outcome = "blocked" /\ entry.poison))

\* mutant: the fault of a degradation is not told apart
NoCallerFault(entry) == FALSE

IsCallerFault(entry) == entry.fault = "caller"

(* shouldRefuseDegraded: the two records that can refuse a repeated probe.  *)
VerdictRefuses(r, d) ==
    /\ review.state = "valid" /\ review.status = "NO-GO" /\ review.cross[r] # Nothing
    /\ review.cross[r].status = "degraded"
    /\ review.cross[r].digest = d
    /\ ~IsCallerFault(review.cross[r])
JournalRefuses(entry, cycle) ==
    /\ entry # Nothing /\ entry.outcome = "degraded"
    /\ ~IsCallerFault(entry)
    /\ cycle # Nothing /\ entry.cycle = cycle
ShouldRefuse(args, d, entry) ==
    ~args.humanRetry /\ (VerdictRefuses(args.runtime, d) \/ JournalRefuses(entry, args.cycle))

-----------------------------------------------------------------------------
(* What the command line of a review invocation can say.                    *)
ReviewArgs == [runtime : Runtimes, sandbox : Sandboxes, cycle : {CurrentCycle, Nothing},
               humanRetry : BOOLEAN]

JournalLine(args, d, outcome, fault, poison) ==
    [runtime |-> args.runtime, digest |-> d, cycle |-> args.cycle,
     outcome |-> outcome, fault |-> fault, poison |-> poison]
AnswerOf(phase, status, fault, r, d) ==
    [phase |-> phase, status |-> status, fault |-> fault, runtime |-> r, digest |-> d]
NoAnswer == AnswerOf("review", "failed", Nothing, Nothing, Nothing)

(* appendJournalLine: the line, unless it joins one that was cut short.     *)
(* The append can itself be cut short, which the helper sees as a failure.  *)
AppendLine(line) ==
    /\ journal' = IF torn THEN journal ELSE Append(journal, line)
    /\ torn' = FALSE
AppendCutShort ==
    /\ journal' = IF torn THEN journal ELSE Append(journal, Corrupt)
    /\ torn' = TRUE
AppendFails == AppendCutShort \/ UNCHANGED <<journal, torn>>

(* The line is printed.  A runtime and digest are armed as long as the last *)
(* thing printed of them that is no refusal is a fault of the runtime; what *)
(* an invocation finds that was not told the cycle counts for no cycle.     *)
Faulty(line) == line.outcome = "degraded" /\ line.fault = "runtime"
Prints(line) ==
    LET key == <<line.runtime, line.digest>> IN
    /\ answer' = AnswerOf("review", line.outcome, line.fault, line.runtime, line.digest)
    /\ armed' = IF line.outcome \in {"skipped-degraded", "skipped-human"} THEN armed
                ELSE IF Faulty(line) /\ line.cycle # Nothing THEN armed \cup {key}
                ELSE armed \ {key}
    /\ printed' = printed \cup {<<line.runtime, line.digest, Faulty(line)>>}

(* finish: the line is journaled before anything is printed; a failed       *)
(* append ends the helper with nothing printed.                             *)
Finish(line) ==
    /\ Len(journal) < MaxLines
    /\ \/ /\ AppendLine(line)
          /\ Prints(line)
       \/ /\ AppendFails
          /\ answer' = NoAnswer
          /\ UNCHANGED <<armed, printed>>

(* finishBlocked prints whether or not its line could be journaled.         *)
FinishBlocked(line) ==
    /\ Len(journal) < MaxLines
    /\ AppendLine(line) \/ AppendFails
    /\ Prints(line)

-----------------------------------------------------------------------------
(* main and tryFinishEarly, one action for each way an invocation starts.   *)
Decides(h, args) == running[h] = Nothing /\ args \in ReviewArgs /\ CurrentCycle \in Cycles
Entry(args) == LatestEntry(args.runtime, DigestOf(args.runtime, args.sandbox), args.cycle)
Digest(args) == DigestOf(args.runtime, args.sandbox)

\* --skip: a human decided; nothing is consulted
SkippedByHuman(h, args) ==
    /\ Decides(h, args)
    /\ Finish(JournalLine(args, Digest(args), "skipped-human", Nothing, FALSE))
    /\ UNCHANGED <<review, claims, installed, running>>

\* the persisted verdict cannot be parsed
VerdictMalformed(h, args) ==
    /\ Decides(h, args) /\ review.state = "malformed"
    /\ FinishBlocked(JournalLine(args, Digest(args), "blocked", Nothing, FALSE))
    /\ UNCHANGED <<review, claims, installed, running>>

\* a journal line in the window cannot be parsed
JournalMalformed(h, args) ==
    /\ Decides(h, args) /\ review.state # "malformed"
    /\ Malformed(Entry(args))
    /\ FinishBlocked(JournalLine(args, Digest(args), "blocked", Nothing, TRUE))
    /\ UNCHANGED <<review, claims, installed, running>>

Proceeds(h, args) ==
    /\ Decides(h, args)
    /\ review.state # "malformed"
    /\ ~Malformed(Entry(args))

Refused(h, args) ==
    /\ Proceeds(h, args)
    /\ ShouldRefuse(args, Digest(args), Entry(args))
    /\ Finish(JournalLine(args, Digest(args), "skipped-degraded", Nothing, FALSE))
    /\ UNCHANGED <<review, claims, installed, running>>

\* the version probe hung or could not start: there is nothing to invoke
VersionProbeFailed(h, args) ==
    /\ Proceeds(h, args)
    /\ ~ShouldRefuse(args, Digest(args), Entry(args))
    /\ installed[args.runtime] = Nothing
    /\ Finish(JournalLine(args, Digest(args), "degraded", "runtime", FALSE))
    /\ UNCHANGED <<review, claims, installed, running>>

\* runWrapper: the runtime is asked and works on its own for a while
Invoke(h, args) ==
    /\ Proceeds(h, args)
    /\ ~ShouldRefuse(args, Digest(args), Entry(args))
    /\ installed[args.runtime] # Nothing
    /\ running' = [running EXCEPT ![h] = [args |-> args, digest |-> Digest(args)]]
    /\ UNCHANGED <<journal, torn, review, claims, installed, answer, armed, printed>>

\* the wrapper ends: classify, then finish with the digest taken at the start
WrapperEnds(h, c) ==
    /\ running[h] # Nothing
    /\ Finish(JournalLine(running[h].args, running[h].digest, c.outcome, c.fault, FALSE))
    /\ running' = [running EXCEPT ![h] = Nothing]
    /\ UNCHANGED <<review, claims, installed>>

\* the helper is killed, or cannot stage its prompt: nothing is journaled
Killed(h) ==
    /\ running[h] # Nothing
    /\ running' = [running EXCEPT ![h] = Nothing]
    /\ UNCHANGED <<journal, torn, review, claims, installed, answer, armed, printed>>

(* finishQaAvailability: after a GO, whether QA may use the runtime.  The   *)
(* digests of both sandboxes are accepted; the version is probed once.      *)
AcceptedDigests(r) == { DigestOf(r, s) : s \in Sandboxes }
QaRefuses(r, humanRetry) ==
    /\ ~humanRetry /\ review.cross[r] # Nothing
    /\ review.cross[r].status = "degraded"
    /\ review.cross[r].digest \in AcceptedDigests(r)

QaAvailability(r, humanRetry) ==
    /\ \/ /\ installed[r] = Nothing
          /\ answer' = AnswerOf("qa", "skipped-degraded", Nothing, r, Nothing)
       \/ /\ installed[r] # Nothing /\ review.state = "valid" /\ review.status = "GO"
          /\ answer' = AnswerOf("qa", IF QaRefuses(r, humanRetry) THEN "skipped-degraded" ELSE "available",
                              Nothing, r, Nothing)
    /\ UNCHANGED <<journal, torn, review, claims, installed, running, armed, printed>>

QaVerdictMalformed(r, sandbox) ==
    /\ installed[r] # Nothing /\ review.state = "malformed" /\ CurrentCycle \in Cycles
    /\ FinishBlocked(JournalLine([runtime |-> r, cycle |-> Nothing], DigestOf(r, sandbox), "blocked", Nothing, FALSE))
    /\ UNCHANGED <<review, claims, installed, running>>

(* The runtime is upgraded, removed or installed again.                     *)
Upgrade(r, v) ==
    /\ v # installed[r]
    /\ installed' = [installed EXCEPT ![r] = v]
    /\ UNCHANGED <<journal, torn, review, claims, running, answer, armed, printed>>

-----------------------------------------------------------------------------
(* The skill beside the helper.  The verdict's cross_runtime is written by  *)
(* hand: what the helper printed last, or a probe that never was.           *)
ClaimNow(r, status, fault, d) ==
    /\ Open
    /\ claims' = [claims EXCEPT ![r] = [status |-> status, digest |-> d, fault |-> fault,
                                       round |-> NextRound(review)]]
    /\ answer' = NoAnswer
    /\ UNCHANGED <<journal, torn, review, installed, running, armed, printed>>
RecordProbe(r) ==
    /\ answer.phase = "review" /\ answer.runtime = r
    /\ ClaimNow(r, answer.status, answer.fault, answer.digest)
InventProbe(r, s) == claims[r] = Nothing /\ ClaimNow(r, "healthy", Nothing, DigestOf(r, s))

(* computeCrossRuntimeCorroboration: a probe claimed for this round needs a *)
(* journal line of its runtime, digest and cycle, whatever that line says.  *)
\* mutant: a line of any cycle corroborates
CorroboratesAnyCycle(line, r, claim, cycle) ==
    line # Corrupt /\ line.runtime = r /\ line.digest = claim.digest

Corroborates(line, r, claim, cycle) ==
    /\ line # Corrupt
    /\ line.runtime = r /\ line.digest = claim.digest /\ line.cycle = cycle
UnattestedProbe(cross, cycle, round) ==
    \E r \in Runtimes :
        /\ cross[r] # Nothing
        /\ cross[r].round = round /\ cross[r].status \in CheckedStatuses
        /\ \A i \in 1..Len(journal) : ~Corroborates(journal[i], r, cross[r], cycle)

(* The verdict is gated and persisted once no probe is running: a GO only   *)
(* if the gate finds its probes attested.  The next draft starts from it.   *)
XPersist(status) ==
    /\ Open /\ \A h \in Helpers : running[h] = Nothing
    /\ status = "GO" => ~UnattestedProbe(claims, CurrentCycle, NextRound(review))
    /\ review' = [state |-> "valid", status |-> status, cycle |-> CurrentCycle,
                  round |-> NextRound(review), cross |-> claims]
    /\ claims' = Carried(review', claims, NoClaims)
    /\ answer' = NoAnswer
    /\ armed' = Carried(review', armed, {})
    /\ printed' = Carried(review', printed, {})
    /\ UNCHANGED <<journal, torn, installed, running>>

(* A write of the persisted verdict is cut short, and later repaired.       *)
XDamage ==
    /\ review.state = "valid"
    /\ review' = [review EXCEPT !.state = "malformed"]
    /\ UNCHANGED <<journal, torn, claims, installed, running, answer, armed, printed>>
XRepair ==
    /\ review.state = "malformed"
    /\ review' = [review EXCEPT !.state = "valid"]
    /\ UNCHANGED <<journal, torn, claims, installed, running, answer, armed, printed>>

-----------------------------------------------------------------------------
XInit ==
    /\ journal = <<>> /\ torn = FALSE
    /\ review = NoVerdict /\ claims = NoClaims
    /\ installed \in [Runtimes -> Versions]
    /\ running = [h \in Helpers |-> Nothing]
    /\ answer = NoAnswer
    /\ armed = {} /\ printed = {}

XNext ==
    \/ \E h \in Helpers, args \in ReviewArgs :
          \/ SkippedByHuman(h, args) \/ VerdictMalformed(h, args) \/ JournalMalformed(h, args)
          \/ Refused(h, args) \/ VersionProbeFailed(h, args) \/ Invoke(h, args)
    \/ \E h \in Helpers : Killed(h) \/ \E c \in {Classify(run) : run \in Runs} : WrapperEnds(h, c)
    \/ \E r \in Runtimes :
          \/ \E retry \in BOOLEAN : QaAvailability(r, retry)
          \/ \E s \in Sandboxes : QaVerdictMalformed(r, s)
          \/ \E v \in Versions \cup {Nothing} : Upgrade(r, v)
          \/ RecordProbe(r)
          \/ \E s \in Sandboxes : InventProbe(r, s)
    \/ \E status \in {"GO", "NO-GO"} : XPersist(status)
    \/ XDamage \/ XRepair

XSpec == XInit /\ [][XNext]_xvars

(* The files and the helpers' state are well formed.                        *)
XTypeOK ==
    /\ \A i \in 1..Len(journal) : journal[i] \in Line \cup {Corrupt}
    /\ torn \in BOOLEAN
    /\ review = NoVerdict \/ review \in XVerdict
    /\ claims \in [Runtimes -> Claim \cup {Nothing}]
    /\ installed \in [Runtimes -> Versions \cup {Nothing}]
    /\ \A h \in Helpers : running[h] # Nothing => running[h].digest \in Digests

(* A probe is refused only when a fault of the runtime, never one of the    *)
(* caller, was reported at this digest in this cycle.                       *)
RefusalJustified ==
    [][answer' # answer /\ answer'.phase = "review" /\ answer'.status = "skipped-degraded"
       => <<answer'.runtime, answer'.digest, TRUE>> \in printed]_xvars

(* Once a fault of the runtime is the last thing reported at a digest in    *)
(* this cycle, by an invocation that knew the cycle, no other one that does *)
(* asks the runtime again unless a human says so.                           *)
ArmedStaysArmed ==
    [][\A h \in Helpers : running[h] = Nothing /\ running'[h] # Nothing
        => LET i == running'[h] IN
           \/ i.args.humanRetry \/ i.args.cycle = Nothing
           \/ <<i.args.runtime, i.digest>> \notin armed]_xvars

(* The probes a GO claims for its own round are ones that were made, and    *)
(* told what they found, in its cycle.                                      *)
ClaimsAreJournaled ==
    [][review' # review /\ review'.state = "valid" /\ review.state # "malformed" /\ review'.status = "GO"
       => \A r \in Runtimes : LET c == review'.cross[r] IN
            c # Nothing /\ c.round = review'.round /\ c.status \in CheckedStatuses
            => \E p \in printed : p[1] = r /\ p[2] = c.digest]_xvars
=============================================================================

---------------------------- MODULE MandatedSteps ----------------------------
(***************************************************************************)
(* scripts/check-mandated-steps.js and scripts/lib/mandated-steps-rules.js *)
(* on the ledger of one task: the record mode appends a line, the check     *)
(* mode answers for a phase, and a crash can tear the line being appended. *)
(***************************************************************************)
EXTENDS Naturals, Sequences, SequencesExt

CONSTANTS
    Task,     \* the task whose ledger this is
    Calls,    \* what record mode is called with
    Demands,  \* what check mode is called with
    MaxRecords  \* bound on the lines of the ledger

VARIABLES
    ledgerLines, \* the lines of the ledger, each a record or MalformedLine
    tornLine,    \* the last line has no end of line
    checked,     \* the exit code of the last check and the steps it required, or NotChecked
    acked        \* history: the records whose append was acknowledged

mvars == <<ledgerLines, tornLine, checked, acked>>

Steps == {"preflight", "human-gate", "xruntime", "scope-gate", "degraded-specialist"}
HumanOnly == {"human-gate"}
Repeatable == {"degraded-specialist"}
Results == {"READY", "NOT-READY", "PASS", "FAIL", "N/A"}
PhaseRequirements ==
    [plan |-> {"human-gate"}, implement |-> {"preflight"}, qa |-> {"preflight"},
     ship |-> {"preflight", "human-gate"}, review |-> {}, spec |-> {},
     research |-> {}, question |-> {}, intake |-> {}]

MalformedLine == [step |-> "malformed"]
NotChecked == [exit |-> "none", required |-> {}]

MInit == ledgerLines = <<>> /\ tornLine = FALSE /\ checked = NotChecked /\ acked = <<>>

------------------------------------------------------------------------------
(* Record mode: what it refuses it leaves unwritten.  It looks neither at   *)
(* who may say that a step ran, nor at what the ledger already holds.       *)
Accepts(r) ==
    /\ r.step \in Steps
    /\ r.outcome \in {"ran", "skipped"} /\ r.actor \in {"human", "agent"}
    /\ r.outcome = "skipped" => r.reason
    /\ r.outcome = "ran" => r.result \in Results
WithoutResult(r) == IF r.outcome = "ran" THEN r ELSE [r EXCEPT !.result = "none"]

\* appendFileSync starts where the file ends: in the middle of a torn line.
Appended(line) == IF tornLine THEN Front(ledgerLines) \o <<MalformedLine>> ELSE Append(ledgerLines, line)

RecordMode(r) ==
    /\ checked' = NotChecked
    /\ \/ ~Accepts(r) /\ UNCHANGED <<ledgerLines, tornLine, acked>>
       \/ /\ Accepts(r) /\ Len(ledgerLines) < MaxRecords
          /\ ledgerLines' = Appended(WithoutResult(r)) /\ tornLine' = FALSE
          /\ acked' = Append(acked, WithoutResult(r))

\* The write stops part way, or only the end of the line is missing.
Tear(r) ==
    /\ Accepts(r) /\ Len(ledgerLines) < MaxRecords
    /\ \E line \in {MalformedLine, WithoutResult(r)} : ledgerLines' = Appended(line)
    /\ tornLine' = TRUE /\ checked' = NotChecked /\ UNCHANGED acked

------------------------------------------------------------------------------
ValidRecord(r) ==
    \/ r.outcome = "skipped" /\ r.reason
    \/ /\ r.outcome = "ran" /\ r.result \in Results
       /\ r.result \in {"NOT-READY", "FAIL"} => r.reason
       /\ r.step \in HumanOnly => r.actor = "human"

\* The records are the lines that parsed, given by their numbers.
ValidRecordSet(records) ==
    /\ \A i \in records : ValidRecord(ledgerLines[i]) /\ ledgerLines[i].task = Task
    /\ \A i, j \in records :
          i # j /\ ledgerLines[i].step = ledgerLines[j].step => ledgerLines[i].step \in Repeatable

Missing(records, required) == required \ {ledgerLines[i].step : i \in records}

\* A phase, or the steps named by --require.
Unknown(demand) == demand.phase \notin DOMAIN PhaseRequirements /\ demand.steps = {}
ResolveRequirements(demand) ==
    IF demand.steps # {} THEN demand.steps ELSE PhaseRequirements[demand.phase]
UsageError(demand) == Unknown(demand) \/ ~demand.steps \subseteq Steps

\* Mutant: a line that does not parse is left out.
SkipsMalformed(lines) == {}
Malformations(lines) == {i \in DOMAIN lines : lines[i] = MalformedLine}

Evaluate(records, demand) ==
    LET required == ResolveRequirements(demand)
        ok == ValidRecordSet(records) /\ Missing(records, required) = {}
    IN [exit |-> IF ok THEN "ok" ELSE "no", required |-> required]

CheckMode(demand) ==
    /\ UNCHANGED <<ledgerLines, tornLine, acked>>
    /\ checked' = IF Malformations(ledgerLines) # {} \/ UsageError(demand)
                  THEN [exit |-> "usage", required |-> {}]
                  ELSE Evaluate({i \in DOMAIN ledgerLines : ledgerLines[i] # MalformedLine}, demand)

MNext == (\E r \in Calls : RecordMode(r) \/ Tear(r)) \/ (\E d \in Demands : CheckMode(d))
LedgerSpec == MInit /\ [][MNext]_mvars

------------------------------------------------------------------------------
(* A check that passes has counted every record a caller was told was       *)
(* written, each of this task, no step twice, none an agent's word that the *)
(* human gate ran; whatever was torn or glued together in between.          *)
PassCountsEverything ==
    checked.exit = "ok" =>
        /\ \A i \in DOMAIN acked : \E j \in DOMAIN ledgerLines : ledgerLines[j] = acked[i]
        /\ \A i, j \in DOMAIN acked :
              i # j /\ acked[i].step = acked[j].step => acked[i].step = "degraded-specialist"
        /\ \A i \in DOMAIN acked :
              /\ acked[i].task = Task
              /\ acked[i].step = "human-gate" /\ acked[i].outcome = "ran"
                    => acked[i].actor = "human"
=============================================================================

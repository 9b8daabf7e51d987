------------------------------ MODULE Autopilot ------------------------------
(***************************************************************************)
(* formal/convergence-safety/formal-verif-autopilot.workflow.js: the       *)
(* script that drives the formal verification plan.  A tick picks a task,  *)
(* has it executed, gates the result (apparatus check, one fix, review,    *)
(* one revision), commits it on GO, and lets the apparatus evolve.         *)
(*                                                                         *)
(* Everything is done by agents, which are external: one can report        *)
(* anything its schema allows, and an agent that edits files may or may    *)
(* not have changed them.  An agent that returns nothing makes the script  *)
(* throw, which ends the tick and leaves the working tree as it is; the    *)
(* next tick starts from that tree.                                        *)
(***************************************************************************)
EXTENDS Integers

CONSTANTS
    MaxTick,    \* bound on the number of ticks
    MaxEdits,   \* bound on the number of edits
    MaxAttempts \* reviews of one skill update

ASSUME BoundsAssumption == {MaxTick, MaxEdits} \subseteq Nat /\ MaxAttempts \in Nat \ {0}

VARIABLES
    pc,         \* the agent the script waits for, or "done"
    tick,
    spec,       \* version of the specification and its proofs in the working tree
    task,       \* taskResult.status
    gate,       \* gateVerdict
    attempt,    \* reviews of this tick's skill update so far
    content,    \* currentContent: the text proposed last, 0 when it is empty or absent
    passed,     \* history: the spec the last passing check of this tick looked at
    approved,   \* history: the spec the last review of this tick said GO on
    revised,    \* history: this tick's reviewer had the spec revised
    pushed,     \* history: the newest spec that was committed
    applied,    \* history: per tick, the texts applied to the apparatus skill
    endorsed    \* history: the text the last review of the skill update said GO on

gateVars == <<task, gate, passed, approved, revised>>
skillVars == <<attempt, content, applied, endorsed>>
pvars == <<pc, tick, spec, pushed, gateVars, skillVars>>

NoVersion == -1
SpecVersions == 0..MaxEdits
Verdicts == {"GO", "REVISE", "BLOCK"}
Waiting == {"plan", "baseline", "execute", "check", "link-fix", "re-check", "review", "revise",
            "second-review", "cmbt", "commit", "propose", "skill-review", "apply", "rewrite",
            "feedback", "log", "self-adapt"}

(* The script's state is well formed.                                       *)
PTypeOK ==
    /\ pc \in Waiting \cup {"done"} /\ tick \in 0..MaxTick
    /\ spec \in SpecVersions /\ pushed \in SpecVersions \cup {NoVersion}
    /\ task \in {"complete", "partial", "blocked", "skipped"}
    /\ gate \in {"SKIP", "GO", "BLOCK", "FAIL-PIPELINE"}
    /\ passed \in SpecVersions \cup {NoVersion} /\ approved \in SpecVersions \cup {NoVersion}
    /\ revised \in BOOLEAN
    /\ attempt \in 0..MaxAttempts /\ content \in 0..MaxAttempts
    /\ applied \in [0..MaxTick -> SUBSET (0..MaxAttempts)]
    /\ endorsed \in 0..MaxAttempts \cup {NoVersion}

PInit ==
    /\ pc = "plan" /\ tick = 0
    /\ spec = 0 /\ pushed = NoVersion
    /\ task = "skipped" /\ gate = "SKIP"
    /\ passed = NoVersion /\ approved = NoVersion /\ revised = FALSE
    /\ attempt = 0 /\ content = 0 /\ endorsed = NoVersion
    /\ applied = [t \in 0..MaxTick |-> {}]

-----------------------------------------------------------------------------
(* The specification is edited, or left as it is.                           *)
EditSpec == spec' = spec \/ (spec < MaxEdits /\ spec' = spec + 1)
Tree == <<spec, pushed>>

(* safeAgent: a null result throws; a check that is null throws as soon as  *)
(* its fields are read.                                                     *)
Throw ==
    /\ pc # "done"
    /\ pc' = "done"
    /\ UNCHANGED <<tick, Tree, gateVars, skillVars>>

(* Phase 0: a hard blocker, or a task for the human, ends the tick.         *)
Plan ==
    /\ pc = "plan"
    /\ pc' \in {"baseline", "done"}
    /\ UNCHANGED <<tick, Tree, gateVars, skillVars>>

(* Phase 1: the baseline's result is only logged.                           *)
Baseline ==
    /\ pc = "baseline"
    /\ pc' = "execute"
    /\ UNCHANGED <<tick, Tree, gateVars, skillVars>>

(* Phase 2                                                                  *)
Execute ==
    /\ pc = "execute"
    /\ task' \in {"complete", "partial", "blocked", "skipped"}
    /\ EditSpec
    /\ pc' = IF task' \in {"complete", "partial"} THEN "check" ELSE "propose"
    /\ UNCHANGED <<tick, pushed, gate, passed, approved, revised, skillVars>>

-----------------------------------------------------------------------------
(* Phase 3, the apparatus check: one attempt to fix what fails, and a       *)
(* second failure closes the gate.                                          *)
Check(ok) ==
    /\ pc \in {"check", "re-check"}
    /\ passed' = IF ok THEN spec ELSE passed
    /\ gate' = IF pc = "re-check" /\ ~ok THEN "FAIL-PIPELINE" ELSE gate
    /\ pc' = CASE ok                       -> "review"
               [] ~ok /\ pc = "check"      -> "link-fix"
               [] ~ok /\ pc = "re-check"   -> "propose"
    /\ UNCHANGED <<tick, Tree, task, approved, revised, skillVars>>

LinkFix ==
    /\ pc = "link-fix"
    /\ EditSpec
    /\ pc' = "re-check"
    /\ UNCHANGED <<tick, pushed, gateVars, skillVars>>

(* The first review may ask for one revision; the second one decides.       *)
Decide(verdict) ==
    /\ approved' = IF verdict = "GO" THEN spec ELSE approved
    /\ gate' = IF verdict = "GO" THEN "GO" ELSE "BLOCK"
    /\ pc' = IF verdict = "GO" THEN "cmbt" ELSE "propose"
    /\ UNCHANGED <<tick, Tree, task, passed, revised, skillVars>>

Review(verdict) ==
    /\ pc = "review"
    /\ \/ verdict # "REVISE" /\ Decide(verdict)
       \/ /\ verdict = "REVISE"
          /\ pc' = "revise"
          /\ UNCHANGED <<tick, Tree, gateVars, skillVars>>

\* mutant: the revised specification is not reviewed again
ReviseAndGo ==
    /\ pc = "revise"
    /\ EditSpec
    /\ revised' = TRUE /\ gate' = "GO"
    /\ pc' = "cmbt"
    /\ UNCHANGED <<tick, pushed, task, passed, approved, skillVars>>

Revise ==
    /\ pc = "revise"
    /\ EditSpec
    /\ revised' = TRUE
    /\ pc' = "second-review"
    /\ UNCHANGED <<tick, pushed, task, gate, passed, approved, skillVars>>

SecondReview(verdict) == pc = "second-review" /\ Decide(verdict)

(* After GO: the tests are run and the bugs they show are fixed in the      *)
(* checker, the conformance model or the extracted model, which no one      *)
(* reviews; the specification is left as it was approved.                   *)
Cmbt ==
    /\ pc = "cmbt"
    /\ pc' = "commit"
    /\ UNCHANGED <<tick, Tree, gateVars, skillVars>>

(* The agent that commits may fail to.                                      *)
Commit ==
    /\ pc = "commit"
    /\ pushed' \in {pushed, spec}
    /\ pc' = "propose"
    /\ UNCHANGED <<tick, spec, gateVars, skillVars>>

-----------------------------------------------------------------------------
(* Phase 4: a proposal to change the apparatus skill, whose text the schema *)
(* lets the agent leave out, and the loop of reviews until one is approved. *)
Propose ==
    /\ pc = "propose"
    /\ \/ pc' = "feedback" /\ content' = content
       \/ pc' = "skill-review" /\ content' \in {0, 1}
    /\ UNCHANGED <<tick, Tree, gateVars, attempt, applied, endorsed>>

\* mutant: the third review sends the text back once more
SkillReviewForever(verdict) ==
    /\ pc = "skill-review"
    /\ attempt' = IF attempt + 1 < MaxAttempts THEN attempt + 1 ELSE attempt
    /\ endorsed' = IF verdict = "GO" THEN content ELSE NoVersion
    /\ pc' = CASE verdict = "GO"     -> "apply"
               [] verdict = "REVISE" -> "rewrite"
               [] OTHER              -> "feedback"
    /\ UNCHANGED <<tick, Tree, gateVars, content, applied>>

SkillReview(verdict) ==
    /\ pc = "skill-review"
    /\ attempt' = attempt + 1
    /\ endorsed' = IF verdict = "GO" THEN content ELSE NoVersion
    /\ pc' = CASE verdict = "GO"                                  -> "apply"
               [] verdict = "REVISE" /\ attempt' < MaxAttempts    -> "rewrite"
               [] OTHER                                           -> "feedback"
    /\ UNCHANGED <<tick, Tree, gateVars, content, applied>>

(* The loop goes on while approvedContent is falsy, even when it was just   *)
(* applied.                                                                 *)
Apply ==
    /\ pc = "apply"
    /\ applied' = [applied EXCEPT ![tick] = @ \cup {content}]
    /\ pc' = IF content = 0 /\ attempt < MaxAttempts THEN "skill-review" ELSE "feedback"
    /\ UNCHANGED <<tick, Tree, gateVars, attempt, content, endorsed>>

\* mutant: a text that was sent back is applied once it is rewritten
RewriteAndApply ==
    /\ pc = "rewrite"
    /\ content' \in {0, attempt + 1}
    /\ pc' = "apply"
    /\ UNCHANGED <<tick, Tree, gateVars, attempt, applied, endorsed>>

Rewrite ==
    /\ pc = "rewrite"
    /\ content' \in {0, attempt + 1}
    /\ pc' = "skill-review"
    /\ UNCHANGED <<tick, Tree, gateVars, attempt, applied, endorsed>>

(* Phase 5: the feedback, its log entry, and the script's own adaptation,   *)
(* whose result is assigned to an undeclared name.                          *)
Feedback ==
    /\ \/ pc = "feedback" /\ pc' = "log"
       \/ pc = "log" /\ pc' \in {"self-adapt", "done"}
       \/ pc = "self-adapt" /\ pc' = "done"
    /\ UNCHANGED <<tick, Tree, gateVars, skillVars>>

(* The script is started again for the next tick.                           *)
NextTick ==
    /\ pc = "done" /\ tick < MaxTick
    /\ pc' = "plan" /\ tick' = tick + 1
    /\ task' = "skipped" /\ gate' = "SKIP"
    /\ passed' = NoVersion /\ approved' = NoVersion /\ revised' = FALSE
    /\ attempt' = 0 /\ content' = 0 /\ endorsed' = NoVersion
    /\ UNCHANGED <<Tree, applied>>

Agents ==
    \/ Plan \/ Baseline \/ Execute
    \/ \E ok \in BOOLEAN : Check(ok)
    \/ \E v \in Verdicts : Review(v) \/ SecondReview(v) \/ SkillReview(v)
    \/ LinkFix \/ Revise \/ Cmbt \/ Commit
    \/ Propose \/ Apply \/ Rewrite \/ Feedback
PNext == Agents \/ Throw \/ NextTick
PSpec == PInit /\ [][PNext]_pvars

(* Every agent returns, or the script gives it up.                          *)
PFairSpec == PSpec /\ WF_pvars(Agents \/ Throw)

-----------------------------------------------------------------------------
(* What is committed is the specification a review of this tick said GO on, *)
(* and a check of this tick passed it, or passed the one its reviewer then  *)
(* had revised; edits a failed or abandoned tick left behind never get in   *)
(* with the next one unseen.                                                *)
CommitsAreGated ==
    [][pushed' # pushed =>
         /\ gate = "GO" /\ approved = pushed'
         /\ passed # NoVersion
         /\ passed = pushed' \/ revised]_pvars

(* What is applied to the apparatus skill is the very text the last review  *)
(* of it said GO on, never one a review sent back or blocked.               *)
AppliedIsEndorsed ==
    [][\A t \in 0..MaxTick : applied'[t] # applied[t] => applied'[t] = applied[t] \cup {endorsed}]_pvars

(* Every tick ends, whatever its reviewers keep asking for.                 *)
TickEnds == pc = "plan" ~> pc = "done"
=============================================================================

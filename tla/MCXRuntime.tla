----------------------------- MODULE MCXRuntime -----------------------------
(* One runtime with one version, two interchangeable invocations, and a     *)
(* journal of a few lines over two cycles.                                  *)
EXTENDS XRuntime, TLC

CONSTANTS codex, v1, h1, h2

MCSymmetry == Permutations(Helpers)

(* The helper works on into the second cycle, until its verdict is in; an   *)
(* append is cut short or a verdict damaged while the journal is short; two *)
(* invocations overlap before the first claim of the first verdict.         *)
Small ==
    /\ review.state = "absent" \/ review.cycle < MaxCycle
    /\ torn \/ review.state = "malformed" \/ answer.phase = "qa" => Len(journal) < MaxLines
    /\ (\A h \in Helpers : running[h] # Nothing) =>
          review.state = "absent" /\ claims = NoClaims /\ Len(journal) < MaxLines
=============================================================================

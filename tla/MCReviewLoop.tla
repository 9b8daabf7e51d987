---------------------------- MODULE MCReviewLoop ----------------------------
(* A small instance of ReviewLoop: one defect or two, three rounds, the     *)
(* streak at two rounds, and one disturbance at a time.                     *)
EXTENDS ReviewLoop

CONSTANTS f1, f2

Overridden(v) == v \notin {Nothing, NoVerdict} /\ v.override # Nothing
Crossed(v) == v \notin {Nothing, NoVerdict} /\ ~(v.crossFindings \subseteq InLedger(v.findings))

Held(v) == v \notin {Nothing, NoVerdict} /\ v.status = "NO-GO" /\ v.noGo < v.round
Unattested(v) == v \notin {Nothing, NoVerdict} /\ UnattestedEvent(trace, v)

Disturbance ==
    { d \in {"unattested", "held", "inconclusive", "torn trace", "override", "unmirrored", "crash", "damaged"} :
        CASE d = "unattested" -> Unattested(review) \/ Unattested(draft)
          [] d = "held"       -> Held(review) \/ Held(draft)
          [] d = "inconclusive" -> report # Nothing /\ \E f \in Findings : report.checks[f] = "inconclusive"
          [] d = "torn trace" -> traceTorn
          [] d = "override"   -> Overridden(review) \/ Overridden(draft)
          [] d = "unmirrored" -> Crossed(review) \/ Crossed(draft)
          [] d = "crash"      -> step = "start" /\ draft # Nothing
          [] d = "damaged"    -> review.state = "malformed" }
(* The second cycle goes as far as its first verdict.                       *)
Small ==
    /\ Cardinality(Disturbance) <= 1
    /\ review.state = "absent" \/ review.cycle < 2
=============================================================================

---------------------------- MODULE ReviewCycle ----------------------------
(***************************************************************************)
(* scripts/lib/review/review-lifecycle.js: what the next draft inherits    *)
(* from the prior verdict.  A verdict that is absent or GO opens the next  *)
(* cycle at round 1; a NO-GO one continues its cycle with the next round.  *)
(***************************************************************************)
EXTENDS Integers

CONSTANTS
    Nothing,    \* no value: an absent key, a null
    MaxRound,   \* bound on the rounds of one cycle
    MaxCycle    \* bound on the number of review cycles

VARIABLE review \* briefs/<task>-review.json, the persisted verdict

Rounds == 1..MaxRound
Cycles == 1..MaxCycle
NoVerdict == [state |-> "absent"]

FreshCycle(prior) == prior.state = "absent" \/ prior.status = "GO"

(* deriveRoundState *)
NextRound(prior) == IF FreshCycle(prior) THEN 1 ELSE prior.round + 1
NextCycle(prior) ==
    IF prior.state = "absent" THEN 1
    ELSE IF prior.status = "GO" THEN prior.cycle + 1 ELSE prior.cycle
Carried(prior, value, empty) == IF FreshCycle(prior) THEN empty ELSE value

(* There is a next round: the verdict can be read, and the bounds allow it. *)
Open == review.state # "malformed" /\ NextCycle(review) \in Cycles /\ NextRound(review) \in Rounds
=============================================================================

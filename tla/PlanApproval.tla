---------------------------- MODULE PlanApproval ----------------------------
(***************************************************************************)
(* What the approval of plans promises, without its actors, channel, lock  *)
(* and database: a plan is claimed at most once, its session hears at most *)
(* once, and hears no verdict but the claimed one; the claim is on record  *)
(* as submitted only when it was heard.                                    *)
(***************************************************************************)
CONSTANTS Plans, Claimants, Verdict, None

VARIABLES claim,  \* claim[p]: the recorded answer to p, or None
          heard   \* heard[p]: what the session that asked p heard

vars == <<claim, heard>>

\* Nobody answers any more: "cancel" is what the session is told then.
GivenUp == {"cancel", "lost"}

Answer == [by : Claimants, verdict : Verdict \cup {"cancel"},
           state : {"submitting", "submitted", "failed"}]

Init ==
    /\ claim = [p \in Plans |-> None]
    /\ heard = [p \in Plans |-> "none"]

\* A verdict is claimed before it is heard; that nobody answers any more needs no
\* further step.
Claims(p) ==
    /\ claim[p] = None
    /\ claim'[p] \in Answer
    /\ claim'[p].state = IF claim'[p].verdict = "cancel" THEN "failed" ELSE "submitting"

\* The record says submitted of what was heard, and failed of anything.
Records(p) ==
    /\ claim[p] # None /\ claim[p].state = "submitting"
    /\ \E st \in {"submitted", "failed"} :
        /\ claim'[p] = [claim[p] EXCEPT !.state = st]
        /\ st = "submitted" => heard[p] = claim[p].verdict

Hears(p) ==
    /\ heard[p] = "none"
    /\ \/ heard'[p] \in GivenUp
       \/ claim[p] # None /\ claim[p].state = "submitting" /\ heard'[p] = claim[p].verdict

\* A restart, or the end of a session, is a step of many plans.
Next ==
    /\ claim' \in [Plans -> Answer \cup {None}]
    /\ heard' \in [Plans -> Verdict \cup GivenUp \cup {"none"}]
    /\ \A p \in Plans : /\ claim'[p] = claim[p] \/ Claims(p) \/ Records(p)
                        /\ heard'[p] = heard[p] \/ Hears(p)

Spec == Init /\ [][Next]_vars

=============================================================================

----------------------------- MODULE FollowUps -----------------------------
(***************************************************************************)
(* What the follow-up queue of a session promises of each item, without    *)
(* its actor, the actor's copy of the rows, the mailbox, the runtime or    *)
(* the restarts: an item is pending once, is withdrawn only while it is,   *)
(* is handed over before it runs, once plus at most once for every loss,   *)
(* and what ran to its end is finished for good.  Only a loss, or another  *)
(* task that withdraws an item the actor is about to hand over, makes the  *)
(* row of an item tell anything but this story.                            *)
(***************************************************************************)
EXTENDS Naturals

CONSTANTS Items,
          Linked    \* items sent by other sessions, which other tasks withdraw

VARIABLES stage,    \* stage[i]: the state of the row of item i
          handed,   \* handed[i]: how often the runtime took item i
          lost      \* crashes and failed database calls so far

vars == <<stage, handed, lost>>

Stage == {"unborn", "pending", "dispatched", "completed", "failed", "gone"}

Init ==
    /\ stage = [i \in Items |-> "unborn"]
    /\ handed = [i \in Items |-> 0]
    /\ lost = 0

Adds(i)      == stage[i] = "unborn" /\ stage'[i] = "pending"
Withdraws(i) == stage[i] = "pending" /\ stage'[i] = "gone"

\* The row is written back by one that does not know what became of it.
WrittenBlindly(i) ==
    \/ stage[i] = "gone" /\ (i \in Linked \/ lost > 0)
    \/ stage[i] \in {"dispatched", "failed"} /\ lost > 0

\* The outcome of a hand-over; what runs was taken.
Records(i) ==
    /\ stage[i] = "pending" \/ WrittenBlindly(i)
    /\ \/ stage'[i] = "dispatched" /\ handed[i] > 0
       \/ stage'[i] = "failed"

\* It ran to its end, or a restart finds in the transcript that it was taken.
Finishes(i) ==
    /\ stage[i] = "dispatched" \/ (stage[i] = "pending" /\ lost > 0)
    /\ stage'[i] = "completed" /\ handed[i] > 0

\* The session was archived while it ran.
Abandons(i) == i \in Linked /\ stage[i] = "dispatched" /\ stage'[i] = "failed"

\* A first time, or once more for a loss that may have hidden the last one.
Takes(i) ==
    /\ stage[i] = "pending" \/ WrittenBlindly(i)
    /\ handed[i] <= lost
    /\ handed'[i] = handed[i] + 1

\* Clearing, retiring and expiring are steps of many items.
Next ==
    /\ stage' \in [Items -> Stage] /\ handed' \in [Items -> Nat]
    /\ lost' \in Nat /\ lost' >= lost
    /\ \A i \in Items :
        /\ stage'[i] = stage[i]
             \/ Adds(i) \/ Withdraws(i) \/ Records(i) \/ Finishes(i) \/ Abandons(i)
        /\ handed'[i] = handed[i] \/ Takes(i)

Spec == Init /\ [][Next]_vars

=============================================================================

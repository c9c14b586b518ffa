-------------------------- MODULE MC_Coordination --------------------------
EXTENDS Coordination, TLC

CONSTANTS grand, main, child,  \* a session, its child, and the child of that one
          x, y,                \* plans
          k, l                 \* tool calls

Chain == [s \in Sessions |-> CASE s = child -> main
                               [] s = main /\ grand \in Sessions -> grand
                               [] OTHER -> None]
Above == [s \in Sessions |-> CASE s = child -> Sessions \ {child}
                               [] s = main -> Sessions \ {child, main}
                               [] OTHER -> {}]
\* One call by an ancestor of the asking session, one by the session itself.
CalledBy  == [i \in Calls |-> IF i = k THEN main ELSE child]
CallAbout == [i \in Calls |-> x]
CallWants == [i \in Calls |-> "approve"]
=============================================================================

--------------------------- MODULE MCCreationClient ---------------------------
EXTENDS CreationClient, TLC

CONSTANTS m1, m2, o1, r1, w1, i1, i2, a1, a2

AgentOnly(a, prompt) ==
    [kind |-> "agent", workspace |-> None, agent |-> a, hasAgent |-> TRUE, hasPrompt |-> prompt]

\* A second window sends the client's request too (o1), and another creation
\* asks for the same agent (r1).
TwoKeys == [a \in Calls \cup Subscribers |-> IF a = r1 THEN i2 ELSE i1]
SharedAgent == [c \in Calls |-> AgentOnly(a1, FALSE)]

\* What an older daemon may have left for the client's key: nothing, or a
\* receipt for the same request or another one, of an agent that is gone.
OldReceipts ==
    LET receipt(wanted, state) ==
            [request |-> AgentOnly(wanted, FALSE), agent |-> a2, state |-> state]
    IN  {[i \in Identities |-> IF i = i1 THEN old ELSE None] :
            old \in {None, receipt(a1, "pending"), receipt(a1, "completed"), receipt(None, "completed")}}
=============================================================================

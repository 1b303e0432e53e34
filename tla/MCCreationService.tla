-------------------------- MODULE MCCreationService --------------------------
EXTENDS CreationService, TLC

CONSTANTS c1, c2, c3, s1, i1, w1, a1

Full(w, a) ==
    [kind |-> "workspace", workspace |-> w, agent |-> a, hasAgent |-> TRUE, hasPrompt |-> TRUE]

NoReceipt == {[i \in Identities |-> None]}

\* One key, repeated: the ids are left to the daemon.
OneKey == [a \in Calls \cup Subscribers |-> i1]
SameRequest == [c \in Calls |-> Full(None, None)]
CallSymmetry == Permutations(Calls)
=============================================================================

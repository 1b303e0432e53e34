--------------------------- MODULE ForegroundTurns ---------------------------
(***************************************************************************)
(* What a client may rely on about the foreground turns of an agent: at    *)
(* most one is open, a turn is opened once, and it is not ended before it  *)
(* is over in the provider.                                                *)
(***************************************************************************)
CONSTANTS Turns, None

VARIABLES
    open,    \* the open turn
    ended,   \* turns that were opened and ended
    over     \* turns that cannot run in the provider any more

turnsVars == <<open, ended, over>>

Init == open = None /\ ended = {} /\ over = {}

\* The provider finishes, or gives up, turns.
Finish ==
    /\ over' \in SUBSET Turns
    /\ over \subseteq over'
    /\ UNCHANGED <<open, ended>>

Open(t) ==
    /\ open = None
    /\ t \notin ended
    /\ open' = t
    /\ UNCHANGED <<ended, over>>

End ==
    /\ open \in over
    /\ ended' = ended \cup {open}
    /\ open' = None
    /\ UNCHANGED over

Next == Finish \/ End \/ \E t \in Turns : Open(t)

Spec == Init /\ [][Next]_turnsVars
=============================================================================

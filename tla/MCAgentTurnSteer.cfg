SPECIFICATION Spec
CONSTANTS
    A = A
    B = B
    C = C
    S = S
    S2 = S2
    X = X
    Prompts = {A, B}
    Stops = {S}
    Autos = {X}
    Modes = {"replace", "steer"}
    CanSteer = TRUE
    MaxItems = 1
    None = None
SYMMETRY Symmetry
INVARIANTS TurnOwnership OutputAfterItsPrompt SteeredTurnStaysOpen
PROPERTIES OneTurnAfterAnother
\* Every client has said what it wanted and the provider may stay silent.
CHECK_DEADLOCK FALSE

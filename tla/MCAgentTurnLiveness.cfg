SPECIFICATION FairSpec
CONSTANTS
    A = A
    B = B
    C = C
    S = S
    S2 = S2
    X = X
    Prompts = {A, B}
    Stops = {S}
    Autos = {}
    Modes = {"replace", "steer"}
    CanSteer = TRUE
    MaxItems = 0
    None = None
PROPERTIES CancellationReturns StreamEndsWithTurn
\* Every client has said what it wanted and the provider may stay silent.
CHECK_DEADLOCK FALSE

SPECIFICATION Spec
CONSTANTS
    A = A
    B = B
    C = C
    S = S
    S2 = S2
    X = X
    Prompts = {A, B}
    Stops = {S}
    Autos = {}
    Modes = {"replace", "plain"}
    CanSteer = FALSE
    MaxItems = 0
    None = None
SYMMETRY Symmetry
INVARIANTS StopSettles
\* Every client has said what it wanted and the provider may stay silent.
CHECK_DEADLOCK FALSE

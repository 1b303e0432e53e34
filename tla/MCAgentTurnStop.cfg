SPECIFICATION Spec
CONSTANTS
    A = A
    B = B
    C = C
    S = S
    S2 = S2
    X = X
    Prompts = {A, B, C}
    Stops = {S, S2}
    Autos = {}
    Modes = {"replace", "plain"}
    CanSteer = FALSE
    MaxItems = 0
    None = None
SYMMETRY Symmetry
INVARIANTS TypeOK QuietMeansSettled ReplacingHasOwner CapturedRunIsTracked NoSplitBrain
PROPERTIES RejectedForAnother
\* Every client has said what it wanted and the provider may stay silent.
CHECK_DEADLOCK FALSE

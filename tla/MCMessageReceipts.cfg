SPECIFICATION FairSpec
CONSTANTS
    Calls <- MCCalls
    Keys <- MCKeys
    Requests <- MCRequests
    KeyOf <- MCKeyOf
    RequestOf <- MCRequestOf
    NoCall = NoCall
    MaxCrashes = 2
INVARIANTS
    AtMostOnce
    SentMeansAccepted
    NoReceiptMeansNotAccepted
PROPERTIES
    EveryCallAnswered
CHECK_DEADLOCK FALSE

SPECIFICATION WebFairSpec
CONSTANTS
    k1 = k1
    k2 = k2
    k3 = k3
    Clients = {c1, c2}
    Controllers = {c1}
    main = main
    Senders = {venc, infer}
    Inferring = {infer}
    Configs = {k1, k2, k3}
    NoDisplay <- MCNoDisplay
    DefaultConfig = k1
    Room = 1
    NULL = NULL
INVARIANTS NoThreadTwice ListWellFormed SendsToConnected AnswerIsTrue
PROPERTIES SwitchIsAnswered

SPECIFICATION Spec
CONSTANTS
    a = a
    b = b
    Apps = {a, b}
    InitData = 1
    ContData = 2
    NonceLen = 1
    MaxMsgSize = 4
    Shapes <- MCShapes
    ReplyLens = {2, 5}
    MaxRequests <- MCMaxRequests
    MaxCids = 2
    MaxInbox = 2
CHECK_DEADLOCK FALSE
INVARIANTS WholeMessages AnswersOwn ChannelsDistinct
PROPERTIES ImplementsTransport LockExpires

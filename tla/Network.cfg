SPECIFICATION Spec
CONSTANTS
    NL = "nl"
    RIO_BUFSIZE = 2
    Kernel = 2
    MaxSignals = 1
    Verb <- MCVerb
    Request <- MCRequest
    MAXLINE = 4
    MaxClients = 2
    Message <- MCMessage
    Length = {1, 2, 3}
    COLON = ":"
    SLASH = "/"
    Default = "80"
    Target <- MCTarget
CHECK_DEADLOCK FALSE
INVARIANT AnswersComplete
PROPERTIES CallsRight CallsEnd UriRight

SPECIFICATION FairSpec
CONSTANTS
    Characters <- MCCharacters
    Messages <- MCMessages
    Brace = "brace"
    Buf = 1
    MaxSent = 2
INVARIANTS
    TerminalTypeOK
    ShellReadsKeys
PROPERTIES
    SessionsEnd
CHECK_DEADLOCK FALSE

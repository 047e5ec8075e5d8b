\* Two concurrent requests against five documents, in every environment.
SPECIFICATION FairSpec
CONSTANTS
    Unset = Unset
    BadValue = BadValue
    None = None
    Private = Private
    Broken = Broken
    secret = secret
    appHost = appHost
    r1 = r1
    r2 = r2
    Requests = {r1, r2}
    Tokens = {secret}
    Processes <- AllProcesses
INVARIANTS DocsTypeOK TidyPagesRight PagesComplete PagesGated TimeoutOnce
PROPERTIES EveryGetAnswered
CHECK_DEADLOCK FALSE

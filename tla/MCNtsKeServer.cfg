CONSTANTS
    Ids = {1}
    NULL = NULL
    NtpPort = 123
    MaxMessageLength = 40
    MaxCookieLength = 8
    MaxCookies = 2
    CookieLength = 4
    MaxAccepts = 3
    MaxRotations = 5
    Requests <- MCRequests
    Sessions <- MCSessions
SPECIFICATION ServerFairSpec
INVARIANT ServerTypeOK
INVARIANT KeyTypeOK
INVARIANT ResourcesWhileOpen
INVARIANT CookieLifetime
INVARIANT SessionsDeinitOnce
INVARIANT FinaliseReleasesSessions
PROPERTY ConnectionsClose
PROPERTY LifecycleRefined

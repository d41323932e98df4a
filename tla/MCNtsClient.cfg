CONSTANTS
    Ids = {nke}
    NULL = NULL
    NtpPort = 123
    MaxMessageLength = 40
    MaxCookieLength = 8
    MaxCookies = 2
    MaxSessions = 3
    MaxRequests = 5
    ResponsesFor <- MCResponsesFor
SPECIFICATION Spec
INVARIANT TypeOK
INVARIANT NoCookieReuse
INVARIANT RequestCookieMatchesKey
INVARIANT SessionsReleased

CONSTANTS
    Ids = {nke}
    NULL = NULL
    NtpPort = 123
    MaxMessageLength = 40
    MaxCookieLength = 8
    MaxCookies = 2
    MaxSessions = 2
    MaxRequests = 3
    ResponsesFor <- MCResponsesFor
SPECIFICATION Spec
INVARIANT CookiesFromCompleteResponse

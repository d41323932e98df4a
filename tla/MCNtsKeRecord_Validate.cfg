CONSTANTS
    MaxMessageLength = 40
    MaxCookieLength = 8
    MaxCookies = 2
    CookieLength = 4
SPECIFICATION Spec
INVARIANT CheckMessageFormatMatchesValidate

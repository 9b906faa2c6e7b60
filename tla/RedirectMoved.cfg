\* The recorded value and the URLs that moved.
CONSTANTS
    Url <- MCUrl
    Secure <- MCSecure
    Normal <- MCNormal
    NoForm = "no form"
    MaxRedirects = 3
SPECIFICATION FetchSpec
INVARIANT RecordedNotMoved

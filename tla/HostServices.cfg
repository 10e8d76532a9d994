SPECIFICATION ServicesSpec
CONSTANTS
    None = None
    Redacted = Redacted
    x = x
    y = y
    z = z
    Names = {"api", "search"}
    PolicyOf <- Policies
    Limited = {"api"}
    Requests = 2
    Period = 3
    Search = "search"
    Endpoint <- SearchUrl
    PublicEnabled = TRUE
    PublicMethods = {"GET"}
    MaxRedirects = 3
    Urls <- TwoUrls
    Methods = {"GET", "POST"}
    Headers = {"authorization"}
    Locations <- SomeLocations
    Bodies <- ShortTexts
    Tokens <- NestedTokens
INVARIANTS
    SentWithinPolicy
    SentBounded
    RateLimited
    ShowsNoToken
    CompletionUsesWhatWorks


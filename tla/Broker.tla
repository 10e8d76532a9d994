------------------------------- MODULE Broker -------------------------------
(***************************************************************************)
(* The host's request broker (sandbox/broker.py): one http_request,        *)
(* web_fetch or web_search at a time is checked against its policy, counted *)
(* against its rate limit and sent, and so is each redirect that it meets. *)
(* The servers, the names they resolve to and the clock are free.  A token *)
(* of the rate limiter is Period units here and Requests units come back   *)
(* in a tick: fractions of tokens without the rounding of floats.          *)
(***************************************************************************)
EXTENDS Naturals, Sequences

CONSTANTS
    Names,          \* the integrations of secrets.yaml that have a good record
    PolicyOf,       \* their policies: what of a request they allow
    Limited,        \* the integrations with a rate limit
    Requests, Period,   \* the limit: requests per_seconds
    Search,         \* the integration "_web_search"
    Endpoint,       \* web_search.endpoint
    PublicEnabled, PublicMethods,   \* broker.public_policy
    MaxRedirects,   \* _MAX_REDIRECT_HOPS
    Urls, Methods, Headers,     \* what requests ask for
    Locations,      \* what Location headers say; a part that is missing is None
    Bodies,         \* what servers answer, as far as it is read
    None            \* Python's None

Hosts == {u.host : u \in Urls \cup Locations}
Paths == {u.path : u \in Urls \cup Locations}

ASSUME BrokerAssumption ==
    /\ PolicyOf \in [Names -> [schemes : SUBSET {"http", "https"}, methods : SUBSET Methods,
                               hosts : SUBSET Hosts, paths : SUBSET Paths,
                               protected : SUBSET Headers]]
    /\ Limited \subseteq Names /\ None \notin Names /\ Search # None
    /\ Requests \in Nat \ {0} /\ Period \in Nat \ {0} /\ MaxRedirects \in Nat
    /\ Endpoint \in Urls /\ PublicEnabled \in BOOLEAN /\ PublicMethods \subseteq Methods
    /\ <<>> \in Bodies

VARIABLES
    call,           \* the call that is served: its request, its URL, its redirects
    sent,           \* the requests that it has sent, with what was known of them
    answer, body,   \* the answer to the last call
    tokens, since,  \* rate limiters: _tokens; ticks since _last_refill
    admitted        \* history: ages of the requests that a limiter let through

limiters == <<tokens, since, admitted>>
vars == <<call, sent, answer, body, limiters>>

Capacity == Requests * Period
Minimum(m, n) == IF m < n THEN m ELSE n

Init ==
    /\ call = None /\ sent = <<>>
    /\ answer = None /\ body = <<>>
    /\ tokens = [i \in Limited |-> Capacity]
    /\ since = [i \in Limited |-> 0]
    /\ admitted = [i \in Limited |-> <<>>]

----------------------------------------------------------------------------
(* Policies                                                                *)

\* _build_public_policy
PublicPolicy ==
    [schemes |-> {"http", "https"}, methods |-> PublicMethods, hosts |-> Hosts, paths |-> Paths,
     protected |-> {"authorization"}]

\* A request for the broker; its integration is None when it names none.
HttpRequest(i, m, u, h) ==
    [action |-> "http_request", integration |-> i, method |-> m, url |-> u, headers |-> h]
WebFetch(u) ==
    [action |-> "web_fetch", integration |-> None, method |-> "GET", url |-> u, headers |-> {}]
WebSearch ==
    [action |-> "web_search", integration |-> Search, method |-> "GET", url |-> Endpoint,
     headers |-> {}]

Public(r) == r.integration = None

Configured(r) ==
    /\ ~Public(r) => r.integration \in Names
    /\ Public(r) /\ r.action = "http_request" => PublicEnabled

\* _validate
Validates(p, r, url) ==
    /\ url.scheme \in p.schemes
    /\ r.method \in p.methods
    /\ url.host \in p.hosts
    /\ url.path \in p.paths
    /\ r.headers \cap p.protected = {}

\* _ssrf_check, by the addresses that the host resolves to, if it does
SsrfCheck(url, addresses) ==
    /\ url.scheme \in {"http", "https"}
    /\ addresses # {} /\ "private" \notin addresses

Addresses == SUBSET {"public", "private"}

\* Mutant: only the host of a redirect is looked at.
ValidatesHost(r, url, addresses) ==
    IF Public(r) THEN SsrfCheck(url, addresses) ELSE url.host \in PolicyOf[r.integration].hosts

\* What is asked of the first URL of a call
Passes(r, url, addresses) ==
    /\ ~Public(r) => Validates(PolicyOf[r.integration], r, url)
    /\ Public(r) /\ r.action = "http_request" => Validates(PublicPolicy, r, url)
    /\ Public(r) => SsrfCheck(url, addresses)

\* The redirect guards ask the same.
RedirectPasses(r, url, addresses) == Passes(r, url, addresses)

----------------------------------------------------------------------------
(* The rate limiter                                                        *)

\* web_search passes no rate_limit_key.
Key(r) == IF r.action = "http_request" THEN r.integration ELSE None

Refilled(i) == Minimum(Capacity, tokens[i] + since[i] * Requests)

\* Mutant: a refill may go over the capacity.
ConsumeUncapped(i, ok) ==
    LET now == tokens[i] + since[i] * Requests IN
    /\ ok = (now >= Period)
    /\ tokens' = [tokens EXCEPT ![i] = IF ok THEN now - Period ELSE now]
    /\ since' = [since EXCEPT ![i] = 0]
    /\ admitted' = IF ok THEN [admitted EXCEPT ![i] = Append(@, 0)] ELSE admitted

\* _TokenBucket.consume
Consume(i, ok) ==
    /\ ok = (Refilled(i) >= Period)
    /\ tokens' = [tokens EXCEPT ![i] = IF ok THEN Refilled(i) - Period ELSE Refilled(i)]
    /\ since' = [since EXCEPT ![i] = 0]
    /\ admitted' = IF ok THEN [admitted EXCEPT ![i] = Append(@, 0)] ELSE admitted

\* A tick later: requests of a period ago, which come first, are forgotten.
Aged(ages) ==
    LET old == CHOOSE n \in 0 .. Len(ages) :
                  \A k \in DOMAIN ages : k <= n <=> ages[k] + 1 = Period
    IN  [k \in 1 .. Len(ages) - old |-> ages[old + k] + 1]

\* Ticks by which every limiter is full are forgotten as well.
Tick ==
    /\ since' = [i \in Limited |-> Minimum(since[i] + 1, Period)]
    /\ admitted' = [i \in Limited |-> Aged(admitted[i])]
    /\ UNCHANGED <<call, sent, answer, body, tokens>>

----------------------------------------------------------------------------
(* A call                                                                  *)

\* What goes out: _inject adds the integration's token.
Hop(r, url, addresses) ==
    [action |-> r.action, method |-> r.method, url |-> url, credential |-> r.integration,
     addresses |-> IF Public(r) THEN addresses ELSE {}]

Send(r, url, addresses, redirects) ==
    /\ call' = [request |-> r, url |-> url, redirects |-> redirects]
    /\ sent' = Append(sent, Hop(r, url, addresses))
    /\ UNCHANGED <<answer, body>>

\* The call ends; what the server said goes through _redact_value.
Answer(result, text) ==
    /\ call' = None /\ sent' = <<>>
    /\ answer' = result /\ body' = text

\* An unknown integration, public requests disabled, or against the policy;
\* a request that is denied is not counted.
Deny(r) ==
    /\ call = None
    /\ Configured(r) => \E addresses \in Addresses : ~Passes(r, r.url, addresses)
    /\ Answer("policy_denied", <<>>)
    /\ UNCHANGED limiters

Limit(r) ==
    /\ call = None /\ Key(r) \in Limited
    /\ Passes(r, r.url, {})
    /\ Consume(Key(r), FALSE)
    /\ Answer("rate_limited", <<>>)

Begin(r) ==
    /\ call = None /\ Configured(r)
    /\ \E addresses \in Addresses :
          /\ Passes(r, r.url, addresses)
          /\ call' = [request |-> r, url |-> r.url, redirects |-> 0]
          /\ sent' = <<Hop(r, r.url, addresses)>>
    /\ IF Key(r) \in Limited THEN Consume(Key(r), TRUE) ELSE UNCHANGED limiters
    /\ answer' = None /\ body' = <<>>

\* A requests.RequestException, a time-out included
HopFails ==
    /\ call # None
    /\ Answer("failed", <<>>)
    /\ UNCHANGED limiters

\* web_search wants an object and returns the results that it finds in it.
HopAnswers(text) ==
    /\ call # None
    /\ \/ Answer("success", text)
       \/ call.request.action = "web_search" /\ Answer("invalid_json", <<>>)
    /\ UNCHANGED limiters

\* urljoin
Join(base, location) ==
    [scheme |-> IF location.scheme = None THEN base.scheme ELSE location.scheme,
     host |-> IF location.host = None THEN base.host ELSE location.host,
     path |-> location.path]

\* Mutant: a redirect of any method is followed.
RefusesRedirect(r) == r.method \notin Methods

\* "redirect handling for non-GET methods is disabled"
UnsupportedRedirect(r) == r.method # "GET"

\* Mutant: the limit is one redirect off.
OneMore(n) == n > MaxRedirects + 1

TooManyRedirects(n) == n > MaxRedirects

\* A redirect status with a Location
Redirected(location, addresses) ==
    LET r == call.request
        url == Join(call.url, location)
    IN
    /\ call # None
    /\ \/ UnsupportedRedirect(r) /\ Answer("unsupported_redirect", <<>>)
       \/ /\ ~UnsupportedRedirect(r) /\ TooManyRedirects(call.redirects + 1)
          /\ Answer("too_many_redirects", <<>>)
       \/ /\ ~UnsupportedRedirect(r) /\ ~TooManyRedirects(call.redirects + 1)
          /\ \/ ~RedirectPasses(r, url, addresses) /\ Answer("policy_denied", <<>>)
             \/ /\ RedirectPasses(r, url, addresses)
                /\ Send(r, url, addresses, call.redirects + 1)
    /\ UNCHANGED limiters

\* The requests that agents make
AllRequests ==
    {HttpRequest(i, m, u, h) : i \in Names \cup {"unknown", None}, m \in Methods, u \in Urls,
                               h \in SUBSET Headers}
    \cup {WebFetch(u) : u \in Urls} \cup {WebSearch}

Next ==
    \/ \E r \in AllRequests : Deny(r) \/ Limit(r) \/ Begin(r)
    \/ HopFails
    \/ \E text \in Bodies : HopAnswers(text)
    \/ \E location \in Locations, addresses \in Addresses : Redirected(location, addresses)
    \/ Tick

Spec == Init /\ [][Next]_vars

----------------------------------------------------------------------------
(* Properties                                                              *)

\* Every request of a call that goes out, its redirects included, is one that
\* its policy allows: an integration's token reaches only that integration's
\* hosts, paths and methods, and a public request no host that resolved to a
\* private address when it was looked at.
SentWithinPolicy ==
    \A k \in DOMAIN sent :
        LET h == sent[k]
            p == IF h.credential = None THEN PublicPolicy ELSE PolicyOf[h.credential]
        IN
        /\ h.url.scheme \in p.schemes
        /\ h.action # "web_fetch" =>
              h.method \in p.methods /\ h.url.host \in p.hosts /\ h.url.path \in p.paths
        /\ h.credential = None => h.addresses # {} /\ "private" \notin h.addresses

\* A call sends one request and a bounded number of redirects, and what is no
\* GET is sent once.
SentBounded ==
    /\ Len(sent) <= MaxRedirects + 1
    /\ \A k \in DOMAIN sent : sent[k].method # "GET" => Len(sent) = 1

\* A limiter lets no more through in a period than its burst and what comes
\* back meanwhile, and refuses only when it has let all of its requests through
\* within the period: refused requests and long pauses cost nothing and earn
\* nothing (_TokenBucket.consume).
RateLimited ==
    \A i \in Limited :
        /\ Len(admitted[i]) <= Requests + (Requests * (Period - 1)) \div Period
        /\ Refilled(i) < Period => Len(admitted[i]) >= Requests

=============================================================================

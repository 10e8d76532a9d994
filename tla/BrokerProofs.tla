---------------------------- MODULE BrokerProofs ----------------------------
(***************************************************************************)
(* What the broker sends, and what the LLM client next to it asks for,     *)
(* proved for every set of policies, limits, URLs, answers of servers and  *)
(* names they resolve to.                                                  *)
(***************************************************************************)
EXTENDS HostServices, FiniteSetTheorems, TLAPS

UrlSet ==
    Urls \cup
    [scheme : {u.scheme : u \in Urls \cup Locations}, host : {u.host : u \in Urls \cup Locations},
     path : {u.path : u \in Urls \cup Locations}]

RequestSet ==
    [action : {"http_request", "web_fetch", "web_search"},
     integration : Names \cup {"unknown", None, Search}, method : Methods \cup {"GET"},
     url : Urls, headers : SUBSET Headers]

HopSet ==
    [action : {"http_request", "web_fetch", "web_search"}, method : Methods \cup {"GET"},
     url : UrlSet, credential : Names \cup {"unknown", None, Search},
     addresses : Addresses]

\* Which actions name an integration
WellFormed(r) ==
    /\ r \in RequestSet
    /\ r.action = "web_search" => ~Public(r)
    /\ r.action = "web_fetch" => Public(r)

\* What SentWithinPolicy says of one request
Allowed(h) ==
    LET p == IF h.credential = None THEN PublicPolicy ELSE PolicyOf[h.credential] IN
    /\ h.url.scheme \in p.schemes
    /\ h.action # "web_fetch" =>
          h.method \in p.methods /\ h.url.host \in p.hosts /\ h.url.path \in p.paths
    /\ h.credential = None => h.addresses # {} /\ "private" \notin h.addresses

\* The strengthening: as long as something has been sent there is a call, of
\* a configured request, that has counted it.
CallCounts ==
    /\ sent \in Seq(HopSet)
    /\ \A k \in DOMAIN sent : Allowed(sent[k])
    /\ sent = <<>> => call = None
    /\ sent # <<>> =>
          /\ WellFormed(call.request) /\ Configured(call.request)
          /\ call.url \in UrlSet
          /\ call.redirects \in 0 .. MaxRedirects
          /\ Len(sent) = call.redirects + 1
          /\ call.redirects > 0 => call.request.method = "GET"
          /\ \A k \in DOMAIN sent : sent[k].method = call.request.method

----------------------------------------------------------------------------
\* Every request of an agent is well formed: only a web search and an HTTP
\* request that says so use an integration.
LEMMA RequestsWellFormed ==
    ASSUME NEW r \in AllRequests
    PROVE  WellFormed(r)
<1>1. CASE \E i \in Names \cup {"unknown", None}, m \in Methods, u \in Urls,
              h \in SUBSET Headers : r = HttpRequest(i, m, u, h)
    BY <1>1 DEF HttpRequest, WellFormed, RequestSet, Public
<1>2. CASE \E u \in Urls : r = WebFetch(u)
    BY <1>2 DEF WebFetch, WellFormed, RequestSet, Public
<1>3. CASE r = WebSearch
    BY <1>3, BrokerAssumption DEF WebSearch, WellFormed, RequestSet, Public
<1> QED
    BY <1>1, <1>2, <1>3 DEF AllRequests

\* What passes the checks may be sent (_validate and _ssrf_check together).
LEMMA PassesIsAllowed ==
    ASSUME NEW r, WellFormed(r), Configured(r), NEW url \in UrlSet,
           NEW addresses \in Addresses, Passes(r, url, addresses)
    PROVE  /\ Hop(r, url, addresses) \in HopSet
           /\ Hop(r, url, addresses).method = r.method
           /\ Allowed(Hop(r, url, addresses))
<1> DEFINE hop == Hop(r, url, addresses)
<1>1. /\ hop.action = r.action /\ hop.method = r.method /\ hop.url = url
      /\ hop.credential = r.integration
      /\ Public(r) => hop.addresses = addresses
    BY DEF Hop
<1>2. hop \in HopSet
    BY DEF Hop, HopSet, WellFormed, RequestSet, Addresses
<1>3. r.action \in {"http_request", "web_fetch", "web_search"}
    BY DEF WellFormed, RequestSet
<1>4. CASE ~Public(r)
    <2>1. Validates(PolicyOf[r.integration], r, url)
        BY <1>4 DEF Passes
    <2> QED
        BY <1>1, <1>2, <1>4, <2>1 DEF Allowed, Validates, Public
<1>5. CASE Public(r) /\ r.action = "http_request"
    <2>1. Validates(PublicPolicy, r, url) /\ SsrfCheck(url, addresses)
        BY <1>5 DEF Passes
    <2> QED
        BY <1>1, <1>2, <1>5, <2>1 DEF Allowed, Validates, Public, SsrfCheck
<1>6. CASE Public(r) /\ r.action = "web_fetch"
    <2>1. SsrfCheck(url, addresses)
        BY <1>6 DEF Passes
    <2>2. url.scheme \in PublicPolicy.schemes
        BY <2>1 DEF SsrfCheck, PublicPolicy
    <2> QED
        BY <1>1, <1>2, <1>6, <2>1, <2>2 DEF Allowed, Public, SsrfCheck
<1> QED
    BY <1>3, <1>4, <1>5, <1>6 DEF WellFormed

\* A redirect leads to a URL made of a known one and a Location.
LEMMA JoinIsUrl ==
    ASSUME NEW base \in UrlSet, NEW location \in Locations
    PROVE  Join(base, location) \in UrlSet
BY DEF Join, UrlSet

----------------------------------------------------------------------------
\* At the start nothing has been sent.
LEMMA InitCounts == Init => CallCounts
BY DEF Init, CallCounts

\* The end of a call
LEMMA AnswerCounts ==
    ASSUME NEW result, NEW text, Answer(result, text)
    PROVE  CallCounts'
BY DEF Answer, CallCounts

\* The first request of a call, and the count of it
LEMMA BeginCounts ==
    ASSUME CallCounts, NEW r \in AllRequests, Begin(r)
    PROVE  CallCounts'
<1>1. WellFormed(r) /\ Configured(r)
    BY RequestsWellFormed DEF Begin
<1>2. r.url \in Urls /\ r.url \in UrlSet
    BY <1>1 DEF WellFormed, RequestSet, UrlSet
<1>3. PICK addresses \in Addresses :
          /\ Passes(r, r.url, addresses)
          /\ call' = [request |-> r, url |-> r.url, redirects |-> 0]
          /\ sent' = <<Hop(r, r.url, addresses)>>
    BY DEF Begin
<1> DEFINE hop == Hop(r, r.url, addresses)
<1>4. hop \in HopSet /\ hop.method = r.method /\ Allowed(hop)
    BY <1>1, <1>2, <1>3, PassesIsAllowed
<1> HIDE DEF hop
<1>5. /\ sent' = <<hop>> /\ sent' \in Seq(HopSet) /\ Len(sent') = 1 /\ sent' # <<>>
      /\ \A k \in DOMAIN sent' : sent'[k] = hop
    BY <1>3, <1>4 DEF hop
<1>6. call'.request = r /\ call'.url = r.url /\ call'.redirects = 0
    BY <1>3
<1>7. MaxRedirects \in Nat
    BY BrokerAssumption
<1>8. \A k \in DOMAIN sent' : Allowed(sent'[k]) /\ sent'[k].method = call'.request.method
    BY <1>4, <1>5, <1>6
<1>9. WellFormed(call'.request) /\ Configured(call'.request)
    BY <1>1, <1>6 DEF WellFormed
<1>10. call'.redirects \in 0 .. MaxRedirects /\ Len(sent') = call'.redirects + 1
    BY <1>5, <1>6, <1>7
<1> QED
    BY <1>2, <1>5, <1>6, <1>8, <1>9, <1>10 DEF CallCounts, Allowed, WellFormed, Configured, Public,
        PublicPolicy

\* One more request of a call, after a redirect of a GET
LEMMA RedirectCounts ==
    ASSUME CallCounts, NEW location \in Locations, NEW addresses \in Addresses,
           Redirected(location, addresses)
    PROVE  CallCounts'
<1> DEFINE r == call.request
           url == Join(call.url, location)
           hop == Hop(r, url, addresses)
<1>1. CASE \E result : Answer(result, <<>>)
    BY <1>1, AnswerCounts
<1>2. CASE /\ ~UnsupportedRedirect(r) /\ ~TooManyRedirects(call.redirects + 1)
           /\ RedirectPasses(r, url, addresses)
           /\ Send(r, url, addresses, call.redirects + 1)
    <2>1. sent # <<>>
        BY DEF Redirected, CallCounts
    <2>2. /\ WellFormed(r) /\ Configured(r) /\ call.url \in UrlSet
          /\ call.redirects \in 0 .. MaxRedirects /\ Len(sent) = call.redirects + 1
          /\ sent \in Seq(HopSet)
          /\ \A k \in DOMAIN sent : Allowed(sent[k]) /\ sent[k].method = r.method
        BY <2>1 DEF CallCounts
    <2>3. r.method = "GET" /\ call.redirects + 1 \in 0 .. MaxRedirects
        BY <1>2, <2>2, BrokerAssumption DEF UnsupportedRedirect, TooManyRedirects
    <2>4. url \in UrlSet
        BY <2>2, JoinIsUrl
    <2>5. hop \in HopSet /\ hop.method = r.method /\ Allowed(hop)
        BY <1>2, <2>2, <2>4, PassesIsAllowed DEF RedirectPasses
    <2>6. /\ call'.request = r /\ call'.url = url /\ call'.redirects = call.redirects + 1
          /\ sent' = Append(sent, hop)
        BY <1>2 DEF Send
    <2> HIDE DEF r, url, hop
    <2>7. /\ sent' \in Seq(HopSet) /\ Len(sent') = Len(sent) + 1 /\ sent' # <<>>
          /\ DOMAIN sent' = 1 .. Len(sent) + 1 /\ DOMAIN sent = 1 .. Len(sent)
          /\ \A k \in 1 .. Len(sent) : sent'[k] = sent[k]
          /\ sent'[Len(sent) + 1] = hop
        BY <2>2, <2>5, <2>6
    <2>8. \A k \in DOMAIN sent' : Allowed(sent'[k]) /\ sent'[k].method = r.method
        <3> TAKE k \in DOMAIN sent'
        <3>1. CASE k \in 1 .. Len(sent)
            BY <3>1, <2>2, <2>7
        <3>2. CASE k = Len(sent) + 1
            BY <3>2, <2>5, <2>7
        <3> QED
            BY <3>1, <3>2, <2>2, <2>7
    <2>9. Len(sent') = call'.redirects + 1
        BY <2>2, <2>6, <2>7
    <2> QED
        BY <2>2, <2>3, <2>4, <2>6, <2>7, <2>8, <2>9 DEF CallCounts, Allowed, WellFormed,
            Configured, Public, PublicPolicy
<1> QED
    BY <1>1, <1>2 DEF Redirected

\* Every step keeps the count.
LEMMA StepCounts ==
    ASSUME CallCounts, [Next]_vars
    PROVE  CallCounts'
<1>1. CASE \E r \in AllRequests : Deny(r) \/ Limit(r)
    BY <1>1, AnswerCounts DEF Deny, Limit
<1>2. CASE \E r \in AllRequests : Begin(r)
    BY <1>2, BeginCounts
<1>3. CASE HopFails \/ \E text \in Bodies : HopAnswers(text)
    BY <1>3, AnswerCounts DEF HopFails, HopAnswers
<1>4. CASE \E location \in Locations, addresses \in Addresses : Redirected(location, addresses)
    BY <1>4, RedirectCounts
<1>5. CASE Tick \/ UNCHANGED vars
    BY <1>5 DEF Tick, vars, CallCounts, Allowed, WellFormed, Configured, Public, PublicPolicy
<1> QED
    BY <1>1, <1>2, <1>3, <1>4, <1>5 DEF Next

\* What is sent is counted in every behaviour.
LEMMA AlwaysCounts == Spec => []CallCounts
<1>1. CallCounts /\ [Next]_vars => CallCounts'
    BY StepCounts
<1> QED
    BY InitCounts, <1>1, PTL DEF Spec

----------------------------------------------------------------------------
\* Whatever the servers answer, wherever they redirect to and whatever names
\* resolve to, a request goes out only if the policy of its integration
\* allows it, and a public one only to a host that looked public
\* (_validate, _ssrf_check and the redirect guards).
THEOREM RequestsWithinPolicy == Spec => []SentWithinPolicy
<1>1. CallCounts => SentWithinPolicy
    BY DEF CallCounts, Allowed, SentWithinPolicy
<1> QED
    BY <1>1, AlwaysCounts, PTL

\* No call sends more than one request and MaxRedirects redirects, and nothing
\* but a GET is repeated (_execute_with_redirects).
THEOREM RequestsBounded == Spec => []SentBounded
<1>1. CallCounts => SentBounded
    <2>1. CASE sent = <<>>
        BY <2>1, BrokerAssumption DEF SentBounded
    <2>2. CASE CallCounts /\ sent # <<>>
        <3>1. /\ call.redirects \in 0 .. MaxRedirects /\ Len(sent) = call.redirects + 1
              /\ call.redirects > 0 => call.request.method = "GET"
              /\ \A k \in DOMAIN sent : sent[k].method = call.request.method
            BY <2>2 DEF CallCounts
        <3>2. ASSUME NEW k \in DOMAIN sent, sent[k].method # "GET"
              PROVE  Len(sent) = 1
            <4>1. ~(call.redirects > 0)
                BY <3>1, <3>2
            <4> QED
                BY <3>1, <4>1, BrokerAssumption
        <3> QED
            BY <3>1, <3>2, BrokerAssumption DEF SentBounded
    <2> QED
        BY <2>1, <2>2
<1> QED
    BY <1>1, AlwaysCounts, PTL

----------------------------------------------------------------------------
\* What one limiter has to give (r) against what it let through and when (q):
\* each of the requests of the last period is still missing, but for what came
\* back since, and nothing else is.
Accounted(r, q) ==
    /\ r \in 0 .. Capacity /\ q \in Seq(0 .. Period - 1)
    /\ \A j, k \in DOMAIN q : j <= k => q[k] <= q[j]
    /\ \A k \in DOMAIN q : Period * (Len(q) - k + 1) + r <= Capacity + Requests * q[k]
    /\ \A k \in DOMAIN q : Capacity <= r + Period * (Len(q) - k) + Requests * (Period - q[k])
    /\ Capacity <= r + Period * Len(q)

LimiterInv ==
    /\ tokens \in [Limited -> 0 .. Capacity]
    /\ since \in [Limited -> 0 .. Period]
    /\ admitted \in [Limited -> Seq(0 .. Period - 1)]
    /\ \A i \in Limited : Accounted(Refilled(i), admitted[i])

\* A function on 1 .. n is a sequence of length n.
LEMMA ListIsSequence ==
    ASSUME NEW n \in Nat, NEW S, NEW f \in [1 .. n -> S]
    PROVE  f \in Seq(S) /\ Len(f) = n /\ DOMAIN f = 1 .. n
OBVIOUS

\* There are n numbers from 1 to n.
LEMMA UpTo ==
    ASSUME NEW n \in Nat
    PROVE  IsFiniteSet(1 .. n) /\ Cardinality(1 .. n) = n
<1>1. /\ IsFiniteSet(1 .. n)
      /\ Cardinality(1 .. n) = IF 1 > n THEN 0 ELSE n - 1 + 1
    <2>1. 1 \in Int /\ n \in Int
        OBVIOUS
    <2> QED
        BY <2>1, FS_Interval, Zenon
<1> QED
    BY <1>1

\* With requests of different ages in order, there is a place up to which they
\* are old.
LEMMA OldComeFirst ==
    ASSUME NEW q \in Seq(0 .. Period - 1), \A j, k \in DOMAIN q : j <= k => q[k] <= q[j]
    PROVE  \E n \in 0 .. Len(q) : \A k \in DOMAIN q : k <= n <=> q[k] + 1 = Period
<1> DEFINE Old == {k \in DOMAIN q : q[k] + 1 = Period}
           n == Cardinality(Old)
<1>1. /\ Period \in Nat \ {0} /\ DOMAIN q = 1 .. Len(q) /\ Len(q) \in Nat
      /\ \A k \in DOMAIN q : q[k] \in 0 .. Period - 1
    BY BrokerAssumption
<1>2. IsFiniteSet(1 .. Len(q)) /\ Cardinality(1 .. Len(q)) = Len(q)
    BY <1>1, UpTo
<1>3. IsFiniteSet(Old) /\ n \in 0 .. Len(q)
    <2>1. Old \subseteq 1 .. Len(q)
        BY <1>1
    <2> QED
        BY <1>1, <1>2, <2>1, FS_Subset, FS_CardinalityType
<1>4. ASSUME NEW k \in DOMAIN q, q[k] + 1 = Period
      PROVE  k <= n
    <2>1. 1 .. k \subseteq Old
        <3> SUFFICES ASSUME NEW j \in 1 .. k PROVE j \in Old
            OBVIOUS
        <3>1. j \in DOMAIN q /\ q[k] <= q[j] /\ q[j] \in 0 .. Period - 1 /\ q[k] \in 0 .. Period - 1
            BY <1>1
        <3> QED
            BY <1>1, <1>4, <3>1
    <2>2. Cardinality(1 .. k) = k
        BY <1>1, UpTo
    <2> QED
        BY <1>3, <2>1, <2>2, FS_Subset
<1>5. ASSUME NEW k \in DOMAIN q, q[k] + 1 # Period
      PROVE  ~(k <= n)
    <2>1. Old \subseteq 1 .. k - 1
        <3> SUFFICES ASSUME NEW j \in Old PROVE j < k
            BY <1>1
        <3>1. /\ k <= j => q[j] <= q[k]
              /\ q[j] \in 0 .. Period - 1 /\ q[k] \in 0 .. Period - 1 /\ q[j] + 1 = Period
            BY <1>1
        <3> QED
            BY <1>1, <1>5, <3>1
    <2>2. IsFiniteSet(1 .. k - 1) /\ Cardinality(1 .. k - 1) = k - 1
        BY <1>1, UpTo
    <2>3. n <= k - 1
        BY <2>1, <2>2, FS_Subset
    <2> QED
        BY <1>1, <1>3, <2>3
<1> QED
    BY <1>3, <1>4, <1>5

\* Products and sums, for the prover
LEMMA Times ==
    ASSUME NEW a \in Int, NEW b \in Int, NEW c \in Int
    PROVE  a * (b + c) = a * b + a * c /\ a * (b - c) = a * b - a * c
OBVIOUS

\* A product of natural numbers is one.
LEMMA NaturalProduct ==
    ASSUME NEW a \in Nat, NEW b \in Nat
    PROVE  a * b \in Nat
OBVIOUS

\* A limiter gets its share of a tick back, and the requests age with it.
LEMMA AgedIsAccounted ==
    ASSUME NEW r, NEW q, Accounted(r, q)
    PROVE  Accounted(Minimum(Capacity, r + Requests), Aged(q))
<1> DEFINE P == Period  R == Requests  C == Capacity  L == Len(q)
           r2 == Minimum(C, r + R)
           a == Aged(q)
           Here(n) == \A k \in DOMAIN q : k <= n <=> q[k] + 1 = Period
           old == CHOOSE n \in 0 .. L : Here(n)
<1>1. /\ P \in Nat \ {0} /\ R \in Nat \ {0} /\ C = R * P /\ C \in Nat
      /\ r \in 0 .. C /\ q \in Seq(0 .. P - 1) /\ DOMAIN q = 1 .. L /\ L \in Nat
    BY BrokerAssumption DEF Accounted, Capacity
<1>2a. \A j, k \in DOMAIN q : j <= k => q[k] <= q[j]
    BY DEF Accounted
<1>2b. /\ \A k \in DOMAIN q : P * (L - k + 1) + r <= C + R * q[k]
      /\ \A k \in DOMAIN q : C <= r + P * (L - k) + R * (P - q[k])
    BY DEF Accounted
<1>2c. C <= r + P * L
    BY DEF Accounted
<1>2. \A k \in 1 .. L : q[k] \in 0 .. P - 1
    BY <1>1
<1>3. old \in 0 .. L /\ Here(old)
    BY <1>1, <1>2a, OldComeFirst
<1>4. a = [k \in 1 .. L - old |-> q[old + k] + 1]
    BY DEF Aged
<1> HIDE DEF old, a
<1>5. ASSUME NEW k \in 1 .. L - old
      PROVE  old + k \in 1 .. L /\ a[k] = q[old + k] + 1 /\ a[k] \in 0 .. P - 1
    <2>1. old + k \in 1 .. L /\ ~(old + k <= old)
        BY <1>1, <1>3
    <2>2. q[old + k] \in 0 .. P - 1 /\ q[old + k] + 1 # P
        BY <1>1, <1>2, <1>3, <2>1
    <2>3. a[k] = q[old + k] + 1
        BY <1>4
    <2> HIDE DEF P
    <2>4. q[old + k] + 1 \in 0 .. P - 1
        BY <1>1, <2>2
    <2> QED
        BY <2>1, <2>3, <2>4
<1>6. /\ a \in Seq(0 .. P - 1) /\ Len(a) = L - old /\ DOMAIN a = 1 .. L - old
      /\ L - old \in Nat
    <2>1. L - old \in Nat
        BY <1>1, <1>3
    <2>2. a \in [1 .. L - old -> 0 .. P - 1]
        BY <1>4, <1>5, Zenon
    <2> QED
        BY <2>1, <2>2, ListIsSequence, Zenon
<1>7. /\ r2 \in 0 .. C /\ r2 <= r + R
      /\ r2 = C \/ r2 = r + R
    BY <1>1 DEF Minimum
<1> HIDE DEF P, R, C, L, r2, Here
<1>8. ASSUME NEW j \in DOMAIN a, NEW k \in DOMAIN a, j <= k
      PROVE  a[k] <= a[j]
    <2>1. /\ j \in 1 .. L - old /\ old + j \in 1 .. L /\ a[j] = q[old + j] + 1
          /\ k \in 1 .. L - old /\ old + k \in 1 .. L /\ a[k] = q[old + k] + 1
        BY <1>5, <1>6
    <2>2. old + j <= old + k /\ q[old + j] \in Nat /\ q[old + k] \in Nat
        BY <1>1, <1>2, <1>3, <1>8, <2>1
    <2>3. q[old + k] <= q[old + j]
        BY <1>1, <1>2a, <2>1, <2>2
    <2> QED
        BY <2>1, <2>2, <2>3
<1>9. ASSUME NEW k \in DOMAIN a
      PROVE  /\ P * (Len(a) - k + 1) + r2 <= C + R * a[k]
             /\ C <= r2 + P * (Len(a) - k) + R * (P - a[k])
    <2> DEFINE j == old + k  x == q[j]
    <2>1. j \in 1 .. L /\ a[k] = x + 1 /\ x \in 0 .. P - 1 /\ x + 1 <= P - 1 /\ Len(a) - k = L - j
        <3>1. k \in 1 .. L - old /\ j \in 1 .. L /\ a[k] = x + 1 /\ a[k] \in 0 .. P - 1
            BY <1>5, <1>6
        <3>2. x \in 0 .. P - 1
            BY <1>2, <3>1
        <3>3. Len(a) - k = L - j
            BY <1>1, <1>3, <1>6, <3>1
        <3> QED
            BY <1>1, <3>1, <3>2, <3>3
    <2>2. P * (L - j + 1) + r <= C + R * x /\ C <= r + P * (L - j) + R * (P - x)
        BY <1>1, <1>2b, <2>1
    <2> HIDE DEF j, x
    <2>3. /\ R * (x + 1) = R * x + R
          /\ R * (P - (x + 1)) = R * (P - x) - R
        <3>1. R * 1 = R /\ P - (x + 1) = P - x - 1
            BY <1>1, <2>1
        <3>2. P - x \in Int /\ 1 \in Int /\ x \in Int /\ R \in Int
            BY <1>1, <2>1
        <3> QED
            BY <3>1, <3>2, Times
    <2>4. P * (L - j) \in Nat /\ R * (P - (x + 1)) \in Nat
        BY <1>1, <2>1, NaturalProduct
    <2>5. P * (L - j + 1) \in Int /\ R * x \in Int /\ R * (P - x) \in Int
        BY <1>1, <2>1
    <2>6. /\ Len(a) - k + 1 = L - j + 1 /\ Len(a) - k = L - j /\ a[k] = x + 1
        BY <2>1
    <2>7. P * (L - j + 1) + r2 <= C + R * (x + 1)
        BY <1>1, <1>7, <2>2, <2>3, <2>5
    <2>8. C <= r2 + P * (L - j) + R * (P - (x + 1))
        BY <1>1, <1>7, <2>2, <2>3, <2>4, <2>5
    <2> QED
        BY <2>6, <2>7, <2>8
<1>10. C <= r2 + P * Len(a)
    <2>1. P * (L - old) \in Nat
        BY <1>1, <1>3, NaturalProduct
    <2>2. CASE old = 0
        <3>1. Len(a) = L /\ C <= r + P * L /\ P * L \in Nat
            BY <1>1, <1>2c, <1>6, <2>2, NaturalProduct
        <3>2. P * Len(a) = P * L
            BY <3>1
        <3> QED
            BY <1>1, <1>7, <3>1, <3>2
    <2>3. CASE old # 0
        <3>1. old \in 1 .. L /\ q[old] + 1 = P
            BY <1>1, <1>3, <2>3 DEF Here, P
        <3>2. P - q[old] = 1 /\ R * 1 = R
            BY <1>1, <1>2, <3>1
        <3>3. C <= r + P * (L - old) + R * (P - q[old])
            BY <1>1, <1>2b, <3>1
        <3>4. C <= r + P * (L - old) + R
            BY <3>2, <3>3
        <3> QED
            BY <1>1, <1>6, <1>7, <2>1, <3>4
    <2> QED
        BY <2>2, <2>3
<1> QED
    BY <1>6, <1>7, <1>8, <1>9, <1>10 DEF Accounted, P, R, C, r2, a

\* A request that is let through takes what it costs.
LEMMA AdmittedIsAccounted ==
    ASSUME NEW r, NEW q, Accounted(r, q), r >= Period
    PROVE  Accounted(r - Period, Append(q, 0))
<1> DEFINE P == Period  R == Requests  C == Capacity  L == Len(q)
           a == Append(q, 0)
<1>1. /\ P \in Nat \ {0} /\ R \in Nat \ {0} /\ C = R * P /\ C \in Nat
      /\ r \in 0 .. C /\ r >= P /\ q \in Seq(0 .. P - 1) /\ DOMAIN q = 1 .. L /\ L \in Nat
    BY BrokerAssumption DEF Accounted, Capacity
<1>2a. \A j, k \in DOMAIN q : j <= k => q[k] <= q[j]
    BY DEF Accounted
<1>2b. /\ \A k \in DOMAIN q : P * (L - k + 1) + r <= C + R * q[k]
      /\ \A k \in DOMAIN q : C <= r + P * (L - k) + R * (P - q[k])
    BY DEF Accounted
<1>2c. C <= r + P * L
    BY DEF Accounted
<1>2. \A k \in 1 .. L : q[k] \in 0 .. P - 1
    BY <1>1
<1>3. /\ a \in Seq(0 .. P - 1) /\ Len(a) = L + 1 /\ DOMAIN a = 1 .. L + 1
      /\ \A k \in 1 .. L : a[k] = q[k]
      /\ a[L + 1] = 0
    BY <1>1
<1> HIDE DEF P, R, C, L, a
<1>9. \A k \in 1 .. L + 1 : a[k] \in Nat
    <2> SUFFICES ASSUME NEW k \in 1 .. L + 1 PROVE a[k] \in Nat
        OBVIOUS
    <2>1. k \in 1 .. L \/ k = L + 1
        BY <1>1
    <2> QED
        BY <1>1, <1>2, <1>3, <2>1
<1>4. ASSUME NEW j \in DOMAIN a, NEW k \in DOMAIN a, j <= k
      PROVE  a[k] <= a[j]
    <2>1. CASE k = L + 1
        <3>1. a[j] \in Nat
            BY <1>3, <1>9
        <3> QED
            BY <1>3, <2>1, <3>1
    <2>2. CASE k # L + 1
        <3>1. j \in 1 .. L /\ k \in 1 .. L
            BY <1>1, <1>3, <1>4, <2>2
        <3>2. a[j] = q[j] /\ a[k] = q[k]
            BY <1>3, <3>1
        <3> QED
            BY <1>1, <1>2a, <1>4, <3>1, <3>2
    <2> QED
        BY <2>1, <2>2
<1>5. ASSUME NEW x \in Int
      PROVE  P * (x + 1) = P * x + P
    BY <1>1, <1>5, Times
<1>6. ASSUME NEW k \in DOMAIN a
      PROVE  /\ P * (Len(a) - k + 1) + (r - P) <= C + R * a[k]
             /\ C <= r - P + P * (Len(a) - k) + R * (P - a[k])
    <2>1. CASE k = L + 1
        <3>1. Len(a) - k + 1 = 1 /\ Len(a) - k = 0 /\ a[k] = 0
            BY <1>1, <1>3, <2>1
        <3>2. P * 1 = P /\ P * 0 = 0 /\ R * 0 = 0 /\ R * (P - 0) = C
            BY <1>1
        <3> QED
            BY <1>1, <3>1, <3>2
    <2>2. CASE k # L + 1
        <3>1. k \in 1 .. L /\ a[k] = q[k]
            BY <1>1, <1>3, <2>2
        <3> DEFINE m == L - k  x == q[k]
        <3>2. m \in Nat /\ x \in Nat /\ Len(a) - k + 1 = m + 1 + 1 /\ Len(a) - k = m + 1
            <4>1. x \in 0 .. P - 1
                BY <1>2, <3>1
            <4>2. x \in Nat
                BY <1>1, <4>1
            <4> HIDE DEF x
            <4> QED
                BY <1>1, <1>3, <3>1, <4>2
        <3>3. P * (m + 1) + r <= C + R * x /\ C <= r + P * m + R * (P - x)
            BY <1>1, <1>2b, <3>1
        <3> HIDE DEF m, x
        <3>4. P * (m + 1 + 1) = P * (m + 1) + P /\ P * (m + 1) = P * m + P
            BY <1>5, <3>2
        <3>5. P * m \in Int /\ R * x \in Int /\ R * (P - x) \in Int
            BY <1>1, <3>2
        <3>6. P * (m + 1 + 1) + (r - P) <= C + R * x
            BY <1>1, <3>3, <3>4, <3>5
        <3>7. C <= r - P + P * (m + 1) + R * (P - x)
            BY <1>1, <3>3, <3>4, <3>5
        <3> QED
            BY <3>1, <3>2, <3>6, <3>7 DEF x
    <2> QED
        BY <2>1, <2>2
<1>7. C <= r - P + P * Len(a)
    <2>1. P * (L + 1) = P * L + P /\ P * L \in Int
        BY <1>1, <1>5
    <2> QED
        <3>1. Len(a) = L + 1 /\ C <= r + P * L
            BY <1>2c, <1>3
        <3>2. P * Len(a) = P * L + P
            BY <2>1, <3>1
        <3> QED
            BY <1>1, <2>1, <3>1, <3>2
<1>8. r - P \in 0 .. C
    BY <1>1
<1> QED
    BY <1>3, <1>4, <1>6, <1>7, <1>8 DEF Accounted, P, R, C, a

\* At the start a limiter has everything to give.
LEMMA InitAccounted == Init => LimiterInv
<1> SUFFICES ASSUME Init PROVE LimiterInv
    OBVIOUS
<1> USE BrokerAssumption
<1>1. Capacity \in Nat /\ Requests * Period = Capacity /\ Period \in Nat \ {0}
    BY DEF Capacity
<1>2. /\ tokens \in [Limited -> 0 .. Capacity] /\ since \in [Limited -> 0 .. Period]
      /\ admitted \in [Limited -> Seq(0 .. Period - 1)]
    BY <1>1 DEF Init
<1>3. ASSUME NEW i \in Limited
      PROVE  Accounted(Refilled(i), admitted[i])
    <2>1. tokens[i] = Capacity /\ since[i] = 0 /\ admitted[i] = <<>>
        BY DEF Init
    <2>2. 0 * Requests = 0 /\ Period * 0 = 0
        BY <1>1
    <2>3. Refilled(i) = Capacity
        BY <1>1, <2>1, <2>2 DEF Refilled, Minimum
    <2>4. Accounted(Capacity, <<>>)
        BY <1>1, <2>2 DEF Accounted
    <2> QED
        BY <2>1, <2>3, <2>4
<1> QED
    BY <1>2, <1>3 DEF LimiterInv

\* What a limiter has to give grows by a tick's share, up to its capacity.
LEMMA TickRefills ==
    ASSUME LimiterInv, Tick, NEW i \in Limited
    PROVE  Refilled(i)' = Minimum(Capacity, Refilled(i) + Requests)
<1> DEFINE t == tokens[i]  s == since[i]
<1>1. /\ Requests \in Nat \ {0} /\ Period \in Nat \ {0} /\ Capacity = Requests * Period
      /\ Capacity \in Nat /\ t \in 0 .. Capacity /\ s \in 0 .. Period
    BY BrokerAssumption DEF LimiterInv, Capacity
<1>2. tokens'[i] = t /\ since'[i] = Minimum(s + 1, Period)
    BY DEF Tick
<1> HIDE DEF t, s
<1>3. Refilled(i) = Minimum(Capacity, t + s * Requests)
    BY DEF Refilled, t, s
<1>4. Refilled(i)' = Minimum(Capacity, t + Minimum(s + 1, Period) * Requests)
    BY <1>2 DEF Refilled
<1>5. CASE s = Period
    <2>1. Minimum(s + 1, Period) = s /\ s * Requests = Capacity
        BY <1>1, <1>5 DEF Minimum
    <2>2. Refilled(i) = Capacity /\ Refilled(i)' = Capacity
        BY <1>1, <1>3, <1>4, <2>1 DEF Minimum
    <2> QED
        BY <1>1, <2>2 DEF Minimum
<1>6. CASE s # Period
    <2>1. Minimum(s + 1, Period) = s + 1
        BY <1>1, <1>6 DEF Minimum
    <2>2. (s + 1) * Requests = s * Requests + Requests /\ s * Requests \in Nat
        BY <1>1
    <2>3. Refilled(i)' = Minimum(Capacity, t + (s * Requests + Requests))
        BY <1>4, <2>1, <2>2
    <2> DEFINE m == s * Requests
    <2>4. m \in Nat
        BY <2>2
    <2> HIDE DEF m
    <2>5. Minimum(Capacity, t + (m + Requests)) =
              Minimum(Capacity, Minimum(Capacity, t + m) + Requests)
        BY <1>1, <2>4 DEF Minimum
    <2> QED
        BY <1>3, <2>3, <2>5 DEF m
<1> QED
    BY <1>5, <1>6

\* A tick keeps every limiter accounted for.
LEMMA TickAccounted ==
    ASSUME LimiterInv, Tick
    PROVE  LimiterInv'
<1>1. ASSUME NEW i \in Limited
      PROVE  Accounted(Refilled(i)', admitted'[i])
    <2>1. Accounted(Refilled(i), admitted[i])
        BY DEF LimiterInv
    <2>2. admitted'[i] = Aged(admitted[i])
        BY DEF Tick
    <2> QED
        BY <2>1, <2>2, TickRefills, AgedIsAccounted
<1>2. tokens' \in [Limited -> 0 .. Capacity]
    BY DEF Tick, LimiterInv
<1>3. since' \in [Limited -> 0 .. Period]
    <2>1. \A i \in Limited : Minimum(since[i] + 1, Period) \in 0 .. Period
        BY BrokerAssumption DEF LimiterInv, Minimum
    <2> QED
        BY <2>1 DEF Tick
<1>4. admitted' \in [Limited -> Seq(0 .. Period - 1)]
    <2>1. \A i \in Limited : admitted'[i] \in Seq(0 .. Period - 1)
        BY <1>1 DEF Accounted
    <2> QED
        BY <2>1 DEF Tick
<1> QED
    BY <1>1, <1>2, <1>3, <1>4 DEF LimiterInv, Accounted, Refilled, Capacity

\* _TokenBucket.consume: one limiter gives what a request costs, or nothing.
LEMMA ConsumeAccounted ==
    ASSUME LimiterInv, NEW i \in Limited, NEW ok \in BOOLEAN, Consume(i, ok)
    PROVE  LimiterInv'
<1> DEFINE r == Refilled(i)
           r2 == IF ok THEN r - Period ELSE r
           q2 == IF ok THEN Append(admitted[i], 0) ELSE admitted[i]
<1>1. /\ Requests \in Nat \ {0} /\ Period \in Nat \ {0} /\ Capacity \in Nat
      /\ Accounted(r, admitted[i]) /\ r \in 0 .. Capacity
    BY BrokerAssumption DEF LimiterInv, Capacity, Accounted
<1>2. /\ ok => r >= Period
      /\ tokens' = [tokens EXCEPT ![i] = r2] /\ since' = [since EXCEPT ![i] = 0]
      /\ admitted' = [admitted EXCEPT ![i] = q2]
    <2>1. /\ ok = (r >= Period)
          /\ tokens' = [tokens EXCEPT ![i] = r2] /\ since' = [since EXCEPT ![i] = 0]
          /\ admitted' = IF ok THEN [admitted EXCEPT ![i] = Append(@, 0)] ELSE admitted
        BY DEF Consume
    <2>2. admitted' = [admitted EXCEPT ![i] = q2]
        BY <2>1 DEF LimiterInv
    <2> QED
        BY <2>1, <2>2
<1>3. Accounted(r2, q2)
    <2>1. CASE ok
        BY <1>1, <1>2, <2>1, AdmittedIsAccounted
    <2>2. CASE ~ok
        BY <1>1, <2>2
    <2> QED
        BY <2>1, <2>2
<1> HIDE DEF r, r2, q2
<1>4. r2 \in 0 .. Capacity /\ q2 \in Seq(0 .. Period - 1) /\ 0 \in 0 .. Period
    BY <1>1, <1>3 DEF Accounted
<1>5. /\ tokens' \in [Limited -> 0 .. Capacity] /\ since' \in [Limited -> 0 .. Period]
      /\ admitted' \in [Limited -> Seq(0 .. Period - 1)]
    BY <1>2, <1>4 DEF LimiterInv
<1>6. ASSUME NEW j \in Limited
      PROVE  Accounted(Refilled(j)', admitted'[j])
    <2>1. CASE j = i
        <3>1. tokens'[j] = r2 /\ since'[j] = 0 /\ admitted'[j] = q2
            BY <1>2, <2>1 DEF LimiterInv
        <3>2. 0 * Requests = 0
            BY <1>1
        <3>3. Refilled(j)' = r2
            BY <1>1, <1>4, <3>1, <3>2 DEF Refilled, Minimum
        <3> QED
            BY <1>3, <3>1, <3>3
    <2>2. CASE j # i
        <3>1. tokens'[j] = tokens[j] /\ since'[j] = since[j] /\ admitted'[j] = admitted[j]
            BY <1>2, <2>2 DEF LimiterInv
        <3> QED
            BY <3>1 DEF LimiterInv, Refilled
    <2> QED
        BY <2>1, <2>2
<1> QED
    BY <1>5, <1>6 DEF LimiterInv, Accounted, Refilled, Capacity

\* Every step keeps the limiters accounted for.
LEMMA StepAccounted ==
    ASSUME LimiterInv, [Next]_vars
    PROVE  LimiterInv'
<1>1. CASE UNCHANGED limiters
    BY <1>1 DEF limiters, LimiterInv, Refilled
<1>2. ASSUME NEW r \in AllRequests, Limit(r) \/ Begin(r)
      PROVE  LimiterInv'
    <2>1. CASE Key(r) \in Limited
        <3>1. Consume(Key(r), TRUE) \/ Consume(Key(r), FALSE)
            BY <1>2, <2>1 DEF Limit, Begin
        <3> QED
            BY <2>1, <3>1, ConsumeAccounted
    <2>2. CASE Key(r) \notin Limited
        BY <1>1, <1>2, <2>2 DEF Limit, Begin
    <2> QED
        BY <2>1, <2>2
<1>3. CASE Tick
    BY <1>3, TickAccounted
<1>4. CASE \/ \E r \in AllRequests : Deny(r)
           \/ HopFails
           \/ \E text \in Bodies : HopAnswers(text)
           \/ \E location \in Locations, addresses \in Addresses : Redirected(location, addresses)
           \/ UNCHANGED vars
    BY <1>1, <1>4 DEF Deny, HopFails, HopAnswers, Redirected, vars
<1> QED
    BY <1>2, <1>3, <1>4 DEF Next

\* A limiter that is accounted for keeps its rate, and wastes nothing of it.
LEMMA AccountedIsLimited ==
    ASSUME NEW r, NEW q, Accounted(r, q)
    PROVE  /\ Len(q) <= Requests + (Requests * (Period - 1)) \div Period
           /\ r < Period => Len(q) >= Requests
<1> DEFINE P == Period  R == Requests  C == Capacity  L == Len(q)
           X == R * (P - 1)
<1>1. /\ P \in Nat \ {0} /\ R \in Nat \ {0} /\ C = R * P /\ C \in Nat
      /\ r \in 0 .. C /\ q \in Seq(0 .. P - 1) /\ DOMAIN q = 1 .. L /\ L \in Nat
    BY BrokerAssumption DEF Accounted, Capacity
<1>2. X \in Nat /\ X \div P \in Nat
    <2>1. P - 1 \in Nat
        BY <1>1
    <2> QED
        BY <1>1, <2>1, NaturalProduct
<1>3. L <= R + X \div P
    <2>1. CASE L = 0
        BY <1>1, <1>2, <2>1
    <2>2. CASE L # 0
        <3> DEFINE a == q[1]
        <3>1. 1 \in DOMAIN q /\ a \in 0 .. P - 1
            BY <1>1, <2>2
        <3>2. P * (L - 1 + 1) + r <= C + R * a
            BY <3>1 DEF Accounted
        <3> HIDE DEF a, L, X
        <3>3. L - 1 + 1 = L
            BY <1>1
        <3>4. R * a <= X
            BY <1>1, <3>1 DEF X
        <3>5. P * L <= P * R + X
            <4>1. P * R = C /\ P * L \in Int /\ R * a \in Int
                BY <1>1, <3>1
            <4> QED
                BY <1>1, <1>2, <3>2, <3>3, <3>4, <4>1
        <3>6. P * (L - R) <= X
            <4>1. P * (L - R) = P * L - P * R
                BY <1>1, Times
            <4>2. P * L \in Int /\ P * R \in Int
                BY <1>1
            <4> QED
                BY <1>2, <3>5, <4>1, <4>2
        <3>7. L - R <= X \div P
            <4> DEFINE d == X \div P
            <4>1. X < P * d + P
                BY <1>1, <1>2
            <4>2. P * (d + 1) = P * d + P
                BY <1>1, <1>2, Times
            <4>3. d \in Nat /\ L - R \in Int
                BY <1>1, <1>2
            <4> HIDE DEF d
            <4>4. P * (L - R) < P * (d + 1)
                BY <1>1, <1>2, <3>6, <4>1, <4>2, <4>3
            <4>5. L - R < d + 1
                BY <1>1, <4>3, <4>4
            <4> QED
                BY <4>3, <4>5 DEF d
        <3> QED
            BY <1>1, <1>2, <3>7
    <2> QED
        BY <2>1, <2>2
<1>4. ASSUME r < P
      PROVE  L >= R
    <2>1. C <= r + P * L
        BY DEF Accounted
    <2> HIDE DEF L
    <2>2. R * P < P + P * L
        BY <1>1, <1>4, <2>1
    <2>3. P * R < P * (L + 1)
        BY <1>1, <2>2
    <2> QED
        BY <1>1, <2>3
<1> QED
    BY <1>3, <1>4

\* Over any period a limiter lets through its burst and what comes back in the
\* meantime and no more, and it refuses only when it has let all of its
\* requests through within the period (_TokenBucket.consume).
THEOREM RateIsKept == Spec => []RateLimited
<1>1. LimiterInv => RateLimited
    <2> SUFFICES ASSUME LimiterInv, NEW i \in Limited
                 PROVE  /\ Len(admitted[i]) <= Requests + (Requests * (Period - 1)) \div Period
                        /\ Refilled(i) < Period => Len(admitted[i]) >= Requests
        BY DEF RateLimited
    <2>1. Accounted(Refilled(i), admitted[i])
        BY DEF LimiterInv
    <2> QED
        BY <2>1, AccountedIsLimited
<1>2. LimiterInv /\ [Next]_vars => LimiterInv'
    BY StepAccounted
<1> QED
    BY InitAccounted, <1>1, <1>2, PTL DEF Spec

----------------------------------------------------------------------------
\* What the LLM client knows of the modes: each mode that it found is the one
\* it uses, and none works unless it has been found.
ProbeInv ==
    /\ config \in Llm!Configs /\ ran \in BOOLEAN
    /\ resolved \in Llm!Modes \cup {None}
    /\ found \in [Llm!Modes -> {"unknown", "works", "refused", "error"}]
    /\ left \in {<<>>, <<"required">>, <<"forced_function">>, <<"forced_function", "required">>}
    /\ left # <<>> => using = None /\ resolved = None
    /\ resolved # None => found[resolved] = "works"
    /\ resolved = None => \A m \in Llm!Modes : found[m] # "works"
    /\ ~ran => left = <<>> /\ resolved = None
    /\ config.probe => (using \in Llm!Modes => using = resolved)
    /\ config.probe /\ config.structured = "native" /\ using = "prompt" => resolved = None

\* At the start no mode has been probed.
LEMMA ProbeInit == Llm!Init => ProbeInv
BY NoneAssumption DEF Llm!Init, ProbeInv, Llm!Modes

\* Every step of the client keeps what it knows of the modes.
LEMMA ProbeStep ==
    ASSUME ProbeInv, Llm!Next
    PROVE  ProbeInv'
<1> USE NoneAssumption DEF Llm!Modes, Llm!Idle
<1>1. CASE Llm!CompleteText
    BY <1>1 DEF Llm!CompleteText, ProbeInv
<1>2. CASE Llm!CompleteAction
    BY <1>2 DEF Llm!CompleteAction, ProbeInv, Llm!Configs
<1>3. CASE Llm!StartProbe
    BY <1>3 DEF Llm!StartProbe, ProbeInv, Llm!Configs, Llm!ProbeOrder
<1>4. CASE Llm!ProbeWorks
    BY <1>4 DEF Llm!ProbeWorks, ProbeInv, Llm!Configs
<1>5. CASE Llm!ProbeRefused
    <2> DEFINE m == Head(left)
    <2>1. /\ left \in {<<"required">>, <<"forced_function">>, <<"forced_function", "required">>}
          /\ left' = Tail(left) /\ found' = [found EXCEPT ![m] = "refused"]
          /\ using' = IF Len(left) = 1 /\ config.fallback THEN "prompt" ELSE None
          /\ config' = config /\ ran' = ran /\ resolved' = resolved
          /\ resolved = None /\ ran
        BY <1>5 DEF Llm!ProbeRefused, ProbeInv
    <2>2. m \in Llm!Modes /\ left' \in {<<>>, <<"required">>}
        <3>1. CASE left = <<"required">>
            BY <2>1, <3>1
        <3>2. CASE left = <<"forced_function">>
            BY <2>1, <3>2
        <3>3. CASE left = <<"forced_function", "required">>
            BY <2>1, <3>3
        <3> QED
            BY <2>1, <3>1, <3>2, <3>3
    <2>3. left' # <<>> => using' = None
        <3>1. CASE Len(left) = 1
            <4>1. left' = <<>>
                BY <2>1, <3>1
            <4> QED
                BY <4>1
        <3>2. CASE Len(left) # 1
            BY <2>1, <3>2
        <3> QED
            BY <3>1, <3>2
    <2>4. using' \in {"prompt", None}
        BY <2>1
    <2> HIDE DEF m
    <2>5. /\ found' \in [Llm!Modes -> {"unknown", "works", "refused", "error"}]
          /\ \A n \in Llm!Modes : found'[n] # "works"
        BY <2>1, <2>2 DEF ProbeInv
    <2> QED
        BY <2>1, <2>2, <2>3, <2>4, <2>5 DEF ProbeInv, Llm!Configs
<1>6. CASE Llm!ProbeRaises
    BY <1>6 DEF Llm!ProbeRaises, ProbeInv, Llm!Configs
<1>7. CASE Llm!CompletionEnds
    BY <1>7 DEF Llm!CompletionEnds, ProbeInv
<1> QED
    BY <1>1, <1>2, <1>3, <1>4, <1>5, <1>6, <1>7 DEF Llm!Next

\* Whatever the broker does in between, a completion asks for actions in a
\* mode that the provider took when it was probed, and by the prompt once a
\* probe has found none (_resolve_native_tool_choice_mode).
THEOREM CompletionsWork == ServicesSpec => []CompletionUsesWhatWorks
<1>1. ServicesInit => ProbeInv
    BY ProbeInit DEF ServicesInit
<1>2. ASSUME ProbeInv, [ServicesNext]_<<vars, llm>>
      PROVE  ProbeInv'
    <2>1. CASE Llm!Next
        BY <1>2, <2>1, ProbeStep
    <2>2. CASE UNCHANGED llm
        BY <1>2, <2>2 DEF llm, ProbeInv
    <2> QED
        BY <1>2, <2>1, <2>2 DEF ServicesNext, BrokerServes, LlmServes
<1>3. ProbeInv => CompletionUsesWhatWorks
    BY NoneAssumption DEF ProbeInv, CompletionUsesWhatWorks, Llm!UsesWhatWorks, Llm!Modes
<1> QED
    BY <1>1, <1>2, <1>3, PTL DEF ServicesSpec

----------------------------------------------------------------------------
\* With an LLM client next to it, a host's broker is the broker that the
\* theorems above are about (HostServiceServer.handle_incoming).
THEOREM HostServesAsBroker == ServicesSpec => Spec
<1>1. ServicesInit => Init
    BY DEF ServicesInit
<1>2. [ServicesNext]_<<vars, llm>> => [Next]_vars
    BY DEF ServicesNext, BrokerServes, LlmServes
<1> QED
    BY <1>1, <1>2, PTL DEF ServicesSpec, Spec

=============================================================================

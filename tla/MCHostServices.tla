--------------------------- MODULE MCHostServices ---------------------------
(* A host with one integration that has a limit, the search integration,   *)
(* and servers that redirect to each other.                                *)
EXTENDS HostServices

CONSTANTS x, y, z

Url(s, h, p) == [scheme |-> s, host |-> h, path |-> p]

TwoUrls == {Url("https", "api", "/v1"), Url("http", "web", "/")}

\* To another host with either scheme, to another path of the same host, and
\* to what is no page
SomeLocations ==
    {Url("https", "api", "/v1"), Url("http", "web", "/"), Url("http", "api", "/v1"),
     Url(None, None, "/"), Url("file", "api", "/v1")}

Policies ==
    [api |-> [schemes |-> {"https"}, methods |-> {"GET", "POST"}, hosts |-> {"api"},
              paths |-> {"/v1"}, protected |-> {"authorization"}],
     search |-> [schemes |-> {"http", "https"}, methods |-> {"GET"}, hosts |-> {"web"},
                 paths |-> {"/", "/v1"}, protected |-> {"authorization"}]]

SearchUrl == Url("http", "web", "/")

\* max_response_bytes cuts a text after its third character.
ShortTexts == UNION {[1 .. n -> {x, y, z}] : n \in 0 .. 3}

\* A token within another one
NestedTokens == {<<x, y>>, <<y>>, <<x, y, z>>}
=============================================================================

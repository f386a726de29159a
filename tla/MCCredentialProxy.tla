------------------------- MODULE MCCredentialProxy -------------------------
(* Rule files for the proxy: a host with an OAuth and an API key rule, and two *)
(* hosts that share one rule.                                                  *)
EXTENDS CredentialProxy, TLC

CONSTANTS a, b, d, c1, c2

Rule(name, hosts, header, limit, span, values, method, strict) ==
    [name |-> name, hosts |-> hosts, header |-> header, limit |-> limit, span |-> span,
     values |-> values, method |-> method, strict |-> strict]

OAuth(limit, values) == Rule("oauth", {a}, "authorization", limit, 2, values, "oauth", FALSE)
Key                  == Rule("key", {a}, "x-api-key", 0, 0, 0, "api_key", TRUE)
Google               == Rule("google", {b, d}, "authorization", 0, 0, 2, "none", TRUE)

\* The user adds a key before the OAuth rule, changes its limit and its values, and
\* exempts a host that pins its certificate.
Changing == {[rules |-> <<OAuth(1, 2), Google>>, bypass |-> {}],
             [rules |-> <<Key, OAuth(2, 3), Google>>, bypass |-> {b}]}

\* The connection slots are interchangeable.
ConnSymmetry == Permutations(Conns)
=============================================================================

-------------------------- MODULE MCNetworkLocking --------------------------
(* Small instances of NetworkLocking. *)
EXTENDS NetworkLocking

CONSTANTS h1, h2, h3, n1, n2, n3, n4, r1, r2, u1, u2

\* One object for each of three entries, and a second one for the first.
FourObjects == n1 :> h1 @@ n2 :> h2 @@ n3 :> h3 @@ n4 :> h1

\* Two objects for each of two entries.
TwiceTwoHosts == n1 :> h1 @@ n2 :> h2 @@ n3 :> h1 @@ n4 :> h2

\* An entry is dropped, and comes back as another node.
TwoBooks == {{h2}, {h1, h2}}
AllBooks == SUBSET Host \ {{}}

\* Two requests with three nodes, a request and a replacement with two, or
\* a request alone.
TwoRequests == {[goroutines |-> {r1, r2}, nodes |-> {n1, n2, n3}]}
OneReplacement == {[goroutines |-> {r1, u1}, nodes |-> {n1, n2}]}
TwoReplacements == {[goroutines |-> {u1, u2}, nodes |-> {n1, n2}]}
AloneRequest == {[goroutines |-> {r1}, nodes |-> {n1, n2, n3}]}
AllScenarios == TwoRequests \cup OneReplacement \cup AloneRequest
=============================================================================

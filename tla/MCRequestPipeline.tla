------------------------- MODULE MCRequestPipeline -------------------------
(* Bounded instances of RequestPipeline for TLC. *)
EXTENDS RequestPipeline

CONSTANTS r1, r2
Requests == Permutations({r1, r2})

\* A static and a parameterised route; one path both match and one neither does.
MCPatterns == {<<"a">>, <<Param>>}
MCPaths == {<<"a">>, <<"a", "b">>}
MCPrefix == <<"a">>

\* Three labels by their code units, and as a dictionary has them: "a" and "b"
\* sort alike, "B" and either of them do not.
MCLabels == {"a", "b", "B"}
MCCode == [label \in MCLabels |-> CASE label = "B" -> 1 [] label = "a" -> 2 [] label = "b" -> 3]
MCLocale == [label \in MCLabels |-> CASE label = "a" -> 1 [] label = "b" -> 2 [] label = "B" -> 3]
=============================================================================

----------------------------- MODULE MCSession -----------------------------
(***************************************************************************)
(* What outlives a request, bounded for TLC: a behaviour belongs to the    *)
(* sessions of one browser or to the room bridges between several          *)
(* processes, and the variables of the other stay as they start.  Session  *)
(* ids are taken in a fixed order.                                         *)
(***************************************************************************)
EXTENDS Session, SessionParts, TLC

VARIABLE part

allVars == <<part, vars, bridge>>

MCInit == Init /\ Bridge!Init /\ part \in {"session", "bridge"}

MCNext ==
  /\ UNCHANGED part
  /\ \/ part = "session" /\ UNCHANGED bridge /\ Next
     \/ part = "bridge" /\ UNCHANGED vars /\ Bridge!Next

MCSpec == MCInit /\ [][MCNext]_allVars

\* Requests are interchangeable, and so are instances.  A behaviour has one or the
\* other, so the permutations that swap two of each at a time are enough.
Swaps(S) == {p \in Permutations(S) : Cardinality({x \in S : p[x] # x}) = 2}
Symmetry == {p @@ q : p \in Swaps(Request), q \in Swaps(Instance)}
=============================================================================

------------------------- MODULE MCDiscoverySession -------------------------
EXTENDS DiscoverySession, TLC
CONSTANTS n1, n2
MCSymmetry == Permutations(Sessions)
Req(prev, new, discard, token) == [prev |-> prev, new |-> new, discard |-> discard, token |-> token]
(* A first request, one whose numbers do not belong to its token, one that  *)
(* repeats the first, and one that gives its number up for another.         *)
MCRequests ==
    {Req({}, {n1}, {}, NoToken), Req({n2}, {}, {n1}, 1), Req({n1}, {}, {}, 1), Req({}, {n2}, {n1}, 1)}
=============================================================================

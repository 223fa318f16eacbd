---- MODULE MCStickyStore ----
(* Instances of StickyStore for TLC: address x lies in prefix p, y in q. *)
EXTENDS StickyStore, TLC
CONSTANTS u, v, s, t, x, y, p, q, c1, c2, a1, a2
OneAcct == {u}
TwoAccts == {u, v}
OneSid == {s}
TwoSids == {s, t}
BothAddrs == {x, y}
BothPrefixes == {p, q}
OnePrefix == {p}
XInP == x :> p @@ y :> q
OneClient == {c1}
TwoClients == {c1, c2}
OneAdmin == {a1}
Sym == Permutations(Accts) \cup Permutations(SIDs)
OneAddr == {x}
OnlyXInP == [a \in OneAddr |-> p]
====

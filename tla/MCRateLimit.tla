---- MODULE MCRateLimit ----
(* Instances of RateLimit for TLC. *)
EXTENDS RateLimit, TLC
CONSTANTS m, n, c1, c2, a1
OneAcct == {m}
BothAccts == {m, n}
OneClient == {c1}
TwoClients == {c1, c2}
OneAdmin == {a1}
OneOrThree == {1, 3}
OnlyTwo == {2}
Sym == Permutations(Clients)
====

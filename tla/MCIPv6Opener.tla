---- MODULE MCIPv6Opener ----
(* Instances of IPv6Opener for TLC. *)
EXTENDS IPv6Opener, TLC
CONSTANTS a, b, c, p, q, ch1, ch2, ch3
Two == {a, b}
Three == {a, b, c}
OnlyA == {a}
TwoIPs == {p, q}
None == {}
OneIP == {p}
Chans2 == {ch1, ch2}
Chans3 == {ch1, ch2, ch3}
Sym == Permutations(IPs) \cup Permutations(Chans)
====

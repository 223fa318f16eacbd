---- MODULE MCAddressPool ----
(* An instance of AddressPool for TLC: two prefixes that grow, a /128 between   *)
(* them, one spelled so that it has no addresses, and one domain.              *)
EXTENDS AddressPool
Four == <<"p", "s", "q", "u">>
OneDomain == {"d"}
OneFp == {"f"}
HashOf == [k \in {"d", "f"} |-> IF k = "d" THEN 2 ELSE 1]
====

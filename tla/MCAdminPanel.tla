---- MODULE MCAdminPanel ----
(* An instance of AdminPanel for TLC. *)
EXTENDS AdminPanel
CONSTANTS x, r1, r2, t1, t2
OneIP == {x}
TwoRequests == {r1, r2}
TwoTokens == {t1, t2}
====

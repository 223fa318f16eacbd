---- MODULE StickyMap ----
(* What a sticky session is to its users: account and sid are bound to one  *)
(* exit address on first use, for a window fixed at that moment, however    *)
(* often the session is used. StickyStore implements this specification.    *)
EXTENDS Integers

CONSTANTS Keys, Addrs, NoAddr, Window

VARIABLES bound,  \* the address a key is bound to, or NoAddr
          left    \* how much of its window is left

smVars == <<bound, left>>

SMInit == /\ bound = [k \in Keys |-> NoAddr]
          /\ left = [k \in Keys |-> 0]

Bind(k) == /\ left[k] = 0
           /\ \E x \in Addrs : bound' = [bound EXCEPT ![k] = x]
           /\ \E w \in 1..Window : left' = [left EXCEPT ![k] = w]

\* An administrator kicks the session.
Release(k) == /\ left[k] > 0
              /\ bound' = [bound EXCEPT ![k] = NoAddr]
              /\ left' = [left EXCEPT ![k] = 0]

Elapse == /\ \E k \in Keys : left[k] > 0
          /\ left' = [k \in Keys |-> IF left[k] > 0 THEN left[k] - 1 ELSE 0]
          /\ bound' = [k \in Keys |-> IF left[k] > 1 THEN bound[k] ELSE NoAddr]

SMNext == Elapse \/ \E k \in Keys : Bind(k) \/ Release(k)

SMSpec == SMInit /\ [][SMNext]_smVars /\ WF_smVars(Elapse)
====

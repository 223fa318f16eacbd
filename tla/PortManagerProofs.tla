---- MODULE PortManagerProofs ----
(* Proofs about PortManager, for any number of pairs.                       *)
EXTENDS PortManager, TLAPS

(* Why a listener serves until it is stopped: only a stop that found its     *)
(* server marks an HTTP server, clears a SOCKS5 server's field or closes a   *)
(* socket; and a goroutine of any other has its socket, then its field.      *)
Sound ==
    /\ stopping # Nobody => stopping \in found /\ ~HTTP(stopping)
    /\ marked \subseteq found
    /\ \A l \in Listeners \ found : ~HTTP(l) /\ proc[l] = "half" => l \in open
    /\ \A l \in Listeners \ found : ~HTTP(l) /\ proc[l] = "serving" => l \in ref

IInv == TypeOK /\ Sound /\ ServesUntilStopped

LEMMA NobodyIsNoListener == Nobody \notin Listeners
  BY DEF Nobody, Listeners

LEMMA InitIInv == Init => IInv
  BY NobodyIsNoListener DEF Init, IInv, TypeOK, Sound, ServesUntilStopped

----
(* Starting                                                                 *)

LEMMA ExpandKeeps == ASSUME Expand, IInv PROVE IInv'
<1>1. PICK i \in 1..Pairs :
          /\ {<<"http", i>>, <<"socks5", i>>} \cap ports = {}
          /\ ports' = ports \cup {<<"http", i>>, <<"socks5", i>>}
          /\ running' = running \cup {<<"http", i>>, <<"socks5", i>>}
          /\ proc' = [l \in Listeners |-> IF l \in {<<"http", i>>, <<"socks5", i>>}
                                          THEN "spawned" ELSE proc[l]]
  BY DEF Expand
<1>2. UNCHANGED <<ref, open, marked, stopping, found>> /\ stopping = Nobody
  BY DEF Expand, Free
<1>3. {<<"http", i>>, <<"socks5", i>>} \subseteq Listeners
  BY DEF Listeners
<1> DEFINE new == {<<"http", i>>, <<"socks5", i>>}
<1> HIDE DEF new
<1>4. /\ new \cap ports = {} /\ new \subseteq Listeners
      /\ ports' = ports \cup new /\ running' = running \cup new
      /\ proc' = [l \in Listeners |-> IF l \in new THEN "spawned" ELSE proc[l]]
  BY <1>1, <1>3 DEF new
<1>5. TypeOK'
  BY <1>2, <1>4 DEF IInv, TypeOK
<1>6. Sound'
  BY <1>2, <1>4, NobodyIsNoListener DEF IInv, TypeOK, Sound, HTTP
<1>7. ServesUntilStopped'
  BY <1>2, <1>4 DEF IInv, TypeOK, ServesUntilStopped
<1>8. QED BY <1>5, <1>6, <1>7 DEF IInv

LEMMA HTTPKeeps ==
    ASSUME NEW l \in Listeners, AssignHTTP(l) \/ ListenHTTP(l) \/ EndHTTP(l), IInv
    PROVE  IInv'
<1> USE DEF IInv, Goto
<1>1. l \in ports
  BY DEF TypeOK, AssignHTTP, ListenHTTP, EndHTTP
<1>2. CASE AssignHTTP(l)
  BY <1>1, <1>2 DEF AssignHTTP, TypeOK, Sound, ServesUntilStopped, HTTP
<1>3. CASE ListenHTTP(l)
  <2>1. TypeOK'
    BY <1>1, <1>3 DEF ListenHTTP, TypeOK
  <2>2. Sound'
    BY <1>1, <1>3 DEF ListenHTTP, TypeOK, Sound, HTTP
  <2>3. ServesUntilStopped'
    BY <1>1, <1>3 DEF ListenHTTP, TypeOK, Sound, ServesUntilStopped
  <2>4. QED BY <2>1, <2>2, <2>3
<1>4. CASE EndHTTP(l)
  BY <1>1, <1>4 DEF EndHTTP, TypeOK, Sound, ServesUntilStopped, HTTP
<1>5. QED BY <1>2, <1>3, <1>4

LEMMA SOCKSKeeps ==
    ASSUME NEW l \in Listeners, ListenSOCKS(l) \/ AssignSOCKS(l) \/ AcceptError(l), IInv
    PROVE  IInv'
<1> USE DEF IInv, Goto
<1>1. l \in ports
  BY DEF TypeOK, ListenSOCKS, AssignSOCKS, AcceptError
<1>2. CASE ListenSOCKS(l)
  <2>1. TypeOK'
    BY <1>1, <1>2 DEF ListenSOCKS, TypeOK
  <2>2. Sound'
    BY <1>1, <1>2 DEF ListenSOCKS, TypeOK, Sound, HTTP
  <2>3. ServesUntilStopped'
    BY <1>1, <1>2 DEF ListenSOCKS, TypeOK, ServesUntilStopped
  <2>4. QED BY <2>1, <2>2, <2>3
<1>3. CASE AssignSOCKS(l)
  BY <1>1, <1>3 DEF AssignSOCKS, TypeOK, Sound, ServesUntilStopped, HTTP
<1>4. CASE AcceptError(l)
  BY <1>1, <1>4 DEF AcceptError, TypeOK, Sound, ServesUntilStopped, HTTP
<1>5. QED BY <1>2, <1>3, <1>4

----
(* Stopping                                                                 *)

LEMMA StopHTTPKeeps == ASSUME NEW l \in Listeners, StopHTTP(l), IInv PROVE IInv'
<1> USE NobodyIsNoListener DEF IInv, StopHTTP, Report, Free
<1>1. TypeOK'
  BY DEF TypeOK
<1>2. Sound'
  BY DEF TypeOK, Sound, HTTP
<1>3. ServesUntilStopped'
  BY DEF TypeOK, ServesUntilStopped
<1>4. QED BY <1>1, <1>2, <1>3

LEMMA StopSOCKSKeeps == ASSUME NEW l \in Listeners, StopSOCKS(l), IInv PROVE IInv'
<1> USE NobodyIsNoListener DEF IInv, StopSOCKS, Free
<1>1. TypeOK'
  BY DEF TypeOK
<1>2. Sound'
  BY DEF TypeOK, Sound, HTTP
<1>3. ServesUntilStopped'
  BY DEF TypeOK, ServesUntilStopped
<1>4. QED BY <1>1, <1>2, <1>3

LEMMA CloseKeeps == ASSUME CloseSOCKS, IInv PROVE IInv'
<1> USE NobodyIsNoListener DEF IInv, CloseSOCKS, Report, Free
<1>1. TypeOK'
  BY DEF TypeOK
<1>2. Sound'
  BY DEF TypeOK, Sound, HTTP
<1>3. ServesUntilStopped'
  BY DEF TypeOK, Sound, ServesUntilStopped
<1>4. QED BY <1>1, <1>2, <1>3

LEMMA NextKeeps == IInv /\ [Next]_vars => IInv'
<1> SUFFICES ASSUME IInv, [Next]_vars PROVE IInv'
  OBVIOUS
<1>1. CASE UNCHANGED vars
  BY <1>1 DEF vars, IInv, TypeOK, Sound, ServesUntilStopped
<1>2. ASSUME NEW l \in Listeners, Serve(l) PROVE IInv'
  BY <1>2, HTTPKeeps, SOCKSKeeps DEF Serve
<1>3. QED BY <1>1, <1>2, ExpandKeeps, StopHTTPKeeps, StopSOCKSKeeps, CloseKeeps DEF Next

LEMMA Invariant == Spec => []IInv
  BY InitIInv, NextKeeps, PTL DEF Spec

(* Types of the manager and its listeners.                                  *)
THEOREM TypeCorrect == Spec => []TypeOK
<1>1. IInv => TypeOK
  BY DEF IInv
<1>2. QED BY Invariant, <1>1, PTL

(* A listener that came up serves until it is stopped, whatever Expand and  *)
(* StopPort do meanwhile and however often Accept fails.                    *)
THEOREM ServesProved == Spec => []ServesUntilStopped
<1>1. IInv => ServesUntilStopped
  BY DEF IInv
<1>2. QED BY Invariant, <1>1, PTL
====

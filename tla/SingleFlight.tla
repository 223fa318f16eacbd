---- MODULE SingleFlight ----
(* What the warm-up cache promises the goroutines that share it: for each   *)
(* key at most one flight is in the air, later arrivals ride along with it  *)
(* instead of starting their own, and when it lands every rider gets off.   *)
(* IPv6Opener implements this specification: a flight is the confirmation   *)
(* of one exit IP, its captain the goroutine beginConfirm named leader.     *)
CONSTANTS Callers, Keys,
          Nobody   \* not a caller

VARIABLES captain,  \* captain[k]: who flies key k's flight, or Nobody
          riders    \* riders[k]: those waiting for key k's flight to land

sfVars == <<captain, riders>>

SFTypeOK == /\ captain \in [Keys -> Callers \cup {Nobody}]
            /\ riders \in [Keys -> SUBSET Callers]

SFInit == /\ captain = [k \in Keys |-> Nobody]
          /\ riders = [k \in Keys |-> {}]

Free(c) == \A k \in Keys : captain[k] # c /\ c \notin riders[k]

TakeOff(c, k) == /\ Free(c)
                 /\ captain[k] = Nobody
                 /\ captain' = [captain EXCEPT ![k] = c]
                 /\ UNCHANGED riders

Board(c, k) == /\ Free(c)
               /\ captain[k] # Nobody
               /\ riders' = [riders EXCEPT ![k] = @ \cup {c}]
               /\ UNCHANGED captain

\* A rider whose client went away leaves before the landing.
Bail(c, k) == /\ c \in riders[k]
              /\ riders' = [riders EXCEPT ![k] = @ \ {c}]
              /\ UNCHANGED captain

Land(k) == /\ captain[k] # Nobody
           /\ captain' = [captain EXCEPT ![k] = Nobody]
           /\ riders' = [riders EXCEPT ![k] = {}]

SFNext == \E k \in Keys :
             \/ Land(k)
             \/ \E c \in Callers : TakeOff(c, k) \/ Board(c, k) \/ Bail(c, k)

SFSpec == SFInit /\ [][SFNext]_sfVars /\ \A k \in Keys : WF_sfVars(Land(k))

====

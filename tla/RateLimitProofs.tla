---- MODULE RateLimitProofs ----
(* Proofs about RateLimit, for any number of accounts and clients and any   *)
(* limits, window and sequence of restarts. What says that limiter and      *)
(* Redis agree is proved for one administrator at a time: two whose         *)
(* handlers overlap may leave the limiter with the one's limit and Redis    *)
(* with the other's. What says how much is admitted is proved for any       *)
(* number.                                                                  *)
EXTENDS RateLimit, TLAPS

\* The custom limit an account ought to have.
Due(u) == IF rate[u] = Missing THEN 0 ELSE rate[u]

SyncTyped ==
    /\ rate \in [Accts -> Nat \cup {Missing}]
    /\ userLimits \in [Accts -> Nat]
    /\ apc \in [Admins -> {"idle", "index", "sync"}]
    /\ target \in [Admins -> Accts]
    /\ want \in [Admins -> Nat]
    /\ saved \subseteq Accts
    /\ torn \subseteq Accts

(* A handler carries the limit it wrote to Redis until it tells the limiter  *)
(* or fails; a saved account that no handler carries, and whose last write   *)
(* did not break off, has in the limiter what Redis says, and 0 there for    *)
(* either kind of none.                                                     *)
InStep ==
    /\ \A a \in Admins : apc[a] # "idle" => want[a] = Due(target[a])
    /\ \A u \in saved \ torn :
          (\A a \in Admins : apc[a] = "idle" \/ target[a] # u) => userLimits[u] = Due(u)

IInv == SyncTyped /\ InStep

LEMMA InitIInv == Init => IInv
  BY LimitConstants DEF Init, IInv, SyncTyped, InStep, Booted

LEMMA PutKeeps ==
    ASSUME NEW a, Admins = {a}, IInv, NEW u \in Accts, NEW r \in Limits \cup {0, Missing}, Put(a, u, r)
    PROVE  IInv'
<1> USE LimitConstants DEF IInv, Put
<1>1. r \in Nat \cup {Missing}
  OBVIOUS
<1>2. SyncTyped'
  BY <1>1 DEF SyncTyped
<1>3. apc'[a] = "index" /\ target'[a] = u /\ want'[a] = Due(u)'
  BY <1>1 DEF SyncTyped, Due
<1>4. ASSUME NEW v \in saved' \ torn', apc'[a] = "idle" \/ target'[a] # v PROVE userLimits'[v] = Due(v)'
  <2>1. v # u /\ v \in saved \ torn
    BY <1>3, <1>4
  <2>2. Due(v)' = Due(v)
    BY <2>1 DEF Due, SyncTyped
  <2>3. QED BY <2>1, <2>2 DEF InStep
<1>5. InStep'
  BY <1>3, <1>4 DEF InStep
<1>6. QED BY <1>2, <1>5

LEMMA SyncKeeps == ASSUME NEW a, Admins = {a}, IInv, Sync(a) PROVE IInv'
<1> USE DEF IInv, Sync
<1>1. SyncTyped'
  BY LimitConstants DEF SyncTyped
<1>2. \A u \in Accts : Due(u)' = Due(u)
  BY DEF Due
<1>3. userLimits'[target[a]] = Due(target[a])
  BY DEF SyncTyped, InStep
<1>4. \A u \in saved' \ torn' : userLimits'[u] = Due(u)'
  BY <1>2, <1>3 DEF SyncTyped, InStep
<1>5. InStep'
  BY <1>4 DEF InStep, SyncTyped
<1>6. QED BY <1>1, <1>5

LEMMA FailKeeps == ASSUME NEW a, Admins = {a}, IInv, Fail(a) PROVE IInv'
<1> USE DEF IInv, Fail
<1>1. SyncTyped'
  BY LimitConstants DEF SyncTyped
<1>2. apc'[a] = "idle" /\ \A u \in Accts : Due(u)' = Due(u)
  BY DEF SyncTyped, Due
<1>3. ASSUME NEW u \in saved' \ torn' PROVE userLimits'[u] = Due(u)'
  <2>1. u \in saved \ torn /\ target[a] # u
    BY <1>3
  <2>2. QED BY <1>2, <2>1 DEF InStep, SyncTyped
<1>4. InStep'
  BY <1>2, <1>3 DEF InStep
<1>5. QED BY <1>1, <1>4

LEMMA IndexKeeps == ASSUME NEW a, Admins = {a}, IInv, Index(a) PROVE IInv'
  BY DEF IInv, Index, SyncTyped, InStep, Due

LEMMA NextKeeps == ASSUME NEW a, Admins = {a}, IInv, [Next]_vars PROVE IInv'
<1>1. CASE AddAccount(a) \/ PatchAccount(a) \/ RemoveAccount(a)
  BY <1>1, PutKeeps DEF AddAccount, PatchAccount, RemoveAccount
<1>2. CASE Index(a) \/ Fail(a) \/ Sync(a)
  BY <1>2, IndexKeeps, FailKeeps, SyncKeeps
<1>3. CASE Restart
  BY <1>3, LimitConstants DEF Restart, IInv, SyncTyped, InStep, Booted
<1>4. CASE UNCHANGED <<rate, userLimits, apc, target, want, saved, torn>>
  BY <1>4 DEF IInv, SyncTyped, InStep, Due
<1>5. CASE Tick \/ Cleanup \/ (\E c \in Clients : ReadAccount(c) \/ Allow(c)) \/ UNCHANGED vars
  BY <1>4, <1>5 DEF Tick, Cleanup, ReadAccount, Allow, vars
<1>6. QED BY <1>1, <1>2, <1>3, <1>5 DEF Next

(* Once an administrator has saved an account, the limit Redis shows is the  *)
(* one in force, whatever he changes, deletes and creates anew, however      *)
(* clients and restarts come in between, and whichever of his other writes   *)
(* fail: until a write of this account breaks off between its commands, and  *)
(* again from the next save of it that does not.                            *)
THEOREM LimitKept == ASSUME NEW a, Admins = {a} PROVE Spec => []LimitInForce
<1>1. IInv => LimitInForce
  BY LimitConstants DEF IInv, SyncTyped, InStep, Due, LimitInForce, EffectiveLimit, Exists
<1>2. IInv /\ [Next]_vars => IInv'
  BY NextKeeps
<1>3. QED BY InitIInv, <1>1, <1>2, PTL DEF Spec

----
(* The windows, with any number of administrators.                          *)

(* Why WindowCapped holds: whatever is trimmed, and whoever trims it, the    *)
(* time stamps of a window that still count are the admissions; Allow adds  *)
(* one only below the limit of that moment, and no limit is above the peak. *)
CountsAgree == \A u \in Accts :
    /\ \A age \in Ages : log[u][age] = windows[u][age]
    /\ \A a, b \in 0..Stale : a <= b => windows[u][a] <= windows[u][b]
    /\ log[u][Window] <= peak[u]
    /\ EffectiveLimit(u) <= peak[u]

WindowInv == TypeOK /\ CountsAgree

LEMMA LimitFacts ==
    /\ Main \in Accts /\ Default \in 1..Largest /\ Default \in 0..Largest /\ Default # 0
    /\ 0 \in 0..Largest /\ 1..Largest \subseteq 0..Largest /\ Limits \subseteq 1..Largest
    /\ Missing \notin 0..Largest /\ 0..Largest \subseteq Nat
    /\ \A n \in 0..Largest : n # 0 => n \in 1..Largest
  BY LimitConstants

LEMMA AgeFacts ==
    /\ Window \in Ages /\ Stale \in 0..Stale /\ Ages \subseteq 0..Stale /\ 0 \in Ages
    /\ Window < Stale
    /\ \A age \in Ages : age # Stale /\ age <= Window
    /\ \A age \in 0..Stale : age # Stale => age \in Ages
    /\ \A age \in 0..Stale : age # 0 => age - 1 \in Ages
    /\ \A age \in 0..Stale : age <= Stale
  BY LimitConstants DEF Ages, Stale

LEMMA InitWindows == Init => WindowInv
  BY LimitFacts, AgeFacts DEF Init, WindowInv, TypeOK, CountsAgree, Booted, Empty, EffectiveLimit

LEMMA TrimmedFacts ==
    ASSUME WindowInv, NEW u \in Accts
    PROVE  /\ Trimmed(u) \in [0..Stale -> 0..Largest]
           /\ \A age \in Ages : Trimmed(u)[age] = log[u][age]
           /\ Trimmed(u)[Stale] = log[u][Window]
           /\ \A a, b \in 0..Stale : a <= b => Trimmed(u)[a] <= Trimmed(u)[b]
<1> USE AgeFacts DEF WindowInv
<1>1. \A age \in 0..Stale : Trimmed(u)[age] = windows[u][IF age = Stale THEN Window ELSE age]
  BY DEF Trimmed
<1>2. Trimmed(u) \in [0..Stale -> 0..Largest]
  <2>1. windows[u] \in [0..Stale -> 0..Largest]
    BY DEF TypeOK
  <2>2. \A age \in 0..Stale : (IF age = Stale THEN Window ELSE age) \in 0..Stale
    OBVIOUS
  <2>3. QED BY <2>1, <2>2 DEF Trimmed
<1>3. ASSUME NEW a \in 0..Stale, NEW b \in 0..Stale, a <= b PROVE Trimmed(u)[a] <= Trimmed(u)[b]
  <2>1. CASE a = Stale
    <3>1. b = Stale
      BY <1>3, <2>1, LimitConstants DEF Stale
    <3>2. Trimmed(u)[a] \in Nat
      BY <1>2, LimitFacts
    <3>3. QED BY <2>1, <3>1, <3>2
  <2>2. CASE a # Stale /\ b = Stale
    BY <1>1, <2>2 DEF CountsAgree
  <2>3. CASE a # Stale /\ b # Stale
    BY <1>1, <1>3, <2>3 DEF CountsAgree
  <2>4. QED BY <2>1, <2>2, <2>3
<1>4. QED BY <1>1, <1>2, <1>3 DEF CountsAgree

LEMMA OneMoreFacts ==
    ASSUME NEW S \in SUBSET Int, NEW f \in [S -> 0..Largest]
    PROVE  /\ DOMAIN OneMore(f) = S /\ \A age \in S : OneMore(f)[age] = f[age] + 1
  BY DEF OneMore

LEMMA AllowCapped == ASSUME WindowInv, NEW c \in Clients, Allow(c) PROVE WindowInv'
<1>1. PICK u \in Accts : u = user[c]
  BY DEF WindowInv, TypeOK
<1>2. /\ UNCHANGED <<rate, userLimits, apc, target, want, peak, saved, torn>>
      /\ cpc' = [cpc EXCEPT ![c] = "idle"]
      /\ user' = [user EXCEPT ![c] = Main]
      /\ \A v \in Accts : EffectiveLimit(v)' = EffectiveLimit(v)
  BY DEF Allow, EffectiveLimit
<1>3. /\ log[u] \in [Ages -> 0..Largest] /\ log[u][Window] \in Nat
      /\ peak[u] \in Nat /\ EffectiveLimit(u) \in 0..Largest
  BY AgeFacts, LimitFacts DEF WindowInv, TypeOK, EffectiveLimit
<1>4. CASE Trimmed(u)[Stale] < EffectiveLimit(u)
  <2>1. /\ windows' = [windows EXCEPT ![u] = OneMore(Trimmed(u))]
        /\ log' = [log EXCEPT ![u] = OneMore(log[u])]
    BY <1>1, <1>4 DEF Allow
  <2>2. /\ \A age \in 0..Stale : OneMore(Trimmed(u))[age] = Trimmed(u)[age] + 1
        /\ \A age \in 0..Stale : Trimmed(u)[age] \in Nat /\ Trimmed(u)[age] <= Trimmed(u)[Stale]
        /\ \A age \in Ages : OneMore(log[u])[age] = log[u][age] + 1
        /\ Trimmed(u)[Stale] + 1 \in 0..Largest
    <3>1. Trimmed(u) \in [0..Stale -> 0..Largest] /\ 0..Stale \subseteq Int /\ Ages \subseteq Int
      BY TrimmedFacts DEF Ages
    <3>2. \A age \in 0..Stale : Trimmed(u)[age] \in Nat /\ Trimmed(u)[age] <= Trimmed(u)[Stale]
      BY <3>1, TrimmedFacts, AgeFacts, LimitFacts
    <3>3. Trimmed(u)[Stale] + 1 \in 0..Largest
      BY <1>3, <1>4, <3>2, AgeFacts, LimitConstants
    <3>4. QED BY <1>3, <3>1, <3>2, <3>3, OneMoreFacts
  <2>3. /\ OneMore(Trimmed(u)) \in [0..Stale -> 0..Largest]
        /\ OneMore(log[u]) \in [Ages -> 0..Largest]
    <3>1. \A age \in 0..Stale : Trimmed(u)[age] + 1 \in 0..Largest
      BY <2>2, LimitConstants, AgeFacts
    <3>2. \A age \in Ages : log[u][age] + 1 \in 0..Largest
      BY <3>1, TrimmedFacts, AgeFacts
    <3>3. QED BY <1>3, <3>1, <3>2, TrimmedFacts DEF OneMore
  <2>4. TypeOK'
    BY <1>2, <2>1, <2>3, LimitFacts DEF WindowInv, TypeOK
  <2>5. ASSUME NEW v \in Accts
        PROVE  /\ \A age \in Ages : log'[v][age] = windows'[v][age]
               /\ \A a, b \in 0..Stale : a <= b => windows'[v][a] <= windows'[v][b]
               /\ log'[v][Window] <= peak'[v]
               /\ EffectiveLimit(v)' <= peak'[v]
    <3>1. CASE v # u
      BY <1>2, <2>1, <3>1 DEF WindowInv, TypeOK, CountsAgree
    <3>2. CASE v = u
      <4>1. windows'[v] = OneMore(Trimmed(u)) /\ log'[v] = OneMore(log[u]) /\ peak'[v] = peak[u]
        BY <1>2, <2>1, <3>2 DEF WindowInv, TypeOK
      <4>2. ASSUME NEW age \in Ages PROVE log'[v][age] = windows'[v][age]
        <5>1. age \in 0..Stale /\ Trimmed(u)[age] = log[u][age]
          BY TrimmedFacts, AgeFacts
        <5>2. QED BY <2>2, <4>1, <5>1
      <4>3. \A a, b \in 0..Stale : a <= b => windows'[v][a] <= windows'[v][b]
        BY <2>2, <4>1, TrimmedFacts
      <4>4. log'[v][Window] = log[u][Window] + 1 /\ log[u][Window] = Trimmed(u)[Stale]
        BY <2>2, <4>1, TrimmedFacts, AgeFacts
      <4>5. EffectiveLimit(u) <= peak[u]
        BY DEF WindowInv, CountsAgree
      <4>6. QED BY <1>2, <1>3, <1>4, <3>2, <4>1, <4>2, <4>3, <4>4, <4>5, LimitConstants
    <3>3. QED BY <3>1, <3>2
  <2>6. QED BY <2>4, <2>5 DEF WindowInv, CountsAgree
<1>5. CASE ~(Trimmed(u)[Stale] < EffectiveLimit(u))
  <2>1. windows' = [windows EXCEPT ![u] = Trimmed(u)] /\ log' = log
    BY <1>1, <1>5 DEF Allow
  <2>2. TypeOK'
    BY <1>2, <2>1, TrimmedFacts, LimitFacts DEF WindowInv, TypeOK
  <2>3. CountsAgree'
    BY <1>2, <2>1, TrimmedFacts DEF WindowInv, TypeOK, CountsAgree
  <2>4. QED BY <2>2, <2>3 DEF WindowInv
<1>6. QED BY <1>4, <1>5

LEMMA CleanupCapped == ASSUME WindowInv, Cleanup PROVE WindowInv'
<1>1. TypeOK'
  BY TrimmedFacts DEF Cleanup, WindowInv, TypeOK
<1>2. CountsAgree'
  BY TrimmedFacts DEF Cleanup, WindowInv, TypeOK, CountsAgree, EffectiveLimit
<1>3. QED BY <1>1, <1>2 DEF WindowInv

LEMMA TickCapped == ASSUME WindowInv, Tick PROVE WindowInv'
<1> USE AgeFacts
<1>1. UNCHANGED <<rate, userLimits, cpc, user, apc, target, want, peak, saved, torn>>
  BY DEF Tick
<1>2. ASSUME NEW u \in Accts
      PROVE  /\ windows'[u] \in [0..Stale -> 0..Largest]
             /\ log'[u] \in [Ages -> 0..Largest]
             /\ \A age \in Ages : log'[u][age] = windows'[u][age]
             /\ \A a, b \in 0..Stale : a <= b => windows'[u][a] <= windows'[u][b]
             /\ log'[u][Window] <= log[u][Window]
  <2>1. /\ windows'[u] = [age \in 0..Stale |-> IF age = Stale THEN windows[u][Stale]
                              ELSE IF age = 0 THEN 0 ELSE windows[u][age - 1]]
        /\ log'[u] = [age \in Ages |-> IF age = 0 THEN 0 ELSE log[u][age - 1]]
    BY DEF Tick
  <2>2. /\ windows[u] \in [0..Stale -> 0..Largest] /\ log[u] \in [Ages -> 0..Largest]
        /\ \A age \in Ages : log[u][age] = windows[u][age]
        /\ \A a, b \in 0..Stale : a <= b => windows[u][a] <= windows[u][b]
    BY DEF WindowInv, TypeOK, CountsAgree
  <2>3. \A age \in 0..Stale : windows[u][age] \in Nat
    BY <2>2, LimitFacts
  <2>4. windows'[u] \in [0..Stale -> 0..Largest] /\ log'[u] \in [Ages -> 0..Largest]
    <3>1. \A age \in 0..Stale : age # 0 => windows[u][age - 1] \in 0..Largest
      BY <2>2
    <3>2. \A age \in Ages : age # 0 => log[u][age - 1] \in 0..Largest
      BY <2>2
    <3>3. windows[u][Stale] \in 0..Largest /\ 0 \in 0..Largest
      BY <2>2, LimitFacts
    <3>4. QED BY <2>1, <3>1, <3>2, <3>3
  <2>5. \A age \in Ages : log'[u][age] = windows'[u][age]
    BY <2>1, <2>2
  <2>6. ASSUME NEW a \in 0..Stale, NEW b \in 0..Stale, a <= b PROVE windows'[u][a] <= windows'[u][b]
    <3>1. CASE a = b
      <4>1. windows'[u][a] \in Nat
        BY <2>4, LimitFacts
      <4>2. QED BY <3>1, <4>1
    <3>2. CASE a # b
      <4>1. a # Stale /\ b # 0 /\ b - 1 \in 0..Stale /\ b - 1 <= Stale /\ (a # 0 => a - 1 \in 0..Stale /\ a - 1 <= b - 1 /\ a - 1 <= Stale)
        BY <2>6, <3>2, LimitConstants DEF Stale
      <4>2. windows'[u][a] = IF a = 0 THEN 0 ELSE windows[u][a - 1]
        BY <2>1, <4>1
      <4>3. windows'[u][b] = IF b = Stale THEN windows[u][Stale] ELSE windows[u][b - 1]
        BY <2>1, <4>1
      <4>4. QED BY <2>2, <2>3, <4>1, <4>2, <4>3
    <3>3. QED BY <3>1, <3>2
  <2>7. log'[u][Window] <= log[u][Window]
    <3>1. Window # 0 => Window - 1 \in 0..Stale /\ Window \in 0..Stale /\ Window - 1 <= Window
      BY LimitConstants
    <3>2. log'[u][Window] = IF Window = 0 THEN 0 ELSE windows[u][Window - 1]
      BY <2>1, <2>2
    <3>3. QED BY <2>2, <2>3, <3>1, <3>2
  <2>8. QED BY <2>4, <2>5, <2>6, <2>7
<1>3. TypeOK'
  <2>1. windows' = [u \in Accts |-> windows'[u]] /\ log' = [u \in Accts |-> log'[u]]
    BY DEF Tick
  <2>2. windows' \in [Accts -> [0..Stale -> 0..Largest]] /\ log' \in [Accts -> [Ages -> 0..Largest]]
    BY <1>2, <2>1
  <2>3. QED BY <1>1, <2>2 DEF WindowInv, TypeOK
<1>4. \A u \in Accts : log[u][Window] \in Nat /\ log'[u][Window] \in Nat /\ peak[u] \in Nat
  BY <1>2, LimitFacts DEF WindowInv, TypeOK
<1>5. ASSUME NEW u \in Accts PROVE log'[u][Window] <= peak'[u] /\ EffectiveLimit(u)' <= peak'[u]
  <2>1. EffectiveLimit(u)' = EffectiveLimit(u) /\ peak'[u] = peak[u]
    BY <1>1 DEF EffectiveLimit
  <2>2. log[u][Window] <= peak[u] /\ EffectiveLimit(u) <= peak[u]
    BY DEF WindowInv, CountsAgree
  <2>3. log'[u][Window] <= log[u][Window]
    BY <1>2
  <2>4. log'[u][Window] <= peak[u]
    BY <1>4, <2>2, <2>3
  <2>5. QED BY <2>1, <2>2, <2>4
<1>6. CountsAgree'
  BY <1>2, <1>5 DEF CountsAgree
<1>7. QED BY <1>3, <1>6 DEF WindowInv

LEMMA SyncCapped == ASSUME WindowInv, NEW a \in Admins, Sync(a) PROVE WindowInv'
<1>1. PICK u \in Accts : u = target[a]
  BY DEF WindowInv, TypeOK
<1>2. PICK w \in 0..Largest : w = want[a]
  BY DEF WindowInv, TypeOK
<1>3. /\ userLimits' = [userLimits EXCEPT ![u] = w]
      /\ peak' = [peak EXCEPT ![u] = IF w > @ THEN w ELSE IF w = 0 /\ Default > @ THEN Default ELSE @]
      /\ apc' = [apc EXCEPT ![a] = "idle"] /\ want' = [want EXCEPT ![a] = 0]
      /\ target' = [target EXCEPT ![a] = Main]
      /\ saved' = saved \cup {u} /\ torn' = torn \ {u}
      /\ UNCHANGED <<rate, windows, cpc, user, log>>
  BY <1>1, <1>2 DEF Sync
<1>4. peak[u] \in 1..Largest
  BY DEF WindowInv, TypeOK
<1>5. PICK p \in 1..Largest : /\ p = IF w > peak[u] THEN w ELSE IF w = 0 /\ Default > peak[u] THEN Default ELSE peak[u]
                              /\ p >= peak[u] /\ p >= IF w # 0 THEN w ELSE Default
  BY <1>4, LimitConstants
<1>6. peak' = [peak EXCEPT ![u] = p]
  BY <1>3, <1>5 DEF WindowInv, TypeOK
<1>7. TypeOK'
  BY <1>3, <1>6, LimitFacts DEF WindowInv, TypeOK
<1>8. ASSUME NEW v \in Accts PROVE log'[v][Window] <= peak'[v] /\ EffectiveLimit(v)' <= peak'[v]
  <2>1. log[v][Window] \in Nat /\ log[v][Window] <= peak[v] /\ EffectiveLimit(v) <= peak[v]
    BY AgeFacts, LimitFacts DEF WindowInv, TypeOK, CountsAgree
  <2>2. CASE v # u
    BY <1>3, <1>6, <2>1, <2>2 DEF WindowInv, TypeOK, EffectiveLimit
  <2>3. CASE v = u
    <3>1. peak'[v] = p /\ userLimits'[v] = w /\ log'[v] = log[v]
      BY <1>3, <1>6, <2>3 DEF WindowInv, TypeOK
    <3>2. EffectiveLimit(v)' <= p
      BY <1>5, <3>1 DEF EffectiveLimit
    <3>3. QED BY <1>4, <1>5, <2>1, <2>3, <3>1, <3>2, LimitConstants
  <2>4. QED BY <2>2, <2>3
<1>9. QED BY <1>3, <1>7, <1>8 DEF WindowInv, CountsAgree

LEMMA WindowStep == WindowInv /\ [Next]_vars => WindowInv'
<1> SUFFICES ASSUME WindowInv, [Next]_vars PROVE WindowInv'
  OBVIOUS
<1>1. ASSUME NEW c \in Clients, ReadAccount(c) PROVE WindowInv'
  BY <1>1 DEF ReadAccount, WindowInv, TypeOK, CountsAgree, EffectiveLimit
<1>2. ASSUME NEW a \in Admins, AddAccount(a) \/ PatchAccount(a) \/ RemoveAccount(a) PROVE WindowInv'
  <2>1. PICK u \in Accts, r \in 0..Largest \cup {Missing} : Put(a, u, r)
    BY <1>2, LimitFacts DEF AddAccount, PatchAccount, RemoveAccount
  <2>2. TypeOK'
    BY <2>1, LimitFacts DEF Put, WindowInv, TypeOK
  <2>3. QED BY <2>1, <2>2 DEF Put, WindowInv, CountsAgree, EffectiveLimit
<1>3. ASSUME NEW a \in Admins, Index(a) \/ Fail(a) PROVE WindowInv'
  <2>1. CASE Index(a)
    BY <2>1 DEF Index, WindowInv, TypeOK, CountsAgree, EffectiveLimit
  <2>2. CASE Fail(a)
    <3>1. TypeOK'
      BY <2>2, LimitFacts DEF Fail, WindowInv, TypeOK
    <3>2. CountsAgree'
      BY <2>2 DEF Fail, WindowInv, CountsAgree, EffectiveLimit
    <3>3. QED BY <3>1, <3>2 DEF WindowInv
  <2>3. QED BY <1>3, <2>1, <2>2
<1>4. CASE Restart
  BY <1>4, LimitFacts, AgeFacts DEF Restart, WindowInv, TypeOK, CountsAgree, Booted, Empty, EffectiveLimit
<1>5. CASE UNCHANGED vars
  BY <1>5 DEF vars, WindowInv, TypeOK, CountsAgree, EffectiveLimit
<1>6. QED BY <1>1, <1>2, <1>3, <1>4, <1>5, AllowCapped, CleanupCapped, TickCapped, SyncCapped DEF Next

LEMMA WindowInvInvariant == Spec => []WindowInv
  BY InitWindows, WindowStep, PTL DEF Spec

(* Every variable has its type, and no window keeps more time stamps than   *)
(* the largest limit, however seldom it is trimmed.                         *)
THEOREM TypesHold == Spec => []TypeOK
<1>1. WindowInv => TypeOK
  BY DEF WindowInv
<1>2. QED BY WindowInvInvariant, <1>1, PTL

(* In no window does an account get more admissions than the largest limit  *)
(* it had since the process started, whoever trims what and whoever changes *)
(* the limits meanwhile.                                                    *)
THEOREM AdmissionsCapped == Spec => []WindowCapped
<1>1. WindowInv => WindowCapped
  BY DEF WindowInv, CountsAgree, WindowCapped
<1>2. QED BY WindowInvInvariant, <1>1, PTL
====

---- MODULE StickyStoreProofs ----
(* Proofs about StickyStore, for any number of accounts, sessions, clients  *)
(* and admin handlers, with and without failing Redis commands; what one    *)
(* administrator may rely on is proved for one whose commands succeed.      *)
EXTENDS StickyStore, TLAPS

(* The part of TypeOK about Redis and the clients; the admin handlers'      *)
(* locals are typed apart, so that a step is checked against one part.      *)
SessionsTyped ==
    /\ exit \in [Keys -> Addrs \cup {NoAddr}]
    /\ left \in [Keys -> 0..Window]
    /\ \A k \in Keys : left[k] > 0 <=> exit[k] # NoAddr
    /\ cpc \in [Clients -> {"idle", "authed", "eval", "got"}]
    /\ key \in [Clients -> Keys]
    /\ addr \in [Clients -> Addrs \cup {NoAddr}]
    /\ fresh \in [Clients -> BOOLEAN]
    /\ \A c \in Clients : cpc[c] = "eval" => addr[c] \in Addrs

AdminsTyped ==
    /\ acct \in [Accts -> {"none", "on", "off"}]
    /\ accts \subseteq Accts
    /\ idx \subseteq Keys
    /\ enabled \subseteq Prefixes
    /\ apc \in [Admins -> {"idle", "hset", "sadd", "range", "get", "drop", "del", "zrem",
                           "delacct", "srem", "acctget", "acctrem"}]
    /\ op \in [Admins -> Ops]
    /\ cur \in [Admins -> Accts]
    /\ todo \in [Admins -> SUBSET Accts]
    /\ sids \in [Admins -> SUBSET SIDs]
    /\ found \in [Admins -> SUBSET SIDs]
    /\ victim \in [Admins -> SIDs \cup {NoSid}]
    /\ want \in [Admins -> {"on", "off"}]
    /\ owed \in [Admins -> SUBSET Keys]

(* The inductive invariant. A client holds an address only in "eval" (its   *)
(* candidate) and "got" (its answer), which is what an answer's agreement    *)
(* with the session rests on.                                                *)
IInv == SessionsTyped /\ AdminsTyped /\ SameSidSameExit

LEMMA TypedIsTypeOK == IInv => TypeOK
  BY DEF IInv, SessionsTyped, AdminsTyped, TypeOK

LEMMA InitIInv == Init => IInv
<1> SUFFICES ASSUME Init PROVE IInv
  OBVIOUS
<1>1. SessionsTyped
  BY StoreConstants DEF Init, SessionsTyped
<1>2. AdminsTyped
  BY StoreConstants DEF Init, AdminsTyped, Ops
<1>3. SameSidSameExit
  BY DEF Init, SameSidSameExit
<1>4. QED BY <1>1, <1>2, <1>3 DEF IInv

----
(* Sessions: the steps that touch them keep the clients' answers right.     *)

LEMMA TickKeeps == ASSUME IInv, Tick PROVE SessionsTyped' /\ SameSidSameExit'
<1> USE DEF Tick, End, Live, client
<1>1. SessionsTyped'
  <2>1. \A k \in Keys : left'[k] = IF left[k] > 0 THEN left[k] - 1 ELSE 0
    OBVIOUS
  <2>2. \A k \in Keys : exit'[k] = IF left[k] = 1 THEN NoAddr ELSE exit[k]
    OBVIOUS
  <2>3. left' \in [Keys -> 0..Window]
    BY StoreConstants DEF IInv, SessionsTyped
  <2>4. exit' \in [Keys -> Addrs \cup {NoAddr}]
    BY DEF IInv, SessionsTyped
  <2>5. \A k \in Keys : left'[k] > 0 <=> exit'[k] # NoAddr
    BY <2>1, <2>2, StoreConstants DEF IInv, SessionsTyped
  <2>6. fresh' \in [Clients -> BOOLEAN]
    BY DEF IInv, SessionsTyped
  <2>7. QED BY <2>3, <2>4, <2>5, <2>6 DEF IInv, SessionsTyped
<1>2. SameSidSameExit'
  <2>1. SUFFICES ASSUME NEW c \in Clients, cpc[c] = "got", fresh'[c]
                 PROVE  left'[key[c]] > 0 /\ exit'[key[c]] = addr[c]
    BY DEF SameSidSameExit
  <2>2. key[c] \in Keys /\ left[key[c]] \in 0..Window
    BY DEF IInv, SessionsTyped
  <2>3. fresh[c] /\ left[key[c]] # 1
    BY <2>1, <2>2
  <2>4. left[key[c]] > 0 /\ exit[key[c]] = addr[c]
    BY <2>1, <2>3 DEF IInv, SameSidSameExit
  <2>5. left'[key[c]] = left[key[c]] - 1 /\ exit'[key[c]] = exit[key[c]]
    BY <2>2, <2>3, <2>4
  <2>6. QED BY <2>2, <2>3, <2>4, <2>5, StoreConstants
<1>3. QED BY <1>1, <1>2

LEMMA ServeKeeps ==
    ASSUME IInv, NEW c \in Clients, Serve(c) PROVE SessionsTyped' /\ SameSidSameExit'
<1>1. CASE Auth(c) \/ Choose(c)
  BY <1>1, StoreConstants DEF Auth, Choose, redis, IInv, SessionsTyped, SameSidSameExit, Live
<1>2. CASE EvalHit(c)
  BY <1>2, StoreConstants DEF EvalHit, Answer, redis, Live, IInv, SessionsTyped, SameSidSameExit
<1>3. CASE EvalMiss(c)
  <2> USE DEF EvalMiss, Answer, Live
  <2>1. addr[c] \in Addrs /\ key[c] \in Keys /\ left[key[c]] = 0
    BY <1>3 DEF IInv, SessionsTyped
  <2>2. SessionsTyped'
    <3>1. PICK w \in 1..Window : left' = [left EXCEPT ![key[c]] = w]
      BY <1>3
    <3>2. w \in 0..Window /\ w > 0
      BY <3>1, StoreConstants
    <3>3. left' \in [Keys -> 0..Window] /\ exit' \in [Keys -> Addrs \cup {NoAddr}]
      BY <1>3, <2>1, <3>1, <3>2 DEF IInv, SessionsTyped
    <3>4. \A k \in Keys : left'[k] > 0 <=> exit'[k] # NoAddr
      BY <1>3, <2>1, <3>1, <3>2, StoreConstants DEF IInv, SessionsTyped
    <3>5. addr' \in [Clients -> Addrs \cup {NoAddr}] /\ fresh' \in [Clients -> BOOLEAN]
      BY <1>3, <2>1 DEF IInv, SessionsTyped
    <3>6. /\ cpc' \in [Clients -> {"idle", "authed", "eval", "got"}]
          /\ \A d \in Clients : cpc'[d] = "eval" => addr'[d] \in Addrs
      BY <1>3, <2>1 DEF IInv, SessionsTyped
    <3>7. QED BY <1>3, <3>3, <3>4, <3>5, <3>6 DEF IInv, SessionsTyped
  <2>3. SameSidSameExit'
    BY <1>3, <2>1, StoreConstants DEF IInv, SessionsTyped, SameSidSameExit
  <2>4. QED BY <2>2, <2>3
<1>4. CASE Leave(c)
  BY <1>4, StoreConstants DEF Leave, redis, IInv, SessionsTyped, SameSidSameExit, Live
<1>5. QED BY <1>1, <1>2, <1>3, <1>4 DEF Serve

\* A step that changes neither sessions nor clients.
Untouched == UNCHANGED <<exit, left, cpc, key, addr, fresh>>

LEMMA UntouchedKeeps ==
    ASSUME IInv, Untouched PROVE SessionsTyped' /\ SameSidSameExit'
  BY DEF Untouched, IInv, SessionsTyped, SameSidSameExit, Live

LEMMA DelKeeps ==
    ASSUME IInv, NEW a \in Admins, Del(a) PROVE SessionsTyped' /\ SameSidSameExit'
<1> USE DEF Del, End, Live, Quiet, client
<1>1. PICK k \in Keys :
         /\ left' = [left EXCEPT ![k] = 0]
         /\ exit' = [j \in Keys |-> IF j = k THEN NoAddr ELSE exit[j]]
         /\ fresh' = [c \in Clients |-> fresh[c] /\ key[c] # k]
  <2>1. PICK s \in found[a] : left' = [left EXCEPT ![<<cur[a], s>>] = 0] /\ End({<<cur[a], s>>})
    OBVIOUS
  <2>2. <<cur[a], s>> \in Keys
    BY <2>1 DEF IInv, AdminsTyped, Keys
  <2>3. QED BY <2>1, <2>2
<1>2. SessionsTyped'
  <2>0. 0 \in 0..Window
    BY StoreConstants
  <2>1. left' \in [Keys -> 0..Window] /\ exit' \in [Keys -> Addrs \cup {NoAddr}]
    BY <1>1, <2>0 DEF IInv, SessionsTyped
  <2>2. \A j \in Keys : left'[j] > 0 <=> exit'[j] # NoAddr
    BY <1>1, StoreConstants DEF IInv, SessionsTyped
  <2>3. fresh' \in [Clients -> BOOLEAN]
    BY <1>1 DEF IInv, SessionsTyped
  <2>4. QED BY <2>1, <2>2, <2>3 DEF IInv, SessionsTyped
<1>3. SameSidSameExit'
  BY <1>1 DEF IInv, SessionsTyped, SameSidSameExit
<1>4. QED BY <1>2, <1>3

LEMMA SessionsKept ==
    ASSUME IInv, [Next]_vars PROVE SessionsTyped' /\ SameSidSameExit'
<1>1. CASE Tick
  BY <1>1, TickKeeps
<1>2. CASE \E c \in Clients : Serve(c)
  BY <1>2, ServeKeeps
<1>3. CASE \E p \in Prefixes : SetPrefixEnabled(p)
  BY <1>3, UntouchedKeeps DEF SetPrefixEnabled, Untouched, redis, client
<1>4. ASSUME NEW a \in Admins, Begin(a) \/ Continue(a) \/ Fail(a)
      PROVE  SessionsTyped' /\ SameSidSameExit'
  <2>1. CASE Del(a)
    BY <2>1, DelKeeps
  <2>2. CASE Begin(a)
    <3>1. Untouched
      BY <2>2 DEF Begin, Create, Patch, Delete, Sweep, Kick, ListAccounts, Untouched,
                  Quiet, redis, client
    <3>2. QED BY <3>1, UntouchedKeeps
  <2>3. CASE Continue(a) /\ ~Del(a)
    <3>1. Untouched
      BY <2>3 DEF Continue, HSet, SAdd, Range, Get, Unindex, DelIgnored, DelAcct, SRem,
                  AcctGet, AcctRem, Untouched, Quiet, redis, client
    <3>2. QED BY <3>1, UntouchedKeeps
  <2>4. CASE Fail(a)
    BY <2>4, UntouchedKeeps DEF Fail, Untouched, Quiet, redis, client
  <2>5. QED BY <1>4, <2>1, <2>2, <2>3, <2>4
<1>5. CASE UNCHANGED vars
  BY <1>5, UntouchedKeeps DEF vars, Untouched
<1>6. QED BY <1>1, <1>2, <1>3, <1>4, <1>5 DEF Next

----
(* The admin handlers' locals keep their types.                             *)

LEMMA WhereTyped ==
    ASSUME NEW o, NEW S, NEW F, NEW T
    PROVE  Where(o, S, F, T) \in {"idle", "range", "get", "del", "delacct"}
  BY DEF Where

LEMMA BeginTyped ==
    ASSUME IInv, NEW a \in Admins, Begin(a) PROVE AdminsTyped'
<1> USE DEF Start, Quiet, redis, Ops, Indexed
<1>1. CASE Create(a) \/ Patch(a)
  BY <1>1 DEF Create, Patch, IInv, AdminsTyped
<1>2. CASE Delete(a)
  BY <1>2, WhereTyped DEF Delete, IInv, AdminsTyped, Keys
<1>3. CASE Sweep(a)
  BY <1>3 DEF Sweep, IInv, AdminsTyped
<1>4. CASE Kick(a)
  <2>1. \A k \in Keys : k[1] \in Accts /\ k[2] \in SIDs
    BY DEF Keys
  <2>2. QED BY <1>4, <2>1 DEF Kick, IInv, AdminsTyped
<1>5. CASE ListAccounts(a)
  BY <1>5 DEF ListAccounts, IInv, AdminsTyped
<1>6. QED BY <1>1, <1>2, <1>3, <1>4, <1>5 DEF Begin

LEMMA ContinueTyped ==
    ASSUME IInv, NEW a \in Admins, Continue(a) PROVE AdminsTyped'
<1> USE DEF At, Quiet, redis, locals, Ops
<1>1. CASE HSet(a) \/ SAdd(a) \/ DelAcct(a) \/ SRem(a)
  BY <1>1 DEF HSet, SAdd, DelAcct, SRem, IInv, AdminsTyped
<1>2. CASE Range(a)
  BY <1>2, WhereTyped DEF Range, Indexed, IInv, AdminsTyped
<1>3. CASE Get(a)
  BY <1>3, WhereTyped DEF Get, IInv, AdminsTyped
<1>4. CASE Unindex(a)
  BY <1>4, WhereTyped DEF Unindex, IInv, AdminsTyped
<1>5. CASE Del(a)
  BY <1>5 DEF Del, End, IInv, AdminsTyped
<1>6. CASE DelIgnored(a)
  BY <1>6, WhereTyped DEF DelIgnored, IInv, AdminsTyped
<1>7. CASE AcctGet(a) \/ AcctRem(a)
  BY <1>7 DEF AcctGet, AcctRem, IInv, AdminsTyped
<1>8. QED BY <1>1, <1>2, <1>3, <1>4, <1>5, <1>6, <1>7 DEF Continue

LEMMA AdminsKept == ASSUME IInv, [Next]_vars PROVE AdminsTyped'
<1>1. CASE Tick
  BY <1>1 DEF Tick, End, locals, IInv, AdminsTyped
<1>2. ASSUME NEW c \in Clients, Serve(c) PROVE AdminsTyped'
  BY <1>2 DEF Serve, Auth, Choose, EvalHit, EvalMiss, Leave, redis, locals, IInv,
              SessionsTyped, AdminsTyped
<1>3. ASSUME NEW p \in Prefixes, SetPrefixEnabled(p) PROVE AdminsTyped'
  BY <1>3 DEF SetPrefixEnabled, redis, locals, IInv, AdminsTyped
<1>4. ASSUME NEW a \in Admins, Fail(a) PROVE AdminsTyped'
  BY <1>4 DEF Fail, At, Quiet, redis, Ops, IInv, AdminsTyped
<1>5. CASE UNCHANGED vars
  BY <1>5 DEF vars, IInv, AdminsTyped
<1>6. QED BY <1>1, <1>2, <1>3, <1>4, <1>5, BeginTyped, ContinueTyped DEF Next

THEOREM Inductive == Spec => []IInv
<1>1. IInv /\ [Next]_vars => IInv'
  BY SessionsKept, AdminsKept DEF IInv
<1>2. QED BY <1>1, InitIInv, PTL DEF Spec

(* Every variable keeps its type; in particular a session has an address    *)
(* exactly as long as it has time left.                                      *)
THEOREM TypeCorrect == Spec => []TypeOK
<1>1. QED BY Inductive, TypedIsTypeOK, PTL

(* "same sid keeps the same IPv6", for any number of clients and whatever   *)
(* the admin handlers delete, list and clear meanwhile.                      *)
THEOREM SidKeepsExit == Spec => []SameSidSameExit
<1>1. IInv => SameSidSameExit
  BY DEF IInv
<1>2. QED BY <1>1, Inductive, PTL

----
(* StickyStore implements StickyMap, the liveness aside.                    *)

LEMMA TickElapses == ASSUME IInv, Tick PROVE Map!Elapse
<1> USE DEF Tick, End, Live
<1>1. \A k \in Keys : left[k] \in 0..Window /\ (left[k] > 0 <=> exit[k] # NoAddr)
  BY DEF IInv, SessionsTyped
<1>2. \A k \in Keys : (IF left[k] = 1 THEN NoAddr ELSE exit[k])
                    = (IF left[k] > 1 THEN exit[k] ELSE NoAddr)
  BY <1>1, StoreConstants
<1>3. exit' = [k \in Keys |-> IF left[k] = 1 THEN NoAddr ELSE exit[k]]
  OBVIOUS
<1>4. exit' = [k \in Keys |-> IF left[k] > 1 THEN exit[k] ELSE NoAddr]
  BY <1>2, <1>3
<1>5. QED BY <1>4 DEF Map!Elapse

LEMMA MissBinds ==
    ASSUME IInv, NEW c \in Clients, EvalMiss(c) PROVE Map!Bind(key[c]) /\ key[c] \in Keys
<1>1. addr[c] \in Addrs /\ key[c] \in Keys /\ left[key[c]] = 0
  BY DEF EvalMiss, Live, IInv, SessionsTyped
<1>2. QED BY <1>1 DEF EvalMiss, Map!Bind

LEMMA DelReleases ==
    ASSUME IInv, NEW a \in Admins, Del(a)
    PROVE  (\E k \in Keys : Map!Release(k)) \/ UNCHANGED Map!smVars
<1>1. PICK s \in found[a] : left' = [left EXCEPT ![<<cur[a], s>>] = 0] /\ End({<<cur[a], s>>})
  BY DEF Del
<1> DEFINE k == <<cur[a], s>>
<1>2. k \in Keys
  BY <1>1 DEF IInv, AdminsTyped, Keys
<1> HIDE DEF k
<1>3. left' = [left EXCEPT ![k] = 0] /\ exit' = [exit EXCEPT ![k] = NoAddr]
  <2>1. left' = [left EXCEPT ![k] = 0] /\ exit' = [j \in Keys |-> IF j = k THEN NoAddr ELSE exit[j]]
    BY <1>1 DEF End, k
  <2>2. QED BY <1>2, <2>1 DEF IInv, SessionsTyped
<1>4. CASE left[k] > 0
  BY <1>2, <1>3, <1>4 DEF Map!Release
<1>5. CASE ~(left[k] > 0)
  <2>1. left[k] = 0 /\ exit[k] = NoAddr
    BY <1>2, <1>5, StoreConstants DEF IInv, SessionsTyped
  <2>2. left' = left /\ exit' = exit
    BY <1>2, <1>3, <2>1 DEF IInv, SessionsTyped
  <2>3. QED BY <2>2 DEF Map!smVars
<1>6. QED BY <1>4, <1>5

(* Whatever proxies, listings, kicks and deletions do at once, a session    *)
(* key is bound on first use, for a window no use extends, until its TTL    *)
(* or an administrator ends it.                                             *)
THEOREM ImplementsStickyMap == Spec => Map!SMInit /\ [][Map!SMNext]_Map!smVars
<1>1. Init => Map!SMInit
  BY DEF Init, Map!SMInit
<1>2. IInv /\ [Next]_vars => [Map!SMNext]_Map!smVars
  <2> SUFFICES ASSUME IInv, [Next]_vars PROVE Map!SMNext \/ UNCHANGED Map!smVars
    OBVIOUS
  <2>1. CASE Tick
    BY <2>1, TickElapses DEF Map!SMNext
  <2>2. ASSUME NEW c \in Clients, Serve(c) PROVE Map!SMNext \/ UNCHANGED Map!smVars
    <3>1. CASE EvalMiss(c)
      BY <3>1, MissBinds DEF Map!SMNext
    <3>2. CASE Auth(c) \/ Choose(c) \/ EvalHit(c) \/ Leave(c)
      BY <3>2 DEF Auth, Choose, EvalHit, Leave, redis, Map!smVars
    <3>3. QED BY <2>2, <3>1, <3>2 DEF Serve
  <2>3. ASSUME NEW p \in Prefixes, SetPrefixEnabled(p) PROVE UNCHANGED Map!smVars
    BY <2>3 DEF SetPrefixEnabled, redis, Map!smVars
  <2>4. ASSUME NEW a \in Admins, Begin(a) \/ Continue(a) \/ Fail(a)
        PROVE  Map!SMNext \/ UNCHANGED Map!smVars
    <3>1. CASE Del(a)
      BY <3>1, DelReleases DEF Map!SMNext
    <3>2. CASE Begin(a)
      BY <3>2 DEF Begin, Create, Patch, Delete, Sweep, Kick, ListAccounts, redis, Map!smVars
    <3>3. CASE Continue(a) /\ ~Del(a)
      BY <3>3 DEF Continue, HSet, SAdd, Range, Get, Unindex, DelIgnored, DelAcct, SRem,
                  AcctGet, AcctRem, redis, Map!smVars
    <3>4. CASE Fail(a)
      BY <3>4 DEF Fail, redis, Map!smVars
    <3>5. QED BY <2>4, <3>1, <3>2, <3>3, <3>4
  <2>5. CASE UNCHANGED vars
    BY <2>5 DEF vars, Map!smVars
  <2>6. QED BY <2>1, <2>2, <2>3, <2>4, <2>5 DEF Next
<1>3. QED BY <1>1, <1>2, Inductive, PTL DEF Spec

----
(* The admin handlers of one administrator, whose Redis commands succeed:   *)
(* with two at once, or after a failed command, the code does leave an      *)
(* account that can log in out of the set, and a purge incomplete.          *)

\* Which operation is at which command.
OpAt(a) ==
    /\ apc[a] = "idle" => op[a] = "none"
    /\ apc[a] \in {"hset", "sadd"} => op[a] = "put"
    /\ apc[a] \in {"acctget", "acctrem"} => op[a] = "accounts"
    /\ apc[a] \in {"delacct", "srem"} => op[a] = "delete"
    /\ apc[a] = "range" => op[a] \in {"clear", "sessions", "kick"}
    /\ apc[a] \in {"get", "drop", "del", "zrem"} => op[a] \in {"clear", "delete", "sessions", "kick"}

(* Why PurgesAreComplete holds: a session that a purge owes is live and     *)
(* indexed since the purge began, so the index entries the purge removes on *)
(* its way are never those of a session it owes, and each one it owes is    *)
(* still before it, in an account to visit, a sid to read or one to delete. *)
Owes(a) ==
    /\ \A k \in owed[a] : k \in idx /\ Live(k)
    /\ \A k \in owed[a] : \/ k[1] = cur[a] /\ k[2] \in sids[a] \cup found[a]
                          \/ op[a] = "clear" /\ k[1] \in todo[a]
    /\ op[a] \notin {"clear", "delete"} => owed[a] = {}
    /\ apc[a] \in {"delacct", "srem"} => owed[a] = {}
    /\ apc[a] = "range" => \A k \in owed[a] : k[1] \in todo[a]
    /\ apc[a] \in {"drop", "zrem"} => <<cur[a], victim[a]>> \notin owed[a]

(* Why AccountsListed holds: a name is taken out of the set only once its   *)
(* hash is gone, and each handler that parts the two brings them together.  *)
Listed(a) ==
    /\ apc[a] \in {"srem", "acctrem"} => acct[cur[a]] = "none"
    /\ apc[a] = "sadd" => acct[cur[a]] # "none"
    /\ \A u \in Accts : Exists(u) => u \in accts \/ (cur[a] = u /\ apc[a] = "sadd")
    /\ \A u \in Accts : u \in accts => Exists(u) \/ (cur[a] = u /\ apc[a] = "srem")

AdminInv(a) == OpAt(a) /\ Owes(a) /\ Listed(a)

LEMMA WhereFacts ==
    ASSUME NEW o, NEW S, NEW F, NEW T
    PROVE  /\ Where(o, S, F, T) \in {"idle", "range", "get", "del", "delacct"}
           /\ Where(o, S, F, T) \in {"idle", "range"} => S = {} /\ o # "delete" /\ (o = "clear" => F = {})
           /\ Where(o, S, F, T) = "idle" => T = {}
           /\ Where(o, S, F, T) = "delacct" => o = "delete" /\ S = {} /\ F = {}
  BY DEF Where

LEMMA InitAdmin == ASSUME Init, NEW a \in Admins PROVE AdminInv(a)
  BY DEF Init, AdminInv, OpAt, Owes, Listed, Exists

\* Clients, expiry and prefixes: nothing that a handler looks at gets lost.
LEMMA OthersKeepAdmin ==
    ASSUME NEW a \in Admins, AdminInv(a), UNCHANGED <<acct, accts, apc, op, locals>>,
           idx \subseteq idx', owed'[a] \subseteq owed[a], \A k \in owed'[a] : Live(k)'
    PROVE  AdminInv(a)' /\ Completes(a)
<1>1. UNCHANGED <<cur, todo, sids, found, victim>>
  BY DEF locals
<1>2. Owes(a)'
  BY <1>1 DEF AdminInv, Owes
<1>3. OpAt(a)' /\ Listed(a)'
  BY <1>1 DEF AdminInv, OpAt, Listed, Exists
<1>4. QED BY <1>2, <1>3 DEF AdminInv, Completes, Reports

LEMMA ServeKeepsAdmin ==
    ASSUME IInv, NEW a \in Admins, AdminInv(a), NEW c \in Clients, Serve(c)
    PROVE  AdminInv(a)' /\ Completes(a)
<1>1. UNCHANGED <<acct, accts, apc, op, locals, owed>> /\ idx \subseteq idx'
  BY DEF Serve, Auth, Choose, EvalHit, EvalMiss, Leave, redis
<1>2. \A k \in Keys : Live(k) => Live(k)'
  <2>1. CASE EvalMiss(c)
    <3>1. PICK w \in 1..Window : left' = [left EXCEPT ![key[c]] = w]
      BY <2>1 DEF EvalMiss
    <3>2. QED BY <3>1, StoreConstants DEF Live, IInv, SessionsTyped
  <2>2. CASE ~EvalMiss(c)
    BY <2>2 DEF Serve, Auth, Choose, EvalHit, Leave, redis, Live
  <2>3. QED BY <2>1, <2>2
<1>3. \A k \in owed'[a] : Live(k)'
  BY <1>1, <1>2 DEF AdminInv, Owes, IInv, AdminsTyped
<1>4. QED BY <1>1, <1>3, OthersKeepAdmin

LEMMA TickKeepsAdmin ==
    ASSUME IInv, NEW a \in Admins, AdminInv(a), Tick
    PROVE  AdminInv(a)' /\ Completes(a)
<1>1. UNCHANGED <<acct, accts, apc, op, locals>> /\ idx' = idx
  BY DEF Tick
<1>2. owed'[a] = owed[a] \ {k \in Keys : left[k] = 1}
  BY DEF Tick, End
<1>3. ASSUME NEW k \in owed'[a] PROVE Live(k)'
  <2>1. k \in Keys /\ left[k] # 1 /\ left[k] > 0 /\ left[k] \in 0..Window
    BY <1>2, <1>3 DEF AdminInv, Owes, Live, IInv, AdminsTyped, SessionsTyped
  <2>2. left'[k] = left[k] - 1
    BY <2>1 DEF Tick, Live
  <2>3. QED BY <2>1, <2>2, StoreConstants DEF Live
<1>4. QED BY <1>1, <1>2, <1>3, OthersKeepAdmin

\* A handler sets out: what it owes is what it will find.
LEMMA BeginKeepsAdmin ==
    ASSUME IInv, NEW a \in Admins, AdminInv(a), Begin(a)
    PROVE  AdminInv(a)' /\ Completes(a)
<1>1. apc[a] = "idle" /\ op[a] = "none" /\ owed[a] = {}
  BY DEF Begin, Create, Patch, Delete, Sweep, Kick, ListAccounts, Start, AdminInv, OpAt, Owes
<1>2. Completes(a)
  BY <1>1 DEF Completes, Reports
<1>3. UNCHANGED redis
  BY DEF Begin, Create, Patch, Delete, Sweep, Kick, ListAccounts
<1>4. \A u \in Accts : (Exists(u)' => u \in accts') /\ (u \in accts' => Exists(u)')
  BY <1>1, <1>3 DEF redis, AdminInv, Listed, Exists
<1>5. CASE Create(a) \/ Patch(a)
  <2>1. apc'[a] = "hset" /\ op'[a] = "put" /\ owed'[a] = {}
    BY <1>1, <1>5 DEF Create, Patch, Start, IInv, AdminsTyped
  <2>2. QED BY <1>2, <1>4, <2>1 DEF AdminInv, OpAt, Owes, Listed
<1>6. CASE Delete(a)
  <2>1. PICK u \in Accts : /\ cur' = [cur EXCEPT ![a] = u]
                           /\ sids' = [sids EXCEPT ![a] = Indexed(u)]
                           /\ apc' = [apc EXCEPT ![a] = Where("delete", Indexed(u), {}, {})]
                           /\ owed' = [owed EXCEPT ![a] = {k \in idx : k[1] = u /\ Live(k)}]
    BY <1>6 DEF Delete
  <2>2. /\ op'[a] = "delete" /\ cur'[a] = u /\ sids'[a] = Indexed(u)
        /\ apc'[a] = Where("delete", Indexed(u), {}, {})
        /\ owed'[a] = {k \in idx : k[1] = u /\ Live(k)}
    BY <1>6, <2>1 DEF Delete, Start, IInv, AdminsTyped
  <2>3. \A k \in owed'[a] : k[1] = u /\ k[2] \in Indexed(u)
    BY <2>2 DEF Indexed, IInv, AdminsTyped, Keys
  <2>4. apc'[a] \in {"get", "del", "delacct"} /\ (apc'[a] = "delacct" => Indexed(u) = {})
    BY <2>2, WhereFacts
  <2>5. \A k \in owed'[a] : k \in idx' /\ Live(k)'
    BY <1>3, <2>2 DEF redis, Live
  <2>6. Owes(a)'
    BY <2>2, <2>3, <2>4, <2>5 DEF Owes
  <2>7. QED BY <1>2, <1>4, <2>2, <2>4, <2>6 DEF AdminInv, OpAt, Listed
<1>7. CASE Sweep(a)
  <2>1. /\ op'[a] \in {"clear", "sessions"} /\ apc'[a] = "range" /\ todo'[a] = accts
        /\ owed'[a] = IF op'[a] = "clear" THEN {k \in idx : k[1] \in accts /\ Live(k)} ELSE {}
    BY <1>7 DEF Sweep, Start, IInv, AdminsTyped
  <2>2. \A k \in owed'[a] : k[1] \in todo'[a] /\ op'[a] = "clear" /\ k \in idx' /\ Live(k)'
    BY <1>3, <2>1 DEF redis, Live
  <2>3. Owes(a)'
    BY <2>1, <2>2 DEF Owes
  <2>4. QED BY <1>2, <1>4, <2>1, <2>3 DEF AdminInv, OpAt, Listed
<1>8. CASE Kick(a) \/ ListAccounts(a)
  <2>1. owed'[a] = {} /\ \/ apc'[a] = "del" /\ op'[a] = "kick"
                         \/ apc'[a] = "acctget" /\ op'[a] = "accounts"
    BY <1>1, <1>8 DEF Kick, ListAccounts, Start, IInv, AdminsTyped
  <2>2. QED BY <1>2, <1>4, <2>1 DEF AdminInv, OpAt, Owes, Listed
<1>9. QED BY <1>5, <1>6, <1>7, <1>8 DEF Begin

LEMMA AccountStepKeeps ==
    ASSUME IInv, NEW a \in Admins, AdminInv(a), ~Faults,
           HSet(a) \/ SAdd(a) \/ DelAcct(a) \/ SRem(a) \/ AcctGet(a) \/ AcctRem(a)
    PROVE  AdminInv(a)' /\ Completes(a)
<1> USE DEF At, Quiet, locals, AdminInv
<1>1. /\ UNCHANGED <<exit, left, idx, owed>> /\ cur[a] \in Accts
      /\ op'[a] = IF apc'[a] = "idle" THEN "none" ELSE op[a]
  BY DEF HSet, SAdd, DelAcct, SRem, AcctGet, AcctRem, redis, IInv, AdminsTyped
<1>2. CASE HSet(a)
  <2>1. /\ op[a] = "put" /\ owed[a] = {} /\ apc'[a] = "sadd" /\ cur' = cur /\ accts' = accts
        /\ acct' = [acct EXCEPT ![cur[a]] = want[a]]
    BY <1>2 DEF HSet, OpAt, Owes, IInv, AdminsTyped
  <2>2. Listed(a)'
    BY <1>2, <2>1 DEF HSet, Listed, Exists, IInv, AdminsTyped
  <2>3. QED BY <1>1, <2>1, <2>2 DEF OpAt, Owes, Completes, Reports
<1>3. CASE SAdd(a)
  <2>1. /\ op[a] = "put" /\ owed[a] = {} /\ apc'[a] = "idle" /\ cur' = cur /\ acct' = acct
        /\ accts' = accts \cup {cur[a]}
    BY <1>3 DEF SAdd, OpAt, Owes, IInv, AdminsTyped
  <2>2. \A u \in Accts : (Exists(u)' => u \in accts') /\ (u \in accts' => Exists(u)')
    BY <1>3, <2>1 DEF SAdd, Listed, Exists
  <2>3. QED BY <1>1, <2>1, <2>2 DEF OpAt, Owes, Listed, Completes, Reports
<1>4. CASE DelAcct(a)
  <2>1. /\ op[a] = "delete" /\ owed[a] = {} /\ apc'[a] = "srem" /\ cur' = cur /\ accts' = accts
        /\ acct' = [acct EXCEPT ![cur[a]] = "none"] /\ apc[a] = "delacct"
    BY <1>4 DEF DelAcct, OpAt, Owes, IInv, AdminsTyped
  <2>2. Listed(a)'
    BY <1>1, <2>1 DEF Listed, Exists, IInv, AdminsTyped
  <2>3. QED BY <1>1, <2>1, <2>2 DEF OpAt, Owes, Completes, Reports
<1>5. CASE SRem(a)
  <2>1. /\ op[a] = "delete" /\ owed[a] = {} /\ apc'[a] = "idle" /\ cur' = cur /\ acct' = acct
        /\ accts' = accts \ {cur[a]} /\ acct[cur[a]] = "none" /\ apc[a] = "srem"
    BY <1>5 DEF SRem, OpAt, Owes, Listed, IInv, AdminsTyped
  <2>2. Listed(a)'
    BY <2>1 DEF Listed, Exists
  <2>3. QED BY <1>1, <2>1, <2>2 DEF OpAt, Owes, Completes, Reports
<1>6. CASE AcctGet(a)
  <2>1. PICK u \in todo[a] : /\ cur' = [cur EXCEPT ![a] = u]
                             /\ At(a, IF ~Exists(u) THEN "acctrem"
                                      ELSE IF todo[a] = {u} THEN "idle" ELSE "acctget")
    BY <1>6 DEF AcctGet
  <2>2. /\ op[a] = "accounts" /\ owed[a] = {} /\ apc[a] = "acctget" /\ acct' = acct /\ accts' = accts
        /\ cur'[a] = u /\ apc'[a] \in {"acctrem", "idle", "acctget"} /\ (apc'[a] = "acctrem" => ~Exists(u))
    BY <1>6, <2>1 DEF AcctGet, OpAt, Owes, redis, IInv, AdminsTyped
  <2>3. Listed(a)'
    BY <2>2 DEF Listed, Exists
  <2>4. QED BY <1>1, <2>2, <2>3 DEF OpAt, Owes, Completes, Reports
<1>7. CASE AcctRem(a)
  <2>1. /\ op[a] = "accounts" /\ owed[a] = {} /\ apc[a] = "acctrem" /\ acct' = acct /\ cur' = cur
        /\ accts' = accts \ {cur[a]} /\ acct[cur[a]] = "none" /\ apc'[a] \in {"idle", "acctget"}
    BY <1>7 DEF AcctRem, OpAt, Owes, Listed, IInv, AdminsTyped
  <2>2. Listed(a)'
    BY <2>1 DEF Listed, Exists
  <2>3. QED BY <1>1, <2>1, <2>2 DEF OpAt, Owes, Completes, Reports
<1>8. QED BY <1>2, <1>3, <1>4, <1>5, <1>6, <1>7

\* On to where Where says, with what is still owed still ahead.
Onward(a) ==
    /\ apc[a] \in {"range", "get", "drop", "del", "zrem"}
    /\ apc'[a] = Where(op[a], sids'[a], found'[a], todo'[a])
    /\ op'[a] = IF apc'[a] = "idle" THEN "none" ELSE op[a]
    /\ acct' = acct /\ accts' = accts
    /\ \A k \in owed'[a] : k \in idx' /\ Live(k)'
    /\ \A k \in owed'[a] : \/ k[1] = cur'[a] /\ k[2] \in sids'[a] \cup found'[a]
                           \/ op[a] = "clear" /\ k[1] \in todo'[a]
    /\ op[a] \notin {"clear", "delete"} => owed'[a] = {}

LEMMA OnwardKeeps ==
    ASSUME IInv, NEW a \in Admins, AdminInv(a), Onward(a)
    PROVE  AdminInv(a)' /\ Completes(a)
<1> USE DEF Onward
<1>1. PICK S, F, T : S = sids'[a] /\ F = found'[a] /\ T = todo'[a]
  OBVIOUS
<1>2. apc'[a] \in {"idle", "range", "get", "del", "delacct"}
  BY <1>1, WhereFacts
<1>3. apc'[a] \in {"idle", "range"} => S = {} /\ op[a] # "delete" /\ (op[a] = "clear" => F = {})
  BY <1>1, WhereFacts
<1>4. (apc'[a] = "idle" => T = {}) /\ (apc'[a] = "delacct" => op[a] = "delete" /\ S = {} /\ F = {})
  BY <1>1, WhereFacts
<1>5. op[a] \in {"clear", "delete", "sessions", "kick"}
  BY DEF AdminInv, OpAt
<1>6. apc'[a] \in {"idle", "delacct"} => owed'[a] = {}
  BY <1>1, <1>3, <1>4
<1>7. apc'[a] = "range" => \A k \in owed'[a] : k[1] \in todo'[a]
  BY <1>1, <1>3
<1>8. OpAt(a)'
  BY <1>1, <1>2, <1>3, <1>4, <1>5 DEF OpAt
<1>9. Owes(a)'
  BY <1>1, <1>2, <1>6, <1>7 DEF Owes
<1>10. Listed(a)'
  BY <1>2 DEF AdminInv, Listed, Exists
<1>11. Completes(a)
  BY <1>1, <1>3, <1>6 DEF Completes, Reports
<1>12. QED BY <1>8, <1>9, <1>10, <1>11 DEF AdminInv

LEMMA RangeKeeps ==
    ASSUME IInv, NEW a \in Admins, AdminInv(a), Range(a)
    PROVE  AdminInv(a)' /\ Completes(a)
<1>1. PICK u \in todo[a] : /\ cur' = [cur EXCEPT ![a] = u]
                           /\ todo' = [todo EXCEPT ![a] = @ \ {u}]
                           /\ sids' = [sids EXCEPT ![a] = Indexed(u)]
                           /\ At(a, Where(op[a], Indexed(u), {}, todo[a] \ {u}))
  BY DEF Range
<1>2. /\ cur'[a] = u /\ todo'[a] = todo[a] \ {u} /\ sids'[a] = Indexed(u)
      /\ apc[a] = "range" /\ UNCHANGED <<acct, accts, exit, left, idx, found, victim, owed>>
  BY <1>1 DEF Range, Quiet, redis, IInv, AdminsTyped
<1>3. \A k \in owed[a] : k \in idx /\ Live(k) /\ k \in Keys /\ k[1] \in todo[a]
  BY <1>2 DEF AdminInv, Owes, IInv, AdminsTyped
<1>4. \A k \in owed[a] : k[1] = u => k[2] \in Indexed(u)
  BY <1>3 DEF Indexed, Keys
<1>5. op[a] \in {"clear", "sessions", "kick"} /\ (op[a] # "clear" => owed[a] = {})
  BY <1>2 DEF AdminInv, OpAt, Owes
<1>6. /\ apc'[a] = Where(op[a], Indexed(u), {}, todo[a] \ {u})
      /\ op'[a] = IF apc'[a] = "idle" THEN "none" ELSE op[a]
  BY <1>1 DEF At, IInv, AdminsTyped
<1>7. /\ apc'[a] \in {"idle", "range", "get", "del"}
      /\ apc'[a] \in {"idle", "range"} => Indexed(u) = {}
      /\ apc'[a] = "idle" => todo[a] \ {u} = {}
  BY <1>5, <1>6, WhereFacts
<1>8. \A k \in owed[a] : (k[1] = u /\ k[2] \in Indexed(u)) \/ k[1] \in todo[a] \ {u}
  BY <1>3, <1>4
<1>9. /\ apc'[a] = "idle" => owed[a] = {}
      /\ apc'[a] = "range" => \A k \in owed[a] : k[1] \in todo[a] \ {u}
  BY <1>7, <1>8
<1>10. OpAt(a)'
  BY <1>5, <1>6, <1>7 DEF OpAt
<1>11. Owes(a)'
  BY <1>2, <1>3, <1>5, <1>6, <1>7, <1>8, <1>9 DEF Owes, Live
<1>12. Listed(a)'
  BY <1>2, <1>7 DEF AdminInv, Listed, Exists
<1>13. Completes(a)
  BY <1>2, <1>5, <1>6, <1>9 DEF Completes, Reports
<1>14. QED BY <1>10, <1>11, <1>12, <1>13 DEF AdminInv

LEMMA GetKeeps ==
    ASSUME IInv, NEW a \in Admins, AdminInv(a), Get(a)
    PROVE  AdminInv(a)' /\ Completes(a)
<1>1. PICK s \in sids[a] :
        LET here == Live(<<cur[a], s>>)
            F == IF here /\ op[a] # "sessions" THEN found[a] \cup {s} ELSE found[a]
            S == sids[a] \ {s}
        IN  /\ sids' = [sids EXCEPT ![a] = S]
            /\ found' = [found EXCEPT ![a] = F]
            /\ victim' = [victim EXCEPT ![a] = IF here THEN NoSid ELSE s]
            /\ At(a, IF here THEN Where(op[a], S, F, todo[a]) ELSE "drop")
  BY DEF Get
<1> DEFINE F == IF Live(<<cur[a], s>>) /\ op[a] # "sessions" THEN found[a] \cup {s} ELSE found[a]
           S == sids[a] \ {s}
<1>2. /\ sids'[a] = S /\ found'[a] = F /\ apc[a] = "get"
      /\ UNCHANGED <<acct, accts, exit, left, idx, cur, todo, owed>>
  BY <1>1 DEF Get, Quiet, redis, IInv, AdminsTyped
<1>3. \A k \in owed[a] : k \in idx /\ Live(k) /\ k \in Keys
  BY DEF AdminInv, Owes, IInv, AdminsTyped
<1>4. op[a] \notin {"clear", "delete"} => owed[a] = {}
  BY DEF AdminInv, Owes
<1>5. ASSUME NEW k \in owed[a], k[1] = cur[a], k[2] = s PROVE s \in F
  <2>1. k = <<cur[a], s>>
    BY <1>3, <1>5 DEF Keys
  <2>2. QED BY <1>3, <1>4, <2>1
<1>6. \A k \in owed[a] : \/ k[1] = cur[a] /\ k[2] \in S \cup F
                         \/ op[a] = "clear" /\ k[1] \in todo[a]
  BY <1>5 DEF AdminInv, Owes
<1>7. CASE Live(<<cur[a], s>>)
  <2>1. At(a, Where(op[a], S, F, todo[a]))
    BY <1>1, <1>7
  <2> HIDE DEF S, F
  <2>2. cur' = cur /\ owed' = owed /\ todo' = todo /\ idx' = idx /\ left' = left
    BY <1>2
  <2>3. \A k \in owed'[a] : k \in idx' /\ Live(k)'
    BY <1>3, <2>2 DEF Live
  <2>4. /\ apc'[a] = Where(op[a], sids'[a], found'[a], todo'[a])
        /\ op'[a] = IF apc'[a] = "idle" THEN "none" ELSE op[a]
    BY <1>2, <2>1, <2>2 DEF At, IInv, AdminsTyped
  <2>5. /\ \A k \in owed'[a] : \/ k[1] = cur'[a] /\ k[2] \in sids'[a] \cup found'[a]
                               \/ op[a] = "clear" /\ k[1] \in todo'[a]
        /\ op[a] \notin {"clear", "delete"} => owed'[a] = {}
    BY <1>2, <1>4, <1>6, <2>2
  <2>6. Onward(a)
    BY <1>2, <2>3, <2>4, <2>5 DEF Onward
  <2>7. QED BY <2>6, OnwardKeeps
<1>8. CASE ~Live(<<cur[a], s>>)
  <2>1. apc'[a] = "drop" /\ op'[a] = op[a] /\ victim'[a] = s
    BY <1>1, <1>8 DEF At, IInv, AdminsTyped
  <2>2. <<cur'[a], victim'[a]>> \notin owed'[a]
    BY <1>2, <1>3, <1>8, <2>1
  <2>3. Owes(a)'
    BY <1>2, <1>3, <1>4, <1>6, <2>1, <2>2 DEF Owes, Live
  <2>4. OpAt(a)' /\ Listed(a)' /\ Completes(a)
    BY <1>2, <2>1 DEF AdminInv, OpAt, Listed, Exists, Completes, Reports
  <2>5. QED BY <2>3, <2>4 DEF AdminInv
<1>9. QED BY <1>7, <1>8

LEMMA UnindexKeeps ==
    ASSUME IInv, NEW a \in Admins, AdminInv(a), ~Faults, Unindex(a)
    PROVE  AdminInv(a)' /\ Completes(a)
<1>1. /\ idx' = idx \ {<<cur[a], victim[a]>>} /\ apc[a] \in {"drop", "zrem"}
      /\ At(a, Where(op[a], sids[a], found[a], todo[a]))
      /\ UNCHANGED <<acct, accts, exit, left, cur, todo, sids, found, owed>>
  BY DEF Unindex
<1>2. <<cur[a], victim[a]>> \notin owed[a]
  BY <1>1 DEF AdminInv, Owes
<1>3. \A k \in owed'[a] : k \in idx' /\ Live(k)'
  BY <1>1, <1>2 DEF AdminInv, Owes, Live
<1>4. /\ \A k \in owed[a] : \/ k[1] = cur[a] /\ k[2] \in sids[a] \cup found[a]
                            \/ op[a] = "clear" /\ k[1] \in todo[a]
      /\ op[a] \notin {"clear", "delete"} => owed[a] = {}
  BY DEF AdminInv, Owes
<1>5. cur' = cur /\ owed' = owed /\ sids' = sids /\ found' = found /\ todo' = todo
  BY <1>1
<1>6. /\ apc'[a] = Where(op[a], sids'[a], found'[a], todo'[a])
      /\ op'[a] = IF apc'[a] = "idle" THEN "none" ELSE op[a]
  BY <1>1, <1>5 DEF At, IInv, AdminsTyped
<1>7. /\ \A k \in owed'[a] : \/ k[1] = cur'[a] /\ k[2] \in sids'[a] \cup found'[a]
                             \/ op[a] = "clear" /\ k[1] \in todo'[a]
      /\ op[a] \notin {"clear", "delete"} => owed'[a] = {}
  BY <1>4, <1>5
<1>8. Onward(a)
  BY <1>1, <1>3, <1>6, <1>7 DEF Onward
<1>9. QED BY <1>8, OnwardKeeps

LEMMA DelKeepsAdmin ==
    ASSUME IInv, NEW a \in Admins, AdminInv(a), Del(a)
    PROVE  AdminInv(a)' /\ Completes(a)
<1>1. PICK s \in found[a] : /\ found' = [found EXCEPT ![a] = @ \ {s}]
                            /\ victim' = [victim EXCEPT ![a] = s]
                            /\ left' = [left EXCEPT ![<<cur[a], s>>] = 0]
                            /\ End({<<cur[a], s>>})
  BY DEF Del
<1>2. /\ found'[a] = found[a] \ {s} /\ victim'[a] = s /\ owed'[a] = owed[a] \ {<<cur[a], s>>}
      /\ apc[a] = "del" /\ apc'[a] = "zrem" /\ op'[a] = op[a]
      /\ UNCHANGED <<acct, accts, idx, cur, todo, sids>>
  BY <1>1 DEF Del, At, End, IInv, AdminsTyped
<1>3. \A k \in owed'[a] : k \in owed[a] /\ k \in Keys /\ k # <<cur[a], s>>
  BY <1>2 DEF IInv, AdminsTyped
<1>4. \A k \in owed'[a] : k \in idx' /\ Live(k)'
  BY <1>1, <1>2, <1>3 DEF AdminInv, Owes, Live, IInv, SessionsTyped
<1>5. \A k \in owed'[a] : k[1] = cur[a] => k[2] # s
  BY <1>3 DEF Keys
<1>6. \A k \in owed'[a] : \/ k[1] = cur'[a] /\ k[2] \in sids'[a] \cup found'[a]
                          \/ op'[a] = "clear" /\ k[1] \in todo'[a]
  BY <1>2, <1>3, <1>5 DEF AdminInv, Owes
<1>7. Owes(a)'
  BY <1>2, <1>4, <1>6 DEF AdminInv, Owes
<1>8. OpAt(a)' /\ Listed(a)' /\ Completes(a)
  BY <1>2 DEF AdminInv, OpAt, Listed, Exists, Completes, Reports, IInv, AdminsTyped, Ops
<1>9. QED BY <1>7, <1>8 DEF AdminInv

LEMMA NextKeepsAdmin ==
    ASSUME NEW a, Admins = {a}, ~Faults, IInv, AdminInv(a), [Next]_vars
    PROVE  AdminInv(a)' /\ Completes(a)
<1>1. CASE UNCHANGED vars \/ \E p \in Prefixes : SetPrefixEnabled(p)
  <2>1. UNCHANGED <<acct, accts, apc, op, locals, idx, left, owed>>
    BY <1>1 DEF vars, locals, redis, SetPrefixEnabled
  <2>2. \A k \in owed'[a] : Live(k)'
    BY <2>1 DEF AdminInv, Owes, Live
  <2>3. QED BY <2>1, <2>2, OthersKeepAdmin
<1>2. CASE Continue(a)
  BY <1>2, AccountStepKeeps, RangeKeeps, GetKeeps, UnindexKeeps, DelKeepsAdmin DEF Continue, DelIgnored
<1>3. QED BY <1>1, <1>2, TickKeepsAdmin, ServeKeepsAdmin, BeginKeepsAdmin DEF Next, Fail

LEMMA AdminInductive ==
    ASSUME NEW a, Admins = {a}, ~Faults PROVE Spec => [](IInv /\ AdminInv(a))
<1>1. Init => AdminInv(a)
  BY InitAdmin
<1>2. IInv /\ AdminInv(a) /\ [Next]_vars => AdminInv(a)'
  BY NextKeepsAdmin
<1>3. QED BY <1>1, <1>2, Inductive, PTL DEF Spec

(* The set of accounts has exactly the accounts that have a hash, but for   *)
(* one between putAccount's or DeleteAccount's two commands: whatever one    *)
(* administrator creates, patches, deletes and lists, for any number of      *)
(* accounts.                                                                *)
THEOREM AccountsStayListed ==
    ASSUME NEW a, Admins = {a}, ~Faults PROVE Spec => []AccountsListed
<1>1. AdminInv(a) => AccountsListed
  BY DEF AdminInv, Listed, AccountsListed
<1>2. Spec => [](IInv /\ AdminInv(a))
  BY AdminInductive
<1>3. QED BY <1>1, <1>2, PTL

(* A purge that reports success is complete, for any number of accounts,    *)
(* sessions and clients that bind, use and lose sessions while it walks.    *)
THEOREM PurgesComplete ==
    ASSUME NEW b, Admins = {b}, ~Faults PROVE Spec => PurgesAreComplete
<1>1. IInv /\ AdminInv(b) /\ [Next]_vars => [\A a \in Admins : Completes(a)]_vars
  BY NextKeepsAdmin
<1>2. Spec => [](IInv /\ AdminInv(b))
  BY AdminInductive
<1>3. QED BY <1>1, <1>2, PTL DEF Spec, PurgesAreComplete
====

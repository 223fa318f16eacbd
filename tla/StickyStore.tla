---- MODULE StickyStore ----
(***************************************************************************)
(* The Redis store (internal/store/store.go) under its concurrent users:   *)
(* proxy goroutines that admit sticky clients (runtime.Admit, then         *)
(* session.Resolver.Resolve) and admin handlers (internal/admin/           *)
(* accounts.go). One Redis command is one action; the Lua script of        *)
(* GetOrCreateSticky is one command; everything else the store does is a   *)
(* sequence of commands that other goroutines interleave with.             *)
(*                                                                         *)
(* An account hash is abstracted to whether it exists and is enabled, a    *)
(* session to its exit address and the ticks left of its TTL.              *)
(***************************************************************************)
EXTENDS Integers, FiniteSets

CONSTANTS
    Accts, SIDs,       \* account names, session ids
    NoSid,
    Addrs, NoAddr,     \* exit addresses
    Prefixes,          \* the pool's prefixes ...
    PrefixOf,          \* ... and the one each address lies in
    Window,            \* the longest TTL, in ticks
    Clients, Admins,
    Faults             \* whether Redis commands may fail

ASSUME StoreConstants ==
    /\ Accts # {} /\ SIDs # {}
    /\ NoSid \notin SIDs
    /\ NoAddr \notin Addrs
    /\ PrefixOf \in [Addrs -> Prefixes]
    /\ Window \in Nat \ {0}
    /\ Faults \in BOOLEAN

Keys == Accts \X SIDs
Ops == {"none", "put", "kick", "delete", "clear", "sessions", "accounts"}

VARIABLES
    acct,     \* acct:<user>: "none", "on" (enabled) or "off"
    accts,    \* the set accts
    exit,     \* sess:<account>:<sid>: exit_ip ...
    left,     \* ... and TTL; 0 when there is no such key
    idx,      \* sessidx:<account>, all accounts together
    enabled,  \* prefixes the pool hands out addresses from
    cpc, key, addr,           \* a client: where it is, its key, its candidate, then its answer
    apc, op, cur, todo, sids, found, victim, want,  \* an admin handler and its locals
    fresh,    \* history: the session a client was answered from is still that one
    owed      \* history: sessions a purge found at its start and nobody removed yet

redis == <<acct, accts, exit, left, idx>>
client == <<cpc, key, addr>>
locals == <<cur, todo, sids, found, victim, want>>
vars == <<acct, accts, exit, left, idx, enabled, cpc, key, addr,
          apc, op, cur, todo, sids, found, victim, want, fresh, owed>>

TypeOK ==
    /\ acct \in [Accts -> {"none", "on", "off"}]
    /\ accts \subseteq Accts
    /\ exit \in [Keys -> Addrs \cup {NoAddr}]
    /\ left \in [Keys -> 0..Window]
    /\ \A k \in Keys : left[k] > 0 <=> exit[k] # NoAddr
    /\ idx \subseteq Keys
    /\ enabled \subseteq Prefixes
    /\ cpc \in [Clients -> {"idle", "authed", "eval", "got"}]
    /\ key \in [Clients -> Keys]
    /\ addr \in [Clients -> Addrs \cup {NoAddr}]
    /\ apc \in [Admins -> {"idle", "hset", "sadd", "range", "get", "drop", "del", "zrem",
                           "delacct", "srem", "acctget", "acctrem"}]
    /\ op \in [Admins -> Ops]
    /\ cur \in [Admins -> Accts]
    /\ todo \in [Admins -> SUBSET Accts]
    /\ sids \in [Admins -> SUBSET SIDs]
    /\ found \in [Admins -> SUBSET SIDs]
    /\ victim \in [Admins -> SIDs \cup {NoSid}]
    /\ want \in [Admins -> {"on", "off"}]
    /\ fresh \in [Clients -> BOOLEAN]
    /\ owed \in [Admins -> SUBSET Keys]

Init ==
    /\ acct \in [Accts -> {"none", "on"}]
    /\ accts = {u \in Accts : acct[u] # "none"}
    /\ exit = [k \in Keys |-> NoAddr]
    /\ left = [k \in Keys |-> 0]
    /\ idx = {}
    /\ enabled = Prefixes
    /\ cpc = [c \in Clients |-> "idle"]
    /\ key \in [Clients -> Keys]
    /\ addr = [c \in Clients |-> NoAddr]
    /\ apc = [a \in Admins |-> "idle"]
    /\ op = [a \in Admins |-> "none"]
    /\ cur \in [Admins -> Accts]
    /\ todo = [a \in Admins |-> {}]
    /\ sids = [a \in Admins |-> {}]
    /\ found = [a \in Admins |-> {}]
    /\ victim = [a \in Admins |-> NoSid]
    /\ want = [a \in Admins |-> "on"]
    /\ fresh = [c \in Clients |-> FALSE]
    /\ owed = [a \in Admins |-> {}]

Live(k) == left[k] > 0
Exists(u) == acct[u] # "none"
Indexed(u) == {s \in SIDs : <<u, s>> \in idx}

\* The sessions in S end: by their TTL or by DEL.
End(S) ==
    /\ exit' = [k \in Keys |-> IF k \in S THEN NoAddr ELSE exit[k]]
    /\ fresh' = [c \in Clients |-> fresh[c] /\ key[c] \notin S]
    /\ owed' = [a \in Admins |-> owed[a] \ S]

Tick ==
    /\ \E k \in Keys : Live(k)
    /\ left' = [k \in Keys |-> IF Live(k) THEN left[k] - 1 ELSE 0]
    /\ End({k \in Keys : left[k] = 1})
    /\ UNCHANGED <<acct, accts, idx, enabled, client, apc, op, locals>>

----
(* A sticky client: Authenticate, then Resolve                              *)

\* Mutant: a missing account is not told from an enabled one.
AuthMissing(c) ==
    /\ cpc[c] = "idle"
    /\ \E k \in Keys : /\ acct[k[1]] # "off"
                       /\ key' = [key EXCEPT ![c] = k]
    /\ cpc' = [cpc EXCEPT ![c] = "authed"]
    /\ UNCHANGED <<redis, enabled, addr, apc, op, locals, fresh, owed>>
\* Authenticate lets it through; a refused client changes nothing.
Auth(c) ==
    /\ cpc[c] = "idle"
    /\ \E k \in Keys : /\ acct[k[1]] = "on"
                       /\ key' = [key EXCEPT ![c] = k]
    /\ cpc' = [cpc EXCEPT ![c] = "authed"]
    /\ UNCHANGED <<redis, enabled, addr, apc, op, locals, fresh, owed>>

\* Resolve's EnabledPrefixes and RandomFrom: an error when nothing is enabled.
Choose(c) ==
    /\ cpc[c] = "authed"
    /\ \/ /\ enabled = {}
          /\ cpc' = [cpc EXCEPT ![c] = "idle"]
          /\ UNCHANGED addr
       \/ /\ \E x \in {y \in Addrs : PrefixOf[y] \in enabled} : addr' = [addr EXCEPT ![c] = x]
          /\ cpc' = [cpc EXCEPT ![c] = "eval"]
    /\ UNCHANGED <<redis, enabled, key, apc, op, locals, fresh, owed>>

Answer(c, x) == /\ addr' = [addr EXCEPT ![c] = x]
                /\ fresh' = [fresh EXCEPT ![c] = TRUE]
                /\ cpc' = [cpc EXCEPT ![c] = "got"]

\* Mutant: a hit renews the TTL.
EvalRenews(c) ==
    /\ cpc[c] = "eval"
    /\ Live(key[c])
    /\ Answer(c, exit[key[c]])
    /\ left' = [left EXCEPT ![key[c]] = Window]
    /\ UNCHANGED <<acct, accts, exit, idx, enabled, key, apc, op, locals, owed>>
\* stickyLua on an existing session (hits and last_seen are statistics)
EvalHit(c) ==
    /\ cpc[c] = "eval"
    /\ Live(key[c])
    /\ Answer(c, exit[key[c]])
    /\ UNCHANGED <<redis, enabled, key, apc, op, locals, owed>>

\* Mutant: the script sets without having looked.
EvalOverwrites(c) ==
    /\ cpc[c] = "eval"
    /\ Answer(c, addr[c])
    /\ exit' = [exit EXCEPT ![key[c]] = addr[c]]
    /\ \E w \in 1..Window : left' = [left EXCEPT ![key[c]] = w]
    /\ idx' = idx \cup {key[c]}
    /\ UNCHANGED <<acct, accts, enabled, key, apc, op, locals, owed>>
\* Mutant: a new session is stored without EXPIRE.
EvalNoExpire(c) ==
    /\ cpc[c] = "eval"
    /\ ~Live(key[c])
    /\ Answer(c, addr[c])
    /\ exit' = [exit EXCEPT ![key[c]] = addr[c]]
    /\ idx' = idx \cup {key[c]}
    /\ UNCHANGED <<acct, accts, left, enabled, key, apc, op, locals, owed>>
\* stickyLua on a missing one: HSET, EXPIRE and ZADD
EvalMiss(c) ==
    /\ cpc[c] = "eval"
    /\ ~Live(key[c])
    /\ Answer(c, addr[c])
    /\ exit' = [exit EXCEPT ![key[c]] = addr[c]]
    /\ \E w \in 1..Window : left' = [left EXCEPT ![key[c]] = w]
    /\ idx' = idx \cup {key[c]}
    /\ UNCHANGED <<acct, accts, enabled, key, apc, op, locals, owed>>

\* The connection is over, or the script failed.
Leave(c) ==
    /\ cpc[c] = "got" \/ (Faults /\ cpc[c] = "eval")
    /\ cpc' = [cpc EXCEPT ![c] = "idle"]
    /\ addr' = [addr EXCEPT ![c] = NoAddr]
    /\ fresh' = [fresh EXCEPT ![c] = FALSE]
    /\ UNCHANGED <<redis, enabled, key, apc, op, locals, owed>>

\* The pool's SetPrefixEnabled. What it purges are the pool's own in-memory
\* sessions, which nothing on the proxy's path reads.
SetPrefixEnabled(p) ==
    /\ enabled' = IF p \in enabled THEN enabled \ {p} ELSE enabled \cup {p}
    /\ UNCHANGED <<redis, client, apc, op, locals, fresh, owed>>

----
(* Admin handlers. Where says what the code does between two commands of    *)
(* the operation o, with sids S still to read, sessions F still to delete   *)
(* and accounts T still to visit.                                           *)

Where(o, S, F, T) ==
    IF S # {} THEN "get"
    ELSE IF F # {} /\ o \in {"clear", "delete", "kick"} THEN "del"
    ELSE IF o = "delete" THEN "delacct"
    ELSE IF T # {} THEN "range" ELSE "idle"

\* On to the command named l; at "idle" the handler answers its request.
At(a, l) == /\ apc' = [apc EXCEPT ![a] = l]
            /\ op' = [op EXCEPT ![a] = IF l = "idle" THEN "none" ELSE @]
Start(a, o) == /\ apc[a] = "idle"
               /\ op' = [op EXCEPT ![a] = o]
Quiet == UNCHANGED <<enabled, client>>

\* CreateAccount once its GetAccount found nothing; putAccount is next.
Create(a) ==
    /\ Start(a, "put")
    /\ \E u \in Accts, e \in {"on", "off"} :
          /\ ~Exists(u)
          /\ cur' = [cur EXCEPT ![a] = u]
          /\ want' = [want EXCEPT ![a] = e]
    /\ apc' = [apc EXCEPT ![a] = "hset"]
    /\ Quiet /\ UNCHANGED <<redis, todo, sids, found, victim, fresh, owed>>

\* UpdateAccount once its GetAccount found the account. want is the enabled flag
\* it will write: the patch's, or in a patch of other fields the one just read.
Patch(a) ==
    /\ Start(a, "put")
    /\ \E u \in Accts, e \in {"on", "off"} :
          /\ Exists(u)
          /\ cur' = [cur EXCEPT ![a] = u]
          /\ want' = [want EXCEPT ![a] = e]
    /\ apc' = [apc EXCEPT ![a] = "hset"]
    /\ Quiet /\ UNCHANGED <<redis, todo, sids, found, victim, fresh, owed>>

HSet(a) ==
    /\ apc[a] = "hset"
    /\ acct' = [acct EXCEPT ![cur[a]] = want[a]]
    /\ At(a, "sadd")
    /\ Quiet /\ UNCHANGED <<accts, exit, left, idx, locals, fresh, owed>>

\* Mutant: putAccount leaves the set alone.
SAddForgotten(a) ==
    /\ apc[a] = "sadd"
    /\ At(a, "idle")
    /\ want' = [want EXCEPT ![a] = "on"]
    /\ Quiet /\ UNCHANGED <<redis, cur, todo, sids, found, victim, fresh, owed>>
SAdd(a) ==
    /\ apc[a] = "sadd"
    /\ accts' = accts \cup {cur[a]}
    /\ At(a, "idle")
    /\ want' = [want EXCEPT ![a] = "on"]
    /\ Quiet /\ UNCHANGED <<acct, exit, left, idx, cur, todo, sids, found, victim, fresh, owed>>

\* DeleteAccount begins with the ZREVRANGE of its ListStickyByAccount.
Delete(a) ==
    /\ Start(a, "delete")
    /\ \E u \in Accts :
          /\ cur' = [cur EXCEPT ![a] = u]
          /\ sids' = [sids EXCEPT ![a] = Indexed(u)]
          /\ apc' = [apc EXCEPT ![a] = Where("delete", Indexed(u), {}, {})]
          /\ owed' = [owed EXCEPT ![a] = {k \in idx : k[1] = u /\ Live(k)}]
    /\ Quiet /\ UNCHANGED <<redis, todo, found, victim, want, fresh>>

\* ClearSticky and ListStickySessions begin with SMEMBERS accts.
Sweep(a) ==
    /\ \E o \in {"clear", "sessions"} :
          /\ Start(a, o)
          /\ owed' = [owed EXCEPT ![a] =
                        IF o = "clear" THEN {k \in idx : k[1] \in accts /\ Live(k)} ELSE {}]
    /\ accts # {}
    /\ todo' = [todo EXCEPT ![a] = accts]
    /\ apc' = [apc EXCEPT ![a] = "range"]
    /\ Quiet /\ UNCHANGED <<redis, cur, sids, found, victim, want, fresh>>

\* ListStickyByAccount's ZREVRANGE, for the next account of a sweep
Range(a) ==
    /\ apc[a] = "range"
    /\ \E u \in todo[a] :
          /\ cur' = [cur EXCEPT ![a] = u]
          /\ todo' = [todo EXCEPT ![a] = @ \ {u}]
          /\ sids' = [sids EXCEPT ![a] = Indexed(u)]
          /\ At(a, Where(op[a], Indexed(u), {}, todo[a] \ {u}))
    /\ Quiet /\ UNCHANGED <<redis, found, victim, want, fresh, owed>>

\* Mutant: the listing stops at the first session that is gone.
GetStops(a) ==
    /\ apc[a] = "get"
    /\ \E s \in sids[a] :
          LET here == Live(<<cur[a], s>>)
              F == IF here /\ op[a] # "sessions" THEN found[a] \cup {s} ELSE found[a]
              S == IF here THEN sids[a] \ {s} ELSE {}
          IN  /\ sids' = [sids EXCEPT ![a] = S]
              /\ found' = [found EXCEPT ![a] = F]
              /\ victim' = [victim EXCEPT ![a] = IF here THEN NoSid ELSE s]
              /\ At(a, IF here THEN Where(op[a], S, F, todo[a]) ELSE "drop")
    /\ Quiet /\ UNCHANGED <<redis, cur, todo, want, fresh, owed>>
\* getSticky for the next sid; the ZREM of one that is gone comes next.
Get(a) ==
    /\ apc[a] = "get"
    /\ \E s \in sids[a] :
          LET here == Live(<<cur[a], s>>)
              F == IF here /\ op[a] # "sessions" THEN found[a] \cup {s} ELSE found[a]
              S == sids[a] \ {s}
          IN  /\ sids' = [sids EXCEPT ![a] = S]
              /\ found' = [found EXCEPT ![a] = F]
              /\ victim' = [victim EXCEPT ![a] = IF here THEN NoSid ELSE s]
              /\ At(a, IF here THEN Where(op[a], S, F, todo[a]) ELSE "drop")
    /\ Quiet /\ UNCHANGED <<redis, cur, todo, want, fresh, owed>>

\* A ZREM of victim, by the listing (drop) or by DeleteSticky (zrem). The listing
\* and DeleteAccount ignore its error.
Unindex(a) ==
    /\ apc[a] \in {"drop", "zrem"}
    /\ \/ idx' = idx \ {<<cur[a], victim[a]>>}
       \/ Faults /\ (apc[a] = "drop" \/ op[a] = "delete") /\ UNCHANGED idx
    /\ victim' = [victim EXCEPT ![a] = NoSid]
    /\ At(a, Where(op[a], sids[a], found[a], todo[a]))
    /\ Quiet /\ UNCHANGED <<acct, accts, exit, left, cur, todo, sids, found, want, fresh, owed>>

\* apiRemoveStickySession: DeleteSticky of a named session
Kick(a) ==
    /\ Start(a, "kick")
    /\ \E k \in Keys : /\ cur' = [cur EXCEPT ![a] = k[1]]
                       /\ found' = [found EXCEPT ![a] = {k[2]}]
    /\ apc' = [apc EXCEPT ![a] = "del"]
    /\ Quiet /\ UNCHANGED <<redis, todo, sids, victim, want, fresh, owed>>

\* DeleteSticky's DEL
Del(a) ==
    /\ apc[a] = "del"
    /\ \E s \in found[a] :
          /\ found' = [found EXCEPT ![a] = @ \ {s}]
          /\ victim' = [victim EXCEPT ![a] = s]
          /\ left' = [left EXCEPT ![<<cur[a], s>>] = 0]
          /\ End({<<cur[a], s>>})
    /\ At(a, "zrem")
    /\ Quiet /\ UNCHANGED <<acct, accts, idx, cur, todo, sids, want>>

\* DeleteAccount ignores the error of a DeleteSticky whose DEL failed.
DelIgnored(a) ==
    /\ Faults
    /\ apc[a] = "del"
    /\ op[a] = "delete"
    /\ \E s \in found[a] :
          /\ found' = [found EXCEPT ![a] = @ \ {s}]
          /\ At(a, Where("delete", {}, found[a] \ {s}, {}))
    /\ Quiet /\ UNCHANGED <<redis, cur, todo, sids, victim, want, fresh, owed>>

DelAcct(a) ==
    /\ apc[a] = "delacct"
    /\ acct' = [acct EXCEPT ![cur[a]] = "none"]
    /\ At(a, "srem")
    /\ Quiet /\ UNCHANGED <<accts, exit, left, idx, locals, fresh, owed>>

SRem(a) ==
    /\ apc[a] = "srem"
    /\ accts' = accts \ {cur[a]}
    /\ At(a, "idle")
    /\ Quiet /\ UNCHANGED <<acct, exit, left, idx, locals, fresh, owed>>

\* ListAccounts: SMEMBERS, then GetAccount of each, and SREM of one that is gone
ListAccounts(a) ==
    /\ Start(a, "accounts")
    /\ accts # {}
    /\ todo' = [todo EXCEPT ![a] = accts]
    /\ apc' = [apc EXCEPT ![a] = "acctget"]
    /\ Quiet /\ UNCHANGED <<redis, cur, sids, found, victim, want, fresh, owed>>

AcctGet(a) ==
    /\ apc[a] = "acctget"
    /\ \E u \in todo[a] :
          /\ cur' = [cur EXCEPT ![a] = u]
          /\ todo' = [todo EXCEPT ![a] = @ \ {u}]
          /\ At(a, IF ~Exists(u) THEN "acctrem"
                   ELSE IF todo[a] = {u} THEN "idle" ELSE "acctget")
    /\ Quiet /\ UNCHANGED <<redis, sids, found, victim, want, fresh, owed>>

AcctRem(a) ==
    /\ apc[a] = "acctrem"
    /\ accts' = accts \ {cur[a]} \/ (Faults /\ UNCHANGED accts)
    /\ At(a, IF todo[a] = {} THEN "idle" ELSE "acctget")
    /\ Quiet /\ UNCHANGED <<acct, exit, left, idx, locals, fresh, owed>>

\* Redis refuses a command, or the request's context is cancelled: the handler
\* gives up where it is and answers with the error.
Fail(a) ==
    /\ Faults
    /\ apc[a] # "idle"
    /\ At(a, "idle")
    /\ todo' = [todo EXCEPT ![a] = {}]
    /\ sids' = [sids EXCEPT ![a] = {}]
    /\ found' = [found EXCEPT ![a] = {}]
    /\ victim' = [victim EXCEPT ![a] = NoSid]
    /\ want' = [want EXCEPT ![a] = "on"]
    /\ owed' = [owed EXCEPT ![a] = {}]
    /\ Quiet /\ UNCHANGED <<redis, cur, fresh>>

----
Serve(c) == Auth(c) \/ Choose(c) \/ EvalHit(c) \/ EvalMiss(c) \/ Leave(c)

Begin(a) == Create(a) \/ Patch(a) \/ Delete(a) \/ Sweep(a) \/ Kick(a) \/ ListAccounts(a)
Continue(a) == \/ HSet(a) \/ SAdd(a) \/ Range(a) \/ Get(a) \/ Unindex(a)
               \/ Del(a) \/ DelIgnored(a) \/ DelAcct(a) \/ SRem(a)
               \/ AcctGet(a) \/ AcctRem(a)

Next == \/ Tick
        \/ \E c \in Clients : Serve(c)
        \/ \E p \in Prefixes : SetPrefixEnabled(p)
        \/ \E a \in Admins : Begin(a) \/ Continue(a) \/ Fail(a)

Spec == Init /\ [][Next]_vars

\* Redis answers, TTLs run out and handlers run to their end; nobody has to
\* connect, to call the admin API or to toggle a prefix.
FairSpec == /\ Spec
            /\ WF_vars(Tick)
            /\ \A c \in Clients : WF_vars(Choose(c) \/ EvalHit(c) \/ EvalMiss(c))
            /\ \A a \in Admins : WF_vars(Continue(a))

----
(* Properties                                                               *)

(* "same sid keeps the same IPv6" (README.en.md:171): whoever was answered  *)
(* from a session that is still live holds that session's address, so two    *)
(* connections of one session never leave through different addresses        *)
(* (TestStickyConcurrentSameSID tries it on an idle store).                  *)
SameSidSameExit == \A c \in Clients : cpc[c] = "got" /\ fresh[c] =>
                      Live(key[c]) /\ exit[key[c]] = addr[c]

\* A step by which a handler that is about o reports success.
Reports(a, o) == op[a] = o /\ op'[a] = "none"
Completes(a) ==
    /\ Reports(a, "clear") \/ Reports(a, "delete") => owed'[a] = {}
    /\ Reports(a, "delete") => acct'[cur[a]] = "none" /\ cur[a] \notin accts'

(* A purge that reports success is complete, whatever expires, appears or   *)
(* is kicked while it walks its snapshot of the index: ClearSticky has ended *)
(* every session that was live and listed when it began, DeleteAccount those *)
(* of the account, and the account, hash and set.                           *)
PurgesAreComplete == [][\A a \in Admins : Completes(a)]_vars

(* The set the admin pages are built from has the accounts that can log in,  *)
(* each of them and no others, but for the one that is between the two       *)
(* commands of putAccount or DeleteAccount.                                 *)
AccountsListed == \A u \in Accts :
    \/ Exists(u) <=> u \in accts
    \/ \E a \in Admins : cur[a] = u /\ apc[a] \in {"sadd", "srem"}

(* What is left behind by a client that logged in before its account was    *)
(* deleted goes away: an account gone for good is without sessions for good. *)
DeletedAccountsDrain == \A k \in Keys : <>[](acct[k[1]] = "none") => <>[](~Live(k))

(* Traffic leaves a prefix that stays disabled: the sessions bound to it end *)
(* and no candidate comes from it any more.                                 *)
DisabledPrefixDrains == \A p \in Prefixes :
    <>[](p \notin enabled) => <>[](\A k \in Keys : Live(k) => PrefixOf[exit[k]] # p)

(* "Sessions - live Redis sticky sessions, kick to force a new IP"           *)
(* (README.en.md:228): a live session is in the index the page reads.        *)
LiveSessionsListed == \A k \in Keys : Live(k) => k \in idx

----
(* The session keys implement StickyMap, whatever the admin handlers and     *)
(* the index do.                                                             *)
Map == INSTANCE StickyMap WITH bound <- exit
StickyMapSpec == Map!SMSpec
====

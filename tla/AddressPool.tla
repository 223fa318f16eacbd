---- MODULE AddressPool ----
(***************************************************************************)
(* The legacy address pool (internal/ippool/pool.go): numbered addresses   *)
(* of each prefix, in-memory sticky sessions, domain rules that spread a   *)
(* domain over a part of the pool, and the file the rules are kept in,     *)
(* under the admin handlers that change them (internal/admin/handler.go).  *)
(*                                                                         *)
(* Every method of Pool runs under p.mu and is one action, but a handler   *)
(* that changes the rules is three: the change, the snapshot, the write.   *)
(* A panic (an index into an empty pool, a rule that spreads over nothing) *)
(* unlocks by its defer and net/http recovers it: the call is lost and     *)
(* changes at most the counter. Statistics are left out.                   *)
(***************************************************************************)
EXTENDS Integers, SequencesExt

CONSTANTS
    PrefixList,        \* -prefix, in order
    Single,            \* those with /128
    Unparsable,        \* those spelled with "::" ("2001:470:24:692::/64"): "<prefix>::<j>" is no address
    CountPer,          \* New's countPer
    More, MaxCount,    \* Expand's argument, and a bound on what it makes
    Fingerprints, Domains, NoDomain,
    Hash,              \* the 32 bits of SHA-256 that place a fingerprint or a domain
    Counts, MaxPicks,  \* counts a rule may ask for; a bound on its counter
    TTL,               \* ticks; 0: sessions do not expire
    Admins, NoExit, Torn

PrefixSet == ToSet(PrefixList)

ASSUME PoolConstants ==
    /\ Single \cap Unparsable = {} /\ Single \cup Unparsable \subseteq PrefixSet
    /\ CountPer \in Nat \ {0} /\ {More, MaxCount, MaxPicks, TTL} \subseteq Nat
    /\ NoDomain \notin Domains
    /\ Hash \in [Fingerprints \cup Domains -> Nat]
    /\ Counts \subseteq Nat

(* A prefix is given once: New keeps the addresses of one given twice once  *)
(* and lists it twice, and count has no place for the two.                  *)
ASSUME EachPrefixOnce == PrefixList \in Seq(PrefixSet) /\ IsInjective(PrefixList)

VARIABLES
    enabled,    \* prefixes the pool picks from
    count,      \* PrefixInfo.Count
    hosts,      \* allAddrs: the host numbers of each prefix's addresses
    rules,      \* domainRules: domain -> rule
    exit, age,  \* sessions: fingerprint -> ExitIP, or NoExit, and ticks since LastSeen
    file,       \* domain-rules.json: the rules saved, or Torn
    apc, snap,  \* a handler and the snapshot it is going to write
    saved,      \* history: the last write succeeded
    round       \* history: what a round-robin rule picked since its last first

pool == <<enabled, count, hosts>>
sessions == <<exit, age>>
admin == <<file, apc, snap, saved>>
vars == <<pool, rules, sessions, admin, round>>

Strategies == {"round_robin", "random", "first"}
Rules == [count : Counts, strategy : Strategies, start : Nat, counter : 0..MaxPicks]
Saves == [count : Counts, strategy : Strategies]
Address(p, j) == <<p, j>>
Of(x) == x[1]
AddrsOf(p, h) == [j \in 1..Len(h[p]) |-> Address(p, h[p][j])]

\* rebuildAddrs: the addresses of the enabled prefixes E, in order.
Rebuilt(E, h) == FlattenSeq([n \in 1..Len(PrefixList) |->
                     IF PrefixList[n] \in E THEN AddrsOf(PrefixList[n], h) ELSE <<>>])
Addrs == Rebuilt(enabled, hosts)

(* Types. However often the pool is expanded, and however a remainder is    *)
(* shared out, a /128 stays one address, no address is in the pool twice,   *)
(* and the count the admin page shows of a prefix is the number of its      *)
(* addresses, but for those that never parse.                               *)
TypeOK ==
    /\ enabled \subseteq PrefixSet
    /\ \A p \in PrefixSet :
          /\ count[p] \in Nat /\ \A j \in 1..Len(hosts[p]) : hosts[p][j] \in Nat
          /\ p \in Single => count[p] = 1 /\ hosts[p] = <<0>>
          /\ IsInjective(hosts[p])
          /\ IF p \in Unparsable THEN hosts[p] = <<>> ELSE Len(hosts[p]) = count[p]
    /\ DOMAIN rules \subseteq Domains
    /\ \A d \in DOMAIN rules : rules[d] \in Rules
    /\ \A f \in Fingerprints : exit[f] = NoExit \/ Of(exit[f]) \in PrefixSet
    /\ age \in [Fingerprints -> 0..TTL + 1]
    /\ file = Torn \/ (DOMAIN file \subseteq Domains /\ \A d \in DOMAIN file : file[d] \in Saves)
    /\ apc \in [Admins -> {"idle", "snapshot", "write"}]
    /\ saved \in BOOLEAN

\* New
Boot == [p \in PrefixSet |-> CASE p \in Single -> <<0>>
                               [] p \in Unparsable -> <<>>
                               [] OTHER -> [j \in 1..CountPer |-> j]]
NoRules == [d \in {} |-> 0]

BootCount == [p \in PrefixSet |-> IF p \in Single THEN 1 ELSE CountPer]
NoSessions == [f \in Fingerprints |-> NoExit]

Init == /\ enabled = PrefixSet
        /\ count = BootCount
        /\ hosts = Boot
        /\ rules = NoRules
        /\ exit = NoSessions
        /\ age = [f \in Fingerprints |-> 0]
        /\ file = NoRules
        /\ apc = [a \in Admins |-> "idle"]
        /\ snap = [a \in Admins |-> NoRules]
        /\ saved = TRUE
        /\ round = [d \in Domains |-> <<>>]

----
(* Resolve                                                                  *)

\* Mutant: the rule's count is not cut to the pool's size.
SpreadUncut(r) == r.count
\* How many addresses a rule is spread over.
Spread(r) == IF r.count > Len(Addrs) THEN Len(Addrs) ELSE r.count
Nth(i) == Addrs[(i % Len(Addrs)) + 1]

\* The offsets resolveDomainRule may pick; none when it panics.
Offsets(r) ==
    IF Len(Addrs) = 0 THEN {}
    ELSE IF r.strategy = "first" THEN {0}
    ELSE IF Spread(r) = 0 THEN {}
    ELSE IF r.strategy = "round_robin" THEN {r.counter % Spread(r)}
    ELSE 0..Spread(r) - 1

\* counter.Add comes before the modulo that may panic.
Count(d) == IF rules[d].strategy = "round_robin"
            THEN /\ rules[d].counter < MaxPicks
                 /\ rules' = [rules EXCEPT ![d].counter = @ + 1]
            ELSE UNCHANGED rules

\* A domain with a rule: the pick becomes the session's address, too (recordHit).
ResolveRule(f, d) ==
    /\ d \in DOMAIN rules
    /\ Count(d)
    /\ \/ Offsets(rules[d]) = {} /\ UNCHANGED <<sessions, round>>
       \/ \E o \in Offsets(rules[d]) :
             LET x == Nth(rules[d].start + o)
             IN  /\ exit' = [exit EXCEPT ![f] = x]
                 /\ age' = [age EXCEPT ![f] = 0]
                 /\ round' = IF rules[d].strategy = "round_robin"
                             THEN [round EXCEPT ![d] = IF o = 0 THEN <<x>> ELSE Append(@, x)]
                             ELSE round
    /\ UNCHANGED <<pool, admin>>

Expired(f) == TTL > 0 /\ age[f] > TTL
Bound(f) == exit[f] # NoExit /\ ~Expired(f)

\* Any other domain, or none: the session's address, or the hash's for a new one.
ResolveSticky(f, d) ==
    /\ d \notin DOMAIN rules
    /\ \/ /\ Bound(f)
          /\ age' = [age EXCEPT ![f] = 0]
          /\ UNCHANGED exit
       \/ /\ ~Bound(f)
          /\ Addrs # <<>>
          /\ exit' = [exit EXCEPT ![f] = Nth(Hash[f])]
          /\ age' = [age EXCEPT ![f] = 0]
       \/ /\ ~Bound(f)
          /\ Addrs = <<>>           \* panics, after the expired session was deleted
          /\ exit' = [exit EXCEPT ![f] = NoExit]
          /\ age' = [age EXCEPT ![f] = 0]
    /\ UNCHANGED <<pool, rules, admin, round>>

\* The sessions in F are deleted.
Forget(F) == /\ exit' = [f \in Fingerprints |-> IF f \in F THEN NoExit ELSE exit[f]]
             /\ age' = [f \in Fingerprints |-> IF f \in F THEN 0 ELSE age[f]]

\* cleanupLoop
Cleanup == /\ Forget({f \in Fingerprints : Expired(f)})
           /\ UNCHANGED <<pool, rules, admin, round>>
RemoveSession(f) == Forget({f}) /\ UNCHANGED <<pool, rules, admin, round>>
ClearSessions == Forget(Fingerprints) /\ UNCHANGED <<pool, rules, admin, round>>

Tick == /\ TTL > 0
        /\ age' = [f \in Fingerprints |->
                      IF exit[f] # NoExit /\ ~Expired(f) THEN age[f] + 1 ELSE age[f]]
        /\ UNCHANGED <<pool, rules, exit, admin, round>>

----
(* The admin panel: prefixes and addresses                                  *)

\* A pool that changed is one to go round anew.
NewRounds(E, h) == round' = IF Rebuilt(E, h) = Addrs THEN round ELSE [d \in Domains |-> <<>>]

\* Mutant: the sessions in a prefix that is disabled stay.
DisableKeepsSessions(p) ==
    /\ enabled' = enabled \ {p}
    /\ NewRounds(enabled', hosts)
    /\ UNCHANGED <<count, hosts, rules, sessions, admin>>
DisablePrefix(p) ==
    /\ enabled' = enabled \ {p}
    /\ Forget({f \in Fingerprints : exit[f] \in Range(AddrsOf(p, hosts))})
    /\ NewRounds(enabled', hosts)
    /\ UNCHANGED <<count, hosts, rules, admin>>
EnablePrefix(p) ==
    /\ enabled' = enabled \cup {p}
    /\ NewRounds(enabled', hosts)
    /\ UNCHANGED <<count, hosts, rules, sessions, admin>>

\* The places of those that Expand gives a share.
Expandable == {n \in 1..Len(PrefixList) : PrefixList[n] \notin Single}
\* perPrefix, and one more for the first ones as far as the remainder goes
Share(p) == LET k == Cardinality(Expandable)
                ei == Cardinality({n \in Expandable : \A m \in Expandable : PrefixList[m] = p => n < m})
            IN  (More \div k) + (IF ei < More % k THEN 1 ELSE 0)

\* Mutant: the numbers begin with the last one that was given out.
NewHostsFrom(p) == [j \in 1..Share(p) |-> count[p] + j - 1]
\* The host numbers Expand adds to a prefix.
NewHosts(p) == IF p \in Unparsable THEN <<>> ELSE [j \in 1..Share(p) |-> count[p] + j]

Expand ==
    /\ Expandable # {}
    /\ LET E == PrefixSet \ Single
       IN  /\ \A p \in E : count[p] + Share(p) <= MaxCount
           /\ hosts' = [p \in PrefixSet |-> hosts[p] \o IF p \in E THEN NewHosts(p) ELSE <<>>]
           /\ count' = [p \in PrefixSet |-> count[p] + IF p \in E THEN Share(p) ELSE 0]
    /\ NewRounds(enabled, hosts')
    /\ UNCHANGED <<enabled, rules, sessions, admin>>

----
(* The admin panel: rules                                                   *)

Without(m, d) == [k \in DOMAIN m \ {d} |-> m[k]]
With(m, d, v) == [k \in DOMAIN m \cup {d} |-> IF k = d THEN v ELSE m[k]]
NewRule(d, n, s, size) == [count |-> n, strategy |-> s, start |-> Hash[d] % size, counter |-> 0]
Goto(a, l) == apc' = [apc EXCEPT ![a] = l]

\* apiAddDomainRule's AddDomainRule; it panics when the pool is empty.
AddDomainRule(a) ==
    /\ apc[a] = "idle"
    /\ Addrs # <<>>
    /\ \E d \in Domains, n \in Counts, s \in Strategies :
          /\ rules' = With(rules, d, NewRule(d, n, s, Len(Addrs)))
          /\ round' = [round EXCEPT ![d] = <<>>]
    /\ Goto(a, "snapshot")
    /\ UNCHANGED <<pool, sessions, file, snap, saved>>

\* Mutant: a removal is not saved.
RemoveUnsaved(a) ==
    /\ apc[a] = "idle"
    /\ \E d \in Domains : /\ rules' = Without(rules, d)
                          /\ round' = [round EXCEPT ![d] = <<>>]
    /\ UNCHANGED <<pool, sessions, admin>>
\* apiRemoveDomainRule's RemoveDomainRule
RemoveDomainRule(a) ==
    /\ apc[a] = "idle"
    /\ \E d \in Domains : /\ rules' = Without(rules, d)
                          /\ round' = [round EXCEPT ![d] = <<>>]
    /\ Goto(a, "snapshot")
    /\ UNCHANGED <<pool, sessions, file, snap, saved>>

\* SaveDomainRules' DomainRules
Snapshot(a) ==
    /\ apc[a] = "snapshot"
    /\ snap' = [snap EXCEPT ![a] =
                   [d \in DOMAIN rules |-> [count |-> rules[d].count, strategy |-> rules[d].strategy]]]
    /\ Goto(a, "write")
    /\ UNCHANGED <<pool, rules, sessions, file, saved, round>>

\* WriteFile, whose error is logged: the file may be left alone, or cut short.
Write(a) ==
    /\ apc[a] = "write"
    /\ \/ file' = snap[a] /\ saved' = TRUE
       \/ file' \in {file, Torn} /\ saved' = FALSE
    /\ snap' = [snap EXCEPT ![a] = NoRules]
    /\ Goto(a, "idle")
    /\ UNCHANGED <<pool, rules, sessions, round>>

\* The process starts anew: New, then LoadDomainRules with the addresses of New.
\* A write under way may have cut the file short; a torn one is as good as none.
Restart ==
    /\ file' = file \/ (file' = Torn /\ \E a \in Admins : apc[a] = "write")
    /\ saved' = (file' # Torn)
    /\ enabled' = PrefixSet
    /\ count' = BootCount
    /\ hosts' = Boot
    /\ exit' = NoSessions
    /\ age' = [f \in Fingerprints |-> 0]
    /\ apc' = [a \in Admins |-> "idle"]
    /\ snap' = [a \in Admins |-> NoRules]
    /\ round' = [d \in Domains |-> <<>>]
    /\ rules' = IF file' = Torn THEN NoRules
                ELSE [d \in DOMAIN file |->
                         NewRule(d, file[d].count, file[d].strategy, Len(Rebuilt(PrefixSet, Boot)))]

Next == \/ \E f \in Fingerprints :
              \/ \E d \in Domains \cup {NoDomain} : ResolveRule(f, d) \/ ResolveSticky(f, d)
              \/ RemoveSession(f)
        \/ Cleanup \/ ClearSessions \/ Tick \/ Expand \/ Restart
        \/ \E p \in PrefixSet : DisablePrefix(p) \/ EnablePrefix(p)
        \/ \E a \in Admins : AddDomainRule(a) \/ RemoveDomainRule(a) \/ Snapshot(a) \/ Write(a)

Spec == Init /\ [][Next]_vars

----
(* Properties                                                               *)

(* "Disabled prefixes are excluded from IP selection", and sessions bound   *)
(* to them "are removed so they get reassigned" (pool.go:286): whatever     *)
(* rules, expiries, expansions and toggles came before, no session leaves   *)
(* through a disabled prefix.                                               *)
SessionsOnEnabled == \A f \in Fingerprints : exit[f] # NoExit => Of(exit[f]) \in enabled

(* A round-robin rule gives every address it spreads over its turn before   *)
(* any comes again, wherever in the pool it starts, however much smaller    *)
(* than its count the pool has become (TestDomainRuleRoundRobin).           *)
RoundRobinFair == \A d \in Domains : IsInjective(round[d])

(* Rules an administrator was told of and whose write succeeded are the     *)
(* ones the next start will load.                                           *)
RulesDurable ==
    saved /\ (\A a \in Admins : apc[a] = "idle") =>
        file = [d \in DOMAIN rules |-> [count |-> rules[d].count, strategy |-> rules[d].strategy]]
====

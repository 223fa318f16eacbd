---- MODULE AddressPoolProofs ----
(* Proofs about AddressPool, for any prefixes, domains, counts and hashes,  *)
(* any failure of a write and any crash. First the rules and their file,    *)
(* with one administrator at a time: of two, the older snapshot may be      *)
(* written last. Then, with any number, the invariant PoolInv, of which the *)
(* types, the sessions and the rounds follow: it needs what FlattenSeq      *)
(* makes of sequences, which is proved by a least counterexample.           *)
EXTENDS AddressPool, WellFoundedInduction, FiniteSetTheorems, TLAPS

\* What is saved of rules, or of what was saved.
Brief(rs) == [d \in DOMAIN rs |-> [count |-> rs[d].count, strategy |-> rs[d].strategy]]

LEMMA BriefTwice == ASSUME NEW rs PROVE Brief(Brief(rs)) = Brief(rs)
  BY DEF Brief

LEMMA BriefOfNone == Brief(NoRules) = NoRules
  BY DEF Brief, NoRules

(* The snapshot is of the rules as they are, for nobody else changes them;  *)
(* and what is on disk is a saved form, so that loading it and saving it    *)
(* again would change nothing.                                              *)
Filed ==
    /\ apc \in [Admins -> {"idle", "snapshot", "write"}]
    /\ snap = [a \in Admins |-> snap[a]]
    /\ \A d \in DOMAIN rules : {"count", "strategy"} \subseteq DOMAIN rules[d]
    /\ \A a \in Admins : snap[a] = Brief(snap[a])
    /\ \A a \in Admins : apc[a] = "write" => snap[a] = Brief(rules)
    /\ file # Torn => file = Brief(file)
    /\ saved /\ (\A a \in Admins : apc[a] = "idle") => file = Brief(rules)

LEMMA InitFiled == Init => Filed
  BY BriefOfNone DEF Init, Filed, NoRules

LEMMA CountKeepsBrief ==
    ASSUME Filed, NEW d \in DOMAIN rules, Count(d)
    PROVE  /\ Brief(rules') = Brief(rules)
           /\ \A e \in DOMAIN rules' : {"count", "strategy"} \subseteq DOMAIN rules'[e]
<1>1. CASE UNCHANGED rules
  BY <1>1 DEF Filed
<1>2. CASE rules' = [rules EXCEPT ![d].counter = @ + 1]
  <2>1. DOMAIN rules' = DOMAIN rules
    BY <1>2
  <2>2. \A e \in DOMAIN rules : /\ rules'[e].count = rules[e].count
                                /\ rules'[e].strategy = rules[e].strategy
                                /\ DOMAIN rules'[e] = DOMAIN rules[e]
    BY <1>2 DEF Filed
  <2>3. QED BY <2>1, <2>2 DEF Brief, Filed
<1>3. QED BY <1>1, <1>2 DEF Count

LEMMA SameBriefKeeps ==
    ASSUME Filed, UNCHANGED admin, Brief(rules') = Brief(rules),
           \A e \in DOMAIN rules' : {"count", "strategy"} \subseteq DOMAIN rules'[e]
    PROVE  Filed'
  BY DEF Filed, admin

LEMMA EditKeeps ==
    ASSUME NEW a, Admins = {a}, Filed, AddDomainRule(a) \/ RemoveDomainRule(a)
    PROVE  Filed'
<1>1. apc' = [apc EXCEPT ![a] = "snapshot"] /\ UNCHANGED <<file, snap, saved>>
  BY DEF AddDomainRule, RemoveDomainRule, Goto
<1>2. \A e \in DOMAIN rules' : {"count", "strategy"} \subseteq DOMAIN rules'[e]
  <2>1. CASE AddDomainRule(a)
    <3>1. PICK d \in Domains, n \in Counts, s \in Strategies :
              rules' = With(rules, d, NewRule(d, n, s, Len(Addrs)))
      BY <2>1 DEF AddDomainRule
    <3>2. \A e \in DOMAIN rules' : rules'[e] = NewRule(d, n, s, Len(Addrs)) \/ (e \in DOMAIN rules /\ rules'[e] = rules[e])
      BY <3>1 DEF With
    <3>3. {"count", "strategy"} \subseteq DOMAIN NewRule(d, n, s, Len(Addrs))
      BY DEF NewRule
    <3>4. QED BY <3>2, <3>3 DEF Filed
  <2>2. CASE RemoveDomainRule(a)
    <3>1. PICK d \in Domains : rules' = Without(rules, d)
      BY <2>2 DEF RemoveDomainRule
    <3>2. \A e \in DOMAIN rules' : e \in DOMAIN rules /\ rules'[e] = rules[e]
      BY <3>1 DEF Without
    <3>3. QED BY <3>2 DEF Filed
  <2>3. QED BY <2>1, <2>2
<1>3. QED BY <1>1, <1>2 DEF Filed

LEMMA SnapshotKeeps == ASSUME NEW a, Admins = {a}, Filed, Snapshot(a) PROVE Filed'
<1>1. snap'[a] = Brief(rules) /\ snap' = [snap EXCEPT ![a] = Brief(rules)]
  BY DEF Snapshot, Filed, Brief
<1>2. apc' = [apc EXCEPT ![a] = "write"] /\ UNCHANGED <<rules, file, saved>>
  BY DEF Snapshot, Goto
<1>3. snap'[a] = Brief(snap'[a])
  BY <1>1, BriefTwice
<1>4. QED BY <1>1, <1>2, <1>3 DEF Filed

LEMMA WriteKeeps == ASSUME NEW a, Admins = {a}, Filed, Write(a) PROVE Filed'
<1>1. /\ snap[a] = Brief(rules) /\ snap[a] = Brief(snap[a])
      /\ snap' = [snap EXCEPT ![a] = NoRules] /\ apc' = [apc EXCEPT ![a] = "idle"]
      /\ UNCHANGED rules
  BY DEF Write, Goto, Filed
<1>2. CASE file' = snap[a] /\ saved' = TRUE
  BY <1>1, <1>2, BriefOfNone DEF Filed
<1>3. CASE file' \in {file, Torn} /\ saved' = FALSE
  BY <1>1, <1>3, BriefOfNone DEF Filed
<1>4. QED BY <1>2, <1>3 DEF Write

LEMMA RestartKeeps == ASSUME NEW a, Admins = {a}, Filed, Restart PROVE Filed'
<1>1. /\ snap' = [b \in Admins |-> NoRules] /\ apc' = [b \in Admins |-> "idle"]
      /\ file' = file \/ file' = Torn
      /\ saved' = (file' # Torn)
  BY DEF Restart
<1>2. CASE file' = Torn
  <2>1. rules' = NoRules
    BY <1>2 DEF Restart
  <2>2. QED BY <1>1, <1>2, <2>1, BriefOfNone DEF Filed, NoRules
<1>3. CASE file' # Torn
  <2>1. rules' = [d \in DOMAIN file |->
                    NewRule(d, file[d].count, file[d].strategy, Len(Rebuilt(PrefixSet, Boot)))]
    BY <1>1, <1>3 DEF Restart
  <2>2. /\ DOMAIN rules' = DOMAIN file
        /\ \A d \in DOMAIN file : /\ rules'[d].count = file[d].count
                                  /\ rules'[d].strategy = file[d].strategy
                                  /\ {"count", "strategy"} \subseteq DOMAIN rules'[d]
    BY <2>1 DEF NewRule
  <2>3. Brief(rules') = Brief(file)
    BY <2>2 DEF Brief
  <2>4. file' = Brief(file) /\ file' = file
    BY <1>1, <1>3 DEF Filed
  <2>5. QED BY <1>1, <1>3, <2>2, <2>3, <2>4, BriefOfNone DEF Filed
<1>4. QED BY <1>2, <1>3

LEMMA NextKeeps == ASSUME NEW a, Admins = {a}, Filed, [Next]_vars PROVE Filed'
<1>1. ASSUME NEW f \in Fingerprints, NEW d \in Domains, ResolveRule(f, d) PROVE Filed'
  <2>1. d \in DOMAIN rules /\ Count(d) /\ UNCHANGED admin
    BY <1>1 DEF ResolveRule
  <2>2. QED BY <2>1, CountKeepsBrief, SameBriefKeeps
<1>2. CASE UNCHANGED <<rules, admin>>
  BY <1>2, SameBriefKeeps DEF Filed
<1>3. CASE \E f \in Fingerprints : RemoveSession(f) \/ \E d \in Domains \cup {NoDomain} : ResolveSticky(f, d)
  BY <1>2, <1>3 DEF RemoveSession, ResolveSticky
<1>4. CASE Cleanup \/ ClearSessions \/ Tick \/ Expand \/ \E p \in PrefixSet : DisablePrefix(p) \/ EnablePrefix(p)
  BY <1>2, <1>4 DEF Cleanup, ClearSessions, Tick, Expand, DisablePrefix, EnablePrefix
<1>5. CASE UNCHANGED vars
  BY <1>2, <1>5 DEF vars
<1>6. ASSUME NEW f \in Fingerprints, ResolveRule(f, NoDomain) PROVE Filed'
  <2>1. NoDomain \in DOMAIN rules /\ Count(NoDomain) /\ UNCHANGED admin
    BY <1>6 DEF ResolveRule
  <2>2. QED BY <2>1, CountKeepsBrief, SameBriefKeeps
<1>7. CASE Restart
  BY <1>7, RestartKeeps
<1>8. CASE AddDomainRule(a) \/ RemoveDomainRule(a) \/ Snapshot(a) \/ Write(a)
  BY <1>8, EditKeeps, SnapshotKeeps, WriteKeeps
<1>9. QED BY <1>1, <1>3, <1>4, <1>5, <1>6, <1>7, <1>8 DEF Next

(* Rules whose write succeeded are the ones the next start loads, however   *)
(* often writes failed, were cut short or were overtaken by a crash before. *)
THEOREM RulesKept == ASSUME NEW a, Admins = {a} PROVE Spec => []RulesDurable
<1>1. Filed => RulesDurable
  BY DEF Filed, RulesDurable, Brief
<1>2. Filed /\ [Next]_vars => Filed'
  BY NextKeeps
<1>3. QED BY InitFiled, <1>1, <1>2, PTL DEF Spec

----
(* Sequences put together                                                   *)

LEMMA LeastNat == ASSUME NEW S, S \subseteq Nat, S # {}
                  PROVE \E x \in S : \A y \in S : x <= y
<1> DEFINE R == {ss \in Nat \X Nat : ss[1] < ss[2]}
<1>1. IsWellFoundedOn(R, Nat)
  <2>1. OpToRel(<, Nat) = R
    BY DEF OpToRel
  <2>2. QED BY <2>1, NatLessThanWellFounded
<1>2. \A x, y \in Nat : y < x => <<y, x>> \in R
  OBVIOUS
<1> HIDE DEF R
<1>3. PICK x \in S : \A y \in S : ~ <<y, x>> \in R
  BY <1>1, WFMin
<1>4. ASSUME NEW y \in S PROVE x <= y
  <2>1. x \in Nat /\ y \in Nat
    OBVIOUS
  <2>2. ~ y < x
    BY <1>2, <1>3, <2>1
  <2>3. QED BY <2>1, <2>2
<1>5. QED BY <1>4

LEMMA FlattenExists == 
  ASSUME NEW seqs, NEW m \in Nat
  PROVE \E g : g = [i \in 1..m |-> IF i = 1 THEN seqs[i] ELSE g[i-1] \o seqs[i]]
<1> DEFINE Good(n) == \E g : g = [i \in 1..n |-> IF i = 1 THEN seqs[i] ELSE g[i-1] \o seqs[i]]
           Bad == {n \in Nat : ~Good(n)}
<1>1. SUFFICES ASSUME Bad # {} PROVE FALSE
  OBVIOUS
<1>2. PICK n \in Bad : \A k \in Bad : n <= k
  <2> HIDE DEF Bad
  <2>1. Bad \subseteq Nat BY DEF Bad
  <2>2. QED BY <1>1, <2>1, LeastNat
<1>3. n # 0
  <2>1. Good(0)
    <3>1. [i \in 1..0 |-> 0] = [i \in 1..0 |-> IF i = 1 THEN seqs[i] ELSE [j \in 1..0 |-> 0][i-1] \o seqs[i]]
      OBVIOUS
    <3>2. QED BY <3>1
  <2>2. QED BY <2>1
<1>4. Good(n-1)
  <2>1. n-1 \in Nat /\ ~ n <= n-1 BY <1>3
  <2>2. QED BY <2>1, <1>2
<1>5. PICK g : g = [i \in 1..n-1 |-> IF i = 1 THEN seqs[i] ELSE g[i-1] \o seqs[i]]
  BY <1>4
<1> DEFINE h == [i \in 1..n |-> IF i = n THEN IF i = 1 THEN seqs[i] ELSE g[i-1] \o seqs[i] ELSE g[i]]
<1>6. \A i \in 1..n : h[i] = IF i = 1 THEN seqs[i] ELSE h[i-1] \o seqs[i]
  <2>1. n \in Nat OBVIOUS
  <2>2. \A i \in 1..n-1 : h[i] = g[i]
    BY <2>1
  <2>3. \A i \in 1..n-1 : g[i] = IF i = 1 THEN seqs[i] ELSE g[i-1] \o seqs[i]
    BY <1>5
  <2>4. h[n] = IF n = 1 THEN seqs[n] ELSE g[n-1] \o seqs[n]
    BY <1>3, <2>1
  <2> HIDE DEF h
  <2>5. TAKE i \in 1..n
  <2>6. CASE i = n
    BY <2>1, <2>2, <2>4, <2>6, <1>3
  <2>7. CASE i \in 1..n-1
    BY <2>1, <2>2, <2>3, <2>7
  <2>8. QED BY <2>1, <2>6, <2>7
<1>7. Good(n)
  <2>1. h = [i \in 1..n |-> h[i]]
    OBVIOUS
  <2> HIDE DEF h
  <2>2. h = [i \in 1..n |-> IF i = 1 THEN seqs[i] ELSE h[i-1] \o seqs[i]]
    BY <1>6, <2>1
  <2>3. QED BY <2>2
<1>8. QED BY <1>2, <1>7

\* f[n]: the first n of seqs, flattened, as FlattenSeq goes about it.
Flattens(f, seqs) ==
    \A i \in 1..Len(seqs) : f[i] = IF i = 1 THEN seqs[i] ELSE f[i-1] \o seqs[i]

LEMMA ConcatenationOf ==
  ASSUME NEW S, NEW s \in Seq(S), NEW t \in Seq(S)
  PROVE  /\ s \o t \in Seq(S) /\ Len(s) \in Nat /\ Len(t) \in Nat /\ Len(s \o t) = Len(s) + Len(t)
         /\ \A k \in 1..Len(s) : k \in 1..Len(s \o t) /\ (s \o t)[k] = s[k]
         /\ \A k \in 1..Len(s \o t) : ~ k <= Len(s) =>
                k - Len(s) \in 1..Len(t) /\ (s \o t)[k] = t[k - Len(s)]
  OBVIOUS

LEMMA FlattenDef == 
  ASSUME NEW seqs, Len(seqs) \in Nat \ {0}
  PROVE \E f : Flattens(f, seqs) /\ FlattenSeq(seqs) = f[Len(seqs)]
<1>1. \E f : /\ f = [i \in 1..Len(seqs) |-> IF i = 1 THEN seqs[i] ELSE f[i-1] \o seqs[i]]
             /\ FlattenSeq(seqs) = f[Len(seqs)]
  BY FlattenExists DEF FlattenSeq
<1>2. QED BY <1>1 DEF Flattens


\* s is made of the first n of seqs.
MadeOf(s, seqs, n) ==
    /\ \A k \in 1..Len(s) : \E m \in 1..n : \E j \in 1..Len(seqs[m]) : s[k] = seqs[m][j]
    /\ \A m \in 1..n : seqs[m] # <<>> => s # <<>>
\* No element comes twice in seqs.
AllApart(seqs) ==
    \A m, n \in 1..Len(seqs) : \A i \in 1..Len(seqs[m]), j \in 1..Len(seqs[n]) :
        seqs[m][i] = seqs[n][j] => m = n /\ i = j

LEMMA MadeOfOne ==
  ASSUME NEW S, NEW seqs \in Seq(Seq(S)), Len(seqs) # 0
  PROVE  MadeOf(seqs[1], seqs, 1)
  BY DEF MadeOf

LEMMA MadeOfMore ==
  ASSUME NEW S, NEW seqs \in Seq(Seq(S)), NEW n \in 1..Len(seqs), n # 1,
         NEW s \in Seq(S), MadeOf(s, seqs, n - 1)
  PROVE  MadeOf(s \o seqs[n], seqs, n)
<1>1. PICK t \in Seq(S) : t = seqs[n]
  OBVIOUS
<1>2. ASSUME NEW k \in 1..Len(s \o t)
      PROVE  \E m \in 1..n : \E j \in 1..Len(seqs[m]) : (s \o t)[k] = seqs[m][j]
  <2>1. CASE k <= Len(s)
    <3>1. k \in 1..Len(s) /\ (s \o t)[k] = s[k]
      BY <2>1, ConcatenationOf
    <3>2. PICK m \in 1..n-1 : \E j \in 1..Len(seqs[m]) : s[k] = seqs[m][j]
      BY <3>1 DEF MadeOf
    <3>3. m \in 1..n
      OBVIOUS
    <3>4. QED BY <3>1, <3>2, <3>3
  <2>2. CASE ~ k <= Len(s)
    <3>1. k - Len(s) \in 1..Len(t) /\ (s \o t)[k] = t[k - Len(s)]
      BY <2>2, ConcatenationOf
    <3>2. n \in 1..n
      OBVIOUS
    <3>3. QED BY <3>1, <3>2, <1>1
  <2>3. QED BY <2>1, <2>2
<1>3. ASSUME NEW m \in 1..n, seqs[m] # <<>> PROVE s \o t # <<>>
  <2>1. CASE m = n
    BY <1>1, <1>3, <2>1
  <2>2. CASE m \in 1..n-1
    <3>1. s # <<>>
      BY <1>3, <2>2 DEF MadeOf
    <3>2. QED BY <3>1
  <2>3. QED BY <2>1, <2>2
<1>4. QED BY <1>1, <1>2, <1>3 DEF MadeOf

LEMMA NoElementTwice ==
  ASSUME NEW S, NEW s \in Seq(S), \A i, j \in 1..Len(s) : s[i] = s[j] => i = j
  PROVE  IsInjective(s)
  BY DEF IsInjective

LEMMA ConcatenationInjective ==
  ASSUME NEW S, NEW s \in Seq(S), NEW t \in Seq(S), IsInjective(s), IsInjective(t),
         \A k \in 1..Len(s), j \in 1..Len(t) : s[k] # t[j]
  PROVE  IsInjective(s \o t)
<1>1. PICK u \in Seq(S) :
          /\ u = s \o t
          /\ \A k \in 1..Len(s) : u[k] = s[k]
          /\ \A k \in 1..Len(u) : ~ k <= Len(s) => k - Len(s) \in 1..Len(t) /\ u[k] = t[k - Len(s)]
  <2>1. /\ s \o t \in Seq(S)
        /\ \A k \in 1..Len(s) : (s \o t)[k] = s[k]
        /\ \A k \in 1..Len(s \o t) : ~ k <= Len(s) =>
              k - Len(s) \in 1..Len(t) /\ (s \o t)[k] = t[k - Len(s)]
    BY ConcatenationOf
  <2>2. QED BY <2>1
<1>2. \A i, j \in 1..Len(s) : s[i] = s[j] => i = j
  BY DEF IsInjective
<1>3. \A i, j \in 1..Len(t) : t[i] = t[j] => i = j
  BY DEF IsInjective
<1>4. ASSUME NEW i \in 1..Len(u), NEW j \in 1..Len(u), u[i] = u[j]
      PROVE  i = j
  <2>0. Len(s) \in Nat
    OBVIOUS
  <2>1. CASE i \in 1..Len(s) /\ j \in 1..Len(s)
    BY <1>1, <1>2, <1>4, <2>1
  <2>2. CASE i \in 1..Len(s) /\ ~ j <= Len(s)
    BY <1>1, <1>4, <2>2
  <2>3. CASE ~ i <= Len(s) /\ j \in 1..Len(s)
    BY <1>1, <1>4, <2>3
  <2>4. CASE ~ i <= Len(s) /\ ~ j <= Len(s)
    <3>1. i - Len(s) \in 1..Len(t) /\ j - Len(s) \in 1..Len(t) /\ t[i - Len(s)] = t[j - Len(s)]
      BY <1>1, <1>4, <2>4
    <3>2. i - Len(s) = j - Len(s)
      BY <1>3, <3>1
    <3>3. QED BY <2>0, <3>2
  <2>5. QED BY <2>0, <2>1, <2>2, <2>3, <2>4
<1>5. IsInjective(u)
  BY <1>4 DEF IsInjective
<1>6. QED BY <1>1, <1>5

LEMMA ApartMore ==
  ASSUME NEW S, NEW seqs \in Seq(Seq(S)), AllApart(seqs), NEW n \in 1..Len(seqs), n # 1,
         NEW s \in Seq(S), MadeOf(s, seqs, n - 1), IsInjective(s)
  PROVE  IsInjective(s \o seqs[n])
<1>1. PICK t \in Seq(S) : t = seqs[n]
  OBVIOUS
<1>2. \A k \in 1..Len(s), j \in 1..Len(t) : s[k] # t[j]
  <2>1. TAKE k \in 1..Len(s), j \in 1..Len(t)
  <2>2. PICK m \in 1..n-1 : \E i \in 1..Len(seqs[m]) : s[k] = seqs[m][i]
    BY DEF MadeOf
  <2>3. m \in 1..Len(seqs) /\ m # n
    OBVIOUS
  <2>4. QED BY <1>1, <2>2, <2>3 DEF AllApart
<1>3. IsInjective(t)
  <2>1. \A i, j \in 1..Len(t) : t[i] = t[j] => i = j
    BY <1>1 DEF AllApart
  <2>2. QED BY <2>1, NoElementTwice
<1>4. IsInjective(s \o t)
  BY <1>2, <1>3, ConcatenationInjective
<1>5. QED BY <1>1, <1>4

(* By induction on n, in the form of a least n that has it not.             *)
LEMMA FlattensToAll ==
  ASSUME NEW S, NEW seqs \in Seq(Seq(S)), NEW f, Flattens(f, seqs)
  PROVE  \A n \in 1..Len(seqs) :
            /\ f[n] \in Seq(S)
            /\ MadeOf(f[n], seqs, n)
            /\ AllApart(seqs) => IsInjective(f[n])
<1> DEFINE Good(n) == /\ f[n] \in Seq(S)
                      /\ MadeOf(f[n], seqs, n)
                      /\ AllApart(seqs) => IsInjective(f[n])
           Bad == {n \in 1..Len(seqs) : ~Good(n)}
<1>1. SUFFICES ASSUME Bad # {} PROVE FALSE
  OBVIOUS
<1>2. PICK n \in Bad : \A k \in Bad : n <= k
  <2> HIDE DEF Bad
  <2>1. Bad \subseteq Nat
    BY DEF Bad
  <2>2. QED BY <1>1, <2>1, LeastNat
<1>3. n \in 1..Len(seqs) /\ Len(seqs) \in Nat
  OBVIOUS
<1>4. f[n] = IF n = 1 THEN seqs[n] ELSE f[n-1] \o seqs[n]
  BY <1>3 DEF Flattens
<1>5. CASE n = 1
  <2>1. f[n] = seqs[1] /\ seqs[1] \in Seq(S) /\ Len(seqs) # 0
    BY <1>3, <1>4, <1>5
  <2>2. MadeOf(f[n], seqs, n)
    BY <1>5, <2>1, MadeOfOne
  <2>3. ASSUME AllApart(seqs) PROVE IsInjective(f[n])
    <3>1. PICK t \in Seq(S) : t = seqs[1]
      BY <2>1
    <3>2. \A i, j \in 1..Len(t) : t[i] = t[j] => i = j
      BY <1>3, <1>5, <2>3, <3>1 DEF AllApart
    <3>3. IsInjective(t)
      BY <3>2 DEF IsInjective
    <3>4. QED BY <2>1, <3>1, <3>3
  <2>4. QED BY <2>1, <2>2, <2>3
<1>6. CASE n # 1
  <2>1. n - 1 \in 1..Len(seqs) /\ ~ n <= n - 1
    BY <1>3, <1>6
  <2>2. Good(n - 1)
    BY <1>2, <2>1
  <2>3. PICK s \in Seq(S) : s = f[n-1] /\ MadeOf(s, seqs, n - 1) /\ (AllApart(seqs) => IsInjective(s))
    BY <2>2
  <2>4. f[n] = s \o seqs[n]
    <3>1. f[n] = f[n-1] \o seqs[n]
      BY <1>4, <1>6
    <3>2. QED BY <3>1, <2>3
  <2>5. f[n] \in Seq(S)
    BY <2>4
  <2>6. MadeOf(f[n], seqs, n)
    BY <1>3, <1>6, <2>3, <2>4, MadeOfMore
  <2>7. AllApart(seqs) => IsInjective(f[n])
    BY <1>3, <1>6, <2>3, <2>4, ApartMore
  <2>8. QED BY <2>5, <2>6, <2>7
<1>7. QED BY <1>5, <1>6

(* What FlattenSeq makes of sequences: a sequence of their elements and of  *)
(* no others, without repetition if they have none.                         *)
LEMMA FlattenSeqIs ==
  ASSUME NEW S, NEW seqs \in Seq(Seq(S))
  PROVE  /\ FlattenSeq(seqs) \in Seq(S)
         /\ MadeOf(FlattenSeq(seqs), seqs, Len(seqs))
         /\ AllApart(seqs) => IsInjective(FlattenSeq(seqs))
<1>1. CASE Len(seqs) = 0
  <2>1. FlattenSeq(seqs) = <<>> /\ Len(seqs) = 0
    BY <1>1 DEF FlattenSeq
  <2>2. QED BY <2>1 DEF MadeOf, IsInjective
<1>2. CASE Len(seqs) # 0
  <2>1. Len(seqs) \in 1..Len(seqs) /\ Len(seqs) \in Nat \ {0}
    BY <1>2
  <2>2. PICK f : Flattens(f, seqs) /\ FlattenSeq(seqs) = f[Len(seqs)]
    BY <2>1, FlattenDef
  <2>3. QED BY <2>1, <2>2, FlattensToAll
<1>3. QED BY <1>1, <1>2

----
(* Remainders                                                               *)

LEMMA Division ==
  ASSUME NEW L \in Nat \ {0}, NEW x \in Nat
  PROVE  \E q \in Int, r \in 0..L-1 : r = x % L /\ x = L * q + r
<1>1. x \div L \in Int /\ x % L \in 0..L-1
  OBVIOUS
<1>2. x % L = x - L * (x \div L)
  OBVIOUS
<1>3. PICK q \in Int : q = x \div L
  BY <1>1
<1>4. PICK r \in 0..L-1 : r = x % L
  BY <1>1
<1>5. PICK p \in Int : p = L * q
  OBVIOUS
<1>6. r = x - p
  BY <1>2, <1>3, <1>4, <1>5
<1>7. x = L * q + r
  BY <1>5, <1>6
<1>8. QED BY <1>4, <1>7

LEMMA Quotient == ASSUME NEW L \in Nat \ {0}, NEW x \in Nat PROVE x \div L \in Nat
  OBVIOUS

LEMMA Uniquely ==
  ASSUME NEW L \in Nat \ {0}, NEW q \in Int, NEW p \in Int, NEW r \in 0..L-1, NEW s \in 0..L-1,
         L * q + r = L * p + s
  PROVE  r = s
<1>1. L * (q - p) = s - r
  OBVIOUS
<1>2. CASE q - p >= 1
  <2>1. L * (q - p) >= L
    BY <1>2
  <2>2. QED BY <1>1, <2>1
<1>3. CASE q - p <= -1
  <2>1. L * (q - p) <= -L
    BY <1>3
  <2>2. QED BY <1>1, <2>1
<1>4. CASE q = p
  BY <1>4
<1>5. QED BY <1>2, <1>3, <1>4

LEMMA NextRemainder ==
  ASSUME NEW L \in Nat \ {0}, NEW c \in Nat
  PROVE  (c + 1) % L = 0 \/ (c + 1) % L = (c % L) + 1
<1>1. PICK q \in Int, r \in 0..L-1 : r = c % L /\ c = L * q + r
  BY Division
<1>2. PICK p \in Int, s \in 0..L-1 : s = (c + 1) % L /\ c + 1 = L * p + s
  BY Division
<1>3. CASE r = L - 1
  <2>1. L * (q + 1) + 0 = L * p + s
    BY <1>1, <1>2, <1>3
  <2>2. s = 0
    BY <2>1, Uniquely
  <2>3. QED BY <1>2, <2>2
<1>4. CASE r + 1 \in 0..L-1
  <2>1. L * q + (r + 1) = L * p + s
    BY <1>1, <1>2
  <2>2. s = r + 1
    BY <1>4, <2>1, Uniquely
  <2>3. QED BY <1>1, <1>2, <2>2
<1>5. QED BY <1>3, <1>4

LEMMA SameRemainder ==
  ASSUME NEW L \in Nat \ {0}, NEW x \in Nat, NEW a \in 0..L-1, NEW b \in 0..L-1,
         (x + a) % L = (x + b) % L
  PROVE  a = b
<1>0. x + a \in Nat
  OBVIOUS
<1>1. PICK q \in Int, r \in 0..L-1 : r = (x + a) % L /\ x + a = L * q + r
  BY <1>0, Division
<1>2. PICK p \in Int, s \in 0..L-1 : s = (x + b) % L /\ x + b = L * p + s
  BY Division
<1>3. L * q + b = L * p + a
  BY <1>1, <1>2
<1>4. QED BY <1>3, Uniquely
----
(* Numbers and addresses                                                    *)

\* What a prefix's addresses are numbered, when it counts c of them.
Numbers(p, c) == IF p \in Single THEN <<0>> ELSE IF p \in Unparsable THEN <<>> ELSE [j \in 1..c |-> j]

Numbered ==
    /\ enabled \subseteq PrefixSet
    /\ count \in [PrefixSet -> Nat] /\ hosts \in [PrefixSet -> Seq(Nat)]
    /\ \A p \in PrefixSet : (p \in Single => count[p] = 1) /\ hosts[p] = Numbers(p, count[p])

LEMMA NumbersAre ==
  ASSUME NEW p, NEW c \in Nat
  PROVE  Numbers(p, c) \in Seq(Nat) /\ IsInjective(Numbers(p, c))
<1>1. CASE p \in Single
  <2>1. Numbers(p, c) = <<0>>
    BY <1>1 DEF Numbers
  <2>2. IsInjective(<<0>>)
    BY DEF IsInjective
  <2>3. QED BY <2>1, <2>2
<1>2. CASE p \notin Single /\ p \in Unparsable
  <2>1. Numbers(p, c) = <<>>
    BY <1>2 DEF Numbers
  <2>2. IsInjective(<<>>)
    BY DEF IsInjective
  <2>3. QED BY <2>1, <2>2
<1>3. CASE p \notin Single /\ p \notin Unparsable
  <2>1. Numbers(p, c) = [j \in 1..c |-> j]
    BY <1>3 DEF Numbers
  <2>2. IsInjective([j \in 1..c |-> j])
    BY DEF IsInjective
  <2>3. QED BY <2>1, <2>2
<1>4. QED BY <1>1, <1>2, <1>3

(* The pool has the addresses of its enabled prefixes, no others, and each  *)
(* of them once.                                                            *)
LEMMA RebuiltIs ==
  ASSUME NEW E, NEW h, \A p \in PrefixSet : h[p] \in Seq(Nat) /\ IsInjective(h[p])
  PROVE  /\ Rebuilt(E, h) \in Seq(PrefixSet \X Nat)
         /\ \A k \in 1..Len(Rebuilt(E, h)) :
               \E p \in E \cap PrefixSet : \E j \in 1..Len(h[p]) : Rebuilt(E, h)[k] = Address(p, h[p][j])
         /\ \A p \in E \cap PrefixSet : h[p] # <<>> => Rebuilt(E, h) # <<>>
         /\ IsInjective(Rebuilt(E, h))
<1> DEFINE part(n) == IF PrefixList[n] \in E THEN AddrsOf(PrefixList[n], h) ELSE <<>>
           seqs == [n \in 1..Len(PrefixList) |-> part(n)]
<1>1. /\ Len(PrefixList) \in Nat /\ \A n \in 1..Len(PrefixList) : PrefixList[n] \in PrefixSet
      /\ \A p \in PrefixSet : \E n \in 1..Len(PrefixList) : PrefixList[n] = p
      /\ \A m, n \in 1..Len(PrefixList) : PrefixList[m] = PrefixList[n] => m = n
  BY EachPrefixOnce DEF PrefixSet, ToSet, IsInjective
<1>2. ASSUME NEW p \in PrefixSet
      PROVE  /\ AddrsOf(p, h) \in Seq(PrefixSet \X Nat) /\ Len(AddrsOf(p, h)) = Len(h[p]) /\ Len(h[p]) \in Nat
             /\ \A j \in 1..Len(h[p]) : AddrsOf(p, h)[j] = Address(p, h[p][j])
  <2>1. \A j \in 1..Len(h[p]) : h[p][j] \in Nat
    OBVIOUS
  <2>2. Len(h[p]) \in Nat
    OBVIOUS
  <2>3. QED BY <2>1, <2>2 DEF AddrsOf, Address
<1>3. ASSUME NEW n \in 1..Len(PrefixList)
      PROVE  part(n) \in Seq(PrefixSet \X Nat)
  BY <1>1, <1>2
<1>4. seqs \in Seq(Seq(PrefixSet \X Nat)) /\ Len(seqs) = Len(PrefixList)
  BY <1>1, <1>3
<1>5. Rebuilt(E, h) = FlattenSeq(seqs)
  BY DEF Rebuilt
<1>6. \A n \in 1..Len(seqs) : seqs[n] = part(n)
  BY <1>4
<1>7. ASSUME NEW m \in 1..Len(seqs), NEW j \in 1..Len(seqs[m])
      PROVE  /\ PrefixList[m] \in E \cap PrefixSet /\ j \in 1..Len(h[PrefixList[m]])
             /\ seqs[m][j] = Address(PrefixList[m], h[PrefixList[m]][j])
  <2>1. m \in 1..Len(PrefixList) /\ PrefixList[m] \in PrefixSet /\ seqs[m] = part(m)
    BY <1>1, <1>4, <1>6
  <2>2. PrefixList[m] \in E
    <3>1. SUFFICES ASSUME PrefixList[m] \notin E PROVE FALSE
      OBVIOUS
    <3>2. seqs[m] = <<>>
      BY <2>1, <3>1
    <3> HIDE DEF seqs
    <3>3. QED BY <3>2
  <2>3. seqs[m] = AddrsOf(PrefixList[m], h)
    BY <2>1, <2>2
  <2> HIDE DEF seqs
  <2>4. QED BY <1>2, <2>1, <2>2, <2>3
<1>8. AllApart(seqs)
  <2>1. ASSUME NEW m \in 1..Len(seqs), NEW n \in 1..Len(seqs),
               NEW i \in 1..Len(seqs[m]), NEW j \in 1..Len(seqs[n]), seqs[m][i] = seqs[n][j]
        PROVE  m = n /\ i = j
    <3> HIDE DEF seqs
    <3>1. Address(PrefixList[m], h[PrefixList[m]][i]) = Address(PrefixList[n], h[PrefixList[n]][j])
      BY <1>7, <2>1
    <3>2. PrefixList[m] = PrefixList[n] /\ h[PrefixList[m]][i] = h[PrefixList[n]][j]
      BY <3>1 DEF Address
    <3>3. m = n
      BY <1>1, <1>4, <3>2
    <3>4. PICK g \in Seq(Nat) : g = h[PrefixList[m]] /\ IsInjective(g)
      BY <1>7
    <3>5. i \in 1..Len(g) /\ j \in 1..Len(g) /\ g[i] = g[j]
      BY <1>7, <3>2, <3>3, <3>4
    <3>6. QED BY <3>3, <3>4, <3>5 DEF IsInjective
  <2> HIDE DEF seqs
  <2>2. QED BY <2>1 DEF AllApart
<1> HIDE DEF seqs
<1>9. FlattenSeq(seqs) \in Seq(PrefixSet \X Nat) /\ MadeOf(FlattenSeq(seqs), seqs, Len(seqs)) /\ IsInjective(FlattenSeq(seqs))
  BY <1>4, <1>8, FlattenSeqIs
<1>10. ASSUME NEW k \in 1..Len(FlattenSeq(seqs))
       PROVE  \E p \in E \cap PrefixSet : \E j \in 1..Len(h[p]) : FlattenSeq(seqs)[k] = Address(p, h[p][j])
  <2>1. PICK m \in 1..Len(seqs) : \E j \in 1..Len(seqs[m]) : FlattenSeq(seqs)[k] = seqs[m][j]
    BY <1>9 DEF MadeOf
  <2>2. PICK j \in 1..Len(seqs[m]) : FlattenSeq(seqs)[k] = seqs[m][j]
    BY <2>1
  <2>3. /\ PrefixList[m] \in E \cap PrefixSet /\ j \in 1..Len(h[PrefixList[m]])
        /\ seqs[m][j] = Address(PrefixList[m], h[PrefixList[m]][j])
    BY <1>7
  <2>4. QED BY <2>2, <2>3
<1>11. ASSUME NEW p \in E \cap PrefixSet, h[p] # <<>>
       PROVE  FlattenSeq(seqs) # <<>>
  <2>1. PICK n \in 1..Len(PrefixList) : PrefixList[n] = p
    BY <1>1
  <2>2. seqs[n] = AddrsOf(p, h) /\ n \in 1..Len(seqs)
    BY <1>4, <1>6, <2>1
  <2>3. AddrsOf(p, h) # <<>>
    <3>1. Len(h[p]) # 0
      BY <1>11
    <3>2. QED BY <1>2, <3>1
  <2>4. QED BY <1>9, <2>2, <2>3 DEF MadeOf
<1>12. QED BY <1>5, <1>9, <1>10, <1>11

(* Those that Expand gives a share do get a number of addresses.            *)
LEMMA ShareIsNat ==
  ASSUME NEW p, Expandable # {}
  PROVE  Share(p) \in Nat
<1> DEFINE S == {n \in Expandable : \A m \in Expandable : PrefixList[m] = p => n < m}
           k == Cardinality(Expandable)
           ei == Cardinality(S)
<1>1. IsFiniteSet(1..Len(PrefixList))
  BY EachPrefixOnce, FS_Interval
<1>2. IsFiniteSet(Expandable)
  BY <1>1, FS_Subset DEF Expandable
<1>3. k \in Nat \ {0}
  BY <1>2, FS_CardinalityType, FS_EmptySet
<1>4. ei \in Nat
  <2>1. S \subseteq Expandable
    OBVIOUS
  <2> HIDE DEF S
  <2>2. QED BY <1>2, <2>1, FS_Subset, FS_CardinalityType
<1>5. More \in Nat
  BY PoolConstants
<1>6. Share(p) = (More \div k) + (IF ei < More % k THEN 1 ELSE 0)
  BY DEF Share
<1> HIDE DEF k, ei
<1>7. PICK q \in Int, r \in 0..k-1 : More = k * q + r
  BY <1>3, <1>5, Division
<1>8. More \div k \in Nat
  BY <1>3, <1>5, Quotient
<1>9. QED BY <1>4, <1>6, <1>8

LEMMA NumbersGrow ==
  ASSUME NEW p \in PrefixSet \ Single, NEW c \in Nat, NEW n \in Nat
  PROVE  Numbers(p, c) \o (IF p \in Unparsable THEN <<>> ELSE [j \in 1..n |-> c + j]) = Numbers(p, c + n)
<1>1. CASE p \in Unparsable
  BY <1>1 DEF Numbers
<1>2. CASE p \notin Unparsable
  <2>1. PICK s, t, u : s = [j \in 1..c |-> j] /\ t = [j \in 1..n |-> c + j] /\ u = [j \in 1..c + n |-> j]
    OBVIOUS
  <2>2. s \in Seq(Nat) /\ t \in Seq(Nat) /\ u \in Seq(Nat) /\ Len(s) = c /\ Len(t) = n /\ Len(u) = c + n
    BY <2>1
  <2>3. \A j \in 1..c + n : (s \o t)[j] = u[j]
    <3>1. TAKE j \in 1..c + n
    <3>2. CASE j <= c
      <4>1. (s \o t)[j] = s[j]
        BY <2>2, <3>2
      <4>2. QED BY <2>1, <3>2, <4>1
    <3>3. CASE ~ j <= c
      <4>1. j - c \in 1..n /\ (s \o t)[j] = t[j - c]
        BY <2>2, <3>3
      <4>2. QED BY <2>1, <3>3, <4>1
    <3>4. QED BY <3>2, <3>3
  <2>4. s \o t = u
    <3>0. s \in Seq(Nat) /\ t \in Seq(Nat)
      BY <2>2
    <3>1. PICK v \in Seq(Nat) : v = s \o t /\ Len(v) = Len(s) + Len(t)
      BY <3>0, ConcatenationOf
    <3>2. Len(v) = c + n
      BY <2>2, <3>1
    <3>3. \A j \in 1..c + n : v[j] = u[j]
      BY <2>3, <3>1
    <3>4. v = u
      BY <2>2, <3>2, <3>3
    <3>5. QED BY <3>1, <3>4
  <2>5. QED BY <1>2, <2>1, <2>4 DEF Numbers
<1>3. QED BY <1>1, <1>2

LEMMA BootIs ==
  /\ BootCount \in [PrefixSet -> Nat] /\ Boot \in [PrefixSet -> Seq(Nat)]
  /\ \A p \in PrefixSet : (p \in Single => BootCount[p] = 1) /\ Boot[p] = Numbers(p, BootCount[p])
<1>1. CountPer \in Nat /\ Single \cap Unparsable = {}
  BY PoolConstants
<1>2. BootCount \in [PrefixSet -> Nat] /\ \A p \in PrefixSet : p \in Single => BootCount[p] = 1
  BY <1>1 DEF BootCount
<1>3. \A p \in PrefixSet : Boot[p] = Numbers(p, BootCount[p])
  BY <1>1 DEF Boot, BootCount, Numbers
<1>4. \A p \in PrefixSet : Boot[p] \in Seq(Nat)
  BY <1>2, <1>3, NumbersAre
<1>5. DOMAIN Boot = PrefixSet /\ Boot = [p \in PrefixSet |-> Boot[p]]
  BY DEF Boot
<1>6. QED BY <1>2, <1>3, <1>4, <1>5

LEMMA NumberedInit == Init => Numbered
<1>1. SUFFICES ASSUME Init PROVE Numbered
  OBVIOUS
<1>2. hosts = Boot /\ count = BootCount /\ enabled = PrefixSet
  BY <1>1 DEF Init
<1>3. QED BY <1>2, BootIs DEF Numbered

LEMMA ExpandKeepsNumbered == ASSUME Numbered, Expand PROVE Numbered'
<1>1. /\ Expandable # {} /\ enabled' = enabled
      /\ hosts' = [p \in PrefixSet |-> hosts[p] \o IF p \in PrefixSet \ Single THEN NewHosts(p) ELSE <<>>]
      /\ count' = [p \in PrefixSet |-> count[p] + IF p \in PrefixSet \ Single THEN Share(p) ELSE 0]
  BY DEF Expand
<1>2. ASSUME NEW p \in PrefixSet
      PROVE  /\ count'[p] \in Nat /\ (p \in Single => count'[p] = 1)
             /\ hosts'[p] = Numbers(p, count'[p])
  <2>1. PICK c \in Nat : c = count[p] /\ (p \in Single => c = 1) /\ hosts[p] = Numbers(p, c)
    BY DEF Numbered
  <2>2. CASE p \in Single
    <3>1. count'[p] = c + 0 /\ hosts'[p] = Numbers(p, c) \o <<>>
      BY <1>1, <2>1, <2>2
    <3>2. QED BY <2>1, <3>1, <2>2, NumbersAre
  <2>3. CASE p \notin Single
    <3>1. PICK n \in Nat : n = Share(p)
      BY <1>1, ShareIsNat
    <3>2. NewHosts(p) = IF p \in Unparsable THEN <<>> ELSE [j \in 1..n |-> c + j]
      BY <2>1, <3>1 DEF NewHosts
    <3>3. count'[p] = c + n /\ hosts'[p] = Numbers(p, c) \o NewHosts(p)
      BY <1>1, <2>1, <2>3, <3>1
    <3>4. hosts'[p] = Numbers(p, c + n)
      BY <2>3, <3>2, <3>3, NumbersGrow
    <3>5. QED BY <2>3, <3>3, <3>4
  <2>4. QED BY <2>2, <2>3
<1>3. \A p \in PrefixSet : hosts'[p] \in Seq(Nat)
  BY <1>2, NumbersAre
<1>4. hosts' \in [PrefixSet -> Seq(Nat)] /\ count' \in [PrefixSet -> Nat]
  BY <1>1, <1>2, <1>3
<1>5. QED BY <1>1, <1>2, <1>4 DEF Numbered

LEMMA NumberedNext == Numbered /\ [Next]_vars => Numbered'
<1>1. SUFFICES ASSUME Numbered, [Next]_vars PROVE Numbered'
  OBVIOUS
<1>2. CASE UNCHANGED pool
  BY <1>1, <1>2 DEF Numbered, Numbers, pool
<1>3. CASE \E f \in Fingerprints : RemoveSession(f) \/ \E d \in Domains \cup {NoDomain} : ResolveRule(f, d) \/ ResolveSticky(f, d)
  BY <1>2, <1>3 DEF RemoveSession, ResolveSticky, ResolveRule
<1>4. CASE Cleanup \/ ClearSessions \/ Tick \/ UNCHANGED vars
  BY <1>2, <1>4 DEF Cleanup, ClearSessions, Tick, vars
<1>5. CASE \E a \in Admins : AddDomainRule(a) \/ RemoveDomainRule(a) \/ Snapshot(a) \/ Write(a)
  BY <1>2, <1>5 DEF AddDomainRule, RemoveDomainRule, Snapshot, Write
<1>6. CASE Expand
  BY <1>1, <1>6, ExpandKeepsNumbered
<1>7. CASE Restart
  <2>1. hosts' = Boot /\ count' = BootCount /\ enabled' = PrefixSet
    BY <1>7 DEF Restart
  <2>2. QED BY <2>1, BootIs DEF Numbered
<1>8. ASSUME NEW p \in PrefixSet, DisablePrefix(p) \/ EnablePrefix(p)
      PROVE  Numbered'
  BY <1>1, <1>8 DEF Numbered, Numbers, DisablePrefix, EnablePrefix
<1>9. QED BY <1>1, <1>3, <1>4, <1>5, <1>6, <1>7, <1>8 DEF Next

LEMMA AddrsIs ==
  ASSUME Numbered
  PROVE  /\ Addrs \in Seq(PrefixSet \X Nat) /\ IsInjective(Addrs)
         /\ \A k \in 1..Len(Addrs) : \E p \in enabled : \E j \in 1..Len(hosts[p]) : Addrs[k] = Address(p, hosts[p][j])
<1>1. \A p \in PrefixSet : hosts[p] \in Seq(Nat) /\ IsInjective(hosts[p])
  BY NumbersAre DEF Numbered
<1>2. enabled \cap PrefixSet = enabled
  BY DEF Numbered
<1>3. QED BY <1>1, <1>2, RebuiltIs DEF Addrs

LEMMA NthIs ==
  ASSUME Numbered, Len(Addrs) # 0, NEW i \in Nat
  PROVE  /\ Nth(i) \in PrefixSet \X Nat
         /\ \E p \in enabled : \E j \in 1..Len(hosts[p]) : Nth(i) = Address(p, hosts[p][j])
<1>1. PICK n \in Nat \ {0} : n = Len(Addrs)
  BY AddrsIs
<1>2. i % n \in 0..n-1
  OBVIOUS
<1>3. (i % n) + 1 \in 1..n
  BY <1>2
<1>4. Nth(i) = Addrs[(i % n) + 1]
  BY <1>1 DEF Nth
<1>5. PICK k \in 1..n : k = (i % n) + 1
  BY <1>3
<1>6. k \in 1..Len(Addrs) /\ Nth(i) = Addrs[k]
  BY <1>1, <1>4, <1>5
<1>7. Addrs[k] \in PrefixSet \X Nat
  BY <1>6, AddrsIs
<1>8. QED BY <1>6, <1>7, AddrsIs

----
(* Sessions                                                                 *)

(* Wherever a session leaves through is an address of an enabled prefix.    *)
Exits ==
    /\ exit \in [Fingerprints -> (PrefixSet \X Nat) \cup {NoExit}]
    /\ \A f \in Fingerprints : exit[f] # NoExit =>
          \E p \in enabled : \E j \in 1..Len(hosts[p]) : exit[f] = Address(p, hosts[p][j])

\* What a rule's offsets and places are, for the rules there can be.
Ruled == DOMAIN rules \subseteq Domains /\ \A d \in DOMAIN rules : rules[d] \in Rules

LEMMA RuleIs ==
  ASSUME NEW r \in Rules
  PROVE  r.count \in Nat /\ r.counter \in Nat /\ r.start \in Nat /\ r.strategy \in Strategies
<1>1. MaxPicks \in Nat /\ Counts \subseteq Nat
  BY PoolConstants
<1>2. r.count \in Counts /\ r.counter \in 0..MaxPicks /\ r.start \in Nat /\ r.strategy \in Strategies
  BY DEF Rules
<1>3. r.count \in Nat
  BY <1>1, <1>2
<1>4. r.counter \in Nat
  BY <1>1, <1>2
<1>5. QED BY <1>2, <1>3, <1>4

LEMMA OffsetsAre ==
  ASSUME Numbered, NEW r \in Rules, NEW o \in Offsets(r)
  PROVE  /\ o \in Nat /\ r.start + o \in Nat /\ Len(Addrs) # 0
<1>1. r.count \in Nat /\ r.counter \in Nat /\ r.start \in Nat /\ r.strategy \in Strategies
  BY RuleIs
<1>2. Len(Addrs) \in Nat
  BY AddrsIs
<1>3. Len(Addrs) # 0
  BY DEF Offsets
<1>4. PICK n \in Nat : n = Spread(r)
  BY <1>1, <1>2 DEF Spread
<1>5. CASE r.strategy = "first"
  BY <1>1, <1>3, <1>5 DEF Offsets
<1>6. CASE r.strategy # "first"
  <2>1. n # 0
    BY <1>3, <1>4, <1>6 DEF Offsets
  <2>2. CASE r.strategy = "round_robin"
    <3>1. o = r.counter % n
      BY <1>3, <1>4, <1>6, <2>1, <2>2 DEF Offsets
    <3>2. QED BY <1>1, <1>3, <2>1, <3>1
  <2>3. CASE r.strategy = "random"
    <3>1. o \in 0..n-1
      BY <1>3, <1>4, <1>6, <2>1, <2>3 DEF Offsets
    <3>2. QED BY <1>1, <1>3, <3>1
  <2>4. QED BY <1>1, <1>6, <2>2, <2>3 DEF Strategies
<1>7. QED BY <1>5, <1>6

\* A session given an address of the pool, the pool staying as it is.
LEMMA GivenKeepsExits ==
  ASSUME Numbered, Exits, UNCHANGED pool, NEW f \in Fingerprints, NEW i \in Nat, Len(Addrs) # 0,
         exit' = [exit EXCEPT ![f] = Nth(i)]
  PROVE  Exits'
<1>1. PICK x \in PrefixSet \X Nat :
          x = Nth(i) /\ \E p \in enabled : \E j \in 1..Len(hosts[p]) : x = Address(p, hosts[p][j])
  BY NthIs
<1>2. exit' = [exit EXCEPT ![f] = x]
  BY <1>1
<1>3. exit' \in [Fingerprints -> (PrefixSet \X Nat) \cup {NoExit}]
  BY <1>2 DEF Exits
<1>4. \A g \in Fingerprints : exit'[g] = x \/ exit'[g] = exit[g]
  BY <1>2 DEF Exits
<1>5. QED BY <1>1, <1>3, <1>4 DEF Exits, Address, pool

\* Sessions forgotten, while the addresses the others have stay.
LEMMA ForgottenKeepsExits ==
  ASSUME Exits, NEW F, Forget(F),
         \A f \in Fingerprints \ F : \A p \in enabled : \A j \in 1..Len(hosts[p]) :
             exit[f] = Address(p, hosts[p][j]) =>
                 p \in enabled' /\ j \in 1..Len(hosts'[p]) /\ hosts'[p][j] = hosts[p][j]
  PROVE  Exits'
<1>1. exit' = [f \in Fingerprints |-> IF f \in F THEN NoExit ELSE exit[f]]
  BY DEF Forget
<1>2. exit' \in [Fingerprints -> (PrefixSet \X Nat) \cup {NoExit}]
  BY <1>1 DEF Exits
<1>3. ASSUME NEW f \in Fingerprints, exit'[f] # NoExit
      PROVE  \E p \in enabled' : \E j \in 1..Len(hosts'[p]) : exit'[f] = <<p, hosts'[p][j]>>
  <2>1. f \notin F /\ exit'[f] = exit[f] /\ exit[f] # NoExit
    BY <1>1, <1>3
  <2>2. PICK p \in enabled : \E j \in 1..Len(hosts[p]) : exit[f] = Address(p, hosts[p][j])
    BY <2>1 DEF Exits
  <2>3. PICK j \in 1..Len(hosts[p]) : exit[f] = Address(p, hosts[p][j])
    BY <2>2
  <2>4. p \in enabled' /\ j \in 1..Len(hosts'[p]) /\ hosts'[p][j] = hosts[p][j]
    BY <2>1, <2>3
  <2>5. exit'[f] = <<p, hosts'[p][j]>>
    BY <2>1, <2>3, <2>4 DEF Address
  <2>6. QED BY <2>4, <2>5
<1>4. QED BY <1>2, <1>3 DEF Exits, Address

LEMMA ResolveKeepsExits ==
  ASSUME Numbered, Exits, Ruled, NEW f \in Fingerprints, NEW d, ResolveRule(f, d) \/ ResolveSticky(f, d)
  PROVE  Exits'
<1>1. UNCHANGED pool
  BY DEF ResolveRule, ResolveSticky
<1>2. CASE UNCHANGED exit
  BY <1>1, <1>2 DEF Exits, Address, pool
<1>3. CASE ResolveRule(f, d)
  <2>1. d \in DOMAIN rules
    BY <1>3 DEF ResolveRule
  <2>2. PICK r \in Rules : r = rules[d]
    BY <2>1 DEF Ruled
  <2>3. CASE UNCHANGED sessions
    BY <1>2, <2>3 DEF sessions
  <2>4. ASSUME NEW o \in Offsets(r), exit' = [exit EXCEPT ![f] = Nth(r.start + o)]
        PROVE  Exits'
    BY <1>1, <2>4, OffsetsAre, GivenKeepsExits
  <2>5. UNCHANGED sessions \/ \E o \in Offsets(r) : exit' = [exit EXCEPT ![f] = Nth(r.start + o)]
    BY <1>3, <2>2 DEF ResolveRule
  <2>6. QED BY <2>3, <2>4, <2>5
<1>4. CASE ResolveSticky(f, d)
  <2>1. CASE Addrs # <<>> /\ exit' = [exit EXCEPT ![f] = Nth(Hash[f])]
    <3>1. Len(Addrs) # 0
      BY <2>1, AddrsIs
    <3>2. PICK i \in Nat : i = Hash[f]
      BY PoolConstants
    <3>3. QED BY <1>1, <2>1, <3>1, <3>2, GivenKeepsExits
  <2>2. CASE exit' = [exit EXCEPT ![f] = NoExit]
    <3>1. exit' \in [Fingerprints -> (PrefixSet \X Nat) \cup {NoExit}]
      BY <2>2 DEF Exits
    <3>2. \A g \in Fingerprints : exit'[g] = NoExit \/ exit'[g] = exit[g]
      BY <2>2 DEF Exits
    <3>3. QED BY <1>1, <3>1, <3>2 DEF Exits, Address, pool
  <2>3. QED BY <1>2, <1>4, <2>1, <2>2 DEF ResolveSticky
<1>5. QED BY <1>3, <1>4

LEMMA ForgetKeepsExits ==
  ASSUME Exits, NEW F, Forget(F), UNCHANGED pool
  PROVE  Exits'
  BY ForgottenKeepsExits DEF pool

LEMMA DisableKeepsExits ==
  ASSUME Numbered, Exits, NEW p \in PrefixSet, DisablePrefix(p)
  PROVE  Exits'
<1> DEFINE F == {f \in Fingerprints : exit[f] \in Range(AddrsOf(p, hosts))}
<1>1. Forget(F) /\ enabled' = enabled \ {p} /\ hosts' = hosts
  BY DEF DisablePrefix
<1>2. ASSUME NEW f \in Fingerprints \ F, NEW q \in enabled, NEW j \in 1..Len(hosts[q]), exit[f] = Address(q, hosts[q][j])
      PROVE  q # p
  <2>1. SUFFICES ASSUME q = p PROVE exit[f] \in Range(AddrsOf(p, hosts))
    BY <1>2
  <2>2. AddrsOf(p, hosts)[j] = exit[f] /\ j \in DOMAIN AddrsOf(p, hosts)
    BY <1>2, <2>1 DEF AddrsOf
  <2>3. QED BY <2>2 DEF Range
<1> HIDE DEF F
<1>3. QED BY <1>1, <1>2, ForgottenKeepsExits

LEMMA ExpandKeepsExits ==
  ASSUME Numbered, Exits, Expand
  PROVE  Exits'
<1>1. /\ Expandable # {} /\ enabled' = enabled /\ UNCHANGED exit
      /\ hosts' = [p \in PrefixSet |-> hosts[p] \o IF p \in PrefixSet \ Single THEN NewHosts(p) ELSE <<>>]
  BY DEF Expand, sessions
<1>2. ASSUME NEW p \in enabled, NEW j \in 1..Len(hosts[p])
      PROVE  j \in 1..Len(hosts'[p]) /\ hosts'[p][j] = hosts[p][j]
  <2>1. PICK h \in Seq(Nat), c \in Nat : h = hosts[p] /\ c = count[p] /\ p \in PrefixSet
    BY DEF Numbered
  <2>2. PICK n \in Nat : n = Share(p)
    BY <1>1, ShareIsNat
  <2>3. PICK t \in Seq(Nat) : t = IF p \in PrefixSet \ Single THEN NewHosts(p) ELSE <<>>
    <3>1. NewHosts(p) = IF p \in Unparsable THEN <<>> ELSE [i \in 1..n |-> c + i]
      BY <2>1, <2>2 DEF NewHosts
    <3>2. [i \in 1..n |-> c + i] \in Seq(Nat) /\ <<>> \in Seq(Nat)
      OBVIOUS
    <3>3. QED BY <3>1, <3>2
  <2>4. hosts'[p] = h \o t
    BY <1>1, <2>1, <2>3
  <2>5. QED BY <2>1, <2>4, ConcatenationOf
<1>3. ASSUME NEW f \in Fingerprints, exit'[f] # NoExit
      PROVE  \E p \in enabled' : \E j \in 1..Len(hosts'[p]) : exit'[f] = <<p, hosts'[p][j]>>
  <2>1. PICK p \in enabled : \E j \in 1..Len(hosts[p]) : exit[f] = Address(p, hosts[p][j])
    BY <1>1, <1>3 DEF Exits
  <2>2. PICK j \in 1..Len(hosts[p]) : exit[f] = Address(p, hosts[p][j])
    BY <2>1
  <2>3. j \in 1..Len(hosts'[p]) /\ hosts'[p][j] = hosts[p][j]
    BY <1>2
  <2>4. QED BY <1>1, <2>2, <2>3 DEF Address
<1>4. QED BY <1>1, <1>3 DEF Exits, Address

LEMMA ExitsNext == Numbered /\ Ruled /\ Exits /\ [Next]_vars => Exits'
<1>1. SUFFICES ASSUME Numbered, Ruled, Exits, [Next]_vars PROVE Exits'
  OBVIOUS
<1>2. CASE UNCHANGED <<pool, exit>>
  BY <1>1, <1>2 DEF Exits, Address, pool
<1>3. ASSUME NEW f \in Fingerprints, NEW d, ResolveRule(f, d) \/ ResolveSticky(f, d) PROVE Exits'
  BY <1>1, <1>3, ResolveKeepsExits
<1>4. ASSUME NEW f \in Fingerprints, RemoveSession(f) PROVE Exits'
  BY <1>1, <1>4, ForgetKeepsExits DEF RemoveSession
<1>5. CASE Cleanup \/ ClearSessions
  BY <1>1, <1>5, ForgetKeepsExits DEF Cleanup, ClearSessions
<1>6. CASE Tick \/ UNCHANGED vars
  BY <1>2, <1>6 DEF Tick, vars, sessions
<1>7. CASE \E a \in Admins : AddDomainRule(a) \/ RemoveDomainRule(a) \/ Snapshot(a) \/ Write(a)
  BY <1>2, <1>7 DEF AddDomainRule, RemoveDomainRule, Snapshot, Write, sessions
<1>8. CASE Expand
  BY <1>1, <1>8, ExpandKeepsExits
<1>9. CASE Restart
  <2>1. exit' = NoSessions
    BY <1>9 DEF Restart
  <2>2. QED BY <2>1 DEF NoSessions, Exits
<1>10. ASSUME NEW p \in PrefixSet, DisablePrefix(p) PROVE Exits'
  BY <1>1, <1>10, DisableKeepsExits
<1>11. ASSUME NEW p \in PrefixSet, EnablePrefix(p) PROVE Exits'
  BY <1>1, <1>11 DEF EnablePrefix, Exits, Address, sessions
<1>12. QED BY <1>1, <1>3, <1>4, <1>5, <1>6, <1>7, <1>8, <1>9, <1>10, <1>11 DEF Next

----
(* Rules, and the file they are kept in                                     *)

\* Rules as they are saved; there are none where no prefix has addresses.
Kept(m) == /\ DOMAIN m \subseteq Domains
           /\ \A d \in DOMAIN m : m[d] \in Saves
           /\ DOMAIN m # {} => PrefixSet \ Unparsable # {}

Keeps ==
    /\ Ruled
    /\ DOMAIN rules # {} => PrefixSet \ Unparsable # {}
    /\ file # Torn => Kept(file)
    /\ snap = [a \in Admins |-> snap[a]]
    /\ \A a \in Admins : Kept(snap[a])

LEMMA NothingIsKept == Kept(NoRules)
  BY DEF Kept, NoRules

\* A rule begins somewhere in the pool, if the pool has a place at all.
LEMMA NewRuleIs ==
  ASSUME NEW d \in Domains, NEW n \in Counts, NEW s \in Strategies, NEW size \in Nat \ {0}
  PROVE  NewRule(d, n, s, size) \in Rules
<1>1. PICK i \in Nat : i = Hash[d]
  BY PoolConstants
<1>2. i % size \in Nat
  OBVIOUS
<1>3. 0 \in 0..MaxPicks
  BY PoolConstants
<1>4. QED BY <1>1, <1>2, <1>3 DEF NewRule, Rules

LEMMA PoolOfSome ==
  ASSUME Numbered, Addrs # <<>>
  PROVE  PrefixSet \ Unparsable # {} /\ Len(Addrs) \in Nat \ {0}
<1>1. Len(Addrs) \in Nat \ {0}
  BY AddrsIs
<1>2. 1 \in 1..Len(Addrs)
  BY <1>1
<1>3. PICK p \in enabled : \E j \in 1..Len(hosts[p]) : Addrs[1] = Address(p, hosts[p][j])
  BY <1>2, AddrsIs
<1>4. p \in PrefixSet /\ hosts[p] = Numbers(p, count[p]) /\ hosts[p] # <<>>
  BY <1>3 DEF Numbered
<1>5. p \notin Unparsable
  BY <1>4, PoolConstants DEF Numbers
<1>6. QED BY <1>1, <1>4, <1>5

LEMMA BootOfSome ==
  ASSUME PrefixSet \ Unparsable # {}
  PROVE  Len(Rebuilt(PrefixSet, Boot)) \in Nat \ {0}
<1>1. \A p \in PrefixSet : Boot[p] \in Seq(Nat) /\ IsInjective(Boot[p])
  BY BootIs, NumbersAre
<1>2. PICK p \in PrefixSet : p \notin Unparsable
  OBVIOUS
<1>3. Boot[p] # <<>>
  <2>1. CASE p \in Single
    BY <2>1, PoolConstants DEF Boot
  <2>2. CASE p \notin Single
    <3>1. Boot[p] = [j \in 1..CountPer |-> j] /\ CountPer \in Nat \ {0}
      BY <1>2, <2>2, PoolConstants DEF Boot
    <3>2. 1 \in DOMAIN Boot[p]
      BY <3>1
    <3>3. QED BY <3>2
  <2>3. QED BY <2>1, <2>2
<1>4. Rebuilt(PrefixSet, Boot) # <<>> /\ Rebuilt(PrefixSet, Boot) \in Seq(PrefixSet \X Nat)
  BY <1>1, <1>2, <1>3, RebuiltIs
<1>5. QED BY <1>4

LEMMA CountKeepsRuled ==
  ASSUME Ruled, NEW d \in DOMAIN rules, Count(d)
  PROVE  Ruled' /\ DOMAIN rules' = DOMAIN rules
<1>1. CASE UNCHANGED rules
  BY <1>1 DEF Ruled, Rules
<1>2. CASE rules[d].counter < MaxPicks /\ rules' = [rules EXCEPT ![d].counter = @ + 1]
  <2>1. PICK r \in Rules : r = rules[d] /\ r.counter < MaxPicks
    BY <1>2 DEF Ruled
  <2>2. [r EXCEPT !.counter = r.counter + 1] \in Rules
    <3>1. r.counter + 1 \in 0..MaxPicks
      BY <2>1, PoolConstants DEF Rules
    <3>2. QED BY <2>1, <3>1 DEF Rules
  <2>3. DOMAIN rules' = DOMAIN rules /\ rules'[d] = [r EXCEPT !.counter = r.counter + 1]
        /\ \A e \in DOMAIN rules \ {d} : rules'[e] = rules[e]
    BY <1>2, <2>1
  <2>4. QED BY <2>2, <2>3 DEF Ruled, Rules
<1>3. QED BY <1>1, <1>2 DEF Count

LEMMA EditKeepsKeeps ==
  ASSUME Numbered, Keeps, NEW a \in Admins, AddDomainRule(a) \/ RemoveDomainRule(a)
  PROVE  Keeps'
<1>1. UNCHANGED <<file, snap>>
  BY DEF AddDomainRule, RemoveDomainRule
<1>2. Ruled' /\ (DOMAIN rules' # {} => PrefixSet \ Unparsable # {})
  <2>1. CASE AddDomainRule(a)
    <3>1. Addrs # <<>>
      BY <2>1 DEF AddDomainRule
    <3>2. PICK size \in Nat \ {0} : size = Len(Addrs)
      BY <3>1, PoolOfSome
    <3>3. PICK d \in Domains, n \in Counts, s \in Strategies : rules' = With(rules, d, NewRule(d, n, s, size))
      BY <2>1, <3>2 DEF AddDomainRule
    <3>4. NewRule(d, n, s, size) \in Rules
      BY NewRuleIs
    <3>5. /\ DOMAIN rules' = DOMAIN rules \cup {d}
          /\ \A e \in DOMAIN rules' : rules'[e] = NewRule(d, n, s, size) \/ (e \in DOMAIN rules /\ rules'[e] = rules[e])
      BY <3>3 DEF With
    <3>6. \A e \in DOMAIN rules' : rules'[e] \in Rules
      BY <3>4, <3>5 DEF Keeps, Ruled
    <3>7. DOMAIN rules' \subseteq Domains
      BY <3>5 DEF Keeps, Ruled
    <3>8. QED BY <3>1, <3>6, <3>7, PoolOfSome DEF Ruled, Rules
  <2>2. CASE RemoveDomainRule(a)
    <3>1. PICK d \in Domains : rules' = Without(rules, d)
      BY <2>2 DEF RemoveDomainRule
    <3>2. DOMAIN rules' \subseteq DOMAIN rules /\ \A e \in DOMAIN rules' : rules'[e] = rules[e]
      BY <3>1 DEF Without
    <3>3. QED BY <3>2 DEF Keeps, Ruled, Rules
  <2>3. QED BY <2>1, <2>2
<1>3. QED BY <1>1, <1>2 DEF Keeps, Kept, Saves

LEMMA SnapshotKeepsKeeps ==
  ASSUME Keeps, NEW a \in Admins, Snapshot(a)
  PROVE  Keeps'
<1>1. PICK m : m = Brief(rules)
  OBVIOUS
<1>2. snap' = [snap EXCEPT ![a] = m] /\ UNCHANGED <<rules, file>>
  BY <1>1 DEF Snapshot, Brief
<1>3. Kept(m)
  <2>1. DOMAIN m = DOMAIN rules
    BY <1>1 DEF Brief
  <2>2. ASSUME NEW d \in DOMAIN rules PROVE m[d] \in Saves
    <3>1. m[d] = [count |-> rules[d].count, strategy |-> rules[d].strategy]
      BY <1>1 DEF Brief
    <3>2. rules[d].count \in Counts /\ rules[d].strategy \in Strategies
      BY DEF Keeps, Ruled, Rules
    <3>3. QED BY <3>1, <3>2 DEF Saves
  <2>3. QED BY <2>1, <2>2 DEF Kept, Keeps, Ruled
<1>4. /\ snap' = [b \in Admins |-> snap'[b]]
      /\ \A b \in Admins : snap'[b] = m \/ snap'[b] = snap[b]
  BY <1>2 DEF Keeps
<1>5. QED BY <1>2, <1>3, <1>4 DEF Keeps, Kept, Ruled, Rules, Saves

LEMMA WriteKeepsKeeps ==
  ASSUME Keeps, NEW a \in Admins, Write(a)
  PROVE  Keeps'
<1>1. snap' = [snap EXCEPT ![a] = NoRules] /\ UNCHANGED rules
  BY DEF Write
<1>2. file' = snap[a] \/ file' = file \/ file' = Torn
  BY DEF Write
<1>3. /\ snap' = [b \in Admins |-> snap'[b]]
      /\ \A b \in Admins : snap'[b] = NoRules \/ snap'[b] = snap[b]
  BY <1>1 DEF Keeps
<1>4. QED BY <1>1, <1>2, <1>3, NothingIsKept DEF Keeps, Kept, Ruled, Rules, Saves

LEMMA RestartKeepsKeeps == ASSUME Keeps, Restart PROVE Keeps'
<1>1. /\ snap' = [b \in Admins |-> NoRules]
      /\ file' = file \/ file' = Torn
  BY DEF Restart
<1>2. Ruled' /\ (DOMAIN rules' # {} => PrefixSet \ Unparsable # {})
  <2>1. CASE file' = Torn
    <3>1. rules' = NoRules
      BY <2>1 DEF Restart
    <3>2. QED BY <3>1 DEF Ruled, NoRules
  <2>2. CASE file' # Torn
    <3>1. rules' = [d \in DOMAIN file |->
                      NewRule(d, file[d].count, file[d].strategy, Len(Rebuilt(PrefixSet, Boot)))]
      BY <1>1, <2>2 DEF Restart
    <3>2. Kept(file)
      BY <1>1, <2>2 DEF Keeps
    <3>3. ASSUME NEW d \in DOMAIN file PROVE rules'[d] \in Rules
      <4>1. PICK size \in Nat \ {0} : size = Len(Rebuilt(PrefixSet, Boot))
        BY <3>2, BootOfSome DEF Kept
      <4>2. PICK n \in Counts, s \in Strategies : n = file[d].count /\ s = file[d].strategy
        BY <3>2 DEF Kept, Saves
      <4>3. d \in Domains
        BY <3>2 DEF Kept
      <4>4. QED BY <3>1, <4>1, <4>2, <4>3, NewRuleIs
    <3>4. DOMAIN rules' = DOMAIN file
      BY <3>1
    <3>5. QED BY <3>2, <3>3, <3>4 DEF Ruled, Rules, Kept
  <2>3. QED BY <2>1, <2>2
<1>3. QED BY <1>1, <1>2, NothingIsKept DEF Keeps, Kept, Saves

LEMMA KeepsNext == Numbered /\ Keeps /\ [Next]_vars => Keeps'
<1>1. SUFFICES ASSUME Numbered, Keeps, [Next]_vars PROVE Keeps'
  OBVIOUS
<1>2. CASE UNCHANGED <<rules, file, snap>>
  BY <1>1, <1>2 DEF Keeps, Kept, Ruled, Rules, Saves
<1>3. ASSUME NEW f \in Fingerprints, NEW d, ResolveRule(f, d) PROVE Keeps'
  <2>1. d \in DOMAIN rules /\ Count(d) /\ UNCHANGED <<file, snap>>
    BY <1>3 DEF ResolveRule, admin
  <2>2. Ruled' /\ DOMAIN rules' = DOMAIN rules
    BY <1>1, <2>1, CountKeepsRuled DEF Keeps
  <2>3. QED BY <1>1, <2>1, <2>2 DEF Keeps, Kept, Saves
<1>4. CASE \E f \in Fingerprints : RemoveSession(f) \/ \E d \in Domains \cup {NoDomain} : ResolveSticky(f, d)
  BY <1>2, <1>4 DEF RemoveSession, ResolveSticky, admin
<1>5. CASE Cleanup \/ ClearSessions \/ Tick \/ Expand \/ \E p \in PrefixSet : DisablePrefix(p) \/ EnablePrefix(p)
  BY <1>2, <1>5 DEF Cleanup, ClearSessions, Tick, Expand, DisablePrefix, EnablePrefix, admin
<1>6. CASE UNCHANGED vars
  BY <1>2, <1>6 DEF vars, admin
<1>7. CASE Restart
  BY <1>1, <1>7, RestartKeepsKeeps
<1>8. ASSUME NEW a \in Admins, AddDomainRule(a) \/ RemoveDomainRule(a) \/ Snapshot(a) \/ Write(a)
      PROVE  Keeps'
  BY <1>1, <1>8, EditKeepsKeeps, SnapshotKeepsKeeps, WriteKeepsKeeps
<1>9. QED BY <1>1, <1>3, <1>4, <1>5, <1>6, <1>7, <1>8 DEF Next

----
(* Rounds                                                                   *)

\* s is what rule r picked of the addresses A: a stretch of the places it
\* spreads over, up to its last pick's.
Stretch(A, r, s) ==
    \E n \in Nat \ {0} :
        /\ n = IF r.count > Len(A) THEN Len(A) ELSE r.count
        /\ r.strategy = "round_robin" /\ r.counter > 0
        /\ \E o \in 0..n - 1 :
              /\ o + Len(s) - 1 = (r.counter - 1) % n
              /\ \A i \in 1..Len(s) : s[i] = A[((r.start + (o + i - 1)) % Len(A)) + 1]

LEMMA StretchIsInjective ==
  ASSUME NEW S, NEW A \in Seq(S), IsInjective(A), NEW r \in Rules, NEW s \in Seq(S), Stretch(A, r, s)
  PROVE  IsInjective(s)
<1>1. PICK L \in Nat : L = Len(A)
  OBVIOUS
<1>2. r.count \in Nat /\ r.counter \in Nat /\ r.start \in Nat
  BY RuleIs
<1>3. PICK n \in Nat \ {0} :
        /\ n = IF r.count > L THEN L ELSE r.count
        /\ r.counter > 0
        /\ \E o \in 0..n - 1 :
              /\ o + Len(s) - 1 = (r.counter - 1) % n
              /\ \A i \in 1..Len(s) : s[i] = A[((r.start + (o + i - 1)) % L) + 1]
  BY <1>1 DEF Stretch
<1>4. PICK o \in 0..n - 1 :
              /\ o + Len(s) - 1 = (r.counter - 1) % n
              /\ \A i \in 1..Len(s) : s[i] = A[((r.start + (o + i - 1)) % L) + 1]
  BY <1>3
<1>5. n <= L /\ L \in Nat \ {0}
  BY <1>2, <1>3
<1>6. PICK last \in 0..n-1 : last = (r.counter - 1) % n
  <2>1. r.counter - 1 \in Nat
    BY <1>2, <1>3
  <2>2. QED BY <2>1, Division
<1>7. ASSUME NEW i \in 1..Len(s), NEW j \in 1..Len(s), s[i] = s[j]
      PROVE  i = j
  <2>1. PICK k \in Nat : k = Len(s) /\ i <= k /\ j <= k
    OBVIOUS
  <2>2. o + k - 1 <= n - 1
    BY <1>4, <1>6, <2>1
  <2>3. PICK a \in 0..L-1, b \in 0..L-1 : a = o + i - 1 /\ b = o + j - 1
    BY <1>5, <2>1, <2>2
  <2>4. PICK v \in 1..L, w \in 1..L : v = ((r.start + a) % L) + 1 /\ w = ((r.start + b) % L) + 1
    <3>1. r.start + a \in Nat /\ r.start + b \in Nat
      BY <1>2
    <3>2. PICK x \in 0..L-1 : x = (r.start + a) % L
      BY <1>5, <3>1, Division
    <3>3. PICK y \in 0..L-1 : y = (r.start + b) % L
      BY <1>5, <3>1, Division
    <3>4. x + 1 \in 1..L /\ y + 1 \in 1..L
      BY <1>5
    <3>5. QED BY <3>2, <3>3, <3>4
  <2>5. A[v] = A[w]
    BY <1>4, <1>7, <2>3, <2>4
  <2>6. v = w
    BY <1>1, <2>5 DEF IsInjective
  <2>7. (r.start + a) % L = (r.start + b) % L
    <3>1. PICK x \in 0..L-1, y \in 0..L-1 : x = (r.start + a) % L /\ y = (r.start + b) % L
      <4>1. r.start + a \in Nat /\ r.start + b \in Nat
        BY <1>2
      <4>2. QED BY <1>5, <4>1, Division
    <3>2. x + 1 = y + 1
      BY <2>4, <2>6, <3>1
    <3>3. QED BY <3>1, <3>2
  <2>8. a = b
    BY <1>2, <1>5, <2>7, SameRemainder
  <2>9. QED BY <2>3, <2>8
<1>8. QED BY <1>7 DEF IsInjective

\* Rule r, having picked s of A, picks once more: it is q then, and t is picked.
PicksOn(A, r, s, q, t) ==
    \E n \in Nat \ {0} : \E o, x :
        /\ n = IF r.count > Len(A) THEN Len(A) ELSE r.count
        /\ r.strategy = "round_robin"
        /\ o = r.counter % n
        /\ x = A[((r.start + o) % Len(A)) + 1]
        /\ q = [r EXCEPT !.counter = r.counter + 1]
        /\ t = IF o = 0 THEN <<x>> ELSE Append(s, x)

(* The next pick begins a stretch, or carries on with the one there is.     *)
LEMMA StretchGoesOn ==
  ASSUME NEW S, NEW A \in Seq(S), NEW r \in Rules, NEW q \in Rules, NEW s \in Seq(S), NEW t \in Seq(S),
         s # <<>> => Stretch(A, r, s), PicksOn(A, r, s, q, t)
  PROVE  Stretch(A, q, t)
<1>00. PICK n \in Nat \ {0} : \E o, x :
        /\ n = IF r.count > Len(A) THEN Len(A) ELSE r.count
        /\ r.strategy = "round_robin"
        /\ o = r.counter % n
        /\ x = A[((r.start + o) % Len(A)) + 1]
        /\ q = [r EXCEPT !.counter = r.counter + 1]
        /\ t = IF o = 0 THEN <<x>> ELSE Append(s, x)
  BY DEF PicksOn
<1>0. PICK o, x :
        /\ n = IF r.count > Len(A) THEN Len(A) ELSE r.count
        /\ r.strategy = "round_robin"
        /\ o = r.counter % n
        /\ x = A[((r.start + o) % Len(A)) + 1]
        /\ q = [r EXCEPT !.counter = r.counter + 1]
        /\ t = IF o = 0 THEN <<x>> ELSE Append(s, x)
  BY <1>00
<1>1. r.count \in Nat /\ r.counter \in Nat /\ r.start \in Nat
  BY RuleIs
<1>2. q.count = r.count /\ q.strategy = r.strategy /\ q.start = r.start /\ q.counter = r.counter + 1
  BY <1>0 DEF Rules
<1>3. o \in 0..n-1
  BY <1>0, <1>1, Division
<1>4. q.counter > 0 /\ q.counter - 1 = r.counter
  BY <1>1, <1>2
<1>5. CASE o = 0 \/ s = <<>>
  <2>1. t = <<x>>
    <3>1. Append(<<>>, x) = <<x>>
      OBVIOUS
    <3>2. QED BY <1>0, <1>5, <3>1
  <2>2. Len(t) = 1 /\ t[1] = x
    BY <2>1
  <2>3. o + Len(t) - 1 = (q.counter - 1) % n
    <3>1. o + Len(t) - 1 = o
      BY <1>3, <2>2
    <3>2. QED BY <1>0, <1>4, <3>1
  <2>4. \A i \in 1..Len(t) : t[i] = A[((q.start + (o + i - 1)) % Len(A)) + 1]
    <3>1. TAKE i \in 1..Len(t)
    <3>2. i = 1 /\ o + i - 1 = o
      BY <1>3, <2>2
    <3>3. QED BY <1>0, <1>2, <2>2, <3>2
  <2>5. Stretch(A, q, t)
    <3>1. \E p \in 0..n - 1 :
              /\ p + Len(t) - 1 = (q.counter - 1) % n
              /\ \A i \in 1..Len(t) : t[i] = A[((q.start + (p + i - 1)) % Len(A)) + 1]
      BY <1>3, <2>3, <2>4
    <3>2. n = (IF q.count > Len(A) THEN Len(A) ELSE q.count) /\ q.strategy = "round_robin"
      BY <1>0, <1>2
    <3>3. QED BY <1>4, <3>1, <3>2 DEF Stretch
  <2>6. QED BY <2>5
<1>6. CASE o # 0 /\ s # <<>>
  <2>0. r.counter > 0
    BY <1>6 DEF Stretch
  <2>1. \E p \in 0..n - 1 :
              /\ p + Len(s) - 1 = (r.counter - 1) % n
              /\ \A i \in 1..Len(s) : s[i] = A[((r.start + (p + i - 1)) % Len(A)) + 1]
    BY <1>0, <1>6 DEF Stretch
  <2>2. PICK p \in 0..n - 1 :
              /\ p + Len(s) - 1 = (r.counter - 1) % n
              /\ \A i \in 1..Len(s) : s[i] = A[((r.start + (p + i - 1)) % Len(A)) + 1]
    BY <2>1
  <2>3. PICK c \in Nat : r.counter = c + 1
    <3>1. PICK v \in Nat : v = r.counter
      BY <1>1
    <3>2. v - 1 \in Nat /\ v = (v - 1) + 1
      BY <2>0, <3>1
    <3>3. QED BY <3>1, <3>2
  <2>4. (c + 1) % n = (c % n) + 1
    BY <1>0, <1>6, <2>3, NextRemainder
  <2>5. PICK k \in Nat : k = Len(s)
    OBVIOUS
  <2>6. PICK m \in 0..n-1 : m = c % n
    BY Division
  <2>7. p + k - 1 = m /\ o = m + 1
    BY <1>0, <2>2, <2>3, <2>4, <2>5, <2>6
  <2>8. o = p + k
    BY <2>7
  <2>9. t = Append(s, x) /\ x = t[Len(s) + 1]
    BY <1>0, <1>6
  <2>10. Len(t) = k + 1 /\ t[k + 1] = x /\ \A i \in 1..k : t[i] = s[i]
    BY <2>5, <2>9
  <2>11. p + Len(t) - 1 = (q.counter - 1) % n
    <3>1. p + Len(t) - 1 = o
      BY <2>8, <2>10
    <3>2. QED BY <1>0, <1>4, <3>1
  <2>12. \A i \in 1..Len(t) : t[i] = A[((q.start + (p + i - 1)) % Len(A)) + 1]
    <3>1. TAKE i \in 1..Len(t)
    <3>2. CASE i = k + 1
      <4>1. p + i - 1 = o
        BY <2>8, <3>2
      <4>2. QED BY <1>0, <1>2, <2>10, <3>2, <4>1
    <3>3. CASE i \in 1..k
      BY <1>2, <2>2, <2>5, <2>10, <3>3
    <3>4. QED BY <2>10, <3>2, <3>3
  <2>13. Stretch(A, q, t)
    BY <1>0, <1>2, <1>4, <2>11, <2>12 DEF Stretch
  <2>14. QED BY <2>13
<1>7. QED BY <1>5, <1>6

\* Every round is a stretch of the addresses there are, under the rule there is.
Rounds ==
    /\ round \in [Domains -> Seq(PrefixSet \X Nat)]
    /\ \A d \in Domains : \A A, r, s :
          round[d] # <<>> /\ A = Addrs /\ r = rules[d] /\ s = round[d] =>
              d \in DOMAIN rules /\ Stretch(A, r, s)

LEMMA SamePoolSameAddrs == UNCHANGED pool => Addrs' = Addrs
  BY DEF pool, Addrs, Rebuilt, AddrsOf, Address

\* Rounds go on while the pool and the rules stay, or begin anew with the pool.
LEMMA SameRounds ==
  ASSUME Rounds, UNCHANGED rules, UNCHANGED round \/ round' = [d \in Domains |-> <<>>],
         UNCHANGED round => Addrs' = Addrs \/ \A d \in Domains : round[d] = <<>>
  PROVE  Rounds'
<1>1. CASE round' = [d \in Domains |-> <<>>]
  <2>1. round' \in [Domains -> Seq(PrefixSet \X Nat)] /\ \A d \in Domains : round'[d] = <<>>
    BY <1>1
  <2>2. QED BY <2>1 DEF Rounds
<1>2. CASE UNCHANGED round
  BY <1>2 DEF Rounds
<1>3. QED BY <1>1, <1>2

LEMMA NewRoundsKeep ==
  ASSUME Rounds, NewRounds(enabled', hosts'), UNCHANGED rules
  PROVE  Rounds'
<1>1. Addrs' = Rebuilt(enabled', hosts')
  BY DEF Addrs, Rebuilt, AddrsOf, Address
<1>2. round' = IF Rebuilt(enabled', hosts') = Addrs THEN round ELSE [d \in Domains |-> <<>>]
  BY DEF NewRounds
<1>3. CASE Addrs' = Addrs
  BY <1>1, <1>2, <1>3, SameRounds
<1>4. CASE Addrs' # Addrs
  <2>1. round' = [d \in Domains |-> <<>>]
    BY <1>1, <1>2, <1>4
  <2>2. round' \in [Domains -> Seq(PrefixSet \X Nat)] /\ \A d \in Domains : round'[d] = <<>>
    BY <2>1
  <2>3. QED BY <2>2 DEF Rounds
<1>5. QED BY <1>3, <1>4

\* A rule that can pick picks; one that cannot has no round.
LEMMA RuleKeepsRounds ==
  ASSUME Numbered, Ruled, Rounds, NEW f \in Fingerprints, NEW d, ResolveRule(f, d)
  PROVE  Rounds'
<1>1. d \in DOMAIN rules /\ d \in Domains /\ Count(d) /\ UNCHANGED pool
  BY DEF ResolveRule, Ruled
<1>2. PICK A \in Seq(PrefixSet \X Nat) : A = Addrs /\ A = Addrs'
  BY <1>1, AddrsIs, SamePoolSameAddrs
<1>3. PICK r \in Rules : r = rules[d]
  BY <1>1 DEF Ruled
<1>4. PICK s \in Seq(PrefixSet \X Nat) : s = round[d] /\ (s # <<>> => Stretch(A, r, s))
  <2>1. round[d] \in Seq(PrefixSet \X Nat)
    BY <1>1 DEF Rounds
  <2>2. QED BY <1>1, <1>2, <1>3, <2>1 DEF Rounds
<1>5. PICK n \in Nat : n = Spread(r) /\ n = IF r.count > Len(A) THEN Len(A) ELSE r.count
  <2>1. Spread(r) = IF r.count > Len(A) THEN Len(A) ELSE r.count
    BY <1>2 DEF Spread
  <2>2. Len(A) \in Nat /\ r.count \in Nat
    BY RuleIs
  <2>3. QED BY <2>1, <2>2
<1>6. DOMAIN rules' = DOMAIN rules /\ \A e \in DOMAIN rules \ {d} : rules'[e] = rules[e]
  <2>1. CASE UNCHANGED rules
    BY <2>1
  <2>2. CASE rules' = [rules EXCEPT ![d].counter = @ + 1]
    BY <2>2
  <2>3. QED BY <1>1, <2>1, <2>2 DEF Count
<1>7. CASE r.strategy # "round_robin" /\ UNCHANGED <<rules, round>>
  BY <1>2, <1>7, SameRounds
<1>8. CASE r.strategy = "round_robin" /\ Offsets(r) = {} /\ UNCHANGED round
  <2>1. s = <<>>
    <3>1. SUFFICES ASSUME s # <<>> PROVE FALSE
      OBVIOUS
    <3>2. n # 0
      BY <1>4, <1>5, <3>1 DEF Stretch
    <3>3. Len(A) # 0
      BY <1>5, <3>2, RuleIs
    <3>4. r.counter % n \in Offsets(r)
      BY <1>2, <1>5, <1>8, <3>2, <3>3 DEF Offsets
    <3>5. QED BY <1>8, <3>4
  <2>2. round'[d] = <<>> /\ round' \in [Domains -> Seq(PrefixSet \X Nat)]
    BY <1>4, <1>8, <2>1 DEF Rounds
  <2>3. ASSUME NEW e \in Domains, round'[e] # <<>>
        PROVE  e # d /\ rules'[e] = rules[e] /\ round'[e] = round[e] /\ e \in DOMAIN rules'
    BY <1>6, <1>8, <2>2, <2>3 DEF Rounds
  <2>4. ASSUME NEW e \in Domains, NEW B, NEW q, NEW t,
               round'[e] # <<>> /\ B = Addrs' /\ q = rules'[e] /\ t = round'[e]
        PROVE  e \in DOMAIN rules' /\ Stretch(B, q, t)
    BY <1>2, <2>3, <2>4 DEF Rounds
  <2>5. QED BY <2>2, <2>4 DEF Rounds
<1>9. ASSUME r.strategy = "round_robin", NEW o \in Offsets(r),
             round' = [round EXCEPT ![d] = IF o = 0 THEN <<Nth(r.start + o)>> ELSE Append(@, Nth(r.start + o))]
      PROVE  Rounds'
  <2>1. n # 0 /\ o = r.counter % n
    BY <1>5, <1>9 DEF Offsets
  <2>2. r.start + o \in Nat /\ Len(Addrs) # 0
    BY OffsetsAre
  <2>3. PICK x \in PrefixSet \X Nat : x = Nth(r.start + o)
    BY <2>2, NthIs
  <2>4. x = A[((r.start + o) % Len(A)) + 1]
    BY <1>2, <2>3 DEF Nth
  <2>5. PICK t : t = IF o = 0 THEN <<x>> ELSE Append(s, x)
    OBVIOUS
  <2>6. rules' = [rules EXCEPT ![d].counter = @ + 1] /\ rules[d].counter < MaxPicks
    BY <1>1, <1>3, <1>9 DEF Count
  <2>7. PICK q : q = [r EXCEPT !.counter = r.counter + 1]
    OBVIOUS
  <2>8. rules'[d] = q
    BY <1>1, <1>3, <2>6, <2>7
  <2>9. q \in Rules
    <3>1. Ruled'
      BY <1>1, CountKeepsRuled
    <3>2. rules'[d] \in Rules
      BY <1>1, <1>6, <3>1 DEF Ruled, Rules
    <3>3. QED BY <2>8, <3>2
  <2>10. t \in Seq(PrefixSet \X Nat) /\ Stretch(A, q, t)
    <3>1. PICK S : S = PrefixSet \X Nat
      OBVIOUS
    <3>2. A \in Seq(S) /\ s \in Seq(S) /\ x \in S /\ n \in Nat \ {0}
      BY <2>1, <3>1
    <3>3. <<x>> \in Seq(S) /\ Append(s, x) \in Seq(S)
      BY <3>2
    <3>4. t \in Seq(S)
      BY <2>5, <3>3
    <3>5. PicksOn(A, r, s, q, t)
      BY <1>5, <1>9, <2>1, <2>4, <2>5, <2>7, <3>2 DEF PicksOn
    <3>6. Stretch(A, q, t)
      BY <1>4, <2>9, <3>2, <3>4, <3>5, StretchGoesOn
    <3>7. QED BY <3>1, <3>4, <3>6
  <2>11. round' = [round EXCEPT ![d] = t]
    BY <1>4, <1>9, <2>3, <2>5
  <2>12. round' \in [Domains -> Seq(PrefixSet \X Nat)] /\ round'[d] = t /\ \A e \in Domains \ {d} : round'[e] = round[e]
    BY <1>1, <2>10, <2>11 DEF Rounds
  <2>13. ASSUME NEW e \in Domains, NEW B, NEW p, NEW u,
                round'[e] # <<>> /\ B = Addrs' /\ p = rules'[e] /\ u = round'[e]
         PROVE  e \in DOMAIN rules' /\ Stretch(B, p, u)
    <3>1. CASE e = d
      BY <1>1, <1>2, <1>6, <2>8, <2>10, <2>12, <2>13, <3>1
    <3>2. CASE e # d
      BY <1>2, <1>6, <2>12, <2>13, <3>2 DEF Rounds
    <3>3. QED BY <3>1, <3>2
  <2>14. QED BY <2>12, <2>13 DEF Rounds
<1>10. \/ r.strategy # "round_robin" /\ UNCHANGED <<rules, round>>
       \/ r.strategy = "round_robin" /\ Offsets(r) = {} /\ UNCHANGED round
       \/ r.strategy = "round_robin" /\ \E o \in Offsets(r) :
             round' = [round EXCEPT ![d] = IF o = 0 THEN <<Nth(r.start + o)>> ELSE Append(@, Nth(r.start + o))]
  BY <1>3 DEF ResolveRule, Count
<1>11. QED BY <1>7, <1>8, <1>9, <1>10

LEMMA RoundsNext == Numbered /\ Ruled /\ Rounds /\ [Next]_vars => Rounds'
<1>1. SUFFICES ASSUME Numbered, Ruled, Rounds, [Next]_vars PROVE Rounds'
  OBVIOUS
<1>2. CASE UNCHANGED <<pool, rules, round>>
  BY <1>1, <1>2, SamePoolSameAddrs, SameRounds
<1>3. ASSUME NEW f \in Fingerprints, NEW d, ResolveRule(f, d) PROVE Rounds'
  BY <1>1, <1>3, RuleKeepsRounds
<1>4. CASE \E f \in Fingerprints : RemoveSession(f) \/ \E d \in Domains \cup {NoDomain} : ResolveSticky(f, d)
  BY <1>2, <1>4 DEF RemoveSession, ResolveSticky
<1>5. CASE Cleanup \/ ClearSessions \/ Tick \/ UNCHANGED vars
  BY <1>2, <1>5 DEF Cleanup, ClearSessions, Tick, vars
<1>6. ASSUME NEW p \in PrefixSet, DisablePrefix(p) \/ EnablePrefix(p) PROVE Rounds'
  <2>1. NewRounds(enabled', hosts) /\ hosts' = hosts /\ UNCHANGED rules
    BY <1>6 DEF DisablePrefix, EnablePrefix
  <2>2. NewRounds(enabled', hosts')
    BY <2>1 DEF NewRounds
  <2>3. QED BY <1>1, <2>1, <2>2, NewRoundsKeep
<1>7. CASE Expand
  <2>1. NewRounds(enabled, hosts') /\ enabled' = enabled /\ UNCHANGED rules
    BY <1>7 DEF Expand
  <2>2. NewRounds(enabled', hosts')
    BY <2>1 DEF NewRounds
  <2>3. QED BY <1>1, <2>1, <2>2, NewRoundsKeep
<1>8. CASE Restart
  <2>1. round' = [d \in Domains |-> <<>>]
    BY <1>8 DEF Restart
  <2>2. round' \in [Domains -> Seq(PrefixSet \X Nat)] /\ \A d \in Domains : round'[d] = <<>>
    BY <2>1
  <2>3. QED BY <2>2 DEF Rounds
<1>9. ASSUME NEW a \in Admins, AddDomainRule(a) \/ RemoveDomainRule(a) PROVE Rounds'
  <2>1. UNCHANGED pool
    BY <1>9 DEF AddDomainRule, RemoveDomainRule
  <2>2. PICK d \in Domains :
           /\ round' = [round EXCEPT ![d] = <<>>]
           /\ \A e \in DOMAIN rules \ {d} : e \in DOMAIN rules' /\ rules'[e] = rules[e]
    <3>1. CASE AddDomainRule(a)
      <4>1. PICK d \in Domains, n \in Counts, s \in Strategies :
               /\ rules' = With(rules, d, NewRule(d, n, s, Len(Addrs)))
               /\ round' = [round EXCEPT ![d] = <<>>]
        BY <3>1 DEF AddDomainRule
      <4>2. QED BY <4>1 DEF With
    <3>2. CASE RemoveDomainRule(a)
      <4>1. PICK d \in Domains : rules' = Without(rules, d) /\ round' = [round EXCEPT ![d] = <<>>]
        BY <3>2 DEF RemoveDomainRule
      <4>2. QED BY <4>1 DEF Without
    <3>3. QED BY <1>9, <3>1, <3>2
  <2>3. /\ round' \in [Domains -> Seq(PrefixSet \X Nat)]
        /\ round'[d] = <<>> /\ \A e \in Domains \ {d} : round'[e] = round[e]
    BY <1>1, <2>2 DEF Rounds
  <2>4. Addrs' = Addrs
    BY <2>1, SamePoolSameAddrs
  <2>5. ASSUME NEW e \in Domains, NEW B, NEW p, NEW u,
               round'[e] # <<>> /\ B = Addrs' /\ p = rules'[e] /\ u = round'[e]
        PROVE  e \in DOMAIN rules' /\ Stretch(B, p, u)
    <3>1. e # d /\ round'[e] = round[e] /\ round[e] # <<>>
      BY <2>3, <2>5
    <3>2. e \in DOMAIN rules \ {d}
      BY <1>1, <3>1 DEF Rounds
    <3>3. rules'[e] = rules[e] /\ e \in DOMAIN rules'
      BY <2>2, <3>2
    <3>4. QED BY <1>1, <2>4, <2>5, <3>1, <3>3 DEF Rounds
  <2>6. QED BY <2>3, <2>5 DEF Rounds
<1>10. ASSUME NEW a \in Admins, Snapshot(a) \/ Write(a) PROVE Rounds'
  BY <1>2, <1>10 DEF Snapshot, Write
<1>11. QED BY <1>1, <1>3, <1>4, <1>5, <1>6, <1>7, <1>8, <1>9, <1>10 DEF Next

----
(* Theorems                                                                 *)

\* The rest of the types.
Plain ==
    /\ age \in [Fingerprints -> 0..TTL + 1]
    /\ apc \in [Admins -> {"idle", "snapshot", "write"}]
    /\ saved \in BOOLEAN

LEMMA ForgetKeepsAge ==
  ASSUME NEW F, Forget(F), age \in [Fingerprints -> 0..TTL + 1]
  PROVE  age' \in [Fingerprints -> 0..TTL + 1]
<1>1. TTL \in Nat
  BY PoolConstants
<1>2. QED BY <1>1 DEF Forget

LEMMA PlainNext == Plain /\ [Next]_vars => Plain'
<1>1. SUFFICES ASSUME Plain, [Next]_vars PROVE Plain'
  OBVIOUS
<1>2. TTL \in Nat /\ 0 \in 0..TTL + 1
  BY PoolConstants
<1>3. CASE UNCHANGED vars
  BY <1>1, <1>3 DEF Plain, vars, sessions, admin
<1>4. ASSUME NEW f \in Fingerprints, NEW d, ResolveRule(f, d) \/ ResolveSticky(f, d) PROVE Plain'
  <2>1. UNCHANGED admin /\ (UNCHANGED age \/ age' = [age EXCEPT ![f] = 0])
    BY <1>4 DEF ResolveRule, ResolveSticky, sessions
  <2>2. QED BY <1>1, <1>2, <2>1 DEF Plain, admin
<1>5. ASSUME NEW f \in Fingerprints, RemoveSession(f) PROVE Plain'
  <2>1. Forget({f}) /\ UNCHANGED admin
    BY <1>5 DEF RemoveSession
  <2>2. QED BY <1>1, <2>1, ForgetKeepsAge DEF Plain, admin
<1>6. CASE Cleanup
  <2>1. Forget({f \in Fingerprints : Expired(f)}) /\ UNCHANGED admin
    BY <1>6 DEF Cleanup
  <2>2. QED BY <1>1, <2>1, ForgetKeepsAge DEF Plain, admin
<1>7. CASE ClearSessions
  <2>1. Forget(Fingerprints) /\ UNCHANGED admin
    BY <1>7 DEF ClearSessions
  <2>2. QED BY <1>1, <2>1, ForgetKeepsAge DEF Plain, admin
<1>8. CASE Tick
  <2>1. TTL > 0 /\ UNCHANGED admin
        /\ age' = [f \in Fingerprints |-> IF exit[f] # NoExit /\ ~Expired(f) THEN age[f] + 1 ELSE age[f]]
    BY <1>8 DEF Tick
  <2>2. ASSUME NEW f \in Fingerprints
        PROVE  (IF exit[f] # NoExit /\ ~Expired(f) THEN age[f] + 1 ELSE age[f]) \in 0..TTL + 1
    <3>1. age[f] \in 0..TTL + 1
      BY <1>1 DEF Plain
    <3>2. CASE ~Expired(f)
      <4>1. age[f] <= TTL
        BY <1>2, <2>1, <3>1, <3>2 DEF Expired
      <4>2. QED BY <1>2, <3>1, <4>1
    <3>3. QED BY <3>1, <3>2
  <2>3. age' \in [Fingerprints -> 0..TTL + 1]
    BY <2>1, <2>2
  <2>4. QED BY <1>1, <2>1, <2>3 DEF Plain, admin
<1>9. CASE Expand \/ \E p \in PrefixSet : EnablePrefix(p)
  BY <1>1, <1>9 DEF Expand, EnablePrefix, Plain, sessions, admin
<1>10. ASSUME NEW p \in PrefixSet, DisablePrefix(p) PROVE Plain'
  <2>1. Forget({f \in Fingerprints : exit[f] \in Range(AddrsOf(p, hosts))}) /\ UNCHANGED admin
    BY <1>10 DEF DisablePrefix
  <2>2. QED BY <1>1, <2>1, ForgetKeepsAge DEF Plain, admin
<1>11. CASE Restart
  BY <1>1, <1>2, <1>11 DEF Restart, Plain
<1>12. ASSUME NEW a \in Admins, AddDomainRule(a) \/ RemoveDomainRule(a) PROVE Plain'
  BY <1>1, <1>12 DEF AddDomainRule, RemoveDomainRule, Plain, Goto, sessions
<1>13. ASSUME NEW a \in Admins, Snapshot(a) \/ Write(a) PROVE Plain'
  BY <1>1, <1>13 DEF Snapshot, Write, Plain, Goto, sessions
<1>14. QED BY <1>1, <1>3, <1>4, <1>5, <1>6, <1>7, <1>8, <1>9, <1>10, <1>11, <1>12, <1>13 DEF Next

PoolInv == Numbered /\ Exits /\ Keeps /\ Rounds /\ Plain

LEMMA PoolInvInit == Init => PoolInv
<1>1. SUFFICES ASSUME Init PROVE PoolInv
  OBVIOUS
<1>2. Numbered
  BY <1>1, NumberedInit
<1>3. Exits
  <2>1. exit = NoSessions
    BY <1>1 DEF Init
  <2>2. QED BY <2>1 DEF NoSessions, Exits
<1>4. Keeps
  <2>1. rules = NoRules /\ file = NoRules /\ snap = [a \in Admins |-> NoRules]
    BY <1>1 DEF Init
  <2>2. Ruled /\ DOMAIN rules = {}
    BY <2>1 DEF Ruled, NoRules
  <2>3. QED BY <2>1, <2>2, NothingIsKept DEF Keeps
<1>5. Rounds
  <2>1. round = [d \in Domains |-> <<>>]
    BY <1>1 DEF Init
  <2>2. QED BY <2>1 DEF Rounds
<1>6. Plain
  <2>1. TTL \in Nat /\ 0 \in 0..TTL + 1
    BY PoolConstants
  <2>2. QED BY <1>1, <2>1 DEF Init, Plain
<1>7. QED BY <1>2, <1>3, <1>4, <1>5, <1>6 DEF PoolInv

LEMMA PoolInvHolds == Spec => []PoolInv
<1>1. PoolInv /\ [Next]_vars => PoolInv'
  BY NumberedNext, ExitsNext, KeepsNext, RoundsNext, PlainNext DEF PoolInv, Keeps
<1>2. QED BY PoolInvInit, <1>1, PTL DEF Spec

(* However often prefixes are toggled and the pool is expanded, a /128      *)
(* stays one address, no address is numbered twice, counts are right, and   *)
(* sessions, rules and files are what they should be.                       *)
THEOREM TypesHold == Spec => []TypeOK
<1>1. PoolInv => TypeOK
  <2>1. SUFFICES ASSUME PoolInv PROVE TypeOK
    OBVIOUS
  <2>2. ASSUME NEW p \in PrefixSet
        PROVE  /\ count[p] \in Nat /\ \A j \in 1..Len(hosts[p]) : hosts[p][j] \in Nat
               /\ p \in Single => count[p] = 1 /\ hosts[p] = <<0>>
               /\ IsInjective(hosts[p])
               /\ IF p \in Unparsable THEN hosts[p] = <<>> ELSE Len(hosts[p]) = count[p]
    <3>1. PICK c \in Nat : c = count[p] /\ (p \in Single => c = 1) /\ hosts[p] = Numbers(p, c)
      BY <2>1 DEF PoolInv, Numbered
    <3>2. PICK h \in Seq(Nat) : h = hosts[p] /\ h = Numbers(p, c) /\ IsInjective(h)
      BY <3>1, NumbersAre
    <3>3. p \in Single => h = <<0>> /\ p \notin Unparsable
      BY <3>2, PoolConstants DEF Numbers
    <3>4. p \in Unparsable => h = <<>>
      BY <3>2, <3>3 DEF Numbers
    <3>5. p \notin Single /\ p \notin Unparsable => Len(h) = c
      BY <3>2 DEF Numbers
    <3>6. \A j \in 1..Len(h) : h[j] \in Nat
      BY <3>2
    <3>7. IF p \in Unparsable THEN h = <<>> ELSE Len(h) = count[p]
      <4>1. CASE p \in Single
        BY <3>1, <3>3, <4>1
      <4>2. CASE p \notin Single
        BY <3>1, <3>4, <3>5, <4>2
      <4>3. QED BY <4>1, <4>2
    <3>8. QED BY <3>1, <3>2, <3>3, <3>6, <3>7
  <2>3. enabled \subseteq PrefixSet
    BY <2>1 DEF PoolInv, Numbered
  <2>4. \A f \in Fingerprints : exit[f] = NoExit \/ Of(exit[f]) \in PrefixSet
    BY <2>1 DEF PoolInv, Exits, Of
  <2>5. DOMAIN rules \subseteq Domains /\ \A d \in DOMAIN rules : rules[d] \in Rules
    BY <2>1 DEF PoolInv, Keeps, Ruled
  <2>6. file = Torn \/ (DOMAIN file \subseteq Domains /\ \A d \in DOMAIN file : file[d] \in Saves)
    BY <2>1 DEF PoolInv, Keeps, Kept
  <2>7. QED BY <2>1, <2>2, <2>3, <2>4, <2>5, <2>6 DEF PoolInv, Plain, TypeOK
<1>2. QED BY PoolInvHolds, <1>1, PTL

(* No session leaves through a disabled prefix, whatever rules, expiries,   *)
(* expansions and toggles came before.                                      *)
THEOREM NoneThroughDisabled == Spec => []SessionsOnEnabled
<1>1. PoolInv => SessionsOnEnabled
  BY DEF PoolInv, Exits, SessionsOnEnabled, Of, Address
<1>2. QED BY PoolInvHolds, <1>1, PTL

(* A round-robin rule gives each address its turn before any comes again,   *)
(* for any pool, count and start.                                           *)
THEOREM RoundsAreFair == Spec => []RoundRobinFair
<1>1. PoolInv => RoundRobinFair
  <2>1. SUFFICES ASSUME PoolInv, NEW d \in Domains PROVE IsInjective(round[d])
    BY DEF RoundRobinFair
  <2>2. PICK A \in Seq(PrefixSet \X Nat) : A = Addrs /\ IsInjective(A)
    BY <2>1, AddrsIs DEF PoolInv
  <2>3. PICK s \in Seq(PrefixSet \X Nat) : s = round[d]
    BY <2>1 DEF PoolInv, Rounds
  <2>4. CASE s = <<>>
    <3>1. IsInjective(<<>>)
      BY DEF IsInjective
    <3>2. QED BY <2>3, <2>4, <3>1
  <2>5. CASE s # <<>>
    <3>1. d \in DOMAIN rules /\ Stretch(A, rules[d], s)
      BY <2>1, <2>2, <2>3, <2>5 DEF PoolInv, Rounds
    <3>2. PICK r \in Rules : r = rules[d]
      BY <2>1, <3>1 DEF PoolInv, Keeps, Ruled
    <3>3. QED BY <2>2, <2>3, <3>1, <3>2, StretchIsInjective
  <2>6. QED BY <2>4, <2>5
<1>2. QED BY PoolInvHolds, <1>1, PTL
====

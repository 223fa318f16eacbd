---- MODULE AdminPanelProofs ----
(* Proofs about IPBan and AdminPanel, for any number of addresses, requests *)
(* and tokens and any threshold, window and life of a token.                *)
EXTENDS AdminPanel, TLAPS, FiniteSetTheorems

(* Why ThresholdRefuses holds: the ban is at least as young as the failure  *)
(* that reached the threshold, so it cannot run out before that failure     *)
(* leaves the window.                                                       *)
BanCovers == \A i \in IPs, a \in Young :
                failures[i][a] >= Threshold => i \notin whitelist /\ banned[i] \in 0..a

BanInv == BanTypeOK /\ BanCovers /\ WhitelistClean

LEMMA AgesFacts ==
    /\ Window \in Ages /\ 0 \in Ages /\ 0 \in Young /\ Window - 1 \in Young
    /\ Young \subseteq Ages /\ Ages \subseteq Nat
    /\ \A a \in Ages : a # Window => a \in Young
    /\ \A a \in Ages : a # 0 => a - 1 \in Young
    /\ \A a \in Young : a + 1 \in Ages /\ a # Window /\ a <= Window - 1 /\ 0..a \subseteq 0..Window
    /\ 0 \in 0..Expired /\ 0..Window \subseteq 0..Expired
    /\ Never \notin 0..Expired /\ Threshold > 0
  BY BanConstants DEF Ages, Young, Expired

LEMMA InitBan == BanInit => BanInv
<1> SUFFICES ASSUME BanInit PROVE BanInv
  OBVIOUS
<1> USE AgesFacts DEF BanInit
<1>1. BanTypeOK
  BY DEF BanTypeOK, NoFailures, NoTries
<1>2. BanCovers
  BY BanConstants DEF BanCovers, NoFailures
<1>3. WhitelistClean
  BY DEF WhitelistClean
<1>4. QED BY <1>1, <1>2, <1>3 DEF BanInv

----
(* The steps                                                                *)

LEMMA PardonKeeps ==
    ASSUME NEW i \in IPs, Pardon(i), BanInv,
           whitelist' = whitelist \/ whitelist' = whitelist \cup {i}
    PROVE  BanInv'
<1> USE AgesFacts DEF BanInv, Pardon
<1>1. BanTypeOK'
  BY DEF BanTypeOK, NoFailures, NoTries
<1>2. BanCovers'
  <2> SUFFICES ASSUME NEW j \in IPs, NEW a \in Young, failures'[j][a] >= Threshold
               PROVE  j \notin whitelist' /\ banned'[j] \in 0..a
    BY DEF BanCovers
  <2>1. j # i
    BY BanConstants DEF BanTypeOK, NoFailures
  <2>2. QED BY <2>1 DEF BanCovers, BanTypeOK
<1>3. WhitelistClean'
  BY DEF WhitelistClean, BanTypeOK
<1>4. QED BY <1>1, <1>2, <1>3

LEMMA IsBannedKeeps == ASSUME NEW i \in IPs, IsBanned(i), BanInv PROVE BanInv'
<1> USE AgesFacts DEF BanInv, IsBanned
<1>1. CASE i \notin whitelist /\ banned[i] = Expired
  <2>1. /\ failures' = [failures EXCEPT ![i] = NoFailures]
        /\ banned' = [banned EXCEPT ![i] = Never]
    BY <1>1 DEF BanTypeOK
  <2>2. BanTypeOK'
    BY <2>1 DEF BanTypeOK, NoFailures
  <2>3. BanCovers'
    BY <2>1, BanConstants DEF BanTypeOK, BanCovers, NoFailures
  <2>4. WhitelistClean'
    BY <2>1 DEF BanTypeOK, WhitelistClean
  <2>5. QED BY <2>2, <2>3, <2>4
<1>2. CASE ~(i \notin whitelist /\ banned[i] = Expired)
  <2>1. UNCHANGED banVars
    BY <1>2 DEF BanTypeOK, banVars
  <2>2. QED BY <2>1 DEF banVars, BanTypeOK, BanCovers, WhitelistClean
<1>3. QED BY <1>1, <1>2

LEMMA RecordingKeeps == ASSUME NEW i \in IPs, RecordFailure(i), BanInv PROVE BanInv'
<1> USE AgesFacts DEF BanInv
<1>1. CASE i \in whitelist
  BY <1>1 DEF RecordFailure, BanTypeOK, BanCovers, WhitelistClean
<1>2. CASE i \notin whitelist
  <2>1. /\ failures' = [failures EXCEPT ![i] = Longer(i)]
        /\ banned' = [banned EXCEPT ![i] = IF Recent(i) + 1 >= Threshold THEN 0 ELSE @]
        /\ Tried(i)
        /\ whitelist' = whitelist
    BY <1>2 DEF RecordFailure
  <2>2. /\ Longer(i) \in [Ages -> Nat]
        /\ \A a, b \in Ages : a <= b => Longer(i)[a] <= Longer(i)[b]
        /\ \A a \in Young : Longer(i)[a] = failures[i][a] + 1 /\ failures[i][a] <= Recent(i)
    <3>1. \A a \in Ages : /\ a = Window => Longer(i)[a] = failures[i][Window - 1] + 1
                          /\ a # Window => Longer(i)[a] = failures[i][a] + 1
      BY DEF Longer
    <3>2. \A a \in Ages : failures[i][a] \in Nat
      BY DEF BanTypeOK
    <3>3. Longer(i) \in [Ages -> Nat]
      BY <3>2 DEF Longer
    <3>4. \A a \in Young : failures[i][a] <= failures[i][Window - 1]
      BY DEF BanTypeOK
    <3>5. \A a, b \in Ages : a <= b => Longer(i)[a] <= Longer(i)[b]
      <4> SUFFICES ASSUME NEW a \in Ages, NEW b \in Ages, a <= b
                   PROVE  Longer(i)[a] <= Longer(i)[b]
        OBVIOUS
      <4>1. failures[i][a] <= failures[i][b]
        BY DEF BanTypeOK
      <4>2. a = Window => b = Window
        BY BanConstants DEF Ages
      <4>3. QED BY <3>1, <3>2, <3>4, <4>1, <4>2
    <3>6. QED BY <3>1, <3>3, <3>4, <3>5 DEF Recent
  <2>3. BanTypeOK'
    BY <2>1, <2>2 DEF BanTypeOK, Tried
  <2>4. BanCovers'
    <3> SUFFICES ASSUME NEW j \in IPs, NEW a \in Young, failures'[j][a] >= Threshold
                 PROVE  j \notin whitelist' /\ banned'[j] \in 0..a
      BY DEF BanCovers
    <3>1. CASE j # i
      BY <2>1, <3>1 DEF BanCovers, BanTypeOK
    <3>2. CASE j = i
      <4>1. Recent(i) + 1 >= Threshold
        BY <2>1, <2>2, <3>2, BanConstants DEF BanTypeOK, Recent
      <4>2. banned'[i] = 0 /\ 0 \in 0..a
        BY <2>1, <4>1 DEF BanTypeOK, Young
      <4>3. QED BY <1>2, <2>1, <3>2, <4>2
    <3>3. QED BY <3>1, <3>2
  <2>5. WhitelistClean'
    BY <1>2, <2>1 DEF WhitelistClean, BanTypeOK
  <2>6. QED BY <2>3, <2>4, <2>5
<1>3. QED BY <1>1, <1>2

LEMMA EditKeeps == ASSUME NEW i \in IPs, Edit(i), BanInv PROVE BanInv'
<1>1. CASE Unban(i)
  BY <1>1, PardonKeeps DEF Unban
<1>2. CASE Ban(i)
  BY <1>2, AgesFacts DEF Ban, BanInv, BanTypeOK, BanCovers, WhitelistClean, Young
<1>3. CASE AddWhitelist(i)
  BY <1>3, PardonKeeps DEF AddWhitelist
<1>4. CASE RemoveWhitelist(i)
  BY <1>4 DEF RemoveWhitelist, BanInv, BanTypeOK, BanCovers, WhitelistClean
<1>5. QED BY <1>1, <1>2, <1>3, <1>4 DEF Edit

LEMMA TickKeeps == ASSUME Tick, BanInv PROVE BanInv'
<1> USE AgesFacts DEF BanInv, Tick
<1>1. \A i \in IPs : /\ failures'[i][Window] = failures[i][Window]
                     /\ failures'[i][0] = 0
                     /\ \A a \in Young : a # 0 => failures'[i][a] = failures[i][a - 1]
  BY BanConstants
<1>2. BanTypeOK'
  <2>1. failures' \in [IPs -> [Ages -> Nat]]
    BY DEF BanTypeOK
  <2>2. ASSUME NEW i \in IPs, NEW a \in Ages, NEW b \in Ages, a <= b
        PROVE  failures'[i][a] <= failures'[i][b]
    <3>1. CASE a = 0 \/ a = Window
      <4>1. a = 0 => failures'[i][a] = 0 /\ failures'[i][b] \in Nat
        BY <1>1, <2>1
      <4>2. a = Window => b = Window
        BY <2>2, BanConstants DEF Ages
      <4>3. failures'[i][a] \in Nat /\ failures'[i][b] \in Nat
        BY <2>1
      <4>4. QED BY <3>1, <4>1, <4>2, <4>3
    <3>2. CASE a # 0 /\ a # Window /\ b = Window
      BY <1>1, <3>2 DEF BanTypeOK, Ages, Young
    <3>3. CASE a # 0 /\ a # Window /\ b # Window
      BY <1>1, <2>2, <3>3 DEF BanTypeOK, Ages, Young
    <3>4. QED BY <3>1, <3>2, <3>3
  <2>3. banned' \in [IPs -> 0..Expired \cup {Never}]
    BY BanConstants DEF BanTypeOK, Expired
  <2>4. tries' \in [IPs -> [Young -> Nat]]
    BY DEF BanTypeOK, Young
  <2>5. QED BY <2>1, <2>2, <2>3, <2>4 DEF BanTypeOK
<1>3. BanCovers'
  <2> SUFFICES ASSUME NEW i \in IPs, NEW a \in Young, failures'[i][a] >= Threshold
               PROVE  i \notin whitelist' /\ banned'[i] \in 0..a
    BY DEF BanCovers
  <2>1. a # 0
    BY <1>1, BanConstants
  <2>2. a - 1 \in Young /\ failures[i][a - 1] >= Threshold
    BY <1>1, <2>1
  <2>3. i \notin whitelist /\ banned[i] \in 0..(a - 1)
    BY <2>2 DEF BanCovers
  <2>4. banned'[i] = banned[i] + 1
    BY <2>3, BanConstants DEF Young
  <2>5. QED BY <2>3, <2>4 DEF Young
<1>4. WhitelistClean'
  BY DEF WhitelistClean, NoFailures, BanTypeOK
<1>5. QED BY <1>2, <1>3, <1>4

LEMMA BanStep == BanInv /\ [BanNext]_banVars => BanInv'
<1> SUFFICES ASSUME BanInv, [BanNext]_banVars PROVE BanInv'
  OBVIOUS
<1>1. CASE Tick
  BY <1>1, TickKeeps
<1>2. CASE \E i \in IPs : IsBanned(i) \/ RecordFailure(i) \/ Edit(i)
  BY <1>2, IsBannedKeeps, RecordingKeeps, EditKeeps
<1>3. CASE UNCHANGED banVars
  BY <1>3 DEF banVars, BanInv, BanTypeOK, BanCovers, WhitelistClean
<1>4. QED BY <1>1, <1>2, <1>3 DEF BanNext

LEMMA BanInvInvariant == BanSpec => []BanInv
  BY InitBan, BanStep, PTL DEF BanSpec

LEMMA CoveredIsRefused == BanInv => ThresholdRefuses
<1> SUFFICES ASSUME BanInv, NEW i \in IPs, Recent(i) >= Threshold PROVE Refused(i)
  BY DEF ThresholdRefuses
<1>1. i \notin whitelist /\ banned[i] \in 0..(Window - 1)
  BY AgesFacts DEF BanInv, BanCovers, Recent
<1>2. QED BY <1>1, BanConstants DEF Refused

(* As long as a threshold of failures lies within the window the address is *)
(* refused, whoever calls the methods of the ban list in whatever order.    *)
THEOREM RefusedAtThreshold == BanSpec => []ThresholdRefuses
  BY BanInvInvariant, CoveredIsRefused, PTL

(* A whitelisted address has no failures on record.                         *)
THEOREM WhitelistStaysClean == BanSpec => []WhitelistClean
<1>1. BanInv => WhitelistClean
  BY DEF BanInv
<1>2. QED BY BanInvInvariant, <1>1, PTL

----
(* The panel and the proxies are callers of the ban list.                   *)

(* A token in the map is as old as its login; one that is not in the map    *)
(* was never issued, is logged out or has expired; and who is about to      *)
(* delete a token found it expired, which it stays.                         *)
TokensHonest ==
    /\ \A t \in Tokens : sessions[t] # Never => life[t] = sessions[t]
    /\ \A t \in Tokens : sessions[t] = Never => life[t] \in {Never, Lapsed}
    /\ \A r \in Requests : job[r] = "stale" => life[cookie[r]] = Lapsed

(* The types of the panel's own variables.                                  *)
PanelTyped ==
    /\ ip \in [Requests -> IPs]
    /\ job \in [Requests -> {"none", "proxy", "login", "guarded", "stale", "in"}]
    /\ cookie \in [Requests -> Tokens \cup {NoToken}]
    /\ \A r \in Requests : job[r] \in {"stale", "in"} => cookie[r] \in Tokens
    /\ sessions \in [Tokens -> 0..Lapsed \cup {Never}]
    /\ life \in [Tokens -> 0..Lapsed \cup {Never}]
    /\ logged \in 0..MaxSize

PanelInv == PanelTyped /\ TokensHonest

LEMMA LifeFacts == /\ 0 \in 0..Lapsed /\ Lapsed \in 0..Lapsed
                   /\ 0..TTL \subseteq 0..Lapsed
                   /\ Never \notin 0..Lapsed /\ Lapsed \notin 0..TTL
                   /\ \A n \in 0..TTL : n + 1 \in 0..Lapsed
                   /\ \A n \in 0..Lapsed : n \notin 0..TTL => n = Lapsed
                   /\ 0 \in 0..MaxSize /\ MaxSize \in 0..MaxSize
                   /\ \A n \in 0..MaxSize : n # MaxSize => n + 1 \in 0..MaxSize
  BY BanConstants, PanelConstants DEF Lapsed

LEMMA InitPanel == PanelInit => PanelInv
  BY LifeFacts, PanelConstants DEF PanelInit, PanelInv, PanelTyped, TokensHonest

LEMMA StepKeeps == ASSUME NEW r \in Requests, Step(r), PanelInv PROVE PanelInv'
<1> USE LifeFacts DEF PanelInv, Leave, Turn
<1>1. CASE Arrive(r)
  <2>1. PICK i \in IPs, what \in {"proxy", "login", "guarded"}, t \in Tokens \cup {NoToken} :
            /\ ip' = [ip EXCEPT ![r] = i]
            /\ job' = [job EXCEPT ![r] = IF Refused(i) THEN "none" ELSE what]
            /\ cookie' = [cookie EXCEPT ![r] = IF Refused(i) \/ what # "guarded" THEN NoToken ELSE t]
    BY <1>1 DEF Arrive, Issued
  <2>2. UNCHANGED <<sessions, life, logged>>
    BY <1>1 DEF Arrive
  <2>3. job'[r] \in {"none", "proxy", "login", "guarded"}
    BY <2>1 DEF PanelTyped
  <2>4. PanelTyped'
    BY <2>1, <2>2, <2>3 DEF PanelTyped
  <2>5. TokensHonest'
    BY <2>1, <2>2, <2>3 DEF PanelTyped, TokensHonest
  <2>6. QED BY <2>4, <2>5
<1>2. CASE Fail(r) \/ GiveUp(r) \/ EditBans(r) \/ Return(r)
  BY <1>2 DEF Fail, GiveUp, EditBans, Return, PanelTyped, TokensHonest
<1>3. CASE Record(r) \/ ClearLog(r)
  BY <1>3 DEF Record, ClearLog, PanelTyped, TokensHonest
<1>4. CASE Login(r)
  <2>1. PICK t \in Tokens : /\ life[t] = Never
                            /\ sessions' = [sessions EXCEPT ![t] = 0]
                            /\ life' = [life EXCEPT ![t] = 0]
    BY <1>4 DEF Login, Issued
  <2>2. PanelTyped'
    BY <1>4, <2>1 DEF Login, PanelTyped
  <2>3. \A q \in Requests : job'[q] = "stale" => job[q] = "stale" /\ cookie'[q] = cookie[q] /\ cookie[q] # t
    BY <1>4, <2>1 DEF Login, PanelTyped, TokensHonest
  <2>4. TokensHonest'
    BY <1>4, <2>1, <2>3 DEF Login, PanelTyped, TokensHonest
  <2>5. QED BY <2>2, <2>4
<1>5. CASE Validate(r)
  <2>1. CASE ~Held(r)
    BY <1>5, <2>1 DEF Validate, PanelTyped, TokensHonest
  <2>2. CASE Held(r)
    <3>1. job'[r] = "stale" => life[cookie[r]] = Lapsed
      BY <1>5, <2>2 DEF Validate, Held, PanelTyped, TokensHonest
    <3>2. PanelTyped'
      BY <1>5, <2>2 DEF Validate, Held, PanelTyped
    <3>3. TokensHonest'
      BY <1>5, <2>2, <3>1 DEF Validate, Held, PanelTyped, TokensHonest
    <3>4. QED BY <3>2, <3>3
  <2>3. QED BY <2>1, <2>2
<1>6. CASE DeleteExpired(r)
  BY <1>6 DEF DeleteExpired, PanelTyped, TokensHonest
<1>7. CASE Logout(r)
  BY <1>7 DEF Logout, PanelTyped, TokensHonest
<1>8. QED BY <1>1, <1>2, <1>3, <1>4, <1>5, <1>6, <1>7 DEF Step

LEMMA PanelTickKeeps == ASSUME PanelTick, PanelInv PROVE PanelInv'
<1> USE LifeFacts DEF PanelInv, PanelTick
<1>1. PanelTyped'
  BY DEF PanelTyped
<1>2. TokensHonest'
  BY DEF PanelTyped, TokensHonest
<1>3. QED BY <1>1, <1>2

LEMMA PanelStep == PanelInv /\ [PanelNext]_all => PanelInv'
<1> SUFFICES ASSUME PanelInv, [PanelNext]_all PROVE PanelInv'
  OBVIOUS
<1>1. CASE UNCHANGED all
  BY <1>1 DEF all, panelVars, PanelInv, PanelTyped, TokensHonest
<1>2. QED BY <1>1, StepKeeps, PanelTickKeeps DEF PanelNext

LEMMA PanelInvInvariant == PanelSpec => []PanelInv
  BY InitPanel, PanelStep, PTL DEF PanelSpec

(* Whatever a request does at the panel or at a proxy is one call of the    *)
(* ban list or none: what holds of the list for any callers holds here.     *)
LEMMA PanelStepIsBanStep == PanelInv /\ [PanelNext]_all => [BanNext]_banVars
<1> SUFFICES ASSUME PanelInv, [PanelNext]_all PROVE [BanNext]_banVars
  OBVIOUS
<1>1. CASE UNCHANGED all
  BY <1>1 DEF all
<1>2. CASE PanelTick
  BY <1>2 DEF PanelTick, BanNext
<1>3. ASSUME NEW r \in Requests, Step(r) PROVE [BanNext]_banVars
  <2>1. CASE Arrive(r)
    BY <2>1 DEF Arrive, BanNext
  <2>2. CASE Fail(r)
    BY <2>2 DEF Fail, BanNext, PanelInv, PanelTyped
  <2>3. CASE EditBans(r)
    BY <2>3 DEF EditBans, BanNext
  <2>4. CASE GiveUp(r) \/ Record(r) \/ Login(r) \/ Validate(r) \/ DeleteExpired(r)
             \/ Logout(r) \/ ClearLog(r) \/ Return(r)
    BY <2>4 DEF GiveUp, Record, Login, Validate, DeleteExpired, Logout, ClearLog, Return
  <2>5. QED BY <1>3, <2>1, <2>2, <2>3, <2>4 DEF Step
<1>4. QED BY <1>1, <1>2, <1>3 DEF PanelNext

(* The panel and the proxies, as users of the ban list, implement it.       *)
THEOREM PanelUsesBanList == PanelSpec => BanSpec
<1>1. PanelInit => BanInit
  BY DEF PanelInit
<1>2. QED BY <1>1, PanelInvInvariant, PanelStepIsBanStep, PTL DEF PanelSpec, BanSpec

(* Hence the address of a request is refused at the threshold, and what is  *)
(* in flight cannot dirty a whitelisted address.                            *)
THEOREM PanelBansSound == PanelSpec => [](ThresholdRefuses /\ WhitelistClean)
  BY PanelUsesBanList, RefusedAtThreshold, WhitelistStaysClean, PTL

(* A token lets in exactly from its login to its logout or expiry.          *)
THEOREM TokensExact == PanelSpec => SessionsExact
<1>1. ASSUME PanelInv, [PanelNext]_all PROVE [Admits]_all
  <2> SUFFICES ASSUME PanelNext, NEW r \in Requests, job[r] = "guarded", job'[r] # "guarded"
               PROVE  job'[r] = "in" <=> cookie[r] \in Tokens /\ life[cookie[r]] \in 0..TTL
    BY <1>1 DEF Admits
  <2>1. ~PanelTick
    BY DEF PanelTick
  <2>2. Validate(r)
    <3>1. PICK q \in Requests : Step(q)
      BY <2>1 DEF PanelNext
    <3>2. q = r
      BY <1>1, <3>1 DEF Step, Arrive, Fail, GiveUp, Record, Login, Validate, DeleteExpired,
            Logout, EditBans, ClearLog, Return, Leave, Turn, PanelInv, PanelTyped
    <3>3. QED BY <3>1, <3>2 DEF Step, Arrive, Fail, GiveUp, Record, Login, DeleteExpired,
            Logout, EditBans, ClearLog, Return
  <2>3. QED BY <1>1, <2>2, LifeFacts DEF Validate, Held, Leave, Turn, PanelInv, PanelTyped, TokensHonest
<1>2. QED BY <1>1, PanelInvInvariant, PTL DEF PanelSpec, SessionsExact

----
(* How many guesses an address gets. N requests come to the panel and the   *)
(* proxies; Guessing are those of an address whose answer is still open,    *)
(* Younger counts the attempts since the ban of an address fell.            *)
N == Cardinality(Requests)
Guessing(i) == {r \in Requests : job[r] \in {"proxy", "login"} /\ ip[r] = i}
Open(i) == Cardinality(Guessing(i))
Younger(i) == IF banned[i] = 0 THEN 0
              ELSE tries[i][IF banned[i] = Expired THEN Window - 1 ELSE banned[i] - 1]

(* A ban that ran out takes its failures from the record, but not from the  *)
(* attempts: those are at most the ones in flight when it fell, so the two  *)
(* counts never differ by more.                                             *)
Counted(i) == \A a \in Young :
    /\ failures[i][a] <= tries[i][a]
    /\ tries[i][a] <= failures[i][a] + N - 1
    /\ \A b \in Young : a <= b => tries[i][a] <= tries[i][b]

(* While a ban stands no new request gets through: the attempts made since  *)
(* and those still to come are of the requests in flight when it fell, and  *)
(* whoever made it fall is not one of them.                                 *)
ShutOut(i) ==
    /\ banned[i] \in 0..Expired => Younger(i) + Open(i) <= N - 1
    /\ banned[i] \in 0..Window => tries[i][Window - 1] + Open(i) <= Most

Fine(i) == /\ Counted(i)
           /\ failures[i][Window] <= Most
           /\ IF i \in whitelist THEN tries[i] = NoTries ELSE ShutOut(i)
Bounded == \A i \in IPs : Fine(i)

GuessInv == BanInv /\ PanelInv /\ Bounded

LEMMA SizeFacts == /\ N \in Nat /\ N >= 1 /\ Most = Threshold - 2 + 2 * N /\ Most \in Nat
                   /\ N - 1 <= Most /\ Threshold + N - 2 <= Most
                   /\ Threshold \in Nat /\ Threshold >= 1
<1>1. N \in Nat /\ N # 0
  BY FS_CardinalityType, FS_EmptySet, PanelConstants DEF N
<1>2. Most = Threshold - 2 + 2 * N
  BY DEF Most, N
<1>3. QED BY <1>1, <1>2, BanConstants

LEMMA OpenFacts ==
    ASSUME NEW i
    PROVE  /\ IsFiniteSet(Guessing(i)) /\ Open(i) \in Nat /\ Open(i) <= N
           /\ Open(i)' \in Nat /\ Open(i)' <= N
<1>1. Guessing(i) \in SUBSET Requests /\ Guessing(i)' \in SUBSET Requests
  BY DEF Guessing
<1>2. QED BY <1>1, FS_Subset, FS_CardinalityType, PanelConstants DEF Open, N

\* Who is through the panel's door, or waits before it, is not guessing.
LEMMA NotGuessing ==
    ASSUME NEW r \in Requests, job[r] \notin {"proxy", "login"}, NEW i
    PROVE  Open(i) <= N - 1
<1>1. Guessing(i) \in SUBSET Requests /\ Guessing(i) # Requests
  BY DEF Guessing
<1>2. Open(i) # N
  BY <1>1, FS_Subset, PanelConstants DEF Open, N
<1>3. QED BY <1>2, OpenFacts, SizeFacts

LEMMA LeaveOpens ==
    ASSUME PanelTyped, NEW r \in Requests, Leave(r), ip' = ip, NEW i
    PROVE  Open(i)' = IF r \in Guessing(i) THEN Open(i) - 1 ELSE Open(i)
<1>1. Guessing(i)' = Guessing(i) \ {r}
  BY DEF Guessing, Leave, PanelTyped
<1>2. QED BY <1>1, FS_RemoveElement, OpenFacts DEF Open

LEMMA NoneJoins ==
    ASSUME NEW i, Guessing(i)' \subseteq Guessing(i)
    PROVE  Open(i)' <= Open(i)
  BY OpenFacts, FS_Subset DEF Open

\* An administrator's request is none of those in flight, before or after.
LEMMA InsideOpens ==
    ASSUME PanelTyped, NEW r \in Requests, job[r] = "in", Leave(r), ip' = ip, NEW i
    PROVE  Open(i)' = Open(i) /\ Open(i) <= N - 1
  BY LeaveOpens, NotGuessing DEF Guessing

LEMMA YoungerFacts ==
    ASSUME BanTypeOK, NEW i \in IPs, banned[i] \in 0..Expired
    PROVE  /\ Younger(i) \in Nat
           /\ banned[i] # 0 => \E a \in Young : /\ Younger(i) = tries[i][a]
                                                /\ a = IF banned[i] = Expired THEN Window - 1 ELSE banned[i] - 1
<1>1. banned[i] # 0 /\ banned[i] # Expired => banned[i] - 1 \in Young
  BY BanConstants DEF Young, Expired
<1>2. QED BY <1>1, AgesFacts DEF BanTypeOK, Younger

\* Nothing changes for an address but that perhaps fewer of its requests are open.
LEMMA FewerOpen ==
    ASSUME BanTypeOK, Bounded, NEW i \in IPs,
           failures'[i] = failures[i], banned'[i] = banned[i], tries'[i] = tries[i],
           i \in whitelist' <=> i \in whitelist, Open(i)' <= Open(i)
    PROVE  Fine(i)'
<1>1. Counted(i)'
  BY DEF Bounded, Fine, Counted
<1>2. Younger(i)' = Younger(i)
  BY DEF Younger
<1>3. Open(i) \in Nat /\ Open(i)' \in Nat
  BY OpenFacts
<1>4. banned[i] \in 0..Expired => Younger(i) \in Nat
  BY YoungerFacts
<1>5. tries[i][Window - 1] \in Nat
  BY AgesFacts DEF BanTypeOK
<1>6. i \notin whitelist => ShutOut(i)'
  BY <1>2, <1>3, <1>4, <1>5, SizeFacts DEF ShutOut, Bounded, Fine
<1>7. QED BY <1>1, <1>6 DEF Bounded, Fine

LEMMA ArriveBounded == ASSUME GuessInv, NEW r \in Requests, Arrive(r) PROVE Bounded'
<1>1. PICK i \in IPs : \E what \in {"proxy", "login", "guarded"} :
          /\ IsBanned(i)
          /\ ip' = [ip EXCEPT ![r] = i]
          /\ job' = [job EXCEPT ![r] = IF Refused(i) THEN "none" ELSE what]
  BY DEF Arrive
<1>2. PICK what \in {"proxy", "login", "guarded"} :
          job' = [job EXCEPT ![r] = IF Refused(i) THEN "none" ELSE what]
  BY <1>1
<1>3. job[r] = "none" /\ PanelTyped /\ BanTypeOK /\ Bounded
  BY DEF Arrive, GuessInv, BanInv, PanelInv
<1>4. /\ banned' = [banned EXCEPT ![i] = IF i \notin whitelist /\ banned[i] = Expired THEN Never ELSE @]
      /\ failures' = [failures EXCEPT ![i] = IF i \notin whitelist /\ banned[i] = Expired THEN NoFailures ELSE @]
      /\ UNCHANGED <<whitelist, tries>>
  BY <1>1 DEF IsBanned
<1>5. ASSUME NEW j \in IPs, j # i PROVE Fine(j)'
  <2>1. Guessing(j)' \subseteq Guessing(j)
    BY <1>1, <1>2, <1>3, <1>5 DEF Guessing, PanelTyped
  <2>2. QED BY <1>3, <1>4, <1>5, <2>1, NoneJoins, FewerOpen DEF BanTypeOK
<1>6. CASE Refused(i)
  <2>1. Guessing(i)' \subseteq Guessing(i)
    BY <1>1, <1>2, <1>3, <1>6 DEF Guessing, PanelTyped
  <2>2. banned[i] # Expired
    BY <1>6, BanConstants DEF Refused, Expired
  <2>3. Fine(i)'
    BY <1>3, <1>4, <2>1, <2>2, NoneJoins, FewerOpen DEF BanTypeOK
  <2>4. QED BY <1>5, <2>3 DEF Bounded
<1>7. CASE i \in whitelist
  <2>1. failures'[i] = failures[i]
    BY <1>3, <1>4, <1>7 DEF BanTypeOK
  <2>2. Fine(i)'
    BY <1>3, <1>4, <1>7, <2>1 DEF Bounded, Fine, Counted
  <2>3. QED BY <1>5, <2>2 DEF Bounded
<1>8. CASE i \notin whitelist /\ ~Refused(i)
  <2>1. banned[i] \in {Expired, Never}
    BY <1>3, <1>8, BanConstants DEF Refused, BanTypeOK, Expired
  <2>2. banned'[i] = Never
    BY <1>3, <1>4, <1>8, <2>1 DEF BanTypeOK
  <2>3. ShutOut(i)'
    BY <2>2, AgesFacts DEF ShutOut
  <2>4. CASE banned[i] = Never
    <3>1. failures'[i] = failures[i]
      BY <1>3, <1>4, <2>4, AgesFacts DEF BanTypeOK, Expired
    <3>2. QED BY <1>3, <1>4, <1>5, <1>8, <2>3, <3>1 DEF Bounded, Fine, Counted
  <2>5. CASE banned[i] = Expired
    <3>1. failures'[i] = NoFailures
      BY <1>3, <1>4, <1>8, <2>5 DEF BanTypeOK
    <3>2. tries[i][Window - 1] <= N - 1
      <4>1. banned[i] \in 0..Expired /\ banned[i] # 0
        BY <2>5, BanConstants DEF Expired
      <4>2. Younger(i) = tries[i][Window - 1] /\ Younger(i) + Open(i) <= N - 1
        BY <1>3, <1>8, <2>5, <4>1 DEF Younger, Bounded, Fine, ShutOut
      <4>3. QED BY <1>3, <4>1, <4>2, OpenFacts, YoungerFacts, SizeFacts
    <3>3. \A a \in Young : tries[i][a] \in Nat /\ tries[i][a] <= tries[i][Window - 1]
      BY <1>3, AgesFacts DEF Bounded, Fine, Counted, BanTypeOK
    <3>4. Counted(i)'
      <4> SUFFICES ASSUME NEW a \in Young
                   PROVE  /\ failures'[i][a] <= tries'[i][a]
                          /\ tries'[i][a] <= failures'[i][a] + N - 1
                          /\ \A b \in Young : a <= b => tries'[i][a] <= tries'[i][b]
        BY DEF Counted
      <4>1. failures'[i][a] = 0 /\ tries'[i] = tries[i]
        BY <1>4, <3>1, AgesFacts DEF NoFailures
      <4>2. \A b \in Young : a <= b => tries[i][a] <= tries[i][b]
        BY <1>3 DEF Bounded, Fine, Counted
      <4>3. tries[i][Window - 1] \in Nat
        BY <3>3, AgesFacts
      <4>4. QED BY <3>2, <3>3, <4>1, <4>2, <4>3, SizeFacts
    <3>5. failures'[i][Window] <= Most
      BY <3>1, AgesFacts, SizeFacts DEF NoFailures
    <3>6. QED BY <1>4, <1>5, <1>8, <2>3, <3>4, <3>5 DEF Bounded, Fine
  <2>6. QED BY <2>1, <2>4, <2>5
<1>9. QED BY <1>6, <1>7, <1>8

LEMMA FailBounded == ASSUME GuessInv, NEW r \in Requests, Fail(r) PROVE Bounded'
<1>0. PICK i \in IPs : i = ip[r]
  BY DEF Fail, GuessInv, PanelInv, PanelTyped
<1>1. /\ BanTypeOK /\ BanCovers /\ PanelTyped /\ Bounded
      /\ r \in Guessing(i) /\ RecordFailure(i) /\ Leave(r) /\ ip' = ip
  BY <1>0 DEF Fail, GuessInv, BanInv, PanelInv, Guessing
<1>2. \A j \in IPs : Open(j)' <= Open(j)
  BY <1>1, LeaveOpens, OpenFacts
<1>3. Open(i)' = Open(i) - 1
  BY <1>1, LeaveOpens
<1>4. ASSUME NEW j \in IPs, j # i \/ i \in whitelist PROVE Fine(j)'
  <2>1. /\ failures'[j] = failures[j] /\ banned'[j] = banned[j] /\ tries'[j] = tries[j]
        /\ whitelist' = whitelist
    BY <1>1, <1>4 DEF RecordFailure, Tried, BanTypeOK
  <2>2. QED BY <1>1, <1>2, <2>1, FewerOpen
<1>5. CASE i \notin whitelist
  <2>1. /\ failures' = [failures EXCEPT ![i] = Longer(i)]
        /\ banned' = [banned EXCEPT ![i] = IF Recent(i) + 1 >= Threshold THEN 0 ELSE @]
        /\ Tried(i) /\ whitelist' = whitelist
    BY <1>1, <1>5 DEF RecordFailure
  <2>2. \A a \in Young : /\ failures'[i][a] = failures[i][a] + 1 /\ tries'[i][a] = tries[i][a] + 1
                         /\ failures[i][a] \in Nat /\ tries[i][a] \in Nat
    BY <1>1, <2>1, AgesFacts DEF Tried, Longer, BanTypeOK
  <2>3. Counted(i)'
    BY <1>1, <2>2, SizeFacts DEF Bounded, Fine, Counted
  <2>4. failures'[i][Window] = Recent(i) + 1 /\ Recent(i) \in Nat
    BY <1>1, <2>1, AgesFacts DEF Longer, Recent, BanTypeOK
  <2>5. Recent(i) <= tries[i][Window - 1] /\ tries[i][Window - 1] <= Recent(i) + N - 1
    BY <1>1, AgesFacts DEF Recent, Bounded, Fine, Counted
  <2>6. banned'[i] = IF Recent(i) + 1 >= Threshold THEN 0 ELSE banned[i]
    BY <1>1, <2>1 DEF BanTypeOK
  <2>7. banned[i] \in 0..Expired => Younger(i) + Open(i) <= N - 1 /\ Younger(i) \in Nat
    BY <1>1, <1>5, YoungerFacts DEF Bounded, Fine, ShutOut
  <2>8. banned[i] \in 0..Window => tries[i][Window - 1] + Open(i) <= Most
    BY <1>1, <1>5 DEF Bounded, Fine, ShutOut
  <2>9. banned[i] = Expired => Younger(i) = tries[i][Window - 1]
    BY BanConstants DEF Younger, Expired
  <2>10. banned[i] \notin 0..Window => Recent(i) < Threshold
    BY <1>1, <2>4, AgesFacts, SizeFacts DEF BanCovers, Recent
  <2>11. Open(i) \in Nat /\ Open(i) <= N /\ Open(i)' \in Nat
    BY OpenFacts
  <2>12. tries'[i][Window - 1] = tries[i][Window - 1] + 1 /\ tries[i][Window - 1] \in Nat
    BY <2>2, AgesFacts
  <2>13. CASE Recent(i) + 1 >= Threshold
    <3>1. banned'[i] = 0 /\ Younger(i)' = 0
      BY <2>6, <2>13 DEF Younger
    <3>2. tries'[i][Window - 1] + Open(i)' <= Most
      <4>1. CASE banned[i] \in 0..Window
        BY <1>3, <2>8, <2>11, <2>12, <4>1
      <4>2. CASE banned[i] = Expired
        <5>1. tries[i][Window - 1] + Open(i) <= N - 1
          BY <2>7, <2>9, <4>2, AgesFacts, BanConstants DEF Expired
        <5>2. QED BY <1>3, <5>1, <2>11, <2>12, SizeFacts
      <4>3. CASE banned[i] \notin 0..Expired
        <5>1. Recent(i) < Threshold
          BY <2>10, <4>3, AgesFacts
        <5>2. QED BY <1>3, <5>1, <2>4, <2>5, <2>11, <2>12, SizeFacts
      <4>4. QED BY <4>1, <4>2, <4>3, BanConstants DEF Expired
    <3>3. ShutOut(i)'
      BY <1>3, <2>11, <3>1, <3>2, SizeFacts DEF ShutOut
    <3>4. failures'[i][Window] <= Most
      BY <2>4, <2>5, <2>11, <2>12, <3>2, SizeFacts
    <3>5. QED BY <1>4, <1>5, <2>1, <2>3, <3>3, <3>4 DEF Bounded, Fine
  <2>14. CASE ~(Recent(i) + 1 >= Threshold)
    <3>1. banned'[i] = banned[i]
      BY <2>6, <2>14
    <3>2. failures'[i][Window] <= Most
      BY <2>4, <2>14, SizeFacts
    <3>3. banned[i] \in 0..Expired => Younger(i)' <= Younger(i) + 1 /\ Younger(i)' \in Nat
      <4> SUFFICES ASSUME banned[i] \in 0..Expired
                   PROVE  Younger(i)' <= Younger(i) + 1 /\ Younger(i)' \in Nat
        OBVIOUS
      <4>1. CASE banned[i] = 0
        BY <3>1, <4>1 DEF Younger
      <4>2. CASE banned[i] # 0
        <5>1. PICK a \in Young : /\ Younger(i) = tries[i][a]
                                 /\ a = IF banned[i] = Expired THEN Window - 1 ELSE banned[i] - 1
          BY <1>1, <4>2, YoungerFacts
        <5>2. Younger(i)' = tries'[i][a]
          BY <3>1, <4>2, <5>1 DEF Younger
        <5>3. QED BY <2>2, <5>1, <5>2
      <4>3. QED BY <4>1, <4>2
    <3>4. ShutOut(i)'
      <4>1. banned[i] \in 0..Expired => Younger(i)' + Open(i)' <= N - 1
        BY <1>3, <2>7, <2>11, <3>3, SizeFacts
      <4>2. banned[i] \in 0..Window => tries'[i][Window - 1] + Open(i)' <= Most
        BY <1>3, <2>8, <2>11, <2>12, SizeFacts
      <4>3. QED BY <3>1, <4>1, <4>2 DEF ShutOut
    <3>5. QED BY <1>4, <1>5, <2>1, <2>3, <3>2, <3>4 DEF Bounded, Fine
  <2>15. QED BY <2>13, <2>14
<1>6. QED BY <1>4, <1>5 DEF Bounded

LEMMA PardonFine ==
    ASSUME BanTypeOK, NEW i \in IPs, Pardon(i), Open(i)' <= N - 1
    PROVE  Fine(i)'
<1>1. failures'[i] = NoFailures /\ tries'[i] = NoTries /\ banned'[i] = Never
  BY DEF Pardon, BanTypeOK
<1>2. Counted(i)'
  BY <1>1, AgesFacts, SizeFacts DEF Counted, NoFailures, NoTries
<1>3. QED BY <1>1, <1>2, AgesFacts, SizeFacts DEF Fine, ShutOut, NoFailures

LEMMA EditBounded == ASSUME GuessInv, NEW r \in Requests, EditBans(r) PROVE Bounded'
<1>1. /\ BanTypeOK /\ BanCovers /\ WhitelistClean /\ PanelTyped /\ Bounded
      /\ job[r] = "in" /\ Leave(r) /\ ip' = ip
  BY DEF EditBans, GuessInv, BanInv, PanelInv
<1>2. \A j \in IPs : Open(j)' = Open(j) /\ Open(j) <= N - 1 /\ Open(j) \in Nat
  BY <1>1, InsideOpens, OpenFacts
<1>3. PICK i \in IPs : Edit(i)
  BY DEF EditBans
<1>4. ASSUME NEW j \in IPs, j # i PROVE Fine(j)'
  <2>1. /\ failures'[j] = failures[j] /\ banned'[j] = banned[j] /\ tries'[j] = tries[j]
        /\ j \in whitelist' <=> j \in whitelist
    BY <1>1, <1>3, <1>4 DEF Edit, Unban, Ban, AddWhitelist, RemoveWhitelist, Pardon, BanTypeOK
  <2>2. QED BY <1>1, <1>2, <2>1, FewerOpen
<1>5. CASE Unban(i) \/ AddWhitelist(i)
  BY <1>1, <1>2, <1>4, <1>5, PardonFine DEF Unban, AddWhitelist, Bounded
<1>6. CASE RemoveWhitelist(i)
  <2>1. UNCHANGED <<failures, banned, tries>> /\ i \notin whitelist'
    BY <1>6 DEF RemoveWhitelist
  <2>2. CASE i \notin whitelist
    BY <1>1, <1>2, <1>4, <2>1, <2>2, FewerOpen DEF Bounded
  <2>3. CASE i \in whitelist
    <3>1. tries[i] = NoTries /\ failures[i] = NoFailures
      BY <1>1, <2>3 DEF Bounded, Fine, WhitelistClean
    <3>2. banned[i] \in 0..Expired => Younger(i)' = 0
      <4>1. banned[i] \in 0..Expired /\ banned[i] # 0 /\ banned[i] # Expired => banned[i] - 1 \in Young
        BY BanConstants DEF Expired, Young
      <4>2. QED BY <2>1, <3>1, <4>1, AgesFacts DEF Younger, NoTries
    <3>3. tries'[i][Window - 1] = 0
      BY <2>1, <3>1, AgesFacts DEF NoTries
    <3>4. ShutOut(i)'
      BY <1>2, <2>1, <3>2, <3>3, SizeFacts DEF ShutOut
    <3>5. Counted(i)' /\ failures'[i][Window] <= Most
      BY <1>1, <2>1 DEF Bounded, Fine, Counted
    <3>6. QED BY <1>4, <2>1, <3>4, <3>5 DEF Bounded, Fine
  <2>4. QED BY <2>2, <2>3
<1>7. CASE Ban(i)
  <2>1. UNCHANGED <<failures, whitelist, tries>> /\ banned'[i] = 0
    BY <1>1, <1>7 DEF Ban, BanTypeOK
  <2>2. Counted(i)' /\ failures'[i][Window] <= Most
    BY <1>1, <2>1 DEF Bounded, Fine, Counted
  <2>3. CASE i \in whitelist
    BY <1>1, <1>4, <2>1, <2>2, <2>3 DEF Bounded, Fine
  <2>4. CASE i \notin whitelist
    <3>1. tries[i][Window - 1] \in Nat /\ tries[i][Window - 1] <= Recent(i) + N - 1 /\ Recent(i) \in Nat
      BY <1>1, AgesFacts DEF Bounded, Fine, Counted, Recent, BanTypeOK
    <3>2. tries[i][Window - 1] + Open(i) <= Most
      <4>1. CASE banned[i] \in 0..Window
        BY <1>1, <2>4, <4>1 DEF Bounded, Fine, ShutOut
      <4>2. CASE banned[i] = Expired
        <5>1. Younger(i) = tries[i][Window - 1]
          BY <4>2, BanConstants DEF Younger, Expired
        <5>2. Younger(i) + Open(i) <= N - 1
          BY <1>1, <2>4, <4>2, BanConstants DEF Bounded, Fine, ShutOut, Expired
        <5>3. QED BY <1>2, <3>1, <5>1, <5>2, SizeFacts
      <4>3. CASE banned[i] \notin 0..Expired
        <5>1. Recent(i) < Threshold
          BY <1>1, <3>1, <4>3, AgesFacts, SizeFacts DEF BanCovers, Recent
        <5>2. QED BY <1>2, <3>1, <5>1, SizeFacts
      <4>4. QED BY <4>1, <4>2, <4>3, BanConstants DEF Expired
    <3>3. Younger(i)' = 0
      BY <2>1 DEF Younger
    <3>4. ShutOut(i)'
      BY <1>2, <2>1, <3>2, <3>3, SizeFacts DEF ShutOut
    <3>5. QED BY <1>4, <2>1, <2>2, <2>4, <3>4 DEF Bounded, Fine
  <2>5. QED BY <2>3, <2>4
<1>8. QED BY <1>3, <1>5, <1>6, <1>7 DEF Edit

LEMMA TickBounded == ASSUME GuessInv, PanelTick PROVE Bounded'
<1>1. BanTypeOK /\ WhitelistClean /\ Bounded /\ Tick /\ ip' = ip /\ job' = job
  BY DEF PanelTick, GuessInv, BanInv
<1> SUFFICES ASSUME NEW i \in IPs PROVE Fine(i)'
  BY DEF Bounded
<1>2. /\ tries'[i][0] = 0 /\ failures'[i][0] = 0 /\ failures'[i][Window] = failures[i][Window]
      /\ \A a \in Young : a # 0 => /\ a - 1 \in Young
                                   /\ tries'[i][a] = tries[i][a - 1]
                                   /\ failures'[i][a] = failures[i][a - 1]
      /\ banned'[i] = IF banned[i] \in 0..Window THEN banned[i] + 1 ELSE banned[i]
      /\ whitelist' = whitelist
  BY <1>1, AgesFacts, BanConstants DEF Tick
<1>3. \A a \in Young : /\ tries[i][a] \in Nat /\ failures[i][a] \in Nat
                       /\ failures[i][a] <= tries[i][a] /\ tries[i][a] <= failures[i][a] + N - 1
                       /\ \A b \in Young : a <= b => tries[i][a] <= tries[i][b]
  BY <1>1, AgesFacts DEF Bounded, Fine, Counted, BanTypeOK
<1>4. \A a \in Young : tries'[i][a] \in Nat /\ tries'[i][a] <= tries[i][a]
  BY <1>2, <1>3, AgesFacts DEF Young
<1>5. Counted(i)'
  <2> SUFFICES ASSUME NEW a \in Young
               PROVE  /\ failures'[i][a] <= tries'[i][a]
                      /\ tries'[i][a] <= failures'[i][a] + N - 1
                      /\ \A b \in Young : a <= b => tries'[i][a] <= tries'[i][b]
    BY DEF Counted
  <2>1. CASE a = 0
    BY <1>2, <1>4, <2>1, SizeFacts
  <2>2. CASE a # 0
    <3>1. ASSUME NEW b \in Young, a <= b PROVE tries'[i][a] <= tries'[i][b]
      <4>1. b # 0 /\ a - 1 <= b - 1
        BY <2>2, <3>1 DEF Young
      <4>2. QED BY <1>2, <1>3, <2>2, <4>1
    <3>2. QED BY <1>2, <1>3, <2>2, <3>1
  <2>3. QED BY <2>1, <2>2
<1>6. Open(i)' = Open(i) /\ Open(i) \in Nat
  BY <1>1, OpenFacts DEF Open, Guessing
<1>7. ASSUME i \notin whitelist PROVE ShutOut(i)'
  <2>1. ASSUME banned'[i] \in 0..Expired PROVE Younger(i)' + Open(i) <= N - 1
    <3>1. banned[i] \in 0..Expired
      BY <1>2, <2>1, BanConstants DEF Expired
    <3>2. Younger(i) + Open(i) <= N - 1 /\ Younger(i) \in Nat
      BY <1>1, <1>7, <3>1, YoungerFacts DEF Bounded, Fine, ShutOut
    <3>3. banned'[i] # 0 /\ banned'[i] \in Nat
      BY <1>2, <2>1, <3>1, BanConstants DEF Expired
    <3>4. Younger(i)' <= Younger(i) /\ Younger(i)' \in Nat
      <4>1. CASE banned[i] = 0
        <5>1. banned'[i] = 1
          BY <1>2, <4>1, BanConstants
        <5>2. Younger(i)' = 0
          BY <1>2, <5>1, BanConstants DEF Younger, Expired
        <5>3. QED BY <3>2, <5>2
      <4>2. CASE banned[i] \in 1..(Window - 1)
        <5>1. banned'[i] = banned[i] + 1 /\ banned'[i] # Expired /\ banned[i] # Expired /\ banned[i] # 0
          BY <1>2, <4>2, BanConstants DEF Expired
        <5>2. Younger(i)' = tries'[i][banned[i]]
          BY <3>3, <5>1, <4>2 DEF Younger
        <5>3. Younger(i) = tries[i][banned[i] - 1]
          BY <5>1 DEF Younger
        <5>4. banned[i] \in Young
          BY <4>2 DEF Young
        <5>5. QED BY <1>2, <1>3, <5>1, <5>2, <5>3, <5>4, <3>2
      <4>3. CASE banned[i] \in {Window, Expired}
        <5>1. Younger(i)' = tries'[i][Window - 1] /\ Younger(i) = tries[i][Window - 1]
          BY <1>2, <3>3, <4>3, BanConstants DEF Younger, Expired
        <5>2. QED BY <1>4, <5>1, AgesFacts
      <4>4. QED BY <3>1, <4>1, <4>2, <4>3, BanConstants DEF Expired
    <3>5. QED BY <1>6, <3>2, <3>4, SizeFacts
  <2>2. ASSUME banned'[i] \in 0..Window PROVE tries'[i][Window - 1] + Open(i) <= Most
    <3>1. banned[i] \in 0..Window
      BY <1>2, <2>2, BanConstants
    <3>2. tries[i][Window - 1] + Open(i) <= Most
      BY <1>1, <1>7, <3>1 DEF Bounded, Fine, ShutOut
    <3>3. QED BY <1>3, <1>4, <1>6, <3>2, AgesFacts, SizeFacts
  <2>3. QED BY <1>6, <2>1, <2>2 DEF ShutOut
<1>8. i \in whitelist => tries'[i] = NoTries
  BY <1>1, AgesFacts DEF Bounded, Fine, NoTries, Tick, BanTypeOK
<1>9. failures'[i][Window] <= Most
  BY <1>1, <1>2 DEF Bounded, Fine
<1>10. QED BY <1>2, <1>5, <1>7, <1>8, <1>9 DEF Fine

LEMMA StepBounded == ASSUME GuessInv, NEW r \in Requests, Step(r) PROVE Bounded'
<1>1. CASE Arrive(r)
  BY <1>1, ArriveBounded
<1>2. CASE Fail(r)
  BY <1>2, FailBounded
<1>3. CASE EditBans(r)
  BY <1>3, EditBounded
<1>4. CASE GiveUp(r) \/ Record(r) \/ Login(r) \/ Validate(r) \/ DeleteExpired(r)
           \/ Logout(r) \/ ClearLog(r) \/ Return(r)
  <2>1. UNCHANGED <<banVars, ip>>
    BY <1>4 DEF GiveUp, Record, Login, Validate, DeleteExpired, Logout, ClearLog, Return
  <2>2. \A i \in IPs : Guessing(i)' \subseteq Guessing(i)
    BY <1>4 DEF GiveUp, Record, Login, Validate, DeleteExpired, Logout, ClearLog, Return,
          Leave, Turn, Guessing, GuessInv, PanelInv, PanelTyped
  <2>3. QED BY <2>1, <2>2, NoneJoins, FewerOpen DEF banVars, Bounded, GuessInv, BanInv
<1>5. QED BY <1>1, <1>2, <1>3, <1>4 DEF Step

LEMMA InitBounded == PanelInit => Bounded
<1> SUFFICES ASSUME PanelInit, NEW i \in IPs PROVE Fine(i)
  BY DEF Bounded
<1>1. failures[i] = NoFailures /\ tries[i] = NoTries /\ banned[i] = Never
  BY DEF PanelInit, BanInit
<1>2. Counted(i)
  BY <1>1, AgesFacts, SizeFacts DEF Counted, NoFailures, NoTries
<1>3. QED BY <1>1, <1>2, AgesFacts, SizeFacts DEF Fine, ShutOut, NoFailures

LEMMA GuessStep == GuessInv /\ [PanelNext]_all => GuessInv'
<1> SUFFICES ASSUME GuessInv, [PanelNext]_all PROVE GuessInv'
  OBVIOUS
<1>1. BanInv' /\ PanelInv'
  BY BanStep, PanelStep, PanelStepIsBanStep DEF GuessInv
<1>2. Bounded'
  <2>1. CASE UNCHANGED all
    BY <2>1, NoneJoins, FewerOpen DEF all, banVars, panelVars, Guessing, GuessInv, BanInv, Bounded
  <2>2. QED BY <2>1, StepBounded, TickBounded DEF PanelNext
<1>3. QED BY <1>1, <1>2 DEF GuessInv

LEMMA GuessInvInvariant == PanelSpec => []GuessInv
<1>1. PanelInit => GuessInv
  BY InitBan, InitPanel, InitBounded DEF PanelInit, GuessInv
<1>2. QED BY <1>1, GuessStep, PTL DEF PanelSpec

LEMMA FewGuesses == GuessInv => GuessesBounded
<1> SUFFICES ASSUME GuessInv, NEW i \in IPs PROVE tries[i][Window - 1] <= Most
  BY DEF GuessesBounded
<1>1. tries[i][Window - 1] \in Nat /\ Recent(i) \in Nat /\ tries[i][Window - 1] <= Recent(i) + N - 1
  BY AgesFacts DEF GuessInv, BanInv, BanTypeOK, Bounded, Fine, Counted, Recent
<1>2. CASE i \in whitelist
  BY <1>2, AgesFacts, SizeFacts DEF GuessInv, Bounded, Fine, NoTries
<1>3. CASE i \notin whitelist /\ banned[i] \in 0..Window
  BY <1>1, <1>3, OpenFacts, SizeFacts DEF GuessInv, Bounded, Fine, ShutOut
<1>4. CASE banned[i] \notin 0..Window
  <2>1. Recent(i) < Threshold
    BY <1>1, <1>4, AgesFacts, SizeFacts DEF GuessInv, BanInv, BanCovers, Recent
  <2>2. QED BY <1>1, <2>1, SizeFacts
<1>5. QED BY <1>2, <1>3, <1>4

(* However requests race their own ban or wait it out, no address gets more *)
(* attempts in within a window than the threshold allows, and one more for  *)
(* each other request in flight, when it is banned and when that ban ends.  *)
THEOREM FewGuessesWithinAWindow == PanelSpec => []GuessesBounded
  BY GuessInvInvariant, FewGuesses, PTL

(* Every variable of the panel has its type, and the list of failures of an *)
(* address stays short because it is pruned on every failure.               *)
THEOREM PanelTypesHold == PanelSpec => []PanelTypeOK
<1>1. GuessInv => PanelTypeOK
  BY DEF GuessInv, BanInv, PanelInv, PanelTyped, Bounded, Fine, PanelTypeOK
<1>2. QED BY GuessInvInvariant, <1>1, PTL
====

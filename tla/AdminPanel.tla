---- MODULE AdminPanel ----
(***************************************************************************)
(* The admin panel (internal/admin/handler.go): logins, their tokens, and  *)
(* the handlers behind requireAuth that change the ban list and the        *)
(* traffic log (internal/trafficlog). It shares the ban list with the      *)
(* proxies, so a wrong proxy password also counts against the              *)
(* administrator's address.                                                *)
(*                                                                         *)
(* A request asks IsBanned when it arrives and fails or succeeds any time  *)
(* later. validateSession looks a token up under one lock and, if it finds *)
(* it expired, deletes it under another. Handlers that change nothing are  *)
(* those that only return.                                                 *)
(***************************************************************************)
EXTENDS IPBan, FiniteSets

CONSTANTS Requests,
          Tokens,     \* bound: as many logins succeed
          TTL,        \* sessionTTL, in ticks
          MaxSize,    \* of the traffic log
          NoToken     \* no cookie, or one nobody issued

ASSUME PanelConstants == /\ IsFiniteSet(Requests) /\ Requests # {}
                         /\ TTL \in Nat
                         /\ MaxSize \in Nat \ {0}
                         /\ NoToken \notin Tokens

VARIABLES ip, job,    \* each request: where it comes from, what it is about
          cookie,     \* the token it carries
          sessions,   \* sessions[t]: the age of token t, or Never
          life,       \* history: the age of t since its login; a logout ends its life
          logged      \* how many entries the traffic log has

panelVars == <<ip, job, cookie, sessions, life, logged>>
all == <<banVars, panelVars>>

Lapsed == TTL + 1
Most == Threshold - 2 + 2 * Cardinality(Requests)

(* Types, and how long a failure list gets: pruning on every append keeps   *)
(* it as short as the failures of two windows.                              *)
PanelTypeOK ==
    /\ BanTypeOK
    /\ \A i \in IPs : failures[i][Window] <= Most
    /\ ip \in [Requests -> IPs]
    /\ job \in [Requests -> {"none", "proxy", "login", "guarded", "stale", "in"}]
    /\ cookie \in [Requests -> Tokens \cup {NoToken}]
    /\ \A r \in Requests : job[r] \in {"stale", "in"} => cookie[r] \in Tokens
    /\ sessions \in [Tokens -> 0..Lapsed \cup {Never}]
    /\ life \in [Tokens -> 0..Lapsed \cup {Never}]
    /\ logged \in 0..MaxSize

PanelInit == /\ BanInit
             /\ ip \in [Requests -> IPs]
             /\ job = [r \in Requests |-> "none"]
             /\ cookie = [r \in Requests |-> NoToken]
             /\ sessions = [t \in Tokens |-> Never]
             /\ life = [t \in Tokens |-> Never]
             /\ logged = 0

Issued == {t \in Tokens : life[t] # Never}
Turn(r, to) == job' = [job EXCEPT ![r] = to]
Leave(r) == job' = [job EXCEPT ![r] = "none"] /\ cookie' = [cookie EXCEPT ![r] = NoToken]

----
(* Any request                                                              *)

\* ServeHTTP, handleConn, apiLogin and requireAuth ask IsBanned first.
Arrive(r) ==
    /\ job[r] = "none"
    /\ \E i \in IPs, what \in {"proxy", "login", "guarded"}, t \in Issued \cup {NoToken} :
          /\ IsBanned(i)
          /\ ip' = [ip EXCEPT ![r] = i]
          /\ job' = [job EXCEPT ![r] = IF Refused(i) THEN "none" ELSE what]
          /\ cookie' = [cookie EXCEPT ![r] = IF Refused(i) \/ what # "guarded" THEN NoToken ELSE t]
    /\ UNCHANGED <<sessions, life, logged>>

\* The password was wrong: the proxy's or the panel's.
Fail(r) ==
    /\ job[r] \in {"proxy", "login"}
    /\ RecordFailure(ip[r])
    /\ Leave(r)
    /\ UNCHANGED <<ip, sessions, life, logged>>

\* The request was malformed, over its rate, or cut off before an answer.
GiveUp(r) ==
    /\ job[r] \in {"proxy", "login"}
    /\ Leave(r)
    /\ UNCHANGED <<banVars, ip, sessions, life, logged>>

\* A request that was served is logged; past MaxSize, the oldest entry is evicted.
Record(r) ==
    /\ job[r] = "proxy"
    /\ logged' = IF logged = MaxSize THEN MaxSize ELSE logged + 1
    /\ Leave(r)
    /\ UNCHANGED <<banVars, ip, sessions, life>>

----
(* The panel                                                                *)

\* apiLogin: user and password are right. A token is 32 random bytes: a new one.
Login(r) ==
    /\ job[r] = "login"
    /\ \E t \in Tokens \ Issued : /\ sessions' = [sessions EXCEPT ![t] = 0]
                                  /\ life' = [life EXCEPT ![t] = 0]
    /\ Leave(r)
    /\ UNCHANGED <<banVars, ip, logged>>

Held(r) == cookie[r] \in Tokens /\ sessions[cookie[r]] # Never

\* validateSession under the read lock ...
Validate(r) ==
    /\ job[r] = "guarded"
    /\ IF ~Held(r) THEN Leave(r)
       ELSE /\ Turn(r, IF sessions[cookie[r]] \in 0..TTL THEN "in" ELSE "stale")
            /\ UNCHANGED cookie
    /\ UNCHANGED <<banVars, ip, sessions, life, logged>>

\* ... and under the write lock.
DeleteExpired(r) ==
    /\ job[r] = "stale"
    /\ sessions' = [sessions EXCEPT ![cookie[r]] = Never]
    /\ Leave(r)
    /\ UNCHANGED <<banVars, ip, life, logged>>

\* Mutant: only the browser's cookie is cleared.
LogoutCookie(r) ==
    /\ job[r] = "in"
    /\ life' = [life EXCEPT ![cookie[r]] = Lapsed]
    /\ Leave(r)
    /\ UNCHANGED <<banVars, ip, sessions, logged>>
\* apiLogout
Logout(r) ==
    /\ job[r] = "in"
    /\ sessions' = [sessions EXCEPT ![cookie[r]] = Never]
    /\ life' = [life EXCEPT ![cookie[r]] = Lapsed]
    /\ Leave(r)
    /\ UNCHANGED <<banVars, ip, logged>>

\* apiBan, apiUnban, apiWhitelistAdd, apiWhitelistRemove
EditBans(r) ==
    /\ job[r] = "in"
    /\ \E i \in IPs : Edit(i)
    /\ Leave(r)
    /\ UNCHANGED <<ip, sessions, life, logged>>

\* apiTrafficLogClear
ClearLog(r) ==
    /\ job[r] = "in"
    /\ logged' = 0
    /\ Leave(r)
    /\ UNCHANGED <<banVars, ip, sessions, life>>

\* Every other handler leaves bans, tokens and log alone.
Return(r) ==
    /\ job[r] = "in"
    /\ Leave(r)
    /\ UNCHANGED <<banVars, ip, sessions, life, logged>>

PanelTick ==
    /\ Tick
    /\ sessions' = [t \in Tokens |-> IF sessions[t] \in 0..TTL THEN sessions[t] + 1 ELSE sessions[t]]
    /\ life' = [t \in Tokens |-> IF life[t] \in 0..TTL THEN life[t] + 1 ELSE life[t]]
    /\ UNCHANGED <<ip, job, cookie, logged>>

Step(r) == \/ Arrive(r) \/ Fail(r) \/ GiveUp(r) \/ Record(r)
           \/ Login(r) \/ Validate(r) \/ DeleteExpired(r)
           \/ Logout(r) \/ EditBans(r) \/ ClearLog(r) \/ Return(r)

PanelNext == PanelTick \/ \E r \in Requests : Step(r)

PanelSpec == PanelInit /\ [][PanelNext]_all

\* Time goes on; no client has to do anything.
PanelFair == PanelSpec /\ WF_all(PanelTick)

----
(* Properties                                                               *)

(* However requests race their own ban, wait out a ban, or are banned by    *)
(* hand: within one window no address gets more failed attempts in, at the  *)
(* proxies and the panel together, than the threshold allows, plus one for  *)
(* each other request in flight when an administrator's request banned it,  *)
(* and one for each in flight when that ban is over and the next begins.    *)
(* Attempts made while whitelisted, or before a pardon, do not count.       *)
GuessesBounded == \A i \in IPs : tries[i][Window - 1] <= Most

BanByHand == \E r \in Requests, i \in IPs : job[r] = "in" /\ Leave(r) /\ Ban(i)

(* A ban that nobody renews by hand ends, however often the address tries   *)
(* in the meantime and whatever of it is still in flight: an administrator  *)
(* whose address was banned by wrong proxy passwords gets back in.          *)
LockoutEnds == <>[][~BanByHand]_all => \A i \in IPs : Refused(i) ~> ~Refused(i)

(* requireAuth lets a request in exactly if its token comes from a login,   *)
(* is not logged out and not expired, though another request may be         *)
(* deleting the token, and deletes it under a lock it took anew.            *)
Admits == \A r \in Requests : job[r] = "guarded" /\ job'[r] # "guarded" =>
    (job'[r] = "in" <=> cookie[r] \in Tokens /\ life[cookie[r]] \in 0..TTL)
SessionsExact == [][Admits]_all
====

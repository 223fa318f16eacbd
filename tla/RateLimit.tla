---- MODULE RateLimit ----
(***************************************************************************)
(* The sliding-window limiter (internal/ratelimit/limiter.go) between its  *)
(* users: proxy goroutines that read an account from Redis and then ask    *)
(* Allow (runtime.Admit), and admin handlers that write an account to      *)
(* Redis and then tell the limiter (internal/admin/accounts.go).           *)
(*                                                                         *)
(* Time stamps are ages in ticks. A window is kept by its cumulative       *)
(* counts: how many of its time stamps are of an age or younger; the last  *)
(* age stands for all that are trimmed. The limiter lives in the process   *)
(* and dies with it; accounts live in Redis and stay.                      *)
(***************************************************************************)
EXTENDS Integers

CONSTANTS Accts,
          Main,        \* -proxy-user
          Default,     \* -rate-limit
          Limits,      \* custom limits administrators set
          Largest,     \* bound: no limit is larger
          Window,      \* one minute, in ticks
          Clients, Admins,
          Missing,     \* no such account
          Restarts     \* whether the process may be restarted

ASSUME LimitConstants == /\ Main \in Accts
                         /\ Largest \in Nat
                         /\ Default \in 1..Largest
                         /\ Limits \subseteq 1..Largest
                         /\ Window \in Nat
                         /\ Missing \notin Nat
                         /\ Restarts \in BOOLEAN

VARIABLES rate,        \* an account's rate_limit in Redis, or Missing
          userLimits,  \* the limiter's custom limits; 0: none
          windows,     \* windows[u][age]: how many time stamps it keeps that are at most that old
          cpc, user,   \* a client that read its account, and which
          apc, target, want,  \* an admin handler between Redis and the limiter
          saved,       \* history: accounts a handler told the limiter of since it was made
          torn,        \* history: accounts whose last write to Redis broke off between its commands
          log,         \* history: log[u][age], the admissions of at most that age
          peak         \* history: the largest limit in force since the process started

vars == <<rate, userLimits, windows, cpc, user, apc, target, want, saved, torn, log, peak>>

Ages == 0..Window
Stale == Window + 1
Empty == [age \in 0..Stale |-> 0]

(* Types, and how long a window gets: with what it will trim it never holds  *)
(* more time stamps than the largest limit.                                  *)
TypeOK == /\ rate \in [Accts -> 0..Largest \cup {Missing}]
          /\ userLimits \in [Accts -> 0..Largest]
          /\ windows \in [Accts -> [0..Stale -> 0..Largest]]
          /\ cpc \in [Clients -> {"idle", "read"}]
          /\ user \in [Clients -> Accts]
          /\ apc \in [Admins -> {"idle", "index", "sync"}]
          /\ target \in [Admins -> Accts]
          /\ want \in [Admins -> 0..Largest]
          /\ saved \subseteq Accts
          /\ torn \subseteq Accts
          /\ log \in [Accts -> [Ages -> 0..Largest]]
          /\ peak \in [Accts -> 1..Largest]

\* main: New, then SetUserLimit for the default account only.
Booted == [u \in Accts |-> IF u = Main THEN Default ELSE 0]

Init == /\ rate = [u \in Accts |-> IF u = Main THEN Default ELSE Missing]
        /\ userLimits = Booted
        /\ windows = [u \in Accts |-> Empty]
        /\ cpc = [c \in Clients |-> "idle"]
        /\ user = [c \in Clients |-> Main]
        /\ apc = [a \in Admins |-> "idle"]
        /\ target = [a \in Admins |-> Main]
        /\ want = [a \in Admins |-> 0]
        /\ saved = {}
        /\ torn = {}
        /\ log = [u \in Accts |-> [age \in Ages |-> 0]]
        /\ peak = [u \in Accts |-> Default]

Exists(u) == rate[u] # Missing
EffectiveLimit(u) == IF userLimits[u] # 0 THEN userLimits[u] ELSE Default

\* What is left of a window when it is trimmed.
Trimmed(u) == [age \in 0..Stale |-> windows[u][IF age = Stale THEN Window ELSE age]]
OneMore(counts) == [age \in DOMAIN counts |-> counts[age] + 1]

----
(* A client                                                                 *)

\* Authenticate: the rest of Admit goes by the account as read here, and a limit
\* of 0 is none.
ReadAccount(c) ==
    /\ cpc[c] = "idle"
    /\ \E u \in Accts : /\ Exists(u)
                        /\ rate[u] # 0
                        /\ user' = [user EXCEPT ![c] = u]
    /\ cpc' = [cpc EXCEPT ![c] = "read"]
    /\ UNCHANGED <<rate, userLimits, windows, apc, target, want, log, peak, saved, torn>>

\* Mutant: the trimmed slice is counted and then dropped.
AllowUntrimmed(c) ==
    /\ cpc[c] = "read"
    /\ cpc' = [cpc EXCEPT ![c] = "idle"]
    /\ user' = [user EXCEPT ![c] = Main]
    /\ LET u == user[c]
       IN IF Trimmed(u)[Stale] < EffectiveLimit(u)
          THEN /\ windows' = [windows EXCEPT ![u] = OneMore(@)]
               /\ log' = [log EXCEPT ![u] = OneMore(@)]
          ELSE UNCHANGED <<windows, log>>
    /\ UNCHANGED <<rate, userLimits, apc, target, want, peak, saved, torn>>
\* Allow: trim, compare, append.
Allow(c) ==
    /\ cpc[c] = "read"
    /\ cpc' = [cpc EXCEPT ![c] = "idle"]
    /\ user' = [user EXCEPT ![c] = Main]
    /\ LET u == user[c]
       IN IF Trimmed(u)[Stale] < EffectiveLimit(u)
          THEN /\ windows' = [windows EXCEPT ![u] = OneMore(Trimmed(u))]
               /\ log' = [log EXCEPT ![u] = OneMore(@)]
          ELSE /\ windows' = [windows EXCEPT ![u] = Trimmed(u)]
               /\ UNCHANGED log
    /\ UNCHANGED <<rate, userLimits, apc, target, want, peak, saved, torn>>

----
(* Admin handlers: two commands to Redis, then the limiter. What is read     *)
(* before them is StickyStore's subject.                                    *)

\* The first command: putAccount's HSet, or DeleteAccount's Del. One that fails
\* with nothing written changes nothing, here or there.
Put(a, u, r) ==
    /\ apc[a] = "idle"
    /\ rate' = [rate EXCEPT ![u] = r]
    /\ target' = [target EXCEPT ![a] = u]
    /\ want' = [want EXCEPT ![a] = IF r = Missing THEN 0 ELSE r]
    /\ apc' = [apc EXCEPT ![a] = "index"]
    /\ UNCHANGED <<userLimits, windows, cpc, user, log, peak, saved, torn>>

\* apiAddAccount
AddAccount(a) == \E u \in Accts, r \in Limits \cup {0} : ~Exists(u) /\ Put(a, u, r)
\* apiPatchAccount with a rate_limit; any other patch leaves both alone.
PatchAccount(a) == \E u \in Accts, r \in Limits \cup {0} : Exists(u) /\ Put(a, u, r)
\* apiRemoveAccount
RemoveAccount(a) == \E u \in Accts : Put(a, u, Missing)

\* The second command, SAdd or SRem.
Index(a) ==
    /\ apc[a] = "index"
    /\ apc' = [apc EXCEPT ![a] = "sync"]
    /\ UNCHANGED <<rate, userLimits, windows, cpc, user, target, want, log, peak, saved, torn>>

\* Either command fails with the first one done (the answer to the first may be
\* what is lost): the handler returns the error, and the limiter is not told.
Fail(a) ==
    /\ apc[a] = "index"
    /\ apc' = [apc EXCEPT ![a] = "idle"]
    /\ target' = [target EXCEPT ![a] = Main]
    /\ want' = [want EXCEPT ![a] = 0]
    /\ torn' = torn \cup {target[a]}
    /\ UNCHANGED <<rate, userLimits, windows, cpc, user, log, peak, saved>>

\* Mutant: 0 is taken for "leave it".
SyncPositive(a) ==
    /\ apc[a] = "sync"
    /\ userLimits' = [userLimits EXCEPT ![target[a]] = IF want[a] = 0 THEN @ ELSE want[a]]
    /\ peak' = [peak EXCEPT ![target[a]] =
                   IF want[a] > @ THEN want[a] ELSE IF want[a] = 0 /\ Default > @ THEN Default ELSE @]
    /\ apc' = [apc EXCEPT ![a] = "idle"]
    /\ target' = [target EXCEPT ![a] = Main]
    /\ want' = [want EXCEPT ![a] = 0]
    /\ saved' = saved \cup {target[a]}
    /\ torn' = torn \ {target[a]}
    /\ UNCHANGED <<rate, windows, cpc, user, log>>
\* SetUserLimit
Sync(a) ==
    /\ apc[a] = "sync"
    /\ userLimits' = [userLimits EXCEPT ![target[a]] = want[a]]
    /\ peak' = [peak EXCEPT ![target[a]] =
                   IF want[a] > @ THEN want[a] ELSE IF want[a] = 0 /\ Default > @ THEN Default ELSE @]
    /\ apc' = [apc EXCEPT ![a] = "idle"]
    /\ target' = [target EXCEPT ![a] = Main]
    /\ want' = [want EXCEPT ![a] = 0]
    /\ saved' = saved \cup {target[a]}
    /\ torn' = torn \ {target[a]}
    /\ UNCHANGED <<rate, windows, cpc, user, log>>

----
Tick ==
    /\ windows' = [u \in Accts |-> [age \in 0..Stale |->
          IF age = Stale THEN windows[u][Stale]
          ELSE IF age = 0 THEN 0 ELSE windows[u][age - 1]]]
    /\ log' = [u \in Accts |-> [age \in Ages |-> IF age = 0 THEN 0 ELSE log[u][age - 1]]]
    /\ UNCHANGED <<rate, userLimits, cpc, user, apc, target, want, peak, saved, torn>>

\* Mutant: every window is dropped, not just those trimmed to nothing.
CleanupAll ==
    /\ windows' = [u \in Accts |-> Empty]
    /\ UNCHANGED <<rate, userLimits, cpc, user, apc, target, want, log, peak, saved, torn>>
\* cleanupLoop's body
Cleanup ==
    /\ windows' = [u \in Accts |-> Trimmed(u)]
    /\ UNCHANGED <<rate, userLimits, cpc, user, apc, target, want, log, peak, saved, torn>>

\* systemd starts the process anew: EnsureAccount, a new limiter, no connections.
Restart ==
    /\ Restarts
    /\ rate' = [rate EXCEPT ![Main] = IF @ = Missing THEN Default ELSE @]
    /\ userLimits' = Booted
    /\ windows' = [u \in Accts |-> Empty]
    /\ cpc' = [c \in Clients |-> "idle"]
    /\ user' = [c \in Clients |-> Main]
    /\ apc' = [a \in Admins |-> "idle"]
    /\ target' = [a \in Admins |-> Main]
    /\ want' = [a \in Admins |-> 0]
    /\ saved' = {}
    /\ torn' = torn \cup {target[a] : a \in {b \in Admins : apc[b] # "idle"}}
    /\ log' = [u \in Accts |-> [age \in Ages |-> 0]]
    /\ peak' = [u \in Accts |-> Default]

Next == \/ Tick \/ Cleanup \/ Restart
        \/ \E c \in Clients : ReadAccount(c) \/ Allow(c)
        \/ \E a \in Admins : AddAccount(a) \/ PatchAccount(a) \/ RemoveAccount(a)
                            \/ Index(a) \/ Fail(a) \/ Sync(a)

Spec == Init /\ [][Next]_vars

----
(* Properties                                                               *)

(* Sliding window: in no window, wherever it begins, does an account get    *)
(* more admissions than the largest limit it had since the process started, *)
(* whatever Allow and cleanupLoop trim and administrators change.           *)
WindowCapped == \A u \in Accts : log[u][Window] <= peak[u]

(* "Rate limiting - sliding-window per master account" (README.en.md:14):   *)
(* once a handler has saved an account, the limit Redis shows is the one in  *)
(* force, but for the moment the next handler is between the two; an account *)
(* without one of its own, or that is gone, has the default. A write that    *)
(* broke off between its commands leaves Redis and the limiter apart: until  *)
(* the account is saved again, nothing is said of it.                       *)
LimitInForce == \A u \in saved \ torn :
    (\A a \in Admins : apc[a] = "idle" \/ target[a] # u) =>
        IF Exists(u) /\ rate[u] # 0 THEN EffectiveLimit(u) = rate[u] ELSE userLimits[u] = 0

(* The same of every account whose last write was answered, whether or not  *)
(* the process has been restarted since.                                    *)
LimitSurvivesRestart == \A u \in Accts \ torn :
    (\A a \in Admins : apc[a] = "idle") /\ Exists(u) /\ rate[u] # 0 => EffectiveLimit(u) = rate[u]
====

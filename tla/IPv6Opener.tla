---- MODULE IPv6Opener ----
(***************************************************************************)
(* The IPv6 opener (internal/proxy/dial.go) and the warm cache it shares   *)
(* between all connection goroutines (internal/proxy/ndp.go).              *)
(*                                                                         *)
(* A caller is one goroutine inside ipv6Opener.open(ctx, target, exitIP).  *)
(* Every critical section under cache.mu is one action, and so is every    *)
(* dial, every confirmation and the close of the waiters' channel, so the  *)
(* interleavings of the real goroutines are those of the model.            *)
(*                                                                         *)
(* Time: an entry's value is its age, 0..Expired; ages above the TTL are   *)
(* indistinguishable to the code, so the clock never has to be bounded.    *)
(* Channels: make(chan) returns a channel nobody refers to; the model      *)
(* reuses a member of Chans once it is garbage.                            *)
(***************************************************************************)
EXTENDS Integers, FiniteSets

CONSTANTS
    Callers,      \* goroutines that open connections
    Cancellable,  \* those with a request context (HTTP); SOCKS5 passes Background
    ToProbe,      \* callers whose own target is the probe address
    IPs,          \* exit IPs
    Chans, NoChan,
    TTL,          \* ndpWarmTTL in clock ticks
    MaxSize       \* ndpWarmCacheMax

ASSUME OpenerConstants ==
    /\ Cancellable \subseteq Callers
    /\ ToProbe \subseteq Callers
    /\ NoChan \notin Chans \cup Callers
    /\ TTL \in Nat
    /\ MaxSize \in Nat \ {0}

VARIABLES
    entries,    \* cache.entries: exit IP -> age of its mark
    inFlight,   \* cache.inFlight: exit IP -> done channel
    closed,     \* the channels that were closed
    pc,         \* where each caller is
    job,        \* which dial of the open it is at: probe, target or client
    ip,         \* the exitIP argument
    wait,       \* the channel beginConfirm returned
    ok,         \* a leader's err == nil after warmupExit
    cancelled,  \* ctx.Err() # nil
    confirmed   \* history: exit IPs some warm-up ever proved to work

cacheVars == <<entries, inFlight>>
vars == <<entries, inFlight, closed, pc, job, ip, wait, ok, cancelled, confirmed>>

Expired == TTL + 1
Returned == {"idle", "conn"}   \* outside open; "conn": the last one handed a connection over
Dialing == {"first", "retry", "redial"}          \* dialWithColdRetry
Jobs == {"probe", "target", "client"}
PCs == Returned \cup Dialing \cup
       {"seen", "begin", "wait", "check", "finish", "close", "failed", "client", "warm"}

\* From beginConfirm naming it leader to the critical section of finishConfirm.
Leading(c) == \/ pc[c] \in Dialing /\ job[c] # "client"
              \/ pc[c] \in {"check", "finish"}
\* The leader after that critical section, about to close its channel.
Closing(c) == pc[c] = "close"

TypeOK ==
    /\ entries \in [DOMAIN entries -> 0..Expired]
    /\ DOMAIN entries \subseteq IPs
    /\ inFlight \in [DOMAIN inFlight -> Chans]
    /\ DOMAIN inFlight \subseteq IPs
    /\ closed \subseteq Chans
    /\ pc \in [Callers -> PCs]
    /\ job \in [Callers -> Jobs]
    /\ ip \in [Callers -> IPs]
    /\ wait \in [Callers -> Chans \cup {NoChan}]
    /\ ok \in [Callers -> BOOLEAN]
    /\ cancelled \in [Callers -> BOOLEAN]
    /\ confirmed \subseteq IPs

Init ==
    /\ entries = [k \in {} |-> 0]
    /\ inFlight = [k \in {} |-> NoChan]
    /\ closed = {}
    /\ pc = [c \in Callers |-> "idle"]
    /\ job = [c \in Callers |-> "client"]
    /\ ip \in [Callers -> IPs]
    /\ wait = [c \in Callers |-> NoChan]
    /\ ok = [c \in Callers |-> FALSE]
    /\ cancelled = [c \in Callers |-> FALSE]
    /\ confirmed = {}

----
(* The cache, as operators on the entries map.                             *)

Only(f, S) == [k \in DOMAIN f \cap S |-> f[k]]
With(f, k, v) == [j \in DOMAIN f \cup {k} |-> IF j = k THEN v ELSE f[j]]

Live == {k \in DOMAIN entries : entries[k] <= TTL}

\* warmLocked's answer ...
Warm(k) == k \in Live
\* ... and its effect: an entry found expired is deleted.
Probed(k) == IF Warm(k) THEN entries ELSE Only(entries, IPs \ {k})

\* Mutant: the wipe that follows an eviction that freed nothing is missing.
MarkedNoWipe(k) ==
    With(IF Cardinality(DOMAIN entries) < MaxSize THEN entries ELSE Only(entries, Live), k, 0)
\* markLocked: evict the expired when full, wipe everything when still full.
Marked(k) ==
    LET kept == IF Cardinality(DOMAIN entries) < MaxSize THEN entries
                ELSE IF Cardinality(Live) < MaxSize THEN Only(entries, Live)
                ELSE Only(entries, {})
    IN  With(kept, k, 0)

\* A channel nobody can reach: not in the map, not held by a caller.
Fresh(ch) == /\ \A k \in DOMAIN inFlight : inFlight[k] # ch
             /\ \A c \in Callers : wait[c] # ch

----
(* open and ensureWarm                                                     *)

Goto(c, l) == pc' = [pc EXCEPT ![c] = l]

Open(c) ==
    /\ pc[c] \in Returned
    /\ \E k \in IPs : ip' = [ip EXCEPT ![c] = k]
    /\ cancelled' = [cancelled EXCEPT ![c] = FALSE]
    /\ Goto(c, "seen")
    /\ UNCHANGED <<entries, inFlight, closed, job, wait, ok, confirmed>>

\* ensureWarm's cache.Seen
Seen(c) ==
    /\ pc[c] = "seen"
    /\ entries' = Probed(ip[c])
    /\ Goto(c, IF Warm(ip[c]) THEN "client" ELSE "begin")
    /\ UNCHANGED <<inFlight, closed, job, ip, wait, ok, cancelled, confirmed>>

BeginWarm(c) ==
    /\ Warm(ip[c])
    /\ Goto(c, "client")
    /\ UNCHANGED <<inFlight, closed, job, wait, ok>>

\* Mutant: whoever finds an entry is told it is the leader, too.
JoinAsLeader(c) ==
    /\ ~Warm(ip[c])
    /\ ip[c] \in DOMAIN inFlight
    /\ wait' = [wait EXCEPT ![c] = inFlight[ip[c]]]
    /\ job' = [job EXCEPT ![c] = "probe"]
    /\ Goto(c, "first")
    /\ UNCHANGED <<inFlight, closed, ok>>
BeginWaiter(c) ==
    /\ ~Warm(ip[c])
    /\ ip[c] \in DOMAIN inFlight
    /\ wait' = [wait EXCEPT ![c] = inFlight[ip[c]]]
    /\ Goto(c, "wait")
    /\ UNCHANGED <<inFlight, closed, job, ok>>

\* The leader's prime (a Neighbor Advertisement) changes no modelled state.
Lead(c) ==
    /\ \E ch \in Chans :
          /\ Fresh(ch)
          /\ inFlight' = With(inFlight, ip[c], ch)
          /\ wait' = [wait EXCEPT ![c] = ch]
          /\ closed' = closed \ {ch}
    /\ job' = [job EXCEPT ![c] = "probe"]
    /\ Goto(c, "first")
    /\ UNCHANGED ok

\* Mutant: warmth is decided by Seen alone, before the section that reads inFlight.
LeadStale(c) == ip[c] \notin DOMAIN inFlight /\ Lead(c)
BeginLeader(c) == /\ ~Warm(ip[c])
                  /\ ip[c] \notin DOMAIN inFlight
                  /\ Lead(c)

BeginConfirm(c) ==
    /\ pc[c] = "begin"
    /\ entries' = Probed(ip[c])
    /\ BeginWarm(c) \/ BeginWaiter(c) \/ BeginLeader(c)
    /\ UNCHANGED <<ip, cancelled, confirmed>>

\* A waiter's select. Both cases may be ready; Go then picks either.
WaitClosed(c) ==
    /\ pc[c] = "wait"
    /\ wait[c] \in closed
    /\ wait' = [wait EXCEPT ![c] = NoChan]
    /\ Goto(c, "client")
    /\ UNCHANGED <<entries, inFlight, closed, job, ip, ok, cancelled, confirmed>>

WaitCancelled(c) ==
    /\ pc[c] = "wait"
    /\ cancelled[c]
    /\ wait' = [wait EXCEPT ![c] = NoChan]
    /\ Goto(c, "idle")
    /\ UNCHANGED <<entries, inFlight, closed, job, ip, ok, cancelled, confirmed>>

\* The request's client goes away.
Cancel(c) ==
    /\ c \in Cancellable
    /\ pc[c] \notin Returned
    /\ ~cancelled[c]
    /\ cancelled' = [cancelled EXCEPT ![c] = TRUE]
    /\ UNCHANGED <<entries, inFlight, closed, pc, job, ip, wait, ok, confirmed>>

----
(* dialWithColdRetry and confirmDial. A dial and the alreadyDead look that  *)
(* follows it are one step. A dial that ends after its context was          *)
(* cancelled fails, with an error that is not retryable.                    *)

\* What follows a dial or a confirmation that failed: the client's open fails, the
\* probe is followed by the target, anything else ends the warm-up.
Fail(c) ==
    \/ /\ job[c] = "client"
       /\ Goto(c, "idle")
       /\ UNCHANGED job
    \/ /\ job[c] = "probe"
       /\ ~cancelled[c]
       /\ c \notin ToProbe
       /\ job' = [job EXCEPT ![c] = "target"]
       /\ Goto(c, "first")
    \/ /\ \/ job[c] = "target"
          \/ job[c] = "probe" /\ (cancelled[c] \/ c \in ToProbe)
       /\ Goto(c, "finish")
       /\ UNCHANGED job

\* A dial that returned a connection: the client's result, or one to confirm.
Connect(c) == /\ Goto(c, IF job[c] = "client" THEN "conn" ELSE "check")
              /\ UNCHANGED job

DialOthers == UNCHANGED <<entries, inFlight, closed, ip, wait, ok, cancelled, confirmed>>

DialFirst(c) ==
    /\ pc[c] = "first"
    /\ \/ Fail(c)
       \/ ~cancelled[c] /\ Connect(c)
       \/ ~cancelled[c] /\ Goto(c, "retry") /\ UNCHANGED job    \* isRetryableDialError
       \/ ~cancelled[c] /\ Goto(c, "redial") /\ UNCHANGED job   \* alreadyDead
    /\ DialOthers

DialRetry(c) ==
    /\ pc[c] = "retry"
    /\ \/ Fail(c)
       \/ ~cancelled[c] /\ Connect(c)
       \/ ~cancelled[c] /\ Goto(c, "redial") /\ UNCHANGED job
    /\ DialOthers

DialAgain(c) ==
    /\ pc[c] = "redial"
    /\ Fail(c) \/ (~cancelled[c] /\ Connect(c))
    /\ DialOthers

\* The rest of confirmDial: alreadyDead once more and, on the probe, the DNS exchange.
ConfirmOK(c) ==
    /\ pc[c] = "check"
    /\ ok' = [ok EXCEPT ![c] = TRUE]
    /\ confirmed' = confirmed \cup {ip[c]}
    /\ Goto(c, "finish")
    /\ UNCHANGED <<entries, inFlight, closed, job, ip, wait, cancelled>>

ConfirmFails(c) ==
    /\ pc[c] = "check"
    /\ Fail(c)
    /\ DialOthers

----
(* finishConfirm and the client-facing dial                                 *)

\* Mutant: the entry is marked whatever the warm-up's result.
FinishAlwaysMarks(c) ==
    /\ pc[c] = "finish"
    /\ inFlight' = Only(inFlight, IPs \ {ip[c]})
    /\ entries' = Marked(ip[c])
    /\ Goto(c, "close")
    /\ UNCHANGED <<closed, job, ip, wait, ok, cancelled, confirmed>>
\* Mutant: the waiter is looked up after its entry was deleted, and is nil.
FinishLosesWaiter(c) ==
    /\ pc[c] = "finish"
    /\ inFlight' = Only(inFlight, IPs \ {ip[c]})
    /\ entries' = IF ok[c] THEN Marked(ip[c]) ELSE entries
    /\ wait' = [wait EXCEPT ![c] = NoChan]
    /\ Goto(c, "close")
    /\ UNCHANGED <<closed, job, ip, ok, cancelled, confirmed>>
Finish(c) ==
    /\ pc[c] = "finish"
    /\ inFlight' = Only(inFlight, IPs \ {ip[c]})
    /\ entries' = IF ok[c] THEN Marked(ip[c]) ELSE entries
    /\ Goto(c, "close")
    /\ UNCHANGED <<closed, job, ip, wait, ok, cancelled, confirmed>>

\* Mutant: the waiters are woken only by a warm-up that succeeded.
CloseIfOK(c) ==
    /\ pc[c] = "close"
    /\ closed' = IF ok[c] THEN closed \cup {wait[c]} ELSE closed
    /\ wait' = [wait EXCEPT ![c] = NoChan]
    /\ job' = [job EXCEPT ![c] = "client"]
    /\ ok' = [ok EXCEPT ![c] = FALSE]
    /\ Goto(c, IF ok[c] THEN "client" ELSE "failed")
    /\ UNCHANGED <<entries, inFlight, ip, cancelled, confirmed>>
\* close(waiter.done), after cache.mu was released
Close(c) ==
    /\ pc[c] = "close"
    /\ closed' = closed \cup {wait[c]}
    /\ wait' = [wait EXCEPT ![c] = NoChan]
    /\ job' = [job EXCEPT ![c] = "client"]
    /\ ok' = [ok EXCEPT ![c] = FALSE]
    /\ Goto(c, IF ok[c] THEN "client" ELSE "failed")
    /\ UNCHANGED <<entries, inFlight, ip, cancelled, confirmed>>

\* open's look at ctx.Err() after a failed warm-up
AfterFailure(c) ==
    /\ pc[c] = "failed"
    /\ Goto(c, IF cancelled[c] THEN "idle" ELSE "client")
    /\ UNCHANGED <<entries, inFlight, closed, job, ip, wait, ok, cancelled, confirmed>>

\* dialClient's cache.Seen
DialClient(c) ==
    /\ pc[c] = "client"
    /\ entries' = Probed(ip[c])
    /\ Goto(c, IF Warm(ip[c]) THEN "warm" ELSE "first")
    /\ UNCHANGED <<inFlight, closed, job, ip, wait, ok, cancelled, confirmed>>

\* The single dial over a warm exit IP.
DialWarm(c) ==
    /\ pc[c] = "warm"
    /\ Fail(c) \/ (~cancelled[c] /\ Connect(c))
    /\ DialOthers

----
Tick == /\ Live # {}
        /\ entries' = [k \in DOMAIN entries |-> IF k \in Live THEN entries[k] + 1 ELSE entries[k]]
        /\ UNCHANGED <<inFlight, closed, pc, job, ip, wait, ok, cancelled, confirmed>>

Step(c) ==
    \/ Seen(c) \/ BeginConfirm(c) \/ WaitClosed(c) \/ WaitCancelled(c)
    \/ DialFirst(c) \/ DialRetry(c) \/ DialAgain(c) \/ ConfirmOK(c) \/ ConfirmFails(c)
    \/ Finish(c) \/ Close(c) \/ AfterFailure(c) \/ DialClient(c) \/ DialWarm(c)

Next == Tick \/ \E c \in Callers : Open(c) \/ Cancel(c) \/ Step(c)

Spec == Init /\ [][Next]_vars

\* A goroutine that can run does; dials and the DNS exchange have deadlines.
\* Nothing forces a client to connect, to go away, or time to pass.
FairSpec == Spec /\ \A c \in Callers : WF_vars(Step(c))

----
(* Properties                                                               *)

\* At most one goroutine warms up an exit IP at a time.
OneLeader == \A c, d \in Callers :
                Leading(c) /\ Leading(d) /\ ip[c] = ip[d] => c = d

\* inFlight names exactly the exit IPs being warmed up, with the leader's own channel.
FlightsHaveLeaders ==
    /\ \A c \in Callers : Leading(c) => /\ ip[c] \in DOMAIN inFlight
                                        /\ inFlight[ip[c]] = wait[c]
    /\ \A k \in DOMAIN inFlight : \E c \in Callers : Leading(c) /\ ip[c] = k

\* An exit IP under confirmation is not in the cache, so finishConfirm never counts the
\* entry it replaces against maxSize.
NeverWarmInFlight == DOMAIN entries \cap DOMAIN inFlight = {}

(* An exit IP that needs it is warmed up by one goroutine at a time         *)
(* (TestBeginConfirmSerializesSameIP tries it with two), visibly to         *)
(* beginConfirm for as long as it takes and no longer; one found cold by a  *)
(* goroutine that looks twice, and warm by then, is not.                    *)
FlightsSound == OneLeader /\ FlightsHaveLeaders /\ NeverWarmInFlight

(* close panics on a closed channel: the channel a leader is going to close *)
(* is open, and no other leader is going to close it.                       *)
CloseOnce == \A c \in Callers : Leading(c) \/ Closing(c) =>
                /\ wait[c] \in Chans \ closed
                /\ \A d \in Callers : (Leading(d) \/ Closing(d)) /\ wait[d] = wait[c] => c = d

(* No lost wake-up: a waiter's channel is closed already, or its leader is  *)
(* still on the way to closing it.                                          *)
WaitersCovered == \A c \in Callers : pc[c] = "wait" =>
                     \/ wait[c] \in closed
                     \/ \E d \in Callers : (Leading(d) \/ Closing(d)) /\ wait[d] = wait[c]

(* The warm set never outgrows maxSize.                                     *)
CacheBounded == Cardinality(DOMAIN entries) <= MaxSize

(* Only an exit IP that some warm-up proved is ever taken for warm, and so  *)
(* only such an IP is dialled without the cold retry.                       *)
WarmIsConfirmed == /\ DOMAIN entries \subseteq confirmed
                   /\ \A c \in Callers : pc[c] = "warm" => ip[c] \in confirmed

(* "A new exit IP is confirmed internally first [...] before SOCKS5/HTTP    *)
(* CONNECT is handed to the client" (README.en.md:242).                     *)
HandedConfirmed == \A c \in Callers : pc[c] = "conn" => ip[c] \in confirmed

(* Every open returns, whatever its leader's fate.                          *)
OpenReturns == \A c \in Callers : pc[c] \notin Returned ~> pc[c] \in Returned

----
(* The in-flight table implements SingleFlight: the captain of an exit IP   *)
(* is the leader warming it up, its riders the callers blocked on the        *)
(* leader's channel while the entry is in the map.                           *)
Captain == [k \in IPs |-> IF k \in DOMAIN inFlight
                          THEN CHOOSE c \in Callers : Leading(c) /\ ip[c] = k
                          ELSE NoChan]
Rides(c, k) == k \in DOMAIN inFlight /\ pc[c] = "wait" /\ wait[c] = inFlight[k]
Riders == [k \in IPs |-> {c \in Callers : Rides(c, k)}]

Flight == INSTANCE SingleFlight WITH
    Keys <- IPs, Nobody <- NoChan, captain <- Captain, riders <- Riders

(* With fair goroutines, flights take off, carry riders and land as          *)
(* SingleFlight says, though the unlock of finishConfirm and the close of    *)
(* its channel are two steps and the next flight may take off in between.    *)
SingleFlightSpec == Flight!SFSpec
====

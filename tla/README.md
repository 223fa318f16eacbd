# TLA+ verification of go-proxy-ipv6-pool

The program is an HTTP and SOCKS5 proxy that gives every request, or every sticky
session, an IPv6 exit address of its own. Accounts and sticky sessions live in Redis;
the warm-up state of exit addresses, the rate limiter, the ban list and the list of
listeners live in the process, shared by a goroutine per connection and a goroutine
per admin request. This directory holds TLA+ models of that shared state, the TLC runs
that check them, and TLAPS proofs of what matters most for any number of goroutines.

## 1. The system

| Component | Source | State | Operations | Hard about it |
|---|---|---|---|---|
| IPv6 opener, warm cache | `internal/proxy/dial.go`, `ndp.go` | `entries`, `inFlight` under `cache.mu`, a channel per warm-up | `open`, `ensureWarm`, `warmupExit`, `confirmDial`, `dialClient`, `Seen`, `beginConfirm`, `finishConfirm` | single flight over a mutex and channels; cancelled leaders; the unlock and the `close` are two steps; eviction |
| Redis store, sticky sessions | `internal/store/store.go`, `internal/session`, `proxy/runtime.go`, `admin/accounts.go` | `acct:*`, `accts`, `sess:*`, `sessidx:*` | one Lua script, and account and session operations of several commands each | commands of other goroutines in between; TTLs; a command of several that fails |
| Rate limiter | `internal/ratelimit`, `admin/accounts.go`, `cmd/server/main.go` | custom limits, a window of time stamps per account | `Allow`, `SetUserLimit`, clean-up | two places that keep a limit (Redis and the process); restarts |
| IP ban list | `internal/auth/ipban.go` | failures, bans and whitelist by address | `IsBanned`, `RecordFailure`, ban, unban, whitelist | check and report are two calls; two expiries |
| Port manager, listeners | `proxy/portmgr.go`, `Start`/`Stop` of `server.go`, `socks5.go` | entries, two unguarded fields shared with goroutines | `Expand`, `StopPort` | a stop that races the goroutine it stops |
| Proxy requests | `proxy/server.go`, `socks5.go`, `dialTarget` | per request: two sockets, a deadline, two copies | `ServeHTTP`, `handleConnect`, `handleHTTP`, `handleConn`, `handleRequest`, `relay` | a setting read early and used late; two copies of which one is awaited; who closes what |
| Legacy address pool | `internal/ippool` | addresses, in-memory sessions, domain rules, rule file | `Resolve`, `Lookup`, rules, prefixes, `Expand` | indices into an address list that grows; a division by its length |
| Traffic log | `internal/trafficlog` | a bounded slice | `Record`, `List`, export | the bound; who logs what when |
| Admin panel | `internal/admin` | login tokens | `apiLogin`, `validateSession`, `apiLogout`, the handlers of the other components | a token looked up under one lock and deleted under another; its ban list is the proxies' |
| Username grammar | `internal/credential`, `runtime.Admit`, `admin/accounts.go` | none | `Parse`, `ApplyDefaults`, `FormatUsername`, generated credentials | values that are keywords; accounts that change between generation and use; TTL clamping |
| Exit addresses | `internal/ipgen`, `session/resolve.go` | none | `ParsePrefix`, `Random`, `RandomFrom` | prefixes that end within a byte |
| NDP sockets, routes, dashboard, web, start-up | `proxy/ndp_*.go`, `proxy/control_*.go`, `scripts`, `web`, `cmd/server` | none of their own | I/O, presentation, wiring | - |

How they interact. A request is looked up in the ban list, authenticated against Redis
and admitted by the limiter (`runtime.Admit`), its exit address is taken from the
enabled prefixes and, for a sticky user, bound in Redis by the script
(`session.Resolver`), and the connection is opened through the opener
(`dialTarget`, `dialIPv6`), with IPv4 as a fallback if the administrator allows it. Then
bytes are relayed and the outcome goes to the traffic log. Admin handlers change the
same Redis keys, the same limiter, ban list, port list and settings meanwhile. The
mutexes each protect one component; nothing protects a sequence of calls.

`PROJECT.json` lists the hazards of this code line by line. The ones that shaped the
models:

- goroutines that meet at a cold exit IP (`ndp.go:103`), a leader that fails, is
  cancelled or is overtaken between `Unlock` and `close` (`ndp.go:122`), a SOCKS5 waiter
  with no context to free it (`dial.go:94`);
- every admin operation on Redis is several commands (`store.go:211`, `:222`, `:303`,
  `:314`), while a client's is one;
- an answer computed before it is used: a candidate address, an account read, the IPv4
  setting, a ban check;
- the limiter is rebuilt at every start, the accounts are not; and a Redis write that half succeeds (`store.go:225-234`) makes
  the handler return before it tells the limiter (`accounts.go:137-140`);
- no `Write` of a tunnel or an upload has a deadline (`server.go:176`);
- the accept loop tells a stop from an error by a field (`socks5.go:66-75`).

## 2. Modules

| Module | Models | Proofs |
|---|---|---|
| `SingleFlight` | abstract: for each key at most one flight, with riders that all leave when it lands | |
| `IPv6Opener` | opener and warm cache; implements `SingleFlight` | `IPv6OpenerProofs` |
| `StickyMap` | abstract: key bound to one address on first use, for a window fixed then | |
| `StickyStore` | Redis, sticky clients, admin handlers; implements `StickyMap` | `StickyStoreProofs` |
| `RateLimit` | limiter, its callers, limits in Redis, restarts | `RateLimitProofs` |
| `IPBan` | the ban list by itself, for callers that come at any time | `AdminPanelProofs` |
| `AdminPanel` | logins, tokens and the requests of panel and proxies that share the ban list; extends `IPBan` | `AdminPanelProofs` |
| `PortManager` | port list, listeners' goroutines | `PortManagerProofs` |
| `ProxyRequest` | a request from arrival to the end of its goroutines | `GatewayProofs` |
| `Gateway` | both together: requests over connections that the listeners accept and a stop closes | `GatewayProofs` |
| `AddressPool` | legacy pool: addresses, in-memory sessions, domain rules and their file | `AddressPoolProofs` |
| `Credential` | the username protocol, as operators | `AdmissionProofs` |
| `ExitAddress` | masks and random hosts, as operators | `AdmissionProofs` |
| `Admission` | from a username to an exit address: accounts, generated credentials, `Admit`, `Resolve`; extends both | `AdmissionProofs` |

`MC<Module>` declares the model values and small sets a configuration chooses from. A
definition marked `Mutant:` is a plausible bug in the definition below it and part of no
specification; it is there to show that a property can tell the difference.

**IPv6Opener.** A caller is a goroutine in `open`. `entries` and `inFlight` are the maps
of the cache; each section under `cache.mu` (`Seen`, `BeginConfirm`, `Finish`,
`DialClient`) is one action, and each dial (`DialFirst`, `DialRetry`, `DialAgain`,
`DialWarm`), confirmation (`ConfirmOK`, `ConfirmFails`) and `Close` is another. `job`
tells which dial of the warm-up is under way: probe, then target, then the client's
own. Whether a dial succeeds, is retryable or returns a dead connection is chosen
freely. An entry's time stamp is an age that stops growing once it is past the TTL, so
the clock needs no bound. `Cancellable` callers have a request context (HTTP), the others have
`context.Background` (SOCKS5). `ToProbe` callers want the probe address itself, for
which `confirmDial` makes no second attempt.

**StickyStore.** One Redis command is one action, the Lua script is one (`EvalHit`,
`EvalMiss`). A client is admitted (`Auth`), gets a candidate (`Choose`) and runs the
script. A handler is a small program over `apc`: create and patch are a read and
`HSet`, `SAdd`; delete is a listing, a `Del`/`Unindex` per session, `DelAcct`, `SRem`;
clear and the listing walk all accounts; the operator `Where` says which command comes
next. `ListAccounts` repairs the set. With `Faults`, any command may fail, and the
handler then gives up or ignores it exactly where the code does. `fresh` and `owed` are
history variables: the session a client was answered from still lives; the sessions a
purge has yet to end.

**RateLimit.** A client reads its account and then asks `Allow`; a handler gives Redis two commands (`Put`, `Index`)
and then calls `SetUserLimit` (`Sync`). After the first command it may also `Fail`, as when `HSet` is done and `SAdd`
is not: it then returns, and the limiter is never told. `Restart` loses the process and keeps Redis. A window is
kept by its cumulative counts, as is `IPBan`'s list of failures: how many of its time stamps are at most so
old, which is all that trimming and counting ask. `Largest` bounds every limit. `log`, `peak`, `saved` and `torn` (the accounts whose last write broke off) are history.

**IPBan** has one action for each method, since each is one critical section. A list of failures is
kept by its cumulative counts: `failures[ip][age]` is how many are at most that old, which is
all that `RecordFailure` asks. Stripping the port from an address is part of the address. `tries` is history.

**AdminPanel.** A request to a proxy or to the panel begins with `IsBanned` (`Arrive`) and
ends in `RecordFailure` (`Fail`), success or neither (`GiveUp`), any time later. `Login` issues a
token; a guarded request is checked by `Validate` and, if its token has expired, by
`DeleteExpired` under the other lock; one that is let in logs out, edits the ban list, clears
the traffic log or returns. What the handlers of accounts, prefixes, rules, ports and the fallback do is in the
modules of those components. `life` is history: the age of a token since its login.

**PortManager.** The goroutine of each listener is `proc`; `ref` is the field
`httpServer` or `listener` that it sets and `Stop` reads without a lock. `found` is history: the listeners whose stop read
a server there. A `Close` may return an error, and then the entry goes on saying "running" (`Report`).

**ProxyRequest.** `pc` is the handler, `cli` and `up` the two sockets, `copying` the two
copies of a tunnel; `blocked` are those of them, or the upload of a plain request, whose `Write` waits for a peer that does
not read (`WriteBlocks`, `PeerReads`). `Owned` says which of these exist at which `pc`. The dial of a plain request runs in its transport's goroutine, which
the handler may leave behind (`Abandon`): the read of `lastDR` that follows is
unsynchronised, so the entry may say either family. Admission and the IPv6 dial are
chosen freely here; the other modules say how they come about.

**Gateway** instantiates `PortManager` beside `ProxyRequest`. `Take` is the accept loop handing a
connection to a goroutine; no handler steps before it. The two components meet in
`StopListener`: `http.Server.Close` closes the connections it tracks, those with a handler that are not
hijacked, and perhaps ones just accepted; to the handler that reads as a client that left. It `Notices` that, with one
exception: net/http watches a connection only once the request's body is read to its end, so a handler whose upload hangs in a
`Write` to the target notices nothing. `cut` is history.

**AddressPool.** The pool keeps the host numbers of each prefix's addresses (`hosts`),
from which `rebuildAddrs` concatenates those of the enabled prefixes (`Addrs`); hashes are
constants. `EachPrefixOnce` is assumed: of a prefix that is configured twice `New` keeps the addresses
once and lists the prefix twice, with a count each, for which `count` has no place. The offsets of an empty pool (`Offsets`) come first, as in
the code's early return, since the strategies' cases are about at least one address. `ResolveRule` and `ResolveSticky` are the two ways through `Resolve`. A handler that changes the
rules makes three steps, since the file is written from a snapshot outside the lock, and a write may fail, leaving the file
as it was or torn. A call that panics is lost, except that a round-robin counter has moved.

**Credential** reads a username as the sequence of words between its underscores, which is exact: `_sid_` occurs where
a word other than the first and last is `sid`, and the keyword found inside another's value is a word after
a keyword (`Marks`). What the code asks of single words is given by constants:
which begin with a letter or digit, which are legal in a name, which are sids, numbers, hashes. `CredentialConstants`
assumes of them only what those regular expressions imply, such as that a keyword has no capitals.

**ExitAddress** has bytes of any number of bits; the code has 16 of 8. `Random` is the set of what
may come out, and `Within` says by value what it should be. `Power` is 2 to the n, as a recursive function.

**Admission.** An administrator creates, patches and deletes accounts and toggles prefixes
while a user writes a username (`ByHand`), or uses a credential generated earlier (`ByLine`), and the request is
admitted (`Arrive`) and resolved (`Resolve`). `meant` is history: what `README.en.md:181-185` says
of the username, computed from its fields (`Asks`) and not from the code's reading: a sid is sticky unless the mode is rotate, no sid
rotates. A generated line is held to the mode it was generated for. The document knows no headers; where the code
lets one bring a sid to a username that has none and does not say rotate (`Settled` tells), nothing is said: `meant` is `Unsaid`, and so it is for names that are not `Plain` (see 6). `Legible` says what a user may write: any sid,
number and mode, after fields of zone, st and city, whose first word may be a keyword (`_zone_sid_time_5`) and
whose others may not; what else such a field may hold is up to the user.

## 3. Runs

| Run | Instance | Shows |
|---|---|---|
| `opener_safety` | 3 callers, 2 exit IPs, cache of 1, symmetric | one leader per IP, channels closed once, no waiter left, cache bounded and truthful |
| `opener_fair` | 2 callers, 1 IP, fair | implements `SingleFlight` with its landing; every `open` returns |
| `opener_handed` | 2 callers, 1 IP | violation, see 6 |
| `sticky_fair` | 2 clients, 1 handler, 1 session key, 2 prefixes, failing commands, fair | implements `StickyMap`; one exit per live session; deleted accounts and disabled prefixes drain |
| `sticky_admin` | 2 accounts x 2 sids, 1 client, 1 handler, no failures, symmetric in accounts and sids | clear and delete miss nothing (`PurgesAreComplete`); the set has the accounts with a hash and no others |
| `sticky_index` | 1 client, 1 handler | violation, see 6 |
| `rate_limit` | 2 accounts, 2 clients, 1 handler, writes that break off, restarts, symmetric in clients | window cap under interleaved trims and limit changes; Redis and limiter agree on accounts whose write did not break off |
| `rate_restart` | 2 accounts, 1 client | violation, see 6 |
| `admin_panel` | 1 address, 2 requests, 2 tokens, threshold 3, window 3, fair | bounded guesses and lists, refusal at the threshold, clean whitelist, lockouts end, a token lets in exactly while it should |
| `address_pool` | 4 prefixes: two that grow, a /128, one spelled with `::`; 1 session, 1 rule, 1 handler | sessions leave disabled prefixes, rounds repeat nothing, addresses are distinct (in `TypeOK`), saved rules survive |
| `gateway` | 1 request of each kind, 1 pair of listeners besides the main ones, fair | a listener serves until stopped, and then for good does not; requests it cuts off end; IPv4 only when allowed, truthful log, handshakes and tunnels end; peers may stop reading |
| `admission` | 1 client, an account whose name has an underscore and one whose name is refused, 2 prefixes, addresses of 2 bytes of 2 bits, usernames with every field and with keywords as values | usernames mean what the project's `README.en.md` says, generated credentials work, exits match their prefix |

Why these bounds. *Opener*: a third caller is what takes off the next flight while the first leader
has unlocked but not closed and its waiter has not woken; two IPs and a cache of one
force both evictions. `opener_handed` has no caller of the probe address, so that its leader makes both the probe's and the
target's dial. A TTL of 0 ticks still has fresh and expired entries. With fairness,
which rules out symmetry, two callers suffice for a leader and a waiter. *Store*: the four
session keys are two of one account and two of another, so that a walk has a next session and
a next account; the client and the TTL change them under the walk, and one address is enough since
those properties do not look at it. For sameness of exits two clients, two addresses and
one key are the point. A window of 2 lets a TTL be shortened
without ending. *Limiter*: a limit of 2 and a default of 1, which is also what a limit of 0 falls back to, go up and down past a
window's contents; a window of two ticks has present, older and stale stamps. Two accounts tell the one that a write broke off of
from the other. *Admin panel*:
addresses share nothing but the whitelist's type, so one suffices; two requests in flight let one fail after the
other's failure has banned the address, and one delete a token that the other is about to show; a window of 3 has a
ban outlast the older failures. *Gateway*: requests share only the IPv4 setting, which the run toggles at will, and
the listeners of a pair differ in kind only; one connection and one pair give every order of
their steps, and the theorems are about any number. *Admission*: prefixes of 4 and 3 bits out of 4 end at a
byte's boundary and within one, and `ExitsMatchPrefix` tries every other length on their addresses; account settings and
lifetimes lie below, within and above what is granted.
*Pool*: three prefixes contribute addresses, so
that an expansion of 4 shared by three of them has a remainder, and prefixes before, between
and after the picked one come and go; a rule for 3 is cut when fewer are left; a counter of 4 passes a
whole round; sessions and rules do not depend on each other, so one of each will do. `TTL` is 1
as in the package's tests (`main` passes 0, which removes expiry only).
Deadlock is switched off where callers, clients or the administrator may simply have nothing left to do
(opener, store, gateway); the limiter, the panel and the pool can always tick, an administrator of `Admission` can
always change something, and it is checked there.

## 4. Fairness

Only what the program and its runtime owe is assumed. A goroutine that can run does;
dials, lookups and the DNS exchange have time-outs (`dial.go`), so they end; a
deadline that was set fires; Redis answers, be it with an error, and its TTLs run out.
Fairness is on the *step* of a goroutine, never on a particular
outcome: no dial has to succeed. Nobody has to connect, to send or read a byte, to close a
connection, to be cancelled or to call the admin API. That is why `HandshakesEnd` is about the handshake,
`Admit` and the dial only: the read of the SOCKS5 request header has no deadline (`socks5.go:111`), nor has the wait for a
target's answer (`server.go:204`). `StopsForGood` speaks of a stop that found its server.

It is weak except for the copies of a tunnel and for a request as a whole. A copy whose source is at EOF or closed has a
finite rest to write; each `Write` of it may wait for a peer that does not read, so that the copy can end time and again
and not always. `SF(CopyEnds)` says that it ends if its peer reads time and again. If the peer never reads again, the copy
does not end until its own sink is closed under it, and nothing is assumed. `TunnelsEnd` and
`CutRequestsEnd` state that condition (`PeersKeepReading`); without it the code does not have them. `GatewayFair` asks of the
listeners that some goroutine that can run does, and of each request that some goroutine that can run time and again does. `PanelFair` asks only that time
goes on: `LockoutEnds` needs no client to do anything.

## 5. Proofs

All are safety facts, for every value of the constants that satisfies the named
`ASSUME` of the module (types, nonzero sizes, `NoX` outside `X`). Each module has an
inductive invariant, proved by one step per action; `PROJECT.json` lists the theorems.

**`IPv6OpenerProofs`.** The properties are not inductive one by one: that a channel is
closed once needs that two leaders never hold the same channel, which needs that an
entry of `inFlight` is its leader's own channel, which needs one leader per IP; that a waiter is
covered needs the converse, that every entry has a leader. `FlightsSound` states the three together. `IInv` is `TypeOK` with these, what is known
of a caller between its critical sections, and the cache facts. The bound on the cache rests on
`NeverWarmInFlight`: the IP that is marked is not one of the entries counted. Finiteness
of the set of entries is part of the invariant; nothing is assumed about the number of
callers. `ImplementsSingleFlight` maps initial states and steps to the abstract
specification without its fairness.

**`StickyStoreProofs`.** `TypeCorrect` carries the invariant that a session has a TTL exactly
when it has an address. From it and the script's atomicity follow `SidKeepsExit`, for any number of
clients *and admins*, and `ImplementsStickyMap` (safety part). `AccountsStayListed` and `PurgesComplete` are
about one administrator whose commands succeed, which are the theorems' hypotheses: with two, or after a failure, the code does
leave accounts unlisted and purges incomplete. `AdminInv` holds what such a handler knows between two commands: which operation is at
which command (`OpAt`); that a name enters the set only after its hash is written and leaves it only after the hash is gone, so that the one
account where the two differ is the one the handler is at (`Listed`); and that a session the purge still owes has
been live and indexed since the purge began, so that nothing the purge removes from the index is one it owes, and that
every session it owes is still ahead of it, in an account to visit, a sid to read or a sid to delete (`Owes`).

**`PortManagerProofs`.** `Sound` says why a steady listener (running, not being stopped) serves: an HTTP one
is not marked, a SOCKS5 one's field is set, so the accept loop does not take an error for a stop: each of these changes only by
a stop that found the listener's server, and then the listener is in `found`.

**`GatewayProofs`** begins with the requests by themselves. `IInv` adds to `TypeOK` three facts per request: *Allowed* (the
argument `allow`, and so a dial over IPv4, implies `since`), *Stage* (which of socket, family and copies exist at
which `pc`) and *Entry* (whether the log has an entry yet, and that it names the family of the connection, failed requests' entries
included; only that of a plain request whose client left during the dial, or was cut off, may name the other). `LogTruthful` and
`FallbackGuarded` follow. Then it carries them and the listeners' invariant over to the composition. Each step is one of the port manager's or leaves it alone
(`ManagerSteps`), and one of a request's, or a disconnection, which keeps the requests' `IInv`
(`DisconnectKeeps`). So neither invariant is proved anew. `Accepted` relates the two parts.

**`AdminPanelProofs`.** `ThresholdRefuses` is not inductive: a ban might expire a tick before the failures do. `BanCovers`
strengthens it to every age: if a threshold of failures is at most so old, so is the ban. The proof is about `BanSpec`, where
anyone calls anything; `PanelUsesBanList` shows that panel and proxies implement it, and what they inherit is
`PanelBansSound`. `TokensExact` rests on `TokensHonest`: a token in the map is as old as its login, and who is about to
delete one found it expired, which it stays.
`FewGuessesWithinAWindow` bounds the passwords an address can try within a window by the threshold and the requests in flight,
for any finite number of them (`GuessInv`). A ban that runs out takes its failures from the record, but the attempts
were made; so `Counted` keeps the two counts apart, by no more than were in flight when the ban fell, and `ShutOut` says that
while a ban stands the attempts made since it fell and those still to come are together of those requests, less
the one that made it fall.

**`RateLimitProofs`.** `LimitKept` is about one administrator at a time, which is an assumption of the theorem: two
handlers that overlap can leave the limiter and Redis in disagreement. So can one, if its write breaks off: of such an account
`LimitInForce` says nothing until it is saved again (`torn`). `InStep`: a
handler carries to the limiter what it wrote to Redis, and no account outside `torn` has missed that. `AdmissionsCapped` is about any number. `WindowCapped` counts the
admissions of the last minute, which is history; `CountsAgree` strengthens it to equality with the window's time stamps at every
age that still counts, whoever trims and whenever, and bounds the limit in force by the peak.

**`AddressPoolProofs`.** `RulesKept` is about one administrator too. `Filed`: the snapshot about to be written is of the rules as they are, and what is on
disk is a form that loading and saving again does not change. The other theorems are about any number, from `PoolInv`:
*Numbered* (a prefix has exactly the addresses its count says, in order, so none twice), *Exits* (a session leaves
through an address that an enabled prefix has), *Keeps* (a rule, in memory or saved, exists only where the pool can have
addresses, for the pool divides by their number), *Rounds* (what a round has
picked is a stretch of the address list, from the rule's start on, which cannot repeat before it is through) and *Plain* (the
other variables' types). `SessionsOnEnabled` follows from *Exits* and `RoundRobinFair` from *Rounds*. What `FlattenSeq` makes of the prefixes' address lists (`FlattenSeqIs`: it has
exactly their elements, none twice) and that nearby places have different remainders are
proved by a least counterexample, for which `WFMin` of the library does.

**`AdmissionProofs`.** `UsernamesAsDocumented` and `GeneratedWork` speak of any `Plain` account names, any values and ignored fields, and any
headers but one that has a sid when the username has none and does not say rotate. `AdmissionInv` adds to
them that accounts have settings as `normalizeAccount` leaves them and accepted names (*AccountsNormal*) and that a generated line
was written for such a name (*LinesGenerated*); that is what `ByHand` and `ByLine` need, since the account may have changed
since. The rest is about `Parse`: `Reads(raw, name, K)` says that the fields of a username begin at the places `K` and the
account is what comes before; appending a field keeps it (`ReadsPair`, `ReadsGeo`), and the places that the code's scan marks are the only
ones that can be so (`ReadsMarks`, by a least place where two markings differ). `TypesHold` and `ExitsFillTheirPrefix` rest on
`TypeInv`, which adds to `TypeOK` what `Admit` may grant, and on `RandomIsWithin`: to agree with a prefix by value is to agree
with it byte by byte up to the boundary's byte and by quotient within that one (`WithinIsAgree`), which is what
the masks do. The value of the first k bytes is what is left of the whole value when the other bytes are divided away
(`Chain`). Addresses have any number of bytes of any width.

Recursive functions (the marks, the value of an address, `Power`) are proved to exist and to be unique by a least counterexample: the
library's induction theorems are not usable here.

**Model-checked only.** Liveness and the fairness parts of both refinements are out of the prover's reach: `OpenReturns`, `LockoutEnds`,
`StopsForGood`, `HandshakesEnd`, `TunnelsEnd`, `CutRequestsEnd`, `DeletedAccountsDrain`, `DisabledPrefixDrains`, and the fair halves of
`SingleFlightSpec` and `StickyMapSpec`. Every invariant that a passing run checks is stated by a theorem.

## 6. Findings

- **`opener_handed`.** `README.en.md:242` says that an exit IP is confirmed before the
  tunnel is handed over. After a failed warm-up `open` goes on (`dial.go:76`), and a
  waiter goes on whatever its leader's result (`dial.go:94`): the client may get a connection over an exit
  IP that nothing confirmed.
- **`sticky_index`.** `DeleteSticky` deletes the session and then its index entry
  (`store.go:313-318`); a client in between re-creates both, and loses the entry: a live session that
  the page (`README.en.md:228`) does not list, and that neither kick-all nor an account's
  deletion ends.
- **`rate_restart`.** At start the limiter learns the default account's limit only
  (`main.go:94-100`); a limit set for another account is shown but not in force until it is saved again.

One flaw is left out of a property rather than found by a run, since no document speaks of it: `ValidAccountName`
(`parse.go:42`) refuses names with `_sid_`, `_time_`, `_mode_` and `_zone_` in them, but not `_st_` and `_city_`, nor names that end in a keyword or in
`-mid_` and 64 digits. Such an account can be created, and its own username, or one generated for it, is then read
as another account's. `UsernamesAsDocumented` and `GeneratedWork` are about the other names (`Plain`).

The same two properties leave out headers that bring a sid. `README.en.md:184` says "No `sid` → rotate", and knows no headers.
`Admit` (`runtime.go:57-58`) looks at `X-Fingerprint` and `X-Sticky-Key` if the username has no sid and is sticky all the same, by `_mode_sticky`
or by its account's default, and serves it sticky if one of them has a sid. A credential generated as rotate is the bare account name
(`parse.go:162`), so once the account's default is patched to sticky such a header makes that credential sticky, too.
The model has this behaviour (`Admitted`); no run is made of it, since a header the document never mentions is neither promised nor excluded by it.

The models also have behaviour that no document speaks against, and which therefore no
property is stated of; `PROJECT.json` notes most of it. Disabling a prefix purges the pool's in-memory sessions, as its
comment says (`pool.go:286`), but the proxy's are in Redis and stay in the prefix until their TTL:
`DisabledPrefixDrains` shows that they end. A prefix spelled as in `README.en.md:97`, with `::`, gives the legacy pool no
address at all, and adding a domain rule then panics in its handler. Two concurrent admin handlers, or one whose write breaks off, can leave an account unlisted or
the limiter and Redis in disagreement; two concurrent patches of an account lose one of them (`store.go:167`); a write of the rules file
that is cut short loses all rules at the next start, for it is written in place (`pool.go:650`), and `RulesDurable` is about the
writes that succeeded; a peer that stays without reading holds a tunnel, and an upload outlives the stop of its port; a stop that
comes before its goroutine's assignment closes nothing; a listener that never came up is
shown as running; an authenticated SOCKS5 client may stay silent for ever; each plain
HTTP request leaves its idle connection to the target's mercy; a half-closed tunnel is cut.

## 7. Not modelled

- Neighbor Advertisement, dead-connection probe, routes (raw sockets, `ip(8)`): their
  outcome is what the opener's dials choose.
- Statistics, byte counts, wire formats, header wording, the web pages.
- A limiter switched off (`-rate-limit 0`) and negative limits; the two main listeners, which
  are never stopped: requests come by them, but they have no start or end.
- The spelling of prefixes and addresses (`net.ParseIP`), but for the legacy pool's `::`; the randomness of sids and tokens: new ones are new.
- Legacy single-user authentication, the fallback dashboard, start-up flags: no state, or a constant, or wiring.
- Two handlers of accounts, limits or rules that overlap are in the modules, but not in the runs: the disagreements they leave are listed in 6.

## 8. Plan

Every component with state of its own is modelled. What could come next:

1. `LiveSessionsListed` for walks that overlap no client, as a theorem.
2. `StickyStore` and `Admission` meet: that what `Admission` takes as one step of Redis is what the commands of `StickyStore` come to.
3. A store with two administrators in a run that states which of their interleavings are tolerable, and a theorem for it.

## 9. Running

`tlc -config MCOpenerSafety.cfg MCIPv6Opener` and so on for each run of `PROJECT.json`
(module and configuration are listed there); the longest takes about two minutes with two workers.
`tlapm M.tla` for each module whose name ends in `Proofs`.

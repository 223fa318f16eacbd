---- MODULE ProxyRequest ----
(***************************************************************************)
(* The life of a proxied request (internal/proxy: ServeHTTP with its       *)
(* handleConnect and handleHTTP in server.go, handleConn with negotiate,   *)
(* authenticate, handleRequest and relay in socks5.go, dialTarget in       *)
(* dial.go), from its arrival to the end of its goroutines, against        *)
(* clients and targets that speak, close or fall silent when they like and *)
(* an administrator who toggles the IPv4 fallback.                         *)
(*                                                                         *)
(* What Admit and IsBanned answer is chosen freely here; RateLimit,        *)
(* StickyStore and IPBan say how it comes about, and IPv6Opener how an     *)
(* IPv6 dial goes. Statistics are left out.                                *)
(***************************************************************************)
EXTENDS Naturals, Sequences

CONSTANTS Conns        \* requests, each served once

Kinds == {"connect", "plain", "socks5"}
Families == {"v6", "v4"}
Ways == {"out", "in"}    \* client to target and back

VARIABLES
    allowIPv4,  \* Runtime.AllowIPv4
    kind, pc,   \* a request and where its handler is
    deadline,   \* SOCKS5 connections with a deadline set
    allow, dns, \* dialTarget's allowIPv4 argument and the families it looked up
    cli, up,    \* the two sockets: "open", "eof" (the peer sent FIN), "closed" by us
    fam,        \* history: the family that up was dialled over
    copying,    \* the running copies of a tunnel
    blocked,    \* those of them, or a plain request's upload, whose peer does not read
    log,        \* history: the request's entries in the traffic log
    since       \* history: "none", or whether AllowIPv4 was "on" since the dial began

dialling == <<allow, dns, fam, since>>
copies == <<copying, blocked>>
vars == <<allowIPv4, kind, pc, deadline, allow, dns, cli, up, fam, copying, blocked, log, since>>

Types == {"ipv6", "ipv4_fallback"}
Entries == [success : BOOLEAN, exit : Types]
DialPCs == {"lookup", "v6", "v4"}

\* A plain request's transport may still be writing its body to the target.
Uploads(c) == kind[c] = "plain" /\ pc[c] \in {"sent", "reply"}

(* The sockets, the copies and the deadline belong to the stage the handler  *)
(* is at: a tunnel's handler that is past its relay has closed both ends,    *)
(* and what is blocked is a copy that runs or an upload under way.           *)
Owned(c) ==
    /\ copying[c] # {} => kind[c] # "plain" /\ pc[c] \in {"relay", "done"}
    /\ blocked[c] \subseteq IF Uploads(c) THEN {"out"} ELSE copying[c]
    /\ pc[c] = "done" /\ kind[c] # "plain" => up[c] \in {"none", "closed"}
    /\ pc[c] = "done" /\ kind[c] = "socks5" => cli[c] = "closed"

(* Types, and that a deadline guards exactly the handshakes.                 *)
TypeOK ==
    /\ allowIPv4 \in BOOLEAN
    /\ kind \in [Conns -> Kinds]
    /\ pc \in [Conns -> {"idle", "negotiate", "admit", "request", "dial", "hijack", "sent",
                         "relay", "reply", "done"} \cup DialPCs]
    /\ deadline = {c \in Conns : pc[c] = "negotiate"}
    /\ allow \in [Conns -> BOOLEAN]
    /\ dns \in [Conns -> SUBSET Families]
    /\ cli \in [Conns -> {"open", "eof", "closed"}]
    /\ up \in [Conns -> {"none", "open", "eof", "closed"}]
    /\ fam \in [Conns -> Families \cup {"none"}]
    /\ copying \in [Conns -> SUBSET Ways]
    /\ blocked \in [Conns -> SUBSET Ways]
    /\ log \in [Conns -> Seq(Entries)]
    /\ since \in [Conns -> {"none", "off", "on"}]
    /\ \A c \in Conns : Owned(c)

Init ==
    /\ allowIPv4 \in BOOLEAN
    /\ kind \in [Conns -> Kinds]
    /\ pc = [c \in Conns |-> "idle"]
    /\ deadline = {}
    /\ allow = [c \in Conns |-> FALSE]
    /\ dns = [c \in Conns |-> {}]
    /\ cli = [c \in Conns |-> "open"]
    /\ up = [c \in Conns |-> "none"]
    /\ fam = [c \in Conns |-> "none"]
    /\ copying = [c \in Conns |-> {}]
    /\ blocked = [c \in Conns |-> {}]
    /\ log = [c \in Conns |-> <<>>]
    /\ since = [c \in Conns |-> "none"]

Goto(c, l) == pc' = [pc EXCEPT ![c] = l]
Exit(c) == IF fam[c] = "v4" THEN "ipv4_fallback" ELSE "ipv6"
Record(c, good, exit) == log' = [log EXCEPT ![c] = Append(@, [success |-> good, exit |-> exit])]

\* The handler returns: handleConn's deferred Close, and nothing for net/http's
\* connection, which is the server's.
Return(c) == /\ Goto(c, "done")
             /\ cli' = [cli EXCEPT ![c] = IF kind[c] = "socks5" THEN "closed" ELSE @]
             /\ deadline' = deadline \ {c}

----
(* The environment                                                          *)

\* apiIPv4Fallback
SetIPv4Fallback ==
    /\ allowIPv4' = ~allowIPv4
    /\ since' = [c \in Conns |-> IF pc[c] \in DialPCs THEN "on" ELSE since[c]]
    /\ UNCHANGED <<kind, pc, deadline, allow, dns, cli, up, fam, copies, log>>

ClientEnds(c) ==
    /\ pc[c] \notin {"idle", "done"}
    /\ cli[c] = "open"
    /\ cli' = [cli EXCEPT ![c] = "eof"]
    /\ UNCHANGED <<allowIPv4, kind, pc, deadline, dialling, up, copies, log>>

TargetEnds(c) ==
    /\ up[c] = "open"
    /\ up' = [up EXCEPT ![c] = "eof"]
    /\ UNCHANGED <<allowIPv4, kind, pc, deadline, dialling, cli, copies, log>>

----
(* Before the dial                                                          *)

\* Mutant: no deadline for the handshake.
AcceptNoDeadline(c) ==
    /\ pc[c] = "idle"
    /\ \/ Return(c)
       \/ /\ Goto(c, IF kind[c] = "socks5" THEN "negotiate" ELSE "admit")
          /\ UNCHANGED <<deadline, cli>>
    /\ UNCHANGED <<allowIPv4, kind, dialling, up, copies, log>>
\* The ban list may send it away at once.
Accept(c) ==
    /\ pc[c] = "idle"
    /\ \/ Return(c)
       \/ /\ kind[c] = "socks5"
          /\ Goto(c, "negotiate")
          /\ deadline' = deadline \cup {c}
          /\ UNCHANGED cli
       \/ /\ kind[c] # "socks5"
          /\ Goto(c, "admit")
          /\ UNCHANGED <<deadline, cli>>
    /\ UNCHANGED <<allowIPv4, kind, dialling, up, copies, log>>

\* negotiate and authenticate: the client speaks, and Admit accepts it or not.
Negotiate(c) ==
    /\ pc[c] = "negotiate"
    /\ \/ /\ Goto(c, "request")
          /\ deadline' = deadline \ {c}
          /\ UNCHANGED cli
       \/ Return(c)
    /\ UNCHANGED <<allowIPv4, kind, dialling, up, copies, log>>

\* A read of the handshake ends in EOF or at the deadline.
HandshakeFails(c) ==
    /\ pc[c] = "negotiate"
    /\ cli[c] = "eof" \/ c \in deadline
    /\ Return(c)
    /\ UNCHANGED <<allowIPv4, kind, dialling, up, copies, log>>

\* ServeHTTP up to the dial: no credentials, refused, or admitted.
Admit(c) ==
    /\ pc[c] = "admit"
    /\ Return(c) \/ (Goto(c, "dial") /\ UNCHANGED <<cli, deadline>>)
    /\ UNCHANGED <<allowIPv4, kind, dialling, up, copies, log>>

\* handleRequest up to the dial; nothing but the client ends the read of its header.
Request(c) ==
    /\ pc[c] = "request"
    /\ Return(c) \/ (Goto(c, "dial") /\ UNCHANGED <<cli, deadline>>)
    /\ UNCHANGED <<allowIPv4, kind, dialling, up, copies, log>>

----
(* dialTarget, by the handler or, in handleHTTP, by a goroutine of its       *)
(* transport                                                                *)

\* The setting is read as the argument is evaluated.
StartDial(c) ==
    /\ pc[c] = "dial"
    /\ allow' = [allow EXCEPT ![c] = allowIPv4]
    /\ since' = [since EXCEPT ![c] = IF allowIPv4 THEN "on" ELSE "off"]
    /\ Goto(c, "lookup")
    /\ UNCHANGED <<allowIPv4, kind, deadline, dns, cli, up, fam, copies, log>>

\* dialTarget is over, and its locals with it.
Dialled(c) == /\ allow' = [allow EXCEPT ![c] = FALSE]
              /\ dns' = [dns EXCEPT ![c] = {}]

\* An error to the client, and an entry that says "ipv6" whatever was tried.
DialFails(c) == /\ Dialled(c)
                /\ Return(c)
                /\ Record(c, FALSE, "ipv6")

\* Mutant: a target without IPv6 addresses is dialled whatever the setting.
LookupAnyway(c) ==
    /\ pc[c] = "lookup"
    /\ \/ DialFails(c)
       \/ \E F \in SUBSET Families \ {{}} :
             /\ dns' = [dns EXCEPT ![c] = F]
             /\ Goto(c, IF "v6" \in F THEN "v6" ELSE "v4")
             /\ UNCHANGED <<cli, deadline, allow, log>>
    /\ UNCHANGED <<allowIPv4, kind, up, fam, copies, since>>
\* LookupIPAddr, whose error or empty answer ends it, and the choice of a family.
Lookup(c) ==
    /\ pc[c] = "lookup"
    /\ \/ DialFails(c)
       \/ \E F \in SUBSET Families :
             /\ dns' = [dns EXCEPT ![c] = F]
             /\ "v6" \in F \/ (allow[c] /\ "v4" \in F)
             /\ Goto(c, IF "v6" \in F THEN "v6" ELSE "v4")
             /\ UNCHANGED <<cli, deadline, allow, log>>
    /\ UNCHANGED <<allowIPv4, kind, up, fam, copies, since>>

\* Connected: the target's socket is open, what follows is the handler's.
Connect(c, f) == /\ Dialled(c)
                 /\ up' = [up EXCEPT ![c] = "open"]
                 /\ fam' = [fam EXCEPT ![c] = f]
                 /\ Goto(c, CASE kind[c] = "connect" -> "hijack"
                              [] kind[c] = "plain" -> "sent"
                              [] kind[c] = "socks5" -> "reply")
                 /\ UNCHANGED <<cli, deadline, log>>

DialV6(c) ==
    /\ pc[c] = "v6"
    /\ \/ Connect(c, "v6")
       \/ /\ allow[c] /\ "v4" \in dns[c]
          /\ Goto(c, "v4")
          /\ UNCHANGED <<cli, deadline, allow, dns, up, fam, log>>
       \/ /\ ~(allow[c] /\ "v4" \in dns[c])
          /\ DialFails(c)
          /\ UNCHANGED <<up, fam>>
    /\ UNCHANGED <<allowIPv4, kind, copies, since>>

DialV4(c) ==
    /\ pc[c] = "v4"
    /\ \/ Connect(c, "v4")
       \/ DialFails(c) /\ UNCHANGED <<up, fam>>
    /\ UNCHANGED <<allowIPv4, kind, copies, since>>

\* The client of a plain request goes away during the dial: RoundTrip returns, and
\* the handler reads lastDR while the dial's goroutine may be writing it, so that
\* the entry may say either. That goroutine's connection, if it still comes about,
\* is left idle in a transport nobody has any more.
Reachable(c) == CASE pc[c] = "lookup" -> IF allow[c] THEN Families ELSE {"v6"}
                  [] pc[c] = "v6" -> {"v6"} \cup (IF allow[c] THEN dns[c] ELSE {})
                  [] pc[c] = "v4" -> {"v4"}
Abandon(c) ==
    /\ kind[c] = "plain"
    /\ pc[c] \in DialPCs
    /\ cli[c] = "eof"
    /\ \/ Record(c, FALSE, "ipv6") /\ UNCHANGED <<up, fam>>
       \/ \E f \in Reachable(c), t \in Types :
             /\ Record(c, FALSE, t)
             /\ up' = [up EXCEPT ![c] = "open"]
             /\ fam' = [fam EXCEPT ![c] = f]
    /\ Dialled(c)
    /\ Return(c)
    /\ UNCHANGED <<allowIPv4, kind, copies, since>>

----
(* After the dial                                                           *)

\* handleConnect: the tunnel's two copies start, or there is no hijacking and the
\* connection that was dialled is closed.
Hijack(c) ==
    /\ pc[c] = "hijack"
    /\ \/ /\ Goto(c, "relay")
          /\ copying' = [copying EXCEPT ![c] = Ways]
          /\ UNCHANGED <<cli, deadline, up, log>>
       \/ /\ Return(c)
          /\ up' = [up EXCEPT ![c] = "closed"]
          /\ Record(c, FALSE, Exit(c))
          /\ UNCHANGED copying
    /\ UNCHANGED <<allowIPv4, kind, dialling, blocked>>

\* handleRequest: reply, log, and into the relay.
Reply(c) ==
    /\ pc[c] = "reply"
    /\ kind[c] = "socks5"
    /\ Goto(c, "relay")
    /\ copying' = [copying EXCEPT ![c] = Ways]
    /\ Record(c, TRUE, Exit(c))
    /\ UNCHANGED <<allowIPv4, kind, deadline, dialling, cli, up, blocked>>

Source(c, way) == IF way = "out" THEN cli[c] ELSE up[c]
Sink(c, way) == IF way = "out" THEN up[c] ELSE cli[c]
EndCopy(c, way) ==
    /\ way \in copying[c]
    /\ copying' = [copying EXCEPT ![c] = @ \ {way}]
    /\ blocked' = [blocked EXCEPT ![c] = @ \ {way}]
    /\ UNCHANGED <<allowIPv4, kind, pc, deadline, dialling, cli, up, log>>

\* A copy ends when its source is at EOF or was closed under it, unless it hangs in
\* a Write, which only closing its sink under it ends: there is no write deadline.
CopyEnds(c, way) ==
    /\ Source(c, way) # "open"
    /\ way \notin blocked[c] \/ Sink(c, way) = "closed"
    /\ EndCopy(c, way)

\* ... or when there is something to write and its sink's peer has gone.
WriteFails(c, way) == Sink(c, way) # "open" /\ EndCopy(c, way)

\* The peer has stopped reading and the buffers are full ...
WriteBlocks(c, way) ==
    /\ way \notin blocked[c]
    /\ \/ way \in copying[c] /\ Sink(c, way) # "closed"
       \/ way = "out" /\ Uploads(c)
    /\ blocked' = [blocked EXCEPT ![c] = @ \cup {way}]
    /\ UNCHANGED <<allowIPv4, kind, pc, deadline, dialling, cli, up, copying, log>>

\* ... and reads again.
PeerReads(c, way) ==
    /\ way \in blocked[c]
    /\ blocked' = [blocked EXCEPT ![c] = @ \ {way}]
    /\ UNCHANGED <<allowIPv4, kind, pc, deadline, dialling, cli, up, copying, log>>

Close(c) == /\ cli' = [cli EXCEPT ![c] = "closed"]
            /\ up' = [up EXCEPT ![c] = "closed"]
            /\ Goto(c, "done")

\* Mutant: <-done twice.
RelayReturnsLate(c) ==
    /\ pc[c] = "relay"
    /\ copying[c] = {}
    /\ Close(c)
    /\ IF kind[c] = "connect" THEN Record(c, TRUE, Exit(c)) ELSE UNCHANGED log
    /\ UNCHANGED <<allowIPv4, kind, deadline, dialling, copies>>
\* The first copy that ends ends the tunnel: both sockets are closed, whatever the
\* other direction still had to say. ServeHTTP logs a tunnel when it is over.
RelayReturns(c) ==
    /\ pc[c] = "relay"
    /\ copying[c] # Ways
    /\ Close(c)
    /\ IF kind[c] = "connect" THEN Record(c, TRUE, Exit(c)) ELSE UNCHANGED log
    /\ UNCHANGED <<allowIPv4, kind, deadline, dialling, copies>>

\* Mutant: a RoundTrip that fails after its dial leaves no entry.
RoundTripUnlogged(c) ==
    /\ pc[c] = "sent"
    /\ \/ /\ Goto(c, "reply")
          /\ UNCHANGED <<up, blocked, log>>
       \/ /\ Goto(c, "done")
          /\ up' = [up EXCEPT ![c] = "closed"]
          /\ blocked' = [blocked EXCEPT ![c] = {}]
          /\ UNCHANGED log
    /\ UNCHANGED <<allowIPv4, kind, deadline, dialling, cli, copying>>
\* handleHTTP's RoundTrip once connected: a response, or an error that makes the
\* transport close the connection.
RoundTrip(c) ==
    /\ pc[c] = "sent"
    /\ \/ /\ Goto(c, "reply")
          /\ UNCHANGED <<up, blocked, log>>
       \/ /\ Goto(c, "done")
          /\ up' = [up EXCEPT ![c] = "closed"]
          /\ blocked' = [blocked EXCEPT ![c] = {}]
          /\ Record(c, FALSE, Exit(c))
    /\ UNCHANGED <<allowIPv4, kind, deadline, dialling, cli, copying>>

\* The body is copied, or not: handleHTTP does not look. A connection whose body
\* was read to its end goes idle in the request's own transport, where nothing but
\* the target closes it.
PlainReturns(c) ==
    /\ kind[c] = "plain"
    /\ pc[c] = "reply"
    /\ Goto(c, "done")
    /\ \/ UNCHANGED up
       \/ up' = [up EXCEPT ![c] = "closed"]
    /\ blocked' = [blocked EXCEPT ![c] = {}]
    /\ Record(c, TRUE, Exit(c))
    /\ UNCHANGED <<allowIPv4, kind, deadline, dialling, cli, copying>>

----
Dial(c) == StartDial(c) \/ Lookup(c) \/ DialV6(c) \/ DialV4(c)
\* What a goroutine does next without waiting for its client's or its target's word.
Proceed(c) == \/ HandshakeFails(c) \/ Admit(c) \/ Dial(c) \/ Hijack(c)
              \/ Reply(c) \/ RelayReturns(c) \/ \E way \in Ways : CopyEnds(c, way)

Next == \/ SetIPv4Fallback
        \/ \E c \in Conns : \/ ClientEnds(c) \/ TargetEnds(c) \/ Accept(c) \/ Proceed(c)
                            \/ Negotiate(c) \/ Request(c) \/ Abandon(c)
                            \/ RoundTrip(c) \/ PlainReturns(c)
                            \/ \E way \in Ways :
                                  WriteFails(c, way) \/ WriteBlocks(c, way) \/ PeerReads(c, way)

Spec == Init /\ [][Next]_vars

\* Goroutines that can run do; deadlines, lookups and dials come to an end. No peer
\* has to connect, to speak, to read or to close; but what is left to copy after
\* the end of a source is finite, and if its peer keeps coming back to read it,
\* runs out.
FairSpec == /\ Spec
            /\ \A c \in Conns : /\ WF_vars(Proceed(c))
                                /\ \A way \in Ways : SF_vars(CopyEnds(c, way))

----
(* Properties                                                               *)

(* "IPv4 fallback [...] is off unless allowIPv4" (internal/proxy/dial.go:228): *)
(* no request is dialled over IPv4, and so shows the host's own address,    *)
(* unless the administrator allowed it at some time since its dial began,   *)
(* however long the client sat on its connection before.                    *)
IPv4OnlyWhenAllowed == \A c \in Conns : fam[c] = "v4" => since[c] = "on"

(* The traffic log has one entry of each request that got as far as its     *)
(* dial, on every path: log before a SOCKS5 relay, after an HTTP tunnel, and *)
(* with lastDR carried out of the transport's goroutine. It names the family *)
(* the request was connected over, and "ipv6" if it was not connected; only  *)
(* of a plain request whose client left during the dial may it say either.   *)
LogTellsExit == \A c \in Conns :
    /\ Len(log[c]) <= 1
    /\ pc[c] = "done" /\ since[c] # "none" => log[c] # <<>>
    /\ log[c] # <<>> =>
          /\ log[c][1].success => fam[c] # "none"
          /\ \/ log[c][1].exit = Exit(c)
             \/ kind[c] = "plain" /\ cli[c] # "open" /\ ~log[c][1].success

\* The steps at which neither the client nor the target may keep a handler.
Hasty == {"negotiate", "admit", "dial"} \cup DialPCs

(* A client that falls silent in the handshake is not served for ever, and a *)
(* request on its way through Admit and the dial is connected or answered    *)
(* with an error. An authenticated SOCKS5 client that never sends its        *)
(* request (socks5.go:111 has cleared the deadline) and a target that never  *)
(* answers hold their handlers for as long as they like.                     *)
HandshakesEnd == \A c \in Conns : pc[c] \in Hasty ~> pc[c] \notin Hasty

\* No peer of the request stays for ever without reading what is written to it.
PeersKeepReading(c) == \A way \in Ways : []<>(way \notin blocked[c])

(* When either end of a tunnel is gone, so are both, and both copies'         *)
(* goroutines, though the handler waits for one of them only: if neither     *)
(* peer stays for ever without reading. If one does, a copy's Write waits as *)
(* long, for there is no write deadline.                                     *)
TunnelsEnd == \A c \in Conns : PeersKeepReading(c) =>
    (pc[c] = "relay" /\ (cli[c] = "eof" \/ up[c] = "eof")
        ~> cli[c] = "closed" /\ up[c] = "closed" /\ copying[c] = {})
====

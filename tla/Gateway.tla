---- MODULE Gateway ----
(***************************************************************************)
(* The proxy as its clients meet it: the requests of ProxyRequest, each    *)
(* over a connection that some listener accepted, while the administrator  *)
(* adds and stops the listeners of PortManager. The two main listeners are *)
(* always there and cannot be stopped.                                     *)
(*                                                                         *)
(* The two meet in Stop: net/http's Close also closes the connections it   *)
(* has in its table, which a hijacked one, a tunnel, has left and one just *)
(* accepted has perhaps not yet entered. A SOCKS5 listener closes nothing  *)
(* but its socket.                                                         *)
(***************************************************************************)
EXTENDS ProxyRequest

CONSTANT Pairs

ASSUME GatewayConstants == Pairs \in Nat

VARIABLES ports, running, proc, ref, open, marked, stopping, found,  \* PortManager's
          at,    \* the listener each request's connection came by
          cut    \* history: requests whose connection a stop closed

P == INSTANCE PortManager

manager == <<ports, running, proc, ref, open, marked, stopping, found>>
all == <<vars, manager, at, cut>>

\* NewPortManager's two entries.
Main == {<<"http", 0>>, <<"socks5", 0>>}
Nowhere == P!Nobody

\* A handler knows a listener's kind from what it was accepted by.
Fits(c, l) == P!HTTP(l) <=> kind[c] # "socks5"

(* The types of both parts, and that no handler runs for a connection that  *)
(* no listener accepted.                                                    *)
GatewayTypeOK ==
    /\ TypeOK
    /\ P!TypeOK
    /\ at \in [Conns -> {Nowhere} \cup Main \cup ports]
    /\ cut \subseteq {c \in Conns : at[c] \in marked}
    /\ \A c \in Conns : IF at[c] = Nowhere THEN pc[c] = "idle" ELSE Fits(c, at[c])

GatewayInit == /\ Init
               /\ P!Init
               /\ at = [c \in Conns |-> Nowhere]
               /\ cut = {}

----
\* Accept returns a connection, by a listener whose socket is open.
Take(c) ==
    /\ at[c] = Nowhere
    /\ \E l \in Main \cup open : /\ Fits(c, l)
                                 /\ at' = [at EXCEPT ![c] = l]
    /\ UNCHANGED <<vars, manager, cut>>

Aside == UNCHANGED <<manager, at, cut>>

\* A step of a request, or of the administrator who toggles the fallback.
RequestStep == /\ Next
               /\ \A c \in Conns : at[c] = Nowhere => pc'[c] = "idle"
               /\ Aside

\* net/http's table: HTTP connections that have a handler and are not hijacked.
Tracked(c) == kind[c] # "socks5" /\ pc[c] \notin {"idle", "relay", "done"}

\* Mutant: the listener's socket is closed, its connections are not.
DisconnectNobody(C) == cut' = cut \cup C /\ UNCHANGED cli
\* To its handler, a connection that was closed reads as one whose client left.
Disconnect(C) == /\ cut' = cut \cup C
                 /\ cli' = [c \in Conns |-> IF c \in C /\ cli[c] = "open" THEN "eof" ELSE cli[c]]

\* A stop of an HTTP listener. Its connections are closed, and of those that
\* Accept has just returned, the ones that are in the table already.
StopListener ==
    /\ \E l \in P!Listeners :
          /\ P!StopHTTP(l)
          /\ \E New \in SUBSET {c \in Conns : pc[c] = "idle" /\ at[c] = l} :
                Disconnect(IF l \in marked' THEN New \cup {c \in Conns : at[c] = l /\ Tracked(c)} ELSE {})
    /\ UNCHANGED <<allowIPv4, kind, pc, deadline, dialling, up, copies, log, at>>

\* The port manager's and the listeners' other steps.
Listen == /\ P!CloseSOCKS \/ \E l \in P!Listeners : P!Serve(l)
          /\ UNCHANGED <<vars, at, cut>>
Administer == /\ P!Expand \/ \E l \in P!Listeners : P!StopSOCKS(l)
              /\ UNCHANGED <<vars, at, cut>>

GatewayNext == \/ RequestStep \/ StopListener \/ Administer \/ Listen
               \/ \E c \in Conns : Take(c)

GatewaySpec == GatewayInit /\ [][GatewayNext]_all

\* What a handler whose client has left does of itself: reading the request
\* fails, and so do a RoundTrip whose context is cancelled and a write of the answer.
\* net/http watches a connection once the request's body is read to its end, and
\* until then the upload's own reads fail; an upload that hangs in a Write to the
\* target does neither.
Notices(c) == /\ cli[c] = "eof"
              /\ "out" \notin blocked[c]
              /\ Accept(c) \/ RoundTrip(c) \/ PlainReturns(c)

\* Weaker than what each part assumes: some goroutine of the listeners that can
\* run does, and some goroutine of each request that can run time and again.
GatewayFair ==
    /\ GatewaySpec
    /\ WF_manager(Listen)
    /\ \A c \in Conns : SF_vars(Proceed(c) \/ Notices(c))

----
(* Properties                                                               *)

(* PortManager's ServesUntilStopped, whatever the requests do.              *)
ServesUntilStopped == P!ServesUntilStopped

(* PortManager's StopsForGood: a stop is not kept from its end by the       *)
(* connections the listener accepted.                                       *)
StopsForGood == P!StopsForGood

(* A stop of an HTTP listener ends the requests it cuts off, at whatever     *)
(* step their handler is, and if their target never answers: none is left    *)
(* behind on a port that is gone, and a tunnel whose CONNECT was cut off     *)
(* between the dial and the hijack ends as well. But for a request whose     *)
(* target stays for ever without reading: nothing then tells the handler.    *)
CutRequestsEnd == \A c \in Conns : PeersKeepReading(c) => (c \in cut ~> pc[c] = "done")
====

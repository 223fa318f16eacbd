---- MODULE PortManager ----
(***************************************************************************)
(* The port manager (internal/proxy/portmgr.go) and the listeners it       *)
(* starts in goroutines of their own (Start and Stop of server.go and      *)
(* socks5.go). The manager's methods run under pm.mu; the servers' fields  *)
(* are shared with the goroutines without a lock, so a Stop that comes     *)
(* before its goroutine's assignment finds nothing to close.               *)
(*                                                                         *)
(* net/http's Close marks the server before it closes what it listens on,  *)
(* under a lock of its own, and ListenAndServe of a marked server returns. *)
(***************************************************************************)
EXTENDS Naturals

CONSTANTS Pairs       \* Expand may be called for this many HTTP/SOCKS5 pairs

Listeners == {"http", "socks5"} \X (1..Pairs)
HTTP(l) == l[1] = "http"

VARIABLES ports,    \* listeners the manager has an entry of ...
          running,  \* ... and those whose entry says Running
          proc,     \* each listener's goroutine
          ref,      \* listeners whose server field (httpServer, listener) is set
          open,     \* listeners whose socket accepts connections
          marked,   \* HTTP servers that were Closed
          stopping, \* the SOCKS5 listener whose Stop is between its two steps
          found     \* history: listeners whose Stop found the server

vars == <<ports, running, proc, ref, open, marked, stopping, found>>

Nobody == <<>>

TypeOK == /\ ports \subseteq Listeners
          /\ running \subseteq ports
          /\ proc \in [Listeners -> {"none", "spawned", "half", "serving", "failed", "ended"}]
          /\ \A l \in Listeners : proc[l] = "none" <=> l \notin ports
          /\ ref \subseteq ports
          /\ open \subseteq ports
          /\ marked \subseteq ports
          /\ stopping \in running \cup {Nobody}
          /\ found \subseteq ports

Init == /\ ports = {}
        /\ running = {}
        /\ proc = [l \in Listeners |-> "none"]
        /\ ref = {}
        /\ open = {}
        /\ marked = {}
        /\ stopping = Nobody
        /\ found = {}

Goto(l, where) == proc' = [proc EXCEPT ![l] = where]
Free == stopping = Nobody   \* pm.mu

----
\* Mutant: the SOCKS5 listener is started and never entered.
ExpandForgets ==
    /\ Free
    /\ \E i \in 1..Pairs :
          /\ <<"http", i>> \notin ports
          /\ \A j \in 1..(i - 1) : <<"http", j>> \in ports
          /\ ports' = ports \cup {<<"http", i>>}
          /\ running' = running \cup {<<"http", i>>}
          /\ proc' = [l \in Listeners |-> IF l[2] = i THEN "spawned" ELSE proc[l]]
    /\ UNCHANGED <<ref, open, marked, stopping, found>>
\* One round of Expand's loop; the rounds of one call differ in nothing else.
Expand ==
    /\ Free
    /\ \E i \in 1..Pairs :
          LET new == {<<"http", i>>, <<"socks5", i>>}
          IN  /\ new \cap ports = {}
              /\ \A j \in 1..(i - 1) : <<"http", j>> \in ports
              /\ ports' = ports \cup new
              /\ running' = running \cup new
              /\ proc' = [l \in Listeners |-> IF l \in new THEN "spawned" ELSE proc[l]]
    /\ UNCHANGED <<ref, open, marked, stopping, found>>

\* Server.Start: the field first, then the socket.
AssignHTTP(l) ==
    /\ HTTP(l)
    /\ proc[l] = "spawned"
    /\ ref' = ref \cup {l}
    /\ Goto(l, "half")
    /\ UNCHANGED <<ports, running, open, marked, stopping, found>>

\* ListenAndServe: nothing after Close; or the address may be taken.
ListenHTTP(l) ==
    /\ HTTP(l)
    /\ proc[l] = "half"
    /\ \/ l \in marked /\ Goto(l, "ended") /\ UNCHANGED open
       \/ l \notin marked /\ Goto(l, "serving") /\ open' = open \cup {l}
       \/ l \notin marked /\ Goto(l, "failed") /\ UNCHANGED open
    /\ UNCHANGED <<ports, running, ref, marked, stopping, found>>

EndHTTP(l) ==
    /\ HTTP(l)
    /\ proc[l] = "serving"
    /\ l \notin open
    /\ Goto(l, "ended")
    /\ UNCHANGED <<ports, running, ref, open, marked, stopping, found>>

\* Socks5Server.Start: the socket first, then the field.
ListenSOCKS(l) ==
    /\ ~HTTP(l)
    /\ proc[l] = "spawned"
    /\ \/ Goto(l, "half") /\ open' = open \cup {l}
       \/ Goto(l, "failed") /\ UNCHANGED open
    /\ UNCHANGED <<ports, running, ref, marked, stopping, found>>

AssignSOCKS(l) ==
    /\ ~HTTP(l)
    /\ proc[l] = "half"
    /\ ref' = ref \cup {l}
    /\ Goto(l, "serving")
    /\ UNCHANGED <<ports, running, open, marked, stopping, found>>

\* Mutant: any error of Accept ends the loop.
AcceptErrorEnds(l) ==
    /\ ~HTTP(l)
    /\ proc[l] = "serving"
    /\ Goto(l, "ended")
    /\ UNCHANGED <<ports, running, ref, open, marked, stopping, found>>
\* Accept fails, for good when the socket is closed and otherwise once in a while:
\* the loop ends if it finds the field nil, and goes on if not.
AcceptError(l) ==
    /\ ~HTTP(l)
    /\ proc[l] = "serving"
    /\ l \notin ref
    /\ Goto(l, "ended")
    /\ UNCHANGED <<ports, running, ref, open, marked, stopping, found>>

----
\* A stop's last word: the entry is no longer Running, unless the Close of an open
\* socket returned an error, which StopPort hands on before it gets there.
Report(l) == \/ running' = running \ {l}
             \/ l \in open /\ UNCHANGED running

\* StopPort: Server.Stop closes the server its goroutine created, if it has.
StopHTTP(l) ==
    /\ Free
    /\ l \in running
    /\ HTTP(l)
    /\ Report(l)
    /\ IF l \in ref THEN /\ marked' = marked \cup {l}
                         /\ open' = open \ {l}
                         /\ found' = found \cup {l}
                    ELSE UNCHANGED <<marked, open, found>>
    /\ UNCHANGED <<ports, proc, ref, stopping>>

\* Mutant: the field is left set.
StopKeepsField(l) ==
    /\ Free
    /\ l \in running
    /\ ~HTTP(l)
    /\ IF l \in ref THEN /\ stopping' = l
                         /\ found' = found \cup {l}
                         /\ UNCHANGED <<ref, running>>
                    ELSE /\ running' = running \ {l}
                         /\ UNCHANGED <<ref, stopping, found>>
    /\ UNCHANGED <<ports, proc, open, marked>>
\* StopPort: Socks5Server.Stop clears the field ...
StopSOCKS(l) ==
    /\ Free
    /\ l \in running
    /\ ~HTTP(l)
    /\ IF l \in ref THEN /\ ref' = ref \ {l}
                         /\ stopping' = l
                         /\ found' = found \cup {l}
                         /\ UNCHANGED running
                    ELSE /\ running' = running \ {l}
                         /\ UNCHANGED <<ref, stopping, found>>
    /\ UNCHANGED <<ports, proc, open, marked>>

\* ... and closes the socket.
CloseSOCKS ==
    /\ ~Free
    /\ open' = open \ {stopping}
    /\ Report(stopping)
    /\ stopping' = Nobody
    /\ UNCHANGED <<ports, proc, ref, marked, found>>

----
Serve(l) == \/ AssignHTTP(l) \/ ListenHTTP(l) \/ EndHTTP(l)
            \/ ListenSOCKS(l) \/ AssignSOCKS(l) \/ AcceptError(l)

Next == \/ Expand \/ CloseSOCKS
        \/ \E l \in Listeners : Serve(l) \/ StopHTTP(l) \/ StopSOCKS(l)

Spec == Init /\ [][Next]_vars
FairSpec == Spec /\ WF_vars(CloseSOCKS) /\ \A l \in Listeners : WF_vars(Serve(l))

----
(* Properties                                                               *)

(* A listener that came up accepts connections until a stop finds it: no    *)
(* error of Accept and no other listener's stop ends it.                    *)
ServesUntilStopped == \A l \in running \ found :
    proc[l] \notin {"spawned", "half", "failed"} => proc[l] = "serving" /\ l \in open

(* A stop that found its server ends it: the socket is closed and stays     *)
(* closed, and the goroutine returns instead of spinning on Accept errors.  *)
StopsForGood == <>[](\A l \in found : l \notin open /\ proc[l] \in {"ended", "failed"})
====

---- MODULE IPv6OpenerProofs ----
(* Proofs about IPv6Opener, for any number of callers, exit IPs and channels. *)
EXTENDS IPv6Opener, FiniteSetTheorems, TLAPS

(* What a caller's place says about its dial: outside a warm-up every dial  *)
(* is the client's, inside one none is.                                      *)
JobFits == \A c \in Callers :
    /\ pc[c] \in {"check", "finish", "close"} => job[c] # "client"
    /\ pc[c] \in Returned \cup {"seen", "begin", "wait", "failed", "client", "warm"}
          => job[c] = "client"

(* A leader's err == nil stands for an exit IP that was proved.             *)
OkFits == \A c \in Callers : ok[c] => /\ pc[c] \in {"finish", "close"}
                                      /\ ip[c] \in confirmed

(* The inductive invariant.                                                 *)
IInv == /\ TypeOK
        /\ JobFits
        /\ OkFits
        /\ OneLeader
        /\ FlightsHaveLeaders
        /\ CloseOnce
        /\ WaitersCovered
        /\ NeverWarmInFlight
        /\ WarmIsConfirmed

LEMMA InitIInv == Init => IInv
<1> SUFFICES ASSUME Init PROVE IInv
  OBVIOUS
<1> USE OpenerConstants
<1>1. TypeOK
  BY DEF Init, TypeOK, PCs, Returned, Jobs
<1>2. JobFits /\ OkFits
  BY DEF Init, JobFits, OkFits
<1>3. \A c \in Callers : ~Leading(c) /\ ~Closing(c)
  BY DEF Init, Leading, Closing, Dialing
<1>4. OneLeader /\ FlightsHaveLeaders /\ CloseOnce
  BY <1>3 DEF Init, OneLeader, FlightsHaveLeaders, CloseOnce
<1>5. WaitersCovered /\ NeverWarmInFlight /\ WarmIsConfirmed
  BY DEF Init, WaitersCovered, NeverWarmInFlight, WarmIsConfirmed
<1>6. QED BY <1>1, <1>2, <1>4, <1>5 DEF IInv

(* Most steps neither open nor close a flight: they leave the leaders, the   *)
(* map and the channels alone, mark nothing, and make nobody a waiter.       *)
Quiet == /\ \A d \in Callers :
              /\ Leading(d)' <=> Leading(d)
              /\ Closing(d)' <=> Closing(d)
              /\ Leading(d) \/ Closing(d) => ip'[d] = ip[d] /\ wait'[d] = wait[d]
              /\ pc'[d] = "wait" => pc[d] = "wait" /\ wait'[d] = wait[d]
              /\ pc'[d] = "warm" => ip'[d] \in confirmed'
         /\ inFlight' = inFlight
         /\ closed' = closed
         /\ DOMAIN entries' \subseteq DOMAIN entries
         /\ confirmed \subseteq confirmed'

LEMMA QuietStep ==
    ASSUME IInv, Quiet, TypeOK', JobFits', OkFits' PROVE IInv'
<1>1. OneLeader'
  BY DEF IInv, Quiet, OneLeader
<1>2. FlightsHaveLeaders'
  <2>1. ASSUME NEW d \in Callers, Leading(d)'
        PROVE  ip'[d] \in DOMAIN inFlight' /\ inFlight'[ip'[d]] = wait'[d]
    BY <2>1 DEF IInv, Quiet, FlightsHaveLeaders
  <2>2. ASSUME NEW k \in DOMAIN inFlight'
        PROVE  \E d \in Callers : Leading(d)' /\ ip'[d] = k
    BY <2>2 DEF IInv, Quiet, FlightsHaveLeaders
  <2>3. QED BY <2>1, <2>2 DEF FlightsHaveLeaders
<1>3. CloseOnce'
  BY DEF IInv, Quiet, CloseOnce
<1>4. WaitersCovered'
  BY DEF IInv, Quiet, WaitersCovered
<1>5. NeverWarmInFlight'
  BY DEF IInv, Quiet, NeverWarmInFlight
<1>6. WarmIsConfirmed'
  BY DEF IInv, Quiet, WarmIsConfirmed
<1>7. QED BY <1>1, <1>2, <1>3, <1>4, <1>5, <1>6 DEF IInv

----
(* The cache operators keep the map's type and never add a key but the one  *)
(* they mark.                                                               *)
LEMMA ProbedShrinks ==
    ASSUME TypeOK, NEW k \in IPs
    PROVE  /\ Probed(k) \in [DOMAIN Probed(k) -> 0..Expired]
           /\ DOMAIN Probed(k) \subseteq DOMAIN entries
           /\ ~Warm(k) => k \notin DOMAIN Probed(k)
  BY DEF TypeOK, Probed, Only, Warm, Live

LEMMA MarkedAdds ==
    ASSUME TypeOK, NEW k \in IPs
    PROVE  /\ Marked(k) \in [DOMAIN Marked(k) -> 0..Expired]
           /\ DOMAIN Marked(k) \subseteq DOMAIN entries \cup {k}
<1> DEFINE kept == IF Cardinality(DOMAIN entries) < MaxSize THEN entries
                   ELSE IF Cardinality(Live) < MaxSize THEN Only(entries, Live)
                   ELSE Only(entries, {})
<1>1. kept \in [DOMAIN kept -> 0..Expired] /\ DOMAIN kept \subseteq DOMAIN entries
  BY DEF TypeOK, Only
<1>2. Marked(k) = With(kept, k, 0)
  BY DEF Marked
<1>3. 0 \in 0..Expired
  BY OpenerConstants DEF Expired
<1> HIDE DEF kept
<1>4. QED BY <1>1, <1>2, <1>3 DEF With

----
(* The steps that are quiet *)

LEMMA OpenQuiet == ASSUME IInv, NEW c \in Callers, Open(c) PROVE IInv' /\ Quiet
<1> USE DEF Open, Goto, Returned
<1>1. TypeOK'
  BY DEF IInv, TypeOK, PCs
<1>2. JobFits' /\ OkFits'
  BY DEF IInv, TypeOK, JobFits, OkFits
<1>3. Quiet
  BY DEF IInv, TypeOK, Quiet, Leading, Closing, Dialing, WarmIsConfirmed
<1>4. QED BY <1>1, <1>2, <1>3, QuietStep

LEMMA SeenQuiet == ASSUME IInv, NEW c \in Callers, Seen(c) PROVE IInv' /\ Quiet
<1> USE DEF Seen, Goto
<1>0. ip[c] \in IPs /\ TypeOK
  BY DEF IInv, TypeOK
<1>1. TypeOK'
  BY <1>0, ProbedShrinks DEF TypeOK, PCs
<1>2. JobFits' /\ OkFits'
  BY DEF IInv, TypeOK, JobFits, OkFits, Returned
<1>3. Quiet
  BY <1>0, ProbedShrinks DEF IInv, TypeOK, Quiet, Leading, Closing, Dialing, WarmIsConfirmed
<1>4. QED BY <1>1, <1>2, <1>3, QuietStep

LEMMA DialClientQuiet == ASSUME IInv, NEW c \in Callers, DialClient(c) PROVE IInv' /\ Quiet
<1> USE DEF DialClient, Goto
<1>0. ip[c] \in IPs /\ TypeOK
  BY DEF IInv, TypeOK
<1>1. TypeOK'
  BY <1>0, ProbedShrinks DEF TypeOK, PCs, Dialing
<1>2. JobFits' /\ OkFits'
  BY DEF IInv, TypeOK, JobFits, OkFits, Returned
<1>3. Warm(ip[c]) => ip[c] \in confirmed
  BY DEF IInv, WarmIsConfirmed, Warm, Live
<1>4. job[c] = "client"
  BY DEF IInv, JobFits
<1>5. Quiet
  BY <1>0, <1>3, <1>4, ProbedShrinks DEF IInv, TypeOK, Quiet, Leading, Closing, Dialing, WarmIsConfirmed
<1>6. QED BY <1>1, <1>2, <1>5, QuietStep

LEMMA WaitQuiet ==
    ASSUME IInv, NEW c \in Callers, WaitClosed(c) \/ WaitCancelled(c) PROVE IInv' /\ Quiet
<1> USE DEF WaitClosed, WaitCancelled, Goto
<1>1. TypeOK'
  BY DEF IInv, TypeOK, PCs, Returned
<1>2. JobFits' /\ OkFits'
  BY DEF IInv, TypeOK, JobFits, OkFits, Returned
<1>3. Quiet
  BY DEF IInv, TypeOK, Quiet, Leading, Closing, Dialing, WarmIsConfirmed
<1>4. QED BY <1>1, <1>2, <1>3, QuietStep

LEMMA CancelQuiet == ASSUME IInv, NEW c \in Callers, Cancel(c) PROVE IInv' /\ Quiet
<1> USE DEF Cancel
<1>1. TypeOK'
  BY DEF IInv, TypeOK
<1>2. JobFits' /\ OkFits'
  BY DEF IInv, JobFits, OkFits
<1>3. Quiet
  BY DEF IInv, TypeOK, Quiet, Leading, Closing, WarmIsConfirmed
<1>4. QED BY <1>1, <1>2, <1>3, QuietStep

LEMMA TickQuiet == ASSUME IInv, Tick PROVE IInv' /\ Quiet
<1> USE DEF Tick
<1>1. TypeOK'
  BY OpenerConstants DEF IInv, TypeOK, Live, Expired
<1>2. JobFits' /\ OkFits'
  BY DEF IInv, JobFits, OkFits
<1>3. Quiet
  BY DEF IInv, TypeOK, Quiet, Leading, Closing, WarmIsConfirmed
<1>4. QED BY <1>1, <1>2, <1>3, QuietStep

LEMMA AfterFailureQuiet == ASSUME IInv, NEW c \in Callers, AfterFailure(c) PROVE IInv' /\ Quiet
<1> USE DEF AfterFailure, Goto
<1>1. TypeOK'
  BY DEF IInv, TypeOK, PCs, Returned
<1>2. JobFits' /\ OkFits'
  BY DEF IInv, TypeOK, JobFits, OkFits, Returned
<1>3. Quiet
  BY DEF IInv, TypeOK, Quiet, Leading, Closing, Dialing, WarmIsConfirmed
<1>4. QED BY <1>1, <1>2, <1>3, QuietStep

(* The dials and a failed confirmation move one caller's pc and job only:   *)
(* inside a warm-up it stays the leader, outside it becomes neither leader   *)
(* nor waiter.                                                               *)
LEMMA DialQuiet ==
    ASSUME IInv, NEW c \in Callers,
           DialFirst(c) \/ DialRetry(c) \/ DialAgain(c) \/ DialWarm(c) \/ ConfirmFails(c)
    PROVE  IInv' /\ Quiet
<1>1. PICK l \in PCs, j \in Jobs :
         /\ pc' = [pc EXCEPT ![c] = l]
         /\ job' = [job EXCEPT ![c] = j]
         /\ \/ job[c] = "client" /\ j = "client" /\ l \in {"idle", "conn", "retry", "redial"}
            \/ job[c] # "client" /\ j # "client" /\ l \in Dialing \cup {"check", "finish"}
  BY DEF IInv, TypeOK, PCs, Jobs, Returned, Dialing, DialFirst, DialRetry, DialAgain,
         DialWarm, ConfirmFails, Fail, Connect, Goto
<1>2. pc[c] \in Dialing \cup {"check", "warm"}
  BY DEF DialFirst, DialRetry, DialAgain, DialWarm, ConfirmFails, Dialing
<1>3. DialOthers
  BY DEF DialFirst, DialRetry, DialAgain, DialWarm, ConfirmFails
<1>4. /\ job[c] # "client" => Leading(c)
      /\ job[c] = "client" => ~Leading(c)
  BY <1>2 DEF IInv, JobFits, Leading, Dialing
<1>5. TypeOK'
  BY <1>1, <1>3 DEF IInv, TypeOK, DialOthers
<1>6. JobFits' /\ OkFits'
  BY <1>1, <1>2, <1>3 DEF IInv, TypeOK, JobFits, OkFits, Returned, Dialing, DialOthers
<1>7. Quiet
  BY <1>1, <1>2, <1>3, <1>4
     DEF IInv, TypeOK, Quiet, Leading, Closing, Dialing, WarmIsConfirmed, DialOthers
<1>8. QED BY <1>5, <1>6, <1>7, QuietStep

LEMMA ConfirmOKQuiet == ASSUME IInv, NEW c \in Callers, ConfirmOK(c) PROVE IInv' /\ Quiet
<1> USE DEF ConfirmOK, Goto
<1>1. TypeOK'
  BY DEF IInv, TypeOK, PCs
<1>2. JobFits' /\ OkFits'
  BY DEF IInv, TypeOK, JobFits, OkFits, Returned
<1>3. Quiet
  BY DEF IInv, TypeOK, Quiet, Leading, Closing, Dialing, WarmIsConfirmed
<1>4. QED BY <1>1, <1>2, <1>3, QuietStep

----
(* The steps that make waiters, open a flight, land it, wake its waiters    *)

LEMMA BeginWarmQuiet ==
    ASSUME IInv, NEW c \in Callers, BeginConfirm(c), BeginWarm(c) PROVE IInv' /\ Quiet
<1> USE DEF BeginConfirm, BeginWarm, Goto
<1>0. ip[c] \in IPs /\ TypeOK
  BY DEF IInv, TypeOK
<1>1. TypeOK'
  BY <1>0, ProbedShrinks DEF TypeOK, PCs
<1>2. JobFits' /\ OkFits'
  BY DEF IInv, TypeOK, JobFits, OkFits, Returned
<1>3. Quiet
  BY <1>0, ProbedShrinks DEF IInv, TypeOK, Quiet, Leading, Closing, Dialing, WarmIsConfirmed
<1>4. QED BY <1>1, <1>2, <1>3, QuietStep

LEMMA BeginWaiterKeeps ==
    ASSUME IInv, NEW c \in Callers, BeginConfirm(c), BeginWaiter(c) PROVE IInv'
<1> USE DEF BeginConfirm, BeginWaiter, Goto
<1>0. ip[c] \in IPs /\ TypeOK
  BY DEF IInv, TypeOK
<1>1. TypeOK'
  BY <1>0, ProbedShrinks DEF TypeOK, PCs
<1>2. JobFits' /\ OkFits'
  BY DEF IInv, TypeOK, JobFits, OkFits, Returned
<1>3. ASSUME NEW d \in Callers
      PROVE  /\ Leading(d)' <=> Leading(d)
             /\ Closing(d)' <=> Closing(d)
             /\ Leading(d) \/ Closing(d) => d # c
             /\ d # c => wait'[d] = wait[d] /\ pc'[d] = pc[d]
  BY <1>0 DEF TypeOK, Leading, Closing, Dialing
<1>4. OneLeader' /\ FlightsHaveLeaders' /\ CloseOnce'
  BY <1>3 DEF IInv, OneLeader, FlightsHaveLeaders, CloseOnce
<1>5. PICK d \in Callers : Leading(d) /\ ip[d] = ip[c]
  BY DEF IInv, FlightsHaveLeaders
<1>6. wait'[c] = wait'[d]
  BY <1>0, <1>3, <1>5 DEF TypeOK, IInv, FlightsHaveLeaders
<1>7. WaitersCovered'
  BY <1>3, <1>5, <1>6 DEF IInv, WaitersCovered
<1>8. NeverWarmInFlight' /\ WarmIsConfirmed'
  BY <1>0, ProbedShrinks DEF IInv, TypeOK, NeverWarmInFlight, WarmIsConfirmed
<1>9. QED BY <1>1, <1>2, <1>4, <1>7, <1>8 DEF IInv

LEMMA BeginLeaderKeeps ==
    ASSUME IInv, NEW c \in Callers, BeginConfirm(c), BeginLeader(c) PROVE IInv'
<1> USE DEF BeginConfirm, BeginLeader, Lead, Goto
<1>0. ip[c] \in IPs /\ TypeOK
  BY DEF IInv, TypeOK
<1>1. PICK ch \in Chans : /\ Fresh(ch)
                          /\ inFlight' = With(inFlight, ip[c], ch)
                          /\ wait' = [wait EXCEPT ![c] = ch]
                          /\ closed' = closed \ {ch}
  OBVIOUS
<1>2. TypeOK'
  BY <1>0, <1>1, ProbedShrinks DEF TypeOK, PCs, Dialing, Jobs, With
<1>3. JobFits' /\ OkFits'
  BY DEF IInv, TypeOK, JobFits, OkFits, Returned
<1>4. ~Leading(c) /\ ~Closing(c) /\ Leading(c)' /\ ~Closing(c)'
  BY <1>0 DEF TypeOK, Leading, Closing, Dialing
<1>5. ASSUME NEW d \in Callers, d # c
      PROVE  /\ Leading(d)' <=> Leading(d)
             /\ Closing(d)' <=> Closing(d)
             /\ wait'[d] = wait[d] /\ pc'[d] = pc[d] /\ wait[d] # ch
  BY <1>0, <1>1, <1>5 DEF TypeOK, Leading, Closing, Dialing, Fresh
<1>6. \A d \in Callers : Leading(d) => ip[d] # ip[c]
  BY DEF IInv, FlightsHaveLeaders
<1>7. OneLeader'
  BY <1>4, <1>5, <1>6 DEF IInv, OneLeader
<1>8. FlightsHaveLeaders'
  <2>1. ASSUME NEW d \in Callers, Leading(d)'
        PROVE  ip'[d] \in DOMAIN inFlight' /\ inFlight'[ip'[d]] = wait'[d]
    <3>1. CASE d = c
      BY <1>0, <1>1, <3>1 DEF With, TypeOK
    <3>2. CASE d # c
      BY <1>1, <1>5, <1>6, <2>1, <3>2 DEF With, IInv, FlightsHaveLeaders
    <3>3. QED BY <3>1, <3>2
  <2>2. ASSUME NEW k \in DOMAIN inFlight'
        PROVE  \E d \in Callers : Leading(d)' /\ ip'[d] = k
    <3>1. CASE k = ip[c]
      BY <1>4, <3>1
    <3>2. CASE k # ip[c]
      <4>1. k \in DOMAIN inFlight
        BY <1>1, <3>2 DEF With
      <4>2. PICK d \in Callers : Leading(d) /\ ip[d] = k
        BY <4>1 DEF IInv, FlightsHaveLeaders
      <4>3. QED BY <1>4, <1>5, <4>2
    <3>3. QED BY <3>1, <3>2
  <2>3. QED BY <2>1, <2>2 DEF FlightsHaveLeaders
<1>9. CloseOnce'
  BY <1>0, <1>1, <1>4, <1>5 DEF IInv, TypeOK, CloseOnce
<1>10. WaitersCovered'
  <2>1. SUFFICES ASSUME NEW d \in Callers, pc'[d] = "wait"
                 PROVE  \/ wait'[d] \in closed'
                        \/ \E e \in Callers : (Leading(e) \/ Closing(e))' /\ wait'[e] = wait'[d]
    BY DEF WaitersCovered
  <2>2. d # c /\ pc[d] = "wait"
    BY <1>0, <1>5, <2>1 DEF TypeOK
  <2>3. CASE wait[d] \in closed
    BY <1>1, <1>5, <2>2, <2>3
  <2>4. CASE \E e \in Callers : (Leading(e) \/ Closing(e)) /\ wait[e] = wait[d]
    BY <1>4, <1>5, <2>2, <2>4
  <2>5. QED BY <2>2, <2>3, <2>4 DEF IInv, WaitersCovered
<1>11. NeverWarmInFlight'
  BY <1>0, <1>1, ProbedShrinks DEF IInv, With, NeverWarmInFlight
<1>12. WarmIsConfirmed'
  BY <1>0, <1>5, ProbedShrinks DEF IInv, TypeOK, WarmIsConfirmed
<1>13. QED BY <1>2, <1>3, <1>7, <1>8, <1>9, <1>10, <1>11, <1>12 DEF IInv

LEMMA FinishKeeps == ASSUME IInv, NEW c \in Callers, Finish(c) PROVE IInv'
<1> USE DEF Finish, Goto
<1>0. ip[c] \in IPs /\ TypeOK
  BY DEF IInv, TypeOK
<1>1. /\ TypeOK'
      /\ DOMAIN entries' \subseteq DOMAIN entries \cup {ip[c]}
      /\ DOMAIN entries' \subseteq DOMAIN entries \/ ok[c]
  BY <1>0, MarkedAdds DEF TypeOK, PCs, Only
<1>2. JobFits' /\ OkFits'
  BY DEF IInv, TypeOK, JobFits, OkFits, Returned
<1>3. Leading(c) /\ ~Closing(c) /\ ~Leading(c)' /\ Closing(c)'
  BY <1>0 DEF TypeOK, Leading, Closing, Dialing
<1>4. ASSUME NEW d \in Callers, d # c
      PROVE  /\ Leading(d)' <=> Leading(d)
             /\ Closing(d)' <=> Closing(d)
             /\ pc'[d] = pc[d]
  BY <1>0, <1>4 DEF TypeOK, Leading, Closing
<1>5. OneLeader'
  BY <1>3, <1>4 DEF IInv, OneLeader
<1>6. FlightsHaveLeaders'
  <2>1. ASSUME NEW d \in Callers, Leading(d)'
        PROVE  ip'[d] \in DOMAIN inFlight' /\ inFlight'[ip'[d]] = wait'[d]
    <3>1. d # c /\ ip[d] # ip[c] /\ Leading(d)
      BY <1>3, <1>4, <2>1 DEF IInv, OneLeader
    <3>2. QED BY <1>0, <3>1 DEF IInv, TypeOK, FlightsHaveLeaders, Only
  <2>2. ASSUME NEW k \in DOMAIN inFlight'
        PROVE  \E d \in Callers : Leading(d)' /\ ip'[d] = k
    <3>1. k \in DOMAIN inFlight /\ k # ip[c]
      BY DEF Only
    <3>2. PICK d \in Callers : Leading(d) /\ ip[d] = k
      BY <3>1 DEF IInv, FlightsHaveLeaders
    <3>3. QED BY <1>4, <3>1, <3>2
  <2>3. QED BY <2>1, <2>2 DEF FlightsHaveLeaders
<1>7. CloseOnce' /\ WaitersCovered'
  BY <1>3, <1>4 DEF IInv, CloseOnce, WaitersCovered
<1>8. NeverWarmInFlight'
  BY <1>1 DEF IInv, NeverWarmInFlight, Only
<1>9. WarmIsConfirmed'
  BY <1>1, <1>4 DEF IInv, TypeOK, OkFits, WarmIsConfirmed
<1>10. QED BY <1>1, <1>2, <1>5, <1>6, <1>7, <1>8, <1>9 DEF IInv

LEMMA CloseKeeps == ASSUME IInv, NEW c \in Callers, Close(c) PROVE IInv'
<1> USE DEF Close, Goto
<1>0. TypeOK /\ Closing(c) /\ wait[c] \in Chans
  BY DEF IInv, Closing, CloseOnce
<1>1. TypeOK'
  BY <1>0 DEF TypeOK, PCs, Jobs
<1>2. JobFits' /\ OkFits'
  BY <1>0 DEF IInv, TypeOK, JobFits, OkFits, Returned
<1>3. ~Leading(c) /\ ~Leading(c)' /\ ~Closing(c)'
  BY <1>0 DEF TypeOK, Leading, Closing, Dialing
<1>4. ASSUME NEW d \in Callers, d # c
      PROVE  /\ Leading(d)' <=> Leading(d)
             /\ Closing(d)' <=> Closing(d)
             /\ wait'[d] = wait[d] /\ pc'[d] = pc[d]
  BY <1>0, <1>4 DEF TypeOK, Leading, Closing
<1>5. OneLeader'
  BY <1>3, <1>4 DEF IInv, OneLeader
<1>6. FlightsHaveLeaders'
  BY <1>3, <1>4 DEF IInv, FlightsHaveLeaders
<1>7. CloseOnce'
  BY <1>0, <1>3, <1>4 DEF IInv, CloseOnce
<1>8. WaitersCovered'
  BY <1>0, <1>3, <1>4 DEF IInv, TypeOK, WaitersCovered
<1>9. NeverWarmInFlight' /\ WarmIsConfirmed'
  BY <1>4 DEF IInv, TypeOK, NeverWarmInFlight, WarmIsConfirmed
<1>10. QED BY <1>1, <1>2, <1>5, <1>6, <1>7, <1>8, <1>9 DEF IInv

LEMMA NextIInv == IInv /\ [Next]_vars => IInv'
<1> SUFFICES ASSUME IInv, [Next]_vars PROVE IInv'
  OBVIOUS
<1>1. CASE Tick
  BY <1>1, TickQuiet
<1>2. ASSUME NEW c \in Callers, Open(c) \/ Cancel(c) \/ Step(c) PROVE IInv'
  <2>1. CASE Open(c) \/ Cancel(c)
    BY <2>1, OpenQuiet, CancelQuiet
  <2>2. CASE Step(c)
    <3>1. CASE Seen(c) \/ DialClient(c) \/ AfterFailure(c)
      BY <3>1, SeenQuiet, DialClientQuiet, AfterFailureQuiet
    <3>2. CASE BeginConfirm(c)
      BY <3>2, BeginWarmQuiet, BeginWaiterKeeps, BeginLeaderKeeps DEF BeginConfirm
    <3>3. CASE WaitClosed(c) \/ WaitCancelled(c)
      BY <3>3, WaitQuiet
    <3>4. CASE DialFirst(c) \/ DialRetry(c) \/ DialAgain(c) \/ DialWarm(c) \/ ConfirmFails(c)
      BY <3>4, DialQuiet
    <3>5. CASE ConfirmOK(c)
      BY <3>5, ConfirmOKQuiet
    <3>6. CASE Finish(c) \/ Close(c)
      BY <3>6, FinishKeeps, CloseKeeps
    <3>7. QED BY <2>2, <3>1, <3>2, <3>3, <3>4, <3>5, <3>6 DEF Step
  <2>3. QED BY <1>2, <2>1, <2>2
<1>3. CASE UNCHANGED vars
  <2>1. TypeOK' /\ JobFits' /\ OkFits'
    BY <1>3 DEF vars, IInv, TypeOK, JobFits, OkFits
  <2>2. Quiet
    BY <1>3 DEF vars, Quiet, Leading, Closing, IInv, WarmIsConfirmed
  <2>3. QED BY <2>1, <2>2, QuietStep
<1>4. QED BY <1>1, <1>2, <1>3 DEF Next

(* The inductive invariant holds in every reachable state.                  *)
THEOREM Inductive == Spec => []IInv
<1>1. QED BY InitIInv, NextIInv, PTL DEF Spec

(* Every variable keeps its type.                                           *)
THEOREM TypeCorrect == Spec => []TypeOK
<1>1. IInv => TypeOK
  BY DEF IInv
<1>2. QED BY <1>1, Inductive, PTL

(* However many goroutines open connections through however many exit IPs,  *)
(* beginConfirm never names two leaders for one IP; the inFlight map and    *)
(* the leaders always agree; and no leader warms up what is warm.           *)
THEOREM FlightsAccounted == Spec => []FlightsSound
<1>1. IInv => FlightsSound
  BY DEF IInv, FlightsSound
<1>2. QED BY <1>1, Inductive, PTL

(* finishConfirm never closes a closed channel, which would panic and take   *)
(* the process down with it.                                                 *)
THEOREM NoDoubleClose == Spec => []CloseOnce
<1>1. IInv => CloseOnce
  BY DEF IInv
<1>2. QED BY <1>1, Inductive, PTL

(* No waiter is ever left with an open channel that nobody will close.       *)
THEOREM NoLostWakeup == Spec => []WaitersCovered
<1>1. IInv => WaitersCovered
  BY DEF IInv
<1>2. QED BY <1>1, Inductive, PTL

(* Cached as warm means proved by a warm-up.                                 *)
THEOREM WarmthProved == Spec => []WarmIsConfirmed
<1>1. IInv => WarmIsConfirmed
  BY DEF IInv
<1>2. QED BY <1>1, Inductive, PTL

----
(* The bound on the cache needs finiteness next to the bound itself.        *)
Bounded == IsFiniteSet(DOMAIN entries) /\ CacheBounded

LEMMA ShrinkBounded ==
    ASSUME Bounded, DOMAIN entries' \subseteq DOMAIN entries PROVE Bounded'
<1>1. /\ IsFiniteSet(DOMAIN entries')
      /\ Cardinality(DOMAIN entries') <= Cardinality(DOMAIN entries)
  BY FS_Subset DEF Bounded
<1>2. /\ Cardinality(DOMAIN entries') \in Nat
      /\ Cardinality(DOMAIN entries) \in Nat
  BY <1>1, FS_CardinalityType DEF Bounded
<1>3. QED BY <1>1, <1>2, OpenerConstants DEF Bounded, CacheBounded

LEMMA MarkedBounded ==
    ASSUME Bounded, NEW k PROVE /\ IsFiniteSet(DOMAIN Marked(k))
                                /\ Cardinality(DOMAIN Marked(k)) <= MaxSize
<1>1. IsFiniteSet(Live) /\ Live \subseteq DOMAIN entries
  BY FS_Subset DEF Live, Bounded
<1>2. PICK S : /\ IsFiniteSet(S)
               /\ Cardinality(S) < MaxSize
               /\ DOMAIN Marked(k) = S \cup {k}
  <2>1. CASE Cardinality(DOMAIN entries) < MaxSize
    BY <2>1 DEF Marked, With, Bounded
  <2>2. CASE ~(Cardinality(DOMAIN entries) < MaxSize) /\ Cardinality(Live) < MaxSize
    <3>1. DOMAIN Marked(k) = Live \cup {k}
      BY <1>1, <2>2 DEF Marked, With, Only
    <3>2. QED BY <1>1, <2>2, <3>1
  <2>3. CASE ~(Cardinality(DOMAIN entries) < MaxSize) /\ ~(Cardinality(Live) < MaxSize)
    <3>1. DOMAIN Marked(k) = {} \cup {k}
      BY <2>3 DEF Marked, With, Only
    <3>2. QED BY <3>1, FS_EmptySet, OpenerConstants
  <2>4. QED BY <2>1, <2>2, <2>3
<1>3. /\ IsFiniteSet(S \cup {k})
      /\ Cardinality(S \cup {k}) = Cardinality(S) \/ Cardinality(S \cup {k}) = Cardinality(S) + 1
  BY <1>2, FS_AddElement
<1>4. Cardinality(S) \in Nat
  BY <1>2, FS_CardinalityType
<1>5. QED BY <1>2, <1>3, <1>4, OpenerConstants

LEMMA NextBounded == IInv /\ Bounded /\ [Next]_vars => Bounded'
<1> SUFFICES ASSUME IInv, Bounded, [Next]_vars PROVE Bounded'
  OBVIOUS
<1>1. CASE UNCHANGED vars
  BY <1>1 DEF vars, Bounded, CacheBounded
<1>2. CASE Tick
  <2>1. DOMAIN entries' = DOMAIN entries
    BY <1>2 DEF Tick
  <2>2. QED BY <2>1, ShrinkBounded
<1>3. ASSUME NEW c \in Callers, Open(c) \/ Cancel(c) \/ Step(c) PROVE Bounded'
  <2>0. ip[c] \in IPs /\ TypeOK
    BY DEF IInv, TypeOK
  <2>1. CASE Seen(c) \/ BeginConfirm(c) \/ DialClient(c)
    <3>1. entries' = Probed(ip[c])
      BY <2>1 DEF Seen, BeginConfirm, DialClient
    <3>2. QED BY <2>0, <3>1, ProbedShrinks, ShrinkBounded
  <2>2. CASE Finish(c)
    <3>1. CASE ok[c]
      <4>1. entries' = Marked(ip[c])
        BY <2>2, <3>1 DEF Finish
      <4>2. QED BY <4>1, MarkedBounded DEF Bounded, CacheBounded
    <3>2. CASE ~ok[c]
      BY <2>2, <3>2, ShrinkBounded DEF Finish
    <3>3. QED BY <3>1, <3>2
  <2>3. CASE ~(Seen(c) \/ BeginConfirm(c) \/ DialClient(c) \/ Finish(c))
    <3>1. entries' = entries
      BY <1>3, <2>3 DEF Open, Cancel, Step, WaitClosed, WaitCancelled, DialFirst, DialRetry,
         DialAgain, DialWarm, ConfirmOK, ConfirmFails, Close, AfterFailure, DialOthers
    <3>2. QED BY <3>1, ShrinkBounded
  <2>4. QED BY <2>1, <2>2, <2>3
<1>4. QED BY <1>1, <1>2, <1>3 DEF Next

(* The warm set stays within maxSize for every maxSize and every set of     *)
(* exit IPs: eviction, then the wipe, always make room for the new mark.    *)
THEOREM CacheNeverOverflows == Spec => []CacheBounded
<1>1. Init => Bounded
  <2>1. ASSUME Init PROVE Bounded
    <3>1. DOMAIN entries = {}
      BY <2>1 DEF Init
    <3>2. QED BY <3>1, FS_EmptySet, OpenerConstants DEF Bounded, CacheBounded
  <2>2. QED BY <2>1
<1>2. Bounded => CacheBounded
  BY DEF Bounded
<1>3. QED BY <1>1, <1>2, Inductive, NextBounded, PTL DEF Spec

----
(* IPv6Opener implements SingleFlight, the liveness aside.                  *)

LEMMA LeaderIsCaptain ==
    ASSUME IInv, NEW c \in Callers, Leading(c) PROVE ip[c] \in IPs /\ Captain[ip[c]] = c
<1>1. ip[c] \in IPs /\ ip[c] \in DOMAIN inFlight
  BY DEF IInv, TypeOK, FlightsHaveLeaders
<1>2. \A d \in Callers : Leading(d) /\ ip[d] = ip[c] => d = c
  BY DEF IInv, OneLeader
<1>3. (CHOOSE d \in Callers : Leading(d) /\ ip[d] = ip[c]) = c
  BY <1>2
<1>4. QED BY <1>1, <1>3 DEF Captain

LEMMA CaptainLeads ==
    ASSUME IInv, NEW k \in IPs
    PROVE  /\ k \notin DOMAIN inFlight => Captain[k] = NoChan
           /\ k \in DOMAIN inFlight => /\ Captain[k] \in Callers
                                       /\ Leading(Captain[k])
                                       /\ ip[Captain[k]] = k
<1>1. CASE k \notin DOMAIN inFlight
  BY <1>1 DEF Captain
<1>2. CASE k \in DOMAIN inFlight
  <2>1. PICK c \in Callers : Leading(c) /\ ip[c] = k
    BY <1>2 DEF IInv, FlightsHaveLeaders
  <2>2. QED BY <1>2, <2>1, LeaderIsCaptain
<1>3. QED BY <1>1, <1>2

(* Waiting callers lead nothing and ride at most one flight.                *)
LEMMA WaiterIsFree ==
    ASSUME IInv, NEW c \in Callers, pc[c] \in {"begin", "seen"} PROVE Flight!Free(c)
<1>1. ~Leading(c)
  BY DEF Leading, Dialing
<1>2. ASSUME NEW k \in IPs PROVE Captain[k] # c /\ c \notin Riders[k]
  BY <1>1, CaptainLeads, OpenerConstants DEF Riders, Rides
<1>3. QED BY <1>2 DEF Flight!Free

(* Steps that leave leaders and map alone keep every captain.               *)
LEMMA SameCaptains ==
    ASSUME IInv, IInv', inFlight' = inFlight,
           \A d \in Callers : /\ Leading(d)' <=> Leading(d)
                              /\ Leading(d) => ip'[d] = ip[d]
    PROVE  Captain' = Captain
<1>1. ASSUME NEW k \in IPs PROVE Captain'[k] = Captain[k]
  <2>1. CASE k \notin DOMAIN inFlight
    BY <2>1 DEF Captain
  <2>2. CASE k \in DOMAIN inFlight
    <3>1. PICK c \in Callers : Leading(c) /\ ip[c] = k
      BY <2>2 DEF IInv, FlightsHaveLeaders
    <3>2. Captain[k] = c
      BY <3>1, LeaderIsCaptain
    <3>3. \A d \in Callers : Leading(d)' /\ ip'[d] = k => d = c
      BY <3>1 DEF IInv, OneLeader
    <3>4. (CHOOSE d \in Callers : Leading(d)' /\ ip'[d] = k) = c
      BY <3>1, <3>3
    <3>5. QED BY <2>2, <3>2, <3>4 DEF Captain
  <2>3. QED BY <2>1, <2>2
<1>2. QED BY <1>1 DEF Captain

LEMMA QuietRefines ==
    ASSUME IInv, IInv', Quiet, NEW c \in Callers,
           \A d \in Callers : pc[d] = "wait" => pc'[d] = "wait" \/ WaitClosed(d)
    PROVE  UNCHANGED Flight!sfVars
<1>1. Captain' = Captain
  BY SameCaptains DEF Quiet
<1>2. ASSUME NEW d \in Callers, NEW k \in IPs PROVE Rides(d, k)' <=> Rides(d, k)
  <2>1. Rides(d, k) => wait[d] \notin closed
    BY DEF Rides, IInv, FlightsHaveLeaders, CloseOnce
  <2>2. QED BY <2>1 DEF Rides, Quiet, WaitClosed
<1>3. Riders' = Riders
  BY <1>2 DEF Riders
<1>4. QED BY <1>1, <1>3 DEF Flight!sfVars

LEMMA CancelledWaiterBails ==
    ASSUME IInv, IInv', NEW c \in Callers, WaitCancelled(c)
    PROVE  Flight!SFNext \/ UNCHANGED Flight!sfVars
<1> USE DEF WaitCancelled, Goto
<1>1. Captain' = Captain
  BY WaitQuiet, SameCaptains DEF Quiet
<1>2. \A k \in IPs : Riders'[k] = Riders[k] \ {c}
  BY DEF Riders, Rides, IInv, TypeOK
<1>3. CASE \A k \in IPs : c \notin Riders[k]
  <2>1. \A k \in IPs : Riders'[k] = Riders[k]
    BY <1>2, <1>3
  <2>2. Riders' = Riders
    BY <2>1 DEF Riders
  <2>3. QED BY <1>1, <2>2 DEF Flight!sfVars
<1>4. CASE \E k \in IPs : c \in Riders[k]
  <2>1. PICK k \in IPs : c \in Riders[k]
    BY <1>4
  \* c waits on one channel, and two flights never share one
  <2>2. \A j \in IPs : c \in Riders[j] => j = k
    BY <2>1 DEF Riders, Rides, IInv, FlightsHaveLeaders, CloseOnce
  <2>3. \A j \in IPs : j # k => Riders'[j] = Riders[j]
    BY <1>2, <2>2
  <2>4. Riders' = [Riders EXCEPT ![k] = @ \ {c}]
    BY <1>2, <2>3 DEF Riders
  <2>5. Flight!Bail(c, k)
    BY <1>1, <2>1, <2>4 DEF Flight!Bail
  <2>6. QED BY <2>1, <2>5 DEF Flight!SFNext
<1>5. QED BY <1>3, <1>4

LEMMA WaiterBoards ==
    ASSUME IInv, IInv', NEW c \in Callers, BeginConfirm(c), BeginWaiter(c)
    PROVE  Flight!SFNext
<1> USE DEF BeginConfirm, BeginWaiter, Goto
<1>0. ip[c] \in IPs /\ TypeOK
  BY DEF IInv, TypeOK
<1>1. \A d \in Callers : Leading(d)' <=> Leading(d)
  BY <1>0 DEF TypeOK, Leading, Dialing
<1>2. Captain' = Captain
  BY <1>1, SameCaptains
<1>3. Flight!Free(c)
  BY WaiterIsFree
<1>4. Captain[ip[c]] # NoChan
  BY <1>0, CaptainLeads, OpenerConstants
<1>5. ASSUME NEW k \in IPs
      PROVE  Riders'[k] = IF k = ip[c] THEN Riders[k] \cup {c} ELSE Riders[k]
  <2>1. inFlight[ip[c]] = wait'[c] /\ pc'[c] = "wait"
    BY <1>0 DEF TypeOK
  <2>2. k # ip[c] /\ k \in DOMAIN inFlight => inFlight[k] # inFlight[ip[c]]
    BY DEF IInv, FlightsHaveLeaders, CloseOnce
  <2>3. c \notin Riders[k]
    BY DEF Riders, Rides
  <2>4. \A d \in Callers : d # c => (Rides(d, k)' <=> Rides(d, k))
    BY <1>0 DEF Rides, TypeOK
  <2>5. Rides(c, k)' <=> k = ip[c]
    BY <2>1, <2>2 DEF Rides
  <2>6. QED BY <2>3, <2>4, <2>5 DEF Riders
<1>6. Riders' = [Riders EXCEPT ![ip[c]] = @ \cup {c}]
  BY <1>5 DEF Riders
<1>7. Flight!Board(c, ip[c])
  BY <1>2, <1>3, <1>4, <1>6 DEF Flight!Board
<1>8. QED BY <1>0, <1>7 DEF Flight!SFNext

LEMMA LeaderTakesOff ==
    ASSUME IInv, IInv', NEW c \in Callers, BeginConfirm(c), BeginLeader(c)
    PROVE  Flight!SFNext
<1> USE DEF BeginConfirm, BeginLeader, Lead, Goto
<1>0. ip[c] \in IPs /\ TypeOK
  BY DEF IInv, TypeOK
<1>1. PICK ch \in Chans : /\ Fresh(ch)
                          /\ inFlight' = With(inFlight, ip[c], ch)
                          /\ wait' = [wait EXCEPT ![c] = ch]
  OBVIOUS
<1>2. Leading(c)' /\ ip'[c] = ip[c]
  BY <1>0 DEF TypeOK, Leading, Dialing
<1>3. Captain'[ip[c]] = c
  <2>1. \A d \in Callers : Leading(d)' /\ ip'[d] = ip[c] => d = c
    BY <1>2 DEF IInv, OneLeader
  <2>2. (CHOOSE d \in Callers : Leading(d)' /\ ip'[d] = ip[c]) = c
    BY <1>2, <2>1
  <2>3. ip[c] \in DOMAIN inFlight'
    BY <1>1 DEF With
  <2>4. QED BY <1>0, <2>2, <2>3 DEF Captain
<1>4. ASSUME NEW k \in IPs, k # ip[c] PROVE Captain'[k] = Captain[k]
  <2>1. k \in DOMAIN inFlight' <=> k \in DOMAIN inFlight
    BY <1>1, <1>4 DEF With
  <2>2. CASE k \notin DOMAIN inFlight
    BY <2>1, <2>2 DEF Captain
  <2>3. CASE k \in DOMAIN inFlight
    <3>1. PICK d \in Callers : Leading(d) /\ ip[d] = k
      BY <2>3 DEF IInv, FlightsHaveLeaders
    <3>2. Leading(d)' /\ ip'[d] = k
      BY <1>0, <1>4, <3>1 DEF TypeOK, Leading
    <3>3. \A e \in Callers : Leading(e)' /\ ip'[e] = k => e = d
      BY <3>2 DEF IInv, OneLeader
    <3>4. (CHOOSE e \in Callers : Leading(e)' /\ ip'[e] = k) = d
      BY <3>2, <3>3
    <3>5. QED BY <2>1, <2>3, <3>1, <3>4, LeaderIsCaptain DEF Captain
  <2>4. QED BY <2>2, <2>3
<1>5. Captain' = [Captain EXCEPT ![ip[c]] = c]
  <2>1. DOMAIN Captain = IPs /\ Captain = [k \in IPs |-> Captain[k]]
    BY DEF Captain
  <2>2. DOMAIN Captain' = IPs /\ Captain' = [k \in IPs |-> Captain'[k]]
    BY DEF Captain
  <2>3. QED BY <1>0, <1>3, <1>4, <2>1, <2>2
<1>6. ASSUME NEW k \in IPs, NEW d \in Callers PROVE Rides(d, k)' <=> Rides(d, k)
  <2>1. CASE d = c
    BY <1>0, <2>1 DEF Rides, TypeOK
  <2>2. CASE d # c /\ k = ip[c]
    BY <1>0, <1>1, <2>2 DEF Rides, TypeOK, With, Fresh
  <2>3. CASE d # c /\ k # ip[c]
    BY <1>0, <1>1, <2>3 DEF Rides, TypeOK, With
  <2>4. QED BY <2>1, <2>2, <2>3
<1>7. Riders' = Riders
  BY <1>6 DEF Riders
<1>8. Captain[ip[c]] = NoChan
  BY <1>0, CaptainLeads
<1>9. Flight!TakeOff(c, ip[c])
  BY <1>5, <1>7, <1>8, WaiterIsFree DEF Flight!TakeOff
<1>10. QED BY <1>0, <1>9 DEF Flight!SFNext

LEMMA FinishLands ==
    ASSUME IInv, IInv', NEW c \in Callers, Finish(c) PROVE Flight!SFNext
<1> USE DEF Finish, Goto
<1>0. ip[c] \in IPs /\ ip[c] \in DOMAIN inFlight /\ TypeOK /\ Leading(c)
  BY DEF IInv, TypeOK, FlightsHaveLeaders, Leading
<1>1. Captain[ip[c]] # NoChan
  BY <1>0, CaptainLeads, OpenerConstants
<1>2. inFlight' = Only(inFlight, IPs \ {ip[c]})
  OBVIOUS
<1>3. ASSUME NEW k \in IPs, k # ip[c] PROVE Captain'[k] = Captain[k]
  <2>1. k \in DOMAIN inFlight' <=> k \in DOMAIN inFlight
    BY <1>2, <1>3 DEF Only
  <2>2. CASE k \notin DOMAIN inFlight
    BY <2>1, <2>2 DEF Captain
  <2>3. CASE k \in DOMAIN inFlight
    <3>1. PICK d \in Callers : Leading(d) /\ ip[d] = k
      BY <2>3 DEF IInv, FlightsHaveLeaders
    <3>2. Leading(d)' /\ ip'[d] = k
      BY <1>0, <1>3, <3>1 DEF TypeOK, Leading
    <3>3. \A e \in Callers : Leading(e)' /\ ip'[e] = k => e = d
      BY <3>2 DEF IInv, OneLeader
    <3>4. (CHOOSE e \in Callers : Leading(e)' /\ ip'[e] = k) = d
      BY <3>2, <3>3
    <3>5. QED BY <2>1, <2>3, <3>1, <3>4, LeaderIsCaptain DEF Captain
  <2>4. QED BY <2>2, <2>3
<1>4. Captain' = [Captain EXCEPT ![ip[c]] = NoChan]
  <2>1. DOMAIN Captain = IPs /\ Captain = [k \in IPs |-> Captain[k]]
    BY DEF Captain
  <2>2. DOMAIN Captain' = IPs /\ Captain' = [k \in IPs |-> Captain'[k]]
    BY DEF Captain
  <2>3. Captain'[ip[c]] = NoChan
    BY <1>0, <1>2 DEF Captain, Only
  <2>4. QED BY <1>0, <1>3, <2>1, <2>2, <2>3
<1>5. ASSUME NEW k \in IPs PROVE Riders'[k] = IF k = ip[c] THEN {} ELSE Riders[k]
  <2>1. CASE k = ip[c]
    BY <1>0, <1>2, <2>1 DEF Riders, Rides, Only
  <2>2. CASE k # ip[c]
    <3>1. \A d \in Callers : Rides(d, k)' <=> Rides(d, k)
      BY <1>0, <1>2, <2>2 DEF Rides, TypeOK, Only
    <3>2. QED BY <2>2, <3>1 DEF Riders
  <2>3. QED BY <2>1, <2>2
<1>6. Riders' = [Riders EXCEPT ![ip[c]] = {}]
  <2>1. DOMAIN Riders = IPs /\ Riders = [k \in IPs |-> Riders[k]]
    BY DEF Riders
  <2>2. DOMAIN Riders' = IPs /\ Riders' = [k \in IPs |-> Riders'[k]]
    BY DEF Riders
  <2>3. QED BY <1>0, <1>5, <2>1, <2>2
<1>7. Flight!Land(ip[c])
  BY <1>1, <1>4, <1>6 DEF Flight!Land
<1>8. QED BY <1>0, <1>7 DEF Flight!SFNext

\* The channel a landed leader closes belongs to no flight any more.
LEMMA CloseStutters ==
    ASSUME IInv, IInv', NEW c \in Callers, Close(c) PROVE UNCHANGED Flight!sfVars
<1> USE DEF Close, Goto
<1>0. TypeOK
  BY DEF IInv
<1>1. \A d \in Callers : Leading(d)' <=> Leading(d)
  BY <1>0 DEF TypeOK, Leading, Dialing
<1>2. Captain' = Captain
  BY <1>1, SameCaptains
<1>3. ASSUME NEW k \in IPs, NEW d \in Callers PROVE Rides(d, k)' <=> Rides(d, k)
  BY <1>0 DEF Rides, TypeOK
<1>4. Riders' = Riders
  BY <1>3 DEF Riders
<1>5. QED BY <1>2, <1>4 DEF Flight!sfVars

LEMMA StepRefines ==
    ASSUME IInv, IInv', NEW c \in Callers, Open(c) \/ Cancel(c) \/ Step(c)
    PROVE  Flight!SFNext \/ UNCHANGED Flight!sfVars
<1>1. CASE Open(c) \/ Cancel(c) \/ Seen(c) \/ DialClient(c) \/ AfterFailure(c) \/ ConfirmOK(c)
  <2>1. Quiet
    BY <1>1, OpenQuiet, CancelQuiet, SeenQuiet, DialClientQuiet, AfterFailureQuiet, ConfirmOKQuiet
  <2>2. \A d \in Callers : pc[d] = "wait" => pc'[d] = "wait"
    BY <1>1 DEF Open, Cancel, Seen, DialClient, AfterFailure, ConfirmOK, Goto, Returned, IInv, TypeOK
  <2>3. QED BY <2>1, <2>2, QuietRefines
<1>2. CASE DialFirst(c) \/ DialRetry(c) \/ DialAgain(c) \/ DialWarm(c) \/ ConfirmFails(c)
  <2>1. Quiet
    BY <1>2, DialQuiet
  <2>2. \A d \in Callers : pc[d] = "wait" => pc'[d] = "wait"
    BY <1>2 DEF DialFirst, DialRetry, DialAgain, DialWarm, ConfirmFails, Fail, Connect, Goto, IInv, TypeOK
  <2>3. QED BY <2>1, <2>2, QuietRefines
<1>3. CASE WaitClosed(c)
  <2>1. Quiet
    BY <1>3, WaitQuiet
  <2>2. \A d \in Callers : pc[d] = "wait" => pc'[d] = "wait" \/ WaitClosed(d)
    BY <1>3 DEF WaitClosed, Goto, IInv, TypeOK
  <2>3. QED BY <2>1, <2>2, QuietRefines
<1>4. CASE WaitCancelled(c)
  BY <1>4, CancelledWaiterBails
<1>5. CASE BeginConfirm(c)
  <2>1. CASE BeginWarm(c)
    <3>1. Quiet
      BY <1>5, <2>1, BeginWarmQuiet
    <3>2. \A d \in Callers : pc[d] = "wait" => pc'[d] = "wait"
      BY <1>5, <2>1 DEF BeginConfirm, BeginWarm, Goto, IInv, TypeOK
    <3>3. QED BY <3>1, <3>2, QuietRefines
  <2>2. CASE BeginWaiter(c)
    BY <1>5, <2>2, WaiterBoards
  <2>3. CASE BeginLeader(c)
    BY <1>5, <2>3, LeaderTakesOff
  <2>4. QED BY <1>5, <2>1, <2>2, <2>3 DEF BeginConfirm
<1>6. CASE Finish(c)
  BY <1>6, FinishLands
<1>7. CASE Close(c)
  BY <1>7, CloseStutters
<1>8. QED BY <1>1, <1>2, <1>3, <1>4, <1>5, <1>6, <1>7 DEF Step

(* Every behaviour of the opener is one of SingleFlight's: whatever the     *)
(* interleaving, one flight per exit IP, and a landing lets every rider go. *)
THEOREM ImplementsSingleFlight == Spec => Flight!SFInit /\ [][Flight!SFNext]_Flight!sfVars
<1>1. Init => Flight!SFInit
  BY DEF Init, Flight!SFInit, Captain, Riders, Rides
<1>2. IInv /\ IInv' /\ [Next]_vars => [Flight!SFNext]_Flight!sfVars
  <2> SUFFICES ASSUME IInv, IInv', [Next]_vars
               PROVE  Flight!SFNext \/ UNCHANGED Flight!sfVars
    OBVIOUS
  <2>1. CASE UNCHANGED vars
    BY <2>1 DEF vars, Flight!sfVars, Captain, Riders, Rides, Leading
  <2>2. CASE Tick
    <3>1. Captain' = Captain
      BY <2>2, SameCaptains DEF Tick, Leading
    <3>2. Riders' = Riders
      BY <2>2 DEF Tick, Riders, Rides
    <3>3. QED BY <3>1, <3>2 DEF Flight!sfVars
  <2>3. CASE \E c \in Callers : Open(c) \/ Cancel(c) \/ Step(c)
    BY <2>3, StepRefines
  <2>4. QED BY <2>1, <2>2, <2>3 DEF Next
<1>3. QED BY <1>1, <1>2, Inductive, PTL DEF Spec
====

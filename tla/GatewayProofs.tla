---- MODULE GatewayProofs ----
(***************************************************************************)
(* Proofs about ProxyRequest and Gateway, for any number of requests: what *)
(* a request does wherever the port manager stands, and then that what is  *)
(* proved of the requests and of the port manager each by themselves holds *)
(* when they run together.                                                 *)
(***************************************************************************)
EXTENDS Gateway, TLAPS

Waiting == {"idle", "negotiate", "admit", "request", "dial"}

(* What a request has got hold of by the stage it is at. The setting: a dial  *)
(* was given FALSE or began, or was overtaken, while the fallback was on, and *)
(* only a dial given TRUE gets to "v4".                                       *)
Allowed(c) == /\ pc[c] \in DialPCs /\ allow[c] => since[c] = "on"
              /\ pc[c] = "v4" => allow[c]
              /\ fam[c] = "v4" => since[c] = "on"

(* The sockets: nothing before the dial, and a family after it.               *)
Stage(c) ==
    /\ pc[c] \in Waiting => since[c] = "none"
    /\ pc[c] \in Waiting \cup DialPCs => up[c] = "none" /\ fam[c] = "none"
    /\ pc[c] \in {"hijack", "sent", "reply", "relay"} => fam[c] # "none"
    /\ pc[c] \in {"hijack", "relay"} => kind[c] # "plain"
    /\ pc[c] = "sent" => kind[c] = "plain"
    /\ pc[c] = "hijack" => kind[c] = "connect"
    /\ pc[c] = "negotiate" => kind[c] = "socks5"

(* The log: one entry, at once for a SOCKS5 tunnel and at the end for the     *)
(* others, of what LogTellsExit says.                                         *)
Entry(c) ==
    /\ pc[c] \notin {"relay", "done"} => log[c] = <<>>
    /\ pc[c] = "relay" /\ kind[c] = "connect" => log[c] = <<>>
    /\ Len(log[c]) <= 1
    /\ pc[c] = "done" /\ since[c] # "none" => log[c] # <<>>
    /\ pc[c] = "relay" /\ kind[c] = "socks5" => log[c] # <<>>
    /\ log[c] # <<>> /\ log[c][1].success => fam[c] # "none"
    /\ log[c] # <<>> =>
          \/ log[c][1].exit = Exit(c)
          \/ kind[c] = "plain" /\ cli[c] # "open" /\ ~log[c][1].success

IInv == TypeOK /\ \A c \in Conns : Allowed(c) /\ Stage(c) /\ Entry(c)

LEMMA InitIInv == Init => IInv
<1> SUFFICES ASSUME Init PROVE IInv
  OBVIOUS
<1>1. TypeOK
  <2>1. deadline = {c \in Conns : pc[c] = "negotiate"}
    BY DEF Init
  <2>2. log \in [Conns -> Seq(Entries)]
    BY DEF Init
  <2>3. QED BY <2>1, <2>2 DEF Init, TypeOK, Owned, Uploads, DialPCs, Families, Kinds, Ways
<1>2. \A c \in Conns : Allowed(c) /\ Stage(c)
  BY DEF Init, Allowed, Stage, Waiting, DialPCs
<1>3. \A c \in Conns : Entry(c)
  <2>1. \A c \in Conns : log[c] = <<>> /\ pc[c] = "idle"
    BY DEF Init
  <2>2. Len(<<>>) <= 1
    OBVIOUS
  <2>3. QED BY <2>1, <2>2 DEF Entry
<1>4. QED BY <1>1, <1>2, <1>3 DEF IInv

LEMMA SettingKeeps == ASSUME IInv, SetIPv4Fallback PROVE IInv'
<1>1. TypeOK'
  BY DEF IInv, TypeOK, Owned, Uploads, SetIPv4Fallback, copies
<1>2. \A c \in Conns : Allowed(c)' /\ Stage(c)' /\ Entry(c)'
  BY DEF IInv, TypeOK, Allowed, Stage, Entry, Exit, SetIPv4Fallback, copies, Waiting, DialPCs
<1>3. QED BY <1>1, <1>2 DEF IInv

LEMMA ClientEndsKeeps == ASSUME IInv, NEW c \in Conns, ClientEnds(c) PROVE IInv'
<1> USE DEF ClientEnds, dialling, copies, Goto
<1>1. TypeOK'
  BY DEF IInv, TypeOK, Owned, Uploads, Stage, Entry, Exit, Waiting, DialPCs, Families, Kinds, Ways,
         Entries, Types
<1>2. \A d \in Conns : Allowed(d)'
  BY DEF IInv, TypeOK, Allowed, Stage, Waiting, DialPCs, Families
<1>3. \A d \in Conns : Stage(d)'
  BY DEF IInv, TypeOK, Stage, Waiting, DialPCs, Families, Kinds
<1>4. \A d \in Conns : Entry(d)'
  BY DEF IInv, TypeOK, Stage, Entry, Exit, Waiting, DialPCs, Kinds, Entries, Types
<1>5. QED BY <1>1, <1>2, <1>3, <1>4 DEF IInv

LEMMA TargetEndsKeeps == ASSUME IInv, NEW c \in Conns, TargetEnds(c) PROVE IInv'
<1> USE DEF TargetEnds, dialling, copies, Goto
<1>1. TypeOK'
  BY DEF IInv, TypeOK, Owned, Uploads, Stage, Entry, Exit, Waiting, DialPCs, Families, Kinds, Ways,
         Entries, Types
<1>2. \A d \in Conns : Allowed(d)'
  BY DEF IInv, TypeOK, Allowed, Stage, Waiting, DialPCs, Families
<1>3. \A d \in Conns : Stage(d)'
  BY DEF IInv, TypeOK, Stage, Waiting, DialPCs, Families, Kinds
<1>4. \A d \in Conns : Entry(d)'
  BY DEF IInv, TypeOK, Stage, Entry, Exit, Waiting, DialPCs, Kinds, Entries, Types
<1>5. QED BY <1>1, <1>2, <1>3, <1>4 DEF IInv

LEMMA AcceptKeeps == ASSUME IInv, NEW c \in Conns, Accept(c) PROVE IInv'
<1> USE DEF Accept, dialling, copies, Goto, Return
<1>1. TypeOK'
  <2>1. deadline' = {d \in Conns : pc'[d] = "negotiate"}
    BY DEF IInv, TypeOK, Stage, DialPCs, Kinds
  <2>2. log' \in [Conns -> Seq(Entries)]
    BY DEF IInv, TypeOK, Exit, Entries, Types
  <2>3. /\ pc' \in [Conns -> {"idle", "negotiate", "admit", "request", "dial", "hijack", "sent",
                              "relay", "reply", "done"} \cup DialPCs]
        /\ cli' \in [Conns -> {"open", "eof", "closed"}]
        /\ up' \in [Conns -> {"none", "open", "eof", "closed"}]
        /\ fam' \in [Conns -> Families \cup {"none"}]
        /\ dns' \in [Conns -> SUBSET Families]
        /\ copying' \in [Conns -> SUBSET Ways] /\ blocked' \in [Conns -> SUBSET Ways]
    BY DEF IInv, TypeOK, DialPCs, Families, Kinds, Ways
  <2>4. \A d \in Conns : Owned(d)'
    BY DEF IInv, TypeOK, Owned, Uploads, Stage, DialPCs, Kinds, Waiting
  <2>5. QED BY <2>1, <2>2, <2>3, <2>4 DEF IInv, TypeOK
<1>2. \A d \in Conns : Allowed(d)'
  BY DEF IInv, TypeOK, Allowed, Stage, Waiting, DialPCs, Families
<1>3. \A d \in Conns : Stage(d)'
  BY DEF IInv, TypeOK, Stage, Waiting, DialPCs, Families, Kinds
<1>4. \A d \in Conns : Entry(d)'
  BY DEF IInv, TypeOK, Stage, Entry, Exit, Waiting, DialPCs, Kinds, Entries, Types
<1>5. QED BY <1>1, <1>2, <1>3, <1>4 DEF IInv

LEMMA NegotiateKeeps == ASSUME IInv, NEW c \in Conns, Negotiate(c) PROVE IInv'
<1> USE DEF Negotiate, dialling, copies, Goto, Return
<1>1. TypeOK'
  <2>1. deadline' = {d \in Conns : pc'[d] = "negotiate"}
    <3>1. deadline' = deadline \ {c} /\ pc' = [pc EXCEPT ![c] = pc'[c]] /\ pc'[c] # "negotiate"
      BY DEF IInv, TypeOK
    <3>2. QED BY <3>1 DEF IInv, TypeOK
  <2>2. log' \in [Conns -> Seq(Entries)]
    BY DEF IInv, TypeOK, Exit, Entries, Types
  <2>3. /\ pc' \in [Conns -> {"idle", "negotiate", "admit", "request", "dial", "hijack", "sent",
                              "relay", "reply", "done"} \cup DialPCs]
        /\ cli' \in [Conns -> {"open", "eof", "closed"}]
        /\ up' \in [Conns -> {"none", "open", "eof", "closed"}]
        /\ fam' \in [Conns -> Families \cup {"none"}]
        /\ dns' \in [Conns -> SUBSET Families]
        /\ copying' \in [Conns -> SUBSET Ways] /\ blocked' \in [Conns -> SUBSET Ways]
    BY DEF IInv, TypeOK, DialPCs, Families, Kinds, Ways
  <2>4. \A d \in Conns : Owned(d)'
    BY DEF IInv, TypeOK, Owned, Uploads, Stage, DialPCs, Kinds, Waiting
  <2>5. QED BY <2>1, <2>2, <2>3, <2>4 DEF IInv, TypeOK
<1>2. \A d \in Conns : Allowed(d)'
  BY DEF IInv, TypeOK, Allowed, Stage, Waiting, DialPCs, Families
<1>3. \A d \in Conns : Stage(d)'
  BY DEF IInv, TypeOK, Stage, Waiting, DialPCs, Families, Kinds
<1>4. \A d \in Conns : Entry(d)'
  BY DEF IInv, TypeOK, Stage, Entry, Exit, Waiting, DialPCs, Kinds, Entries, Types
<1>5. QED BY <1>1, <1>2, <1>3, <1>4 DEF IInv

LEMMA HandshakeFailsKeeps == ASSUME IInv, NEW c \in Conns, HandshakeFails(c) PROVE IInv'
<1> USE DEF HandshakeFails, dialling, copies, Goto, Return
<1>1. TypeOK'
  BY DEF IInv, TypeOK, Owned, Uploads, Stage, Entry, Exit, Waiting, DialPCs, Families, Kinds, Ways,
         Entries, Types
<1>2. \A d \in Conns : Allowed(d)'
  BY DEF IInv, TypeOK, Allowed, Stage, Waiting, DialPCs, Families
<1>3. \A d \in Conns : Stage(d)'
  BY DEF IInv, TypeOK, Stage, Waiting, DialPCs, Families, Kinds
<1>4. \A d \in Conns : Entry(d)'
  BY DEF IInv, TypeOK, Stage, Entry, Exit, Waiting, DialPCs, Kinds, Entries, Types
<1>5. QED BY <1>1, <1>2, <1>3, <1>4 DEF IInv

LEMMA AdmitKeeps == ASSUME IInv, NEW c \in Conns, Admit(c) PROVE IInv'
<1> USE DEF Admit, dialling, copies, Goto, Return
<1>1. TypeOK'
  <2>1. deadline' = {d \in Conns : pc'[d] = "negotiate"}
    BY DEF IInv, TypeOK, Stage, DialPCs, Kinds
  <2>2. log' \in [Conns -> Seq(Entries)]
    BY DEF IInv, TypeOK, Exit, Entries, Types
  <2>3. /\ pc' \in [Conns -> {"idle", "negotiate", "admit", "request", "dial", "hijack", "sent",
                              "relay", "reply", "done"} \cup DialPCs]
        /\ cli' \in [Conns -> {"open", "eof", "closed"}]
        /\ up' \in [Conns -> {"none", "open", "eof", "closed"}]
        /\ fam' \in [Conns -> Families \cup {"none"}]
        /\ dns' \in [Conns -> SUBSET Families]
        /\ copying' \in [Conns -> SUBSET Ways] /\ blocked' \in [Conns -> SUBSET Ways]
    BY DEF IInv, TypeOK, DialPCs, Families, Kinds, Ways
  <2>4. \A d \in Conns : Owned(d)'
    BY DEF IInv, TypeOK, Owned, Uploads, Stage, DialPCs, Kinds, Waiting
  <2>5. QED BY <2>1, <2>2, <2>3, <2>4 DEF IInv, TypeOK
<1>2. \A d \in Conns : Allowed(d)'
  BY DEF IInv, TypeOK, Allowed, Stage, Waiting, DialPCs, Families
<1>3. \A d \in Conns : Stage(d)'
  BY DEF IInv, TypeOK, Stage, Waiting, DialPCs, Families, Kinds
<1>4. \A d \in Conns : Entry(d)'
  BY DEF IInv, TypeOK, Stage, Entry, Exit, Waiting, DialPCs, Kinds, Entries, Types
<1>5. QED BY <1>1, <1>2, <1>3, <1>4 DEF IInv

LEMMA RequestKeeps == ASSUME IInv, NEW c \in Conns, Request(c) PROVE IInv'
<1> USE DEF Request, dialling, copies, Goto, Return
<1>1. TypeOK'
  <2>1. deadline' = {d \in Conns : pc'[d] = "negotiate"}
    BY DEF IInv, TypeOK, Stage, DialPCs, Kinds
  <2>2. log' \in [Conns -> Seq(Entries)]
    BY DEF IInv, TypeOK, Exit, Entries, Types
  <2>3. /\ pc' \in [Conns -> {"idle", "negotiate", "admit", "request", "dial", "hijack", "sent",
                              "relay", "reply", "done"} \cup DialPCs]
        /\ cli' \in [Conns -> {"open", "eof", "closed"}]
        /\ up' \in [Conns -> {"none", "open", "eof", "closed"}]
        /\ fam' \in [Conns -> Families \cup {"none"}]
        /\ dns' \in [Conns -> SUBSET Families]
        /\ copying' \in [Conns -> SUBSET Ways] /\ blocked' \in [Conns -> SUBSET Ways]
    BY DEF IInv, TypeOK, DialPCs, Families, Kinds, Ways
  <2>4. \A d \in Conns : Owned(d)'
    BY DEF IInv, TypeOK, Owned, Uploads, Stage, DialPCs, Kinds, Waiting
  <2>5. QED BY <2>1, <2>2, <2>3, <2>4 DEF IInv, TypeOK
<1>2. \A d \in Conns : Allowed(d)'
  BY DEF IInv, TypeOK, Allowed, Stage, Waiting, DialPCs, Families
<1>3. \A d \in Conns : Stage(d)'
  BY DEF IInv, TypeOK, Stage, Waiting, DialPCs, Families, Kinds
<1>4. \A d \in Conns : Entry(d)'
  BY DEF IInv, TypeOK, Stage, Entry, Exit, Waiting, DialPCs, Kinds, Entries, Types
<1>5. QED BY <1>1, <1>2, <1>3, <1>4 DEF IInv

LEMMA StartDialKeeps == ASSUME IInv, NEW c \in Conns, StartDial(c) PROVE IInv'
<1> USE DEF StartDial, dialling, copies, Goto
<1>1. TypeOK'
  BY DEF IInv, TypeOK, Owned, Uploads, Stage, Entry, Exit, Waiting, DialPCs, Families, Kinds, Ways,
         Entries, Types
<1>2. \A d \in Conns : Allowed(d)'
  BY DEF IInv, TypeOK, Allowed, Stage, Waiting, DialPCs, Families
<1>3. \A d \in Conns : Stage(d)'
  BY DEF IInv, TypeOK, Stage, Waiting, DialPCs, Families, Kinds
<1>4. \A d \in Conns : Entry(d)'
  BY DEF IInv, TypeOK, Stage, Entry, Exit, Waiting, DialPCs, Kinds, Entries, Types
<1>5. QED BY <1>1, <1>2, <1>3, <1>4 DEF IInv

LEMMA ReplyKeeps == ASSUME IInv, NEW c \in Conns, Reply(c) PROVE IInv'
<1> USE DEF Reply, dialling, copies, Goto, Record
<1>1. TypeOK'
  BY DEF IInv, TypeOK, Owned, Uploads, Stage, Entry, Exit, Waiting, DialPCs, Families, Kinds, Ways,
         Entries, Types
<1>2. \A d \in Conns : Allowed(d)'
  BY DEF IInv, TypeOK, Allowed, Stage, Waiting, DialPCs, Families
<1>3. \A d \in Conns : Stage(d)'
  BY DEF IInv, TypeOK, Stage, Waiting, DialPCs, Families, Kinds
<1>4. \A d \in Conns : Entry(d)'
  BY DEF IInv, TypeOK, Stage, Entry, Exit, Waiting, DialPCs, Kinds, Entries, Types
<1>5. QED BY <1>1, <1>2, <1>3, <1>4 DEF IInv

LEMMA PlainReturnsKeeps == ASSUME IInv, NEW c \in Conns, PlainReturns(c) PROVE IInv'
<1> USE DEF PlainReturns, dialling, copies, Goto, Record
<1>1. TypeOK'
  <2>1. deadline' = {d \in Conns : pc'[d] = "negotiate"}
    BY DEF IInv, TypeOK, Stage, DialPCs, Kinds
  <2>2. log' \in [Conns -> Seq(Entries)]
    BY DEF IInv, TypeOK, Exit, Entries, Types
  <2>3. /\ pc' \in [Conns -> {"idle", "negotiate", "admit", "request", "dial", "hijack", "sent",
                              "relay", "reply", "done"} \cup DialPCs]
        /\ cli' \in [Conns -> {"open", "eof", "closed"}]
        /\ up' \in [Conns -> {"none", "open", "eof", "closed"}]
        /\ fam' \in [Conns -> Families \cup {"none"}]
        /\ dns' \in [Conns -> SUBSET Families]
        /\ copying' \in [Conns -> SUBSET Ways] /\ blocked' \in [Conns -> SUBSET Ways]
    BY DEF IInv, TypeOK, DialPCs, Families, Kinds, Ways
  <2>4. \A d \in Conns : Owned(d)'
    BY DEF IInv, TypeOK, Owned, Uploads, Stage, DialPCs, Kinds, Waiting
  <2>5. QED BY <2>1, <2>2, <2>3, <2>4 DEF IInv, TypeOK
<1>2. \A d \in Conns : Allowed(d)'
  BY DEF IInv, TypeOK, Allowed, Stage, Waiting, DialPCs, Families
<1>3. \A d \in Conns : Stage(d)'
  BY DEF IInv, TypeOK, Stage, Waiting, DialPCs, Families, Kinds
<1>4. \A d \in Conns : Entry(d)'
  BY DEF IInv, TypeOK, Stage, Entry, Exit, Waiting, DialPCs, Kinds, Entries, Types
<1>5. QED BY <1>1, <1>2, <1>3, <1>4 DEF IInv

LEMMA EndCopyKeeps == ASSUME IInv, NEW c \in Conns, NEW way \in Ways, EndCopy(c, way) PROVE IInv'
<1>1. TypeOK'
  BY DEF IInv, TypeOK, Owned, Uploads, EndCopy, dialling
<1>2. \A d \in Conns : Allowed(d)' /\ Stage(d)' /\ Entry(d)'
  BY DEF IInv, Allowed, Stage, Entry, Exit, EndCopy, dialling
<1>3. QED BY <1>1, <1>2 DEF IInv

(* A Write that hangs, and one that goes on.                                  *)
LEMMA BlockKeeps ==
    ASSUME IInv, NEW c \in Conns, NEW way \in Ways, WriteBlocks(c, way) \/ PeerReads(c, way)
    PROVE  IInv'
<1> USE DEF WriteBlocks, PeerReads, dialling
<1>1. /\ blocked' \in [Conns -> SUBSET Ways]
      /\ \A d \in Conns : blocked'[d] \subseteq IF Uploads(d) THEN {"out"} ELSE copying[d]
  <2>1. ASSUME NEW d \in Conns PROVE blocked[d] \subseteq IF Uploads(d) THEN {"out"} ELSE copying[d]
    BY DEF IInv, TypeOK, Owned
  <2>2. blocked \in [Conns -> SUBSET Ways]
    BY DEF IInv, TypeOK
  <2>3. CASE WriteBlocks(c, way)
    <3>1. way \in IF Uploads(c) THEN {"out"} ELSE copying[c]
      BY <2>3 DEF IInv, TypeOK, Owned, Uploads
    <3>2. QED BY <2>1, <2>2, <2>3, <3>1
  <2>4. CASE PeerReads(c, way)
    BY <2>1, <2>2, <2>4
  <2>5. QED BY <2>3, <2>4
<1>2. TypeOK'
  BY <1>1 DEF IInv, TypeOK, Owned, Uploads
<1>3. \A d \in Conns : Allowed(d)' /\ Stage(d)' /\ Entry(d)'
  BY DEF IInv, Allowed, Stage, Entry, Exit
<1>4. QED BY <1>2, <1>3 DEF IInv

(* An entry of the log, and what it leaves as it was.                         *)
LEMMA RecordAppends ==
    ASSUME IInv, NEW c \in Conns, NEW good \in BOOLEAN, NEW exit \in Types, Record(c, good, exit),
           log[c] = <<>>
    PROVE  /\ log' \in [Conns -> Seq(Entries)]
           /\ log'[c] # <<>> /\ Len(log'[c]) = 1
           /\ (log'[c][1].success <=> good) /\ log'[c][1].exit = exit
           /\ \A d \in Conns \ {c} : log'[d] = log[d]
<1> DEFINE e == [success |-> good, exit |-> exit]
<1>1. e \in Entries /\ (e.success <=> good) /\ e.exit = exit
  BY DEF Entries
<1>2. log \in [Conns -> Seq(Entries)]
  BY DEF IInv, TypeOK
<1>3. log' = [log EXCEPT ![c] = Append(log[c], e)]
  BY DEF Record
<1> HIDE DEF e
<1>4. Append(log[c], e) \in Seq(Entries) /\ Append(log[c], e) = <<e>>
  BY <1>1, <1>2
<1>5. log'[c] = <<e>> /\ \A d \in Conns \ {c} : log'[d] = log[d]
  BY <1>2, <1>3, <1>4
<1>6. log' \in [Conns -> Seq(Entries)]
  BY <1>2, <1>3, <1>4
<1>7. <<e>> # <<>> /\ Len(<<e>>) = 1 /\ <<e>>[1] = e
  OBVIOUS
<1>8. QED BY <1>1, <1>5, <1>6, <1>7

LEMMA ExitTyped == \A c \in Conns : Exit(c) \in Types
  BY DEF Exit, Types

(* A handler whose request has got through the dial, or gave up on it, and    *)
(* that ends with one entry.                                                  *)
LEMMA EndKeeps ==
    ASSUME IInv, NEW c \in Conns, NEW good \in BOOLEAN, NEW exit \in Types,
           NEW f \in Families \cup {"none"},
           log[c] = <<>>, Record(c, good, exit),
           pc[c] # "negotiate", pc' = [pc EXCEPT ![c] = "done"],
           fam' = [fam EXCEPT ![c] = f], f = "v4" => since[c] = "on",
           good => f # "none",
           \/ exit = IF f = "v4" THEN "ipv4_fallback" ELSE "ipv6"
           \/ kind[c] = "plain" /\ cli'[c] # "open" /\ ~good,
           up' \in [Conns -> {"none", "open", "eof", "closed"}],
           \A d \in Conns \ {c} : up'[d] = up[d],
           cli' \in [Conns -> {"open", "eof", "closed"}],
           \A d \in Conns \ {c} : cli'[d] = cli[d],
           kind[c] # "plain" => up'[c] \in {"none", "closed"},
           kind[c] = "socks5" => cli'[c] = "closed",
           copying[c] # {} => kind[c] # "plain",
           blocked' \in [Conns -> SUBSET Ways], blocked'[c] \subseteq copying[c],
           \A d \in Conns \ {c} : blocked'[d] = blocked[d],
           allow' \in [Conns -> BOOLEAN], dns' \in [Conns -> SUBSET Families],
           \A d \in Conns \ {c} : allow'[d] = allow[d],
           UNCHANGED <<allowIPv4, kind, deadline, copying, since>>
    PROVE  IInv'
<1>1. /\ log' \in [Conns -> Seq(Entries)]
      /\ log'[c] # <<>> /\ Len(log'[c]) = 1
      /\ (log'[c][1].success <=> good) /\ log'[c][1].exit = exit
      /\ \A d \in Conns \ {c} : log'[d] = log[d]
  BY RecordAppends
<1>2. TypeOK'
  <2>1. deadline' = {d \in Conns : pc'[d] = "negotiate"}
    BY DEF IInv, TypeOK
  <2>2. \A d \in Conns : Owned(d)'
    BY DEF IInv, TypeOK, Owned, Uploads
  <2>3. QED BY <1>1, <2>1, <2>2 DEF IInv, TypeOK
<1>3. \A d \in Conns : Allowed(d)'
  BY DEF IInv, TypeOK, Allowed, DialPCs
<1>4. \A d \in Conns : Stage(d)'
  BY DEF IInv, TypeOK, Stage, Waiting, DialPCs
<1>5. \A d \in Conns : Entry(d)'
  <2> SUFFICES ASSUME NEW d \in Conns PROVE Entry(d)'
    OBVIOUS
  <2>1. CASE d = c
    <3>1. pc'[c] = "done" /\ fam'[c] = f
      BY DEF IInv, TypeOK
    <3>2. fam'[c] = "v4" <=> f = "v4"
      BY <3>1
    <3>3. \/ exit = Exit(c)'
          \/ kind'[c] = "plain" /\ cli'[c] # "open" /\ ~good
      BY <3>2 DEF Exit
    <3>4. good => fam'[c] # "none"
      BY <3>1
    <3>5. log'[c] # <<>> /\ Len(log'[c]) <= 1
      BY <1>1
    <3>6. QED BY <1>1, <2>1, <3>1, <3>3, <3>4, <3>5, Zenon DEF Entry
  <2>2. CASE d # c
    BY <1>1, <2>2 DEF IInv, TypeOK, Entry, Exit
  <2>3. QED BY <2>1, <2>2
<1>6. QED BY <1>2, <1>3, <1>4, <1>5 DEF IInv

(* A dial that failed, on each of the ways that lead there.                   *)
LEMMA FailKeeps ==
    ASSUME IInv, NEW c \in Conns, pc[c] \in DialPCs, DialFails(c),
           UNCHANGED <<allowIPv4, kind, up, fam, copying, blocked, since>>
    PROVE  IInv'
<1>1. /\ log[c] = <<>> /\ up[c] = "none" /\ fam[c] = "none"
      /\ pc[c] # "negotiate" /\ copying[c] = {} /\ blocked[c] = {}
  BY DEF IInv, TypeOK, Owned, Uploads, Entry, Stage, DialPCs
<1>2. Record(c, FALSE, "ipv6") /\ "ipv6" \in Types
  BY DEF DialFails, Types
<1>3. /\ pc' = [pc EXCEPT ![c] = "done"] /\ deadline' = deadline
      /\ cli' \in [Conns -> {"open", "eof", "closed"}]
      /\ \A d \in Conns \ {c} : cli'[d] = cli[d]
      /\ kind[c] = "socks5" => cli'[c] = "closed"
  BY <1>1 DEF DialFails, Return, Goto, IInv, TypeOK
<1>4. fam' = [fam EXCEPT ![c] = "none"]
  BY <1>1 DEF IInv, TypeOK
<1>5. /\ allow' \in [Conns -> BOOLEAN] /\ dns' \in [Conns -> SUBSET Families]
      /\ \A d \in Conns \ {c} : allow'[d] = allow[d]
  BY DEF DialFails, Dialled, IInv, TypeOK
<1>6. QED BY <1>1, <1>2, <1>3, <1>4, <1>5, EndKeeps DEF IInv, TypeOK

LEMMA ConnectKeeps ==
    ASSUME IInv, NEW c \in Conns, pc[c] \in {"v6", "v4"}, Connect(c, pc[c]),
           UNCHANGED <<allowIPv4, kind, copying, blocked, since>>
    PROVE  IInv'
<1>1. /\ up' = [up EXCEPT ![c] = "open"]
      /\ fam' = [fam EXCEPT ![c] = pc[c]]
      /\ UNCHANGED <<cli, deadline, log>>
      /\ pc' = [pc EXCEPT ![c] = pc'[c]]
      /\ \/ kind[c] = "connect" /\ pc'[c] = "hijack"
         \/ kind[c] = "plain" /\ pc'[c] = "sent"
         \/ kind[c] = "socks5" /\ pc'[c] = "reply"
  BY DEF Connect, Goto, IInv, TypeOK, Kinds
<1>2. /\ allow' \in [Conns -> BOOLEAN] /\ dns' \in [Conns -> SUBSET Families]
      /\ \A d \in Conns \ {c} : allow'[d] = allow[d]
  BY DEF Connect, Dialled, IInv, TypeOK
<1>3. TypeOK'
  <2>1. pc[c] # "negotiate" /\ pc'[c] \notin {"negotiate", "done"} /\ pc[c] \in Families
    BY <1>1 DEF Families
  <2>2. deadline' = {d \in Conns : pc'[d] = "negotiate"}
    BY <1>1, <2>1 DEF IInv, TypeOK
  <2>3. \A d \in Conns : Owned(d)'
    BY <1>1, <2>1 DEF IInv, TypeOK, Owned, Uploads
  <2>4. pc' \in [Conns -> {"idle", "negotiate", "admit", "request", "dial", "hijack", "sent",
                           "relay", "reply", "done"} \cup DialPCs]
    <3>1. pc \in [Conns -> {"idle", "negotiate", "admit", "request", "dial", "hijack", "sent",
                            "relay", "reply", "done"} \cup DialPCs]
      BY DEF IInv, TypeOK
    <3>2. pc'[c] \in {"hijack", "sent", "reply"} /\ pc' = [pc EXCEPT ![c] = pc'[c]]
      BY <1>1
    <3>3. QED BY <3>1, <3>2
  <2>5. /\ up' \in [Conns -> {"none", "open", "eof", "closed"}]
        /\ fam' \in [Conns -> Families \cup {"none"}]
    BY <1>1, <2>1 DEF IInv, TypeOK
  <2>6. QED BY <1>2, <1>1, <2>2, <2>3, <2>4, <2>5 DEF IInv, TypeOK
<1>4. \A d \in Conns : Allowed(d)'
  BY <1>2, <1>1 DEF IInv, TypeOK, Allowed, DialPCs, Families
<1>5. \A d \in Conns : Stage(d)'
  BY <1>1 DEF IInv, TypeOK, Stage, Waiting, DialPCs, Families
<1>6. \A d \in Conns : Entry(d)'
  BY <1>1 DEF IInv, TypeOK, Entry, Exit, Families
<1>7. QED BY <1>3, <1>4, <1>5, <1>6 DEF IInv

LEMMA LookupKeeps == ASSUME IInv, NEW c \in Conns, Lookup(c) PROVE IInv'
<1>1. CASE DialFails(c)
  BY <1>1, FailKeeps DEF Lookup, DialPCs, copies
<1>2. ASSUME NEW F \in SUBSET Families,
             dns' = [dns EXCEPT ![c] = F],
             "v6" \in F \/ (allow[c] /\ "v4" \in F),
             Goto(c, IF "v6" \in F THEN "v6" ELSE "v4"),
             UNCHANGED <<cli, deadline, allow, log>>
      PROVE  IInv'
  <2> USE <1>2 DEF Lookup, Goto, copies
  <2>1. TypeOK'
    BY DEF IInv, TypeOK, Owned, Uploads, Stage, Families, DialPCs
  <2>2. \A d \in Conns : Allowed(d)'
    BY DEF IInv, TypeOK, Allowed, DialPCs
  <2>3. \A d \in Conns : Stage(d)' /\ Entry(d)'
    BY DEF IInv, TypeOK, Stage, Entry, Exit, Waiting, DialPCs
  <2>4. QED BY <2>1, <2>2, <2>3 DEF IInv
<1>3. QED BY <1>1, <1>2 DEF Lookup

LEMMA DialV6Keeps == ASSUME IInv, NEW c \in Conns, DialV6(c) PROVE IInv'
<1>1. CASE Connect(c, "v6")
  BY <1>1, ConnectKeeps DEF DialV6, copies
<1>2. CASE /\ allow[c] /\ "v4" \in dns[c]
           /\ Goto(c, "v4")
           /\ UNCHANGED <<cli, deadline, allow, dns, up, fam, log>>
  <2> USE <1>2 DEF DialV6, Goto, copies
  <2>1. TypeOK'
    BY DEF IInv, TypeOK, Owned, Uploads, Stage, DialPCs
  <2>2. \A d \in Conns : Allowed(d)'
    BY DEF IInv, TypeOK, Allowed, DialPCs
  <2>3. \A d \in Conns : Stage(d)' /\ Entry(d)'
    BY DEF IInv, TypeOK, Stage, Entry, Exit, Waiting, DialPCs
  <2>4. QED BY <2>1, <2>2, <2>3 DEF IInv
<1>3. CASE DialFails(c) /\ UNCHANGED <<up, fam>>
  BY <1>3, FailKeeps DEF DialV6, DialPCs, copies
<1>4. QED BY <1>1, <1>2, <1>3 DEF DialV6

LEMMA DialV4Keeps == ASSUME IInv, NEW c \in Conns, DialV4(c) PROVE IInv'
<1>1. CASE Connect(c, "v4")
  BY <1>1, ConnectKeeps DEF DialV4, copies
<1>2. CASE DialFails(c) /\ UNCHANGED <<up, fam>>
  BY <1>2, FailKeeps DEF DialV4, DialPCs, copies
<1>3. QED BY <1>1, <1>2 DEF DialV4

LEMMA AbandonKeeps == ASSUME IInv, NEW c \in Conns, Abandon(c) PROVE IInv'
<1>1. /\ log[c] = <<>> /\ fam[c] = "none" /\ pc[c] # "negotiate"
      /\ kind[c] = "plain" /\ copying[c] = {} /\ blocked[c] = {}
  BY DEF Abandon, IInv, TypeOK, Owned, Uploads, Entry, Stage, DialPCs, Kinds
<1>2. /\ pc' = [pc EXCEPT ![c] = "done"] /\ deadline' = deadline
      /\ cli' = cli /\ cli[c] = "eof"
  BY <1>1 DEF Abandon, Return, Goto, IInv, TypeOK
<1>3. /\ allow' \in [Conns -> BOOLEAN] /\ dns' \in [Conns -> SUBSET Families]
      /\ \A d \in Conns \ {c} : allow'[d] = allow[d]
      /\ UNCHANGED <<allowIPv4, kind, copying, blocked, since>>
  BY DEF Abandon, Dialled, IInv, TypeOK, copies
<1>4. CASE Record(c, FALSE, "ipv6") /\ UNCHANGED <<up, fam>>
  <2>1. fam' = [fam EXCEPT ![c] = "none"]
    BY <1>1, <1>4 DEF IInv, TypeOK
  <2>2. QED BY <1>1, <1>2, <1>3, <1>4, <2>1, EndKeeps DEF IInv, TypeOK, Types
<1>5. ASSUME NEW f \in Reachable(c), NEW t \in Types, Record(c, FALSE, t),
             up' = [up EXCEPT ![c] = "open"], fam' = [fam EXCEPT ![c] = f]
      PROVE  IInv'
  <2>1. f \in Families /\ (f = "v4" => since[c] = "on")
    BY DEF Reachable, Abandon, IInv, TypeOK, Allowed, Families, DialPCs
  <2>2. QED BY <1>1, <1>2, <1>3, <1>5, <2>1, EndKeeps DEF IInv, TypeOK
<1>6. QED BY <1>4, <1>5 DEF Abandon

LEMMA HijackKeeps == ASSUME IInv, NEW c \in Conns, Hijack(c) PROVE IInv'
<1>1. log[c] = <<>> /\ fam[c] # "none" /\ kind[c] = "connect"
      /\ copying[c] = {} /\ blocked[c] = {}
  BY DEF Hijack, IInv, TypeOK, Owned, Uploads, Entry, Stage
<1>2. CASE /\ Goto(c, "relay")
           /\ copying' = [copying EXCEPT ![c] = Ways]
           /\ UNCHANGED <<cli, deadline, up, log>>
  <2> USE <1>1, <1>2 DEF Hijack, Goto, dialling
  <2>1. TypeOK'
    BY DEF IInv, TypeOK, Owned, Uploads, Ways
  <2>2. \A d \in Conns : Allowed(d)' /\ Stage(d)'
    BY DEF IInv, TypeOK, Allowed, Stage, Waiting, DialPCs
  <2>3. \A d \in Conns : Entry(d)'
    BY DEF IInv, TypeOK, Entry, Exit
  <2>4. QED BY <2>1, <2>2, <2>3 DEF IInv
<1>3. CASE /\ Return(c)
           /\ up' = [up EXCEPT ![c] = "closed"]
           /\ Record(c, FALSE, Exit(c))
           /\ UNCHANGED copying
  <2>1. /\ pc' = [pc EXCEPT ![c] = "done"] /\ deadline' = deadline
        /\ cli' = cli /\ fam' = [fam EXCEPT ![c] = fam[c]]
    BY <1>1, <1>3 DEF Hijack, Return, Goto, IInv, TypeOK, dialling
  <2>2. fam[c] \in Families \cup {"none"} /\ (fam[c] = "v4" => since[c] = "on")
    BY DEF IInv, TypeOK, Allowed
  <2>3. /\ up' \in [Conns -> {"none", "open", "eof", "closed"}] /\ up'[c] = "closed"
        /\ \A d \in Conns \ {c} : up'[d] = up[d]
        /\ blocked' \in [Conns -> SUBSET Ways] /\ blocked'[c] \subseteq copying[c]
        /\ \A d \in Conns \ {c} : blocked'[d] = blocked[d]
        /\ allow' \in [Conns -> BOOLEAN]
        /\ cli' \in [Conns -> {"open", "eof", "closed"}]
        /\ dns' \in [Conns -> SUBSET Families] /\ UNCHANGED dns
        /\ pc[c] # "negotiate"
        /\ UNCHANGED <<allowIPv4, kind, deadline, allow, copying, since>>
    BY <1>1, <1>3, <2>1 DEF Hijack, IInv, TypeOK, dialling
  <2>4. /\ FALSE \in BOOLEAN /\ Exit(c) \in Types /\ Record(c, FALSE, Exit(c))
        /\ Exit(c) = IF fam[c] = "v4" THEN "ipv4_fallback" ELSE "ipv6"
    BY <1>3, ExitTyped DEF Exit
  <2>5. QED BY <1>1, <2>1, <2>2, <2>3, <2>4, EndKeeps
<1>4. QED BY <1>2, <1>3 DEF Hijack

LEMMA RoundTripKeeps == ASSUME IInv, NEW c \in Conns, RoundTrip(c) PROVE IInv'
<1>1. log[c] = <<>> /\ fam[c] # "none" /\ kind[c] = "plain" /\ copying[c] = {}
  BY DEF RoundTrip, IInv, TypeOK, Owned, Entry, Stage
<1>2. CASE Goto(c, "reply") /\ UNCHANGED <<up, blocked, log>>
  <2> USE <1>1, <1>2 DEF RoundTrip, Goto, dialling
  <2>1. TypeOK'
    BY DEF IInv, TypeOK, Owned, Uploads
  <2>2. \A d \in Conns : Allowed(d)' /\ Stage(d)'
    BY DEF IInv, TypeOK, Allowed, Stage, Waiting, DialPCs
  <2>3. \A d \in Conns : Entry(d)'
    BY DEF IInv, TypeOK, Entry, Exit
  <2>4. QED BY <2>1, <2>2, <2>3 DEF IInv
<1>3. CASE /\ Goto(c, "done")
           /\ up' = [up EXCEPT ![c] = "closed"]
           /\ blocked' = [blocked EXCEPT ![c] = {}]
           /\ Record(c, FALSE, Exit(c))
  <2>1. pc' = [pc EXCEPT ![c] = "done"] /\ fam' = [fam EXCEPT ![c] = fam[c]]
    BY <1>3 DEF RoundTrip, Goto, IInv, TypeOK, dialling
  <2>2. fam[c] \in Families \cup {"none"} /\ (fam[c] = "v4" => since[c] = "on")
    BY DEF IInv, TypeOK, Allowed
  <2>3. QED BY <1>1, <1>3, <2>1, <2>2, ExitTyped, EndKeeps DEF RoundTrip, Exit, IInv, TypeOK, dialling
<1>4. QED BY <1>2, <1>3 DEF RoundTrip

LEMMA RelayReturnsKeeps == ASSUME IInv, NEW c \in Conns, RelayReturns(c) PROVE IInv'
<1>1. fam[c] # "none" /\ kind[c] # "plain"
  BY DEF RelayReturns, IInv, Stage
<1>2. /\ pc' = [pc EXCEPT ![c] = "done"] /\ cli' = [cli EXCEPT ![c] = "closed"]
      /\ up' = [up EXCEPT ![c] = "closed"]
  BY DEF RelayReturns, Close, Goto
<1>3. CASE kind[c] = "connect"
  <2>1. log[c] = <<>> /\ Record(c, TRUE, Exit(c))
    BY <1>3 DEF RelayReturns, IInv, Entry
  <2>2. fam' = [fam EXCEPT ![c] = fam[c]]
    BY DEF RelayReturns, IInv, TypeOK, dialling
  <2>3. /\ fam[c] \in Families \cup {"none"} /\ (fam[c] = "v4" => since[c] = "on")
        /\ Exit(c) = IF fam[c] = "v4" THEN "ipv4_fallback" ELSE "ipv6"
    BY DEF IInv, TypeOK, Allowed, Exit
  <2>4. /\ up' \in [Conns -> {"none", "open", "eof", "closed"}] /\ up'[c] = "closed"
        /\ \A d \in Conns \ {c} : up'[d] = up[d]
        /\ blocked' \in [Conns -> SUBSET Ways] /\ blocked'[c] \subseteq copying[c]
        /\ \A d \in Conns \ {c} : blocked'[d] = blocked[d]
        /\ allow' \in [Conns -> BOOLEAN]
        /\ cli' \in [Conns -> {"open", "eof", "closed"}] /\ cli'[c] = "closed"
        /\ \A d \in Conns \ {c} : cli'[d] = cli[d]
        /\ dns' \in [Conns -> SUBSET Families] /\ UNCHANGED dns
        /\ pc[c] # "negotiate"
        /\ UNCHANGED <<allowIPv4, kind, deadline, allow, copying, since>>
    BY <1>1, <1>2, <1>3 DEF RelayReturns, IInv, TypeOK, Owned, Uploads, dialling, copies
  <2>5. TRUE \in BOOLEAN /\ Exit(c) \in Types
    BY ExitTyped
  <2>6. QED BY <1>1, <1>2, <2>1, <2>2, <2>3, <2>4, <2>5, EndKeeps
<1>4. CASE kind[c] = "socks5"
  <2> USE <1>1, <1>2, <1>4 DEF RelayReturns, dialling, copies
  <2>1. TypeOK'
    BY DEF IInv, TypeOK, Owned, Uploads
  <2>2. \A d \in Conns : Allowed(d)' /\ Stage(d)'
    BY DEF IInv, TypeOK, Allowed, Stage, Waiting, DialPCs
  <2>3. \A d \in Conns : Entry(d)'
    BY DEF IInv, TypeOK, Entry, Exit
  <2>4. QED BY <2>1, <2>2, <2>3 DEF IInv
<1>5. QED BY <1>1, <1>3, <1>4 DEF IInv, TypeOK, Kinds

----
LEMMA NextKeeps == IInv /\ [Next]_vars => IInv'
<1> SUFFICES ASSUME IInv, [Next]_vars PROVE IInv'
  OBVIOUS
<1>1. CASE UNCHANGED vars
  BY <1>1 DEF vars, IInv, TypeOK, Owned, Uploads, Allowed, Stage, Entry, Exit
<1>2. CASE SetIPv4Fallback
  BY <1>2, SettingKeeps
<1>3. ASSUME NEW c \in Conns, Proceed(c) PROVE IInv'
  <2>1. CASE Dial(c)
    BY <2>1, StartDialKeeps, LookupKeeps, DialV6Keeps, DialV4Keeps DEF Dial
  <2>2. CASE HandshakeFails(c) \/ Admit(c) \/ Hijack(c)
    BY <2>2, HandshakeFailsKeeps, AdmitKeeps, HijackKeeps
  <2>3. CASE Reply(c) \/ RelayReturns(c) \/ \E way \in Ways : CopyEnds(c, way)
    BY <2>3, ReplyKeeps, RelayReturnsKeeps, EndCopyKeeps DEF CopyEnds
  <2>4. QED BY <1>3, <2>1, <2>2, <2>3 DEF Proceed
<1>4. ASSUME NEW c \in Conns,
             \/ ClientEnds(c) \/ TargetEnds(c) \/ Accept(c) \/ Negotiate(c) \/ Request(c)
             \/ Abandon(c) \/ RoundTrip(c) \/ PlainReturns(c)
             \/ \E way \in Ways :
                   WriteFails(c, way) \/ WriteBlocks(c, way) \/ PeerReads(c, way)
      PROVE  IInv'
  BY <1>4, ClientEndsKeeps, TargetEndsKeeps, AcceptKeeps, NegotiateKeeps, RequestKeeps,
     AbandonKeeps, RoundTripKeeps, PlainReturnsKeeps, EndCopyKeeps, BlockKeeps DEF WriteFails
<1>5. QED BY <1>1, <1>2, <1>3, <1>4 DEF Next

(* IInv is an invariant of the specification.                                 *)
THEOREM Inductive == Spec => []IInv
  BY InitIInv, NextKeeps, PTL DEF Spec

(* The stages own what TypeOK says they own: a handler that is through has     *)
(* closed both ends of its tunnel, and a deadline guards each handshake.      *)
THEOREM TypeCorrect == Spec => []TypeOK
<1>1. IInv => TypeOK
  BY DEF IInv
<1>2. QED BY Inductive, <1>1, PTL

(* Whatever the number of requests and however the setting is toggled while    *)
(* they wait, resolve and dial, none goes out over IPv4 unless the setting was *)
(* on at some time since its dial began.                                      *)
THEOREM FallbackGuarded == Spec => []IPv4OnlyWhenAllowed
<1>1. IInv => IPv4OnlyWhenAllowed
  BY DEF IInv, Allowed, IPv4OnlyWhenAllowed
<1>2. QED BY Inductive, <1>1, PTL

(* The traffic log has exactly one entry of a request that got to its dial and *)
(* is over, and an entry names the family the request was connected over: but *)
(* for that of a plain request whose client left, which says it failed.       *)
THEOREM LogTruthful == Spec => []LogTellsExit
<1>1. IInv => LogTellsExit
  BY DEF IInv, Entry, LogTellsExit
<1>2. QED BY Inductive, <1>1, PTL

----
(* The gateway                                                              *)

PP == INSTANCE PortManagerProofs

----
(* Every step is one of the port manager's or leaves it alone.              *)

LEMMA ServeSame == ASSUME NEW l \in P!Listeners, P!Serve(l) PROVE PP!Serve(l)
  BY DEF P!Serve, PP!Serve, P!AssignHTTP, PP!AssignHTTP, P!ListenHTTP, PP!ListenHTTP,
     P!EndHTTP, PP!EndHTTP, P!ListenSOCKS, PP!ListenSOCKS, P!AssignSOCKS, PP!AssignSOCKS,
     P!AcceptError, PP!AcceptError, P!HTTP, PP!HTTP, P!Goto, PP!Goto, P!Listeners, PP!Listeners

LEMMA ManagerSteps == GatewayNext => PP!Next \/ UNCHANGED PP!vars
<1> USE DEF P!Listeners, PP!Listeners, P!Free, PP!Free, P!Nobody, PP!Nobody, P!HTTP, PP!HTTP
<1> SUFFICES ASSUME GatewayNext PROVE PP!Next \/ UNCHANGED PP!vars
  OBVIOUS
<1>1. CASE RequestStep \/ \E c \in Conns : Take(c)
  BY <1>1 DEF RequestStep, Aside, Take, manager, PP!vars
<1>2. CASE StopListener
  <2>1. PICK l \in P!Listeners : P!StopHTTP(l)
    BY <1>2 DEF StopListener
  <2>2. PP!StopHTTP(l)
    BY <2>1 DEF P!StopHTTP, PP!StopHTTP, P!Report, PP!Report
  <2>3. QED BY <2>2 DEF PP!Next
<1>3. CASE P!CloseSOCKS
  BY <1>3 DEF P!CloseSOCKS, PP!CloseSOCKS, P!Report, PP!Report, PP!Next
<1>4. CASE Administer
  <2>1. CASE P!Expand
    <3>1. PP!Expand
      BY <2>1 DEF P!Expand, PP!Expand
    <3>2. QED BY <3>1 DEF PP!Next
  <2>2. CASE \E l \in P!Listeners : P!StopSOCKS(l)
    BY <2>2 DEF P!StopSOCKS, PP!StopSOCKS, PP!Next
  <2>3. QED BY <1>4, <2>1, <2>2 DEF Administer
<1>5. CASE Listen
  BY <1>3, <1>5, ServeSame DEF Listen, PP!Next
<1>6. QED BY <1>1, <1>2, <1>4, <1>5 DEF GatewayNext

LEMMA ManagerSame == PP!IInv => P!TypeOK /\ ServesUntilStopped
  BY DEF PP!IInv, PP!TypeOK, P!TypeOK, ServesUntilStopped, PP!ServesUntilStopped,
     P!ServesUntilStopped, P!Listeners, PP!Listeners, P!Nobody, PP!Nobody

LEMMA ManagerInvariant == GatewaySpec => []PP!IInv
<1>1. GatewayInit => PP!Init
  BY DEF GatewayInit, P!Init, PP!Init, P!Listeners, PP!Listeners, P!Nobody, PP!Nobody
<1>2. GatewayInit => PP!IInv
  BY <1>1, PP!InitIInv
<1>3. PP!IInv /\ [GatewayNext]_all => PP!IInv'
  <2> SUFFICES ASSUME PP!IInv, [GatewayNext]_all PROVE PP!IInv'
    OBVIOUS
  <2>1. PP!Next \/ UNCHANGED PP!vars
    BY ManagerSteps DEF all, manager, PP!vars
  <2>2. QED BY <2>1, PP!NextKeeps
<1>4. QED BY <1>2, <1>3, PTL DEF GatewaySpec

----
(* Every step is one of a request's, leaves the requests alone, or closes   *)
(* the connections of some: which disturbs nothing proved of them.          *)

LEMMA DisconnectKeeps ==
    ASSUME IInv, NEW C, Disconnect(C),
           UNCHANGED <<allowIPv4, kind, pc, deadline, dialling, up, copies, log>>
    PROVE  IInv'
<1> USE DEF Disconnect, dialling, copies
<1>1. TypeOK'
  <2>1. /\ cli' \in [Conns -> {"open", "eof", "closed"}]
        /\ \A c \in Conns : cli[c] = "closed" => cli'[c] = "closed"
    BY DEF IInv, TypeOK
  <2>2. QED BY <2>1 DEF IInv, TypeOK, Owned, Uploads
<1>2. \A c \in Conns : Allowed(c)' /\ Stage(c)' /\ Entry(c)'
  BY DEF IInv, TypeOK, Allowed, Stage, Entry, Exit
<1>3. QED BY <1>1, <1>2 DEF IInv

LEMMA RequestInvariant == GatewaySpec => []IInv
<1>1. GatewayInit => IInv
  BY InitIInv DEF GatewayInit
<1>2. IInv /\ [GatewayNext]_all => IInv'
  <2> SUFFICES ASSUME IInv, [GatewayNext]_all PROVE IInv'
    OBVIOUS
  <2>1. CASE StopListener
    BY <2>1, DisconnectKeeps DEF StopListener
  <2>2. CASE Next \/ UNCHANGED vars
    BY <2>2, NextKeeps
  <2>3. ~StopListener => Next \/ UNCHANGED vars
    BY DEF GatewayNext, RequestStep, Administer, Take, Listen, all
  <2>4. QED BY <2>1, <2>2, <2>3
<1>3. QED BY <1>1, <1>2, PTL DEF GatewaySpec

----
(* Both at once, and the connections between them.                          *)

LEMMA KindStays == Next => UNCHANGED kind
  BY DEF Next, SetIPv4Fallback, ClientEnds, TargetEnds, Accept, Proceed, HandshakeFails, Admit,
     Dial, StartDial, Lookup, DialV6, DialV4, Hijack, Reply, RelayReturns, CopyEnds, Negotiate,
     Request, Abandon, RoundTrip, PlainReturns, WriteFails, WriteBlocks, PeerReads, EndCopy

LEMMA ManagerGrows == PP!Next \/ UNCHANGED PP!vars => ports \subseteq ports' /\ marked \subseteq marked'
  BY DEF PP!Next, PP!vars, PP!Expand, PP!CloseSOCKS, PP!StopHTTP, PP!StopSOCKS, PP!Serve,
     PP!AssignHTTP, PP!ListenHTTP, PP!EndHTTP, PP!ListenSOCKS, PP!AssignSOCKS, PP!AcceptError

(* Where a request's connection came from, and who was cut off.             *)
Accepted ==
    /\ at \in [Conns -> {Nowhere} \cup Main \cup ports]
    /\ cut \subseteq {c \in Conns : at[c] \in marked}
    /\ \A c \in Conns : IF at[c] = Nowhere THEN pc[c] = "idle" ELSE Fits(c, at[c])

LEMMA AcceptedKeeps ==
    ASSUME Accepted, P!TypeOK, IInv, [GatewayNext]_all
    PROVE  Accepted'
<1>1. ports \subseteq ports' /\ marked \subseteq marked'
  BY ManagerSteps, ManagerGrows DEF all, manager, PP!vars
<1>2. CASE RequestStep
  <2>1. UNCHANGED <<kind, at, cut, ports, marked>>
    BY <1>2, KindStays DEF RequestStep, Aside, manager
  <2>2. \A c \in Conns : at[c] = Nowhere => pc'[c] = "idle"
    BY <1>2 DEF RequestStep
  <2>3. QED BY <2>1, <2>2 DEF Accepted, Fits, P!HTTP, Main, Nowhere
<1>3. ASSUME NEW c \in Conns, Take(c) PROVE Accepted'
  <2>1. PICK l \in Main \cup open : Fits(c, l) /\ at[c] = Nowhere /\ at' = [at EXCEPT ![c] = l]
    BY <1>3 DEF Take
  <2>2. UNCHANGED <<kind, pc, cut, ports, marked>>
    BY <1>3 DEF Take, vars, manager
  <2>3. l \in Main \cup ports
    BY <2>1 DEF P!TypeOK
  <2>4. cut' \subseteq {d \in Conns : at'[d] \in marked'}
    <3>1. Nowhere \notin marked
      BY DEF P!TypeOK, P!Listeners, Nowhere, P!Nobody
    <3>2. c \notin cut
      BY <2>1, <3>1 DEF Accepted
    <3>3. QED BY <2>1, <2>2, <3>2 DEF Accepted
  <2>5. \A d \in Conns : IF at'[d] = Nowhere THEN pc'[d] = "idle" ELSE Fits(d, at[d])'
    BY <2>1, <2>2 DEF Accepted, Fits, P!HTTP
  <2>6. QED BY <2>1, <2>2, <2>3, <2>4, <2>5 DEF Accepted, Main, Nowhere
<1>4. CASE StopListener
  <2>1. UNCHANGED <<at, kind, pc>>
    BY <1>4 DEF StopListener
  <2>2. \E l \in P!Listeners : \E C \in SUBSET {c \in Conns : at[c] = l} :
            (l \in marked' \/ C = {}) /\ cut' = cut \cup C
    <3>1. PICK l \in P!Listeners : \E New \in SUBSET {c \in Conns : pc[c] = "idle" /\ at[c] = l} :
            Disconnect(IF l \in marked' THEN New \cup {c \in Conns : at[c] = l /\ Tracked(c)} ELSE {})
      BY <1>4 DEF StopListener
    <3>2. PICK New \in SUBSET {c \in Conns : pc[c] = "idle" /\ at[c] = l} :
            Disconnect(IF l \in marked' THEN New \cup {c \in Conns : at[c] = l /\ Tracked(c)} ELSE {})
      BY <3>1
    <3>3. CASE l \in marked'
      <4>1. New \cup {c \in Conns : at[c] = l /\ Tracked(c)} \in SUBSET {c \in Conns : at[c] = l}
        OBVIOUS
      <4>2. QED BY <3>2, <3>3, <4>1 DEF Disconnect
    <3>4. CASE l \notin marked'
      BY <3>2, <3>4 DEF Disconnect
    <3>5. QED BY <3>3, <3>4
  <2>3. ASSUME NEW c \in cut' PROVE c \in Conns /\ at[c] \in marked'
    <3>1. c \in cut \/ (c \in Conns /\ at[c] \in marked')
      BY <2>2
    <3>2. QED BY <1>1, <3>1 DEF Accepted
  <2>4. cut' \subseteq {c \in Conns : at'[c] \in marked'}
    BY <2>1, <2>3
  <2>5. \A c \in Conns : Fits(c, at[c])' <=> Fits(c, at[c])
    BY <2>1 DEF Fits, P!HTTP
  <2>6. at' \in [Conns -> {Nowhere} \cup Main' \cup ports']
    BY <1>1, <2>1 DEF Accepted, Main, Nowhere
  <2>7. QED BY <2>1, <2>4, <2>5, <2>6 DEF Accepted, Main, Nowhere
<1>5. CASE Administer \/ Listen \/ UNCHANGED all
  <2>1. UNCHANGED <<at, cut, kind, pc>>
    BY <1>5 DEF Administer, Listen, all, vars
  <2>2. QED BY <1>1, <2>1 DEF Accepted, Fits, P!HTTP, Main, Nowhere
<1>6. QED BY <1>2, <1>3, <1>4, <1>5 DEF GatewayNext

(* Types; and no handler runs for a connection that no listener accepted.   *)
THEOREM GatewayTypeCorrect == GatewaySpec => []GatewayTypeOK
<1>1. GatewayInit => Accepted
  BY DEF GatewayInit, Init, Accepted
<1>2. Accepted /\ PP!IInv /\ IInv /\ [GatewayNext]_all => Accepted'
  BY AcceptedKeeps, ManagerSame
<1>3. Accepted /\ PP!IInv /\ IInv => GatewayTypeOK
  BY ManagerSame DEF Accepted, IInv, GatewayTypeOK
<1>4. QED BY <1>1, <1>2, <1>3, ManagerInvariant, RequestInvariant, PTL DEF GatewaySpec

(* PortManager's theorem, with requests on the listeners.                   *)
THEOREM GatewayServes == GatewaySpec => []ServesUntilStopped
  BY ManagerInvariant, ManagerSame, PTL

(* No request goes out over IPv4 unless that was allowed since its dial     *)
(* began, though listeners come and go and cut off connections.             *)
THEOREM GatewayFallbackGuarded == GatewaySpec => []IPv4OnlyWhenAllowed
<1>1. IInv => IPv4OnlyWhenAllowed
  BY DEF IInv, Allowed, IPv4OnlyWhenAllowed
<1>2. QED BY RequestInvariant, <1>1, PTL

(* The same of requests that a stop of their listener may cut off: at most    *)
(* the entry of one that is cut off before it is answered names no family.    *)
THEOREM GatewayLogTruthful == GatewaySpec => []LogTellsExit
<1>1. IInv => LogTellsExit
  BY DEF IInv, Entry, LogTellsExit
<1>2. QED BY RequestInvariant, <1>1, PTL
====

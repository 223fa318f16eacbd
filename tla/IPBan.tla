---- MODULE IPBan ----
(***************************************************************************)
(* The ban list (internal/auth/ipban.go). Each method is one critical      *)
(* section and so one action, for callers that come at any time:           *)
(* AdminPanel says which requests call what.                               *)
(*                                                                         *)
(* Time stamps are ages in ticks. A list of failures is kept by its        *)
(* cumulative counts: how many of its entries are of an age or younger;    *)
(* the last age stands for all that RecordFailure will prune.              *)
(***************************************************************************)
EXTENDS Integers

CONSTANTS IPs,
          Threshold, Window,  \* NewIPBan's arguments, Window in ticks
          Never               \* not banned

ASSUME BanConstants == /\ Threshold \in Nat \ {0}
                       /\ Window \in Nat \ {0}
                       /\ Never \notin Nat

VARIABLES failures,   \* failures[ip][age]: how many recorded failures are at most that old
          banned,     \* banned[ip]: the age of its ban, or Never
          whitelist,
          tries       \* history: tries[ip][age], the attempts of at most that age that counted

banVars == <<failures, banned, whitelist, tries>>

Ages == 0..Window
Young == 0..(Window - 1)
Expired == Window + 1
NoFailures == [age \in Ages |-> 0]
NoTries == [age \in Young |-> 0]

\* Types; what is at most so old is also at most older.
BanTypeOK == /\ failures \in [IPs -> [Ages -> Nat]]
             /\ \A i \in IPs : \A a, b \in Ages : a <= b => failures[i][a] <= failures[i][b]
             /\ banned \in [IPs -> 0..Expired \cup {Never}]
             /\ whitelist \subseteq IPs
             /\ tries \in [IPs -> [Young -> Nat]]

BanInit == /\ failures = [i \in IPs |-> NoFailures]
           /\ banned = [i \in IPs |-> Never]
           /\ whitelist = {}
           /\ tries = [i \in IPs |-> NoTries]

\* The failures RecordFailure and its threshold count: younger than the window.
Recent(i) == failures[i][Window - 1]
Refused(i) == i \notin whitelist /\ banned[i] \in 0..Window

----
\* Mutant: an attempt while banned renews the ban.
IsBannedRenews(i) ==
    /\ banned' = [banned EXCEPT ![i] = IF Refused(i) THEN 0
                                       ELSE IF i \notin whitelist /\ @ = Expired THEN Never ELSE @]
    /\ failures' = [failures EXCEPT ![i] =
                      IF i \notin whitelist /\ banned[i] = Expired THEN NoFailures ELSE @]
    /\ UNCHANGED <<whitelist, tries>>
\* The answer is Refused(i). A ban found expired is forgotten, with the failures behind it.
IsBanned(i) ==
    /\ LET over == i \notin whitelist /\ banned[i] = Expired
       IN  /\ banned' = [banned EXCEPT ![i] = IF over THEN Never ELSE @]
           /\ failures' = [failures EXCEPT ![i] = IF over THEN NoFailures ELSE @]
    /\ UNCHANGED <<whitelist, tries>>

\* The list, one longer, with all that is past the window pruned or not.
Longer(i) == [age \in Ages |-> failures[i][IF age = Window THEN Window - 1 ELSE age] + 1]
Tried(i) == tries' = [tries EXCEPT ![i] = [age \in Young |-> @[age] + 1]]

\* Mutant: nothing is pruned, though only what is young counts.
RecordFailureKeeps(i) ==
    /\ IF i \in whitelist THEN UNCHANGED <<failures, banned, tries>>
       ELSE /\ failures' = [failures EXCEPT ![i] = [age \in Ages |-> @[age] + 1]]
            /\ banned' = [banned EXCEPT ![i] = IF Recent(i) + 1 >= Threshold THEN 0 ELSE @]
            /\ Tried(i)
    /\ UNCHANGED whitelist
\* Mutant: the threshold is passed, not reached.
RecordFailureLate(i) ==
    /\ IF i \in whitelist THEN UNCHANGED <<failures, banned, tries>>
       ELSE /\ failures' = [failures EXCEPT ![i] = Longer(i)]
            /\ banned' = [banned EXCEPT ![i] = IF Recent(i) + 1 > Threshold THEN 0 ELSE @]
            /\ Tried(i)
    /\ UNCHANGED whitelist
\* Mutant: the whitelist is consulted on arrival only.
RecordFailureAnyway(i) ==
    /\ failures' = [failures EXCEPT ![i] = Longer(i)]
    /\ banned' = [banned EXCEPT ![i] = IF Recent(i) + 1 >= Threshold THEN 0 ELSE @]
    /\ Tried(i)
    /\ UNCHANGED whitelist
\* Prune, append, and ban at the threshold.
RecordFailure(i) ==
    /\ IF i \in whitelist THEN UNCHANGED <<failures, banned, tries>>
       ELSE /\ failures' = [failures EXCEPT ![i] = Longer(i)]
            /\ banned' = [banned EXCEPT ![i] = IF Recent(i) + 1 >= Threshold THEN 0 ELSE @]
            /\ Tried(i)
    /\ UNCHANGED whitelist

Pardon(i) == /\ banned' = [banned EXCEPT ![i] = Never]
             /\ failures' = [failures EXCEPT ![i] = NoFailures]
             /\ tries' = [tries EXCEPT ![i] = NoTries]

AddWhitelist(i) == whitelist' = whitelist \cup {i} /\ Pardon(i)

RemoveWhitelist(i) == whitelist' = whitelist \ {i} /\ UNCHANGED <<failures, banned, tries>>

Unban(i) == Pardon(i) /\ UNCHANGED whitelist

Ban(i) == banned' = [banned EXCEPT ![i] = 0] /\ UNCHANGED <<failures, whitelist, tries>>

\* All ages grow; those past the window are not told apart.
Tick ==
    /\ failures' = [i \in IPs |-> [age \in Ages |->
          IF age = Window THEN failures[i][Window]
          ELSE IF age = 0 THEN 0 ELSE failures[i][age - 1]]]
    /\ banned' = [i \in IPs |-> IF banned[i] \in 0..Window THEN banned[i] + 1 ELSE banned[i]]
    /\ tries' = [i \in IPs |-> [age \in Young |-> IF age = 0 THEN 0 ELSE tries[i][age - 1]]]
    /\ UNCHANGED whitelist

Edit(i) == Unban(i) \/ Ban(i) \/ AddWhitelist(i) \/ RemoveWhitelist(i)

BanNext == Tick \/ \E i \in IPs : IsBanned(i) \/ RecordFailure(i) \/ Edit(i)

BanSpec == BanInit /\ [][BanNext]_banVars

----
(* Properties                                                               *)

(* As long as a threshold of failures lies within the window, the address   *)
(* is refused, whatever expired, was pruned or was pardoned in between      *)
(* (TestIPBanRecordAndBan has one request at a time).                       *)
ThresholdRefuses == \A i \in IPs : Recent(i) >= Threshold => Refused(i)

(* Whitelisting wipes the slate and keeps it clean: a request that passed   *)
(* before and fails after leaves no failure behind that would count once    *)
(* the address is taken off the list again.                                 *)
WhitelistClean == \A i \in whitelist : failures[i] = NoFailures
====

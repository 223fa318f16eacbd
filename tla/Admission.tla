---- MODULE Admission ----
(***************************************************************************)
(* From a username to an exit address: the master accounts and the         *)
(* credentials the admin panel generates for them (internal/admin/         *)
(* accounts.go), the admission of a request (Admit of internal/proxy/      *)
(* runtime.go) and its resolution (internal/session/resolve.go). An account *)
(* may be changed or deleted, and a prefix toggled, between the steps.     *)
(*                                                                         *)
(* What the documents say that a username asks for is kept beside what the *)
(* code reads in it. Redis is atomic here; StickyStore has its single      *)
(* commands.                                                               *)
(***************************************************************************)
EXTENDS Credential, ExitAddress, FiniteSets

CONSTANTS Clients,
          Names,      \* account names: usernames as far as their form goes
          Specs,      \* the pool's prefixes, as configured
          Inputs,     \* what the panel may send as an account's settings
          Minutes,    \* ... and as a credential's lifetime
          Requests,   \* what a user may put into a username: sid, time, mode and geo fields
          Headers,    \* X-Fingerprint or X-Sticky-Key; Blank for none
          MaxSessions \* bound: sessions at a time

Settings == [on : BOOLEAN, mode : {"rotate", "sticky"}, ttl : 1..MaxTTLMinutes, max : 1..MaxTTLMinutes]
NoAccount == <<>>

(* Fields of geographic keywords, at K: each has a value, whose first word   *)
(* may be a keyword itself and whose others may not. They do not end as the  *)
(* older form of a username does.                                            *)
GeoFields(geo, K) ==
    /\ geo # <<>> => 1 \in K
    /\ \A i \in K : /\ geo[i] \in GeoKeywords
                    /\ i + 1 \in 1..Len(geo) \ K
                    /\ geo[i + 1] # Blank \/ i + 2 \in 1..Len(geo) \ K
    /\ \A i \in 2..Len(geo) : /\ geo[i] \in Keywords /\ i \notin K => i - 1 \in K
                              /\ geo[i] \in Hex64 => geo[i - 1] \notin DOMAIN MidBase

\* What a user may ask for.
Legible(r) ==
    /\ r.sid \in SIDs \cup {Blank}
    /\ r.time \in DOMAIN Number \cup {Blank}
    /\ r.mode \in Words
    /\ r.mode # Blank => Lower(r.mode) \in {"rotate", "sticky"}
    /\ r.geo \in Seq(Words)
    /\ \E K \in SUBSET (1..Len(r.geo)) : GeoFields(r.geo, K)

\* The minutes that an account's settings and a generated username may come to.
Lifetimes == 1..MaxTTLMinutes \cap
    (Minutes \cup {DefaultTTL, MaxTTLMinutes} \cup {s.ttl : s \in Inputs} \cup {s.max : s \in Inputs})

ASSUME AdmissionConstants ==
    /\ Names \subseteq Seq(Words) \ {<<>>}
    /\ Specs \subseteq [ip : Address, bits : 0..Width]
    /\ Inputs \subseteq [on : BOOLEAN, mode : STRING, ttl : Int, max : Int]
    /\ Minutes \subseteq Int
    /\ \A r \in Requests : Legible(r)
    /\ Lifetimes \subseteq {Number[w] : w \in DOMAIN Number}

VARIABLES acct,      \* acct[name]: the account's hash in Redis
          sess,      \* sess[name, sid]: the sticky sessions there
          enabled,   \* the enabled prefixes
          pc, got,   \* each client's request: where it is, what Admit made of it
          meant,     \* history: ... and what it asks for, where that is documented
          exit,      \* its exit address
          line       \* the generated credential the client was given, or NoLine

vars == <<acct, sess, enabled, pc, got, meant, exit, line>>

NoLine == [account |-> <<>>]
NoExit == <<>>
Unsaid == <<>>
Exists(name) == name \in Names /\ acct[name] # NoAccount
On(name) == Exists(name) /\ acct[name].on

\* ValidAccountName lets three kinds of names pass that no username can name: "x_city_y"
\* and "x-mid_..." are read as account x, and so is what is generated for "x_sid".
Plain(name) == /\ ~IsMid(name)
               /\ \A i \in 2..Len(name) - 1 : name[i] \notin Keywords \ Reserved
               /\ Len(name) > 1 => name[Len(name)] \notin Keywords

Prefixes == {[ip |-> MaskPrefix(s.ip, s.bits), bits |-> s.bits] : s \in enabled}

(* Types; a session is in Redis under an account's name and a sid that the  *)
(* protocol admits, with a TTL that Redis accepts and its users were        *)
(* promised, and with an address of the prefix the panel shows it under.    *)
TypeOK ==
    /\ acct \in [Names -> Settings \cup {NoAccount}]
    /\ DOMAIN sess \subseteq Names \X SIDs
    /\ \A k \in DOMAIN sess : /\ sess[k].ttl \in 1..MaxTTLMinutes
                              /\ sess[k].ip \in Address
                              /\ Within(sess[k].ip, sess[k].prefix.ip, sess[k].prefix.bits)
    /\ enabled \subseteq Specs
    /\ pc \in [Clients -> {"idle", "admitted", "refused", "served"}]
    /\ \A c \in Clients :
          /\ pc[c] \in {"idle", "refused"} <=> got[c] = Invalid
          /\ exit[c] \in Address \cup {NoExit}
          /\ exit[c] # NoExit <=> pc[c] = "served"

Init ==
    /\ acct = [name \in Names |-> NoAccount]
    /\ sess = <<>>
    /\ enabled = Specs
    /\ pc = [c \in Clients |-> "idle"]
    /\ got = [c \in Clients |-> Invalid]
    /\ meant = [c \in Clients |-> Unsaid]
    /\ exit = [c \in Clients |-> NoExit]
    /\ line = [c \in Clients |-> NoLine]

client == <<pc, got, meant, exit, line>>

----
(* The admin panel                                                          *)

\* normalizeAccount
Normalize(s) ==
    LET max == IF s.max \in 1..MaxTTLMinutes THEN s.max ELSE MaxTTLMinutes
        ttl == IF s.ttl <= 0 THEN DefaultTTL ELSE s.ttl
    IN  [on |-> s.on,
         mode |-> IF s.mode = "sticky" THEN "sticky" ELSE "rotate",
         ttl |-> IF ttl > max THEN max ELSE ttl,
         max |-> max]

\* apiAddAccount, and EnsureAccount at start-up, which is content if it exists.
AddAccount(name) ==
    /\ ValidAccountName(name)
    /\ ~Exists(name)
    /\ \E s \in Inputs : acct' = [acct EXCEPT ![name] = Normalize(s)]
    /\ UNCHANGED <<sess, enabled, client>>

\* apiPatchAccount: each field is the one sent or the one that was there.
PatchAccount(name) ==
    /\ Exists(name)
    /\ \E s \in Inputs, F \in SUBSET {"on", "mode", "ttl", "max"} :
          acct' = [acct EXCEPT ![name] = Normalize([f \in DOMAIN @ |-> IF f \in F THEN s[f] ELSE @[f]])]
    /\ UNCHANGED <<sess, enabled, client>>

RemoveAccount(name) ==
    /\ Exists(name)
    /\ acct' = [acct EXCEPT ![name] = NoAccount]
    /\ sess' = [k \in {k \in DOMAIN sess : k[1] # name} |-> sess[k]]
    /\ UNCHANGED <<enabled, client>>

SetPrefixEnabled(s) ==
    /\ enabled' = IF s \in enabled THEN enabled \ {s} ELSE enabled \cup {s}
    /\ UNCHANGED <<acct, sess, client>>

\* The TTL ran out, or the session was kicked.
EndSession ==
    /\ \E k \in DOMAIN sess : sess' = [j \in DOMAIN sess \ {k} |-> sess[j]]
    /\ UNCHANGED <<acct, enabled, client>>

\* apiGenerateCredentials, once it has authenticated the account by its password; sids
\* are random.
Generate(c) ==
    /\ pc[c] = "idle"
    /\ line[c] = NoLine
    /\ \E name \in Names, mode \in {"rotate", "sticky"}, minutes \in Minutes, sid \in SIDs \ Hex64 :
          /\ On(name)
          /\ LET asked == IF minutes <= 0 THEN acct[name].ttl ELSE minutes
                 ttl == IF asked > acct[name].max THEN acct[name].max ELSE asked
                 s == IF mode = "sticky" THEN sid ELSE Blank
             IN  line' = [line EXCEPT ![c] = [account |-> name, sid |-> s, ttl |-> ttl,
                                              user |-> FormatUsername(name, s, ttl, mode)]]
    /\ UNCHANGED <<acct, sess, enabled, pc, got, meant, exit>>

----
(* A request                                                                *)

\* {account}[_sid_{id}][_time_{minutes}][_mode_{rotate|sticky}], after ignored fields.
Username(name, r) ==
    name \o r.geo \o (IF r.sid = Blank THEN <<>> ELSE <<"sid", r.sid>>)
         \o (IF r.time = Blank THEN <<>> ELSE <<"time", r.time>>)
         \o (IF r.mode = Blank THEN <<>> ELSE <<"mode", r.mode>>)

\* The older form: {account}-mid_ and 64 hexadecimal digits, whose case does not matter.
MidWord(name) == {w \in DOMAIN MidBase : MidBase[w] = name[Len(name)]}
MidUsername(name, h) == [name EXCEPT ![Len(name)] = CHOOSE w \in MidWord(name) : TRUE] \o <<h>>

\* What Parse reads in every username the clients here may send.
Usernames ==
    {Username(name, r) : name \in Names, r \in Requests}
    \cup {MidUsername(name, h) : name \in {n \in Names : MidWord(n) # {}}, h \in Hex64}
    \cup {FormatUsername(name, sid, ttl, "sticky") :
             name \in Names, sid \in SIDs \cup {Blank}, ttl \in Lifetimes}
Reading == [raw \in Usernames |-> Parse(raw)]

\* Admit up to the resolver, for the password of account name.
Admitted(raw, name, header) ==
    LET p == Reading[raw]
        d == ApplyDefaults(p, acct[p.account])
        sid == IF d.mode = "sticky" /\ d.sid = Blank /\ header \in SIDs THEN header ELSE d.sid
    IN  IF p.account # name \/ ~On(p.account) THEN Invalid
        ELSE [d EXCEPT !.sid = sid, !.mode = IF sid = Blank THEN "rotate" ELSE @]

\* The least of what was asked for and what the account grants.
Granted(minutes, name) == IF minutes < 1 THEN 1
                          ELSE IF minutes > acct[name].max THEN acct[name].max ELSE minutes

\* What README.en.md says of a username: "No sid -> rotate", "sid present -> sticky" (184,
\* 185), unless its mode is rotate (181); and the minutes are the account's if it has none.
Rotates(r) == r.mode # Blank /\ Lower(r.mode) = "rotate"
Asks(name, r) ==
    LET sid == IF Rotates(r) THEN Blank ELSE r.sid
    IN  IF ~On(name) THEN Invalid
        ELSE [account |-> name, sid |-> sid,
              mode |-> IF sid = Blank THEN "rotate" ELSE "sticky",
              ttlSet |-> r.time # Blank,
              ttl |-> Granted(IF r.time = Blank THEN acct[name].ttl ELSE Number[r.time], name)]

\* A header's sid, of which the document says nothing, does not come into it. (Admitted
\* takes it for a username without one if that, or the account's default, is sticky.)
Settled(r, header) == r.sid # Blank \/ Rotates(r) \/ header \notin SIDs

\* A username that asks for r arrives.
Arrive(c, raw, name, header, r) ==
    LET a == Admitted(raw, name, header)
    IN  /\ got' = [got EXCEPT ![c] = a]
        /\ meant' = [meant EXCEPT ![c] =
                        IF Plain(name) /\ Settled(r, header) THEN Asks(name, r) ELSE Unsaid]
        /\ pc' = [pc EXCEPT ![c] = IF a = Invalid THEN "refused" ELSE "admitted"]
        /\ UNCHANGED <<acct, sess, enabled, exit>>

\* A user writes the username himself ...
ByHand(c) ==
    /\ pc[c] = "idle"
    /\ line[c] = NoLine
    /\ \E name \in Names, header \in Headers :
          \/ \E r \in Requests : Arrive(c, Username(name, r), name, header, r)
          \/ \E h \in Hex64 :
                /\ MidWord(name) # {}
                /\ Arrive(c, MidUsername(name, h), name, header,
                          [sid |-> Lower(h), time |-> Blank, mode |-> Blank, geo |-> <<>>])
    /\ UNCHANGED line

\* ... or uses a generated line, long after it was generated: it has a sid if it was to be
\* sticky and none if it was to rotate.
ByLine(c) ==
    /\ pc[c] = "idle"
    /\ line[c] # NoLine
    /\ \E header \in Headers :
          Arrive(c, line[c].user, line[c].account, header,
                 [sid |-> line[c].sid, mode |-> Blank, geo |-> <<>>,
                  time |-> IF line[c].sid = Blank THEN Blank ELSE Decimal(line[c].ttl)])
    /\ UNCHANGED line

\* Resolve, once EnabledPrefixes was not empty: a fresh address, or the session's.
Resolve(c) ==
    /\ pc[c] = "admitted"
    /\ \E x \in RandomFrom(Prefixes) :
          LET k == <<got[c].account, got[c].sid>>
          IN  IF got[c].mode # "sticky" \/ got[c].sid = Blank
              THEN exit' = [exit EXCEPT ![c] = x.ip] /\ UNCHANGED sess
              ELSE IF k \in DOMAIN sess
              THEN exit' = [exit EXCEPT ![c] = sess[k].ip] /\ UNCHANGED sess
              ELSE /\ Cardinality(DOMAIN sess) < MaxSessions
                   /\ exit' = [exit EXCEPT ![c] = x.ip]
                   /\ sess' = [j \in DOMAIN sess \cup {k} |->
                                  IF j = k THEN [ip |-> x.ip, prefix |-> x.prefix, ttl |-> got[c].ttl]
                                  ELSE sess[j]]
    /\ pc' = [pc EXCEPT ![c] = "served"]
    /\ UNCHANGED <<acct, enabled, got, meant, line>>

\* The request is over, refused by the rate limit, or finds no prefix enabled.
Leave(c) ==
    /\ pc[c] # "idle" \/ line[c] # NoLine
    /\ pc' = [pc EXCEPT ![c] = "idle"]
    /\ got' = [got EXCEPT ![c] = Invalid]
    /\ meant' = [meant EXCEPT ![c] = Unsaid]
    /\ exit' = [exit EXCEPT ![c] = NoExit]
    /\ line' = [line EXCEPT ![c] = NoLine]
    /\ UNCHANGED <<acct, sess, enabled>>

Next == \/ \E name \in Names : AddAccount(name) \/ PatchAccount(name) \/ RemoveAccount(name)
        \/ \E s \in Specs : SetPrefixEnabled(s)
        \/ EndSession
        \/ \E c \in Clients : Generate(c) \/ ByHand(c) \/ ByLine(c) \/ Resolve(c) \/ Leave(c)

Spec == Init /\ [][Next]_vars

----
(* Properties                                                               *)

(* "{account}[_sid_{id}][_time_{minutes}][_mode_{rotate|sticky}]"            *)
(* (README.en.md:181): a username written so, with ignored geographic fields *)
(* anywhere a keyword may hide in, is refused only if the account is missing *)
(* or disabled, and otherwise gets the account, sid, mode and TTL it asks   *)
(* for, within what the account grants at that time and whatever the        *)
(* account's default mode: if the account is Plain and no header brings a   *)
(* sid to a username that has none.                                         *)
UsernamesAsDocumented == \A c \in Clients :
    pc[c] # "idle" /\ line[c] = NoLine /\ meant[c] # Unsaid => got[c] = meant[c]

(* A generated credential does what it was generated for, to the same       *)
(* exceptions, however the account was patched since: it is refused only if *)
(* the account is gone or disabled, one generated as rotate rotates, and a  *)
(* sticky one brings its sid, for the minutes it names unless the account's *)
(* maximum was lowered.                                                     *)
GeneratedWork == \A c \in Clients :
    pc[c] # "idle" /\ line[c] # NoLine /\ meant[c] # Unsaid => got[c] = meant[c]

\* ip's prefixes whose Random yields the addresses that agree with ip in value but for
\* the host bits.
FilledLengths == [ip \in {s.ip : s \in Specs} |-> {bits \in 0..Width :
    Random(MaskPrefix(ip, bits), bits) = {x \in Address : Within(x, ip, bits)}}]

(* An exit address is one of its prefix and any of them may come up, no     *)
(* more and no fewer, whichever length the prefix has, at a byte's boundary *)
(* or within one, and whatever host bits it was configured with.            *)
ExitsMatchPrefix == \A s \in enabled : FilledLengths[s.ip] = 0..Width
====

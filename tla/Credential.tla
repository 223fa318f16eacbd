---- MODULE Credential ----
(***************************************************************************)
(* The username protocol (internal/credential/parse.go).                   *)
(*                                                                         *)
(* A username is the sequence of the words its underscores separate. That  *)
(* is exact: "_sid_" occurs in it where a word other than the first and    *)
(* the last is "sid", and the first occurrence is the first such word.     *)
(* What the code asks of a single word is given by the constants. White    *)
(* space is trimmed before all this.                                       *)
(***************************************************************************)
EXTENDS Integers, Sequences

CONSTANTS Words,      \* what may stand between two underscores
          Starts,     \* words of [A-Za-z0-9._-] that begin with a letter or digit
          Legal,      \* words of [A-Za-z0-9._-], the empty one included
          SIDs,       \* words that sidRe matches ...
          Hex64,      \* ... and those of 64 hexadecimal digits
          Number,     \* Atoi, of the words that are numbers
          MidBase,    \* w of a word "w-mid"
          LowerCase   \* the lower case of the words that have capitals

Blank == ""        \* no word

Keywords == {"sid", "time", "mode", "zone", "st", "city"}
Reserved == {"sid", "time", "mode", "zone"}    \* reservedSubstrings, without their underscores

MinTTLMinutes == 1
MaxTTLMinutes == 180
DefaultTTL == 10

GeoKeywords == {"zone", "st", "city"}          \* fields that are read and ignored

Lower(w) == IF w \in DOMAIN LowerCase THEN LowerCase[w] ELSE w

(* None of these is empty but for the legal ones; a hash in lower case is a  *)
(* sid; a keyword has no capitals and does not end in "-mid".                *)
ASSUME CredentialConstants ==
    /\ Keywords \cup {Blank} \cup Starts \cup Legal \cup SIDs \cup Hex64 \subseteq Words
    /\ Blank \notin Keywords \cup Starts \cup SIDs \cup DOMAIN Number
    /\ Number \in [DOMAIN Number -> Int] /\ DOMAIN Number \subseteq Words
    /\ MidBase \in [DOMAIN MidBase -> Words] /\ DOMAIN MidBase \subseteq Words
    /\ \A h \in Hex64 : Lower(h) \in SIDs
    /\ Keywords \cap (DOMAIN MidBase \cup DOMAIN LowerCase) = {}

\* A user name as Parse understands it; no account is an error.
Invalid == [account |-> <<>>, sid |-> Blank, ttl |-> 0, ttlSet |-> FALSE, mode |-> Blank]

ValidAccountName(name) ==
    /\ name[1] \in Starts
    /\ \A i \in 2..Len(name) : name[i] \in Legal
    /\ \A i \in 2..Len(name) - 1 : Lower(name[i]) \notin Reserved

\* Mutant: a value that is a keyword begins a field of its own.
EveryKeyword(raw) == {i \in 2..Len(raw) - 1 : raw[i] \in Keywords}
\* Where splitAccount and parseFields find a keyword: the word after a keyword is
\* part of its value, whatever it is.
Marks(raw) ==
    LET mark[i \in 1..Len(raw)] ==
            i > 1 /\ i < Len(raw) /\ raw[i] \in Keywords /\ ~mark[i - 1]
    IN  {i \in 1..Len(raw) : mark[i]}

\* The value of the field at i: the words up to the next mark.
ValueAt(raw, i) ==
    LET end == CHOOSE j \in i + 1..Len(raw) + 1 :
                  /\ j \in Marks(raw) \cup {Len(raw) + 1}
                  /\ \A k \in i + 1..j - 1 : k \notin Marks(raw)
    IN  SubSeq(raw, i + 1, end - 1)

\* parseFields' map: the last field of a name wins. Its values are not empty.
Has(raw, kw) == \E i \in Marks(raw) : raw[i] = kw
Field(raw, kw) == ValueAt(raw, CHOOSE i \in Marks(raw) :
                                  /\ raw[i] = kw
                                  /\ \A j \in Marks(raw) : raw[j] = kw => j <= i)

Account(raw) == IF Marks(raw) = {} THEN raw
                ELSE SubSeq(raw, 1, (CHOOSE i \in Marks(raw) : \A j \in Marks(raw) : i <= j) - 1)

\* midRe: "account-mid_" and 64 hexadecimal digits.
IsMid(raw) == /\ Len(raw) > 1
              /\ raw[Len(raw)] \in Hex64
              /\ raw[Len(raw) - 1] \in DOMAIN MidBase
              /\ Len(raw) > 2 \/ MidBase[raw[1]] # Blank
MidAccount(raw) == [SubSeq(raw, 1, Len(raw) - 1) EXCEPT ![Len(raw) - 1] = MidBase[@]]

\* Fields whose value is no such thing are errors; zone, st and city are ignored.
FieldsOK(raw) ==
    /\ \A i \in Marks(raw) : ValueAt(raw, i) \notin {<<>>, <<Blank>>}
    /\ Has(raw, "sid") => Len(Field(raw, "sid")) = 1 /\ Field(raw, "sid")[1] \in SIDs
    /\ Has(raw, "time") => Len(Field(raw, "time")) = 1 /\ Field(raw, "time")[1] \in DOMAIN Number
    /\ Has(raw, "mode") => Len(Field(raw, "mode")) = 1
                           /\ Lower(Field(raw, "mode")[1]) \in {"rotate", "sticky"}

Parse(raw) ==
    IF IsMid(raw)
    THEN IF ValidAccountName(MidAccount(raw))
         THEN [account |-> MidAccount(raw), sid |-> Lower(raw[Len(raw)]),
               ttl |-> 0, ttlSet |-> FALSE, mode |-> "sticky"]
         ELSE Invalid
    ELSE IF ValidAccountName(Account(raw)) /\ FieldsOK(raw)
         THEN [account |-> Account(raw),
               sid     |-> IF Has(raw, "sid") THEN Field(raw, "sid")[1] ELSE Blank,
               ttl     |-> IF Has(raw, "time") THEN Number[Field(raw, "time")[1]] ELSE 0,
               ttlSet  |-> Has(raw, "time"),
               mode    |-> IF Has(raw, "mode") THEN Lower(Field(raw, "mode")[1]) ELSE Blank]
         ELSE Invalid

\* Mutant: a TTL of zero or less is kept.
ApplyDefaultsNoMinimum(p, account) ==
    LET max == IF account.max \in 1..MaxTTLMinutes THEN account.max ELSE MaxTTLMinutes
        mode == IF p.mode # Blank THEN p.mode ELSE IF p.sid # Blank THEN "sticky" ELSE account.mode
        ttl == IF p.ttlSet THEN p.ttl ELSE account.ttl
    IN  [p EXCEPT !.mode = mode,
                  !.sid = IF mode = "rotate" THEN Blank ELSE @,
                  !.ttl = IF ttl > max THEN max ELSE ttl]
\* The account's fields are those GetAccount returns: defaultTTL > 0 and a mode.
ApplyDefaults(p, account) ==
    LET max == IF account.max \in 1..MaxTTLMinutes THEN account.max ELSE MaxTTLMinutes
        mode == IF p.mode # Blank THEN p.mode ELSE IF p.sid # Blank THEN "sticky" ELSE account.mode
        ttl == IF p.ttlSet THEN p.ttl ELSE account.ttl
    IN  [p EXCEPT !.mode = mode,
                  !.sid = IF mode = "rotate" THEN Blank ELSE @,
                  !.ttl = IF ttl < MinTTLMinutes THEN MinTTLMinutes
                          ELSE IF ttl > max THEN max ELSE ttl]

Decimal(n) == CHOOSE w \in DOMAIN Number : Number[w] = n

\* Mutant: the minutes are left out.
FormatWithoutTime(account, sid, ttl, mode) ==
    IF mode = "rotate" \/ sid = Blank THEN account ELSE account \o <<"sid", sid>>
FormatUsername(account, sid, ttl, mode) ==
    IF mode = "rotate" \/ sid = Blank THEN account
    ELSE account \o <<"sid", sid, "time", Decimal(IF ttl <= 0 THEN DefaultTTL ELSE ttl)>>
====

---- MODULE AdmissionProofs ----
(***************************************************************************)
(* Proofs about Admission: what Parse reads in a username that is written  *)
(* as documented, or generated, whatever its account name, its values and  *)
(* its geographic fields are; and the addresses of a prefix.               *)
(***************************************************************************)
EXTENDS Admission, WellFoundedInduction, TLAPS

LEMMA LeastNat == ASSUME NEW S, S \subseteq Nat, S # {}
                  PROVE \E x \in S : \A y \in S : x <= y
<1> DEFINE R == {ss \in Nat \X Nat : ss[1] < ss[2]}
<1>1. IsWellFoundedOn(R, Nat)
  <2>1. OpToRel(<, Nat) = R
    BY DEF OpToRel
  <2>2. QED BY <2>1, NatLessThanWellFounded
<1>2. \A x, y \in Nat : y < x => <<y, x>> \in R
  OBVIOUS
<1> HIDE DEF R
<1>3. PICK x \in S : \A y \in S : ~ <<y, x>> \in R
  BY <1>1, WFMin
<1>4. ASSUME NEW y \in S PROVE x <= y
  <2>1. x \in Nat /\ y \in Nat
    OBVIOUS
  <2>2. ~ y < x
    BY <1>2, <1>3, <2>1
  <2>3. QED BY <2>1, <2>2
<1>5. QED BY <1>4

----
(* The keywords of a username                                               *)

\* Places where a keyword begins a field: not the word after another such place.
IsMarking(raw, K) ==
    /\ K \subseteq 2..Len(raw) - 1
    /\ \A i \in K : raw[i] \in Keywords /\ i - 1 \notin K
    /\ \A i \in 2..Len(raw) - 1 : raw[i] \in Keywords /\ i \notin K => i - 1 \in K

\* The recursion of Marks, as a condition on a function.
Follows(mark, raw) ==
    mark = [i \in 1..Len(raw) |-> i > 1 /\ i < Len(raw) /\ raw[i] \in Keywords /\ ~mark[i - 1]]

LEMMA MarksAre ==
  ASSUME NEW raw \in Seq(Words), NEW K, IsMarking(raw, K)
  PROVE  Marks(raw) = K
<1> DEFINE n == Len(raw)
           f == [i \in 1..n |-> i \in K]
           mark == CHOOSE g : Follows(g, raw)
<1>1. n \in Nat
  OBVIOUS
<1>2. \A i \in 1..n : i \in K <=> i > 1 /\ i < n /\ raw[i] \in Keywords /\ i - 1 \notin K
  BY <1>1 DEF IsMarking
<1>3. Follows(f, raw)
  <2>1. \A i \in 1..n : i > 1 => (f[i - 1] = (i - 1 \in K))
    BY <1>1
  <2>2. ASSUME NEW i \in 1..n
        PROVE  (i \in K) = (i > 1 /\ i < n /\ raw[i] \in Keywords /\ ~f[i - 1])
    <3>1. i > 1 => (f[i - 1] <=> i - 1 \in K)
      BY <2>1
    <3> HIDE DEF f, n
    <3>2. i \in K <=> i > 1 /\ i < n /\ raw[i] \in Keywords /\ ~f[i - 1]
      BY <1>2, <3>1
    <3>3. QED BY <3>2
  <2>3. QED BY <2>2 DEF Follows
<1>4. Follows(mark, raw)
  BY <1>3
<1>5. Marks(raw) = {i \in 1..n : mark[i]}
  BY DEF Marks, Follows
<1> HIDE DEF f, mark
<1>6. \A i \in 1..n : mark[i] <=> i > 1 /\ i < n /\ raw[i] \in Keywords /\ ~mark[i - 1]
  BY <1>4 DEF Follows
<1>7. ASSUME {i \in 1..n : ~(mark[i] <=> i \in K)} # {} PROVE FALSE
  <2>1. PICK i \in 1..n : /\ ~(mark[i] <=> i \in K)
                          /\ \A j \in 1..n : ~(mark[j] <=> j \in K) => i <= j
    <3> DEFINE S == {i \in 1..n : ~(mark[i] <=> i \in K)}
    <3>1. S \subseteq Nat
      OBVIOUS
    <3>2. PICK i \in S : \A j \in S : i <= j
      <4> HIDE DEF S
      <4>1. S # {}
        BY <1>7 DEF S
      <4>2. QED BY <3>1, <4>1, LeastNat
    <3>3. QED BY <3>2
  <2>2. i > 1 => (mark[i - 1] <=> i - 1 \in K)
    <3>1. i > 1 => i - 1 \in 1..n /\ ~ i <= i - 1
      BY <1>1
    <3>2. QED BY <2>1, <3>1
  <2>3. mark[i] <=> i > 1 /\ i < n /\ raw[i] \in Keywords /\ ~mark[i - 1]
    BY <1>6
  <2>4. i \in K <=> i > 1 /\ i < n /\ raw[i] \in Keywords /\ i - 1 \notin K
    BY <1>2
  <2> HIDE DEF n
  <2>5. CASE i > 1
    <3>1. mark[i - 1] <=> i - 1 \in K
      BY <2>2, <2>5
    <3>2. mark[i] <=> i \in K
      BY <2>3, <2>4, <2>5, <3>1
    <3>3. QED BY <2>1, <3>2
  <2>6. CASE ~ i > 1
    BY <2>1, <2>3, <2>4, <2>6
  <2>7. QED BY <2>5, <2>6
<1>8. \A i \in 1..n : mark[i] <=> i \in K
  BY <1>7
<1>9. K \subseteq 1..n
  BY <1>1 DEF IsMarking
<1> HIDE DEF n
<1>10. QED BY <1>5, <1>8, <1>9

(* raw is name with fields after it, whose keywords are at K: each has a     *)
(* value other than the empty word, which may begin with a keyword.          *)
Reads(raw, name, K) ==
    /\ Len(name) >= 1
    /\ Len(name) <= Len(raw) /\ \A i \in 1..Len(name) : raw[i] = name[i]
    /\ K \subseteq Len(name) + 1..Len(raw) - 1
    /\ IF K = {} THEN Len(raw) = Len(name) ELSE Len(name) + 1 \in K
    /\ \A i \in K : /\ raw[i] \in Keywords
                    /\ i + 1 \notin K
                    /\ raw[i + 1] # Blank \/ i + 2 \in 1..Len(raw) \ K
    /\ \A i \in 2..Len(raw) : raw[i] \in Keywords /\ i \notin K => i - 1 \in K

LEMMA ReadsMarks ==
  ASSUME NEW raw \in Seq(Words), NEW name \in Seq(Words), NEW K, Reads(raw, name, K)
  PROVE  Marks(raw) = K
<1>1. K \subseteq 2..Len(raw) - 1
  BY DEF Reads
<1>2. \A i \in K : i - 1 \in K => i \notin K
  <2>1. \A i \in K : i - 1 \in K => (i - 1) + 1 \notin K
    BY DEF Reads
  <2>2. \A i \in K : (i - 1) + 1 = i
    BY <1>1
  <2>3. QED BY <2>1, <2>2
<1>3. IsMarking(raw, K)
  BY <1>1, <1>2 DEF Reads, IsMarking
<1>4. QED BY <1>3, MarksAre DEF Reads

LEMMA ReadsAccount ==
  ASSUME NEW raw \in Seq(Words), NEW name \in Seq(Words), NEW K, Reads(raw, name, K)
  PROVE  Account(raw) = name
<1>1. Marks(raw) = K
  BY ReadsMarks
<1>2. CASE K = {}
  <2>1. raw = name
    BY <1>2 DEF Reads
  <2>2. QED BY <1>1, <1>2, <2>1 DEF Account
<1>3. CASE K # {}
  <2> DEFINE first == CHOOSE i \in Marks(raw) : \A j \in Marks(raw) : i <= j
  <2>1. Len(name) \in Nat /\ Len(name) + 1 \in K /\ \A j \in K : j \in Int /\ Len(name) + 1 <= j
    <3>1. Len(name) + 1 \in K
      BY <1>3 DEF Reads
    <3>2. K \subseteq Len(name) + 1..Len(raw) - 1 /\ Len(name) \in Nat /\ Len(raw) \in Nat
      BY DEF Reads
    <3>3. QED BY <3>1, <3>2
  <2>2. first = Len(name) + 1
    BY <1>1, <2>1
  <2>3. Account(raw) = SubSeq(raw, 1, first - 1)
    BY <1>1, <1>3 DEF Account
  <2> HIDE DEF first
  <2>4. Account(raw) = SubSeq(raw, 1, Len(name))
    BY <2>1, <2>2, <2>3
  <2>5. QED BY <2>4 DEF Reads
<1>4. QED BY <1>2, <1>3

\* Where the value of the field at p ends.
LEMMA ReadsEnd ==
  ASSUME NEW raw \in Seq(Words), NEW name \in Seq(Words), NEW K, Reads(raw, name, K), NEW p \in K
  PROVE  \E end \in p + 2..Len(raw) + 1 :
            /\ ValueAt(raw, p) = SubSeq(raw, p + 1, end - 1)
            /\ end \in K \cup {Len(raw) + 1}
            /\ \A k \in p + 1..end - 1 : k \notin K
<1> DEFINE L == Len(raw)
           Ends(j) == j \in K \cup {L + 1} /\ \A k \in p + 1..j - 1 : k \notin K
           S == {j \in p + 1..L + 1 : j \in K \cup {L + 1}}
           end == CHOOSE j \in p + 1..L + 1 : Ends(j)
<1>1. L \in Nat /\ p \in 2..L - 1 /\ p + 1 \notin K /\ K \subseteq 2..L - 1
  BY DEF Reads
<1>2. S \subseteq Nat /\ S # {}
  BY <1>1
<1>3. PICK m \in S : \A j \in S : m <= j
  <2> HIDE DEF S
  <2>1. QED BY <1>2, LeastNat
<1>4. m \in p + 1..L + 1 /\ Ends(m)
  BY <1>1, <1>3
<1>5. end \in p + 1..L + 1 /\ Ends(end)
  <2> HIDE DEF Ends
  <2>1. QED BY <1>4
<1>6. ValueAt(raw, p) = SubSeq(raw, p + 1, end - 1)
  BY ReadsMarks DEF ValueAt
<1> HIDE DEF end
<1>7. end \in p + 2..L + 1
  BY <1>1, <1>5
<1>8. QED BY <1>5, <1>6, <1>7

LEMMA ReadsValue ==
  ASSUME NEW raw \in Seq(Words), NEW name \in Seq(Words), NEW K, Reads(raw, name, K), NEW p \in K
  PROVE  /\ ValueAt(raw, p) \notin {<<>>, <<Blank>>}
         /\ p + 2 \in K \cup {Len(raw) + 1} => ValueAt(raw, p) = <<raw[p + 1]>>
<1> DEFINE L == Len(raw)
<1>1. L \in Nat /\ p \in 2..L - 1 /\ raw \in Seq(Words) /\ (raw[p + 1] # Blank \/ p + 2 \in 1..L \ K)
  BY DEF Reads
<1>2. PICK end \in p + 2..L + 1 : /\ ValueAt(raw, p) = SubSeq(raw, p + 1, end - 1)
                                  /\ end \in K \cup {L + 1}
                                  /\ \A k \in p + 1..end - 1 : k \notin K
  BY ReadsEnd
<1> DEFINE v == SubSeq(raw, p + 1, end - 1)
<1>3. /\ v \in Seq(Words)
      /\ Len(v) = end - 1 - p
      /\ v[1] = raw[p + 1]
  BY <1>1
<1> HIDE DEF v
<1>4. v # <<>>
  BY <1>1, <1>3
<1>5. v # <<Blank>>
  <2>1. SUFFICES ASSUME v = <<Blank>> PROVE FALSE
    OBVIOUS
  <2>2. end = p + 2 /\ raw[p + 1] = Blank
    BY <1>1, <1>3, <2>1
  <2>3. QED BY <1>1, <1>2, <2>2
<1>6. ASSUME p + 2 \in K \cup {L + 1} PROVE v = <<raw[p + 1]>>
  <2>1. end = p + 2
    BY <1>1, <1>2, <1>6
  <2>2. QED BY <1>1, <1>3, <2>1
<1>7. QED BY <1>2, <1>4, <1>5, <1>6 DEF v

----
(* How a username is put together                                           *)

LEMMA TwoMore ==
  ASSUME NEW S, NEW s \in Seq(S), NEW a \in S, NEW b \in S
  PROVE  /\ s \o <<a, b>> \in Seq(S) /\ Len(s \o <<a, b>>) = Len(s) + 2
         /\ \A i \in 1..Len(s) : (s \o <<a, b>>)[i] = s[i]
         /\ (s \o <<a, b>>)[Len(s) + 1] = a /\ (s \o <<a, b>>)[Len(s) + 2] = b
<1>1. <<a, b>> \in Seq(S) /\ Len(<<a, b>>) = 2 /\ <<a, b>>[1] = a /\ <<a, b>>[2] = b
  OBVIOUS
<1>2. PICK t \in Seq(S) : t = <<a, b>> /\ Len(t) = 2 /\ t[1] = a /\ t[2] = b
  BY <1>1
<1>3. /\ s \o t \in Seq(S) /\ Len(s \o t) = Len(s) + 2
      /\ \A i \in 1..Len(s) : (s \o t)[i] = s[i]
      /\ (s \o t)[Len(s) + 1] = t[1] /\ (s \o t)[Len(s) + 2] = t[2]
  <2>1. Len(s) \in Nat /\ Len(s \o t) = Len(s) + 2
    BY <1>2
  <2>2. \A k \in Len(s) + 1..Len(s) + 2 : (s \o t)[k] = t[k - Len(s)]
    BY <1>2
  <2>3. (s \o t)[Len(s) + 1] = t[1] /\ (s \o t)[Len(s) + 2] = t[2]
    BY <2>1, <2>2
  <2>4. QED BY <1>2, <2>1, <2>3
<1>4. QED BY <1>2, <1>3

TwoByTwo(s, a, b, c, d) == s \o <<a, b>> \o <<c, d>> = s \o <<a, b, c, d>>

LEMMA TwiceTwoMore ==
  ASSUME NEW S, NEW s \in Seq(S), NEW a \in S, NEW b \in S, NEW c \in S, NEW d \in S
  PROVE  TwoByTwo(s, a, b, c, d)
<1>1. PICK m : m = s \o <<a, b>>
  OBVIOUS
<1>2. /\ m \in Seq(S) /\ Len(m) = Len(s) + 2 /\ \A i \in 1..Len(s) : m[i] = s[i]
      /\ m[Len(s) + 1] = a /\ m[Len(s) + 2] = b
  BY <1>1, TwoMore
<1>3. PICK l : l = m \o <<c, d>>
  OBVIOUS
<1>4. /\ l \in Seq(S) /\ Len(l) = Len(m) + 2 /\ \A i \in 1..Len(m) : l[i] = m[i]
      /\ l[Len(m) + 1] = c /\ l[Len(m) + 2] = d
  BY <1>2, <1>3, TwoMore
<1>5. Len(s) \in Nat
  OBVIOUS
<1>6. /\ Len(l) = Len(s) + 4 /\ \A i \in 1..Len(s) : l[i] = s[i]
      /\ l[Len(s) + 1] = a /\ l[Len(s) + 2] = b /\ l[Len(s) + 3] = c /\ l[Len(s) + 4] = d
  BY <1>2, <1>4, <1>5
<1>7. PICK t \in Seq(S) : t = <<a, b, c, d>> /\ Len(t) = 4 /\ t[1] = a /\ t[2] = b /\ t[3] = c /\ t[4] = d
  <2>1. /\ <<a, b, c, d>> \in Seq(S) /\ Len(<<a, b, c, d>>) = 4
        /\ <<a, b, c, d>>[1] = a /\ <<a, b, c, d>>[2] = b
        /\ <<a, b, c, d>>[3] = c /\ <<a, b, c, d>>[4] = d
    OBVIOUS
  <2>2. QED BY <2>1
<1>8. PICK e : e = s \o t
  OBVIOUS
<1>9. /\ e \in Seq(S) /\ Len(e) = Len(s) + 4 /\ \A i \in 1..Len(s) : e[i] = s[i]
      /\ \A k \in Len(s) + 1..Len(s) + 4 : e[k] = t[k - Len(s)]
  BY <1>7, <1>8
<1>10. PICK n \in Nat : n = Len(s)
  BY <1>5
<1>11. e[n + 1] = t[1] /\ e[n + 2] = t[2] /\ e[n + 3] = t[3] /\ e[n + 4] = t[4]
  <2>1. n + 1 - n = 1 /\ n + 2 - n = 2 /\ n + 3 - n = 3 /\ n + 4 - n = 4
    OBVIOUS
  <2>2. \A k \in n + 1..n + 4 : e[k] = t[k - n]
    BY <1>9, <1>10
  <2>3. n + 1 \in n + 1..n + 4 /\ n + 2 \in n + 1..n + 4 /\ n + 3 \in n + 1..n + 4 /\ n + 4 \in n + 1..n + 4
    OBVIOUS
  <2>4. QED BY <2>1, <2>2, <2>3
<1>12. e[n + 1] = l[n + 1] /\ e[n + 2] = l[n + 2] /\ e[n + 3] = l[n + 3] /\ e[n + 4] = l[n + 4]
  BY <1>6, <1>7, <1>10, <1>11
<1>13. \A k \in 1..n + 4 : k \in 1..n \/ k = n + 1 \/ k = n + 2 \/ k = n + 3 \/ k = n + 4
  OBVIOUS
<1>14. \A k \in 1..n + 4 : e[k] = l[k]
  BY <1>6, <1>9, <1>10, <1>12, <1>13
<1>15. e = l
  BY <1>4, <1>6, <1>9, <1>10, <1>14
<1>16. QED BY <1>1, <1>3, <1>7, <1>8, <1>15 DEF TwoByTwo

LEMMA OneMore ==
  ASSUME NEW S, NEW s \in Seq(S), NEW a \in S
  PROVE  /\ s \o <<a>> \in Seq(S) /\ Len(s \o <<a>>) = Len(s) + 1
         /\ \A i \in 1..Len(s) : (s \o <<a>>)[i] = s[i]
         /\ (s \o <<a>>)[Len(s) + 1] = a
<1>1. <<a>> \in Seq(S) /\ Len(<<a>>) = 1 /\ <<a>>[1] = a
  OBVIOUS
<1>2. PICK t \in Seq(S) : t = <<a>> /\ Len(t) = 1 /\ t[1] = a
  BY <1>1
<1>3. Len(s) \in Nat /\ Len(s \o t) = Len(s) + 1 /\ s \o t \in Seq(S)
  BY <1>2
<1>4. \A k \in Len(s) + 1..Len(s) + 1 : (s \o t)[k] = t[k - Len(s)]
  BY <1>2
<1>5. (s \o t)[Len(s) + 1] = t[1]
  BY <1>3, <1>4
<1>6. \A i \in 1..Len(s) : (s \o t)[i] = s[i]
  BY <1>2
<1>7. QED BY <1>2, <1>3, <1>5, <1>6

LEMMA ReadsPair ==
  ASSUME NEW raw \in Seq(Words), NEW name \in Seq(Words), NEW K, Reads(raw, name, K),
         NEW kw \in Keywords \cap Words, NEW v \in Words \ {Blank}
  PROVE  /\ raw \o <<kw, v>> \in Seq(Words)
         /\ Reads(raw \o <<kw, v>>, name, K \cup {Len(raw) + 1})
<1> DEFINE L == Len(raw)
           longer == raw \o <<kw, v>>
           M == K \cup {L + 1}
           n == Len(name)
<1>1. /\ longer \in Seq(Words) /\ Len(longer) = L + 2
      /\ \A i \in 1..L : longer[i] = raw[i]
      /\ longer[L + 1] = kw /\ longer[L + 2] = v
  BY TwoMore
<1>2. L \in Nat /\ n \in Nat
  OBVIOUS
<1>3. /\ n >= 1 /\ n <= L /\ \A i \in 1..n : raw[i] = name[i]
      /\ K \subseteq n + 1..L - 1
      /\ IF K = {} THEN L = n ELSE n + 1 \in K
  BY DEF Reads
<1>4. \A i \in K : /\ raw[i] \in Keywords
                   /\ i + 1 \notin K
                   /\ raw[i + 1] # Blank \/ i + 2 \in 1..L \ K
  BY DEF Reads
<1>5. \A i \in 2..L : raw[i] \in Keywords /\ i \notin K => i - 1 \in K
  BY DEF Reads
<1> HIDE DEF L, longer, n
<1>6. ASSUME NEW i \in M
      PROVE  /\ longer[i] \in Keywords
             /\ i + 1 \notin M
             /\ longer[i + 1] # Blank \/ i + 2 \in 1..Len(longer) \ M
  <2>1. CASE i \in K
    <3>1. i \in 1..L /\ i + 1 \in 1..L
      BY <1>2, <1>3, <2>1
    <3>2. longer[i] = raw[i] /\ longer[i + 1] = raw[i + 1]
      BY <1>1, <3>1
    <3>3. i + 1 # L + 1 /\ (i + 2 \in 1..L => i + 2 # L + 1)
      BY <1>2, <1>3, <2>1
    <3>4. QED BY <1>1, <1>2, <1>4, <2>1, <3>2, <3>3
  <2>2. CASE i = L + 1
    BY <1>1, <1>2, <1>3, <2>2
  <2>3. QED BY <2>1, <2>2
<1>7. ASSUME NEW i \in 2..Len(longer), longer[i] \in Keywords, i \notin M PROVE i - 1 \in M
  <2>1. CASE i \in 2..L
    BY <1>1, <1>2, <1>5, <1>7, <2>1
  <2>2. CASE i = L + 2
    BY <1>2, <2>2
  <2>3. QED BY <1>1, <1>2, <1>7, <2>1, <2>2
<1>8. n <= Len(longer) /\ \A i \in 1..n : longer[i] = name[i]
  BY <1>1, <1>2, <1>3
<1>9. M \subseteq n + 1..Len(longer) - 1
  BY <1>1, <1>2, <1>3
<1>10. M # {} /\ n + 1 \in M
  BY <1>1, <1>2, <1>3
<1>11. Reads(longer, name, M)
  BY <1>3, <1>6, <1>7, <1>8, <1>9, <1>10 DEF Reads, n
<1>12. QED BY <1>1, <1>11 DEF longer, L

\* The field kw of raw is the word v, or there is none if v is blank.
Says(raw, K, kw, v) ==
    IF v = Blank THEN \A i \in K : raw[i] # kw
    ELSE \E p \in K : /\ raw[p] = kw /\ raw[p + 1] = v
                      /\ \A i \in K : raw[i] = kw => i = p
                      /\ p + 2 \in K \cup {Len(raw) + 1}

LEMMA SaysField ==
  ASSUME NEW raw \in Seq(Words), NEW name \in Seq(Words), NEW K, Reads(raw, name, K),
         NEW kw, NEW v, Says(raw, K, kw, v)
  PROVE  /\ Has(raw, kw) <=> v # Blank
         /\ v # Blank => Field(raw, kw) = <<v>>
<1>1. Marks(raw) = K
  BY ReadsMarks
<1>2. CASE v = Blank
  BY <1>1, <1>2 DEF Says, Has
<1>3. CASE v # Blank
  <2>1. PICK p \in K : /\ raw[p] = kw /\ raw[p + 1] = v
                       /\ \A i \in K : raw[i] = kw => i = p
                       /\ p + 2 \in K \cup {Len(raw) + 1}
    BY <1>3 DEF Says
  <2>2. Has(raw, kw)
    BY <1>1, <2>1 DEF Has
  <2>3. p \in Int /\ p <= p
    BY DEF Reads
  <2>4. p = CHOOSE i \in Marks(raw) : /\ raw[i] = kw
                                      /\ \A j \in Marks(raw) : raw[j] = kw => j <= i
    BY <1>1, <2>1, <2>3
  <2>5. Field(raw, kw) = ValueAt(raw, p)
    BY <2>4 DEF Field
  <2>6. QED BY <1>3, <2>1, <2>2, <2>5, ReadsValue
<1>4. QED BY <1>2, <1>3

LEMMA SaysPair ==
  ASSUME NEW raw \in Seq(Words), NEW name \in Seq(Words), NEW K, Reads(raw, name, K),
         NEW kw \in Keywords \cap Words, NEW v \in Words \ {Blank}
  PROVE  /\ Says(raw, K, kw, Blank) => Says(raw \o <<kw, v>>, K \cup {Len(raw) + 1}, kw, v)
         /\ \A other, w : other # kw /\ Says(raw, K, other, w) =>
                Says(raw \o <<kw, v>>, K \cup {Len(raw) + 1}, other, w)
<1> DEFINE L == Len(raw)
           longer == raw \o <<kw, v>>
           M == K \cup {L + 1}
<1>1. /\ Len(longer) = L + 2
      /\ \A i \in 1..L : longer[i] = raw[i]
      /\ longer[L + 1] = kw /\ longer[L + 2] = v
  BY TwoMore
<1>2. L \in Nat /\ K \subseteq 1..L - 1
  BY DEF Reads
<1> HIDE DEF L, longer
<1>3. \A i \in K : longer[i] = raw[i] /\ longer[i + 1] = raw[i + 1]
  BY <1>1, <1>2
<1>4. ASSUME Says(raw, K, kw, Blank) PROVE Says(longer, M, kw, v)
  <2>1. \A i \in M : longer[i] = kw => i = L + 1
    BY <1>3, <1>4 DEF Says
  <2>2. (L + 1) + 1 = L + 2 /\ (L + 1) + 2 = Len(longer) + 1
    BY <1>1, <1>2
  <2>3. QED BY <1>1, <2>1, <2>2 DEF Says
<1>5. ASSUME NEW other, NEW w, other # kw, Says(raw, K, other, w) PROVE Says(longer, M, other, w)
  <2>1. CASE w = Blank
    BY <1>1, <1>3, <1>5, <2>1 DEF Says
  <2>2. CASE w # Blank
    <3>1. PICK p \in K : /\ raw[p] = other /\ raw[p + 1] = w
                         /\ \A i \in K : raw[i] = other => i = p
                         /\ p + 2 \in K \cup {Len(raw) + 1}
      BY <1>5, <2>2 DEF Says
    <3>2. longer[p] = other /\ longer[p + 1] = w
      BY <1>3, <3>1
    <3>3. \A i \in M : longer[i] = other => i = p
      BY <1>1, <1>3, <1>5, <3>1
    <3>4. p + 2 \in M
      BY <3>1 DEF L
    <3>5. QED BY <2>2, <3>2, <3>3, <3>4 DEF Says
  <2>3. QED BY <2>1, <2>2
<1>6. QED BY <1>4, <1>5 DEF longer, L

\* longer says v of kw where raw said nothing, and of the others what raw did.
Adds(raw, K, longer, M, kw, v) ==
    /\ Says(raw, K, kw, Blank) => Says(longer, M, kw, v)
    /\ \A other, w : other # kw /\ Says(raw, K, other, w) => Says(longer, M, other, w)

\* A field that is left out if its value is blank.
LEMMA ReadsOption ==
  ASSUME NEW raw \in Seq(Words), NEW name \in Seq(Words), NEW K, Reads(raw, name, K), ~IsMid(raw),
         NEW kw \in Keywords, NEW v \in Words, NEW longer,
         longer = raw \o (IF v = Blank THEN <<>> ELSE <<kw, v>>)
  PROVE  \E M : /\ longer \in Seq(Words) /\ Reads(longer, name, M) /\ ~IsMid(longer)
                /\ Adds(raw, K, longer, M, kw, v)
<1>1. CASE v = Blank
  <2>1. longer = raw
    BY <1>1
  <2>2. QED BY <1>1, <2>1 DEF Adds
<1>2. CASE v # Blank
  <2>1. kw \in Keywords \cap Words
    BY CredentialConstants
  <2>2. longer = raw \o <<kw, v>>
    BY <1>2
  <2>3. ~IsMid(longer)
    <3>1. Len(longer) - 1 = Len(raw) + 1 /\ longer[Len(raw) + 1] = kw
      BY <2>1, <2>2, TwoMore
    <3>2. kw \notin DOMAIN MidBase
      BY CredentialConstants
    <3>3. QED BY <3>1, <3>2 DEF IsMid
  <2>4. PICK M : M = K \cup {Len(raw) + 1}
    OBVIOUS
  <2>5. longer \in Seq(Words) /\ Reads(longer, name, M)
    BY <1>2, <2>1, <2>2, <2>4, ReadsPair
  <2>6. Says(raw, K, kw, Blank) => Says(longer, M, kw, v)
    BY <1>2, <2>1, <2>2, <2>4, SaysPair
  <2>7. ASSUME NEW other, NEW w, other # kw, Says(raw, K, other, w) PROVE Says(longer, M, other, w)
    <3>1. v \in Words \ {Blank}
      BY <1>2
    <3>2. Says(raw \o <<kw, v>>, K \cup {Len(raw) + 1}, other, w)
      BY <2>1, <2>7, <3>1, SaysPair
    <3>3. QED BY <2>2, <2>4, <3>2
  <2>8. QED BY <2>3, <2>5, <2>6, <2>7 DEF Adds
<1>3. QED BY <1>1, <1>2

(* A name that an account may have is read as itself ...                    *)
LEMMA ReadsName ==
  ASSUME NEW name \in Seq(Words) \ {<<>>}, ValidAccountName(name), Plain(name)
  PROVE  Reads(name, name, {}) /\ ~IsMid(name)
<1>1. Len(name) \in Nat /\ Len(name) >= 1
  OBVIOUS
<1>2. \A w \in Reserved : Lower(w) = w
  BY CredentialConstants DEF Lower, Reserved, Keywords
<1>3. ASSUME NEW i \in 2..Len(name) PROVE name[i] \notin Keywords
  <2>1. CASE i = Len(name)
    BY <1>1, <1>3, <2>1 DEF Plain
  <2>2. CASE i # Len(name)
    <3>1. i \in 2..Len(name) - 1
      BY <1>1, <1>3, <2>2
    <3>2. Lower(name[i]) \notin Reserved /\ name[i] \notin Keywords \ Reserved
      BY <3>1 DEF ValidAccountName, Plain
    <3>3. QED BY <1>2, <3>2
  <2>3. QED BY <2>1, <2>2
<1>4. Reads(name, name, {})
  BY <1>1, <1>3 DEF Reads
<1>5. QED BY <1>4 DEF Plain

(* ... and so it is with geographic fields after it, which say nothing.     *)
LEMMA ReadsGeo ==
  ASSUME NEW name \in Seq(Words), Reads(name, name, {}), ~IsMid(name),
         NEW geo \in Seq(Words), NEW G \in SUBSET (1..Len(geo)), GeoFields(geo, G)
  PROVE  \E K : /\ name \o geo \in Seq(Words) /\ Reads(name \o geo, name, K) /\ ~IsMid(name \o geo)
                /\ \A kw \in Keywords \ GeoKeywords : Says(name \o geo, K, kw, Blank)
<1> DEFINE n == Len(name)
           g == Len(geo)
           raw == name \o geo
           K == {i \in n + 1..n + g : i - n \in G}
<1>1. /\ n \in Nat /\ g \in Nat /\ raw \in Seq(Words) /\ Len(raw) = n + g
      /\ \A i \in 1..n : raw[i] = name[i]
      /\ \A i \in n + 1..n + g : raw[i] = geo[i - n]
  OBVIOUS
<1>2. /\ g # 0 => 1 \in G
      /\ \A i \in G : /\ geo[i] \in GeoKeywords
                      /\ i + 1 \in 1..g \ G
                      /\ geo[i + 1] # Blank \/ i + 2 \in 1..g \ G
      /\ \A i \in 2..g : /\ geo[i] \in Keywords /\ i \notin G => i - 1 \in G
                         /\ geo[i] \in Hex64 => geo[i - 1] \notin DOMAIN MidBase
  BY DEF GeoFields
<1>3. n >= 1 /\ \A i \in 2..n : name[i] \notin Keywords
  BY DEF Reads
<1> HIDE DEF n, g, raw
<1>4. ASSUME NEW i \in K
      PROVE  /\ raw[i] \in GeoKeywords
             /\ i + 1 \in n + 1..n + g /\ i + 1 \notin K
             /\ raw[i + 1] # Blank \/ i + 2 \in 1..Len(raw) \ K
  <2>1. i \in n + 1..n + g /\ i - n \in G /\ raw[i] = geo[i - n]
    BY <1>1
  <2>2. (i - n) + 1 \in 1..g /\ (i - n) + 1 \notin G /\ (i - n) + 1 = (i + 1) - n
    BY <1>1, <1>2, <2>1
  <2>3. raw[i + 1] = geo[(i - n) + 1] /\ i + 1 \in n + 1..n + g /\ i + 1 \notin K
    BY <1>1, <2>1, <2>2
  <2>4. ASSUME (i - n) + 2 \in 1..g \ G PROVE i + 2 \in 1..Len(raw) \ K
    BY <1>1, <2>1, <2>4
  <2>5. QED BY <1>2, <2>1, <2>3, <2>4
<1>5. ASSUME NEW i \in 2..Len(raw), raw[i] \in Keywords, i \notin K PROVE i - 1 \in K
  <2>1. i \in n + 1..n + g
    BY <1>1, <1>3, <1>5
  <2>2. geo[i - n] \in Keywords /\ i - n \notin G /\ i - n \in 1..g
    BY <1>1, <1>5, <2>1
  <2>3. i - n \in 2..g
    BY <1>1, <1>2, <2>2
  <2>4. (i - n) - 1 \in G /\ (i - n) - 1 = (i - 1) - n /\ i - 1 \in n + 1..n + g
    BY <1>1, <1>2, <2>2, <2>3
  <2>5. QED BY <2>4
<1>6. IF K = {} THEN Len(raw) = n ELSE n + 1 \in K
  <2>1. CASE g = 0
    BY <1>1, <2>1
  <2>2. CASE g # 0
    <3>1. n + 1 \in n + 1..n + g /\ (n + 1) - n = 1
      BY <1>1, <2>2
    <3>2. QED BY <1>2, <2>2, <3>1
  <2>3. QED BY <2>1, <2>2
<1>7. K \subseteq n + 1..Len(raw) - 1
  BY <1>1, <1>4
<1>8. GeoKeywords \subseteq Keywords
  BY DEF GeoKeywords, Keywords
<1> HIDE DEF K
<1>9. Reads(raw, name, K)
  BY <1>1, <1>3, <1>4, <1>5, <1>6, <1>7, <1>8 DEF Reads, n
<1>10. ~IsMid(raw)
  <2>1. CASE g = 0
    BY <1>1, <2>1 DEF raw, g
  <2>2. CASE g # 0
    <3>1. g \in 2..g
      BY <1>1, <1>2, <2>2
    <3>2. raw[n + g] = geo[g]
      <4>1. n + g \in n + 1..n + g /\ (n + g) - n = g
        BY <1>1, <3>1
      <4>2. QED BY <1>1, <4>1
    <3>3. raw[n + g - 1] = geo[g - 1]
      <4>1. n + g - 1 \in n + 1..n + g /\ (n + g - 1) - n = g - 1
        BY <1>1, <3>1
      <4>2. QED BY <1>1, <4>1
    <3>4. QED BY <1>1, <1>2, <3>1, <3>2, <3>3 DEF IsMid
  <2>3. QED BY <2>1, <2>2
<1>11. \A kw \in Keywords \ GeoKeywords : Says(raw, K, kw, Blank)
  BY <1>4 DEF Says
<1>12. QED BY <1>1, <1>9, <1>10, <1>11 DEF raw

(* The fields of a username, as it is written.                              *)
LEMMA UsernameReads ==
  ASSUME NEW name \in Seq(Words) \ {<<>>}, ValidAccountName(name), Plain(name),
         NEW r, Legible(r)
  PROVE  \E K : /\ Username(name, r) \in Seq(Words)
                /\ Reads(Username(name, r), name, K) /\ ~IsMid(Username(name, r))
                /\ Says(Username(name, r), K, "sid", r.sid)
                /\ Says(Username(name, r), K, "time", r.time)
                /\ Says(Username(name, r), K, "mode", r.mode)
<1> DEFINE rawG == name \o r.geo
           rawS == rawG \o (IF r.sid = Blank THEN <<>> ELSE <<"sid", r.sid>>)
           rawT == rawS \o (IF r.time = Blank THEN <<>> ELSE <<"time", r.time>>)
           rawM == rawT \o (IF r.mode = Blank THEN <<>> ELSE <<"mode", r.mode>>)
<1>1. {"sid", "time", "mode"} \subseteq Keywords \ GeoKeywords
  BY DEF Keywords, GeoKeywords
<1>2. r.sid \in Words /\ r.time \in Words /\ r.mode \in Words
  BY CredentialConstants DEF Legible
<1>3. PICK G : /\ rawG \in Seq(Words) /\ Reads(rawG, name, G) /\ ~IsMid(rawG)
               /\ \A kw \in Keywords \ GeoKeywords : Says(rawG, G, kw, Blank)
  BY ReadsName, ReadsGeo DEF Legible
<1>4. Username(name, r) = rawM
  BY DEF Username
<1> HIDE DEF rawG
<1>5. PICK S : /\ rawS \in Seq(Words) /\ Reads(rawS, name, S) /\ ~IsMid(rawS)
               /\ Adds(rawG, G, rawS, S, "sid", r.sid)
  BY <1>1, <1>2, <1>3, ReadsOption
<1> HIDE DEF rawS
<1>6. PICK T : /\ rawT \in Seq(Words) /\ Reads(rawT, name, T) /\ ~IsMid(rawT)
               /\ Adds(rawS, S, rawT, T, "time", r.time)
  BY <1>1, <1>2, <1>5, ReadsOption
<1> HIDE DEF rawT
<1>7. PICK M : /\ rawM \in Seq(Words) /\ Reads(rawM, name, M) /\ ~IsMid(rawM)
               /\ Adds(rawT, T, rawM, M, "mode", r.mode)
  BY <1>1, <1>2, <1>6, ReadsOption
<1> HIDE DEF rawM
<1>8. Says(rawG, G, "sid", Blank) /\ Says(rawG, G, "time", Blank) /\ Says(rawG, G, "mode", Blank)
  BY <1>1, <1>3
<1>9. Says(rawS, S, "sid", r.sid) /\ Says(rawS, S, "time", Blank) /\ Says(rawS, S, "mode", Blank)
  BY <1>5, <1>8 DEF Adds
<1>10. Says(rawT, T, "sid", r.sid) /\ Says(rawT, T, "time", r.time) /\ Says(rawT, T, "mode", Blank)
  BY <1>6, <1>9 DEF Adds
<1>11. Says(rawM, M, "sid", r.sid) /\ Says(rawM, M, "time", r.time) /\ Says(rawM, M, "mode", r.mode)
  BY <1>7, <1>10 DEF Adds
<1>12. QED BY <1>4, <1>7, <1>11

\* What Parse should make of it.
Meaning(name, r) ==
    [account |-> name, sid |-> r.sid,
     ttl |-> IF r.time # Blank THEN Number[r.time] ELSE 0,
     ttlSet |-> r.time # Blank,
     mode |-> IF r.mode # Blank THEN Lower(r.mode) ELSE Blank]

LEMMA ParseUsername ==
  ASSUME NEW name \in Seq(Words) \ {<<>>}, ValidAccountName(name), Plain(name),
         NEW r, Legible(r)
  PROVE  Parse(Username(name, r)) = Meaning(name, r)
<1>1. PICK raw : raw = Username(name, r)
  OBVIOUS
<1>2. PICK K : /\ raw \in Seq(Words) /\ Reads(raw, name, K) /\ ~IsMid(raw)
               /\ Says(raw, K, "sid", r.sid) /\ Says(raw, K, "time", r.time) /\ Says(raw, K, "mode", r.mode)
  BY <1>1, UsernameReads
<1>3. Account(raw) = name /\ Marks(raw) = K
  BY <1>2, ReadsAccount, ReadsMarks
<1>4. /\ Has(raw, "sid") <=> r.sid # Blank
      /\ r.sid # Blank => Field(raw, "sid") = <<r.sid>>
  BY <1>2, SaysField
<1>5. /\ Has(raw, "time") <=> r.time # Blank
      /\ r.time # Blank => Field(raw, "time") = <<r.time>>
  BY <1>2, SaysField
<1>6. /\ Has(raw, "mode") <=> r.mode # Blank
      /\ r.mode # Blank => Field(raw, "mode") = <<r.mode>>
  BY <1>2, SaysField
<1>7. \A i \in Marks(raw) : ValueAt(raw, i) \notin {<<>>, <<Blank>>}
  BY <1>2, <1>3, ReadsValue
<1>8. \A w : Len(<<w>>) = 1 /\ <<w>>[1] = w
  OBVIOUS
<1>9. FieldsOK(raw)
  BY <1>4, <1>5, <1>6, <1>7, <1>8 DEF FieldsOK, Legible
<1>10. Parse(raw) = [account |-> name,
                     sid |-> IF Has(raw, "sid") THEN Field(raw, "sid")[1] ELSE Blank,
                     ttl |-> IF Has(raw, "time") THEN Number[Field(raw, "time")[1]] ELSE 0,
                     ttlSet |-> Has(raw, "time"),
                     mode |-> IF Has(raw, "mode") THEN Lower(Field(raw, "mode")[1]) ELSE Blank]
  BY <1>2, <1>3, <1>9 DEF Parse
<1>11. (IF Has(raw, "sid") THEN Field(raw, "sid")[1] ELSE Blank) = r.sid
  BY <1>4, <1>8
<1>12. (IF Has(raw, "time") THEN Number[Field(raw, "time")[1]] ELSE 0) =
       IF r.time # Blank THEN Number[r.time] ELSE 0
  BY <1>5, <1>8
<1>13. Has(raw, "time") = (r.time # Blank)
  BY <1>5 DEF Has
<1>14. (IF Has(raw, "mode") THEN Lower(Field(raw, "mode")[1]) ELSE Blank) =
       IF r.mode # Blank THEN Lower(r.mode) ELSE Blank
  BY <1>6, <1>8
<1>15. QED BY <1>1, <1>10, <1>11, <1>12, <1>13, <1>14 DEF Meaning

(* The older form, whose hash may be in capitals.                           *)
LEMMA ParseMid ==
  ASSUME NEW name \in Seq(Words) \ {<<>>}, ValidAccountName(name), MidWord(name) # {}, NEW h \in Hex64
  PROVE  Parse(MidUsername(name, h)) =
            [account |-> name, sid |-> Lower(h), ttl |-> 0, ttlSet |-> FALSE, mode |-> "sticky"]
<1> DEFINE n == Len(name)
           w == CHOOSE x \in MidWord(name) : TRUE
           stem == [name EXCEPT ![n] = w]
           raw == MidUsername(name, h)
<1>1. n \in Nat /\ n >= 1
  OBVIOUS
<1>2. w \in DOMAIN MidBase /\ w \in Words /\ MidBase[w] = name[n]
  BY CredentialConstants DEF MidWord
<1> HIDE DEF w
<1>3. stem \in Seq(Words) /\ Len(stem) = n /\ stem[n] = w /\ \A i \in 1..n - 1 : stem[i] = name[i]
  BY <1>1, <1>2
<1>4. raw = stem \o <<h>>
  BY DEF MidUsername, w
<1> HIDE DEF stem, raw
<1>5. h \in Words
  BY CredentialConstants
<1>6. /\ Len(raw) = n + 1 /\ raw[n + 1] = h /\ raw[n] = w /\ \A i \in 1..n - 1 : raw[i] = name[i]
      /\ raw \in Seq(Words)
  <2>1. PICK L : L = Len(stem)
    OBVIOUS
  <2>2. raw \in Seq(Words) /\ Len(raw) = L + 1 /\ raw[L + 1] = h /\ \A i \in 1..L : raw[i] = stem[i]
    BY <1>3, <1>4, <1>5, <2>1, OneMore
  <2>3. n = L
    BY <1>3, <2>1
  <2>4. QED BY <1>1, <1>3, <2>2, <2>3
<1>7. IsMid(raw)
  <2>1. n = 1 => MidBase[raw[1]] # Blank
    <3>1. name[1] \in Starts
      BY DEF ValidAccountName
    <3>2. QED BY <1>2, <1>6, <3>1, CredentialConstants
  <2>2. raw[Len(raw)] = h /\ raw[Len(raw) - 1] = w
    BY <1>1, <1>6
  <2>3. Len(raw) > 1 /\ (n = 1 \/ Len(raw) > 2)
    <3> HIDE DEF n
    <3>1. QED BY <1>1, <1>6
  <2>4. QED BY <1>2, <2>1, <2>2, <2>3 DEF IsMid
<1>8. MidAccount(raw) = name
  <2>1. PICK t : t = SubSeq(raw, 1, n)
    OBVIOUS
  <2>2. t \in Seq(Words) /\ Len(t) = n /\ t[n] = w /\ \A i \in 1..n - 1 : t[i] = name[i]
    BY <1>1, <1>6, <2>1
  <2>3. MidAccount(raw) = [t EXCEPT ![n] = MidBase[w]]
    BY <1>1, <1>6, <2>1, <2>2 DEF MidAccount
  <2>4. [t EXCEPT ![n] = name[n]] = name
    <3>1. PICK u : u = [t EXCEPT ![n] = name[n]]
      OBVIOUS
    <3>2. name[n] \in Words
      BY <1>1
    <3>3. u \in Seq(Words) /\ Len(u) = n /\ u[n] = name[n] /\ \A i \in 1..n - 1 : u[i] = name[i]
      BY <1>1, <2>2, <3>1, <3>2
    <3>4. \A i \in 1..n : u[i] = name[i]
      BY <1>1, <3>3
    <3>5. u = name
      BY <3>3, <3>4
    <3>6. QED BY <3>1, <3>5
  <2>5. QED BY <1>2, <2>3, <2>4
<1>9. raw[Len(raw)] = h
  BY <1>1, <1>6
<1>10. QED BY <1>7, <1>8, <1>9 DEF Parse, raw

----
(* What is granted is what was asked for                                    *)

\* p says of a username what its user means by r.
Means(p, name, r) ==
    \E mode : /\ p = [account |-> name, sid |-> r.sid,
                      ttl |-> IF r.time # Blank THEN Number[r.time] ELSE 0,
                      ttlSet |-> r.time # Blank, mode |-> mode]
              /\ \/ mode = IF r.mode # Blank THEN Lower(r.mode) ELSE Blank
                 \/ mode = "sticky" /\ r.mode = Blank /\ r.sid # Blank

\* A reading by which account name is granted what r asks for.
Serves(p, name, r, header) ==
    LET d == ApplyDefaults(p, acct[p.account])
        sid == IF d.mode = "sticky" /\ d.sid = Blank /\ header \in SIDs THEN header ELSE d.sid
    IN  [d EXCEPT !.sid = sid, !.mode = IF sid = Blank THEN "rotate" ELSE @] = Asks(name, r)

LEMMA GrantedAsAsked ==
  ASSUME NEW name \in Names, NEW r, NEW header, NEW p,
         On(name), acct[name] \in Settings, Means(p, name, r), Settled(r, header),
         r.sid \in SIDs \cup {Blank}, r.time \in DOMAIN Number \cup {Blank},
         r.mode # Blank => Lower(r.mode) \in {"rotate", "sticky"}
  PROVE  Serves(p, name, r, header)
<1>1. PICK mode : /\ p = [account |-> name, sid |-> r.sid,
                          ttl |-> IF r.time # Blank THEN Number[r.time] ELSE 0,
                          ttlSet |-> r.time # Blank, mode |-> mode]
                  /\ \/ mode = IF r.mode # Blank THEN Lower(r.mode) ELSE Blank
                     \/ mode = "sticky" /\ r.mode = Blank /\ r.sid # Blank
  BY DEF Means
<1>2. /\ p.account = name /\ p.sid = r.sid /\ p.mode = mode
      /\ p.ttl = IF r.time # Blank THEN Number[r.time] ELSE 0
      /\ p.ttlSet <=> r.time # Blank
  BY <1>1
<1>3. PICK a : a = acct[name]
  OBVIOUS
<1>4. /\ a.mode \in {"rotate", "sticky"} /\ a.ttl \in Int /\ a.max \in 1..MaxTTLMinutes
  BY <1>3 DEF Settings, MaxTTLMinutes
<1> DEFINE minutes == IF r.time = Blank THEN a.ttl ELSE Number[r.time]
           d == ApplyDefaults(p, a)
           sticky == IF r.mode # Blank THEN Lower(r.mode) = "sticky"
                     ELSE r.sid # Blank \/ a.mode = "sticky"
<1>5. minutes \in Int
  BY <1>4, CredentialConstants
<1>6. d = [account |-> name, ttlSet |-> r.time # Blank,
           mode |-> IF sticky THEN "sticky" ELSE "rotate",
           sid |-> IF sticky THEN r.sid ELSE Blank,
           ttl |-> IF minutes < 1 THEN 1 ELSE IF minutes > a.max THEN a.max ELSE minutes]
  <2> DEFINE m == IF mode # Blank THEN mode ELSE IF r.sid # Blank THEN "sticky" ELSE a.mode
             t == IF p.ttlSet THEN p.ttl ELSE a.ttl
  <2>1. t = minutes
    BY <1>2
  <2>2. m = IF sticky THEN "sticky" ELSE "rotate"
    <3>1. Blank \notin {"sticky", "rotate"}
      BY DEF Blank
    <3>2. CASE mode = IF r.mode # Blank THEN Lower(r.mode) ELSE Blank
      <4>1. CASE r.mode # Blank
        BY <3>1, <3>2, <4>1
      <4>2. CASE r.mode = Blank
        BY <1>4, <3>2, <4>2
      <4>3. QED BY <4>1, <4>2
    <3>3. CASE mode = "sticky" /\ r.mode = Blank /\ r.sid # Blank
      BY <3>1, <3>3
    <3>4. QED BY <1>1, <3>2, <3>3
  <2>3. d = [p EXCEPT !.mode = m, !.sid = IF m = "rotate" THEN Blank ELSE @,
                      !.ttl = IF t < 1 THEN 1 ELSE IF t > a.max THEN a.max ELSE t]
    BY <1>2, <1>4 DEF ApplyDefaults, MinTTLMinutes
  <2> HIDE DEF m, t, d, minutes, sticky
  <2>4. d = [account |-> name, ttlSet |-> r.time # Blank, mode |-> m,
             sid |-> IF m = "rotate" THEN Blank ELSE r.sid,
             ttl |-> IF t < 1 THEN 1 ELSE IF t > a.max THEN a.max ELSE t]
    BY <1>1, <2>3
  <2>5. (IF m = "rotate" THEN Blank ELSE r.sid) = IF sticky THEN r.sid ELSE Blank
    BY <2>2
  <2>6. QED BY <2>1, <2>2, <2>4, <2>5
<1>7. QED
  <2> DEFINE dsid == IF sticky THEN r.sid ELSE Blank
             sid == IF sticky /\ dsid = Blank /\ header \in SIDs THEN header ELSE dsid
             ttl == IF minutes < 1 THEN 1 ELSE IF minutes > a.max THEN a.max ELSE minutes
  <2> HIDE DEF d, minutes
  <2>1. d.mode = (IF sticky THEN "sticky" ELSE "rotate") /\ d.sid = dsid
    BY <1>6
  <2>2. sid = IF d.mode = "sticky" /\ d.sid = Blank /\ header \in SIDs THEN header ELSE d.sid
    BY <2>1
  <2>3. sid # Blank => sticky
    OBVIOUS
  <2>4. Asks(name, r) = [account |-> name, sid |-> sid,
                         mode |-> IF sid = Blank THEN "rotate" ELSE "sticky",
                         ttlSet |-> r.time # Blank, ttl |-> ttl]
    <3>1. (IF Rotates(r) THEN Blank ELSE r.sid) = sid
      <4>1. sticky => ~Rotates(r)
        BY DEF Rotates
      <4>2. r.sid # Blank => sticky \/ Rotates(r)
        BY DEF Rotates
      <4>3. r.sid # Blank \/ Rotates(r) \/ header \notin SIDs
        BY DEF Settled
      <4>4. CASE sticky
        BY <4>1, <4>3, <4>4
      <4>5. CASE ~sticky
        BY <4>2, <4>5
      <4>6. QED BY <4>4, <4>5
    <3>2. Granted(IF r.time = Blank THEN acct[name].ttl ELSE Number[r.time], name) = ttl
      BY <1>3 DEF Granted, minutes
    <3> HIDE DEF sid, ttl
    <3>3. QED BY <3>1, <3>2 DEF Asks
  <2> HIDE DEF sticky, sid, dsid, ttl
  <2>5. [d EXCEPT !.sid = sid, !.mode = IF sid = Blank THEN "rotate" ELSE @] =
            [account |-> name, sid |-> sid, mode |-> IF sid = Blank THEN "rotate" ELSE "sticky",
             ttlSet |-> r.time # Blank, ttl |-> ttl]
    <3>1. d = [account |-> name, ttlSet |-> r.time # Blank, mode |-> d.mode, sid |-> dsid, ttl |-> ttl]
      BY <1>6, <2>1 DEF ttl, dsid
    <3>2. PICK s : s = (r.time # Blank)
      OBVIOUS
    <3>3. (IF sid = Blank THEN "rotate" ELSE d.mode) = IF sid = Blank THEN "rotate" ELSE "sticky"
      BY <2>1, <2>3
    <3>4. PICK dm : dm = d.mode
      OBVIOUS
    <3>5. d = [account |-> name, ttlSet |-> s, mode |-> dm, sid |-> dsid, ttl |-> ttl]
      BY <3>1, <3>2, <3>4
    <3> HIDE DEF ttl, sid, dsid
    <3>6. PICK e : e = [d EXCEPT !.sid = sid, !.mode = IF sid = Blank THEN "rotate" ELSE @]
      OBVIOUS
    <3>7. e = [account |-> name, sid |-> sid, mode |-> IF sid = Blank THEN "rotate" ELSE dm,
               ttlSet |-> s, ttl |-> ttl]
      BY <3>5, <3>6
    <3>8. QED BY <3>2, <3>3, <3>4, <3>6, <3>7
  <2>6. QED BY <1>2, <1>3, <2>2, <2>4, <2>5 DEF Serves, d

----
(* The invariant                                                            *)

\* The accounts have settings as normalizeAccount leaves them and names that
\* ValidAccountName accepted.
AccountsNormal ==
    /\ acct \in [Names -> Settings \cup {NoAccount}]
    /\ \A name \in Names : acct[name] # NoAccount =>
          /\ ValidAccountName(name)
          /\ acct[name].ttl \in Lifetimes
          /\ acct[name].max \in Lifetimes

\* A generated line was written by FormatUsername, for an account that could be created.
GeneratedLine(l) ==
    \E name \in Names, sid \in SIDs \cup {Blank}, ttl \in Lifetimes :
       /\ ValidAccountName(name)
       /\ l = [account |-> name, sid |-> sid, ttl |-> ttl,
               user |-> FormatUsername(name, sid, ttl, "sticky")]
LinesGenerated == \A c \in Clients : line[c] # NoLine => GeneratedLine(line[c])

\* What Admit made of a username is what it asks for, where that is documented.
Understood == \A c \in Clients : pc[c] # "idle" /\ meant[c] # Unsaid => got[c] = meant[c]

AdmissionInv ==
    /\ DOMAIN pc = Clients /\ DOMAIN got = Clients /\ DOMAIN meant = Clients /\ DOMAIN line = Clients
    /\ AccountsNormal
    /\ LinesGenerated
    /\ Understood

LEMMA NormalSettings ==
  ASSUME NEW s, s.on \in BOOLEAN, s.ttl \in Int, s.max \in Int,
         s.ttl \in 1..MaxTTLMinutes => s.ttl \in Lifetimes,
         s.max \in 1..MaxTTLMinutes => s.max \in Lifetimes
  PROVE  /\ Normalize(s) \in Settings
         /\ Normalize(s).ttl \in Lifetimes /\ Normalize(s).max \in Lifetimes
<1> DEFINE max == IF s.max \in 1..MaxTTLMinutes THEN s.max ELSE MaxTTLMinutes
           asked == IF s.ttl <= 0 THEN DefaultTTL ELSE s.ttl
           ttl == IF asked > max THEN max ELSE asked
           mode == IF s.mode = "sticky" THEN "sticky" ELSE "rotate"
<1>1. DefaultTTL \in Lifetimes /\ MaxTTLMinutes \in Lifetimes
  BY DEF Lifetimes, DefaultTTL, MaxTTLMinutes
<1>2. max \in Lifetimes /\ max \in 1..MaxTTLMinutes
  BY <1>1 DEF MaxTTLMinutes
<1>3. ttl \in 1..MaxTTLMinutes
  BY <1>2 DEF DefaultTTL, MaxTTLMinutes
<1>4. ttl \in Lifetimes
  <2>1. CASE ttl = max
    BY <1>2, <2>1
  <2>2. CASE ttl = DefaultTTL
    BY <1>1, <2>2
  <2>3. CASE ttl = s.ttl
    BY <1>3, <2>3
  <2>4. QED BY <2>1, <2>2, <2>3
<1>5. mode \in {"rotate", "sticky"}
  OBVIOUS
<1>6. Normalize(s) = [on |-> s.on, mode |-> mode, ttl |-> ttl, max |-> max]
  BY DEF Normalize
<1> HIDE DEF max, ttl, mode
<1>7. QED BY <1>2, <1>3, <1>4, <1>5, <1>6 DEF Settings

LEMMA LifetimesAre == \A n \in Lifetimes : n \in 1..MaxTTLMinutes /\ n \in Int /\ n > 0
BY DEF Lifetimes, MaxTTLMinutes

LEMMA DecimalReads ==
  ASSUME NEW ttl \in Lifetimes
  PROVE  Decimal(ttl) \in DOMAIN Number /\ Number[Decimal(ttl)] = ttl /\ Decimal(ttl) # Blank
<1>1. \E w \in DOMAIN Number : Number[w] = ttl
  BY AdmissionConstants
<1>2. QED BY <1>1, CredentialConstants DEF Decimal

LEMMA NoGeo == \A r : r.geo = <<>> => /\ r.geo \in Seq(Words)
                                      /\ \E K \in SUBSET (1..Len(r.geo)) : GeoFields(r.geo, K)
<1>1. <<>> \in Seq(Words) /\ Len(<<>>) = 0
  OBVIOUS
<1>2. GeoFields(<<>>, {})
  BY <1>1 DEF GeoFields
<1>3. QED BY <1>1, <1>2

LEMMA LineIsUsername ==
  ASSUME NEW name \in Seq(Words), NEW sid \in SIDs \cup {Blank}, NEW ttl \in Lifetimes,
         NEW r, r = [sid |-> sid, mode |-> Blank, geo |-> <<>>,
                     time |-> IF sid = Blank THEN Blank ELSE Decimal(ttl)]
  PROVE  /\ FormatUsername(name, sid, ttl, "sticky") = Username(name, r)
         /\ Legible(r)
<1>1. r.sid = sid /\ r.mode = Blank /\ r.geo = <<>> /\ r.time = IF sid = Blank THEN Blank ELSE Decimal(ttl)
  OBVIOUS
<1>2. Decimal(ttl) \in DOMAIN Number /\ Decimal(ttl) # Blank
  BY DecimalReads
<1>3. Legible(r)
  BY <1>1, <1>2, NoGeo, CredentialConstants DEF Legible
<1>4. \A s \in Seq(Words) : s \o <<>> = s
  OBVIOUS
<1>5. CASE sid = Blank
  <2>1. FormatUsername(name, sid, ttl, "sticky") = name
    BY <1>5 DEF FormatUsername
  <2>2. Username(name, r) = name \o <<>> \o <<>> \o <<>> \o <<>>
    BY <1>1, <1>5 DEF Username
  <2>3. QED BY <1>3, <1>4, <2>1, <2>2
<1>6. CASE sid # Blank
  <2> DEFINE D == Decimal(ttl)
  <2>1. D \in Words /\ sid \in Words /\ "sid" \in Words /\ "time" \in Words
    BY <1>2, <1>6, CredentialConstants DEF Keywords
  <2>2. ~(ttl <= 0)
    BY LifetimesAre
  <2>3. FormatUsername(name, sid, ttl, "sticky") = name \o <<"sid", sid, "time", D>>
    BY <1>6, <2>2 DEF FormatUsername
  <2>4. Username(name, r) = name \o <<>> \o <<"sid", sid>> \o <<"time", D>> \o <<>>
    BY <1>1, <1>2, <1>6 DEF Username
  <2> HIDE DEF D
  <2>5. name \o <<"sid", sid>> \o <<"time", D>> = name \o <<"sid", sid, "time", D>>
    <3>1. TwoByTwo(name, "sid", sid, "time", D)
      BY <2>1, TwiceTwoMore
    <3>2. QED BY <3>1 DEF TwoByTwo
  <2>6. name \o <<"sid", sid>> \o <<"time", D>> \in Seq(Words)
    BY <2>1
  <2>7. QED BY <1>3, <1>4, <2>3, <2>4, <2>5, <2>6
<1>7. QED BY <1>5, <1>6

LEMMA AdmittedAsAsked ==
  ASSUME NEW name \in Names, NEW header, NEW raw \in Usernames, NEW r,
         AccountsNormal, Settled(r, header), r.sid \in SIDs \cup {Blank}, r.time \in DOMAIN Number \cup {Blank},
         r.mode # Blank => Lower(r.mode) \in {"rotate", "sticky"},
         ValidAccountName(name) => Means(Parse(raw), name, r)
  PROVE  Admitted(raw, name, header) = Asks(name, r)
<1>1. PICK p : p = Parse(raw)
  OBVIOUS
<1>2. Reading[raw] = p
  BY <1>1 DEF Reading
<1>3. CASE ~On(name)
  <2>1. p.account # name \/ ~On(p.account)
    BY <1>3
  <2>2. Admitted(raw, name, header) = Invalid
    BY <1>2, <2>1 DEF Admitted
  <2>3. Asks(name, r) = Invalid
    BY <1>3 DEF Asks
  <2>4. QED BY <2>2, <2>3
<1>4. CASE On(name)
  <2>1. acct[name] \in Settings /\ ValidAccountName(name)
    BY <1>4 DEF On, Exists, AccountsNormal
  <2>2. Means(p, name, r)
    BY <1>1, <2>1
  <2>3. p.account = name
    BY <2>2 DEF Means
  <2>4. Serves(p, name, r, header)
    BY <1>4, <2>1, <2>2, GrantedAsAsked
  <2>5. ~(p.account # name \/ ~On(p.account))
    BY <1>4, <2>3
  <2>6. QED BY <1>2, <2>4, <2>5 DEF Admitted, Serves
<1>5. QED BY <1>3, <1>4

LEMMA WrittenMeans ==
  ASSUME NEW name \in Names, NEW r, Legible(r), Plain(name), ValidAccountName(name)
  PROVE  Means(Parse(Username(name, r)), name, r)
<1>1. Parse(Username(name, r)) = Meaning(name, r)
  BY ParseUsername, AdmissionConstants
<1>2. QED BY <1>1 DEF Means, Meaning

LEMMA MidMeans ==
  ASSUME NEW name \in Names, NEW h \in Hex64, MidWord(name) # {}, ValidAccountName(name)
  PROVE  Means(Parse(MidUsername(name, h)), name,
               [sid |-> Lower(h), time |-> Blank, mode |-> Blank, geo |-> <<>>])
<1>1. Parse(MidUsername(name, h)) =
          [account |-> name, sid |-> Lower(h), ttl |-> 0, ttlSet |-> FALSE, mode |-> "sticky"]
  BY ParseMid, AdmissionConstants
<1>2. PICK r : r = [sid |-> Lower(h), time |-> Blank, mode |-> Blank, geo |-> <<>>]
  OBVIOUS
<1>3. Lower(h) # Blank
  BY CredentialConstants
<1>4. r.sid = Lower(h) /\ r.time = Blank /\ r.mode = Blank
  BY <1>2
<1>5. Means(Parse(MidUsername(name, h)), name, r)
  BY <1>1, <1>3, <1>4 DEF Means
<1>6. QED BY <1>2, <1>5

\* A request arrives and is understood.
LEMMA ArriveKeeps ==
  ASSUME AdmissionInv, NEW c \in Clients, NEW raw \in Usernames, NEW name \in Names, NEW header,
         NEW r, Arrive(c, raw, name, header, r),
         UNCHANGED line,
         r.sid \in SIDs \cup {Blank}, r.time \in DOMAIN Number \cup {Blank},
         r.mode # Blank => Lower(r.mode) \in {"rotate", "sticky"},
         ValidAccountName(name) /\ Plain(name) => Means(Parse(raw), name, r)
  PROVE  AdmissionInv'
<1> DEFINE a == Admitted(raw, name, header)
           m == IF Plain(name) /\ Settled(r, header) THEN Asks(name, r) ELSE Unsaid
<1>1. m # Unsaid => a = m
  <2>1. CASE Plain(name) /\ Settled(r, header)
    <3>1. a = Asks(name, r)
      BY <2>1, AdmittedAsAsked DEF AdmissionInv
    <3>2. QED BY <2>1, <3>1
  <2>2. CASE ~(Plain(name) /\ Settled(r, header))
    BY <2>2
  <2>3. QED BY <2>1, <2>2
<1>2. /\ got' = [got EXCEPT ![c] = a] /\ meant' = [meant EXCEPT ![c] = m]
      /\ \E w : pc' = [pc EXCEPT ![c] = w]
      /\ UNCHANGED acct
  BY DEF Arrive
<1> HIDE DEF a, m
<1>3. PICK w : pc' = [pc EXCEPT ![c] = w]
  BY <1>2
<1>4. /\ DOMAIN pc' = Clients /\ DOMAIN got' = Clients /\ DOMAIN meant' = Clients
      /\ DOMAIN line' = Clients
  BY <1>2, <1>3 DEF AdmissionInv
<1>5. AccountsNormal'
  BY <1>2 DEF AdmissionInv, AccountsNormal
<1>6. LinesGenerated'
  BY DEF AdmissionInv, LinesGenerated
<1>7. Understood'
  BY <1>1, <1>2, <1>3 DEF AdmissionInv, Understood
<1>8. QED BY <1>4, <1>5, <1>6, <1>7 DEF AdmissionInv

LEMMA ByHandKeeps == AdmissionInv /\ (\E c \in Clients : ByHand(c)) => AdmissionInv'
<1> SUFFICES ASSUME AdmissionInv, NEW c \in Clients, ByHand(c)
             PROVE  AdmissionInv'
  OBVIOUS
<1>1. PICK name \in Names, header \in Headers :
          \/ \E r \in Requests : Arrive(c, Username(name, r), name, header, r)
          \/ \E h \in Hex64 :
                /\ MidWord(name) # {}
                /\ Arrive(c, MidUsername(name, h), name, header,
                          [sid |-> Lower(h), time |-> Blank, mode |-> Blank, geo |-> <<>>])
  BY DEF ByHand
<1>2. UNCHANGED line
  BY DEF ByHand
<1>3. ASSUME NEW r \in Requests, Arrive(c, Username(name, r), name, header, r)
      PROVE  AdmissionInv'
  <2>1. Legible(r)
    BY AdmissionConstants
  <2>2. Username(name, r) \in Usernames
    BY DEF Usernames
  <2>3. ValidAccountName(name) /\ Plain(name) => Means(Parse(Username(name, r)), name, r)
    BY <2>1, WrittenMeans
  <2>4. /\ r.sid \in SIDs \cup {Blank} /\ r.time \in DOMAIN Number \cup {Blank}
        /\ r.mode # Blank => Lower(r.mode) \in {"rotate", "sticky"}
    BY <2>1 DEF Legible
  <2>5. QED BY <1>2, <1>3, <2>2, <2>3, <2>4, ArriveKeeps
<1>4. ASSUME NEW h \in Hex64, MidWord(name) # {},
             Arrive(c, MidUsername(name, h), name, header,
                    [sid |-> Lower(h), time |-> Blank, mode |-> Blank, geo |-> <<>>])
      PROVE  AdmissionInv'
  <2>1. PICK r : r = [sid |-> Lower(h), time |-> Blank, mode |-> Blank, geo |-> <<>>]
    OBVIOUS
  <2>2. MidUsername(name, h) \in Usernames
    BY <1>4 DEF Usernames
  <2>3. ValidAccountName(name) => Means(Parse(MidUsername(name, h)), name, r)
    BY <1>4, <2>1, MidMeans
  <2>4. Lower(h) \in SIDs
    BY CredentialConstants
  <2>5. r.sid \in SIDs \cup {Blank} /\ r.time = Blank /\ r.mode = Blank
    BY <2>1, <2>4
  <2>6. Arrive(c, MidUsername(name, h), name, header, r)
    BY <1>4, <2>1
  <2>7. QED BY <1>2, <2>2, <2>3, <2>5, <2>6, ArriveKeeps
<1>5. QED BY <1>1, <1>3, <1>4

LEMMA ByLineKeeps == AdmissionInv /\ (\E c \in Clients : ByLine(c)) => AdmissionInv'
<1> SUFFICES ASSUME AdmissionInv, NEW c \in Clients, ByLine(c)
             PROVE  AdmissionInv'
  OBVIOUS
<1>1. PICK l : l = line[c]
  OBVIOUS
<1>2. PICK name \in Names, sid \in SIDs \cup {Blank}, ttl \in Lifetimes :
         /\ ValidAccountName(name)
         /\ l = [account |-> name, sid |-> sid, ttl |-> ttl,
                 user |-> FormatUsername(name, sid, ttl, "sticky")]
  BY <1>1 DEF ByLine, AdmissionInv, LinesGenerated, GeneratedLine
<1>3. l.account = name /\ l.sid = sid /\ l.ttl = ttl /\ l.user = FormatUsername(name, sid, ttl, "sticky")
  BY <1>2
<1>4. PICK r : r = [sid |-> sid, mode |-> Blank, geo |-> <<>>,
                    time |-> IF sid = Blank THEN Blank ELSE Decimal(ttl)]
  OBVIOUS
<1>5. name \in Seq(Words)
  BY AdmissionConstants
<1>6. FormatUsername(name, sid, ttl, "sticky") = Username(name, r) /\ Legible(r)
  BY <1>4, <1>5, LineIsUsername
<1>7. FormatUsername(name, sid, ttl, "sticky") \in Usernames
  BY DEF Usernames
<1>8. PICK header \in Headers :
          Arrive(c, l.user, l.account, header,
                 [sid |-> l.sid, mode |-> Blank, geo |-> <<>>,
                  time |-> IF l.sid = Blank THEN Blank ELSE Decimal(l.ttl)])
  BY <1>1 DEF ByLine
<1>9. Arrive(c, l.user, name, header, r)
  BY <1>3, <1>4, <1>8
<1>10. ValidAccountName(name) /\ Plain(name) => Means(Parse(l.user), name, r)
  BY <1>3, <1>6, WrittenMeans
<1>11. /\ r.sid \in SIDs \cup {Blank} /\ r.time \in DOMAIN Number \cup {Blank}
       /\ r.mode # Blank => Lower(r.mode) \in {"rotate", "sticky"}
  BY <1>6 DEF Legible
<1>12. l.user \in Usernames /\ UNCHANGED line
  BY <1>3, <1>7 DEF ByLine
<1>13. QED BY <1>9, <1>10, <1>11, <1>12, ArriveKeeps

\* An account's settings are changed, or set.
LEMMA SettingsKeep ==
  ASSUME AdmissionInv, NEW name \in Names, ValidAccountName(name), NEW a,
         (a \in Settings /\ a.ttl \in Lifetimes /\ a.max \in Lifetimes) \/ a = NoAccount,
         acct' = [acct EXCEPT ![name] = a], UNCHANGED client
  PROVE  AdmissionInv'
<1>1. AccountsNormal'
  BY DEF AdmissionInv, AccountsNormal
<1>2. UNCHANGED <<pc, got, meant, line>>
  BY DEF client
<1>3. LinesGenerated' /\ Understood'
  BY <1>2 DEF AdmissionInv, LinesGenerated, Understood
<1>4. QED BY <1>1, <1>2, <1>3 DEF AdmissionInv

LEMMA AddAccountKeeps == AdmissionInv /\ (\E name \in Names : AddAccount(name)) => AdmissionInv'
<1> SUFFICES ASSUME AdmissionInv, NEW name \in Names, AddAccount(name)
             PROVE  AdmissionInv'
  OBVIOUS
<1>1. PICK s \in Inputs : acct' = [acct EXCEPT ![name] = Normalize(s)]
  BY DEF AddAccount
<1>2. s.on \in BOOLEAN /\ s.ttl \in Int /\ s.max \in Int
  BY AdmissionConstants
<1>3. /\ s.ttl \in 1..MaxTTLMinutes => s.ttl \in Lifetimes
      /\ s.max \in 1..MaxTTLMinutes => s.max \in Lifetimes
  BY DEF Lifetimes
<1>4. /\ Normalize(s) \in Settings
      /\ Normalize(s).ttl \in Lifetimes /\ Normalize(s).max \in Lifetimes
  BY <1>2, <1>3, NormalSettings
<1>5. ValidAccountName(name) /\ UNCHANGED client
  BY DEF AddAccount
<1>6. QED BY <1>1, <1>4, <1>5, SettingsKeep

LEMMA PatchAccountKeeps == AdmissionInv /\ (\E name \in Names : PatchAccount(name)) => AdmissionInv'
<1> SUFFICES ASSUME AdmissionInv, NEW name \in Names, PatchAccount(name)
             PROVE  AdmissionInv'
  OBVIOUS
<1>1. PICK b : b = acct[name]
  OBVIOUS
<1>2. b \in Settings /\ b.ttl \in Lifetimes /\ b.max \in Lifetimes /\ ValidAccountName(name)
  BY <1>1 DEF PatchAccount, Exists, AdmissionInv, AccountsNormal
<1>3. PICK s \in Inputs, F \in SUBSET {"on", "mode", "ttl", "max"} :
          acct' = [acct EXCEPT ![name] = Normalize([f \in DOMAIN @ |-> IF f \in F THEN s[f] ELSE @[f]])]
  BY DEF PatchAccount
<1>4. PICK t : t = [f \in DOMAIN b |-> IF f \in F THEN s[f] ELSE b[f]]
  OBVIOUS
<1>5. acct' = [acct EXCEPT ![name] = Normalize(t)]
  BY <1>1, <1>3, <1>4
<1>6. DOMAIN b = {"on", "mode", "ttl", "max"}
  BY <1>2 DEF Settings
<1>7. /\ t.on = s.on \/ t.on = b.on
      /\ t.ttl = s.ttl \/ t.ttl = b.ttl
      /\ t.max = s.max \/ t.max = b.max
  BY <1>4, <1>6
<1>8. s.on \in BOOLEAN /\ s.ttl \in Int /\ s.max \in Int
  BY AdmissionConstants
<1>9. /\ s.ttl \in 1..MaxTTLMinutes => s.ttl \in Lifetimes
      /\ s.max \in 1..MaxTTLMinutes => s.max \in Lifetimes
  BY DEF Lifetimes
<1>10. b.on \in BOOLEAN /\ b.ttl \in Int /\ b.max \in Int
  BY <1>2, LifetimesAre DEF Settings
<1>11. t.on \in BOOLEAN
  BY <1>7, <1>8, <1>10
<1>12. t.ttl \in Int /\ (t.ttl \in 1..MaxTTLMinutes => t.ttl \in Lifetimes)
  BY <1>2, <1>7, <1>8, <1>9, <1>10
<1>13. t.max \in Int /\ (t.max \in 1..MaxTTLMinutes => t.max \in Lifetimes)
  BY <1>2, <1>7, <1>8, <1>9, <1>10
<1>14. /\ Normalize(t) \in Settings
       /\ Normalize(t).ttl \in Lifetimes /\ Normalize(t).max \in Lifetimes
  BY <1>11, <1>12, <1>13, NormalSettings
<1>15. UNCHANGED client
  BY DEF PatchAccount
<1>16. QED BY <1>2, <1>5, <1>14, <1>15, SettingsKeep

LEMMA RemoveAccountKeeps == AdmissionInv /\ (\E name \in Names : RemoveAccount(name)) => AdmissionInv'
<1> SUFFICES ASSUME AdmissionInv, NEW name \in Names, RemoveAccount(name)
             PROVE  AdmissionInv'
  OBVIOUS
<1>1. ValidAccountName(name)
  BY DEF RemoveAccount, Exists, AdmissionInv, AccountsNormal
<1>2. acct' = [acct EXCEPT ![name] = NoAccount] /\ UNCHANGED client
  BY DEF RemoveAccount
<1>3. QED BY <1>1, <1>2, SettingsKeep

LEMMA GenerateKeeps == AdmissionInv /\ (\E c \in Clients : Generate(c)) => AdmissionInv'
<1> SUFFICES ASSUME AdmissionInv, NEW c \in Clients, Generate(c)
             PROVE  AdmissionInv'
  OBVIOUS
<1> DEFINE Asked(name, minutes) == IF minutes <= 0 THEN acct[name].ttl ELSE minutes
           TTL(name, minutes) == IF Asked(name, minutes) > acct[name].max THEN acct[name].max
                                 ELSE Asked(name, minutes)
<1>1. PICK name \in Names, mode \in {"rotate", "sticky"}, minutes \in Minutes, sid \in SIDs \ Hex64 :
          /\ On(name)
          /\ line' = [line EXCEPT ![c] =
                [account |-> name, sid |-> IF mode = "sticky" THEN sid ELSE Blank,
                 ttl |-> TTL(name, minutes),
                 user |-> FormatUsername(name, IF mode = "sticky" THEN sid ELSE Blank,
                                         TTL(name, minutes), mode)]]
  BY DEF Generate
<1>2. PICK ttl : ttl = TTL(name, minutes)
  OBVIOUS
<1>3. PICK s : s = IF mode = "sticky" THEN sid ELSE Blank
  OBVIOUS
<1>4. /\ ValidAccountName(name) /\ acct[name].ttl \in Lifetimes /\ acct[name].max \in Lifetimes
  BY <1>1 DEF On, Exists, AdmissionInv, AccountsNormal
<1>5. ttl \in Lifetimes
  <2>1. PICK a, m : a = acct[name].ttl /\ m = acct[name].max
    OBVIOUS
  <2>2. a \in Lifetimes /\ m \in Lifetimes /\ a \in Int /\ m \in 1..MaxTTLMinutes /\ minutes \in Int
    BY <1>4, <2>1, LifetimesAre, AdmissionConstants
  <2>3. CASE minutes <= 0
    BY <1>2, <2>1, <2>2, <2>3
  <2>4. CASE minutes > 0
    <3>1. ttl = IF minutes > m THEN m ELSE minutes
      BY <1>2, <2>1, <2>2, <2>4
    <3>2. minutes \in 1..MaxTTLMinutes => minutes \in Lifetimes
      BY DEF Lifetimes
    <3>3. QED BY <2>2, <2>4, <3>1, <3>2 DEF MaxTTLMinutes
  <2>5. QED BY <2>2, <2>3, <2>4
<1> HIDE DEF Asked, TTL
<1>6. FormatUsername(name, s, ttl, mode) = FormatUsername(name, s, ttl, "sticky")
  BY <1>3 DEF FormatUsername
<1>7. s \in SIDs \cup {Blank}
  BY <1>3
<1>8. PICK l : l = [account |-> name, sid |-> s, ttl |-> ttl,
                    user |-> FormatUsername(name, s, ttl, "sticky")]
  OBVIOUS
<1>9. GeneratedLine(l)
  BY <1>4, <1>5, <1>7, <1>8 DEF GeneratedLine
<1>10. line' = [line EXCEPT ![c] = l]
  BY <1>1, <1>2, <1>3, <1>6, <1>8
<1>11. LinesGenerated'
  <2>1. ASSUME NEW d \in Clients, line'[d] # NoLine
        PROVE  GeneratedLine(line'[d])
    BY <1>9, <1>10, <2>1 DEF AdmissionInv, LinesGenerated
  <2>2. QED BY <2>1 DEF LinesGenerated, GeneratedLine
<1>12. UNCHANGED <<acct, pc, got, meant>>
  BY DEF Generate
<1>13. AccountsNormal' /\ Understood' /\ DOMAIN line' = Clients
  BY <1>10, <1>12 DEF AdmissionInv, AccountsNormal, Understood
<1>14. QED BY <1>11, <1>12, <1>13 DEF AdmissionInv

LEMMA ResolveKeeps == AdmissionInv /\ (\E c \in Clients : Resolve(c)) => AdmissionInv'
<1> SUFFICES ASSUME AdmissionInv, NEW c \in Clients, Resolve(c)
             PROVE  AdmissionInv'
  OBVIOUS
<1>1. /\ pc[c] = "admitted" /\ pc' = [pc EXCEPT ![c] = "served"]
      /\ UNCHANGED <<acct, got, meant, line>>
  BY DEF Resolve
<1>2. AccountsNormal' /\ LinesGenerated'
  BY <1>1 DEF AdmissionInv, AccountsNormal, LinesGenerated
<1>3. Understood'
  BY <1>1 DEF AdmissionInv, Understood
<1>4. QED BY <1>1, <1>2, <1>3 DEF AdmissionInv

LEMMA LeaveKeeps == AdmissionInv /\ (\E c \in Clients : Leave(c)) => AdmissionInv'
<1> SUFFICES ASSUME AdmissionInv, NEW c \in Clients, Leave(c)
             PROVE  AdmissionInv'
  OBVIOUS
<1>1. /\ pc' = [pc EXCEPT ![c] = "idle"] /\ got' = [got EXCEPT ![c] = Invalid]
      /\ meant' = [meant EXCEPT ![c] = Unsaid] /\ line' = [line EXCEPT ![c] = NoLine]
      /\ UNCHANGED acct
  BY DEF Leave
<1>2. AccountsNormal'
  BY <1>1 DEF AdmissionInv, AccountsNormal
<1>3. LinesGenerated'
  BY <1>1 DEF AdmissionInv, LinesGenerated
<1>4. Understood'
  BY <1>1 DEF AdmissionInv, Understood
<1>5. QED BY <1>1, <1>2, <1>3, <1>4 DEF AdmissionInv

LEMMA ElseKeeps ==
  ASSUME AdmissionInv, UNCHANGED <<acct, client>>
  PROVE  AdmissionInv'
<1>1. UNCHANGED <<acct, pc, got, meant, line>>
  BY DEF client
<1>2. AccountsNormal' /\ LinesGenerated' /\ Understood'
  BY <1>1 DEF AdmissionInv, AccountsNormal, LinesGenerated, Understood
<1>3. QED BY <1>1, <1>2 DEF AdmissionInv

LEMMA AdmissionInvHolds == Spec => []AdmissionInv
<1>1. Init => AdmissionInv
  <2> SUFFICES ASSUME Init PROVE AdmissionInv
    OBVIOUS
  <2>1. AccountsNormal
    BY DEF Init, AccountsNormal
  <2>2. LinesGenerated /\ Understood
    BY DEF Init, LinesGenerated, Understood
  <2>3. QED BY <2>1, <2>2 DEF AdmissionInv, Init
<1>2. AdmissionInv /\ [Next]_vars => AdmissionInv'
  <2> SUFFICES ASSUME AdmissionInv, [Next]_vars
               PROVE  AdmissionInv'
    OBVIOUS
  <2>1. CASE \E s \in Specs : SetPrefixEnabled(s)
    BY <2>1, ElseKeeps DEF SetPrefixEnabled
  <2>2. CASE EndSession
    BY <2>2, ElseKeeps DEF EndSession
  <2>3. CASE UNCHANGED vars
    BY <2>3, ElseKeeps DEF vars, client
  <2>4. QED
    BY <2>1, <2>2, <2>3, AddAccountKeeps, PatchAccountKeeps, RemoveAccountKeeps, GenerateKeeps,
       ByHandKeeps, ByLineKeeps, ResolveKeeps, LeaveKeeps DEF Next
<1>3. QED BY <1>1, <1>2, PTL DEF Spec

----
(* Multiplication and division                                              *)

LEMMA TimesMonotone == \A a \in Nat, b \in Nat, m \in Nat : a <= b => a * m <= b * m
  OBVIOUS
LEMMA TimesStrict == \A a \in Nat, b \in Nat, m \in Nat \ {0} : a * m < b * m => a < b
  OBVIOUS
LEMMA TimesNat == \A a \in Nat, b \in Nat : a * b \in Nat
  OBVIOUS
LEMMA TimesPos == \A a \in Nat \ {0}, b \in Nat \ {0} : a * b \in Nat \ {0}
<1> SUFFICES ASSUME NEW a \in Nat \ {0}, NEW b \in Nat \ {0}
             PROVE  a * b \in Nat \ {0}
  OBVIOUS
<1>1. a * b \in Nat
  OBVIOUS
<1>2. a * b > 0
  OBVIOUS
<1>3. QED BY <1>1, <1>2
LEMMA TimesOne == \A a \in Nat, m \in Nat : (a + 1) * m = a * m + m
  OBVIOUS
LEMMA TimesAssociative == \A a \in Nat, b \in Nat, c \in Nat : (a * b) * c = a * (b * c) /\ a * b = b * a
  OBVIOUS
LEMMA Euclid == \A a \in Nat, m \in Nat \ {0} : /\ a \div m \in Nat /\ a % m \in 0..m - 1
                                                /\ a = (a \div m) * m + (a % m)
<1> SUFFICES ASSUME NEW a \in Nat, NEW m \in Nat \ {0}
             PROVE  a \div m \in Nat /\ a % m \in 0..m - 1 /\ a = (a \div m) * m + (a % m)
  OBVIOUS
<1>1. a % m \in 0..m - 1
  OBVIOUS
<1>2. a \div m \in Nat
  OBVIOUS
<1>3. a = m * (a \div m) + (a % m)
  OBVIOUS
<1>4. QED BY <1>1, <1>2, <1>3
LEMMA EuclidUnique == \A a \in Nat, b \in Nat, m \in Nat \ {0} : \A r \in 0..m - 1, s \in 0..m - 1 :
                   a * m + r = b * m + s => a = b /\ r = s
<1> SUFFICES ASSUME NEW a \in Nat, NEW b \in Nat, NEW m \in Nat \ {0}, NEW r \in 0..m - 1, NEW s \in 0..m - 1,
                    a * m + r = b * m + s
             PROVE a = b /\ r = s
  OBVIOUS
<1>1. a * m \in Nat /\ b * m \in Nat
  OBVIOUS
<1>2. ~ a + 1 <= b
  <2>1. a + 1 <= b => (a + 1) * m <= b * m
    BY TimesMonotone
  <2>2. (a + 1) * m = a * m + m
    OBVIOUS
  <2>3. QED BY <1>1, <2>1, <2>2
<1>3. ~ b + 1 <= a
  <2>1. b + 1 <= a => (b + 1) * m <= a * m
    BY TimesMonotone
  <2>2. (b + 1) * m = b * m + m
    OBVIOUS
  <2>3. QED BY <1>1, <2>1, <2>2
<1>4. a = b
  BY <1>2, <1>3
<1>5. QED BY <1>1, <1>4
LEMMA DivIs == \A a \in Nat, q \in Nat, m \in Nat \ {0} : q * m <= a /\ a < (q + 1) * m => a \div m = q
<1> SUFFICES ASSUME NEW a \in Nat, NEW q \in Nat, NEW m \in Nat \ {0}, q * m <= a, a < (q + 1) * m
             PROVE a \div m = q
  OBVIOUS
<1>1. PICK d, r : d = a \div m /\ r = a % m
  OBVIOUS
<1>2. d \in Nat /\ r \in 0..m - 1 /\ a = d * m + r
  BY <1>1, Euclid
<1>3. PICK s : s = a - q * m
  OBVIOUS
<1>4. q * m \in Nat /\ (q + 1) * m = q * m + m
  OBVIOUS
<1>5. s \in 0..m - 1 /\ a = q * m + s
  BY <1>3, <1>4
<1>6. QED BY <1>1, <1>2, <1>5, EuclidUnique

----
(* Powers of two                                                            *)

\* f is a table of the powers of two as far as n.
Doubles(f, n) == /\ f \in [0..n -> Nat \ {0}]
                 /\ f[0] = 1
                 /\ \A i \in 1..n : f[i] = 2 * f[i - 1]

LEMMA TablesExist == \A n \in Nat : \E f : Doubles(f, n)
<1> DEFINE S == {n \in Nat : ~ \E f : Doubles(f, n)}
<1> SUFFICES ASSUME S # {}
             PROVE  FALSE
  OBVIOUS
<1>1. PICK n \in S : \A m \in S : n <= m
  BY LeastNat
<1>2. n # 0
  <2>1. Doubles([i \in 0..0 |-> 1], 0)
    BY DEF Doubles
  <2>2. QED BY <2>1
<1>3. n \in Nat /\ n - 1 \in Nat /\ ~ n <= n - 1
  BY <1>2
<1>4. PICK f : Doubles(f, n - 1)
  BY <1>1, <1>3
<1>5. PICK g : g = [i \in 0..n |-> IF i = n THEN 2 * f[n - 1] ELSE f[i]]
  OBVIOUS
<1>6. \A i \in 0..n - 1 : g[i] = f[i] /\ f[i] \in Nat \ {0}
  BY <1>3, <1>4, <1>5 DEF Doubles
<1>7. g[n] = 2 * g[n - 1] /\ g[n] \in Nat \ {0}
  <2>1. g[n] = 2 * f[n - 1]
    BY <1>3, <1>5
  <2>2. g[n - 1] = f[n - 1] /\ f[n - 1] \in Nat \ {0}
    BY <1>3, <1>6
  <2>3. QED BY <2>1, <2>2
<1>8. \A i \in 1..n : g[i] = 2 * g[i - 1]
  <2> SUFFICES ASSUME NEW i \in 1..n PROVE g[i] = 2 * g[i - 1]
    OBVIOUS
  <2>1. CASE i = n
    BY <1>7, <2>1
  <2>2. CASE i # n
    <3>1. i \in 0..n - 1 /\ i - 1 \in 0..n - 1 /\ i \in 1..n - 1
      BY <1>3, <2>2
    <3>2. QED BY <1>4, <1>6, <3>1 DEF Doubles
  <2>3. QED BY <2>1, <2>2
<1>9. g[0] = 1 /\ g \in [0..n -> Nat \ {0}]
  <2>1. g[0] = 1
    BY <1>3, <1>4, <1>6 DEF Doubles
  <2>2. \A i \in 0..n : g[i] \in Nat \ {0}
    BY <1>3, <1>6, <1>7
  <2>3. QED BY <1>5, <2>1, <2>2
<1>10. Doubles(g, n)
  BY <1>8, <1>9 DEF Doubles
<1>11. QED BY <1>1, <1>10

LEMMA TablesAgree ==
  ASSUME NEW n \in Nat, NEW m \in Nat, NEW f, NEW g, Doubles(f, n), Doubles(g, m)
  PROVE  \A i \in Nat : i <= n /\ i <= m => f[i] = g[i]
<1> DEFINE S == {i \in Nat : i <= n /\ i <= m /\ f[i] # g[i]}
<1> SUFFICES ASSUME S # {}
             PROVE  FALSE
  OBVIOUS
<1>1. PICK i \in S : \A j \in S : i <= j
  BY LeastNat
<1>2. i # 0
  BY DEF Doubles
<1>3. i \in 1..n /\ i \in 1..m /\ i - 1 \in Nat /\ i - 1 <= n /\ i - 1 <= m /\ ~ i <= i - 1
  BY <1>2
<1>4. f[i - 1] = g[i - 1]
  BY <1>1, <1>3
<1>5. f[i] = g[i]
  BY <1>3, <1>4 DEF Doubles
<1>6. QED BY <1>5

LEMMA PowerIs == /\ Power[0] = 1
                 /\ \A n \in Nat : Power[n] \in Nat \ {0} /\ Power[n + 1] = 2 * Power[n]
<1> DEFINE Table(n) == CHOOSE f : Doubles(f, n)
           g == [n \in Nat |-> Table(n)[n]]
           F(h) == [n \in Nat |-> IF n = 0 THEN 1 ELSE 2 * h[n - 1]]
<1>1. \A n \in Nat : Doubles(Table(n), n)
  BY TablesExist
<1> HIDE DEF Table
<1>2. \A n \in Nat : g[n] \in Nat \ {0} /\ g[0] = 1
  BY <1>1 DEF Doubles
<1>3. \A n \in Nat : n # 0 => g[n] = 2 * g[n - 1]
  <2> SUFFICES ASSUME NEW n \in Nat, n # 0 PROVE g[n] = 2 * g[n - 1]
    OBVIOUS
  <2>1. n - 1 \in Nat /\ n - 1 <= n /\ n - 1 <= n - 1 /\ n \in 1..n
    OBVIOUS
  <2>2. Table(n)[n - 1] = Table(n - 1)[n - 1]
    BY <1>1, <2>1, TablesAgree
  <2>3. Table(n)[n] = 2 * Table(n)[n - 1]
    BY <1>1, <2>1 DEF Doubles
  <2>4. QED BY <2>1, <2>2, <2>3
<1>4. g = F(g)
  <2> HIDE DEF g
  <2>1. \A n \in Nat : g[n] = IF n = 0 THEN 1 ELSE 2 * g[n - 1]
    BY <1>2, <1>3
  <2>2. g = [n \in Nat |-> g[n]]
    BY DEF g
  <2>3. QED BY <2>1, <2>2
<1>5. Power = CHOOSE h : h = F(h)
  BY DEF Power
<1>6. Power = F(Power)
  <2> HIDE DEF F
  <2>1. QED BY <1>4, <1>5
<1>7. \A n \in Nat : Power[n] = IF n = 0 THEN 1 ELSE 2 * Power[n - 1]
  BY <1>6
<1>8. Power[0] = 1 /\ \A n \in Nat : Power[n + 1] = 2 * Power[n]
  <2>1. \A n \in Nat : n + 1 \in Nat /\ n + 1 # 0 /\ n + 1 - 1 = n
    OBVIOUS
  <2>2. QED BY <1>7, <2>1
<1>9. \A n \in Nat : Power[n] \in Nat \ {0}
  <2> DEFINE S == {n \in Nat : Power[n] \notin Nat \ {0}}
  <2> SUFFICES ASSUME S # {} PROVE FALSE
    OBVIOUS
  <2>1. PICK n \in S : \A m \in S : n <= m
    BY LeastNat
  <2>2. n # 0
    BY <1>8
  <2>3. n - 1 \in Nat /\ ~ n <= n - 1
    BY <2>2
  <2>4. Power[n - 1] \in Nat \ {0}
    BY <2>1, <2>3
  <2>5. Power[n] = 2 * Power[n - 1]
    BY <1>7, <2>2
  <2>6. QED BY <2>4, <2>5
<1>10. QED BY <1>8, <1>9

LEMMA PowerSum == \A a \in Nat, b \in Nat : Power[a + b] = Power[a] * Power[b]
<1> SUFFICES ASSUME NEW a \in Nat
             PROVE  \A b \in Nat : Power[a + b] = Power[a] * Power[b]
  OBVIOUS
<1> DEFINE S == {b \in Nat : Power[a + b] # Power[a] * Power[b]}
<1> SUFFICES ASSUME S # {} PROVE FALSE
  OBVIOUS
<1>1. PICK b \in S : \A c \in S : b <= c
  BY LeastNat
<1>2. b # 0
  BY PowerIs
<1>3. PICK c \in Nat : b = c + 1 /\ ~ b <= c
  <2>1. b - 1 \in Nat /\ b = (b - 1) + 1 /\ ~ b <= b - 1
    BY <1>2
  <2>2. QED BY <2>1
<1>4. Power[a + c] = Power[a] * Power[c]
  BY <1>1, <1>3
<1>5. a + c \in Nat /\ a + b = (a + c) + 1
  BY <1>3
<1>6. Power[a + b] = 2 * Power[a + c] /\ Power[b] = 2 * Power[c]
  BY <1>3, <1>5, PowerIs
<1>7. PICK p \in Nat, q \in Nat : p = Power[a] /\ q = Power[c]
  BY PowerIs
<1>8. 2 * (p * q) = p * (2 * q)
  OBVIOUS
<1>9. QED BY <1>4, <1>6, <1>7, <1>8

----
(* The value of an address                                                  *)

Base == Power[ByteBits]

LEMMA BaseIs == Base \in Nat \ {0} /\ Bytes \in Nat /\ ByteBits \in Nat /\ Byte = 0..Base - 1
BY PowerIs, ExitConstants DEF Base, Byte

\* f has the values of ip's first bytes, up to the n-th.
Totals(f, ip, n) == /\ f \in [0..n -> Nat]
                    /\ f[0] = 0
                    /\ \A i \in 1..n : f[i] = f[i - 1] * Base + ip[i]

LEMMA TotalsExist == \A ip \in Address : \E f : Totals(f, ip, Bytes)
<1> SUFFICES ASSUME NEW ip \in Address
             PROVE  \E f : Totals(f, ip, Bytes)
  OBVIOUS
<1> DEFINE S == {n \in Nat : n <= Bytes /\ ~ \E f : Totals(f, ip, n)}
<1> SUFFICES ASSUME S # {}
             PROVE  FALSE
  <2>1. Bytes \in Nat /\ Bytes <= Bytes
    BY BaseIs
  <2>2. ~ (\E f : Totals(f, ip, Bytes)) => Bytes \in S
    BY <2>1
  <2>3. QED BY <2>2
<1>1. PICK n \in S : \A m \in S : n <= m
  BY LeastNat
<1>2. n # 0
  <2>1. Totals([i \in 0..0 |-> 0], ip, 0)
    BY DEF Totals
  <2>2. QED BY <2>1
<1>3. n \in Nat /\ n - 1 \in Nat /\ ~ n <= n - 1 /\ n \in 1..Bytes /\ n - 1 <= Bytes
  BY <1>2, BaseIs
<1>4. PICK f : Totals(f, ip, n - 1)
  BY <1>1, <1>3
<1>5. ip[n] \in Nat
  BY <1>3, BaseIs DEF Address
<1>6. PICK g : g = [i \in 0..n |-> IF i = n THEN f[n - 1] * Base + ip[n] ELSE f[i]]
  OBVIOUS
<1>7. \A i \in 0..n - 1 : g[i] = f[i] /\ f[i] \in Nat
  BY <1>3, <1>4, <1>6 DEF Totals
<1>8. g[n] = g[n - 1] * Base + ip[n] /\ g[n] \in Nat
  <2>1. g[n] = f[n - 1] * Base + ip[n]
    BY <1>3, <1>6
  <2>2. g[n - 1] = f[n - 1] /\ f[n - 1] \in Nat
    BY <1>3, <1>7
  <2>3. f[n - 1] * Base \in Nat
    BY <2>2, BaseIs, TimesNat
  <2>4. QED BY <1>5, <2>1, <2>2, <2>3
<1>9. \A i \in 1..n : g[i] = g[i - 1] * Base + ip[i]
  <2> SUFFICES ASSUME NEW i \in 1..n PROVE g[i] = g[i - 1] * Base + ip[i]
    OBVIOUS
  <2>1. CASE i = n
    BY <1>8, <2>1
  <2>2. CASE i # n
    <3>1. i \in 0..n - 1 /\ i - 1 \in 0..n - 1 /\ i \in 1..n - 1
      BY <1>3, <2>2
    <3>2. QED BY <1>4, <1>7, <3>1 DEF Totals
  <2>3. QED BY <2>1, <2>2
<1>10. g[0] = 0 /\ g \in [0..n -> Nat]
  <2>1. g[0] = 0
    BY <1>3, <1>4, <1>7 DEF Totals
  <2>2. \A i \in 0..n : g[i] \in Nat
    BY <1>3, <1>7, <1>8
  <2>3. QED BY <1>6, <2>1, <2>2
<1>11. Totals(g, ip, n)
  BY <1>9, <1>10 DEF Totals
<1>12. QED BY <1>1, <1>11

LEMMA ValueIs ==
  ASSUME NEW ip \in Address
  PROVE  \E f : Totals(f, ip, Bytes) /\ Value(ip) = f[Bytes]
<1> DEFINE F(h) == [i \in 0..Bytes |-> IF i = 0 THEN 0 ELSE h[i - 1] * Power[ByteBits] + ip[i]]
           f == CHOOSE h : h = F(h)
<1>1. PICK g : Totals(g, ip, Bytes)
  BY TotalsExist
<1>2. g = F(g)
  <2>1. \A i \in 0..Bytes : g[i] = IF i = 0 THEN 0 ELSE g[i - 1] * Power[ByteBits] + ip[i]
    <3>1. \A i \in 0..Bytes : i # 0 => i \in 1..Bytes
      BY BaseIs
    <3>2. QED BY <1>1, <3>1 DEF Totals, Base
  <2>2. g = [i \in 0..Bytes |-> g[i]]
    BY <1>1 DEF Totals
  <2>3. QED BY <2>1, <2>2
<1>3. Value(ip) = f[Bytes]
  BY DEF Value
<1>4. f = F(f)
  <2> HIDE DEF F
  <2>1. QED BY <1>2
<1>5. f[0] = 0 /\ \A i \in 1..Bytes : f[i] = f[i - 1] * Base + ip[i]
  <2>1. \A i \in 0..Bytes : f[i] = IF i = 0 THEN 0 ELSE f[i - 1] * Power[ByteBits] + ip[i]
    BY <1>4
  <2>2. 0 \in 0..Bytes /\ \A i \in 1..Bytes : i \in 0..Bytes /\ i # 0
    BY BaseIs
  <2> HIDE DEF f
  <2>3. QED BY <2>1, <2>2 DEF Base
<1>6. f \in [0..Bytes -> Nat]
  <2>1. f = [i \in 0..Bytes |-> f[i]]
    BY <1>4
  <2> HIDE DEF f
  <2> DEFINE S == {i \in 0..Bytes : f[i] \notin Nat}
  <2>2. ASSUME S # {} PROVE FALSE
    <3>1. S \subseteq Nat
      BY BaseIs
    <3>2. PICK i \in S : \A j \in S : i <= j
      BY <2>2, <3>1, LeastNat
    <3>3. i # 0
      BY <1>5
    <3>4. i \in 1..Bytes /\ i - 1 \in 0..Bytes /\ ~ i <= i - 1
      BY <3>3, BaseIs
    <3>5. f[i - 1] \in Nat
      BY <3>2, <3>4
    <3>6. ip[i] \in Nat /\ f[i - 1] * Base \in Nat
      BY <3>4, <3>5, BaseIs, TimesNat DEF Address
    <3>7. f[i] \in Nat
      BY <1>5, <3>4, <3>6
    <3>8. QED BY <3>7
  <2>3. QED BY <2>1, <2>2
<1> HIDE DEF f
<1>7. QED BY <1>3, <1>5, <1>6 DEF Totals

LEMMA NextByte ==
  ASSUME NEW q \in Nat, NEW M \in Nat \ {0}, NEW B \in Nat \ {0}, NEW v \in Nat, NEW b \in 0..B - 1,
         q * M <= v, v < (q + 1) * M
  PROVE  q * (M * B) <= v * B + b /\ v * B + b < (q + 1) * (M * B)
<1>1. q * M \in Nat /\ (q + 1) * M \in Nat /\ v * B \in Nat /\ v + 1 \in Nat /\ q + 1 \in Nat
  BY TimesNat
<1>2. (q * M) * B = q * (M * B) /\ ((q + 1) * M) * B = (q + 1) * (M * B)
  BY <1>1, TimesAssociative
<1>3. (q * M) * B <= v * B
  BY <1>1, TimesMonotone
<1>4. (v + 1) * B <= ((q + 1) * M) * B
  <2>1. v + 1 <= (q + 1) * M
    BY <1>1
  <2>2. QED BY <1>1, <2>1, TimesMonotone
<1>5. (v + 1) * B = v * B + B
  BY TimesOne
<1>6. PICK lo \in Nat, hi \in Nat : lo = q * (M * B) /\ hi = (q + 1) * (M * B)
  BY <1>1, TimesNat
<1>7. PICK w \in Nat : w = v * B
  BY <1>1
<1>8. lo <= w /\ w + B <= hi
  BY <1>2, <1>3, <1>4, <1>5, <1>6, <1>7
<1>9. lo <= w + b /\ w + b < hi
  BY <1>8
<1>10. QED BY <1>6, <1>7, <1>9

LEMMA Chain ==
  ASSUME NEW ip \in Address, NEW f, Totals(f, ip, Bytes), NEW j \in 0..Bytes,
         NEW q \in Nat, NEW T \in Nat \ {0}, q * T <= f[j], f[j] < (q + 1) * T
  PROVE  f[Bytes] \div (T * Power[(Bytes - j) * ByteBits]) = q
<1> DEFINE M(i) == T * Power[(i - j) * ByteBits]
           Holds(i) == q * M(i) <= f[i] /\ f[i] < (q + 1) * M(i)
           S == {i \in j..Bytes : ~ Holds(i)}
<1>1. \A i \in j..Bytes : /\ (i - j) * ByteBits \in Nat /\ M(i) \in Nat \ {0}
                          /\ i \in Nat /\ f[i] \in Nat
  <2> SUFFICES ASSUME NEW i \in j..Bytes
               PROVE  (i - j) * ByteBits \in Nat /\ M(i) \in Nat \ {0} /\ i \in Nat /\ f[i] \in Nat
    OBVIOUS
  <2>1. i - j \in Nat /\ i \in 0..Bytes
    BY BaseIs
  <2>2. (i - j) * ByteBits \in Nat
    BY <2>1, TimesNat, BaseIs
  <2>3. Power[(i - j) * ByteBits] \in Nat \ {0}
    BY <2>2, PowerIs
  <2>4. M(i) \in Nat \ {0}
    BY <2>3, TimesPos
  <2>5. QED BY <2>1, <2>2, <2>4 DEF Totals
<1>2. Holds(j)
  <2>1. (j - j) * ByteBits = 0
    BY BaseIs
  <2>2. M(j) = T
    BY <2>1, PowerIs
  <2>3. QED BY <2>2
<1>3. \A c \in j..Bytes - 1 : M(c + 1) = M(c) * Base
  <2> SUFFICES ASSUME NEW c \in j..Bytes - 1
               PROVE  M(c + 1) = M(c) * Base
    OBVIOUS
  <2>1. c \in j..Bytes /\ c - j \in Nat /\ c + 1 - j = (c - j) + 1
    BY BaseIs
  <2>2. (c + 1 - j) * ByteBits = (c - j) * ByteBits + ByteBits
    BY <2>1, TimesOne, BaseIs
  <2>3. Power[(c + 1 - j) * ByteBits] = Power[(c - j) * ByteBits] * Base
    BY <1>1, <2>1, <2>2, PowerSum, BaseIs DEF Base
  <2>4. Power[(c - j) * ByteBits] \in Nat
    BY <1>1, <2>1, PowerIs
  <2>5. QED BY <2>3, <2>4, TimesAssociative, BaseIs
<1>4. ASSUME S # {} PROVE FALSE
  <2>1. S \subseteq Nat
    BY BaseIs
  <2>2. PICK i \in S : \A k \in S : i <= k
    <3> HIDE DEF S
    <3>1. QED BY <1>4, <2>1, LeastNat
  <2>3. i # j
    BY <1>2
  <2>4. PICK c \in j..Bytes - 1 : i = c + 1 /\ c \in j..Bytes /\ ~ i <= c /\ i \in 1..Bytes
    <3>1. i - 1 \in j..Bytes - 1 /\ i = (i - 1) + 1 /\ i - 1 \in j..Bytes /\ ~ i <= i - 1 /\ i \in 1..Bytes
      BY <2>3, BaseIs
    <3>2. QED BY <3>1
  <2>5. Holds(c)
    BY <2>2, <2>4
  <2>6. f[i] = f[c] * Base + ip[i] /\ ip[i] \in 0..Base - 1
    <3>1. i - 1 = c
      BY <2>4
    <3>2. QED BY <2>4, <3>1, BaseIs DEF Totals, Address
  <2>7. M(i) = M(c) * Base
    BY <1>3, <2>4
  <2>8. M(c) \in Nat \ {0} /\ f[c] \in Nat
    BY <1>1, <2>4
  <2> HIDE DEF M
  <2>9. q * (M(c) * Base) <= f[c] * Base + ip[i] /\ f[c] * Base + ip[i] < (q + 1) * (M(c) * Base)
    BY <2>5, <2>6, <2>8, BaseIs, NextByte
  <2>10. Holds(i)
    BY <2>6, <2>7, <2>9
  <2>11. QED BY <2>10
<1>5. Holds(Bytes) /\ Bytes \in j..Bytes
  BY <1>4, BaseIs
<1>6. M(Bytes) \in Nat \ {0} /\ f[Bytes] \in Nat
  BY <1>1, <1>5
<1>7. f[Bytes] \div M(Bytes) = q
  <2> HIDE DEF M
  <2>1. QED BY <1>5, <1>6, DivIs
<1>8. QED BY <1>7

LEMMA PrefixesAgree ==
  ASSUME NEW x \in Address, NEW y \in Address, NEW f, Totals(f, x, Bytes), NEW g, Totals(g, y, Bytes)
  PROVE  \A k \in 0..Bytes : f[k] = g[k] <=> \A i \in 1..k : x[i] = y[i]
<1> DEFINE Same(k) == \A i \in 1..k : x[i] = y[i]
           S == {k \in 0..Bytes : ~ (f[k] = g[k] <=> Same(k))}
<1> SUFFICES ASSUME S # {} PROVE FALSE
  OBVIOUS
<1>1. S \subseteq Nat
  BY BaseIs
<1>2. PICK k \in S : \A m \in S : k <= m
  <2> HIDE DEF S
  <2>1. QED BY <1>1, LeastNat
<1>3. k # 0
  BY DEF Totals
<1>4. k \in 1..Bytes /\ k - 1 \in 0..Bytes /\ ~ k <= k - 1
  BY <1>3, BaseIs
<1>5. f[k - 1] = g[k - 1] <=> Same(k - 1)
  BY <1>2, <1>4
<1>6. Same(k) <=> Same(k - 1) /\ x[k] = y[k]
  <2>1. \A i \in 1..k : i \in 1..k - 1 \/ i = k
    BY <1>4, BaseIs
  <2>2. \A i \in 1..k - 1 : i \in 1..k
    BY <1>4, BaseIs
  <2>3. k \in 1..k
    BY <1>4, BaseIs
  <2>4. QED BY <2>1, <2>2, <2>3
<1>7. f[k] = f[k - 1] * Base + x[k] /\ g[k] = g[k - 1] * Base + y[k]
  BY <1>4 DEF Totals
<1>8. f[k - 1] \in Nat /\ g[k - 1] \in Nat /\ x[k] \in 0..Base - 1 /\ y[k] \in 0..Base - 1
  BY <1>4, BaseIs DEF Totals, Address
<1>9. f[k] = g[k] <=> f[k - 1] = g[k - 1] /\ x[k] = y[k]
  <2>1. PICK a \in Nat, b \in Nat, r \in 0..Base - 1, t \in 0..Base - 1 :
             a = f[k - 1] /\ b = g[k - 1] /\ r = x[k] /\ t = y[k]
    BY <1>8
  <2>2. f[k] = a * Base + r /\ g[k] = b * Base + t
    BY <1>7, <2>1
  <2>3. a * Base + r = b * Base + t => a = b /\ r = t
    BY BaseIs, EuclidUnique
  <2>4. f[k] = g[k] => a = b /\ r = t
    BY <2>2, <2>3
  <2>5. a = b /\ r = t => f[k] = g[k]
    BY <2>2
  <2>6. QED BY <2>1, <2>4, <2>5
<1>10. f[k] = g[k] <=> Same(k)
  BY <1>5, <1>6, <1>9
<1>11. QED BY <1>10

----
(* A prefix's boundary                                                      *)

\* The prefix takes k bytes, and one byte more but for its rem lowest bits unless rem
\* is 0; start is the first byte that Random writes.
Boundary(bits, start, k, rem) ==
    /\ start = k + 1 /\ k \in 0..Bytes /\ rem \in 0..ByteBits - 1
    /\ rem = 0 => bits = k * ByteBits /\ Width - bits = (Bytes - k) * ByteBits
    /\ rem # 0 => /\ k + 1 \in 1..Bytes
                  /\ bits = (k + 1) * ByteBits - rem
                  /\ Width - bits = (Bytes - (k + 1)) * ByteBits + rem

LEMMA BoundaryIs ==
  ASSUME NEW bits \in 0..Width
  PROVE  LET start == 1 + Bytes - ((Width - bits) + ByteBits - 1) \div ByteBits
         IN  Boundary(bits, start, start - 1, (Width - bits) % ByteBits)
<1>1. PICK h : h = Width - bits
  OBVIOUS
<1>2. Width \in Nat /\ h \in Nat /\ bits = Width - h /\ h <= Width /\ Width = Bytes * ByteBits
  BY <1>1, ExitConstants, TimesNat DEF Width
<1>3. PICK d, rem : d = h \div ByteBits /\ rem = h % ByteBits
  OBVIOUS
<1>4. d \in Nat /\ rem \in 0..ByteBits - 1 /\ h = d * ByteBits + rem
  BY <1>2, <1>3, Euclid, ExitConstants
<1>5. d * ByteBits \in Nat /\ (d + 1) * ByteBits = d * ByteBits + ByteBits
  BY <1>4, ExitConstants
<1>6. \A e \in Nat : e <= Bytes => (Bytes - e) * ByteBits = Width - e * ByteBits
  BY <1>2, ExitConstants
<1>7. CASE rem = 0
  <2>1. (h + ByteBits - 1) \div ByteBits = d
    <3>1. h + ByteBits - 1 \in Nat /\ d * ByteBits <= h + ByteBits - 1
          /\ h + ByteBits - 1 < (d + 1) * ByteBits
      BY <1>4, <1>5, <1>7, ExitConstants
    <3>2. QED BY <1>4, <3>1, DivIs, ExitConstants
  <2>2. d <= Bytes
    <3>1. ~ Bytes + 1 <= d
      <4>1. Bytes + 1 <= d => (Bytes + 1) * ByteBits <= d * ByteBits
        BY <1>4, TimesMonotone, ExitConstants
      <4>2. (Bytes + 1) * ByteBits = Bytes * ByteBits + ByteBits
        BY ExitConstants, TimesOne
      <4>3. QED BY <1>2, <1>4, <1>5, <1>7, <4>1, <4>2, ExitConstants
    <3>2. QED BY <1>4, <3>1, ExitConstants
  <2>3. PICK k : k = Bytes - d
    OBVIOUS
  <2>4. k \in 0..Bytes /\ d = Bytes - k /\ 1 + Bytes - d = k + 1 /\ (k + 1) - 1 = k
    BY <1>4, <2>2, <2>3, ExitConstants
  <2>5. h = (Bytes - k) * ByteBits /\ bits = k * ByteBits
    <3>1. h = d * ByteBits
      BY <1>4, <1>5, <1>7
    <3>2. (Bytes - d) * ByteBits = Width - d * ByteBits
      BY <1>4, <1>6, <2>2
    <3>3. QED BY <1>2, <1>5, <2>3, <2>4, <3>1, <3>2
  <2>6. Boundary(bits, k + 1, k, rem)
    BY <1>1, <1>4, <1>7, <2>4, <2>5 DEF Boundary
  <2>7. QED BY <1>1, <1>3, <2>1, <2>4, <2>6
<1>8. CASE rem # 0
  <2>1. (h + ByteBits - 1) \div ByteBits = d + 1
    <3>1. (d + 1 + 1) * ByteBits = (d + 1) * ByteBits + ByteBits
      BY <1>4, ExitConstants
    <3>2. h + ByteBits - 1 \in Nat /\ (d + 1) * ByteBits <= h + ByteBits - 1
          /\ h + ByteBits - 1 < (d + 1 + 1) * ByteBits
      BY <1>4, <1>5, <1>8, <3>1, ExitConstants
    <3>3. d + 1 \in Nat
      BY <1>4
    <3>4. QED BY <3>2, <3>3, DivIs, ExitConstants
  <2>2. d + 1 <= Bytes
    <3>1. ~ Bytes <= d
      <4>1. Bytes <= d => Bytes * ByteBits <= d * ByteBits
        BY <1>4, TimesMonotone, ExitConstants
      <4>2. QED BY <1>2, <1>4, <1>5, <1>8, <4>1
    <3>2. QED BY <1>4, <3>1, ExitConstants
  <2>3. PICK k : k = Bytes - (d + 1)
    OBVIOUS
  <2>4. /\ k \in 0..Bytes /\ k + 1 \in 1..Bytes /\ d = Bytes - (k + 1) /\ 1 + Bytes - (d + 1) = k + 1
        /\ (k + 1) - 1 = k
    BY <1>4, <2>2, <2>3, ExitConstants
  <2>5. h = (Bytes - (k + 1)) * ByteBits + rem /\ bits = (k + 1) * ByteBits - rem
    <3>1. h = d * ByteBits + rem
      BY <1>4
    <3>2. (Bytes - d) * ByteBits = Width - d * ByteBits
      BY <1>4, <1>6, <2>2, ExitConstants
    <3>3. Bytes - d = k + 1
      BY <1>4, <2>3, ExitConstants
    <3>4. QED BY <1>2, <1>4, <1>5, <2>4, <3>1, <3>2, <3>3
  <2>6. Boundary(bits, k + 1, k, rem)
    BY <1>1, <1>4, <1>8, <2>4, <2>5 DEF Boundary
  <2>7. QED BY <1>1, <1>3, <2>1, <2>4, <2>6
<1>9. QED BY <1>7, <1>8

\* What addresses of one prefix have in common.
Agree(x, y, k, rem) ==
    /\ \A i \in 1..k : x[i] = y[i]
    /\ rem # 0 => x[k + 1] \div Power[rem] = y[k + 1] \div Power[rem]

\* A byte is its bits above the rem lowest, and these.
LEMMA ByteSplits ==
  ASSUME NEW rem \in 0..ByteBits - 1, NEW b \in Byte
  PROVE  /\ Power[rem] \in Nat \ {0} /\ Power[ByteBits - rem] \in Nat \ {0}
         /\ Base = Power[ByteBits - rem] * Power[rem]
         /\ b \div Power[rem] \in 0..Power[ByteBits - rem] - 1 /\ b % Power[rem] \in 0..Power[rem] - 1
         /\ b = (b \div Power[rem]) * Power[rem] + (b % Power[rem])
<1>1. rem \in Nat /\ ByteBits - rem \in Nat /\ (ByteBits - rem) + rem = ByteBits
  BY ExitConstants
<1>2. PICK T \in Nat \ {0}, R \in Nat \ {0} : T = Power[rem] /\ R = Power[ByteBits - rem]
  BY <1>1, PowerIs
<1>3. Base = R * T
  BY <1>1, <1>2, PowerSum DEF Base
<1>4. b \in Nat /\ b < Base
  BY BaseIs
<1>5. PICK c, r : c = b \div T /\ r = b % T
  OBVIOUS
<1>6. c \in Nat /\ r \in 0..T - 1 /\ b = c * T + r
  BY <1>4, <1>5, Euclid
<1>7. c * T \in Nat /\ R * T \in Nat
  BY <1>6, TimesNat
<1>8. c * T < R * T
  BY <1>3, <1>4, <1>6, <1>7
<1>9. c < R
  BY <1>6, <1>8, TimesStrict
<1>10. c \in 0..R - 1
  BY <1>6, <1>9
<1>11. QED BY <1>2, <1>3, <1>5, <1>6, <1>10

\* The same, of a byte's high part and its low part.
LEMMA ByteParts ==
  ASSUME NEW rem \in 0..ByteBits - 1,
         NEW T, NEW R, T = Power[rem], R = Power[ByteBits - rem]
  PROVE  \A b \in Byte : \E c \in 0..R - 1, r \in 0..T - 1 : c = b \div T /\ b = c * T + r
<1> SUFFICES ASSUME NEW b \in Byte
             PROVE  \E c \in 0..R - 1, r \in 0..T - 1 : c = b \div T /\ b = c * T + r
  OBVIOUS
<1>1. /\ b \div T \in 0..R - 1 /\ b % T \in 0..T - 1
      /\ b = (b \div T) * T + (b % T)
  BY ByteSplits
<1>2. PICK c, r : c = b \div T /\ r = b % T
  OBVIOUS
<1>3. c \in 0..R - 1 /\ r \in 0..T - 1 /\ b = c * T + r
  BY <1>1, <1>2
<1>4. QED BY <1>2, <1>3

LEMMA WithinIsAgree ==
  ASSUME NEW bits \in 0..Width, NEW start, NEW k, NEW rem, Boundary(bits, start, k, rem),
         NEW x \in Address, NEW y \in Address
  PROVE  Within(x, y, bits) <=> Agree(x, y, k, rem)
<1>1. PICK f, g : /\ Totals(f, x, Bytes) /\ Value(x) = f[Bytes]
                  /\ Totals(g, y, Bytes) /\ Value(y) = g[Bytes]
  BY ValueIs
<1>2. k \in 0..Bytes /\ k \in Nat /\ rem \in 0..ByteBits - 1 /\ rem \in Nat /\ Bytes \in Nat
  BY ExitConstants DEF Boundary
<1>3. f[k] = g[k] <=> \A i \in 1..k : x[i] = y[i]
  BY <1>1, <1>2, PrefixesAgree
<1>4. f[k] \in Nat /\ g[k] \in Nat
  BY <1>1, <1>2 DEF Totals
<1>5. CASE rem = 0
  <2>1. Width - bits = (Bytes - k) * ByteBits
    BY <1>5 DEF Boundary
  <2>2. (Bytes - k) * ByteBits \in Nat
    BY <1>2, BaseIs, TimesNat
  <2>3. PICK P \in Nat \ {0} : P = Power[Width - bits] /\ P = Power[(Bytes - k) * ByteBits]
    BY <2>1, <2>2, PowerIs
  <2>4. \A v \in Nat : v * 1 <= v /\ v < (v + 1) * 1
    OBVIOUS
  <2>5. 1 * P = P
    OBVIOUS
  <2>6. ASSUME NEW z \in Address, NEW h, Totals(h, z, Bytes)
        PROVE  h[Bytes] \div (1 * Power[(Bytes - k) * ByteBits]) = h[k]
    <3>1. h[k] \in Nat
      BY <1>2, <2>6 DEF Totals
    <3>2. h[k] * 1 <= h[k] /\ h[k] < (h[k] + 1) * 1 /\ 1 \in Nat \ {0}
      BY <2>4, <3>1
    <3>3. QED BY <1>2, <2>6, <3>1, <3>2, Chain
  <2>7. /\ f[Bytes] \div (1 * Power[(Bytes - k) * ByteBits]) = f[k]
        /\ g[Bytes] \div (1 * Power[(Bytes - k) * ByteBits]) = g[k]
    BY <1>1, <2>6
  <2>8. Within(x, y, bits) <=> f[k] = g[k]
    BY <1>1, <2>3, <2>5, <2>7 DEF Within
  <2>9. QED BY <1>3, <1>5, <2>8 DEF Agree
<1>6. CASE rem # 0
  <2>1. k + 1 \in 1..Bytes /\ k + 1 \in 0..Bytes /\ Width - bits = (Bytes - (k + 1)) * ByteBits + rem
    BY <1>6 DEF Boundary
  <2>2. (Bytes - (k + 1)) * ByteBits \in Nat
    BY <1>2, <2>1, BaseIs, TimesNat
  <2>3. PICK T \in Nat \ {0}, R \in Nat \ {0} : T = Power[rem] /\ R = Power[ByteBits - rem]
    <3>1. rem \in Nat /\ ByteBits - rem \in Nat
      BY <1>2, BaseIs
    <3>2. QED BY <3>1, PowerIs
  <2>4. PICK Q \in Nat \ {0} : Q = Power[(Bytes - (k + 1)) * ByteBits]
    BY <2>2, PowerIs
  <2>5. Power[Width - bits] = T * Q
    <3>1. Power[Width - bits] = Q * T
      BY <1>2, <2>1, <2>2, <2>3, <2>4, PowerSum
    <3>2. QED BY <3>1, TimesAssociative
  <2>6. x[k + 1] \in Byte /\ y[k + 1] \in Byte
    BY <2>1 DEF Address
  <2>7. \A b \in Byte : \E c \in 0..R - 1, r \in 0..T - 1 : c = b \div T /\ b = c * T + r
    BY <1>2, <2>3, ByteParts
  <2>8. PICK c \in 0..R - 1, r \in 0..T - 1, d \in 0..R - 1, t \in 0..T - 1 :
            /\ c = x[k + 1] \div T /\ x[k + 1] = c * T + r
            /\ d = y[k + 1] \div T /\ y[k + 1] = d * T + t
    <3>1. \E c \in 0..R - 1, r \in 0..T - 1 : c = x[k + 1] \div T /\ x[k + 1] = c * T + r
      BY <2>6, <2>7, Zenon
    <3>2. \E d \in 0..R - 1, t \in 0..T - 1 : d = y[k + 1] \div T /\ y[k + 1] = d * T + t
      BY <2>6, <2>7, Zenon
    <3>3. QED BY <3>1, <3>2, Zenon
  <2>9. Base = R * T
    BY <1>2, <2>3, <2>6, ByteSplits
  <2>10. \A v \in Nat, e \in 0..R - 1 : \A u \in 0..T - 1 :
            /\ v * R + e \in Nat
            /\ (v * R + e) * T <= v * (R * T) + (e * T + u)
            /\ v * (R * T) + (e * T + u) < (v * R + e + 1) * T
    <3> SUFFICES ASSUME NEW v \in Nat, NEW e \in 0..R - 1, NEW u \in 0..T - 1
                 PROVE  /\ v * R + e \in Nat
                        /\ (v * R + e) * T <= v * (R * T) + (e * T + u)
                        /\ v * (R * T) + (e * T + u) < (v * R + e + 1) * T
      OBVIOUS
    <3>1. v * R \in Nat /\ e \in Nat /\ e * T \in Nat /\ v * (R * T) \in Nat
      BY TimesNat
    <3>2. (v * R) * T = v * (R * T)
      BY TimesAssociative
    <3>3. (v * R + e) * T = (v * R) * T + e * T
      BY <3>1
    <3>4. (v * R + e + 1) * T = (v * R + e) * T + T
      BY <3>1, TimesOne
    <3>5. QED BY <3>1, <3>2, <3>3, <3>4
  <2>11. f[k + 1] = f[k] * (R * T) + (c * T + r) /\ g[k + 1] = g[k] * (R * T) + (d * T + t)
    <3>1. k + 1 - 1 = k
      BY <1>2
    <3>2. f[k + 1] = f[k] * Base + x[k + 1] /\ g[k + 1] = g[k] * Base + y[k + 1]
      <4>1. \A i \in 1..Bytes : f[i] = f[i - 1] * Base + x[i] /\ g[i] = g[i - 1] * Base + y[i]
        BY <1>1 DEF Totals
      <4>2. PICK n \in 1..Bytes : n = k + 1 /\ n - 1 = k
        BY <1>2, <2>1
      <4>3. f[n] = f[n - 1] * Base + x[n] /\ g[n] = g[n - 1] * Base + y[n]
        BY <4>1
      <4>4. QED BY <4>2, <4>3
    <3>3. QED BY <2>7, <2>8, <2>9, <3>2
  <2>12. PICK p \in Nat : p = f[k] * R + c /\ p * T <= f[k + 1] /\ f[k + 1] < (p + 1) * T
    BY <1>4, <2>10, <2>11
  <2>13. PICK s \in Nat : s = g[k] * R + d /\ s * T <= g[k + 1] /\ g[k + 1] < (s + 1) * T
    BY <1>4, <2>10, <2>11
  <2>14. f[Bytes] \div (T * Power[(Bytes - (k + 1)) * ByteBits]) = p
    BY <1>1, <2>1, <2>12, Chain
  <2>15. g[Bytes] \div (T * Power[(Bytes - (k + 1)) * ByteBits]) = s
    BY <1>1, <2>1, <2>13, Chain
  <2>16. Within(x, y, bits) <=> p = s
    BY <1>1, <2>4, <2>5, <2>14, <2>15 DEF Within
  <2>17. p = s <=> f[k] = g[k] /\ c = d
    <3>1. PICK v \in Nat, w \in Nat : v = f[k] /\ w = g[k]
      BY <1>4
    <3>2. v * R + c = w * R + d => v = w /\ c = d
      BY EuclidUnique
    <3>3. QED BY <2>12, <2>13, <3>1, <3>2
  <2>18. QED BY <1>3, <1>6, <2>3, <2>7, <2>8, <2>16, <2>17 DEF Agree
<1>7. QED BY <1>5, <1>6

\* Clear leaves the bits above the n lowest, in place.
LEMMA ClearIs ==
  ASSUME NEW rem \in 0..ByteBits - 1, NEW b \in Byte
  PROVE  /\ Clear(b, rem) = (b \div Power[rem]) * Power[rem]
         /\ Clear(b, rem) \in Byte
         /\ Clear(b, rem) \div Power[rem] = b \div Power[rem]
         /\ \A s \in Nat : LET w == Clear(Clear(b, rem), rem) + (s % Power[rem])
                          IN  w \in Byte /\ w \div Power[rem] = b \div Power[rem]
<1>1. PICK T \in Nat \ {0}, R \in Nat \ {0} : T = Power[rem] /\ R = Power[ByteBits - rem] /\ Base = R * T
  BY ByteSplits
<1>2. PICK c \in 0..R - 1, r \in 0..T - 1 : c = b \div T /\ r = b % T /\ b = c * T + r
  BY <1>1, ByteSplits
<1>3. c * T \in Nat /\ R * T \in Nat /\ (c + 1) * T = c * T + T
  BY TimesNat, TimesOne
<1>4. c * T + T <= R * T
  <2>1. c + 1 \in Nat /\ c + 1 <= R
    OBVIOUS
  <2>2. (c + 1) * T <= R * T
    BY <2>1, TimesMonotone
  <2>3. QED BY <1>3, <2>2
<1>5. \A u \in 0..T - 1 : c * T + u \in Byte /\ (c * T + u) \div T = c
  <2> SUFFICES ASSUME NEW u \in 0..T - 1
               PROVE  c * T + u \in Byte /\ (c * T + u) \div T = c
    OBVIOUS
  <2>1. c * T + u \in Nat /\ c * T <= c * T + u /\ c * T + u < (c + 1) * T
    BY <1>3
  <2>2. c * T + u < Base
    BY <1>1, <1>3, <1>4
  <2>3. c * T + u \in Byte
    BY <2>1, <2>2, BaseIs
  <2>4. QED BY <2>1, <2>3, DivIs
<1>6. Clear(b, rem) = c * T
  BY <1>1, <1>2, <1>3 DEF Clear
<1>7. c * T + 0 = c * T /\ 0 \in 0..T - 1
  BY <1>3
<1>8. c * T \in Byte /\ (c * T) \div T = c
  BY <1>5, <1>7
<1>9. Clear(c * T, rem) = c * T
  <2>1. PICK d \in 0..R - 1, t \in 0..T - 1 : d = (c * T) \div T /\ t = (c * T) % T /\ c * T = d * T + t
    BY <1>1, <1>8, ByteSplits
  <2>2. d = c
    BY <1>8, <2>1
  <2>3. t = 0
    BY <1>3, <2>1, <2>2
  <2>4. Clear(c * T, rem) = c * T - t
    BY <1>1, <2>1 DEF Clear
  <2>5. QED BY <1>3, <2>3, <2>4
<1>10. ASSUME NEW s \in Nat
      PROVE  LET w == Clear(Clear(b, rem), rem) + (s % Power[rem])
             IN  w \in Byte /\ w \div Power[rem] = b \div Power[rem]
  <2>1. PICK u \in 0..T - 1 : u = s % T
    BY Euclid
  <2>2. Clear(Clear(b, rem), rem) = c * T /\ s % Power[rem] = u
    BY <1>1, <1>6, <1>9, <2>1
  <2>3. c * T + u \in Byte /\ (c * T + u) \div Power[rem] = b \div Power[rem]
    BY <1>1, <1>2, <1>5
  <2>4. QED BY <2>2, <2>3
<1>11. QED BY <1>1, <1>2, <1>6, <1>8, <1>10

\* What MaskPrefix leaves of ip.
Masked(ip, bits, mask, k, rem) ==
    /\ mask \in Address
    /\ \A i \in 1..k : mask[i] = ip[i]
    /\ rem # 0 => k + 1 \in 1..Bytes /\ mask[k + 1] = Clear(ip[k + 1], rem)

LEMMA MaskIs ==
  ASSUME NEW bits \in 0..Width, NEW start, NEW k, NEW rem, Boundary(bits, start, k, rem), NEW ip \in Address
  PROVE  Masked(ip, bits, MaskPrefix(ip, bits), k, rem)
<1> DEFINE mask == MaskPrefix(ip, bits)
<1>1. /\ start = k + 1 /\ k \in 0..Bytes /\ rem \in 0..ByteBits - 1 /\ Bytes \in Nat /\ ByteBits \in Nat \ {0}
      /\ Bytes # 0
  BY ExitConstants DEF Boundary
<1>2. \A i \in 1..Bytes : ip[i] \in Byte
  BY DEF Address
<1>3. \A i \in 1..Bytes : mask[i] = IF bits >= i * ByteBits THEN ip[i]
                                    ELSE IF bits <= (i - 1) * ByteBits THEN 0
                                    ELSE Clear(ip[i], i * ByteBits - bits)
  <2> SUFFICES ASSUME NEW i \in 1..Bytes
               PROVE  mask[i] = IF bits >= i * ByteBits THEN ip[i]
                                ELSE IF bits <= (i - 1) * ByteBits THEN 0
                                ELSE Clear(ip[i], i * ByteBits - bits)
    OBVIOUS
  <2>1. mask[i] = CASE bits >= i * ByteBits -> ip[i]
                    [] bits <= (i - 1) * ByteBits -> 0
                    [] OTHER -> Clear(ip[i], i * ByteBits - bits)
    BY DEF MaskPrefix
  <2>2. i * ByteBits \in Nat /\ (i - 1) * ByteBits \in Nat /\ i * ByteBits = (i - 1) * ByteBits + ByteBits
    <3>1. i - 1 \in Nat /\ i = (i - 1) + 1
      BY <1>1
    <3>2. QED BY <1>1, <3>1, TimesNat, TimesOne
  <2>3. bits \in Nat
    BY ExitConstants, TimesNat DEF Width
  <2>4. ~ (bits >= i * ByteBits /\ bits <= (i - 1) * ByteBits)
    BY <1>1, <2>2, <2>3
  <2>5. QED BY <2>1, <2>4
<1> HIDE DEF mask
<1>4. \A i \in 1..k : mask[i] = ip[i]
  <2> SUFFICES ASSUME NEW i \in 1..k
               PROVE  mask[i] = ip[i]
    OBVIOUS
  <2>1. i \in 1..Bytes /\ i \in Nat /\ k \in Nat /\ i <= k
    BY <1>1
  <2>2. i * ByteBits <= k * ByteBits
    BY <1>1, <2>1, TimesMonotone
  <2>3. i * ByteBits \in Nat /\ k * ByteBits \in Nat /\ (k + 1) * ByteBits = k * ByteBits + ByteBits
    BY <1>1, <2>1, TimesNat, TimesOne
  <2>4. bits >= k * ByteBits
    BY <1>1, <2>3 DEF Boundary
  <2>5. bits >= i * ByteBits
    BY <2>2, <2>3, <2>4, ExitConstants, TimesNat DEF Width
  <2>6. QED BY <1>3, <2>1, <2>5
<1>5. rem # 0 => k + 1 \in 1..Bytes /\ mask[k + 1] = Clear(ip[k + 1], rem)
  <2> SUFFICES ASSUME rem # 0
               PROVE  k + 1 \in 1..Bytes /\ mask[k + 1] = Clear(ip[k + 1], rem)
    OBVIOUS
  <2>1. k + 1 \in 1..Bytes /\ bits = (k + 1) * ByteBits - rem
    BY DEF Boundary
  <2>2. k \in Nat /\ k * ByteBits \in Nat /\ (k + 1) * ByteBits = k * ByteBits + ByteBits /\ (k + 1) - 1 = k
    BY <1>1, TimesNat, TimesOne
  <2>3. ~ bits >= (k + 1) * ByteBits /\ ~ bits <= k * ByteBits /\ (k + 1) * ByteBits - bits = rem
    BY <1>1, <2>1, <2>2
  <2>4. PICK n \in 1..Bytes : n = k + 1 /\ n - 1 = k
    BY <2>1, <2>2
  <2>5. ~ bits >= n * ByteBits /\ ~ bits <= (n - 1) * ByteBits /\ n * ByteBits - bits = rem
    BY <2>3, <2>4
  <2>6. mask[n] = Clear(ip[n], rem)
    BY <1>3, <2>5
  <2>7. QED BY <2>1, <2>4, <2>6
<1>6. mask \in Address
  <2>1. ASSUME NEW i \in 1..Bytes
        PROVE  mask[i] \in Byte
    <3>1. 0 \in Byte
      BY BaseIs
    <3>2. CASE bits >= i * ByteBits \/ bits <= (i - 1) * ByteBits
      BY <1>2, <1>3, <3>1, <3>2
    <3>3. CASE ~ bits >= i * ByteBits /\ ~ bits <= (i - 1) * ByteBits
      <4>1. i - 1 \in Nat /\ i = (i - 1) + 1 /\ bits \in Nat
        BY <1>1, ExitConstants, TimesNat DEF Width
      <4>2. i * ByteBits = (i - 1) * ByteBits + ByteBits /\ (i - 1) * ByteBits \in Nat
        BY <1>1, <4>1, TimesNat, TimesOne
      <4>3. i * ByteBits - bits \in 0..ByteBits - 1
        BY <1>1, <3>3, <4>1, <4>2
      <4>4. Clear(ip[i], i * ByteBits - bits) \in Byte
        BY <1>2, <4>3, ClearIs
      <4>5. QED BY <1>3, <3>3, <4>4
    <3>4. QED BY <3>2, <3>3
  <2>2. mask = [i \in 1..Bytes |-> mask[i]]
    BY DEF mask, MaskPrefix
  <2>3. QED BY <2>1, <2>2 DEF Address
<1>7. QED BY <1>4, <1>5, <1>6 DEF Masked, mask

LEMMA RandomIsAgree ==
  ASSUME NEW bits \in 0..Width, NEW start, NEW k, NEW rem, Boundary(bits, start, k, rem),
         start = 1 + Bytes - ((Width - bits) + ByteBits - 1) \div ByteBits,
         rem = (Width - bits) % ByteBits, NEW ip \in Address
  PROVE  Random(MaskPrefix(ip, bits), bits) = {x \in Address : Agree(x, ip, k, rem)}
<1> DEFINE mask == MaskPrefix(ip, bits)
           Host(r) == [i \in 1..Bytes |->
                          IF i < start THEN mask[i]
                          ELSE IF i = start /\ rem # 0 THEN Clear(mask[i], rem) + (r[i] % Power[rem])
                          ELSE r[i]]
<1>1. /\ start = k + 1 /\ k \in 0..Bytes /\ rem \in 0..ByteBits - 1 /\ Bytes \in Nat /\ ByteBits \in Nat \ {0}
      /\ Bytes # 0
  BY ExitConstants DEF Boundary
<1>2. \A i \in 1..Bytes : ip[i] \in Byte
  BY DEF Address
<1>3. Masked(ip, bits, mask, k, rem)
  BY MaskIs
<1> HIDE DEF mask
<1>4. \A i \in 1..k : mask[i] = ip[i]
  BY <1>3 DEF Masked
<1>5. rem # 0 => k + 1 \in 1..Bytes /\ mask[k + 1] = Clear(ip[k + 1], rem)
  BY <1>3 DEF Masked
<1>6. CASE bits # Width
  <2>1. Random(mask, bits) = {Host(r) : r \in [start..Bytes -> Byte]}
    BY <1>6 DEF Random
  <2>2. ASSUME NEW r \in [start..Bytes -> Byte]
        PROVE  Host(r) \in Address /\ Agree(Host(r), ip, k, rem)
    <3>1. PICK x : x = Host(r)
      OBVIOUS
    <3>2. \A i \in 1..k : x[i] = ip[i]
      BY <1>1, <1>4, <3>1
    <3>3. rem # 0 => x[k + 1] \in Byte /\ x[k + 1] \div Power[rem] = ip[k + 1] \div Power[rem]
      <4> SUFFICES ASSUME rem # 0
                   PROVE  x[k + 1] \in Byte /\ x[k + 1] \div Power[rem] = ip[k + 1] \div Power[rem]
        OBVIOUS
      <4>1. PICK n \in 1..Bytes : n = k + 1 /\ n = start /\ n \in start..Bytes /\ ~ n < start
        BY <1>1, <1>5
      <4>2. x[n] = Clear(mask[n], rem) + (r[n] % Power[rem])
        BY <3>1, <4>1
      <4>3. mask[n] = Clear(ip[n], rem)
        BY <1>5, <4>1
      <4>4. r[n] \in Nat
        BY <4>1, BaseIs
      <4>5. QED BY <1>1, <1>2, <4>1, <4>2, <4>3, <4>4, ClearIs
    <3>4. \A i \in start..Bytes : ~ (i = start /\ rem # 0) => x[i] = r[i] /\ x[i] \in Byte
      BY <1>1, <3>1
    <3>5. \A i \in 1..Bytes : x[i] \in Byte
      <4> SUFFICES ASSUME NEW i \in 1..Bytes PROVE x[i] \in Byte
        OBVIOUS
      <4>1. CASE i <= k
        BY <1>1, <1>2, <3>2, <4>1
      <4>2. CASE ~ i <= k
        <5>1. i \in start..Bytes
          BY <1>1, <4>2
        <5>2. QED BY <1>1, <3>3, <3>4, <5>1
      <4>3. QED BY <4>1, <4>2
    <3>6. x \in Address
      BY <3>1, <3>5 DEF Address
    <3>7. QED BY <3>1, <3>2, <3>3, <3>6 DEF Agree
  <2>3. ASSUME NEW x \in Address, Agree(x, ip, k, rem)
        PROVE  \E r \in [start..Bytes -> Byte] : x = Host(r)
    <3>1. PICK r : r = [i \in start..Bytes |-> x[i]]
      OBVIOUS
    <3>2. \A i \in start..Bytes : i \in 1..Bytes /\ r[i] = x[i] /\ r[i] \in Byte
      BY <1>1, <3>1 DEF Address
    <3>3. r \in [start..Bytes -> Byte]
      BY <3>1, <3>2
    <3>4. PICK y : y = Host(r)
      OBVIOUS
    <3>5. ASSUME NEW i \in 1..Bytes
          PROVE  y[i] = x[i]
      <4>1. CASE i < start
        <5>1. i \in 1..k
          BY <1>1, <4>1
        <5>2. y[i] = mask[i]
          BY <3>4, <4>1
        <5>3. QED BY <1>4, <2>3, <5>1, <5>2 DEF Agree
      <4>2. CASE i = start /\ rem # 0
        <5>1. i = k + 1 /\ i \in start..Bytes /\ ~ i < start
          BY <1>1, <4>2
        <5>2. y[i] = Clear(mask[i], rem) + (r[i] % Power[rem])
          BY <3>4, <4>2, <5>1
        <5>3. mask[i] = Clear(ip[i], rem) /\ r[i] = x[i]
          BY <1>5, <3>2, <4>2, <5>1
        <5>4. x[i] \in Byte /\ ip[i] \in Byte
          BY <1>2 DEF Address
        <5>5. x[i] \div Power[rem] = ip[i] \div Power[rem]
          BY <2>3, <4>2, <5>1 DEF Agree
        <5>6. x[i] = (x[i] \div Power[rem]) * Power[rem] + (x[i] % Power[rem])
          BY <1>1, <5>4, ByteSplits
        <5>7. Clear(Clear(ip[i], rem), rem) = (ip[i] \div Power[rem]) * Power[rem]
          <6>1. Clear(ip[i], rem) \in Byte /\ Clear(ip[i], rem) \div Power[rem] = ip[i] \div Power[rem]
            BY <1>1, <5>4, ClearIs
          <6>2. Clear(Clear(ip[i], rem), rem) = (Clear(ip[i], rem) \div Power[rem]) * Power[rem]
            BY <1>1, <6>1, ClearIs
          <6>3. QED BY <6>1, <6>2
        <5>8. QED BY <5>2, <5>3, <5>5, <5>6, <5>7
      <4>3. CASE ~ i < start /\ ~ (i = start /\ rem # 0)
        <5>1. i \in start..Bytes
          BY <1>1, <4>3
        <5>2. y[i] = r[i]
          BY <3>4, <4>3
        <5>3. QED BY <3>2, <5>1, <5>2
      <4>4. QED BY <4>1, <4>2, <4>3
    <3>6. y = x
      BY <3>4, <3>5 DEF Address
    <3>7. QED BY <3>3, <3>4, <3>6
  <2> HIDE DEF Host
  <2>4. QED BY <2>1, <2>2, <2>3 DEF mask
<1>7. CASE bits = Width
  <2>1. Width - bits = 0
    BY <1>7, ExitConstants, TimesNat DEF Width
  <2>2. rem = 0 /\ k = Bytes
    <3>1. 0 % ByteBits = 0 /\ (0 + ByteBits - 1) \div ByteBits = 0
      <4>1. 0 \in 0..ByteBits - 1 /\ ByteBits - 1 \in Nat /\ 0 * ByteBits = 0 /\ (0 + 1) * ByteBits = ByteBits
        BY <1>1
      <4>2. (ByteBits - 1) \div ByteBits = 0
        BY <1>1, <4>1, DivIs
      <4>3. 0 % ByteBits = 0
        <5>1. 0 \div ByteBits \in Nat /\ 0 % ByteBits \in 0..ByteBits - 1
              /\ 0 = (0 \div ByteBits) * ByteBits + (0 % ByteBits)
          BY <1>1, Euclid
        <5>2. (0 \div ByteBits) * ByteBits \in Nat
          BY <1>1, <5>1, TimesNat
        <5>3. QED BY <5>1, <5>2
      <4>4. 0 + ByteBits - 1 = ByteBits - 1
        BY <1>1
      <4>5. QED BY <4>2, <4>3, <4>4
    <3>2. QED BY <1>1, <2>1, <3>1
  <2>3. Random(mask, bits) = {mask}
    BY <1>7 DEF Random
  <2>4. mask = ip
    <3>1. \A i \in 1..Bytes : mask[i] = ip[i]
      BY <1>4, <2>2
    <3>2. mask = [i \in 1..Bytes |-> mask[i]]
      BY <1>3 DEF Masked, Address
    <3>3. QED BY <3>1, <3>2 DEF Address
  <2>5. \A x \in Address : Agree(x, ip, k, rem) <=> x = ip
    <3>1. \A x \in Address : Agree(x, ip, k, rem) <=> \A i \in 1..Bytes : x[i] = ip[i]
      BY <2>2 DEF Agree
    <3>2. ASSUME NEW x \in Address, \A i \in 1..Bytes : x[i] = ip[i]
          PROVE  x = ip
      <4>1. x = [i \in 1..Bytes |-> x[i]] /\ ip = [i \in 1..Bytes |-> ip[i]]
        BY DEF Address
      <4>2. QED BY <3>2, <4>1
    <3>3. QED BY <3>1, <3>2
  <2>6. QED BY <2>3, <2>4, <2>5 DEF mask
<1>8. QED BY <1>6, <1>7

\* An address of a prefix is one that agrees with it but for the host bits.
LEMMA RandomIsWithin ==
  ASSUME NEW ip \in Address, NEW bits \in 0..Width
  PROVE  Random(MaskPrefix(ip, bits), bits) = {x \in Address : Within(x, ip, bits)}
<1>1. PICK start, k, rem : /\ start = 1 + Bytes - ((Width - bits) + ByteBits - 1) \div ByteBits
                           /\ k = start - 1 /\ rem = (Width - bits) % ByteBits
  OBVIOUS
<1>2. Boundary(bits, start, k, rem)
  BY <1>1, BoundaryIs
<1>3. Random(MaskPrefix(ip, bits), bits) = {x \in Address : Agree(x, ip, k, rem)}
  BY <1>1, <1>2, RandomIsAgree
<1>4. \A x \in Address : Within(x, ip, bits) <=> Agree(x, ip, k, rem)
  BY <1>2, WithinIsAgree
<1>5. QED BY <1>3, <1>4

\* A masked prefix is the prefix.
LEMMA MaskWithin ==
  ASSUME NEW ip \in Address, NEW bits \in 0..Width
  PROVE  /\ MaskPrefix(ip, bits) \in Address
         /\ Within(MaskPrefix(ip, bits), ip, bits)
<1>1. PICK start, k, rem : /\ start = 1 + Bytes - ((Width - bits) + ByteBits - 1) \div ByteBits
                           /\ k = start - 1 /\ rem = (Width - bits) % ByteBits
  OBVIOUS
<1>2. Boundary(bits, start, k, rem)
  BY <1>1, BoundaryIs
<1>3. PICK mask : mask = MaskPrefix(ip, bits)
  OBVIOUS
<1>4. Masked(ip, bits, mask, k, rem)
  BY <1>1, <1>2, <1>3, MaskIs
<1>5. \A i \in 1..k : i \in 1..Bytes
  BY <1>2, ExitConstants DEF Boundary
<1>6. mask \in Address
  BY <1>4 DEF Masked
<1>7. rem # 0 => mask[k + 1] \div Power[rem] = ip[k + 1] \div Power[rem]
  <2> SUFFICES ASSUME rem # 0
               PROVE  mask[k + 1] \div Power[rem] = ip[k + 1] \div Power[rem]
    OBVIOUS
  <2>1. k + 1 \in 1..Bytes /\ rem \in 0..ByteBits - 1 /\ mask[k + 1] = Clear(ip[k + 1], rem)
    BY <1>2, <1>4 DEF Boundary, Masked
  <2>2. ip[k + 1] \in Byte
    BY <2>1 DEF Address
  <2>3. QED BY <2>1, <2>2, ClearIs
<1>8. Agree(mask, ip, k, rem)
  BY <1>4, <1>7 DEF Agree, Masked
<1>9. QED BY <1>2, <1>3, <1>6, <1>8, WithinIsAgree

----
(* Types                                                                    *)

\* What Admit grants names an account and, if any, a sid the protocol admits, for as
\* long as Redis accepts.
GrantsTyped == \A c \in Clients : got[c] # Invalid =>
    got[c].account \in Names /\ got[c].sid \in SIDs \cup {Blank} /\ got[c].ttl \in 1..MaxTTLMinutes

TypeInv == TypeOK /\ GrantsTyped /\ DOMAIN got = Clients /\ DOMAIN exit = Clients

LEMMA NoExitIsNone == NoExit \notin Address
<1>1. DOMAIN <<>> = {} /\ 1 \in 1..Bytes
  BY ExitConstants
<1>2. QED BY <1>1 DEF NoExit, Address

LEMMA ParsedTyped ==
  ASSUME NEW raw, Parse(raw).account # <<>>
  PROVE  /\ Parse(raw).sid \in SIDs \cup {Blank}
         /\ Parse(raw).ttl \in Int
<1>1. Parse(raw) # Invalid
  BY DEF Invalid
<1>2. CASE IsMid(raw)
  <2>1. /\ Parse(raw).sid = Lower(raw[Len(raw)]) /\ Parse(raw).ttl = 0
    BY <1>1, <1>2 DEF Parse
  <2>2. Lower(raw[Len(raw)]) \in SIDs
    BY <1>2, CredentialConstants DEF IsMid
  <2>3. QED BY <2>1, <2>2
<1>3. CASE ~IsMid(raw)
  <2>1. FieldsOK(raw)
    BY <1>1, <1>3 DEF Parse
  <2>2. /\ Parse(raw).sid = IF Has(raw, "sid") THEN Field(raw, "sid")[1] ELSE Blank
        /\ Parse(raw).ttl = IF Has(raw, "time") THEN Number[Field(raw, "time")[1]] ELSE 0
    BY <1>1, <1>3 DEF Parse
  <2>3. QED BY <2>1, <2>2, CredentialConstants DEF FieldsOK
<1>4. QED BY <1>2, <1>3

LEMMA AdmittedTyped ==
  ASSUME NEW raw \in Usernames, NEW name \in Names, NEW header, AccountsNormal,
         Admitted(raw, name, header) # Invalid
  PROVE  LET a == Admitted(raw, name, header)
         IN  a.account = name /\ a.sid \in SIDs \cup {Blank} /\ a.ttl \in 1..MaxTTLMinutes
<1>1. PICK p : p = Parse(raw)
  OBVIOUS
<1>2. Reading[raw] = p
  BY <1>1 DEF Reading
<1>3. p.account = name /\ On(name)
  BY <1>2 DEF Admitted
<1>4. name # <<>>
  BY AdmissionConstants
<1>5. p.sid \in SIDs \cup {Blank} /\ p.ttl \in Int
  BY <1>1, <1>3, <1>4, ParsedTyped
<1>6. PICK account : account = acct[name]
  OBVIOUS
<1>7. account.ttl \in Int
  BY <1>3, <1>6, LifetimesAre DEF On, Exists, AccountsNormal
<1> DEFINE max == IF account.max \in 1..MaxTTLMinutes THEN account.max ELSE MaxTTLMinutes
           mode == IF p.mode # Blank THEN p.mode ELSE IF p.sid # Blank THEN "sticky" ELSE account.mode
           ttl == IF p.ttlSet THEN p.ttl ELSE account.ttl
           given == IF ttl < MinTTLMinutes THEN MinTTLMinutes ELSE IF ttl > max THEN max ELSE ttl
<1>8. given \in 1..MaxTTLMinutes
  <2>1. max \in 1..MaxTTLMinutes
    BY DEF MaxTTLMinutes
  <2>2. ttl \in Int
    BY <1>5, <1>7
  <2> HIDE DEF max, ttl
  <2>3. QED BY <2>1, <2>2 DEF MinTTLMinutes, MaxTTLMinutes
<1>9. DOMAIN p = {"account", "sid", "ttl", "ttlSet", "mode"}
  BY <1>1 DEF Parse, Invalid
<1>10. PICK d : d = ApplyDefaults(p, account)
  OBVIOUS
<1>11. d = [p EXCEPT !.mode = mode, !.sid = IF mode = "rotate" THEN Blank ELSE @, !.ttl = given]
  BY <1>10 DEF ApplyDefaults
<1> HIDE DEF mode, given
<1>12. /\ d.account = name /\ d.sid \in SIDs \cup {Blank} /\ d.ttl \in 1..MaxTTLMinutes
       /\ DOMAIN d = {"account", "sid", "ttl", "ttlSet", "mode"}
  BY <1>3, <1>5, <1>8, <1>9, <1>11
<1>13. PICK sid : sid = IF d.mode = "sticky" /\ d.sid = Blank /\ header \in SIDs THEN header ELSE d.sid
  OBVIOUS
<1>14. sid \in SIDs \cup {Blank}
  BY <1>12, <1>13
<1>15. PICK a : a = Admitted(raw, name, header)
  OBVIOUS
<1>16. a = [d EXCEPT !.sid = sid, !.mode = IF sid = Blank THEN "rotate" ELSE @]
  BY <1>2, <1>3, <1>6, <1>10, <1>13, <1>15 DEF Admitted
<1>17. a.account = name /\ a.sid \in SIDs \cup {Blank} /\ a.ttl \in 1..MaxTTLMinutes
  BY <1>12, <1>14, <1>16
<1>18. QED BY <1>15, <1>17

\* A prefix's addresses, of which Resolve takes one.
LEMMA DrawnWithin ==
  ASSUME enabled \subseteq Specs, NEW x \in RandomFrom(Prefixes)
  PROVE  x.ip \in Address /\ Within(x.ip, x.prefix.ip, x.prefix.bits)
<1>1. PICK p \in Prefixes : \E y \in Random(p.ip, p.bits) : x = [ip |-> y, prefix |-> p]
  BY DEF RandomFrom
<1>2. PICK s \in enabled : p = [ip |-> MaskPrefix(s.ip, s.bits), bits |-> s.bits]
  BY DEF Prefixes
<1>3. s.ip \in Address /\ s.bits \in 0..Width
  BY AdmissionConstants
<1>4. p.ip = MaskPrefix(s.ip, s.bits) /\ p.bits = s.bits
  BY <1>2
<1>5. x.prefix = p /\ x.ip \in Random(p.ip, p.bits)
  BY <1>1
<1>6. x.ip \in Address /\ Within(x.ip, s.ip, s.bits)
  BY <1>3, <1>4, <1>5, RandomIsWithin
<1>7. Within(MaskPrefix(s.ip, s.bits), s.ip, s.bits)
  BY <1>3, MaskWithin
<1>8. QED BY <1>4, <1>5, <1>6, <1>7 DEF Within

LEMMA ArriveTyped ==
  ASSUME TypeInv, AdmissionInv, AccountsNormal', NEW c \in Clients, NEW raw \in Usernames,
         NEW name \in Names, NEW header, NEW asked, pc[c] = "idle", Arrive(c, raw, name, header, asked)
  PROVE  TypeInv'
<1>1. PICK a : a = Admitted(raw, name, header)
  OBVIOUS
<1>2. /\ got' = [got EXCEPT ![c] = a]
      /\ pc' = [pc EXCEPT ![c] = IF a = Invalid THEN "refused" ELSE "admitted"]
      /\ UNCHANGED <<acct, sess, enabled, exit>>
  BY <1>1 DEF Arrive
<1>3. a # Invalid => a.account = name /\ a.sid \in SIDs \cup {Blank} /\ a.ttl \in 1..MaxTTLMinutes
  BY <1>1, AdmittedTyped DEF AdmissionInv
<1>4. GrantsTyped'
  BY <1>2, <1>3 DEF TypeInv, GrantsTyped
<1>5. exit[c] = NoExit
  BY DEF TypeInv, TypeOK
<1>6. pc' \in [Clients -> {"idle", "admitted", "refused", "served"}]
  BY <1>2 DEF TypeInv, TypeOK
<1>7. ASSUME NEW e \in Clients
      PROVE  /\ pc'[e] \in {"idle", "refused"} <=> got'[e] = Invalid
             /\ exit'[e] \in Address \cup {NoExit}
             /\ exit'[e] # NoExit <=> pc'[e] = "served"
  <2>1. CASE e = c
    BY <1>2, <1>5, <2>1 DEF TypeInv, TypeOK
  <2>2. CASE e # c
    BY <1>2, <2>2 DEF TypeInv, TypeOK
  <2>3. QED BY <2>1, <2>2
<1>8. acct' \in [Names -> Settings \cup {NoAccount}]
  BY DEF AccountsNormal
<1>9. /\ DOMAIN sess' \subseteq Names \X SIDs
      /\ \A k \in DOMAIN sess' : /\ sess'[k].ttl \in 1..MaxTTLMinutes
                                 /\ sess'[k].ip \in Address
                                 /\ Within(sess'[k].ip, sess'[k].prefix.ip, sess'[k].prefix.bits)
      /\ enabled' \subseteq Specs
  BY <1>2 DEF TypeInv, TypeOK
<1>10. TypeOK'
  BY <1>6, <1>7, <1>8, <1>9 DEF TypeOK
<1>11. QED BY <1>2, <1>4, <1>10 DEF TypeInv

LEMMA ResolveTyped ==
  ASSUME TypeInv, AccountsNormal', NEW c \in Clients, Resolve(c)
  PROVE  TypeInv'
<1>1. /\ pc[c] = "admitted" /\ pc' = [pc EXCEPT ![c] = "served"]
      /\ UNCHANGED <<acct, enabled, got>>
  BY DEF Resolve
<1>2. PICK k : k = <<got[c].account, got[c].sid>>
  OBVIOUS
<1>3. PICK x \in RandomFrom(Prefixes) :
          IF got[c].mode # "sticky" \/ got[c].sid = Blank
          THEN exit' = [exit EXCEPT ![c] = x.ip] /\ UNCHANGED sess
          ELSE IF k \in DOMAIN sess
          THEN exit' = [exit EXCEPT ![c] = sess[k].ip] /\ UNCHANGED sess
          ELSE /\ exit' = [exit EXCEPT ![c] = x.ip]
               /\ sess' = [j \in DOMAIN sess \cup {k} |->
                              IF j = k THEN [ip |-> x.ip, prefix |-> x.prefix, ttl |-> got[c].ttl]
                              ELSE sess[j]]
  BY <1>2 DEF Resolve
<1>4. x.ip \in Address /\ Within(x.ip, x.prefix.ip, x.prefix.bits)
  BY DrawnWithin DEF TypeInv, TypeOK
<1>5. got[c] # Invalid
  BY <1>1 DEF TypeInv, TypeOK
<1>6. got[c].account \in Names /\ got[c].sid \in SIDs \cup {Blank} /\ got[c].ttl \in 1..MaxTTLMinutes
  BY <1>5 DEF TypeInv, GrantsTyped
<1> DEFINE Good(z, w) == /\ z.ttl \in 1..MaxTTLMinutes
                         /\ z.ip \in Address
                         /\ Within(z.ip, z.prefix.ip, z.prefix.bits)
<1>7. DOMAIN sess \subseteq Names \X SIDs /\ \A j \in DOMAIN sess : Good(sess[j], j)
  BY DEF TypeInv, TypeOK
<1>8. DOMAIN sess' \subseteq Names \X SIDs /\ \A j \in DOMAIN sess' : Good(sess'[j], j)
  <2>1. CASE UNCHANGED sess
    BY <1>7, <2>1
  <2>2. CASE /\ got[c].sid # Blank
             /\ sess' = [j \in DOMAIN sess \cup {k} |->
                            IF j = k THEN [ip |-> x.ip, prefix |-> x.prefix, ttl |-> got[c].ttl]
                            ELSE sess[j]]
    <3>1. k \in Names \X SIDs
      BY <1>2, <1>6, <2>2
    <3>2. PICK n : n = [ip |-> x.ip, prefix |-> x.prefix, ttl |-> got[c].ttl]
      OBVIOUS
    <3>3. n.ip = x.ip /\ n.prefix = x.prefix /\ n.ttl = got[c].ttl
      BY <3>2
    <3>4. Good(n, k)
      BY <1>4, <1>6, <3>3
    <3>5. DOMAIN sess' = DOMAIN sess \cup {k} /\ \A j \in DOMAIN sess' : sess'[j] = IF j = k THEN n ELSE sess[j]
      BY <2>2, <3>2
    <3> HIDE DEF Good
    <3>6. QED BY <1>7, <3>1, <3>4, <3>5
  <2>3. QED BY <1>3, <2>1, <2>2
<1>9. \E e \in Address : exit' = [exit EXCEPT ![c] = e]
  BY <1>3, <1>4, <1>7
<1>10. PICK e \in Address : exit' = [exit EXCEPT ![c] = e]
  BY <1>9
<1>11. ASSUME NEW b \in Clients
       PROVE  /\ pc'[b] \in {"idle", "refused"} <=> got'[b] = Invalid
              /\ exit'[b] \in Address \cup {NoExit}
              /\ exit'[b] # NoExit <=> pc'[b] = "served"
  <2>1. CASE b = c
    BY <1>1, <1>5, <1>10, <2>1, NoExitIsNone DEF TypeInv, TypeOK
  <2>2. CASE b # c
    BY <1>1, <1>10, <2>2 DEF TypeInv, TypeOK
  <2>3. QED BY <2>1, <2>2
<1>12. pc' \in [Clients -> {"idle", "admitted", "refused", "served"}] /\ enabled' \subseteq Specs
  BY <1>1 DEF TypeInv, TypeOK
<1>13. acct' \in [Names -> Settings \cup {NoAccount}]
  BY DEF AccountsNormal
<1>14. TypeOK'
  BY <1>8, <1>11, <1>12, <1>13 DEF TypeOK
<1>15. GrantsTyped' /\ DOMAIN got' = Clients /\ DOMAIN exit' = Clients
  BY <1>1, <1>10 DEF TypeInv, GrantsTyped
<1>16. QED BY <1>14, <1>15 DEF TypeInv

LEMMA LeaveTyped ==
  ASSUME TypeInv, AccountsNormal', NEW c \in Clients, Leave(c)
  PROVE  TypeInv'
<1>1. /\ pc' = [pc EXCEPT ![c] = "idle"] /\ got' = [got EXCEPT ![c] = Invalid]
      /\ exit' = [exit EXCEPT ![c] = NoExit] /\ UNCHANGED <<acct, sess, enabled>>
  BY DEF Leave
<1>2. ASSUME NEW b \in Clients
      PROVE  /\ pc'[b] \in {"idle", "refused"} <=> got'[b] = Invalid
             /\ exit'[b] \in Address \cup {NoExit}
             /\ exit'[b] # NoExit <=> pc'[b] = "served"
  <2>1. CASE b = c
    BY <1>1, <2>1 DEF TypeInv, TypeOK
  <2>2. CASE b # c
    BY <1>1, <2>2 DEF TypeInv, TypeOK
  <2>3. QED BY <2>1, <2>2
<1>3. pc' \in [Clients -> {"idle", "admitted", "refused", "served"}]
  BY <1>1 DEF TypeInv, TypeOK
<1>4. acct' \in [Names -> Settings \cup {NoAccount}]
  BY DEF AccountsNormal
<1>5. TypeOK'
  BY <1>1, <1>2, <1>3, <1>4 DEF TypeInv, TypeOK
<1>6. GrantsTyped' /\ DOMAIN got' = Clients /\ DOMAIN exit' = Clients
  BY <1>1 DEF TypeInv, GrantsTyped
<1>7. QED BY <1>5, <1>6 DEF TypeInv

\* The clients' requests stay as they are, and at most sessions go.
LEMMA OthersTyped ==
  ASSUME TypeInv, AccountsNormal', UNCHANGED <<pc, got, exit>>, enabled' \subseteq Specs,
         DOMAIN sess' \subseteq DOMAIN sess, \A k \in DOMAIN sess' : sess'[k] = sess[k]
  PROVE  TypeInv'
<1>1. acct' \in [Names -> Settings \cup {NoAccount}]
  BY DEF AccountsNormal
<1>2. TypeOK'
  BY <1>1 DEF TypeInv, TypeOK
<1>3. QED BY <1>2 DEF TypeInv, GrantsTyped

LEMMA NextTyped == TypeInv /\ AdmissionInv /\ AdmissionInv' /\ [Next]_vars => TypeInv'
<1> SUFFICES ASSUME TypeInv, AdmissionInv, AdmissionInv', [Next]_vars
             PROVE  TypeInv'
  OBVIOUS
<1>1. AccountsNormal'
  BY DEF AdmissionInv
<1>2. CASE \E name \in Names : AddAccount(name) \/ PatchAccount(name)
  BY <1>1, <1>2, OthersTyped DEF AddAccount, PatchAccount, client, TypeInv, TypeOK
<1>3. CASE \E name \in Names : RemoveAccount(name)
  <2>1. PICK name \in Names : RemoveAccount(name)
    BY <1>3
  <2>2. DOMAIN sess' \subseteq DOMAIN sess /\ \A k \in DOMAIN sess' : sess'[k] = sess[k]
    BY <2>1 DEF RemoveAccount
  <2>3. UNCHANGED <<pc, got, exit>> /\ enabled' \subseteq Specs
    BY <2>1 DEF RemoveAccount, client, TypeInv, TypeOK
  <2>4. QED BY <1>1, <2>2, <2>3, OthersTyped
<1>4. CASE \E s \in Specs : SetPrefixEnabled(s)
  <2>1. UNCHANGED <<pc, got, exit, sess>> /\ enabled' \subseteq Specs
    BY <1>4 DEF SetPrefixEnabled, client, TypeInv, TypeOK
  <2>2. QED BY <1>1, <2>1, OthersTyped
<1>5. CASE EndSession
  <2>1. DOMAIN sess' \subseteq DOMAIN sess /\ \A k \in DOMAIN sess' : sess'[k] = sess[k]
    BY <1>5 DEF EndSession
  <2>2. UNCHANGED <<pc, got, exit>> /\ enabled' \subseteq Specs
    BY <1>5 DEF EndSession, client, TypeInv, TypeOK
  <2>3. QED BY <1>1, <2>1, <2>2, OthersTyped
<1>6. CASE \E c \in Clients : Generate(c)
  <2>1. UNCHANGED <<pc, got, exit, sess>> /\ enabled' \subseteq Specs
    BY <1>6 DEF Generate, TypeInv, TypeOK
  <2>2. QED BY <1>1, <2>1, OthersTyped
<1>7. CASE \E c \in Clients : ByHand(c)
  <2>1. PICK c \in Clients : ByHand(c)
    BY <1>7
  <2>2. pc[c] = "idle"
    BY <2>1 DEF ByHand
  <2>3. PICK name \in Names, header \in Headers :
            \/ \E r \in Requests : Arrive(c, Username(name, r), name, header, r)
            \/ \E h \in Hex64 :
                  /\ MidWord(name) # {}
                  /\ Arrive(c, MidUsername(name, h), name, header,
                            [sid |-> Lower(h), time |-> Blank, mode |-> Blank, geo |-> <<>>])
    BY <2>1 DEF ByHand
  <2>4. \A r \in Requests : Username(name, r) \in Usernames
    BY DEF Usernames
  <2>5. CASE \E r \in Requests : Arrive(c, Username(name, r), name, header, r)
    BY <1>1, <2>2, <2>4, <2>5, ArriveTyped
  <2>6. ASSUME NEW h \in Hex64, NEW asked, MidWord(name) # {},
               Arrive(c, MidUsername(name, h), name, header, asked)
        PROVE  TypeInv'
    <3>1. MidUsername(name, h) \in Usernames
      BY <2>6 DEF Usernames
    <3>2. QED BY <1>1, <2>2, <2>6, <3>1, ArriveTyped
  <2>7. QED BY <2>3, <2>5, <2>6
<1>8. CASE \E c \in Clients : ByLine(c)
  <2>1. PICK c \in Clients : ByLine(c)
    BY <1>8
  <2>2. GeneratedLine(line[c]) /\ pc[c] = "idle"
    BY <2>1 DEF ByLine, AdmissionInv, LinesGenerated
  <2>3. PICK name \in Names, sid \in SIDs \cup {Blank}, ttl \in Lifetimes :
           line[c] = [account |-> name, sid |-> sid, ttl |-> ttl,
                      user |-> FormatUsername(name, sid, ttl, "sticky")]
    BY <2>2 DEF GeneratedLine
  <2>4. line[c].account = name /\ line[c].user = FormatUsername(name, sid, ttl, "sticky")
    BY <2>3
  <2>5. line[c].user \in Usernames
    BY <2>4 DEF Usernames
  <2>6. \E header, asked : Arrive(c, line[c].user, name, header, asked)
    BY <2>1, <2>4 DEF ByLine
  <2>7. QED BY <1>1, <2>2, <2>5, <2>6, ArriveTyped
<1>9. CASE \E c \in Clients : Resolve(c)
  BY <1>1, <1>9, ResolveTyped
<1>10. CASE \E c \in Clients : Leave(c)
  BY <1>1, <1>10, LeaveTyped
<1>11. CASE UNCHANGED vars
  BY <1>1, <1>11, OthersTyped DEF vars, TypeInv, TypeOK
<1>12. QED
  BY <1>2, <1>3, <1>4, <1>5, <1>6, <1>7, <1>8, <1>9, <1>10, <1>11 DEF Next

LEMMA TypeInvHolds == Spec => []TypeInv
<1>1. Init => TypeInv
  <2> SUFFICES ASSUME Init PROVE TypeInv
    OBVIOUS
  <2>1. DOMAIN sess = {}
    BY DEF Init
  <2>2. acct \in [Names -> Settings \cup {NoAccount}]
    BY DEF Init
  <2>3. pc \in [Clients -> {"idle", "admitted", "refused", "served"}]
    BY DEF Init
  <2>4. \A c \in Clients : pc[c] = "idle" /\ got[c] = Invalid /\ exit[c] = NoExit
    BY DEF Init
  <2>5. TypeOK
    BY <2>1, <2>2, <2>3, <2>4 DEF Init, TypeOK
  <2>6. QED BY <2>4, <2>5 DEF Init, TypeInv, GrantsTyped
<1>2. QED BY <1>1, NextTyped, AdmissionInvHolds, PTL DEF Spec

----
(* The theorems                                                             *)

(* Types, and every sticky session is in Redis under the name of an account *)
(* and a sid of the protocol, with a TTL between 1 and 180 minutes, and with *)
(* an address of the prefix it is shown under (GetOrCreateSticky of          *)
(* internal/store/store.go, called by internal/session/resolve.go).         *)
THEOREM TypesHold == Spec => []TypeOK
<1>1. TypeInv => TypeOK
  BY DEF TypeInv
<1>2. QED BY <1>1, TypeInvHolds, PTL

(* "{account}[_sid_{id}][_time_{minutes}][_mode_{rotate|sticky}]"            *)
(* (README.en.md:181): whatever the values and the ignored fields, Admit     *)
(* (internal/proxy/runtime.go) makes of a username written so, for an        *)
(* account whose name is Plain, what the document says it asks for, and      *)
(* refuses it only for want of an enabled account; but for a username        *)
(* without a sid beside a header that has one.                              *)
THEOREM WrittenUsernamesMeanWhatTheySay == Spec => []UsernamesAsDocumented
<1>1. AdmissionInv => UsernamesAsDocumented
  BY DEF AdmissionInv, Understood, UsernamesAsDocumented
<1>2. QED BY <1>1, AdmissionInvHolds, PTL

(* What apiGenerateCredentials (internal/admin/accounts.go) wrote for an     *)
(* account whose name is Plain rotates or brings its sid and minutes as it   *)
(* was generated to, whatever was done to the account since; but for one     *)
(* generated as rotate beside a header that has a sid.                      *)
THEOREM GeneratedCredentialsWork == Spec => []GeneratedWork
<1>1. AdmissionInv => GeneratedWork
  BY DEF AdmissionInv, Understood, GeneratedWork
<1>2. QED BY <1>1, AdmissionInvHolds, PTL

(* Random and maskPrefix (internal/ipgen/ipgen.go), whatever the number and *)
(* the width of the bytes: at every prefix length, and whatever host bits a *)
(* prefix was configured with, the exit addresses are all of the prefix and *)
(* nothing else.                                                            *)
THEOREM ExitsFillTheirPrefix == Spec => []ExitsMatchPrefix
<1>1. TypeInv => ExitsMatchPrefix
  <2> SUFFICES ASSUME TypeInv, NEW s \in enabled
               PROVE  FilledLengths[s.ip] = 0..Width
    BY DEF ExitsMatchPrefix
  <2>1. s \in Specs /\ s.ip \in Address
    BY AdmissionConstants DEF TypeInv, TypeOK
  <2>2. FilledLengths[s.ip] = {bits \in 0..Width :
            Random(MaskPrefix(s.ip, bits), bits) = {x \in Address : Within(x, s.ip, bits)}}
    BY <2>1 DEF FilledLengths
  <2>3. QED BY <2>1, <2>2, RandomIsWithin
<1>2. QED BY <1>1, TypeInvHolds, PTL

====

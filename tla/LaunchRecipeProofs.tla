------------------------- MODULE LaunchRecipeProofs --------------------------
(* Names, limits and mounts of the nodes, for every command line.            *)
EXTENDS LaunchRecipe, SequenceTheorems, WellFoundedInduction, TLAPS

-----------------------------------------------------------------------------
(* What names are made of; the provers see sequences only where they have to.*)

Texts == Seq(Characters)
Plain == Seq(Characters \ Roles)
Valid == Seq(Words)
Decimals == Seq(Words \ Roles)

Around(p, r, t) == (p \o <<r>>) \o t

LEMMA AroundPlaces ==
  ASSUME NEW p \in Valid, NEW r \in Words, NEW t \in Valid
  PROVE  /\ Around(p, r, t) \in Valid
         /\ Len(Around(p, r, t)) = Len(p) + 1 + Len(t)
         /\ \A i \in 1 .. Len(p) : Around(p, r, t)[i] = p[i]
         /\ Around(p, r, t)[Len(p) + 1] = r
         /\ \A i \in 1 .. Len(t) : Around(p, r, t)[Len(p) + 1 + i] = t[i]
BY DEF Around, Valid

(* The last place that holds a role divides a sequence in one way only.      *)
LEMMA LastRole ==
  ASSUME NEW p \in Texts, NEW q \in Texts, NEW r \in Roles, NEW s \in Roles,
         NEW t \in Plain, NEW u \in Plain,
         Around(p, r, t) = Around(q, s, u)
  PROVE  p = q /\ r = s /\ t = u
<1> USE DEF Texts, Plain
<1> DEFINE v == (p \o <<r>>) \o t
<1> DEFINE w == (q \o <<s>>) \o u
<1>1. /\ Len(v) = Len(p) + 1 + Len(t) /\ v[Len(p) + 1] = r
      /\ \A i \in 1 .. Len(p) : v[i] = p[i]
      /\ \A i \in 1 .. Len(t) : v[Len(p) + 1 + i] = t[i] /\ t[i] \notin Roles
  OBVIOUS
<1>2. /\ Len(w) = Len(q) + 1 + Len(u) /\ w[Len(q) + 1] = s
      /\ \A i \in 1 .. Len(q) : w[i] = q[i]
      /\ \A i \in 1 .. Len(u) : w[Len(q) + 1 + i] = u[i] /\ u[i] \notin Roles
  OBVIOUS
<1>3. v = w
  BY DEF Around
<1> HIDE DEF v, w
<1>4. Len(p) \in Nat /\ Len(q) \in Nat /\ Len(t) \in Nat /\ Len(u) \in Nat
  BY LenProperties
<1>5. Len(p) = Len(q)
  <2>1. ASSUME Len(p) < Len(q)
        PROVE  FALSE
    <3>1. Len(q) - Len(p) \in 1 .. Len(t)
      BY <1>1, <1>2, <1>3, <1>4, <2>1
    <3>2. v[Len(p) + 1 + (Len(q) - Len(p))] \notin Roles
      BY <1>1, <3>1
    <3> QED BY <1>2, <1>3, <1>4, <3>2
  <2>2. ASSUME Len(q) < Len(p)
        PROVE  FALSE
    <3>1. Len(p) - Len(q) \in 1 .. Len(u)
      BY <1>1, <1>2, <1>3, <1>4, <2>2
    <3>2. w[Len(q) + 1 + (Len(p) - Len(q))] \notin Roles
      BY <1>2, <3>1
    <3> QED BY <1>1, <1>3, <1>4, <3>2
  <2> QED BY <2>1, <2>2, <1>4
<1>6. r = s /\ Len(t) = Len(u)
  BY <1>1, <1>2, <1>3, <1>4, <1>5
<1>7. \A i \in 1 .. Len(p) : p[i] = q[i]
  BY <1>1, <1>2, <1>3, <1>5
<1>8. \A i \in 1 .. Len(t) : t[i] = u[i]
  BY <1>1, <1>2, <1>3, <1>5, <1>6
<1> QED BY <1>5, <1>6, <1>7, <1>8, SeqEqual

(* A domain as it follows a node's own name.                                 *)
Suffix(domain) == IF domain = <<>> THEN <<>> ELSE <<".">> \o domain

Dotted(index, domain) == index \o Suffix(domain)

(* What is written in what.                                                  *)
LEMMA Alphabet ==
  /\ Roles \cup Words \cup {"-", "."} \subseteq Characters
  /\ Roles \cup {"-"} \subseteq Words
  /\ "-" \in Characters \ Roles /\ "." \in Characters \ Roles
BY AlphabetAssumption DEF Roles

LEMMA Written ==
  /\ \A d \in Plain : d \in Texts
  /\ \A x \in Valid : x \in Texts
  /\ \A x \in Decimals : x \in Valid /\ x \in Texts /\ x \in Plain
  /\ <<"-">> \in Texts /\ <<".">> \in Texts /\ <<>> \in Texts
  /\ \A d, e \in Texts : d \o e \in Texts
  /\ \A d \in Texts : Suffix(d) \in Texts
  /\ \A d \in Plain : Suffix(d) \in Plain
<1> USE DEF Texts, Plain, Valid, Decimals
<1>1. \A d \in Plain : d \in Texts
  OBVIOUS
<1>2. \A x \in Valid : x \in Texts
  BY Alphabet
<1>3. \A x \in Decimals : x \in Valid /\ x \in Texts /\ x \in Plain
  BY Alphabet
<1>4. <<"-">> \in Texts /\ <<".">> \in Texts /\ <<>> \in Texts
  BY Alphabet
<1>5. <<".">> \in Plain /\ <<>> \in Plain
  BY Alphabet
<1>6. \A d, e \in Texts : d \o e \in Texts
  BY ConcatProperties
<1>7. \A d, e \in Plain : d \o e \in Plain
  BY ConcatProperties
<1> QED BY <1>1, <1>2, <1>3, <1>4, <1>5, <1>6, <1>7 DEF Suffix

(* A node's own name ends at the first dot after the number.                 *)
LEMMA FirstDot ==
  ASSUME NEW x \in Valid, NEW y \in Valid, NEW d \in Texts, NEW e \in Texts,
         Dotted(x, d) = Dotted(y, e)
  PROVE  x = y /\ d = e
<1> USE DEF Texts, Valid
<1> DEFINE a == Suffix(d)
<1> DEFINE b == Suffix(e)
<1> DEFINE v == x \o a
<1> DEFINE w == y \o b
<1>1. /\ a \in Seq(Characters) /\ b \in Seq(Characters)
      /\ Len(a) > 0 => a[1] = "." /\ a = <<".">> \o d /\ Len(a) = 1 + Len(d)
      /\ Len(b) > 0 => b[1] = "." /\ b = <<".">> \o e /\ Len(b) = 1 + Len(e)
      /\ Len(a) = 0 => d = <<>>
      /\ Len(b) = 0 => e = <<>>
  BY Alphabet DEF Suffix
<1>2. "." \notin Words /\ x \in Seq(Characters) /\ y \in Seq(Characters)
  BY AlphabetAssumption, Written
<1> HIDE DEF a, b
<1>3. /\ Len(v) = Len(x) + Len(a)
      /\ \A i \in 1 .. Len(x) : v[i] = x[i] /\ x[i] \in Words
      /\ \A i \in 1 .. Len(a) : v[Len(x) + i] = a[i]
  BY <1>1, <1>2
<1>4. /\ Len(w) = Len(y) + Len(b)
      /\ \A i \in 1 .. Len(y) : w[i] = y[i] /\ y[i] \in Words
      /\ \A i \in 1 .. Len(b) : w[Len(y) + i] = b[i]
  BY <1>1, <1>2
<1>5. v = w
  BY DEF a, b, Dotted
<1> HIDE DEF v, w
<1>6. Len(x) \in Nat /\ Len(y) \in Nat /\ Len(a) \in Nat /\ Len(b) \in Nat
  BY <1>1, LenProperties
<1>7. Len(x) = Len(y)
  <2>1. ASSUME Len(x) < Len(y)
        PROVE  FALSE
    <3>1. 1 \in 1 .. Len(a) /\ Len(x) + 1 \in 1 .. Len(y)
      BY <1>3, <1>4, <1>5, <1>6, <2>1
    <3>2. v[Len(x) + 1] = a[1] /\ w[Len(x) + 1] \in Words
      BY <1>3, <1>4, <3>1
    <3>3. a[1] = "."
      BY <1>1, <1>6, <3>1
    <3> QED BY <1>2, <1>5, <3>2, <3>3
  <2>2. ASSUME Len(y) < Len(x)
        PROVE  FALSE
    <3>1. 1 \in 1 .. Len(b) /\ Len(y) + 1 \in 1 .. Len(x)
      BY <1>3, <1>4, <1>5, <1>6, <2>2
    <3>2. w[Len(y) + 1] = b[1] /\ v[Len(y) + 1] \in Words
      BY <1>3, <1>4, <3>1
    <3>3. b[1] = "."
      BY <1>1, <1>6, <3>1
    <3> QED BY <1>2, <1>5, <3>2, <3>3
  <2> QED BY <2>1, <2>2, <1>6
<1>8. Len(a) = Len(b)
  BY <1>3, <1>4, <1>5, <1>6, <1>7
<1>9. x = y
  <2>1. \A i \in 1 .. Len(x) : x[i] = y[i]
    BY <1>3, <1>4, <1>5, <1>7
  <2> QED BY <1>7, <2>1, SeqEqual
<1>10. \A i \in 1 .. Len(a) : a[i] = b[i]
  BY <1>3, <1>4, <1>5, <1>7, <1>8
<1>11. d = e
  <2>1. CASE Len(a) = 0
    BY <1>1, <1>8, <2>1
  <2>2. CASE Len(a) # 0
    <3>1. Len(d) = Len(e) /\ a = <<".">> \o d /\ b = <<".">> \o e /\ Len(a) = 1 + Len(d)
      BY <1>1, <1>6, <1>8, <2>2
    <3>2. \A i \in 1 .. Len(d) : d[i] = a[i + 1] /\ i + 1 \in 1 .. Len(a)
      BY <3>1
    <3>3. \A i \in 1 .. Len(e) : e[i] = b[i + 1]
      BY <3>1
    <3>4. \A i \in 1 .. Len(d) : d[i] = e[i]
      BY <1>10, <3>1, <3>2, <3>3
    <3> QED BY <3>1, <3>4, SeqEqual
  <2> QED BY <2>1, <2>2
<1> QED BY <1>9, <1>11

-----------------------------------------------------------------------------
(* Container names.                                                          *)

(* What comes before the role in a container name, and what after it.        *)
Start(cluster) == cluster \o <<"-">>
Rest(index, domain) == <<"-">> \o Dotted(index, domain)

LEMMA RestHasNoRole ==
  ASSUME NEW x \in Decimals, NEW d \in Plain
  PROVE  Rest(x, d) \in Plain
<1> USE DEF Plain, Decimals
<1>1. "-" \in Characters \ Roles /\ "." \in Characters \ Roles
  BY Alphabet
<1>2. x \in Seq(Characters \ Roles)
  BY Alphabet
<1>3. Suffix(d) \in Seq(Characters \ Roles)
  <2>1. <<>> \in Seq(Characters \ Roles) /\ <<".">> \in Seq(Characters \ Roles)
    BY <1>1
  <2> QED BY <2>1, ConcatProperties DEF Suffix
<1> QED BY <1>1, <1>2, <1>3 DEF Rest, Dotted

LEMMA ContainerName ==
  ASSUME NEW c \in Texts, NEW r \in Roles, NEW x \in Valid, NEW d \in Texts
  PROVE  nodeFQDN(NodeName(c, r, x), d) = Around(Start(c), r, Rest(x, d))
<1> USE DEF Texts, Valid
<1>1. /\ x \in Seq(Characters) /\ r \in Characters /\ Suffix(d) \in Seq(Characters)
      /\ "-" \in Characters /\ "." \in Characters
  BY Alphabet, Written DEF Suffix
<1>2. c \o <<"-", r, "-">> = ((c \o <<"-">>) \o <<r>>) \o <<"-">>
  BY <1>1
<1>3. NodeName(c, r, x) = (((c \o <<"-">>) \o <<r>>) \o <<"-">>) \o x
  BY <1>2 DEF NodeName
<1>4. nodeFQDN(NodeName(c, r, x), d) = NodeName(c, r, x) \o Suffix(d)
  <2>1. NodeName(c, r, x) \in Seq(Characters)
    <3>1. ((c \o <<"-">>) \o <<r>>) \o <<"-">> \in Seq(Characters)
      BY <1>1
    <3> QED BY <1>1, <1>3, <3>1
  <2>2. NodeName(c, r, x) \o <<>> = NodeName(c, r, x)
    BY <2>1, ConcatEmptySeq
  <2>3. CASE d = <<>>
    BY <2>2, <2>3 DEF nodeFQDN, Suffix
  <2>4. CASE d # <<>>
    <3>1. (NodeName(c, r, x) \o <<".">>) \o d = NodeName(c, r, x) \o (<<".">> \o d)
      BY <2>1, ConcatAssociative
    <3> QED BY <2>4, <3>1 DEF nodeFQDN, Suffix
  <2> QED BY <2>3, <2>4
<1> DEFINE p == (c \o <<"-">>) \o <<r>>
<1> DEFINE z == Suffix(d)
<1>5. p \in Seq(Characters) /\ <<"-">> \in Seq(Characters)
  BY <1>1
<1> HIDE DEF p, z
<1>6. ((p \o <<"-">>) \o x) \o z = p \o (<<"-">> \o (x \o z))
  BY <1>1, <1>5, SMTT(30) DEF z
<1> QED BY <1>3, <1>4, <1>6 DEF p, z, Rest, Dotted, Around, Start

LEMMA SameStart ==
  ASSUME NEW c \in Texts, NEW b \in Texts, Start(c) = Start(b)
  PROVE  c = b
<1> USE DEF Texts
<1>1. c \o <<"-">> = b \o <<"-">> /\ "-" \in Characters
  BY Alphabet DEF Start
<1>2. Len(c) = Len(b)
  BY <1>1
<1>3. \A i \in 1 .. Len(c) : c[i] = (c \o <<"-">>)[i]
  OBVIOUS
<1>4. \A i \in 1 .. Len(b) : b[i] = (b \o <<"-">>)[i]
  OBVIOUS
<1>5. \A i \in 1 .. Len(c) : c[i] = b[i]
  BY <1>1, <1>2, <1>3, <1>4
<1> QED BY <1>2, <1>5, SeqEqual

(* No two nodes of any two clusters share a container's name.                *)
LEMMA NamesDiffer ==
  ASSUME NEW c \in Texts, NEW b \in Texts, NEW r \in Roles, NEW s \in Roles,
         NEW x \in Decimals, NEW y \in Decimals, NEW d \in Plain, NEW e \in Plain,
         nodeFQDN(NodeName(c, r, x), d) = nodeFQDN(NodeName(b, s, y), e)
  PROVE  c = b /\ r = s /\ x = y /\ d = e
<1>1. Around(Start(c), r, Rest(x, d)) = Around(Start(b), s, Rest(y, e))
  BY Written, ContainerName
<1>2. /\ Rest(x, d) \in Plain /\ Rest(y, e) \in Plain
      /\ Start(c) \in Texts /\ Start(b) \in Texts
  BY Written, RestHasNoRole DEF Start
<1>3. Start(c) = Start(b) /\ r = s /\ Rest(x, d) = Rest(y, e)
  BY <1>1, <1>2, LastRole
<1>4. c = b
  BY <1>3, SameStart
<1>5. Dotted(x, d) = Dotted(y, e)
  <2>1. Dotted(x, d) \in Texts /\ Dotted(y, e) \in Texts
    BY Written DEF Dotted
  <2> QED BY <1>3, <2>1, Written, ConcatSimplifications DEF Rest, Texts
<1>6. x = y /\ d = e
  BY <1>5, Written, FirstDot
<1> QED BY <1>3, <1>4, <1>6

-----------------------------------------------------------------------------
(* Volume names.                                                             *)

Sanitized(x) == CASE x \in DOMAIN Lower -> Lower[x]
                  [] x \in Words        -> x
                  [] OTHER              -> "-"

LEMMA SanitizedWord ==
  /\ \A x \in Characters : Sanitized(x) \in Words
  /\ \A x \in Words : Sanitized(x) = x
  /\ \A x, y \in Characters : Sanitized(x) = Sanitized(y) <=> AlikeAt(x, y)
BY AlphabetAssumption DEF Sanitized, AlikeAt, Letters

LEMMA SanitizedName ==
  ASSUME NEW s \in Texts
  PROVE  /\ sanitizeVolumeName(s) \in Valid
         /\ Len(sanitizeVolumeName(s)) = Len(s)
         /\ \A i \in 1 .. Len(s) : sanitizeVolumeName(s)[i] = Sanitized(s[i])
<1> USE DEF Texts, Valid
<1>1. sanitizeVolumeName(s) = [i \in 1 .. Len(s) |-> Sanitized(s[i])]
  BY DEF sanitizeVolumeName, Sanitized
<1>2. \A i \in 1 .. Len(s) : Sanitized(s[i]) \in Words
  BY SanitizedWord
<1> QED BY <1>1, <1>2, LenProperties

(* The sanitizer takes names for one another just if they are alike.         *)
LEMMA SameSanitized ==
  ASSUME NEW s \in Texts, NEW t \in Texts
  PROVE  sanitizeVolumeName(s) = sanitizeVolumeName(t) <=> Alike(s, t)
<1> DEFINE v == sanitizeVolumeName(s)
<1> DEFINE w == sanitizeVolumeName(t)
<1>1. /\ v \in Seq(Words) /\ Len(v) = Len(s)
      /\ \A i \in 1 .. Len(s) : v[i] = Sanitized(s[i])
  BY SanitizedName DEF Valid
<1>2. /\ w \in Seq(Words) /\ Len(w) = Len(t)
      /\ \A i \in 1 .. Len(t) : w[i] = Sanitized(t[i])
  BY SanitizedName DEF Valid
<1>3. /\ DOMAIN s = 1 .. Len(s) /\ \A i \in 1 .. Len(s) : s[i] \in Characters
      /\ \A i \in 1 .. Len(t) : t[i] \in Characters
  BY DEF Texts
<1> HIDE DEF v, w
<1>4. ASSUME v = w
      PROVE  Len(s) = Len(t) /\ \A i \in 1 .. Len(s) : AlikeAt(s[i], t[i])
  BY <1>1, <1>2, <1>3, <1>4, SanitizedWord
<1>5. ASSUME Len(s) = Len(t), \A i \in 1 .. Len(s) : AlikeAt(s[i], t[i])
      PROVE  v = w
  <2>1. \A i \in 1 .. Len(s) : v[i] = w[i]
    BY <1>1, <1>2, <1>3, <1>5, SanitizedWord
  <2> QED BY <1>1, <1>2, <1>5, <2>1, SeqEqual
<1> QED BY <1>3, <1>4, <1>5 DEF v, w, Alike

(* What is valid already stays as it is.                                     *)
LEMMA SanitizedAround ==
  ASSUME NEW p \in Texts, NEW r \in Roles, NEW t \in Valid
  PROVE  sanitizeVolumeName(Around(p, r, t)) = Around(sanitizeVolumeName(p), r, t)
<1> DEFINE s == Around(p, r, t)
<1> DEFINE q == sanitizeVolumeName(p)
<1> DEFINE v == sanitizeVolumeName(s)
<1> DEFINE w == Around(q, r, t)
<1>1. q \in Seq(Words) /\ Len(q) = Len(p) /\ \A i \in 1 .. Len(p) : q[i] = Sanitized(p[i])
  BY SanitizedName DEF Valid
<1>2. r \in Words /\ r \in Characters /\ t \in Seq(Characters) /\ t \in Seq(Words)
  BY Alphabet, Written DEF Texts, Valid
<1>3. /\ s \in Seq(Characters) /\ Len(s) = Len(p) + 1 + Len(t)
      /\ \A i \in 1 .. Len(p) : s[i] = p[i]
      /\ s[Len(p) + 1] = r
      /\ \A i \in 1 .. Len(t) : s[Len(p) + 1 + i] = t[i]
  BY <1>2 DEF Around, Texts
<1>4. /\ v \in Seq(Words) /\ Len(v) = Len(s)
      /\ \A i \in 1 .. Len(s) : v[i] = Sanitized(s[i])
  BY <1>3, SanitizedName DEF Texts, Valid
<1> HIDE DEF q
<1>5. /\ w \in Valid /\ Len(w) = Len(p) + 1 + Len(t)
      /\ \A i \in 1 .. Len(p) : w[i] = q[i]
      /\ w[Len(p) + 1] = r
      /\ \A i \in 1 .. Len(t) : w[Len(p) + 1 + i] = t[i]
  <2>1. q \in Valid /\ Len(q) = Len(p)
    BY <1>1 DEF Valid
  <2>2. r \in Words
    BY <1>2
  <2>3. /\ w \in Valid /\ Len(w) = Len(q) + 1 + Len(t) /\ w[Len(q) + 1] = r
    BY <2>1, <2>2, AroundPlaces
  <2>4. \A i \in 1 .. Len(q) : w[i] = q[i]
    BY <2>1, <2>2, AroundPlaces
  <2>5. \A i \in 1 .. Len(t) : w[Len(q) + 1 + i] = t[i]
    BY <2>1, <2>2, AroundPlaces, ZenonT(60)
  <2> HIDE DEF w
  <2> QED BY <2>1, <2>3, <2>4, <2>5
<1>6. Len(p) \in Nat /\ Len(t) \in Nat /\ \A i \in 1 .. Len(t) : t[i] \in Words
  BY <1>2 DEF Texts
<1> HIDE DEF s, v, w
<1>7. ASSUME NEW i \in 1 .. Len(s)
      PROVE  v[i] = w[i]
  <2>1. CASE i \in 1 .. Len(p)
    BY <1>1, <1>3, <1>4, <1>5, <2>1
  <2>2. CASE i = Len(p) + 1
    BY <1>2, <1>3, <1>4, <1>5, <2>2, SanitizedWord
  <2>3. CASE i > Len(p) + 1
    <3>1. i - (Len(p) + 1) \in 1 .. Len(t)
      BY <1>3, <1>6, <2>3
    <3>2. i = Len(p) + 1 + (i - (Len(p) + 1))
      BY <1>6
    <3>3. s[i] = t[i - (Len(p) + 1)] /\ w[i] = t[i - (Len(p) + 1)]
      BY <1>3, <1>5, <3>1, <3>2
    <3> QED BY <1>4, <1>6, <3>1, <3>3, SanitizedWord
  <2> QED BY <1>3, <1>6, <2>1, <2>2, <2>3
<1>8. v = w
  BY <1>3, <1>4, <1>5, <1>7, SeqEqual DEF Valid
<1> QED BY <1>8 DEF q, s, v, w

(* What comes before the role in a volume's name, and what after it.         *)
Twice(cluster) == Start(Start(cluster) \o cluster)
Kind(k) == IF k = 1 THEN <<"-", "var">> ELSE <<"-", "system", "-", "state">>
End(index, k) == <<"-">> \o (index \o Kind(k))

LEMMA TailWritten ==
  ASSUME NEW x \in Decimals, NEW k \in 1 .. 2
  PROVE  Kind(k) \in Texts /\ End(x, k) \in Valid /\ End(x, k) \in Plain
<1> DEFINE S == Words \ Roles
<1>1. "-" \in S /\ "var" \in S /\ "system" \in S /\ "state" \in S
  BY AlphabetAssumption DEF Roles
<1> HIDE DEF S
<1>2. Kind(k) \in Seq(S) /\ <<"-">> \in Seq(S)
  BY <1>1 DEF Kind
<1>3. End(x, k) \in Decimals
  <2>1. x \in Seq(S)
    BY DEF Decimals, S
  <2> QED BY <1>2, <2>1, ConcatProperties DEF End, Decimals, S
<1>4. Kind(k) \in Decimals
  BY <1>2 DEF S, Decimals
<1> QED BY <1>3, <1>4, Written

LEMMA TailsDiffer ==
  ASSUME NEW x \in Decimals, NEW y \in Decimals, NEW k \in 1 .. 2, NEW l \in 1 .. 2,
         End(x, k) = End(y, l)
  PROVE  x = y /\ k = l
<1>1. "-" \in Words /\ x \in Seq(Words) /\ y \in Seq(Words)
  BY Alphabet DEF Decimals
<1>2. /\ Kind(k) \in Seq(Words) /\ Kind(l) \in Seq(Words)
      /\ Len(Kind(k)) > 0 /\ Len(Kind(l)) > 0
      /\ Kind(k)[Len(Kind(k))] = IF k = 1 THEN "var" ELSE "state"
      /\ Kind(l)[Len(Kind(l))] = IF l = 1 THEN "var" ELSE "state"
  BY AlphabetAssumption DEF Kind
<1> DEFINE a == Kind(k)
<1> DEFINE b == Kind(l)
<1> DEFINE v == End(x, k)
<1> DEFINE w == End(y, l)
<1>3. a \in Seq(Words) /\ b \in Seq(Words) /\ Len(a) > 0 /\ Len(b) > 0
  BY <1>2
<1>4. v = <<"-">> \o (x \o a) /\ w = <<"-">> \o (y \o b) /\ v = w
  BY DEF End
<1> HIDE DEF a, b, v, w
<1>5. /\ Len(v) = 1 + Len(x) + Len(a) /\ v[Len(v)] = a[Len(a)]
      /\ \A i \in 1 .. Len(x) : v[1 + i] = x[i]
  BY <1>1, <1>3, <1>4, SMTT(30)
<1>6. /\ Len(w) = 1 + Len(y) + Len(b) /\ w[Len(w)] = b[Len(b)]
      /\ \A i \in 1 .. Len(y) : w[1 + i] = y[i]
  BY <1>1, <1>3, <1>4, SMTT(30)
<1>7. k = l
  <2>1. (IF k = 1 THEN "var" ELSE "state") = (IF l = 1 THEN "var" ELSE "state")
    BY <1>2, <1>4, <1>5, <1>6 DEF a, b
  <2> QED BY <2>1
<1>8. Len(x) = Len(y)
  BY <1>1, <1>3, <1>4, <1>5, <1>6, <1>7 DEF a, b
<1>9. \A i \in 1 .. Len(x) : x[i] = y[i]
  BY <1>4, <1>5, <1>6, <1>8
<1> QED BY <1>1, <1>7, <1>8, <1>9, SeqEqual

LEMMA TwicePlaces ==
  ASSUME NEW c \in Texts
  PROVE  /\ Twice(c) \in Texts /\ Len(Twice(c)) = 2 * Len(c) + 2
         /\ \A i \in 1 .. Len(c) : Twice(c)[i] = c[i] /\ Twice(c)[Len(c) + 1 + i] = c[i]
         /\ Twice(c)[Len(c) + 1] = "-" /\ Twice(c)[2 * Len(c) + 2] = "-"
BY Alphabet DEF Twice, Start, Texts

LEMMA TwiceAlike ==
  ASSUME NEW c \in Texts, NEW b \in Texts
  PROVE  Alike(Twice(c), Twice(b)) <=> Alike(c, b)
<1> DEFINE s == Twice(c)
<1> DEFINE t == Twice(b)
<1>1. /\ s \in Seq(Characters) /\ Len(s) = 2 * Len(c) + 2
      /\ \A i \in 1 .. Len(c) : s[i] = c[i] /\ s[Len(c) + 1 + i] = c[i]
      /\ s[Len(c) + 1] = "-" /\ s[2 * Len(c) + 2] = "-"
  BY TwicePlaces DEF Texts
<1>2. /\ t \in Seq(Characters) /\ Len(t) = 2 * Len(b) + 2
      /\ \A i \in 1 .. Len(b) : t[i] = b[i] /\ t[Len(b) + 1 + i] = b[i]
      /\ t[Len(b) + 1] = "-" /\ t[2 * Len(b) + 2] = "-"
  BY TwicePlaces DEF Texts
<1>3. /\ DOMAIN s = 1 .. Len(s) /\ DOMAIN c = 1 .. Len(c)
      /\ Len(c) \in Nat /\ Len(b) \in Nat
  BY <1>1 DEF Texts
<1> HIDE DEF s, t
<1>4. AlikeAt("-", "-")
  BY DEF AlikeAt
<1>5. ASSUME Alike(s, t)
      PROVE  Len(c) = Len(b) /\ \A i \in 1 .. Len(c) : AlikeAt(c[i], b[i])
  BY <1>1, <1>2, <1>3, <1>5 DEF Alike
<1>6. ASSUME Len(c) = Len(b), \A i \in 1 .. Len(c) : AlikeAt(c[i], b[i])
      PROVE  Len(s) = Len(t) /\ \A i \in 1 .. Len(s) : AlikeAt(s[i], t[i])
  <2>1. ASSUME NEW i \in 1 .. Len(s)
        PROVE  AlikeAt(s[i], t[i])
    <3>1. CASE i \in 1 .. Len(c)
      BY <1>1, <1>2, <1>6, <3>1
    <3>2. CASE i = Len(c) + 1 \/ i = 2 * Len(c) + 2
      BY <1>1, <1>2, <1>4, <1>6, <3>2
    <3>3. CASE i > Len(c) + 1 /\ i < 2 * Len(c) + 2
      <4>1. i - (Len(c) + 1) \in 1 .. Len(c) /\ i = Len(c) + 1 + (i - (Len(c) + 1))
        BY <1>1, <1>3, <3>3
      <4>2. s[i] = c[i - (Len(c) + 1)]
        BY <1>1, <4>1
      <4>3. t[i] = b[i - (Len(c) + 1)]
        BY <1>2, <1>6, <4>1
      <4> QED BY <1>6, <4>1, <4>2, <4>3
    <3> QED BY <1>1, <1>3, <3>1, <3>2, <3>3, SMTT(30)
  <2> QED BY <1>1, <1>2, <1>6, <2>1
<1> QED BY <1>3, <1>5, <1>6 DEF s, t, Alike

LEMMA VolumeName ==
  ASSUME NEW c \in Texts, NEW r \in Roles, NEW x \in Decimals, NEW k \in 1 .. 2
  PROVE  nodeVolumeNames(c, NodeName(c, r, x))[k]
           = Around(sanitizeVolumeName(Twice(c)), r, End(x, k))
<1> DEFINE h == <<"-">>
<1> DEFINE z == Kind(k)
<1> DEFINE u == <<r>>
<1>1. /\ c \in Seq(Characters) /\ h \in Seq(Characters) /\ x \in Seq(Characters)
      /\ z \in Seq(Characters) /\ u \in Seq(Characters)
  BY Alphabet, Written, TailWritten DEF Texts
<1>2. <<"-", r, "-">> = h \o (u \o h)
  BY Alphabet
<1>3. nodeVolumeNames(c, NodeName(c, r, x))[k]
        = sanitizeVolumeName(((c \o h) \o ((c \o (h \o (u \o h))) \o x)) \o z)
  <2> DEFINE n == NodeName(c, r, x)
  <2>1. n = (c \o (h \o (u \o h))) \o x
    BY <1>2 DEF NodeName
  <2> HIDE DEF n
  <2>2. nodeVolumeNames(c, n)[k] = sanitizeVolumeName(((c \o h) \o n) \o z)
    <3>1. CASE k = 1
      BY <3>1 DEF nodeVolumeNames, Kind
    <3>2. CASE k = 2
      BY <3>2 DEF nodeVolumeNames, Kind
    <3> QED BY <3>1, <3>2
  <2> QED BY <2>1, <2>2 DEF n
<1>4. Around(Twice(c), r, End(x, k)) = (((((c \o h) \o c) \o h) \o u) \o (h \o (x \o z)))
  BY DEF Around, Twice, Start, End
<1> HIDE DEF h, z, u
<1>5. ((c \o h) \o ((c \o (h \o (u \o h))) \o x)) \o z
        = (((((c \o h) \o c) \o h) \o u) \o (h \o (x \o z)))
  <2> DEFINE Cat(s, t) == s \o t
  <2>1. \A s, t \in Texts : Cat(s, t) \in Texts
    BY ConcatProperties DEF Texts
  <2>2. \A s, t, v \in Texts : Cat(Cat(s, t), v) = Cat(s, Cat(t, v))
    BY ConcatAssociative DEF Texts
  <2>3. c \in Texts /\ h \in Texts /\ x \in Texts /\ z \in Texts /\ u \in Texts
    BY <1>1 DEF Texts
  <2> HIDE DEF Cat
  <2>4. Cat(Cat(Cat(c, h), Cat(Cat(c, Cat(h, Cat(u, h))), x)), z)
          = Cat(Cat(c, h), Cat(c, Cat(h, Cat(u, Cat(h, Cat(x, z))))))
    <3>1. Cat(Cat(u, h), Cat(x, z)) = Cat(u, Cat(h, Cat(x, z)))
      BY <2>1, <2>2, <2>3
    <3>2. Cat(Cat(h, Cat(u, h)), Cat(x, z)) = Cat(h, Cat(Cat(u, h), Cat(x, z)))
      BY <2>1, <2>2, <2>3
    <3>3. Cat(Cat(c, Cat(h, Cat(u, h))), Cat(x, z)) = Cat(c, Cat(Cat(h, Cat(u, h)), Cat(x, z)))
      BY <2>1, <2>2, <2>3
    <3>4. Cat(Cat(Cat(c, Cat(h, Cat(u, h))), x), z) = Cat(Cat(c, Cat(h, Cat(u, h))), Cat(x, z))
      BY <2>1, <2>2, <2>3
    <3>5. Cat(Cat(Cat(c, h), Cat(Cat(c, Cat(h, Cat(u, h))), x)), z)
            = Cat(Cat(c, h), Cat(Cat(Cat(c, Cat(h, Cat(u, h))), x), z))
      <4>1. Cat(c, h) \in Texts /\ Cat(Cat(c, Cat(h, Cat(u, h))), x) \in Texts
        BY <2>1, <2>3
      <4> QED BY <2>2, <2>3, <4>1
    <3> QED BY <3>1, <3>2, <3>3, <3>4, <3>5
  <2>5. Cat(Cat(Cat(Cat(Cat(c, h), c), h), u), Cat(h, Cat(x, z)))
          = Cat(Cat(c, h), Cat(c, Cat(h, Cat(u, Cat(h, Cat(x, z))))))
    <3> DEFINE e == Cat(h, Cat(x, z))
    <3>1. e \in Texts
      BY <2>1, <2>3
    <3> HIDE DEF e
    <3>2. Cat(Cat(Cat(Cat(Cat(c, h), c), h), u), e) = Cat(Cat(Cat(Cat(c, h), c), h), Cat(u, e))
      <4>1. Cat(Cat(Cat(c, h), c), h) \in Texts
        BY <2>1, <2>3
      <4> QED BY <2>2, <2>3, <3>1, <4>1
    <3>3. Cat(Cat(Cat(Cat(c, h), c), h), Cat(u, e)) = Cat(Cat(Cat(c, h), c), Cat(h, Cat(u, e)))
      BY <2>1, <2>2, <2>3, <3>1, SMTT(30)
    <3>4. Cat(Cat(Cat(c, h), c), Cat(h, Cat(u, e))) = Cat(Cat(c, h), Cat(c, Cat(h, Cat(u, e))))
      BY <2>1, <2>2, <2>3, <3>1, SMTT(30)
    <3> QED BY <3>2, <3>3, <3>4 DEF e
  <2> QED BY <2>4, <2>5 DEF Cat
<1>6. nodeVolumeNames(c, NodeName(c, r, x))[k]
        = sanitizeVolumeName(Around(Twice(c), r, End(x, k)))
  BY <1>3, <1>4, <1>5
<1>7. Twice(c) \in Texts /\ End(x, k) \in Valid
  BY TwicePlaces, TailWritten
<1> QED BY <1>6, <1>7, SanitizedAround

(* A node shares a volume's name just with the node of the same number and   *)
(* role of a cluster whose name is like its own.                             *)
LEMMA VolumesDiffer ==
  ASSUME NEW c \in Texts, NEW b \in Texts, NEW r \in Roles, NEW s \in Roles,
         NEW x \in Decimals, NEW y \in Decimals, NEW k \in 1 .. 2, NEW l \in 1 .. 2
  PROVE  nodeVolumeNames(c, NodeName(c, r, x))[k] = nodeVolumeNames(b, NodeName(b, s, y))[l]
           <=> r = s /\ x = y /\ k = l /\ Alike(c, b)
<1> DEFINE p == sanitizeVolumeName(Twice(c))
<1> DEFINE q == sanitizeVolumeName(Twice(b))
<1>1. /\ nodeVolumeNames(c, NodeName(c, r, x))[k] = Around(p, r, End(x, k))
      /\ nodeVolumeNames(b, NodeName(b, s, y))[l] = Around(q, s, End(y, l))
  BY VolumeName
<1>2. Twice(c) \in Texts /\ Twice(b) \in Texts
  BY TwicePlaces
<1>3. p \in Texts /\ q \in Texts
  BY <1>2, SanitizedName, Written
<1>4. p = q <=> Alike(c, b)
  BY <1>2, SameSanitized, TwiceAlike
<1>5. End(x, k) \in Plain /\ End(y, l) \in Plain
  BY TailWritten
<1> HIDE DEF p, q
<1>6. ASSUME Around(p, r, End(x, k)) = Around(q, s, End(y, l))
      PROVE  p = q /\ r = s /\ End(x, k) = End(y, l)
  BY <1>3, <1>5, <1>6, LastRole
<1>7. ASSUME Around(p, r, End(x, k)) = Around(q, s, End(y, l))
      PROVE  x = y /\ k = l
  BY <1>6, <1>7, TailsDiffer
<1> QED BY <1>1, <1>4, <1>6, <1>7

-----------------------------------------------------------------------------
(* The loop over the overlays (node.go:59).                                  *)

Less == {p \in Nat \X Nat : p[1] < p[2]}

LEMMA Least ==
  ASSUME NEW T \in SUBSET Nat, T # {}
  PROVE  \E n \in T : \A m \in T : n <= m
<1>1. IsWellFoundedOn(Less, Nat)
  <2>1. OpToRel(<, Nat) = Less
    BY DEF OpToRel, Less
  <2> QED BY <2>1, NatLessThanWellFounded
<1>2. PICK n \in T : \A m \in T : <<m, n>> \notin Less
  BY <1>1, WFMin
<1>3. ASSUME NEW m \in T, m < n
      PROVE  FALSE
  <2>1. <<m, n>> \in Nat \X Nat /\ <<m, n>>[1] = m /\ <<m, n>>[2] = n
    OBVIOUS
  <2> QED BY <1>2, <1>3, <2>1 DEF Less
<1> QED BY <1>3

FirstPaths == <<<<"run">>, <<"system">>, <<"tmp">>>>

(* What the loop does with overlay i after what g says of the ones before.   *)
Turn(g, i) ==
  IF i = 0 THEN FirstPaths
  ELSE IF Overlays[i] = <<"opt">> THEN g[i - 1]
  ELSE Append(g[i - 1], Overlays[i])

(* Each turn of the loop follows from the one before.                        *)
LEMMA Loop ==
  \A i \in 0 .. Len(Overlays) : Appended[i] = Turn(Appended, i)
<1>1. Len(Overlays) \in Nat
  BY OverlaysAssumption
<1> DEFINE Run(n) == \E g : g = [i \in 0 .. n |-> Turn(g, i)]
<1> DEFINE None == {n \in Nat : ~Run(n)}
<1>2. None = {}
  <2> SUFFICES ASSUME None # {}
               PROVE  FALSE
    OBVIOUS
  <2>1. PICK n \in None : \A m \in None : n <= m
    BY Least
  <2>2. n \in Nat /\ ~Run(n)
    OBVIOUS
  <2>3. CASE n = 0
    <3> DEFINE g == [i \in {0} |-> FirstPaths]
    <3>1. g = [i \in 0 .. 0 |-> Turn(g, i)]
      BY DEF Turn
    <3> QED BY <2>2, <2>3, <3>1
  <2>4. CASE n > 0
    <3>1. n - 1 \in Nat /\ n - 1 \notin None
      BY <2>1, <2>2, <2>4
    <3>2. PICK f : f = [i \in 0 .. n - 1 |-> Turn(f, i)]
      BY <3>1
    <3> DEFINE g == [i \in 0 .. n |-> IF i = n THEN Turn(f, n) ELSE f[i]]
    <3>3. ASSUME NEW i \in 0 .. n
          PROVE  g[i] = Turn(g, i)
      <4>1. CASE i = n
        <5>1. g[n - 1] = f[n - 1]
          BY <2>2, <2>4
        <5> QED BY <2>2, <2>4, <4>1, <5>1 DEF Turn
      <4>2. CASE i = 0
        BY <2>2, <2>4, <3>2, <4>2 DEF Turn
      <4>3. CASE i # n /\ i # 0
        <5>1. i \in 0 .. n - 1 /\ i - 1 \in 0 .. n /\ i - 1 # n
          BY <2>2, <4>3
        <5>2. g[i] = f[i] /\ g[i - 1] = f[i - 1]
          BY <4>3, <5>1
        <5>3. f[i] = Turn(f, i)
          BY <3>2, <5>1
        <5> QED BY <5>2, <5>3 DEF Turn
      <4> QED BY <4>1, <4>2, <4>3
    <3>4. g = [i \in 0 .. n |-> Turn(g, i)]
      BY <3>3
    <3> HIDE DEF g
    <3> QED BY <2>2, <3>4
  <2> QED BY <2>2, <2>3, <2>4
<1>3. PICK g : g = [i \in 0 .. Len(Overlays) |-> Turn(g, i)]
  BY <1>1, <1>2
<1>4. Appended = [i \in 0 .. Len(Overlays) |-> Turn(Appended, i)]
  BY <1>3 DEF Appended, Turn, FirstPaths
<1> QED BY <1>4

Paths == {<<"run">>, <<"system">>, <<"tmp">>} \cup
         ({Overlays[i] : i \in DOMAIN Overlays} \ {<<"opt">>})

(* /system is among the paths, and every overlay that is not /opt may be.    *)
LEMMA TmpfsPaths ==
  nodeTmpfsPaths \in Seq(Paths) /\ Len(nodeTmpfsPaths) >= 3 /\ nodeTmpfsPaths[2] = <<"system">>
<1> DEFINE Good(s) == s \in Seq(Paths) /\ Len(s) >= 3 /\ s[2] = <<"system">>
<1> DEFINE Bad == {i \in 0 .. Len(Overlays) : ~Good(Appended[i])}
<1>1. Len(Overlays) \in Nat /\ DOMAIN Overlays = 1 .. Len(Overlays)
  BY OverlaysAssumption
<1>2. Good(FirstPaths)
  BY DEF FirstPaths, Paths
<1>3. ASSUME NEW s, Good(s), NEW path \in Paths
      PROVE  Good(Append(s, path))
  BY <1>3
<1>4. Bad = {}
  <2> SUFFICES ASSUME Bad # {}
               PROVE  FALSE
    OBVIOUS
  <2>1. Bad \in SUBSET Nat
    BY <1>1
  <2>2. PICK n \in Bad : \A m \in Bad : n <= m
    BY <2>1, Least
  <2>3. n \in 0 .. Len(Overlays) /\ ~Good(Appended[n])
    OBVIOUS
  <2> HIDE DEF Good
  <2>4. CASE n = 0
    BY <1>2, <2>3, <2>4, Loop DEF Turn
  <2>5. CASE n # 0
    <3>1. n - 1 \in 0 .. Len(Overlays) /\ n - 1 \notin Bad /\ n \in DOMAIN Overlays
      BY <1>1, <2>2, <2>3, <2>5
    <3>2. Good(Appended[n - 1])
      BY <3>1
    <3>3. CASE Overlays[n] = <<"opt">>
      BY <2>3, <2>5, <3>2, <3>3, Loop DEF Turn
    <3>4. CASE Overlays[n] # <<"opt">>
      <4>1. Overlays[n] \in Paths
        BY <3>1, <3>4 DEF Paths
      <4> QED BY <1>3, <2>3, <2>5, <3>2, <3>4, <4>1, Loop DEF Turn
    <3> QED BY <3>3, <3>4
  <2> QED BY <2>4, <2>5
<1>5. Len(Overlays) \notin Bad
  BY <1>4
<1> QED BY <1>1, <1>5 DEF nodeTmpfsPaths

-----------------------------------------------------------------------------
(* What a path in the guest shows.                                           *)

LEMMA MountsOf ==
  ASSUME NEW cluster, NEW node, NEW domain
  PROVE  LET mounts == buildRunArgs(cluster, node, domain).mounts
             tmpfs == Len(nodeTmpfsPaths)
             volumes == nodeVolumeNames(cluster, node.name)
         IN /\ Len(mounts) = tmpfs + 2 /\ DOMAIN mounts = 1 .. tmpfs + 2
            /\ \A i \in 1 .. tmpfs : mounts[i] = Tmpfs(nodeTmpfsPaths[i])
            /\ mounts[tmpfs + 1] = Mount(volumes[1], <<"var">>)
            /\ mounts[tmpfs + 2] = Mount(volumes[2], <<"system", "state">>)
<1> DEFINE a == Mount(nodeVolumeNames(cluster, node.name)[1], <<"var">>)
<1> DEFINE b == Mount(nodeVolumeNames(cluster, node.name)[2], <<"system", "state">>)
<1> DEFINE s == [i \in DOMAIN nodeTmpfsPaths |-> Tmpfs(nodeTmpfsPaths[i])]
<1> DEFINE S == {Tmpfs(path) : path \in Paths} \cup {a, b}
<1>1. s \in Seq(S) /\ Len(s) = Len(nodeTmpfsPaths) /\ Len(s) \in Nat
      /\ \A i \in 1 .. Len(s) : s[i] = Tmpfs(nodeTmpfsPaths[i])
  BY TmpfsPaths, SMTT(30)
<1>2. buildRunArgs(cluster, node, domain).mounts = s \o <<a, b>> /\ a \in S /\ b \in S
  BY DEF buildRunArgs
<1> HIDE DEF s, S, a, b
<1>3. LET mounts == s \o <<a, b>>
      IN /\ Len(mounts) = Len(s) + 2 /\ DOMAIN mounts = 1 .. Len(s) + 2
         /\ \A i \in 1 .. Len(s) : mounts[i] = s[i]
         /\ mounts[Len(s) + 1] = a
         /\ mounts[Len(s) + 2] = b
  BY <1>1, <1>2
<1> QED BY <1>1, <1>2, <1>3 DEF a, b

LEMMA PathPrefixes ==
  /\ IsPrefix(<<"var">>, <<"var">>)
  /\ IsPrefix(<<"system">>, <<"system">>)
  /\ IsPrefix(<<"system", "state">>, <<"system", "state">>)
  /\ ~IsPrefix(<<"system", "state">>, <<"var">>)
  /\ ~IsPrefix(<<"var">>, <<"system">>)
  /\ ~IsPrefix(<<"system", "state">>, <<"system">>)
  /\ ~IsPrefix(<<"var">>, <<"opt", "cni", "bin">>)
  /\ ~IsPrefix(<<"system", "state">>, <<"opt", "cni", "bin">>)
  /\ \A path \in Paths : ~IsPrefix(path, <<"opt", "cni", "bin">>)
<1>1. /\ IsPrefix(<<"var">>, <<"var">>)
      /\ IsPrefix(<<"system">>, <<"system">>)
      /\ IsPrefix(<<"system", "state">>, <<"system", "state">>)
  BY DEF IsPrefix
<1>2. /\ ~IsPrefix(<<"system", "state">>, <<"var">>)
      /\ ~IsPrefix(<<"var">>, <<"system">>)
      /\ ~IsPrefix(<<"system", "state">>, <<"system">>)
  BY DEF IsPrefix
<1>3. \A name \in {"var", "run", "system", "tmp"} :
        ~IsPrefix(<<name>>, <<"opt", "cni", "bin">>)
  BY DEF IsPrefix
<1>4. ~IsPrefix(<<"system", "state">>, <<"opt", "cni", "bin">>)
  BY DEF IsPrefix
<1>5. ASSUME NEW path \in Paths
      PROVE  ~IsPrefix(path, <<"opt", "cni", "bin">>)
  BY <1>3, OverlaysAssumption DEF Paths
<1>6. ~IsPrefix(<<"var">>, <<"opt", "cni", "bin">>)
  BY <1>3
<1> QED BY <1>1, <1>2, <1>4, <1>5, <1>6, Zenon

LEMMA Greatest ==
  ASSUME NEW N \in Nat, NEW T \in SUBSET (1 .. N), T # {}
  PROVE  \E n \in T : \A m \in T : m <= n
<1> DEFINE U == {N - i : i \in T}
<1>1. U \in SUBSET Nat /\ U # {}
  <2>1. PICK i \in T : TRUE
    OBVIOUS
  <2>2. N - i \in U
    BY <2>1
  <2> QED BY <2>2
<1>2. PICK k \in U : \A m \in U : k <= m
  BY <1>1, Least
<1>3. PICK n \in T : k = N - n
  OBVIOUS
<1>4. ASSUME NEW m \in T
      PROVE  m <= n
  <2>1. N - n <= N - m
    BY <1>2, <1>3
  <2> QED BY <2>1
<1> QED BY <1>4

Over(mounts, path) == {i \in DOMAIN mounts : IsPrefix(mounts[i].target, path)}

LEMMA LastShows ==
  ASSUME NEW mounts, NEW N \in Nat, DOMAIN mounts = 1 .. N, NEW path,
         NEW i \in Over(mounts, path), \A j \in Over(mounts, path) : j <= i
  PROVE  Shown(mounts, path) = IF mounts[i].volume = <<>> THEN "tmpfs" ELSE mounts[i].volume
<1> DEFINE over == Over(mounts, path)
<1> DEFINE last == CHOOSE k \in over : \A j \in over : j <= k
<1>1. last \in over /\ \A j \in over : j <= last
  OBVIOUS
<1>2. last = i
  BY <1>1 DEF Over
<1>3. Shown(mounts, path) = IF mounts[last].volume = <<>> THEN "tmpfs" ELSE mounts[last].volume
  BY DEF Shown, Over
<1> QED BY <1>2, <1>3

(* What must survive is on the volumes, and the CNI plugins can be seen.     *)
LEMMA StateKept ==
  ASSUME NEW cluster, NEW node, NEW domain,
         nodeVolumeNames(cluster, node.name)[1] # <<>>,
         nodeVolumeNames(cluster, node.name)[2] # <<>>
  PROVE  LET mounts == buildRunArgs(cluster, node, domain).mounts
             volumes == nodeVolumeNames(cluster, node.name)
         IN /\ Shown(mounts, <<"var">>) = volumes[1]
            /\ Shown(mounts, <<"system", "state">>) = volumes[2]
            /\ Shown(mounts, <<"system">>) = "tmpfs"
            /\ Shown(mounts, <<"opt", "cni", "bin">>) = "image"
<1> DEFINE mounts == buildRunArgs(cluster, node, domain).mounts
<1> DEFINE volumes == nodeVolumeNames(cluster, node.name)
<1> DEFINE P == Len(nodeTmpfsPaths)
<1>1. /\ Len(mounts) = P + 2 /\ DOMAIN mounts = 1 .. P + 2
      /\ \A i \in 1 .. P : mounts[i] = Tmpfs(nodeTmpfsPaths[i])
      /\ mounts[P + 1] = Mount(volumes[1], <<"var">>)
      /\ mounts[P + 2] = Mount(volumes[2], <<"system", "state">>)
  BY MountsOf
<1>2. P \in Nat /\ P >= 3 /\ \A i \in 1 .. P : nodeTmpfsPaths[i] \in Paths
  BY TmpfsPaths
<1> HIDE DEF mounts, volumes, P
<1>3. /\ \A i \in 1 .. P : mounts[i].target \in Paths /\ mounts[i].volume = <<>>
      /\ mounts[P + 1].target = <<"var">> /\ mounts[P + 1].volume = volumes[1]
      /\ mounts[P + 2].target = <<"system", "state">> /\ mounts[P + 2].volume = volumes[2]
  <2>1. ASSUME NEW i \in 1 .. P
        PROVE  mounts[i].target \in Paths /\ mounts[i].volume = <<>>
    <3>1. mounts[i] = Tmpfs(nodeTmpfsPaths[i]) /\ nodeTmpfsPaths[i] \in Paths
      BY <1>1, <1>2
    <3> QED BY <3>1 DEF Tmpfs
  <2>2. mounts[P + 1].target = <<"var">> /\ mounts[P + 1].volume = volumes[1]
    BY <1>1 DEF Mount
  <2>3. mounts[P + 2].target = <<"system", "state">> /\ mounts[P + 2].volume = volumes[2]
    BY <1>1 DEF Mount
  <2> QED BY <2>1, <2>2, <2>3
<1>4. \A i \in DOMAIN mounts : i \in 1 .. P \/ i = P + 1 \/ i = P + 2
  BY <1>1, <1>2
<1>5. volumes[1] # <<>> /\ volumes[2] # <<>>
  BY DEF volumes
<1>10. 2 \in DOMAIN mounts /\ P + 1 \in DOMAIN mounts /\ P + 2 \in DOMAIN mounts
  BY <1>1, <1>2
<1>6. Shown(mounts, <<"var">>) = volumes[1]
  <2>1. P + 1 \in Over(mounts, <<"var">>) /\ P + 2 \notin Over(mounts, <<"var">>)
    <3>1. /\ IsPrefix(mounts[P + 1].target, <<"var">>)
          /\ ~IsPrefix(mounts[P + 2].target, <<"var">>)
      BY <1>3, PathPrefixes
    <3> QED BY <1>10, <3>1 DEF Over
  <2>2. \A j \in Over(mounts, <<"var">>) : j <= P + 1
    BY <1>2, <1>4, <2>1 DEF Over
  <2> QED BY <1>1, <1>2, <1>3, <1>5, <2>1, <2>2, LastShows
<1>7. Shown(mounts, <<"system", "state">>) = volumes[2]
  <2>1. P + 2 \in Over(mounts, <<"system", "state">>)
    <3>1. IsPrefix(mounts[P + 2].target, <<"system", "state">>)
      BY <1>3, PathPrefixes
    <3> QED BY <1>10, <3>1 DEF Over
  <2>2. \A j \in Over(mounts, <<"system", "state">>) : j <= P + 2
    BY <1>2, <1>4 DEF Over
  <2> QED BY <1>1, <1>2, <1>3, <1>5, <2>1, <2>2, LastShows
<1>8. Shown(mounts, <<"system">>) = "tmpfs"
  <2> DEFINE over == Over(mounts, <<"system">>)
  <2>1. P + 1 \notin over /\ P + 2 \notin over
    <3>1. /\ ~IsPrefix(mounts[P + 1].target, <<"system">>)
          /\ ~IsPrefix(mounts[P + 2].target, <<"system">>)
      BY <1>3, PathPrefixes
    <3> QED BY <3>1 DEF Over
  <2>2. over \in SUBSET (1 .. P + 2)
    BY <1>1 DEF Over
  <2>3. 2 \in over
    <3>1. mounts[2].target = <<"system">>
      <4>1. mounts[2] = Tmpfs(nodeTmpfsPaths[2])
        BY <1>1, <1>2
      <4> QED BY <4>1, TmpfsPaths DEF Tmpfs
    <3>2. IsPrefix(mounts[2].target, <<"system">>)
      BY <3>1, PathPrefixes
    <3> QED BY <1>10, <3>2 DEF Over
  <2>4. PICK i \in over : \A j \in over : j <= i
    <3>1. P + 2 \in Nat /\ over # {}
      BY <1>2, <2>3
    <3> HIDE DEF over
    <3> QED BY <2>2, <3>1, Greatest
  <2>5. i \in 1 .. P
    BY <1>4, <2>1, <2>4 DEF Over
  <2> QED BY <1>1, <1>2, <1>3, <2>4, <2>5, LastShows
<1>9. Shown(mounts, <<"opt", "cni", "bin">>) = "image"
  <2>1. \A i \in DOMAIN mounts : ~IsPrefix(mounts[i].target, <<"opt", "cni", "bin">>)
    BY <1>3, <1>4, PathPrefixes
  <2> QED BY <2>1 DEF Shown
<1> QED BY <1>6, <1>7, <1>8, <1>9 DEF mounts, volumes

-----------------------------------------------------------------------------
(* Memory.                                                                   *)

LEMMA Division ==
  ASSUME NEW a \in Nat, NEW m \in Nat \ {0}
  PROVE  (a * m) \div m = a
<1> DEFINE q == (a * m) \div m
<1>1. a * m \in Nat
  OBVIOUS
<1>2. q \in Int /\ m * q <= a * m /\ a * m < m * q + m
  BY <1>1
<1> HIDE DEF q
<1>3. ASSUME q < a
      PROVE  FALSE
  <2>1. q + 1 <= a
    BY <1>2, <1>3
  <2>2. m * (q + 1) <= m * a
    BY <1>2, <2>1
  <2> QED BY <1>2, <2>2
<1>4. ASSUME q > a
      PROVE  FALSE
  <2>1. q >= a + 1
    BY <1>2, <1>4
  <2>2. m * q >= m * (a + 1)
    BY <1>2, <2>1
  <2> QED BY <1>2, <2>2
<1> QED BY <1>2, <1>3, <1>4 DEF q

LEMMA LimitOf ==
  ASSUME NEW asked \in Int, asked > 0, asked * Mib < HalfRange
  PROVE  MemoryLimit(Int64(asked * Mib)) = {asked}
<1>1. Mib \in Nat \ {0} /\ HalfRange \in Nat \ {0} /\ asked \in Nat
  BY LaunchRecipeAssumption
<1> DEFINE bytes == asked * Mib
<1>2. bytes \in Nat /\ bytes > 0 /\ bytes < HalfRange
  BY <1>1
<1>3. bytes \div Mib = asked
  BY <1>1, Division
<1> HIDE DEF bytes
<1>4. Int64(bytes) = bytes
  BY <1>1, <1>2 DEF Int64
<1>5. MemoryLimit(bytes) = {asked}
  BY <1>2, <1>3 DEF MemoryLimit
<1> QED BY <1>4, <1>5 DEF bytes

-----------------------------------------------------------------------------
(* The inductive invariant: a node is what the flags ask for, and is         *)
(* launched as what it is.                                                   *)

Requested(f, role, i) ==
  [name |-> NodeName(f.name, role, Indexes[i]), role |-> role, index |-> i,
   memory |-> Int64((IF role = "worker" THEN f.workerMemory ELSE f.cpMemory) * Mib)]
RequestsOf(f) == UNION {{Requested(f, role, i) : i \in DOMAIN Indexes} : role \in Roles}
RunsOf(f) == {buildRunArgs(f.name, node, f.dnsDomain) : node \in RequestsOf(f)}

RecipeInv ==
  /\ flags \in Flags
  /\ nodes \in Seq(RequestsOf(flags))
  /\ launched \in Seq(RunsOf(flags))
  /\ pc # "launching" => launched = <<>>
  /\ Len(launched) <= Len(nodes)
  /\ \A n \in DOMAIN launched :
       launched[n] = buildRunArgs(flags.name, nodes[n], flags.dnsDomain)

LEMMA RequestsTyped ==
  ASSUME flags \in Flags, NEW role \in Roles, NEW count \in Counts, NEW memory,
         memory = IF role = "worker" THEN flags.workerMemory ELSE flags.cpMemory
  PROVE  Requests(role, count, memory) \in Seq(RequestsOf(flags))
<1>1. count \in Int /\ count <= Len(Indexes) /\ Len(Indexes) \in Nat
  BY LaunchRecipeAssumption, IndexesAssumption
<1>2. DOMAIN Indexes = 1 .. Len(Indexes)
  BY IndexesAssumption
<1>3. Requests(role, count, memory) = [i \in 1 .. count |-> Requested(flags, role, i)]
  BY DEF Requests, Requested
<1>4. \A i \in 1 .. count : Requested(flags, role, i) \in RequestsOf(flags)
  BY <1>1, <1>2 DEF RequestsOf
<1>5. PICK k \in Nat : 1 .. count = 1 .. k
  <2>1. CASE count >= 0
    BY <1>1, <2>1
  <2>2. CASE count < 0
    <3>1. 1 .. count = 1 .. 0
      BY <1>1, <2>2
    <3> QED BY <3>1
  <2> QED BY <1>1, <2>1, <2>2
<1>6. \A i \in 1 .. k : Requested(flags, role, i) \in RequestsOf(flags)
  BY <1>4, <1>5
<1>7. [i \in 1 .. k |-> Requested(flags, role, i)] \in Seq(RequestsOf(flags))
  BY <1>6
<1> QED BY <1>3, <1>5, <1>7

LEMMA RecipeInit == Init => RecipeInv
BY DEF Init, RecipeInv

LEMMA RecipeStep ==
  ASSUME RecipeInv, [Next]_vars
  PROVE  RecipeInv'
<1>1. CASE MakeRequests
  <2>1. flags' = flags /\ launched' = launched /\ launched = <<>> /\ pc' # "launching"
    BY <1>1 DEF MakeRequests, RecipeInv
  <2>2. nodes' \in Seq(RequestsOf(flags))
    <3>1. CASE flags.controlplanes + flags.workers < 0
      BY <1>1, <3>1 DEF MakeRequests, RecipeInv
    <3>2. CASE ~(flags.controlplanes + flags.workers < 0)
      <4>1. flags.controlplanes \in Counts /\ flags.workers \in Counts
        BY DEF RecipeInv, Flags
      <4>2. Requests("controlplane", flags.controlplanes, flags.cpMemory) \in Seq(RequestsOf(flags))
        BY <4>1, RequestsTyped DEF Roles, RecipeInv
      <4>3. Requests("worker", flags.workers, flags.workerMemory) \in Seq(RequestsOf(flags))
        BY <4>1, RequestsTyped DEF Roles, RecipeInv
      <4>4. nodes' = Requests("controlplane", flags.controlplanes, flags.cpMemory) \o
                     Requests("worker", flags.workers, flags.workerMemory)
        BY <1>1, <3>2 DEF MakeRequests
      <4> QED BY <4>2, <4>3, <4>4, ConcatProperties
    <3> QED BY <3>1, <3>2
  <2>3. Len(nodes') \in Nat
    BY <2>2, LenProperties
  <2> QED BY <2>1, <2>2, <2>3 DEF RecipeInv
<1>2. CASE ValidateClusterRequest
  BY <1>2 DEF ValidateClusterRequest, RecipeInv
<1>3. CASE RunNode
  <2> DEFINE node == nodes[Len(launched) + 1]
  <2> DEFINE new == buildRunArgs(flags.name, node, flags.dnsDomain)
  <2>1. /\ pc = "launching" /\ UNCHANGED <<pc, flags, nodes>>
        /\ Len(launched) < Len(nodes) /\ launched' = Append(launched, new)
    BY <1>3 DEF RunNode
  <2>2. Len(launched) \in Nat /\ Len(nodes) \in Nat
    BY LenProperties DEF RecipeInv
  <2>3. node \in RequestsOf(flags)
    BY <2>1, <2>2, ElementOfSeq DEF RecipeInv
  <2>4. new \in RunsOf(flags)
    BY <2>3 DEF RunsOf
  <2> HIDE DEF new
  <2>5. /\ launched' \in Seq(RunsOf(flags)) /\ Len(launched') = Len(launched) + 1
        /\ \A n \in DOMAIN launched : launched'[n] = launched[n]
        /\ DOMAIN launched' = 1 .. Len(launched) + 1 /\ DOMAIN launched = 1 .. Len(launched)
        /\ launched'[Len(launched) + 1] = new
    BY <2>1, <2>4 DEF RecipeInv
  <2>6. ASSUME NEW n \in DOMAIN launched'
        PROVE  launched'[n] = buildRunArgs(flags.name, nodes[n], flags.dnsDomain)
    <3>1. CASE n \in DOMAIN launched
      BY <2>5, <3>1 DEF RecipeInv
    <3>2. CASE n = Len(launched) + 1
      BY <2>5, <3>2 DEF new
    <3> QED BY <2>2, <2>5, <3>1, <3>2
  <2> QED BY <2>1, <2>2, <2>5, <2>6 DEF RecipeInv
<1>4. CASE UNCHANGED vars
  BY <1>4 DEF vars, RecipeInv
<1> QED BY <1>1, <1>2, <1>3, <1>4 DEF Next

(* Every launch is of a node that the flags ask for, as buildRunArgs         *)
(* describes it.                                                             *)
THEOREM RecipeHeld == Spec => []RecipeInv
<1>1. Init => RecipeInv
  BY RecipeInit
<1>2. RecipeInv /\ [Next]_vars => RecipeInv'
  BY RecipeStep
<1> QED BY <1>1, <1>2, PTL DEF Spec

(* The node behind a launch.                                                 *)
LEMMA Behind ==
  ASSUME RecipeInv, NEW n \in DOMAIN launched
  PROVE  /\ flags \in Flags
         /\ nodes[n].role \in Roles /\ nodes[n].index \in DOMAIN Indexes
         /\ nodes[n] = Requested(flags, nodes[n].role, nodes[n].index)
         /\ launched[n] = buildRunArgs(flags.name, nodes[n], flags.dnsDomain)
<1>1. /\ nodes \in Seq(RequestsOf(flags)) /\ launched \in Seq(RunsOf(flags))
      /\ Len(launched) <= Len(nodes)
  BY DEF RecipeInv
<1>2. n \in 1 .. Len(nodes)
  <2>1. Len(launched) \in Nat /\ Len(nodes) \in Nat /\ DOMAIN launched = 1 .. Len(launched)
    BY <1>1, LenProperties
  <2> QED BY <1>1, <2>1
<1>3. nodes[n] \in RequestsOf(flags)
  BY <1>1, <1>2, ElementOfSeq
<1>4. PICK role \in Roles : \E i \in DOMAIN Indexes : nodes[n] = Requested(flags, role, i)
  BY <1>3 DEF RequestsOf
<1>5. PICK i \in DOMAIN Indexes : nodes[n] = Requested(flags, role, i)
  BY <1>4
<1>6. nodes[n].role = role /\ nodes[n].index = i
  BY <1>5 DEF Requested
<1> QED BY <1>5, <1>6 DEF RecipeInv

LEMMA VolumesExist ==
  ASSUME NEW c \in Texts, NEW r \in Roles, NEW x \in Decimals, NEW k \in 1 .. 2
  PROVE  nodeVolumeNames(c, NodeName(c, r, x))[k] # <<>>
<1> DEFINE p == sanitizeVolumeName(Twice(c))
<1>1. p \in Valid /\ r \in Words /\ End(x, k) \in Valid
  BY TwicePlaces, SanitizedName, TailWritten, Alphabet
<1> HIDE DEF p
<1>2. Len(Around(p, r, End(x, k))) = Len(p) + 1 + Len(End(x, k))
  BY <1>1, AroundPlaces
<1>3. Len(p) \in Nat /\ Len(End(x, k)) \in Nat
  BY <1>1, LenProperties DEF Valid
<1>4. Around(p, r, End(x, k)) # <<>>
  <2>1. Len(Around(p, r, End(x, k))) # 0
    BY <1>2, <1>3
  <2> QED BY <2>1
<1> QED BY <1>4, VolumeName DEF p

LEMMA FlagsTyped ==
  ASSUME flags \in Flags
  PROVE  flags.name \in ClusterNames /\ flags.name \in Texts /\ flags.dnsDomain \in DNSDomains
<1>1. flags.name \in ClusterNames /\ flags.dnsDomain \in DNSDomains
  BY DEF Flags
<1> QED BY <1>1, AlphabetAssumption DEF Texts

LEMMA IndexTyped == \A i \in DOMAIN Indexes : Indexes[i] \in Decimals
BY IndexesAssumption DEF Decimals

LEMMA ApartNow ==
  ASSUME DNSDomains \subseteq Plain, RecipeInv
  PROVE  NamesApart
<1> SUFFICES ASSUME NEW n \in DOMAIN launched, NEW cluster \in ClusterNames,
                    NEW role \in Roles, NEW i \in DOMAIN Indexes
             PROVE  LET other == NodeName(cluster, role, Indexes[i])
                        same == role = nodes[n].role /\ i = nodes[n].index
                        mine == launched[n].mounts
                    IN /\ \A domain \in DNSDomains :
                            nodeFQDN(other, domain) = launched[n].name <=>
                              same /\ cluster = flags.name /\ domain = flags.dnsDomain
                       /\ \A k, l \in 1 .. 2 :
                            mine[Len(mine) - 2 + k].volume = nodeVolumeNames(cluster, other)[l] <=>
                              same /\ k = l /\ Alike(cluster, flags.name)
  BY DEF NamesApart
<1> DEFINE own == nodes[n].role
<1> DEFINE j == nodes[n].index
<1> DEFINE x == Indexes[i]
<1> DEFINE y == Indexes[j]
<1> DEFINE name == NodeName(flags.name, own, y)
<1> DEFINE mine == launched[n].mounts
<1>1. /\ own \in Roles /\ j \in DOMAIN Indexes /\ nodes[n] = Requested(flags, own, j)
      /\ launched[n] = buildRunArgs(flags.name, nodes[n], flags.dnsDomain)
  BY Behind
<1>2. nodes[n].name = name
  BY <1>1 DEF Requested
<1>3. /\ flags.name \in ClusterNames /\ flags.name \in Texts
      /\ flags.dnsDomain \in DNSDomains /\ flags.dnsDomain \in Plain
  BY FlagsTyped, Behind
<1>4. cluster \in Texts /\ x \in Decimals /\ y \in Decimals
  BY <1>1, IndexTyped, AlphabetAssumption DEF Texts
<1>5. x = y <=> i = j
  BY <1>1, IndexesAssumption
<1>6. launched[n].name = nodeFQDN(name, flags.dnsDomain)
  BY <1>1, <1>2 DEF buildRunArgs
<1>7. \A k \in 1 .. 2 : mine[Len(mine) - 2 + k].volume = nodeVolumeNames(flags.name, name)[k]
  <2> DEFINE mounts == buildRunArgs(flags.name, nodes[n], flags.dnsDomain).mounts
  <2> DEFINE volumes == nodeVolumeNames(flags.name, name)
  <2> DEFINE P == Len(nodeTmpfsPaths)
  <2>1. /\ Len(mounts) = P + 2
        /\ mounts[P + 1] = Mount(volumes[1], <<"var">>)
        /\ mounts[P + 2] = Mount(volumes[2], <<"system", "state">>)
    BY <1>2, MountsOf
  <2>2. mine = mounts
    BY <1>1
  <2>3. P \in Nat
    BY TmpfsPaths, LenProperties
  <2> HIDE DEF mine, mounts, volumes, P
  <2>4. mine[Len(mine) - 2 + 1].volume = volumes[1] /\ mine[Len(mine) - 2 + 2].volume = volumes[2]
    BY <2>1, <2>2, <2>3 DEF Mount
  <2> QED BY <2>4 DEF volumes
<1> HIDE DEF own, j, x, y, name, mine
<1>8. ASSUME NEW domain \in DNSDomains
      PROVE  nodeFQDN(NodeName(cluster, role, x), domain) = launched[n].name <=>
               (role = own /\ i = j) /\ cluster = flags.name /\ domain = flags.dnsDomain
  <2>1. domain \in Plain
    OBVIOUS
  <2>2. ASSUME nodeFQDN(NodeName(cluster, role, x), domain) = launched[n].name
        PROVE  cluster = flags.name /\ role = own /\ x = y /\ domain = flags.dnsDomain
    BY <1>1, <1>3, <1>4, <1>6, <2>1, <2>2, NamesDiffer DEF name
  <2>3. ASSUME role = own, x = y, cluster = flags.name, domain = flags.dnsDomain
        PROVE  nodeFQDN(NodeName(cluster, role, x), domain) = launched[n].name
    BY <1>6, <2>3 DEF name
  <2> QED BY <1>5, <2>2, <2>3
<1>9. ASSUME NEW k \in 1 .. 2, NEW l \in 1 .. 2
      PROVE  mine[Len(mine) - 2 + k].volume
                 = nodeVolumeNames(cluster, NodeName(cluster, role, x))[l] <=>
               (role = own /\ i = j) /\ k = l /\ Alike(cluster, flags.name)
  <2>1. nodeVolumeNames(cluster, NodeName(cluster, role, x))[l] = nodeVolumeNames(flags.name, name)[k]
          <=> role = own /\ x = y /\ l = k /\ Alike(cluster, flags.name)
    BY <1>1, <1>3, <1>4, VolumesDiffer DEF name
  <2> QED BY <1>5, <1>7, <2>1
<1> QED BY <1>8, <1>9 DEF own, j, x, mine

(* NamesApart, for every set of cluster names and every number of nodes, as  *)
(* long as no DNS domain holds "controlplane" or "worker": with one that     *)
(* does, a node can be called what a node of another cluster is called.      *)
THEOREM NodesApart ==
  ASSUME DNSDomains \subseteq Plain
  PROVE  Spec => []NamesApart
<1>1. RecipeInv => NamesApart
  BY ApartNow
<1> QED BY <1>1, RecipeHeld, PTL

(* A node gets the memory asked for, to the MB, whatever int64 wraps at.     *)
THEOREM MemoryAsAsked == Spec => []LimitAsAsked
<1>1. RecipeInv => LimitAsAsked
  <2> SUFFICES ASSUME RecipeInv, NEW n \in DOMAIN launched,
                      NEW asked,
                      asked = IF nodes[n].role = "worker" THEN flags.workerMemory ELSE flags.cpMemory,
                      asked > 0, asked * Mib < HalfRange
               PROVE  launched[n].memory = {asked}
    BY DEF LimitAsAsked
  <2>1. /\ flags \in Flags /\ nodes[n] = Requested(flags, nodes[n].role, nodes[n].index)
        /\ launched[n] = buildRunArgs(flags.name, nodes[n], flags.dnsDomain)
    BY Behind
  <2>2. asked \in Int
    <3>1. flags.workerMemory \in Memories /\ flags.cpMemory \in Memories
      BY <2>1 DEF Flags
    <3>2. Memories \subseteq Int
      BY LaunchRecipeAssumption
    <3> QED BY <3>1, <3>2
  <2>3. nodes[n].memory = Int64(asked * Mib)
    BY <2>1 DEF Requested
  <2>4. launched[n].memory = MemoryLimit(nodes[n].memory)
    BY <2>1 DEF buildRunArgs
  <2> QED BY <2>2, <2>3, <2>4, LimitOf
<1> QED BY <1>1, RecipeHeld, PTL

(* /var and /system/state show a node's own volumes, each its own, /system   *)
(* is writable, and nothing hides the image's CNI plugins: for every list of *)
(* overlays in which only /opt lies above them.                              *)
THEOREM StateHeld == Spec => []StateOnVolumes
<1>1. RecipeInv => StateOnVolumes
  <2> SUFFICES ASSUME RecipeInv, NEW n \in DOMAIN launched
               PROVE  LET mounts == launched[n].mounts
                          volumes == nodeVolumeNames(flags.name, nodes[n].name)
                      IN /\ Shown(mounts, <<"var">>) = volumes[1]
                         /\ Shown(mounts, <<"system", "state">>) = volumes[2]
                         /\ Shown(mounts, <<"system">>) = "tmpfs"
                         /\ Shown(mounts, <<"opt", "cni", "bin">>) = "image"
    BY DEF StateOnVolumes
  <2>1. /\ nodes[n].role \in Roles /\ nodes[n].index \in DOMAIN Indexes
        /\ nodes[n] = Requested(flags, nodes[n].role, nodes[n].index)
        /\ launched[n] = buildRunArgs(flags.name, nodes[n], flags.dnsDomain)
    BY Behind
  <2>2. nodes[n].name = NodeName(flags.name, nodes[n].role, Indexes[nodes[n].index])
    BY <2>1 DEF Requested
  <2>3. flags.name \in Texts
    BY FlagsTyped, Behind
  <2>4. /\ nodeVolumeNames(flags.name, nodes[n].name)[1] # <<>>
        /\ nodeVolumeNames(flags.name, nodes[n].name)[2] # <<>>
    BY <2>1, <2>2, <2>3, IndexTyped, VolumesExist
  <2> QED BY <2>1, <2>4, StateKept
<1> QED BY <1>1, RecipeHeld, PTL
=============================================================================

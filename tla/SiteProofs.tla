----------------------------- MODULE SiteProofs -----------------------------
(***************************************************************************)
(* Proofs about Site and the modules it composes, for requests, pieces and *)
(* configurations of any length: however a request is cut the parser makes *)
(* the same of it, a request goes to the longest location that covers it,  *)
(* and which responses a client finds the end of.                          *)
(***************************************************************************)
EXTENDS Site, FiniteSetTheorems, SequenceTheorems, TLAPS

-----------------------------------------------------------------------------
(* Induction                                                                *)

\* Natural numbers have least elements, so a set that holds 0 and is closed
\* under successor holds them all.
LEMMA Induction ==
    ASSUME NEW S, 0 \in S, \A n \in Nat : n \in S => n + 1 \in S
    PROVE  Nat \subseteq S
<1> DEFINE R == OpToRel(<, Nat)
<1> SUFFICES ASSUME Nat \ S # {} PROVE FALSE
  OBVIOUS
<1>1. IsWellFoundedOn(R, Nat)
  BY NatLessThanWellFounded
<1> HIDE DEF R
<1>2. PICK x \in Nat \ S : \A y \in Nat \ S : ~ (<<y, x>> \in R)
  BY <1>1, WFMin
<1>3. x # 0 /\ x - 1 \in Nat /\ x - 1 \notin S
  OBVIOUS
<1>4. <<x - 1, x>> \in R
  BY <1>3 DEF R, OpToRel
<1> QED
  BY <1>2, <1>3, <1>4

\* A set of natural numbers has a least element.
LEMMA Least ==
    ASSUME NEW S \in SUBSET Nat, S # {}
    PROVE  Min(S) \in S /\ \A m \in S : Min(S) <= m
<1> DEFINE R == OpToRel(<, Nat)
<1>1. IsWellFoundedOn(R, Nat)
  BY NatLessThanWellFounded
<1> HIDE DEF R
<1>2. PICK x \in S : \A y \in S : ~ (<<y, x>> \in R)
  BY <1>1, WFMin
<1>3. \A y \in S : x <= y
  <2> SUFFICES ASSUME NEW y \in S, y < x PROVE FALSE
    OBVIOUS
  <2>1. <<y, x>> \in R
    BY DEF R, OpToRel
  <2> QED
    BY <1>2, <2>1
<1> QED
  BY <1>3 DEF Min

-----------------------------------------------------------------------------
(* Sequences                                                                *)

\* The two parts of a sequence cut after place k.
LEMMA Parts ==
    ASSUME NEW U, NEW s \in Seq(U), NEW k \in 0..Len(s)
    PROVE  /\ SubSeq(s, 1, k) \in Seq(U) /\ Len(SubSeq(s, 1, k)) = k
           /\ \A i \in 1..k : SubSeq(s, 1, k)[i] = s[i]
           /\ SubSeq(s, k + 1, Len(s)) \in Seq(U) /\ Len(SubSeq(s, k + 1, Len(s))) = Len(s) - k
           /\ \A i \in 1..(Len(s) - k) : SubSeq(s, k + 1, Len(s))[i] = s[k + i]
<1>1. \A i \in 1..Len(s) : s[i] \in U
  OBVIOUS
<1>2. \A i \in 1..k : s[i] \in U
  OBVIOUS
<1>3. \A i \in (k + 1)..Len(s) : s[i] \in U
  OBVIOUS
<1>4. k \in Int /\ k + 1 \in Int /\ Len(s) \in Int /\ 1 \in Int
  OBVIOUS
<1>5. /\ SubSeq(s, 1, k) \in Seq(U) /\ Len(SubSeq(s, 1, k)) = IF 1 <= k THEN k - 1 + 1 ELSE 0
      /\ \A i \in 1..(k - 1 + 1) : SubSeq(s, 1, k)[i] = s[1 + i - 1]
  BY <1>2, <1>4, SubSeqProperties
<1>6. /\ SubSeq(s, k + 1, Len(s)) \in Seq(U)
      /\ Len(SubSeq(s, k + 1, Len(s))) = IF k + 1 <= Len(s) THEN Len(s) - (k + 1) + 1 ELSE 0
      /\ \A i \in 1..(Len(s) - (k + 1) + 1) :
            SubSeq(s, k + 1, Len(s))[i] = s[(k + 1) + i - 1]
  BY <1>3, <1>4, SubSeqProperties
<1>7. \A i \in 1..k : i \in 1..(k - 1 + 1) /\ 1 + i - 1 = i
  OBVIOUS
<1>8. \A i \in 1..(Len(s) - k) :
         i \in 1..(Len(s) - (k + 1) + 1) /\ (k + 1) + i - 1 = k + i
  OBVIOUS
<1>9. Len(SubSeq(s, 1, k)) = k /\ Len(SubSeq(s, k + 1, Len(s))) = Len(s) - k
  BY <1>5, <1>6
<1>10. \A i \in 1..k : SubSeq(s, 1, k)[i] = s[i]
  BY <1>5, <1>7, Zenon
<1>11. \A i \in 1..(Len(s) - k) : SubSeq(s, k + 1, Len(s))[i] = s[k + i]
  BY <1>6, <1>8, Zenon
<1> QED
  BY <1>5, <1>6, <1>9, <1>10, <1>11, Zenon

\* Cutting a sequence that goes on.
LEMMA PartsOfConcat ==
    ASSUME NEW U, NEW s \in Seq(U), NEW d \in Seq(U), NEW k \in 0..Len(s)
    PROVE  /\ SubSeq(s \o d, 1, k) = SubSeq(s, 1, k)
           /\ SubSeq(s \o d, k + 1, Len(s \o d)) = SubSeq(s, k + 1, Len(s)) \o d
<1> DEFINE all == s \o d
           a == SubSeq(s, k + 1, Len(s))
           b == SubSeq(all, k + 1, Len(all))
<1>1. /\ all \in Seq(U) /\ Len(all) = Len(s) + Len(d)
      /\ \A i \in 1..(Len(s) + Len(d)) :
            all[i] = IF i <= Len(s) THEN s[i] ELSE d[i - Len(s)]
  BY ConcatProperties
<1>2. Len(s) \in Nat /\ Len(d) \in Nat
  OBVIOUS
<1> HIDE DEF all
<1>3. k \in 0..Len(all) /\ k \in Nat
  BY <1>1, <1>2
<1>4. /\ SubSeq(all, 1, k) \in Seq(U) /\ Len(SubSeq(all, 1, k)) = k
      /\ \A i \in 1..k : SubSeq(all, 1, k)[i] = all[i]
      /\ b \in Seq(U) /\ Len(b) = Len(all) - k
      /\ \A i \in 1..(Len(all) - k) : b[i] = all[k + i]
  BY <1>1, <1>3, Parts
<1>5. /\ SubSeq(s, 1, k) \in Seq(U) /\ Len(SubSeq(s, 1, k)) = k
      /\ \A i \in 1..k : SubSeq(s, 1, k)[i] = s[i]
      /\ a \in Seq(U) /\ Len(a) = Len(s) - k
      /\ \A i \in 1..(Len(s) - k) : a[i] = s[k + i]
  BY Parts
<1> HIDE DEF a, b
<1>6. SubSeq(all, 1, k) = SubSeq(s, 1, k)
  <2>1. ASSUME NEW i \in 1..k PROVE SubSeq(all, 1, k)[i] = SubSeq(s, 1, k)[i]
    <3>1. i \in 1..(Len(s) + Len(d)) /\ i <= Len(s)
      BY <1>2
    <3>2. all[i] = s[i]
      BY <1>1, <3>1
    <3> QED
      BY <1>4, <1>5, <3>2, Zenon
  <2> QED
    BY <1>4, <1>5, <2>1, SeqEqual
<1>7. /\ a \o d \in Seq(U) /\ Len(a \o d) = Len(a) + Len(d)
      /\ \A i \in 1..(Len(a) + Len(d)) :
            (a \o d)[i] = IF i <= Len(a) THEN a[i] ELSE d[i - Len(a)]
  BY <1>5, ConcatProperties
<1>8. Len(b) = Len(a \o d) /\ Len(b) = Len(s) + Len(d) - k
  BY <1>1, <1>2, <1>3, <1>4, <1>5, <1>7
<1>9. ASSUME NEW i \in 1..Len(b) PROVE b[i] = (a \o d)[i]
  <2>1. /\ i \in 1..(Len(all) - k) /\ i \in 1..(Len(a) + Len(d))
        /\ k + i \in 1..(Len(s) + Len(d))
    <3> DEFINE l == Len(s) + Len(d)
               h == Len(a) + Len(d)
    <3>1. /\ Len(b) = l - k /\ Len(all) = l /\ h = l - k
          /\ l \in Nat /\ k \in Nat /\ i \in 1..Len(b)
      <4>1. Len(b) = l - k /\ Len(all) = l
        BY <1>1, <1>8
      <4>2. Len(b) = h
        BY <1>7, <1>8, Zenon
      <4>3. l \in Nat
        BY <1>2
      <4> QED
        BY <1>3, <4>1, <4>2, <4>3, Zenon
    <3> HIDE DEF l, h
    <3>2. i \in 1..(Len(all) - k) /\ i \in 1..h /\ k + i \in 1..l
      BY <3>1
    <3> QED
      BY <3>2 DEF l, h
  <2>2. b[i] = IF k + i <= Len(s) THEN s[k + i] ELSE d[(k + i) - Len(s)]
    BY <1>1, <1>4, <2>1, Zenon
  <2>3. (a \o d)[i] = IF i <= Len(a) THEN a[i] ELSE d[i - Len(a)]
    BY <1>7, <2>1, Zenon
  <2>4. CASE i <= Len(a)
    <3>1. i \in 1..(Len(s) - k) /\ k + i <= Len(s)
      BY <1>2, <1>3, <1>5, <2>4
    <3>2. a[i] = s[k + i]
      BY <1>5, <3>1, Zenon
    <3> QED
      BY <2>2, <2>3, <2>4, <3>1, <3>2, Zenon
  <2>5. CASE ~(i <= Len(a))
    <3>1. ~(k + i <= Len(s)) /\ (k + i) - Len(s) = i - Len(a)
      BY <1>2, <1>3, <1>5, <2>5
    <3> QED
      BY <2>2, <2>3, <2>5, <3>1, Zenon
  <2> QED
    BY <2>4, <2>5
<1>10. b = a \o d
  BY <1>4, <1>7, <1>8, <1>9, SeqEqual
<1> QED
  BY <1>6, <1>10 DEF all, a, b

\* A first part of a first part, and the whole as one.
LEMMA Rejoin ==
    ASSUME NEW U, NEW s \in Seq(U), NEW n \in 0..Len(s), NEW k \in 0..n
    PROVE  SubSeq(s, 1, k) \o SubSeq(s, k + 1, n) = SubSeq(s, 1, n)
<1>1. k \in 0..Len(s) /\ k \in Nat /\ n \in Nat
  OBVIOUS
<1> DEFINE a == SubSeq(s, 1, k)
           b == SubSeq(s, k + 1, n)
           c == SubSeq(s, 1, n)
<1>2. /\ a \in Seq(U) /\ Len(a) = k /\ \A i \in 1..k : a[i] = s[i]
      /\ c \in Seq(U) /\ Len(c) = n /\ \A i \in 1..n : c[i] = s[i]
  BY <1>1, Parts
<1>3. b \in Seq(U) /\ Len(b) = n - k /\ \A i \in 1..(n - k) : b[i] = s[k + i]
  <2>1. \A i \in (k + 1)..n : s[i] \in U
    OBVIOUS
  <2>2. /\ b \in Seq(U) /\ Len(b) = IF k + 1 <= n THEN n - (k + 1) + 1 ELSE 0
        /\ \A i \in 1..(n - (k + 1) + 1) : b[i] = s[(k + 1) + i - 1]
    BY <1>1, <2>1, SubSeqProperties
  <2>3. \A i \in 1..(n - k) : i \in 1..(n - (k + 1) + 1) /\ (k + 1) + i - 1 = k + i
    OBVIOUS
  <2>4. Len(b) = n - k
    BY <1>1, <2>2
  <2>5. \A i \in 1..(n - k) : b[i] = s[k + i]
    BY <2>2, <2>3, Zenon
  <2> QED
    BY <2>2, <2>4, <2>5, Zenon
<1> HIDE DEF a, b, c
<1>4. /\ a \o b \in Seq(U) /\ Len(a \o b) = Len(a) + Len(b)
      /\ \A i \in 1..(Len(a) + Len(b)) :
            (a \o b)[i] = IF i <= Len(a) THEN a[i] ELSE b[i - Len(a)]
  BY <1>2, <1>3, ConcatProperties
<1>5. Len(a \o b) = Len(c)
  BY <1>1, <1>2, <1>3, <1>4
<1>6. ASSUME NEW i \in 1..Len(c) PROVE (a \o b)[i] = c[i]
  <2>1. i \in 1..n /\ i \in 1..(Len(a) + Len(b))
    BY <1>4, <1>5, <1>2
  <2>2. CASE i <= k
    <3>1. i \in 1..k
      BY <1>1, <2>1, <2>2
    <3> QED
      BY <1>2, <1>4, <2>1, <2>2, <3>1, Zenon
  <2>3. CASE ~(i <= k)
    <3>1. i - k \in 1..(n - k) /\ k + (i - k) = i
      BY <1>1, <2>1, <2>3
    <3>2. (a \o b)[i] = b[i - k]
      BY <1>2, <1>4, <2>1, <2>3, Zenon
    <3>3. c[i] = s[i] /\ b[i - k] = s[k + (i - k)]
      BY <1>2, <1>3, <2>1, <3>1, Zenon
    <3> QED
      BY <3>1, <3>2, <3>3, Zenon
  <2> QED
    BY <2>2, <2>3
<1>7. a \o b = c
  BY <1>2, <1>4, <1>5, <1>6, SeqEqual
<1> QED
  BY <1>7 DEF a, b, c

-----------------------------------------------------------------------------
(* Sequences of whatever elements                                           *)

IsSeq(s) == s \in Seq(Range(s))

\* What the elements of a sequence are.
LEMMA SeqIs ==
    ASSUME NEW s
    PROVE  /\ IsSeq(s) <=> \E U : s \in Seq(U)
           /\ IsSeq(s) => /\ Len(s) \in Nat /\ DOMAIN s = 1..Len(s)
                          /\ \A i \in 1..Len(s) : s[i] \in Range(s)
                          /\ \A x \in Range(s) : \E i \in 1..Len(s) : s[i] = x
<1>1. ASSUME NEW U, s \in Seq(U) PROVE IsSeq(s)
  <2>1. Len(s) \in Nat /\ DOMAIN s = 1..Len(s) /\ s = [i \in 1..Len(s) |-> s[i]]
    BY <1>1
  <2>2. \A i \in 1..Len(s) : s[i] \in Range(s)
    BY <2>1 DEF Range
  <2> QED
    BY <2>1, <2>2, IsASeq DEF IsSeq
<1>2. ASSUME IsSeq(s)
      PROVE  /\ Len(s) \in Nat /\ DOMAIN s = 1..Len(s)
             /\ \A i \in 1..Len(s) : s[i] \in Range(s)
             /\ \A x \in Range(s) : \E i \in 1..Len(s) : s[i] = x
  <2>1. Len(s) \in Nat /\ DOMAIN s = 1..Len(s)
    BY <1>2 DEF IsSeq
  <2> QED
    BY <2>1 DEF Range
<1> QED
  BY <1>1, <1>2 DEF IsSeq

\* Adding at the end.
LEMMA AppendIs ==
    ASSUME NEW s, IsSeq(s), NEW x
    PROVE  /\ IsSeq(Append(s, x)) /\ Len(Append(s, x)) = Len(s) + 1
           /\ \A i \in 1..Len(s) : Append(s, x)[i] = s[i]
           /\ Append(s, x)[Len(s) + 1] = x
<1> DEFINE U == Range(s) \cup {x}
<1>1. s \in Seq(U) /\ x \in U
  BY SeqMonotonic DEF IsSeq
<1> HIDE DEF U
<1>2. /\ Append(s, x) \in Seq(U) /\ Len(Append(s, x)) = Len(s) + 1
      /\ \A i \in 1..Len(s) : Append(s, x)[i] = s[i]
      /\ Append(s, x)[Len(s) + 1] = x
  BY <1>1, AppendProperties
<1> QED
  BY <1>2, SeqIs

\* One sequence after another.
LEMMA ConcatIs ==
    ASSUME NEW s, IsSeq(s), NEW t, IsSeq(t)
    PROVE  /\ IsSeq(s \o t) /\ Len(s \o t) = Len(s) + Len(t)
           /\ \A i \in 1..Len(s) : (s \o t)[i] = s[i]
           /\ \A i \in 1..Len(t) : (s \o t)[Len(s) + i] = t[i]
           /\ Range(s \o t) = Range(s) \cup Range(t)
<1> DEFINE U == Range(s) \cup Range(t)
<1>1. s \in Seq(U) /\ t \in Seq(U)
  BY SeqMonotonic DEF IsSeq
<1>2. Len(s) \in Nat /\ Len(t) \in Nat
  BY <1>1
<1>3. /\ s \o t \in Seq(U) /\ Len(s \o t) = Len(s) + Len(t)
      /\ \A i \in 1..Len(s) + Len(t) : (s \o t)[i] = IF i <= Len(s) THEN s[i] ELSE t[i - Len(s)]
  <2> HIDE DEF U
  <2> QED
    BY <1>1, ConcatProperties
<1>4. IsSeq(s \o t)
  BY <1>3, SeqIs
<1>5. \A i \in 1..Len(s) : i \in 1..Len(s) + Len(t) /\ (s \o t)[i] = s[i]
  BY <1>2, <1>3
<1>6. ASSUME NEW i \in 1..Len(t)
      PROVE  Len(s) + i \in 1..Len(s) + Len(t) /\ (s \o t)[Len(s) + i] = t[i]
  <2>1. Len(s) + i \in 1..Len(s) + Len(t) /\ ~(Len(s) + i <= Len(s)) /\ (Len(s) + i) - Len(s) = i
    BY <1>2
  <2> QED
    BY <1>3, <2>1
<1>7. Range(s \o t) = Range(s) \cup Range(t)
  <2>1. ASSUME NEW x \in Range(s \o t) PROVE x \in U
    <3>1. PICK i \in 1..Len(s) + Len(t) : (s \o t)[i] = x
      BY <1>3, <1>4, SeqIs
    <3>2. \/ i \in 1..Len(s)
          \/ i - Len(s) \in 1..Len(t) /\ ~(i <= Len(s))
      BY <1>2
    <3> QED
      BY <1>1, <1>3, <3>1, <3>2
  <2>2. ASSUME NEW x \in Range(s) PROVE x \in Range(s \o t)
    <3>1. PICK i \in 1..Len(s) : s[i] = x
      BY SeqIs
    <3> QED
      BY <1>3, <1>4, <1>5, <3>1, SeqIs
  <2>3. ASSUME NEW x \in Range(t) PROVE x \in Range(s \o t)
    <3>1. PICK i \in 1..Len(t) : t[i] = x
      BY SeqIs
    <3> QED
      BY <1>3, <1>4, <1>6, <3>1, SeqIs
  <2> QED
    BY <2>1, <2>2, <2>3
<1> QED
  BY <1>3, <1>4, <1>5, <1>6, <1>7

\* The short sequences that occur.
LEMMA ShortAre ==
    ASSUME NEW x, NEW y
    PROVE  /\ IsSeq(<<>>) /\ Len(<<>>) = 0
           /\ IsSeq(<<x>>) /\ Len(<<x>>) = 1 /\ <<x>>[1] = x /\ <<x>> # <<>>
           /\ Append(<<>>, x) = <<x>> /\ Append(<<x>>, y) = <<x, y>>
<1>1. <<>> \in Seq({x}) /\ <<x>> \in Seq({x})
  OBVIOUS
<1>2. IsSeq(<<>>) /\ IsSeq(<<x>>)
  BY <1>1, SeqIs
<1>3. Len(<<>>) = 0 /\ Len(<<x>>) = 1 /\ <<x>>[1] = x /\ <<x>> # <<>>
  OBVIOUS
<1>4. Append(<<>>, x) = <<x>>
  OBVIOUS
<1>5. Append(<<x>>, y) = <<x, y>>
  <2>1. /\ Append(<<x>>, y) \in Seq({x, y}) /\ Len(Append(<<x>>, y)) = 2
        /\ Append(<<x>>, y)[1] = x /\ Append(<<x>>, y)[2] = y
    OBVIOUS
  <2>2. \A s \in Seq({x, y}) : Len(s) = 2 /\ s[1] = x /\ s[2] = y => s = <<x, y>>
    OBVIOUS
  <2> QED
    BY <2>1, <2>2, Zenon
<1> QED
  BY <1>2, <1>3, <1>4, <1>5

-----------------------------------------------------------------------------
(* The request parser                                                       *)

\* Where the blank line is, or that there is none.
LEMMA BlankLineIs ==
    ASSUME NEW U, NEW raw \in Seq(U)
    PROVE  LET e == BlankLine(raw) IN
           \/ e = 0 /\ \A i \in 1..(Len(raw) - 1) : ~(raw[i] = CRLF /\ raw[i + 1] = CRLF)
           \/ /\ e \in 1..(Len(raw) - 1) /\ raw[e] = CRLF /\ raw[e + 1] = CRLF
              /\ \A i \in 1..(e - 1) : ~(raw[i] = CRLF /\ raw[i + 1] = CRLF)
<1> DEFINE Blanks == {i \in 1..(Len(raw) - 1) : raw[i] = CRLF /\ raw[i + 1] = CRLF}
<1>1. BlankLine(raw) = IF Blanks = {} THEN 0 ELSE Min(Blanks)
  BY Zenon DEF BlankLine
<1>2. CASE Blanks = {}
  BY <1>1, <1>2
<1>3. CASE Blanks # {}
  <2>1. Blanks \in SUBSET Nat
    OBVIOUS
  <2>2. Min(Blanks) \in Blanks /\ \A m \in Blanks : Min(Blanks) <= m
    BY <1>3, <2>1, Least
  <2> DEFINE e == Min(Blanks)
  <2> HIDE DEF Blanks, e
  <2>3. e \in 1..(Len(raw) - 1) /\ raw[e] = CRLF /\ raw[e + 1] = CRLF
    BY <2>2 DEF Blanks, e
  <2>4. ASSUME NEW i \in 1..(e - 1) PROVE ~(raw[i] = CRLF /\ raw[i + 1] = CRLF)
    <3>1. i \in 1..(Len(raw) - 1) /\ ~(e <= i)
      BY <2>3
    <3> QED
      BY <2>2, <3>1 DEF Blanks, e
  <2>5. BlankLine(raw) = e
    BY <1>1, <1>3 DEF e
  <2> QED
    BY <2>3, <2>4, <2>5
<1> QED
  BY <1>2, <1>3

\* More bytes behind it do not move it, nor change what is before it.
LEMMA BlankLineStays ==
    ASSUME NEW U, NEW raw \in Seq(U), NEW data \in Seq(U), BlankLine(raw) > 0
    PROVE  /\ BlankLine(raw \o data) = BlankLine(raw)
           /\ SubSeq(raw \o data, 1, BlankLine(raw) - 1) = SubSeq(raw, 1, BlankLine(raw) - 1)
           /\ Rest(raw) \in Seq(U)
           /\ Rest(raw \o data) = Rest(raw) \o data
<1> DEFINE e == BlankLine(raw)
           all == raw \o data
           f == BlankLine(all)
<1>1. /\ e \in 1..(Len(raw) - 1) /\ raw[e] = CRLF /\ raw[e + 1] = CRLF
      /\ \A i \in 1..(e - 1) : ~(raw[i] = CRLF /\ raw[i + 1] = CRLF)
  BY BlankLineIs
<1>2. /\ all \in Seq(U) /\ Len(all) = Len(raw) + Len(data)
      /\ \A i \in 1..Len(raw) : all[i] = raw[i]
      /\ Len(raw) \in Nat /\ Len(data) \in Nat
  OBVIOUS
<1>3. \/ f = 0 /\ \A i \in 1..(Len(all) - 1) : ~(all[i] = CRLF /\ all[i + 1] = CRLF)
      \/ /\ f \in 1..(Len(all) - 1) /\ all[f] = CRLF /\ all[f + 1] = CRLF
         /\ \A i \in 1..(f - 1) : ~(all[i] = CRLF /\ all[i + 1] = CRLF)
  BY <1>2, BlankLineIs
<1> HIDE DEF e, f, all
<1>4. e \in 1..(Len(all) - 1) /\ all[e] = CRLF /\ all[e + 1] = CRLF
  <2>1. e \in 1..(Len(all) - 1) /\ e \in 1..Len(raw) /\ e + 1 \in 1..Len(raw)
    BY <1>1, <1>2
  <2>2. all[e] = raw[e] /\ all[e + 1] = raw[e + 1]
    BY <1>2, <2>1, Zenon
  <2> QED
    BY <1>1, <2>1, <2>2, Zenon
<1>5. \A i \in 1..(e - 1) : all[i] = raw[i] /\ all[i + 1] = raw[i + 1]
  <2> SUFFICES ASSUME NEW i \in 1..(e - 1) PROVE all[i] = raw[i] /\ all[i + 1] = raw[i + 1]
    OBVIOUS
  <2>1. i \in 1..Len(raw) /\ i + 1 \in 1..Len(raw)
    BY <1>1, <1>2
  <2> QED
    BY <1>2, <2>1
<1>6. f = e
  <2>1. f # 0 /\ f \in 1..(Len(all) - 1) /\ all[f] = CRLF /\ all[f + 1] = CRLF
        /\ \A i \in 1..(f - 1) : ~(all[i] = CRLF /\ all[i + 1] = CRLF)
    BY <1>3, <1>4
  <2>2. ~(e < f)
    <3> SUFFICES ASSUME e < f PROVE FALSE
      OBVIOUS
    <3>1. e \in 1..(f - 1)
      BY <1>1, <2>1
    <3> QED
      BY <1>4, <2>1, <3>1
  <2>3. ~(f < e)
    <3> SUFFICES ASSUME f < e PROVE FALSE
      OBVIOUS
    <3>1. f \in 1..(e - 1)
      BY <1>1, <2>1
    <3> QED
      BY <1>1, <1>5, <2>1, <3>1
  <2> QED
    BY <1>1, <2>1, <2>2, <2>3
<1>7. SubSeq(all, 1, e - 1) = SubSeq(raw, 1, e - 1)
  <2>1. e - 1 \in 0..Len(raw)
    BY <1>1, <1>2
  <2> QED
    BY <2>1, PartsOfConcat DEF all
<1>8. /\ SubSeq(raw, e + 2, Len(raw)) \in Seq(U)
      /\ SubSeq(all, e + 2, Len(all)) = SubSeq(raw, e + 2, Len(raw)) \o data
  <2>1. e + 1 \in 0..Len(raw) /\ (e + 1) + 1 = e + 2
    BY <1>1, <1>2
  <2>2. SubSeq(raw, (e + 1) + 1, Len(raw)) \in Seq(U)
    BY <2>1, Parts
  <2>3. SubSeq(all, (e + 1) + 1, Len(all)) = SubSeq(raw, (e + 1) + 1, Len(raw)) \o data
    BY <2>1, PartsOfConcat DEF all
  <2> QED
    BY <2>1, <2>2, <2>3
<1> QED
  BY <1>6, <1>7, <1>8 DEF e, f, all, Rest

\* What parse makes of a buffer: the bytes up to the blank line, the length
\* they announce, and the request they begin.
HeadOf(raw) == SubSeq(raw, 1, BlankLine(raw) - 1)
Needs(raw) == ContentLength(HeadersOf(Tail(HeadOf(raw))))
Begun(raw) ==
    [NoRequest EXCEPT !.method = HeadOf(raw)[1].method,
                      !.path = PathOf(HeadOf(raw)[1].uri),
                      !.version = HeadOf(raw)[1].version,
                      !.headers = HeadersOf(Tail(HeadOf(raw)))]
Result(raw) == parse(FreshParser, raw)

\* The two values of a flag, as names.
No == FALSE
Yes == TRUE

Parser(buffer, parsed, n, request, done) ==
    [buffer_ |-> buffer, headers_parsed_ |-> parsed, content_length_ |-> n,
     request |-> request, done |-> done]

\* The body is n bytes.
WithBytes(request, body) ==
    [request EXCEPT !.body = body, !.is_complete = TRUE, !.is_valid = TRUE]

\* Changing a parser's buffer, or what ParseBody changes.
Finished(p, rest, request, done) == [p EXCEPT !.done = done, !.buffer_ = rest, !.request = request]

\* The parser after such a change.
LEMMA ParserExcept ==
    ASSUME NEW buffer, NEW parsed, NEW n, NEW request, NEW done
    PROVE  /\ \A data : Received(Parser(buffer, parsed, n, request, done), data)
                           = Parser(buffer \o data, parsed, n, request, done)
           /\ \A b, r, d : Finished(Parser(buffer, parsed, n, request, done), b, r, d)
                              = Parser(b, parsed, n, r, d)
<1>1. ASSUME NEW b PROVE [Parser(buffer, parsed, n, request, done) EXCEPT !.buffer_ = b]
                            = Parser(b, parsed, n, request, done)
  BY DEF Parser
<1>2. ASSUME NEW b, NEW r, NEW d
      PROVE  Finished(Parser(buffer, parsed, n, request, done), b, r, d) = Parser(b, parsed, n, r, d)
  <2> DEFINE p == Parser(buffer, parsed, n, request, done)
  <2>1. [p EXCEPT !.done = d] = Parser(buffer, parsed, n, request, d)
    BY DEF Parser
  <2>2. [Parser(buffer, parsed, n, request, d) EXCEPT !.buffer_ = b] = Parser(b, parsed, n, request, d)
    BY DEF Parser
  <2>3. [Parser(b, parsed, n, request, d) EXCEPT !.request = r] = Parser(b, parsed, n, r, d)
    BY DEF Parser
  <2> HIDE DEF p
  <2>4. Finished(p, b, r, d) = [[[p EXCEPT !.done = d] EXCEPT !.buffer_ = b] EXCEPT !.request = r]
    BY DEF Finished
  <2> QED
    BY <2>1, <2>2, <2>3, <2>4 DEF p
<1>3. Parser(buffer, parsed, n, request, done).buffer_ = buffer
  BY DEF Parser
<1> QED
  BY <1>1, <1>2, <1>3 DEF Received

\* The body is there, or is waited for.
LEMMA BodyIs ==
    ASSUME NEW buffer, NEW n, NEW request
    PROVE  ParseBody(Parser(buffer, Yes, n, request, No))
              = IF Len(buffer) < n THEN Parser(buffer, Yes, n, request, No)
                ELSE Parser(SubSeq(buffer, n + 1, Len(buffer)), Yes, n,
                            WithBytes(request, SubSeq(buffer, 1, n)), Yes)
<1> DEFINE p == Parser(buffer, Yes, n, request, No)
           body == SubSeq(buffer, 1, n)
           rest == SubSeq(buffer, n + 1, Len(buffer))
<1>1. p.buffer_ = buffer /\ p.headers_parsed_ /\ ~p.done /\ p.content_length_ = n /\ p.request = request
  BY DEF Parser, No, Yes
<1>2. CASE Len(buffer) < n
  BY <1>1, <1>2, Zenon DEF ParseBody
<1>3. CASE ~(Len(buffer) < n)
  <2>1. ParseBody(p) = Finished(p, rest, WithBytes(request, body), Yes)
    BY <1>1, <1>3, Zenon DEF ParseBody, WithBytes, Finished, Yes
  <2>2. Finished(p, rest, WithBytes(request, body), Yes)
           = Parser(rest, Yes, n, WithBytes(request, body), Yes)
    BY ParserExcept
  <2> QED
    BY <1>3, <2>1, <2>2, Zenon
<1> QED
  BY <1>2, <1>3

\* A parser that waits for the body takes the bytes it has kept and the new
\* ones for its buffer.
LEMMA MoreBody ==
    ASSUME NEW buffer, NEW data, NEW n, NEW request
    PROVE  parse(Parser(buffer, Yes, n, request, No), data)
              = ParseBody(Parser(buffer \o data, Yes, n, request, No))
<1> DEFINE p == Parser(buffer \o data, Yes, n, request, No)
<1>1. p.headers_parsed_
  BY DEF Parser, Yes
<1>2. ParseHead(p) = p
  BY <1>1, Zenon DEF ParseHead
<1>3. Received(Parser(buffer, Yes, n, request, No), data) = p
  BY ParserExcept
<1> QED
  BY <1>2, <1>3, Zenon DEF parse

\* So does one that waits for the blank line, which may now be there.
LEMMA ParseIs ==
    ASSUME NEW raw, NEW buffer, NEW data, raw = buffer \o data
    PROVE  /\ BlankLine(raw) = 0 =>
                 parse(Parser(buffer, No, 0, NoRequest, No), data)
                    = Parser(raw, No, 0, NoRequest, No)
           /\ BlankLine(raw) # 0 /\ ~ValidLine(HeadOf(raw)) =>
                 parse(Parser(buffer, No, 0, NoRequest, No), data)
                    = Parser(raw, No, 0, NoRequest, Yes)
           /\ BlankLine(raw) # 0 /\ ValidLine(HeadOf(raw)) =>
                 parse(Parser(buffer, No, 0, NoRequest, No), data)
                    = ParseBody(Parser(Rest(raw), Yes, Needs(raw), Begun(raw), No))
<1> DEFINE fresh == Parser(buffer, No, 0, NoRequest, No)
           got == Parser(raw, No, 0, NoRequest, No)
<1>0. \A parsed, n, request :
         Received(Parser(buffer, parsed, n, request, No), data)
            = Parser(raw, parsed, n, request, No)
  BY ParserExcept
<1>1. Received(fresh, data) = got
  BY <1>0, Zenon
<1>2. BlankLine(raw) = 0 => ParseHead(got) = got
  BY DEF ParseHead, Parser, No, Yes
<1>3. ParseBody(got) = got
  BY DEF ParseBody, Parser, No, Yes
<1>4. BlankLine(raw) # 0 /\ ~ValidLine(HeadOf(raw)) =>
         ParseHead(got) = Parser(raw, No, 0, NoRequest, Yes)
  BY DEF No, Yes, ParseHead, Parser, HeadOf
<1>5. ParseBody(Parser(raw, No, 0, NoRequest, Yes)) = Parser(raw, No, 0, NoRequest, Yes)
  BY DEF ParseBody, Parser, No, Yes
<1>6. BlankLine(raw) # 0 /\ ValidLine(HeadOf(raw)) =>
         ParseHead(got) = Parser(Rest(raw), Yes, Needs(raw), Begun(raw), No)
  BY DEF No, Yes, ParseHead, Parser, HeadOf, Rest, Needs, Begun
<1> HIDE DEF fresh, got
<1>9. parse(fresh, data) = ParseBody(ParseHead(got))
  BY <1>1 DEF parse
<1> QED
  BY <1>2, <1>3, <1>4, <1>5, <1>6, <1>9, Zenon DEF fresh, got

\* What a fresh parser makes of a buffer.
LEMMA ResultIs ==
    ASSUME NEW U, NEW raw \in Seq(U)
    PROVE  Result(raw) =
              IF BlankLine(raw) = 0 THEN Parser(raw, No, 0, NoRequest, No)
              ELSE IF ~ValidLine(HeadOf(raw)) THEN Parser(raw, No, 0, NoRequest, Yes)
              ELSE IF Len(Rest(raw)) < Needs(raw)
              THEN Parser(Rest(raw), Yes, Needs(raw), Begun(raw), No)
              ELSE Parser(SubSeq(Rest(raw), Needs(raw) + 1, Len(Rest(raw))), Yes, Needs(raw),
                          WithBytes(Begun(raw), SubSeq(Rest(raw), 1, Needs(raw))), Yes)
<1>1. FreshParser = Parser(<<>>, No, 0, NoRequest, No)
  BY DEF FreshParser, Parser, No
<1>2. raw = <<>> \o raw
  BY ConcatEmptySeq
<1>5. CASE BlankLine(raw) = 0
  <2>1. parse(Parser(<<>>, No, 0, NoRequest, No), raw) = Parser(raw, No, 0, NoRequest, No)
    BY <1>2, <1>5, ParseIs
  <2> QED
    BY <1>1, <1>5, <2>1, Zenon DEF Result
<1>6. CASE BlankLine(raw) # 0 /\ ~ValidLine(HeadOf(raw))
  BY <1>1, <1>2, <1>6, ParseIs, Zenon DEF Result
<1>7. CASE BlankLine(raw) # 0 /\ ValidLine(HeadOf(raw))
  <2>1. Result(raw) = ParseBody(Parser(Rest(raw), Yes, Needs(raw), Begun(raw), No))
    BY <1>1, <1>2, <1>7, ParseIs, Zenon DEF Result
  <2> QED
    BY <1>7, <2>1, BodyIs, Zenon
<1> QED
  BY <1>5, <1>6, <1>7

\* A length is a natural number.
LEMMA NeedsNat == ASSUME NEW raw PROVE Needs(raw) \in Nat
BY NumbersAssumption DEF Needs, ContentLength

\* A parser that has not finished goes on as if all bytes had come at once; one
\* that has, has found what it would have found with more of them.
LEMMA NextPiece ==
    ASSUME NEW U, NEW raw \in Seq(U), NEW data \in Seq(U)
    PROVE  /\ ~Result(raw).done => parse(Result(raw), data) = Result(raw \o data)
           /\ Result(raw).done => /\ Result(raw \o data).done
                                  /\ Result(raw \o data).request = Result(raw).request
<1> DEFINE all == raw \o data
<1>1. all \in Seq(U)
  BY ConcatProperties
<1>2. \A buffer, parsed, n, request :
         ~Parser(buffer, parsed, n, request, No).done /\ Parser(buffer, parsed, n, request, Yes).done
  BY DEF Parser, No, Yes
<1>6. \A buffer, parsed, n, request, done : Parser(buffer, parsed, n, request, done).request = request
  BY DEF Parser
<1>3. BlankLine(raw) \in Nat
  <2>1. Len(raw) \in Nat
    OBVIOUS
  <2> QED
    BY <2>1, BlankLineIs
<1>4. CASE BlankLine(raw) = 0
  <2>1. Result(raw) = Parser(raw, No, 0, NoRequest, No)
    BY <1>4, ResultIs, Zenon
  <2>2. ~Result(raw).done
    BY <1>2, <2>1, Zenon
  <2>3. /\ BlankLine(all) = 0 =>
              parse(Parser(raw, No, 0, NoRequest, No), data) = Parser(all, No, 0, NoRequest, No)
        /\ BlankLine(all) # 0 /\ ~ValidLine(HeadOf(all)) =>
              parse(Parser(raw, No, 0, NoRequest, No), data) = Parser(all, No, 0, NoRequest, Yes)
        /\ BlankLine(all) # 0 /\ ValidLine(HeadOf(all)) =>
              parse(Parser(raw, No, 0, NoRequest, No), data)
                 = ParseBody(Parser(Rest(all), Yes, Needs(all), Begun(all), No))
    BY ParseIs, Zenon
  <2>4. BlankLine(all) # 0 /\ ValidLine(HeadOf(all)) =>
           ParseBody(Parser(Rest(all), Yes, Needs(all), Begun(all), No)) = Result(all)
    <3> SUFFICES ASSUME BlankLine(all) # 0, ValidLine(HeadOf(all))
                 PROVE  ParseBody(Parser(Rest(all), Yes, Needs(all), Begun(all), No)) = Result(all)
      OBVIOUS
    <3>1. ParseBody(Parser(Rest(all), Yes, Needs(all), Begun(all), No))
             = IF Len(Rest(all)) < Needs(all)
               THEN Parser(Rest(all), Yes, Needs(all), Begun(all), No)
               ELSE Parser(SubSeq(Rest(all), Needs(all) + 1, Len(Rest(all))), Yes, Needs(all),
                           WithBytes(Begun(all), SubSeq(Rest(all), 1, Needs(all))), Yes)
      BY BodyIs, Zenon
    <3> QED
      BY <1>1, <3>1, ResultIs, Zenon
  <2>5. parse(Result(raw), data) = Result(all)
    BY <1>1, <2>1, <2>3, <2>4, ResultIs, Zenon
  <2> QED
    BY <2>2, <2>5
<1>5. CASE BlankLine(raw) # 0
  <2>1. /\ BlankLine(all) = BlankLine(raw) /\ HeadOf(all) = HeadOf(raw)
        /\ Rest(raw) \in Seq(U) /\ Rest(all) = Rest(raw) \o data
    <3>1. BlankLine(raw) > 0
      BY <1>3, <1>5
    <3>2. /\ BlankLine(all) = BlankLine(raw)
          /\ SubSeq(all, 1, BlankLine(raw) - 1) = SubSeq(raw, 1, BlankLine(raw) - 1)
          /\ Rest(raw) \in Seq(U) /\ Rest(all) = Rest(raw) \o data
      BY <3>1, BlankLineStays
    <3> QED
      BY <3>2, Zenon DEF HeadOf
  <2>2. Needs(all) = Needs(raw) /\ Begun(all) = Begun(raw)
    BY <2>1, Zenon DEF Needs, Begun
  <2>3. CASE ~ValidLine(HeadOf(raw))
    <3>1. Result(raw) = Parser(raw, No, 0, NoRequest, Yes)
      BY <1>5, <2>3, ResultIs, Zenon
    <3>2. Result(all) = Parser(all, No, 0, NoRequest, Yes)
      BY <1>1, <1>5, <2>1, <2>3, ResultIs, Zenon
    <3> QED
      BY <1>2, <1>6, <3>1, <3>2
  <2>4. CASE ValidLine(HeadOf(raw))
    <3> DEFINE n == Needs(raw)
               rest == Rest(raw)
               q == Begun(raw)
    <3>1. Result(raw) = IF Len(rest) < n THEN Parser(rest, Yes, n, q, No)
                        ELSE Parser(SubSeq(rest, n + 1, Len(rest)), Yes, n,
                                    WithBytes(q, SubSeq(rest, 1, n)), Yes)
      BY <1>5, <2>4, ResultIs, Zenon
    <3>2. Result(all) = IF Len(rest \o data) < n THEN Parser(rest \o data, Yes, n, q, No)
                        ELSE Parser(SubSeq(rest \o data, n + 1, Len(rest \o data)), Yes, n,
                                    WithBytes(q, SubSeq(rest \o data, 1, n)), Yes)
      BY <1>1, <1>5, <2>1, <2>2, <2>4, ResultIs, Zenon
    <3>3. n \in Nat /\ rest \in Seq(U)
      BY <2>1, NeedsNat
    <3> HIDE DEF n, rest, q
    <3>4. CASE Len(rest) < n
      <4>1. parse(Parser(rest, Yes, n, q, No), data) = ParseBody(Parser(rest \o data, Yes, n, q, No))
        BY MoreBody, Zenon
      <4>2. ParseBody(Parser(rest \o data, Yes, n, q, No)) = Result(all)
        BY <3>2, BodyIs, Zenon
      <4>3. Result(raw) = Parser(rest, Yes, n, q, No)
        BY <3>1, <3>4, Zenon
      <4>4. ~Result(raw).done
        BY <1>2, <4>3, Zenon
      <4> QED
        BY <4>1, <4>2, <4>3, <4>4
    <3>5. CASE ~(Len(rest) < n)
      <4>1. n \in 0..Len(rest) /\ ~(Len(rest \o data) < n)
        <5>1. Len(rest) \in Nat /\ Len(data) \in Nat /\ Len(rest \o data) = Len(rest) + Len(data)
          BY <3>3
        <5> QED
          BY <3>3, <3>5, <5>1
      <4>2. SubSeq(rest \o data, 1, n) = SubSeq(rest, 1, n)
        BY <3>3, <4>1, PartsOfConcat
      <4>3. Result(raw) = Parser(SubSeq(rest, n + 1, Len(rest)), Yes, n,
                                 WithBytes(q, SubSeq(rest, 1, n)), Yes)
        BY <3>1, <3>5, Zenon
      <4>4. Result(all) = Parser(SubSeq(rest \o data, n + 1, Len(rest \o data)), Yes, n,
                                 WithBytes(q, SubSeq(rest, 1, n)), Yes)
        BY <3>2, <4>1, <4>2, Zenon
      <4> QED
        BY <1>2, <1>6, <4>3, <4>4
    <3> QED
      BY <3>4, <3>5
  <2> QED
    BY <2>3, <2>4
<1> QED
  BY <1>4, <1>5

-----------------------------------------------------------------------------
(* Pieces                                                                   *)

\* One turn of the loop of Feed.
Fed(p, data) == IF p.done THEN p ELSE parse(p, data)

\* The loop of Feed has a state after every piece.
LEMMA FeedExists ==
    ASSUME NEW pieces, NEW l \in Nat
    PROVE  \E g : g = [n \in 0..l |-> IF n = 0 THEN FreshParser ELSE Fed(g[n - 1], pieces[n])]
<1> DEFINE Turn(g, n) == IF n = 0 THEN FreshParser ELSE Fed(g[n - 1], pieces[n])
           D == {m \in Nat : \E g : g = [n \in 0..m |-> Turn(g, n)]}
<1>1. 0 \in D
  <2> DEFINE g == [n \in 0..0 |-> FreshParser]
  <2>1. g = [n \in 0..0 |-> Turn(g, n)]
    OBVIOUS
  <2> QED
    BY <2>1
<1>2. ASSUME NEW m \in Nat, m \in D PROVE m + 1 \in D
  <2>1. PICK g : g = [n \in 0..m |-> Turn(g, n)]
    BY <1>2
  <2> DEFINE h == [n \in 0..(m + 1) |-> Turn(g, n)]
  <2>2. \A n \in 0..m : h[n] = g[n] /\ n \in 0..(m + 1)
    BY <2>1
  <2>3. ASSUME NEW n \in 0..(m + 1) PROVE Turn(g, n) = Turn(h, n)
    <3>1. n # 0 => n - 1 \in 0..m
      OBVIOUS
    <3>2. n # 0 => g[n - 1] = h[n - 1]
      BY <2>2, <3>1
    <3> QED
      BY <3>2
  <2>4. h = [n \in 0..(m + 1) |-> Turn(h, n)]
    BY <2>3
  <2> HIDE DEF h
  <2> QED
    BY <2>4
<1>3. l \in D
  <2> HIDE DEF D
  <2> QED
    BY <1>1, <1>2, Induction
<1> QED
  BY <1>3

\* Feed is where that loop ends.
LEMMA FeedRuns ==
    ASSUME NEW pieces, Len(pieces) \in Nat
    PROVE  \E g : /\ g[0] = FreshParser
                  /\ \A n \in 1..Len(pieces) : g[n] = Fed(g[n - 1], pieces[n])
                  /\ Feed(pieces) = g[Len(pieces)]
<1> DEFINE g == CHOOSE g : g = [n \in 0..Len(pieces) |->
                    IF n = 0 THEN FreshParser ELSE Fed(g[n - 1], pieces[n])]
<1>1. Feed(pieces) = g[Len(pieces)]
  BY Zenon DEF Feed, Fed
<1>2. g = [n \in 0..Len(pieces) |->
              IF n = 0 THEN FreshParser ELSE Fed(g[n - 1], pieces[n])]
  BY FeedExists, Zenon
<1> HIDE DEF g
<1>3. g[0] = FreshParser /\ \A n \in 1..Len(pieces) : g[n] = Fed(g[n - 1], pieces[n])
  BY <1>2
<1> QED
  BY <1>1, <1>3

\* Two parsers have come to the same: the same verdict and request, and while
\* unfinished the same bytes kept.
Alike(p, q) == (p.done <=> q.done) /\ p.request = q.request /\ (~p.done => p.buffer_ = q.buffer_)

\* However a request is cut into pieces, of whatever number and length, the
\* parser comes to the same as when all of it is there at once.
THEOREM PiecesNeverMatter ==
    ASSUME NEW U, NEW pieces \in Seq(Seq(U)),
           NEW joined \in [0..Len(pieces) -> Seq(U)], joined[0] = <<>>,
           \A n \in 1..Len(pieces) : joined[n] = joined[n - 1] \o pieces[n]
    PROVE  Alike(Feed(pieces), parse(FreshParser, joined[Len(pieces)]))
<1> DEFINE L == Len(pieces)
<1>0. L \in Nat
  OBVIOUS
<1>1. PICK g : /\ g[0] = FreshParser
               /\ \A n \in 1..L : g[n] = Fed(g[n - 1], pieces[n])
               /\ Feed(pieces) = g[L]
  BY <1>0, FeedRuns
<1> DEFINE Same(n) == LET all == Result(joined[n]) IN
                      IF g[n].done THEN all.done /\ all.request = g[n].request ELSE all = g[n]
           D == {n \in Nat : n \in 0..L => Same(n)}
<1>2. 0 \in D
  <2>1. Result(<<>>) = FreshParser
    <3>1. <<>> \in Seq(U) /\ BlankLine(<<>>) = 0
      <4>1. <<>> \in Seq(U) /\ Len(<<>>) = 0
        BY EmptySeq
      <4>2. BlankLine(<<>>) \notin 1..(Len(<<>>) - 1)
        BY <4>1
      <4> QED
        BY <4>1, <4>2, BlankLineIs
    <3>2. Result(<<>>) = Parser(<<>>, No, 0, NoRequest, No)
      BY <3>1, ResultIs, Zenon
    <3> QED
      BY <3>2 DEF FreshParser, Parser, No
  <2>2. ~FreshParser.done
    BY DEF FreshParser
  <2>3. Same(0)
    BY <1>1, <2>1, <2>2
  <2> HIDE DEF Same
  <2> QED
    BY <2>3
<1>3. ASSUME NEW n \in Nat, n \in D PROVE n + 1 \in D
  <2> SUFFICES ASSUME n + 1 \in 0..L PROVE Same(n + 1)
    OBVIOUS
  <2>1. n \in 0..L /\ n + 1 \in 1..L /\ (n + 1) - 1 = n
    BY <1>0
  <2>2. Same(n)
    BY <1>3, <2>1
  <2>3. g[n + 1] = Fed(g[n], pieces[n + 1]) /\ joined[n + 1] = joined[n] \o pieces[n + 1]
    BY <1>1, <2>1
  <2>4. joined[n] \in Seq(U) /\ pieces[n + 1] \in Seq(U)
    BY <2>1, ElementOfSeq
  <2>5. /\ ~Result(joined[n]).done =>
              parse(Result(joined[n]), pieces[n + 1]) = Result(joined[n + 1])
        /\ Result(joined[n]).done =>
              /\ Result(joined[n + 1]).done
              /\ Result(joined[n + 1]).request = Result(joined[n]).request
    BY <2>3, <2>4, NextPiece
  <2>6. CASE g[n].done
    <3>1. g[n + 1] = g[n]
      BY <2>3, <2>6, Zenon DEF Fed
    <3> QED
      BY <2>2, <2>5, <2>6, <3>1, Zenon
  <2>7. CASE ~g[n].done
    <3>1. Result(joined[n]) = g[n]
      BY <2>2, <2>7, Zenon
    <3>2. g[n + 1] = Result(joined[n + 1])
      BY <2>3, <2>5, <2>7, <3>1, Zenon DEF Fed
    <3> QED
      BY <3>2, Zenon
  <2> QED
    BY <2>6, <2>7
<1>4. Same(L)
  <2> HIDE DEF Same
  <2>1. L \in D
    <3> HIDE DEF D
    <3> QED
      BY <1>0, <1>2, <1>3, Induction
  <2> QED
    BY <1>0, <2>1
<1> QED
  BY <1>1, <1>4, Zenon DEF Alike, Result

\* The parser has finished exactly when the bytes hold a whole request, or can
\* no longer become one.
LEMMA DoneWhenWhole ==
    ASSUME NEW U, NEW raw \in Seq(U)
    PROVE  parse(FreshParser, raw).done <=> Whole(raw)
<1>1. \A buffer, parsed, n, request :
         ~Parser(buffer, parsed, n, request, No).done /\ Parser(buffer, parsed, n, request, Yes).done
  BY DEF Parser, No, Yes
<1>2. BlankLine(raw) \in Nat
  <2>1. Len(raw) \in Nat
    OBVIOUS
  <2> QED
    BY <2>1, BlankLineIs
<1>3. Whole(raw) <=> BlankLine(raw) # 0 /\ (ValidLine(HeadOf(raw)) => Len(Rest(raw)) >= Needs(raw))
  <2>1. BlankLine(raw) > 0 <=> BlankLine(raw) # 0
    BY <1>2
  <2> QED
    BY <2>1, Zenon DEF Whole, HeadOf, Needs
<1>4. BlankLine(raw) # 0 => (Len(Rest(raw)) >= Needs(raw) <=> ~(Len(Rest(raw)) < Needs(raw)))
  <2> SUFFICES ASSUME BlankLine(raw) # 0
               PROVE  Len(Rest(raw)) >= Needs(raw) <=> ~(Len(Rest(raw)) < Needs(raw))
    OBVIOUS
  <2>1. Rest(raw) \in Seq(U)
    <3>1. BlankLine(raw) > 0
      BY <1>2
    <3> QED
      BY <3>1, EmptySeq, BlankLineStays
  <2>2. Len(Rest(raw)) \in Nat /\ Needs(raw) \in Nat
    BY <2>1, NeedsNat
  <2> QED
    BY <2>2
<1>5. CASE BlankLine(raw) = 0
  BY <1>1, <1>3, <1>5, ResultIs, Zenon DEF Result
<1>6. CASE BlankLine(raw) # 0 /\ ~ValidLine(HeadOf(raw))
  BY <1>1, <1>3, <1>6, ResultIs, Zenon DEF Result
<1>7. CASE BlankLine(raw) # 0 /\ ValidLine(HeadOf(raw))
  BY <1>1, <1>3, <1>4, <1>7, ResultIs, Zenon DEF Result
<1> QED
  BY <1>5, <1>6, <1>7

\* Every way to cut a buffer in three is a way to cut it.
LEMMA AllCutFreely == ASSUME NEW raw \in Raws PROVE raw \in CutFreely
<1> DEFINE U == Range(raw)
<1>0. raw \in Seq(U)
  BY RawsAssumption
<1>1. ASSUME NEW a \in 0..Len(raw), NEW b \in 0..Len(raw), a <= b
      PROVE  Alike(Feed(<<SubSeq(raw, 1, a), SubSeq(raw, a + 1, b), SubSeq(raw, b + 1, Len(raw))>>),
                   parse(FreshParser, raw))
  <2> DEFINE x == SubSeq(raw, 1, a)
             y == SubSeq(raw, a + 1, b)
             z == SubSeq(raw, b + 1, Len(raw))
             pieces == <<x, y, z>>
             joined == [n \in 0..3 |-> IF n = 0 THEN <<>> ELSE IF n = 1 THEN x
                                       ELSE IF n = 2 THEN SubSeq(raw, 1, b) ELSE raw]
  <2> HIDE DEF U
  <2>1. x \in Seq(U) /\ SubSeq(raw, 1, b) \in Seq(U) /\ z \in Seq(U)
    BY <1>0, Parts
  <2>2. y \in Seq(U)
    <3>1. \A i \in (a + 1)..b : raw[i] \in U
      BY <1>0
    <3>2. a + 1 \in Int /\ b \in Int
      OBVIOUS
    <3> QED
      BY <3>1, <3>2, SubSeqProperties
  <2>3. x \o y = SubSeq(raw, 1, b)
    <3>1. a \in 0..b
      BY <1>1
    <3> QED
      BY <1>0, <3>1, Rejoin
  <2>4. SubSeq(raw, 1, b) \o z = raw
    <3>1. Len(raw) \in 0..Len(raw)
      BY <1>0
    <3>2. SubSeq(raw, 1, b) \o z = SubSeq(raw, 1, Len(raw))
      BY <1>0, <3>1, Rejoin
    <3>3. SubSeq(raw, 1, Len(raw)) = raw
      BY <1>0
    <3> QED
      BY <3>2, <3>3
  <2>5. <<>> \o x = x /\ <<>> \in Seq(U)
    BY <2>1, ConcatEmptySeq, EmptySeq
  <2> HIDE DEF x, y, z
  <2>6. /\ pieces \in Seq(Seq(U)) /\ Len(pieces) = 3
        /\ pieces[1] = x /\ pieces[2] = y /\ pieces[3] = z
    BY <2>1, <2>2
  <2>7. joined \in [0..3 -> Seq(U)]
    BY <1>0, <2>1, <2>5
  <2>8. joined[0] = <<>> /\ joined[1] = x /\ joined[2] = SubSeq(raw, 1, b) /\ joined[3] = raw
    OBVIOUS
  <2> HIDE DEF pieces, joined
  <2>9. \A n \in 1..3 : joined[n] = joined[n - 1] \o pieces[n]
    <3>1. \A n \in 1..3 : n = 1 \/ n = 2 \/ n = 3
      OBVIOUS
    <3>2. joined[1] = joined[0] \o pieces[1]
      BY <2>5, <2>6, <2>8, Zenon
    <3>3. joined[2] = joined[1] \o pieces[2]
      BY <2>3, <2>6, <2>8, Zenon
    <3>4. joined[3] = joined[2] \o pieces[3]
      BY <2>4, <2>6, <2>8, Zenon
    <3>5. 1 - 1 = 0 /\ 2 - 1 = 1 /\ 3 - 1 = 2
      OBVIOUS
    <3> QED
      BY <3>1, <3>2, <3>3, <3>4, <3>5, Zenon
  <2>10. Alike(Feed(pieces), parse(FreshParser, joined[3]))
    BY <2>6, <2>7, <2>8, <2>9, PiecesNeverMatter
  <2> QED
    BY <2>8, <2>10 DEF pieces, x, y, z
<1>2. Uncut(raw)
  <2> SUFFICES ASSUME NEW pieces \in Cuts(raw) PROVE Alike(Feed(pieces), Parsed[raw])
    BY DEF Uncut, Alike
  <2>1. Parsed[raw] = parse(FreshParser, raw)
    BY DEF Parsed
  <2>2. PICK c \in (0..Len(raw)) \X (0..Len(raw)) :
           /\ c[1] <= c[2]
           /\ pieces = <<SubSeq(raw, 1, c[1]), SubSeq(raw, c[1] + 1, c[2]),
                         SubSeq(raw, c[2] + 1, Len(raw))>>
    BY DEF Cuts
  <2> QED
    BY <1>1, <2>1, <2>2
<1> QED
  BY <1>2 DEF CutFreely

\* What is remembered of a request begins with one of the buffers tried.
RawInv == last # None => last.raw \in Raws

\* It always does.
LEMMA RawHolds == Spec => []RawInv
<1>1. Init => RawInv
  BY DEF Init, RawInv
<1>2. RawInv /\ [Next]_vars => RawInv'
  <2> SUFFICES ASSUME RawInv, [Next]_vars PROVE RawInv'
    OBVIOUS
  <2>1. ASSUME last' = last PROVE RawInv'
    BY <2>1 DEF RawInv
  <2>2. ASSUME NEW raw \in Raws, NEW request, NEW target, NEW answer, NEW page, NEW wire,
               Handled(raw, request, target, answer, page, wire)
        PROVE  RawInv'
    BY <2>2 DEF RawInv, Handled
  <2>3. CASE Loading
    BY <2>1, <2>3 DEF Loading, siteVars
  <2>4. CASE Usage \/ LoadFile \/ LoadFailed \/ TestOnly \/ StartWithFile \/ StartWithDefaults
    BY <2>1, <2>4, Zenon DEF Usage, LoadFile, LoadFailed, TestOnly, StartWithFile, StartWithDefaults
  <2>5. ASSUME NEW raw \in Raws, Refuse(raw) \/ BadRequest(raw) \/ Respond(raw) PROVE RawInv'
    BY <2>2, <2>5, Zenon DEF Refuse, BadRequest, Respond
  <2>6. CASE NextRequest
    BY <2>6 DEF NextRequest, RawInv
  <2>7. CASE UNCHANGED vars
    BY <2>1, <2>7 DEF vars, siteVars
  <2> QED
    BY <2>3, <2>4, <2>5, <2>6, <2>7 DEF Next
<1> QED
  BY <1>1, <1>2, PTL DEF Spec

\* However the bytes of a request are cut, the parser ends up where it does
\* when they come at once, and it has finished exactly when they hold a whole
\* request or can no longer become one (HttpParser::parse).
THEOREM PiecesAreJoined == Spec => []PiecesDoNotMatter
<1>1. RawInv => PiecesDoNotMatter
  <2> SUFFICES ASSUME RawInv, last # None
               PROVE  (Parsed[last.raw].done <=> Whole(last.raw)) /\ last.raw \in CutFreely
    BY DEF PiecesDoNotMatter
  <2>1. last.raw \in Raws /\ last.raw \in Seq(Range(last.raw))
    BY RawsAssumption DEF RawInv
  <2>2. Parsed[last.raw] = parse(FreshParser, last.raw)
    BY <2>1 DEF Parsed
  <2> QED
    BY <2>1, <2>2, DoneWhenWhole, AllCutFreely, Zenon
<1> QED
  BY <1>1, RawHolds, PTL

-----------------------------------------------------------------------------
(* Where a response ends                                                    *)

Message(code, size, headers) == [status_code |-> code, body |-> size, headers |-> headers]

\* Setting a header or a body.
LEMMA MessageExcept ==
    ASSUME NEW code, NEW size, NEW headers
    PROVE  /\ \A k, v : set_header(Message(code, size, headers), k, v)
                           = Message(code, size, Assigned(headers, k, v))
           /\ \A n : set_body(Message(code, size, headers), n) = Message(code, n, headers)
           /\ Message(code, size, headers).status_code = code
           /\ Message(code, size, headers).body = size
           /\ Message(code, size, headers).headers = headers
<1>1. ASSUME NEW m PROVE [Message(code, size, headers) EXCEPT !.headers = m] = Message(code, size, m)
  BY DEF Message
<1>2. ASSUME NEW n PROVE [Message(code, size, headers) EXCEPT !.body = n] = Message(code, n, headers)
  BY DEF Message
<1>3. /\ Message(code, size, headers).status_code = code
      /\ Message(code, size, headers).body = size
      /\ Message(code, size, headers).headers = headers
  BY DEF Message
<1> QED
  BY <1>1, <1>2, <1>3 DEF set_header, set_body

\* The headers after one has been set.
LEMMA AssignedIs ==
    ASSUME NEW headers, NEW key, NEW value
    PROVE  /\ DOMAIN Assigned(headers, key, value) = {key} \cup DOMAIN headers
           /\ Assigned(headers, key, value)[key] = value
           /\ \A k \in DOMAIN headers : k # key => Assigned(headers, key, value)[k] = headers[k]
BY DEF Assigned

LengthKeys == {"Content-Length", "content-length"}

Coded(headers) == "Transfer-Encoding" \in DOMAIN headers

\* The sizes announced by headers.
Lengths(headers) ==
    IF Coded(headers) THEN {headers["Transfer-Encoding"]}
    ELSE {headers[k] : k \in LengthKeys \cap DOMAIN headers}

\* build announces no other size.
Fixed(headers) == Coded(headers) \/ "Content-Length" \in DOMAIN headers

\* The headers say that the connection stays.
Kept(headers) == "Connection" \in DOMAIN headers /\ headers["Connection"] = "keep-alive"

\* A message by its headers.
LEMMA AnnouncedIs ==
    ASSUME NEW code, NEW size, NEW headers
    PROVE  /\ Announced(Message(code, size, headers)) = Lengths(headers)
           /\ SaysKept(Message(code, size, headers)) <=> Kept(headers)
<1> DEFINE msg == Message(code, size, headers)
<1>1. msg.headers = headers
  BY MessageExcept
<1> HIDE DEF msg
<1>2. Announced(msg) = Lengths(headers)
  BY <1>1, Zenon DEF Announced, Lengths, LengthKeys, Coded
<1>3. SaysKept(msg) <=> Kept(headers)
  BY <1>1, Zenon DEF SaysKept, Kept
<1> QED
  BY <1>2, <1>3 DEF msg

\* What a connection header changes: no length.
LEMMA ConnectionSet ==
    ASSUME NEW headers, NEW value
    PROVE  LET m == Assigned(headers, "Connection", value) IN
           /\ Lengths(m) = Lengths(headers) /\ (Fixed(m) <=> Fixed(headers))
           /\ "Connection" \in DOMAIN m /\ m["Connection"] = value
           /\ Kept(m) <=> value = "keep-alive"
<1> DEFINE m == Assigned(headers, "Connection", value)
<1>0. /\ DOMAIN m = {"Connection"} \cup DOMAIN headers
      /\ m["Connection"] = value
      /\ \A k \in DOMAIN headers : k # "Connection" => m[k] = headers[k]
  BY DEF Assigned
<1> HIDE DEF m
<1>1. /\ LengthKeys \cap DOMAIN m = LengthKeys \cap DOMAIN headers
      /\ \A k \in LengthKeys \cap DOMAIN headers : m[k] = headers[k]
  BY <1>0 DEF LengthKeys
<1>2. {m[k] : k \in LengthKeys \cap DOMAIN m} = {headers[k] : k \in LengthKeys \cap DOMAIN headers}
  BY <1>1
<1>3. /\ Coded(m) <=> Coded(headers)
      /\ Coded(headers) => m["Transfer-Encoding"] = headers["Transfer-Encoding"]
  BY <1>0 DEF Coded
<1>4. Lengths(m) = Lengths(headers)
  BY <1>2, <1>3, Zenon DEF Lengths
<1>5. Fixed(m) <=> Fixed(headers)
  BY <1>0, <1>3 DEF Fixed
<1>6. Kept(m) <=> value = "keep-alive"
  BY <1>0 DEF Kept
<1> QED
  BY <1>0, <1>4, <1>5, <1>6 DEF m

\* What the length that build adds changes.
LEMMA LengthSet ==
    ASSUME NEW headers, "Content-Length" \notin DOMAIN headers, NEW value
    PROVE  LET m == Assigned(headers, "Content-Length", value) IN
           /\ Lengths(m) = IF Fixed(headers) THEN Lengths(headers) ELSE Lengths(headers) \cup {value}
           /\ "Connection" \in DOMAIN m <=> "Connection" \in DOMAIN headers
           /\ Kept(m) <=> Kept(headers)
<1> DEFINE m == Assigned(headers, "Content-Length", value)
<1>0. /\ DOMAIN m = {"Content-Length"} \cup DOMAIN headers
      /\ m["Content-Length"] = value
      /\ \A k \in DOMAIN headers : m[k] = headers[k]
  BY DEF Assigned
<1> HIDE DEF m
<1>1. /\ LengthKeys \cap DOMAIN m = (LengthKeys \cap DOMAIN headers) \cup {"Content-Length"}
      /\ \A k \in LengthKeys \cap DOMAIN headers : m[k] = headers[k]
  BY <1>0 DEF LengthKeys
<1>2. {m[k] : k \in LengthKeys \cap DOMAIN m} =
         {headers[k] : k \in LengthKeys \cap DOMAIN headers} \cup {value}
  BY <1>0, <1>1
<1>3. /\ Coded(m) <=> Coded(headers)
      /\ Coded(headers) => m["Transfer-Encoding"] = headers["Transfer-Encoding"]
  BY <1>0 DEF Coded
<1>4. Fixed(headers) <=> Coded(headers)
  BY DEF Fixed
<1>5. Lengths(m) = IF Fixed(headers) THEN Lengths(headers) ELSE Lengths(headers) \cup {value}
  BY <1>2, <1>3, <1>4, Zenon DEF Lengths
<1>6. "Connection" \in DOMAIN m <=> "Connection" \in DOMAIN headers
  BY <1>0
<1>7. Kept(m) <=> Kept(headers)
  BY <1>0, <1>6 DEF Kept
<1> QED
  BY <1>5, <1>6, <1>7 DEF m

\* What build makes of a message: the sizes announced before, and the body's
\* own unless they were fixed; a close unless the connection was spoken of.
LEMMA BuildIs ==
    ASSUME NEW code, NEW size, NEW headers
    PROVE  \E m : /\ build(Message(code, size, headers)) = Message(code, size, m)
                  /\ Lengths(m) = IF Fixed(headers) THEN Lengths(headers)
                                  ELSE Lengths(headers) \cup {size}
                  /\ Kept(m) <=> Kept(headers)
                  /\ "Connection" \notin DOMAIN headers => m["Connection"] = "close"
<1> DEFINE sized == IF "Content-Length" \in DOMAIN headers THEN headers
                    ELSE Assigned(headers, "Content-Length", size)
           m == IF "Connection" \in DOMAIN sized THEN sized
                ELSE Assigned(sized, "Connection", "close")
           msg == Message(code, size, headers)
<1>1. /\ msg.headers = headers /\ msg.body = size
      /\ set_header(msg, "Content-Length", size)
            = Message(code, size, Assigned(headers, "Content-Length", size))
  BY MessageExcept
<1>2. (IF "Content-Length" \in DOMAIN msg.headers THEN msg
       ELSE set_header(msg, "Content-Length", msg.body)) = Message(code, size, sized)
  BY <1>1
<1>6. /\ Lengths(sized) = IF Fixed(headers) THEN Lengths(headers) ELSE Lengths(headers) \cup {size}
      /\ "Connection" \in DOMAIN sized <=> "Connection" \in DOMAIN headers
      /\ Kept(sized) <=> Kept(headers)
  <2>1. CASE "Content-Length" \in DOMAIN headers
    BY <2>1, Zenon DEF Fixed
  <2>2. CASE "Content-Length" \notin DOMAIN headers
    <3>1. sized = Assigned(headers, "Content-Length", size)
      BY <2>2, Zenon
    <3> HIDE DEF sized
    <3> QED
      BY <2>2, <3>1, LengthSet
  <2> QED
    BY <2>1, <2>2
<1> HIDE DEF sized
<1>3. /\ Message(code, size, sized).headers = sized
      /\ set_header(Message(code, size, sized), "Connection", "close")
            = Message(code, size, Assigned(sized, "Connection", "close"))
  BY MessageExcept
<1>4. build(msg) = Message(code, size, m)
  <2> HIDE DEF msg
  <2>1. build(msg) = IF "Connection" \in DOMAIN Message(code, size, sized).headers
                     THEN Message(code, size, sized)
                     ELSE set_header(Message(code, size, sized), "Connection", "close")
    BY <1>2, Zenon DEF build
  <2> QED
    BY <1>3, <2>1
<1>5. /\ Lengths(m) = Lengths(sized) /\ (Kept(m) <=> Kept(sized))
      /\ "Connection" \notin DOMAIN sized => m["Connection"] = "close"
  <2>1. CASE "Connection" \in DOMAIN sized
    BY <2>1, Zenon
  <2>2. CASE "Connection" \notin DOMAIN sized
    <3>1. m = Assigned(sized, "Connection", "close")
      BY <2>2, Zenon
    <3>2. ~Kept(sized) /\ "close" # "keep-alive"
      BY <2>2 DEF Kept
    <3> HIDE DEF m
    <3> QED
      BY <3>1, <3>2, ConnectionSet
  <2> QED
    BY <2>1, <2>2
<1> HIDE DEF m
<1> QED
  BY <1>4, <1>5, <1>6

\* What KeepAlive makes of a message.
LEMMA KeepAliveIs ==
    ASSUME NEW code, NEW size, NEW headers, NEW request
    PROVE  \E m : /\ KeepAlive(request, Message(code, size, headers)) = Message(code, size, m)
                  /\ Lengths(m) = Lengths(headers) /\ (Fixed(m) <=> Fixed(headers))
                  /\ Kept(m) <=> wants_keep_alive(request) \/ Kept(headers)
<1> DEFINE m == Assigned(headers, "Connection", "keep-alive")
<1>1. set_header(Message(code, size, headers), "Connection", "keep-alive") = Message(code, size, m)
  BY MessageExcept
<1>2. Lengths(m) = Lengths(headers) /\ (Fixed(m) <=> Fixed(headers)) /\ Kept(m)
  BY ConnectionSet
<1> HIDE DEF m
<1>4. CASE wants_keep_alive(request)
  BY <1>1, <1>2, <1>4, Zenon DEF KeepAlive
<1>5. CASE ~wants_keep_alive(request)
  BY <1>5, Zenon DEF KeepAlive
<1> QED
  BY <1>4, <1>5

\* The size of the body that goes out, and what is announced with it.
LEMMA FinishIs ==
    ASSUME NEW code, NEW size, NEW headers, NEW request, NEW found
    PROVE  LET answer == Message(code, size, headers)
               wire == Finish(request, answer, found)
               sent == IF HasPage(answer, found) THEN PageSize
                       ELSE IF request.method = "HEAD" THEN 0 ELSE size
           IN  /\ wire.body = sent
               /\ Announced(wire) = IF Fixed(headers) THEN Lengths(headers)
                                    ELSE Lengths(headers) \cup {sent}
               /\ SaysKept(wire) <=> wants_keep_alive(request) \/ Kept(headers)
<1> DEFINE answer == Message(code, size, headers)
           kept == IF request.method = "HEAD" THEN 0 ELSE size
           sent == IF HasPage(answer, found) THEN PageSize ELSE kept
           wire == Finish(request, answer, found)
<1>1. DropBody(request, answer) = Message(code, kept, headers)
  <2>1. set_body(answer, 0) = Message(code, 0, headers)
    BY MessageExcept
  <2> QED
    BY <2>1, Zenon DEF DropBody
<1>2. HasPage(Message(code, kept, headers), found) <=> HasPage(answer, found)
  <2>1. Message(code, kept, headers).status_code = answer.status_code
    BY MessageExcept
  <2> QED
    BY <2>1, Zenon DEF HasPage
<1> HIDE DEF answer, kept
<1>3. ErrorPage(Message(code, kept, headers), found) = Message(code, sent, headers)
  <2>1. set_body(Message(code, kept, headers), PageSize) = Message(code, PageSize, headers)
    BY MessageExcept
  <2> QED
    BY <1>2, <2>1, Zenon DEF ErrorPage
<1> HIDE DEF sent
<1>4. PICK m : /\ KeepAlive(request, Message(code, sent, headers)) = Message(code, sent, m)
               /\ Lengths(m) = Lengths(headers) /\ (Fixed(m) <=> Fixed(headers))
               /\ Kept(m) <=> wants_keep_alive(request) \/ Kept(headers)
  BY KeepAliveIs
<1>5. PICK w : /\ build(Message(code, sent, m)) = Message(code, sent, w)
               /\ Lengths(w) = IF Fixed(m) THEN Lengths(m) ELSE Lengths(m) \cup {sent}
               /\ Kept(w) <=> Kept(m)
  BY BuildIs
<1>6. wire = Message(code, sent, w)
  BY <1>1, <1>3, <1>4, <1>5, Zenon DEF Finish
<1>7. wire.body = sent /\ Announced(wire) = Lengths(w) /\ (SaysKept(wire) <=> Kept(w))
  BY <1>6, MessageExcept, AnnouncedIs
<1> HIDE DEF wire
<1>9. /\ Announced(wire) = IF Fixed(headers) THEN Lengths(headers)
                           ELSE Lengths(headers) \cup {sent}
      /\ SaysKept(wire) <=> wants_keep_alive(request) \/ Kept(headers)
  BY <1>4, <1>5, <1>7, Zenon
<1> QED
  BY <1>7, <1>9, Zenon DEF wire, sent, kept, answer

\* What is announced without headers, or with one that says a size.
LEMMA FewLengths ==
    /\ Lengths(<<>>) = {} /\ ~Fixed(<<>>) /\ ~Kept(<<>>) /\ "Connection" \notin DOMAIN <<>>
    /\ \A n : \A key \in LengthKeys \cup {"Transfer-Encoding"} :
          /\ Lengths(Assigned(<<>>, key, n)) = {n}
          /\ Fixed(Assigned(<<>>, key, n)) <=> key # "content-length"
          /\ ~Kept(Assigned(<<>>, key, n))
<1>1. DOMAIN <<>> = {}
  OBVIOUS
<1>2. ASSUME NEW key \in LengthKeys \cup {"Transfer-Encoding"}, NEW n
      PROVE  /\ Lengths(Assigned(<<>>, key, n)) = {n}
             /\ Fixed(Assigned(<<>>, key, n)) <=> key # "content-length"
             /\ ~Kept(Assigned(<<>>, key, n))
  <2> DEFINE m == Assigned(<<>>, key, n)
  <2>1. DOMAIN m = {key} /\ m[key] = n
    BY <1>1 DEF Assigned
  <2> HIDE DEF m
  <2>2. Lengths(m) = {n}
    <3>1. CASE key = "Transfer-Encoding"
      BY <2>1, <3>1 DEF Lengths, Coded
    <3>2. CASE key \in LengthKeys
      <4>1. LengthKeys \cap DOMAIN m = {key} /\ ~Coded(m)
        BY <2>1, <3>2 DEF LengthKeys, Coded
      <4> QED
        BY <2>1, <4>1 DEF Lengths
    <3> QED
      BY <3>1, <3>2
  <2>3. (Fixed(m) <=> key # "content-length") /\ ~Kept(m)
    BY <2>1 DEF Fixed, Coded, Kept, LengthKeys
  <2> QED
    BY <2>2, <2>3 DEF m
<1>3. Lengths(<<>>) = {} /\ ~Fixed(<<>>) /\ ~Kept(<<>>) /\ "Connection" \notin DOMAIN <<>>
  BY <1>1 DEF Lengths, Fixed, Coded, Kept
<1> QED
  BY <1>2, <1>3

Handlers == {"internal", "static", "balanced", "proxy"}

\* An answer that a handler may give: one that announces nothing; a file, with
\* its size; or a backend's, with the size the backend gave, whatever came of
\* the body.
Plausible(target, method, answer) ==
    \E code, size, headers :
       /\ answer = Message(code, size, headers)
       /\ Kept(headers) => target.handler \in {"proxy", "balanced"}
       /\ \/ Lengths(headers) = {} /\ ~Fixed(headers)
          \/ /\ target.handler = "static" /\ code = 200 /\ size = FileSize
             /\ Lengths(headers) = {FileSize} /\ Fixed(headers)
          \/ /\ target.handler \in {"proxy", "balanced"}
             /\ method # "HEAD" => size \in {4, 2}
             /\ Lengths(headers) = {BackendSize}

\* The answers of a handler are such.
LEMMA AnswersAnnounce ==
    ASSUME NEW target, target.handler \in Handlers \cup {"404", "405"},
           NEW method, NEW answer \in Answers(target, method)
    PROVE  Plausible(target, method, answer)
<1>1. \A code, size : Response(code, size) = Message(code, size, <<>>)
  BY DEF Response, Message
<1>2. ASSUME NEW code, NEW size, answer = Response(code, size)
      PROVE  Plausible(target, method, answer)
  BY <1>1, <1>2, FewLengths, Zenon DEF Plausible
<1>3. ASSUME target.handler = "static", answer \in StaticAnswers
      PROVE  Plausible(target, method, answer)
  <2>1. CASE answer = set_header(ok(FileSize), "Content-Length", FileSize)
    <3> DEFINE m == Assigned(<<>>, "Content-Length", FileSize)
    <3>1. answer = Message(200, FileSize, m)
      BY <1>1, <2>1, MessageExcept DEF ok
    <3>2. Lengths(m) = {FileSize} /\ Fixed(m) /\ ~Kept(m)
      BY FewLengths DEF LengthKeys
    <3> QED
      BY <1>3, <3>1, <3>2, Zenon DEF Plausible
  <2>2. CASE answer \in {redirect, forbidden, not_found, internal_error}
    <3>1. \/ answer = Response(301, 0) \/ answer = Response(403, 1)
          \/ answer = Response(404, 1) \/ answer = Response(500, 1)
      BY <2>2 DEF redirect, forbidden, not_found, internal_error
    <3> QED
      BY <1>2, <3>1
  <2> QED
    BY <1>3, <2>1, <2>2 DEF StaticAnswers
<1>4. ASSUME target.handler \in {"proxy", "balanced"}, NEW host, answer \in ProxyAnswers(host, method)
      PROVE  Plausible(target, method, answer)
  <2>1. CASE answer = internal_error \/ answer = Response(502, 1)
    <3>1. answer = Response(500, 1) \/ answer = Response(502, 1)
      BY <2>1 DEF internal_error
    <3> QED
      BY <1>2, <3>1
  <2>2. CASE answer \in FromBackend(method)
    <3> DEFINE full == IF method = "HEAD" THEN 0 ELSE BackendSize
               Keys == {"Content-Length", "content-length", "Transfer-Encoding"}
               bare == {Response(code, size) : code \in {200, 404}, size \in {full, full \div 2}}
               sized == {set_header(r, key, BackendSize) : r \in bare, key \in Keys}
               Sized(n) == method # "HEAD" => n \in {4, 2}
               Sound(headers) == \/ Lengths(headers) = {} /\ ~Fixed(headers)
                                 \/ Lengths(headers) = {BackendSize}
               Plain(r) == \E code, size : r = Message(code, size, <<>>) /\ Sized(size)
               Relayed(r) == \E code, size, headers :
                                r = Message(code, size, headers) /\ Sized(size) /\ Sound(headers)
    <3>1. answer \in bare \cup sized
             \cup {set_header(r, "Connection", value) :
                      r \in bare \cup sized, value \in {"close", "keep-alive"}}
      BY <2>2 DEF FromBackend
    <3>2. ASSUME NEW r \in bare PROVE Plain(r)
      <4>1. PICK code \in {200, 404}, size \in {full, full \div 2} : r = Response(code, size)
        BY <3>2
      <4>2. Sized(size)
        <5>1. 4 \div 2 = 2
          OBVIOUS
        <5> QED
          BY <4>1, <5>1 DEF BackendSize
      <4>3. r = Message(code, size, <<>>)
        BY <4>1 DEF Response, Message
      <4> HIDE DEF Sized
      <4> QED
        BY <4>2, <4>3
    <3> HIDE DEF bare, Sized, Sound
    <3>3. ASSUME NEW r \in bare \cup sized PROVE Relayed(r)
      <4>1. CASE r \in bare
        <5>1. PICK code, size : r = Message(code, size, <<>>) /\ Sized(size)
          BY <3>2, <4>1
        <5>2. Sound(<<>>)
          BY FewLengths DEF Sound
        <5> QED
          BY <5>1, <5>2
      <4>2. CASE r \in sized
        <5>1. PICK b \in bare, key \in Keys : r = set_header(b, key, BackendSize)
          BY <4>2
        <5>2. PICK code, size : b = Message(code, size, <<>>) /\ Sized(size)
          BY <3>2
        <5>3. r = Message(code, size, Assigned(<<>>, key, BackendSize))
          BY <5>1, <5>2, MessageExcept
        <5>4. Sound(Assigned(<<>>, key, BackendSize))
          BY FewLengths DEF Sound, LengthKeys
        <5> QED
          BY <5>2, <5>3, <5>4
      <4> QED
        BY <4>1, <4>2
    <3> HIDE DEF sized
    <3>4. Relayed(answer)
      <4>1. CASE answer \in bare \cup sized
        BY <3>3, <4>1
      <4>2. CASE answer \notin bare \cup sized
        <5>1. PICK r \in bare \cup sized, value \in {"close", "keep-alive"} :
                 answer = set_header(r, "Connection", value)
          BY <3>1, <4>2
        <5>2. PICK code, size, headers :
                 r = Message(code, size, headers) /\ Sized(size) /\ Sound(headers)
          BY <3>3
        <5>3. answer = Message(code, size, Assigned(headers, "Connection", value))
          BY <5>1, <5>2, MessageExcept
        <5>4. Sound(Assigned(headers, "Connection", value))
          BY <5>2, ConnectionSet DEF Sound
        <5> QED
          BY <5>2, <5>3, <5>4, Zenon
      <4> QED
        BY <4>1, <4>2
    <3> QED
      BY <1>4, <3>4, Zenon DEF Plausible, Sound, Sized
  <2>3. answer = internal_error \/ answer = Response(502, 1) \/ answer \in FromBackend(method)
    BY <1>4 DEF ProxyAnswers
  <2> QED
    BY <2>1, <2>2, <2>3
<1>5. CASE target.handler = "404"
  <2>1. answer = Response(404, 1)
    BY <1>5 DEF Answers, not_found
  <2> QED
    BY <1>2, <2>1
<1>6. CASE target.handler = "405"
  <2>1. answer = Response(405, 1)
    BY <1>6 DEF Answers, method_not_allowed
  <2> QED
    BY <1>2, <2>1
<1>7. CASE target.handler = "internal"
  <2>1. answer = Response(200, 1)
    BY <1>7 DEF Answers, ok
  <2> QED
    BY <1>2, <2>1, Zenon
<1>8. CASE target.handler = "static"
  <2>1. answer \in StaticAnswers
    BY <1>8 DEF Answers
  <2> QED
    BY <1>3, <1>8, <2>1, Zenon
<1>9. CASE target.handler = "proxy"
  <2>1. answer \in ProxyAnswers(backend_address(target.argument).host, method)
    BY <1>9 DEF Answers
  <2> QED
    BY <1>4, <1>9, <2>1
<1>10. CASE target.handler = "balanced"
  <2>1. answer \in ProxyAnswers("127.0.0.1", method)
    BY <1>10 DEF Answers
  <2> QED
    BY <1>4, <1>10, <2>1
<1> QED
  BY <1>5, <1>6, <1>7, <1>8, <1>9, <1>10 DEF Handlers

-----------------------------------------------------------------------------
(* The configuration parser                                                 *)

IsLocation(l) ==
    /\ {"rule", "path", "methods"} \subseteq DOMAIN l
    /\ l.rule = "location" /\ l.path \in Args["location"] /\ IsSeq(l.methods)

IsServer(s) ==
    /\ {"rule", "locations"} \subseteq DOMAIN s
    /\ s.rule = "server" /\ IsSeq(s.locations)
    /\ \A i \in 1..Len(s.locations) : IsLocation(s.locations[i])

IsUpstream(u) == "rule" \in DOMAIN u /\ u.rule = "upstream"

\* What may follow in a statement that begins with b in a block of rule r, n
\* words of it having been consumed.
Rests == {<<"WORD", "WORD", ";">>, <<"WORD", ";">>, <<";">>, <<"WORDS", ";">>}

Stage(r, b, n, e) ==
    \/ r = "top" /\ b = "server" /\ e = <<"{">>
    \/ r = "top" /\ b = "upstream" /\ e \in {<<"WORD", "{">>, <<"{">>}
    \/ r = "server" /\ b = "location" /\ <<n, e>> \in {<<1, <<"WORD", "{">>>>, <<2, <<"{">>>>}
    \/ /\ r = "server" /\ e \in Rests
       /\ b \in {"listen", "server_name", "root", "error_page", "client_max_body_size",
                 "rate_limit"}
    \/ /\ r = "location" /\ e \in Rests
       /\ b \in {"root", "index", "proxy_pass", "autoindex", "methods"}
    \/ r = "upstream" /\ b \in {"server", "health_check_interval"} /\ e \in Rests

\* The blocks that are open.
OpenInv ==
    \/ open = <<>>
    \/ \E s : IsServer(s) /\ open = <<s>>
    \/ \E u : IsUpstream(u) /\ open = <<u>>
    \/ \E s, l : IsServer(s) /\ IsLocation(l) /\ open = <<s, l>>

WordsInv ==
    /\ IsSeq(words)
    /\ expect # <<>> => /\ words # <<>>
                        /\ \A i \in 2..Len(words) : words[i] \in Args[words[1]]
                        /\ Stage(rule, words[1], Len(words), expect)

ConfigsInv == IsSeq(configs) /\ \A i \in 1..Len(configs) : IsServer(configs[i])

ParserInv == OpenInv /\ WordsInv /\ ConfigsInv

\* The rule of the innermost block.
LEMMA RuleIs ==
    /\ open = <<>> => rule = "top"
    /\ \A b : open = <<b>> => rule = b.rule /\ Last(open) = b /\ Front(open) = <<>>
    /\ \A a, b : open = <<a, b>> => rule = b.rule /\ Last(open) = b /\ Front(open) = <<a>>
<1>1. open = <<>> => rule = "top"
  BY DEF rule
<1>2. ASSUME NEW b, open = <<b>> PROVE rule = b.rule /\ Last(open) = b /\ Front(open) = <<>>
  <2>1. open # <<>> /\ Len(open) = 1 /\ open[1] = b
    BY <1>2
  <2>2. Last(open) = b /\ Front(open) = <<>>
    BY <2>1, <1>2 DEF Last, Front
  <2> QED
    BY <2>1, <2>2, Zenon DEF rule
<1>3. ASSUME NEW a, NEW b, open = <<a, b>>
      PROVE  rule = b.rule /\ Last(open) = b /\ Front(open) = <<a>>
  <2>1. open # <<>> /\ Len(open) = 2 /\ open[2] = b
    BY <1>3
  <2>2. Last(open) = b
    BY <2>1 DEF Last
  <2>3. Front(open) = <<a>>
    <3>1. open \in Seq({a, b}) /\ open[1] = a
      BY <1>3
    <3>2. /\ SubSeq(open, 1, 1) \in Seq({a, b}) /\ Len(SubSeq(open, 1, 1)) = 1
          /\ SubSeq(open, 1, 1)[1] = a
      BY <2>1, <3>1, Parts
    <3>3. Front(open) = SubSeq(open, 1, 1)
      BY <2>1 DEF Front
    <3>4. \A t \in Seq({a, b}) : Len(t) = 1 /\ t[1] = a => t = <<a>>
      OBVIOUS
    <3> QED
      BY <3>1, <3>2, <3>3, <3>4, Zenon
  <2> QED
    BY <2>1, <2>2, <2>3, Zenon DEF rule
<1> QED
  BY <1>1, <1>2, <1>3

\* The statements of each rule, and what follows the word each begins with.
OneWord == {"listen", "server_name", "root", "client_max_body_size", "rate_limit"}
OneWordOfLocation == {"root", "index", "proxy_pass", "autoindex"}

Stated(r, b, e) ==
    \/ r = "top" /\ b = "server" /\ e = <<"{">>
    \/ r = "top" /\ b = "upstream" /\ e = <<"WORD", "{">>
    \/ r = "server" /\ b = "location" /\ e = <<"WORD", "{">>
    \/ r = "server" /\ b \in OneWord /\ e = <<"WORD", ";">>
    \/ r = "server" /\ b = "error_page" /\ e = <<"WORD", "WORD", ";">>
    \/ r = "location" /\ b \in OneWordOfLocation /\ e = <<"WORD", ";">>
    \/ r = "location" /\ b = "methods" /\ e = <<"WORDS", ";">>
    \/ r = "upstream" /\ b \in {"server", "health_check_interval"} /\ e = <<"WORD", ";">>

\* The rules know these statements and no others.
LEMMA StatementIs ==
    ASSUME NEW r \in {"top", "server", "location", "upstream"}, NEW b \in DOMAIN Statements[r]
    PROVE  Stated(r, b, Statements[r][b])
<1>1. CASE r = "top"
  <2> DEFINE m == [server |-> <<"{">>, upstream |-> <<"WORD", "{">>]
  <2>1. Statements[r] = m
    BY <1>1 DEF Statements
  <2>2. DOMAIN m = {"server", "upstream"} /\ m["server"] = <<"{">> /\ m["upstream"] = <<"WORD", "{">>
    OBVIOUS
  <2> HIDE DEF m
  <2> QED
    BY <1>1, <2>1, <2>2, Zenon DEF Stated
<1>2. CASE r = "server"
  <2> DEFINE m == [location |-> <<"WORD", "{">>, listen |-> One, server_name |-> One,
                   root |-> One, error_page |-> <<"WORD", "WORD", ";">>,
                   client_max_body_size |-> One, rate_limit |-> One]
  <2>1. Statements[r] = m
    BY <1>2 DEF Statements
  <2> DEFINE Is(f, x, y, z) == /\ DOMAIN f = {"location", "error_page"} \cup OneWord
                               /\ f["location"] = x /\ f["error_page"] = z
                               /\ \A k \in OneWord : f[k] = y
  <2>2. ASSUME NEW x, NEW y, NEW z
        PROVE  Is([location |-> x, listen |-> y, server_name |-> y, root |-> y, error_page |-> z,
                   client_max_body_size |-> y, rate_limit |-> y], x, y, z)
    BY DEF OneWord
  <2>3. Is(m, <<"WORD", "{">>, One, <<"WORD", "WORD", ";">>)
    <3> HIDE DEF Is
    <3> QED
      BY <2>2, Zenon
  <2> HIDE DEF m
  <2> QED
    BY <1>2, <2>1, <2>3, Zenon DEF Stated, One
<1>3. CASE r = "location"
  <2> DEFINE m == [root |-> One, index |-> One, proxy_pass |-> One, autoindex |-> One,
                   methods |-> <<"WORDS", ";">>]
  <2>1. Statements[r] = m
    BY <1>3 DEF Statements
  <2> DEFINE Is(f, y, z) == /\ DOMAIN f = {"methods"} \cup OneWordOfLocation
                            /\ f["methods"] = z
                            /\ \A k \in OneWordOfLocation : f[k] = y
  <2>2. ASSUME NEW y, NEW z
        PROVE  Is([root |-> y, index |-> y, proxy_pass |-> y, autoindex |-> y, methods |-> z], y, z)
    BY DEF OneWordOfLocation
  <2>3. Is(m, One, <<"WORDS", ";">>)
    <3> HIDE DEF Is
    <3> QED
      BY <2>2, Zenon
  <2> HIDE DEF m
  <2> QED
    BY <1>3, <2>1, <2>3, Zenon DEF Stated, One
<1>4. CASE r = "upstream"
  <2> DEFINE m == [server |-> One, health_check_interval |-> One]
  <2>1. Statements[r] = m
    BY <1>4 DEF Statements
  <2>2. /\ DOMAIN m = {"server", "health_check_interval"}
        /\ m["server"] = One /\ m["health_check_interval"] = One
    OBVIOUS
  <2> HIDE DEF m
  <2> QED
    BY <1>4, <2>1, <2>2, Zenon DEF Stated, One
<1> QED
  BY <1>1, <1>2, <1>3, <1>4

\* A statement that begins.
LEMMA StatementsAre ==
    ASSUME NEW r \in {"top", "server", "location", "upstream"}, NEW b \in DOMAIN Statements[r]
    PROVE  Stage(r, b, 1, Statements[r][b])
<1> DEFINE e == Statements[r][b]
<1>1. Stated(r, b, e)
  BY StatementIs
<1> HIDE DEF e
<1>2. CASE r = "server" /\ b = "location"
  <2>1. e = <<"WORD", "{">>
    BY <1>1, <1>2, Zenon DEF Stated, OneWord
  <2> QED
    BY <1>2, <2>1 DEF Stage, e
<1>3. CASE r = "top"
  BY <1>1, <1>3, Zenon DEF Stated, Stage, e
<1>4. CASE ~(r = "server" /\ b = "location") /\ r # "top"
  <2>1. e \in Rests
    BY <1>1, <1>4, Zenon DEF Stated, Rests
  <2>2. \/ r = "server" /\ b \in OneWord \cup {"error_page"}
        \/ r = "location" /\ b \in OneWordOfLocation \cup {"methods"}
        \/ r = "upstream" /\ b \in {"server", "health_check_interval"}
    BY <1>1, <1>4, Zenon DEF Stated
  <2> QED
    BY <2>1, <2>2, Zenon DEF Stage, OneWord, OneWordOfLocation, e
<1> QED
  BY <1>2, <1>3, <1>4

\* The rest of a short sequence.
LEMMA ShortTails ==
    ASSUME NEW a, NEW b, NEW c
    PROVE  Tail(<<a, b>>) = <<b>> /\ Tail(<<a, b, c>>) = <<b, c>>
OBVIOUS

\* A word that is consumed.
LEMMA StageGoesOn ==
    ASSUME NEW r, NEW b, NEW n, NEW e, Stage(r, b, n, e), e # <<>>,
           Head(e) \in {"WORD", "WORDS"}
    PROVE  Stage(r, b, n + 1, IF Head(e) = "WORD" THEN Tail(e) ELSE e)
<1>1. Tail(<<"WORD", "WORD", ";">>) = <<"WORD", ";">>
  BY ShortTails, ZenonT(40)
<1>2. Tail(<<"WORD", ";">>) = <<";">>
  BY ShortTails
<1>3. Tail(<<"WORD", "{">>) = <<"{">>
  BY ShortTails
<1>4. /\ Head(<<"WORD", "WORD", ";">>) = "WORD" /\ Head(<<"WORD", ";">>) = "WORD"
      /\ Head(<<"WORD", "{">>) = "WORD" /\ Head(<<"WORDS", ";">>) = "WORDS"
  OBVIOUS
<1>5. Head(<<"{">>) \notin {"WORD", "WORDS"} /\ Head(<<";">>) \notin {"WORD", "WORDS"}
  OBVIOUS
<1>6. "WORD" # "WORDS" /\ 1 + 1 = 2
  OBVIOUS
<1> DEFINE f == IF Head(e) = "WORD" THEN Tail(e) ELSE e
<1>7. CASE r = "top"
  <2>1. b = "upstream" /\ e = <<"WORD", "{">>
    BY <1>5, <1>7, Zenon DEF Stage
  <2>2. f = <<"{">>
    BY <1>3, <1>4, <2>1, Zenon
  <2> QED
    BY <1>7, <2>1, <2>2 DEF Stage
<1>8. CASE r = "server" /\ b = "location"
  <2>1. n = 1 /\ e = <<"WORD", "{">>
    BY <1>5, <1>8 DEF Stage
  <2>2. f = <<"{">> /\ n + 1 = 2
    BY <1>3, <1>4, <1>6, <2>1, Zenon
  <2> QED
    BY <1>8, <2>2 DEF Stage
<1>9. CASE r # "top" /\ ~(r = "server" /\ b = "location")
  <2>1. e \in Rests
    BY <1>9, Zenon DEF Stage
  <2>2. f \in Rests
    <3>1. e \in {<<"WORD", "WORD", ";">>, <<"WORD", ";">>, <<"WORDS", ";">>}
      BY <1>5, <2>1, Zenon DEF Rests
    <3>2. f \in {<<"WORD", ";">>, <<";">>, <<"WORDS", ";">>}
      BY <1>1, <1>2, <1>4, <1>6, <3>1, Zenon
    <3> QED
      BY <3>2, Zenon DEF Rests
  <2> HIDE DEF f
  <2>3. Stage(r, b, n + 1, f)
    BY <1>9, <2>2, Zenon DEF Stage
  <2> QED
    BY <2>3 DEF f
<1> QED
  BY <1>7, <1>8, <1>9

\* A directive of a block leaves it a block of its kind.
LEMMA DirectiveKeeps ==
    ASSUME NEW block, NEW w, NEW n, Stage(block.rule, w[1], n, <<";">>) \/ Stage(block.rule, w[1], n, <<"WORDS", ";">>),
           IsSeq(w), w # <<>>
    PROVE  /\ IsServer(block) => IsServer(Directive(block, w))
           /\ IsLocation(block) => IsLocation(Directive(block, w))
           /\ IsUpstream(block) => IsUpstream(Directive(block, w))
<1>0. <<";">> # <<"{">> /\ <<";">> # <<"WORD", "{">> /\ <<"WORDS", ";">> # <<"{">> /\ <<"WORDS", ";">> # <<"WORD", "{">>
  OBVIOUS
<1>1. ASSUME IsServer(block) PROVE IsServer(Directive(block, w))
  <2>1. w[1] \in {"listen", "server_name", "root", "error_page", "client_max_body_size", "rate_limit"}
    BY <1>0, <1>1 DEF Stage, IsServer
  <2>2. Directive(block, w) = parse_server_directive(block, w)
    BY <1>1 DEF Directive, IsServer
  <2> DEFINE Same(s) == DOMAIN s = DOMAIN block /\ s.rule = block.rule /\ s.locations = block.locations
  <2>3. ASSUME NEW k, k # "rule", k # "locations", NEW v PROVE Same([block EXCEPT ![k] = v])
    BY <1>1, <2>3 DEF IsServer
  <2>4. ASSUME NEW h, NEW p PROVE Same([block EXCEPT !.host = h, !.port = p]) /\ Same([block EXCEPT !.port = p])
    BY <1>1 DEF IsServer
  <2>5. ASSUME NEW p PROVE Same([block EXCEPT !.error_pages = p])
    BY <1>1 DEF IsServer
  <2> HIDE DEF Same
  <2>9. Same(parse_server_directive(block, w))
    <3>6. CASE w[1] = "listen"
      BY <2>4, <3>6 DEF parse_server_directive, parse_listen
    <3>7. CASE w[1] = "error_page"
      BY <2>5, <3>7 DEF parse_server_directive
    <3>8. CASE w[1] \in {"client_max_body_size", "rate_limit", "server_name", "root"}
      BY <2>3, <3>8 DEF parse_server_directive
    <3> QED
      BY <2>1, <3>6, <3>7, <3>8
  <2> QED
    BY <1>1, <2>2, <2>9 DEF IsServer, Same
<1>2. ASSUME IsLocation(block) PROVE IsLocation(Directive(block, w))
  <2>1. w[1] \in {"root", "index", "proxy_pass", "autoindex", "methods"}
    BY <1>0, <1>2 DEF Stage, IsLocation
  <2>2. Directive(block, w) = parse_location_directive(block, w)
    BY <1>2 DEF Directive, IsLocation
  <2> DEFINE Same(s) == /\ DOMAIN s = DOMAIN block /\ s.rule = block.rule /\ s.path = block.path
                        /\ IsSeq(s.methods)
  <2>3. ASSUME NEW k, k # "rule", k # "path", k # "methods", NEW v
        PROVE  Same([block EXCEPT ![k] = v])
    BY <1>2, <2>3 DEF IsLocation
  <2>4. ASSUME NEW m, IsSeq(m) PROVE Same([block EXCEPT !.methods = m])
    BY <1>2, <2>4 DEF IsLocation
  <2>5. ASSUME NEW v PROVE Same([block EXCEPT !.index_file = v]) /\ Same([block EXCEPT !.autoindex = v])
    BY <1>2 DEF IsLocation
  <2> HIDE DEF Same
  <2>9. Same(parse_location_directive(block, w))
    <3>6. CASE w[1] = "methods"
      <4>1. IsSeq(AddMethods(block.methods, Tail(w)))
        <5>1. IsSeq(Tail(w))
          <6>1. w \in Seq(Range(w))
            BY DEF IsSeq
          <6>2. Tail(w) \in Seq(Range(w))
            BY <6>1, HeadTailProperties
          <6> QED
            BY <6>2, SeqIs
        <5> QED
          BY <1>2, <5>1, ConcatIs DEF IsLocation, AddMethods
      <4>2. parse_location_directive(block, w)
               = [block EXCEPT !.methods = AddMethods(block.methods, Tail(w))]
        BY <3>6 DEF parse_location_directive
      <4> QED
        BY <2>4, <4>1, <4>2
    <3>7. CASE w[1] = "index" \/ w[1] = "autoindex"
      BY <2>5, <3>7 DEF parse_location_directive
    <3>8. CASE w[1] \in {"root", "proxy_pass"}
      BY <2>3, <3>8 DEF parse_location_directive
    <3> QED
      BY <2>1, <3>6, <3>7, <3>8
  <2> QED
    BY <1>2, <2>2, <2>9 DEF IsLocation, Same
<1>3. ASSUME IsUpstream(block) PROVE IsUpstream(Directive(block, w))
  <2>1. w[1] \in {"server", "health_check_interval"}
    BY <1>0, <1>3 DEF Stage, IsUpstream
  <2>2. Directive(block, w) = parse_upstream_directive(block, w)
    BY <1>3 DEF Directive, IsUpstream
  <2>3. ASSUME NEW v
        PROVE  IsUpstream([block EXCEPT !.servers = v]) /\ IsUpstream([block EXCEPT !.health_check_interval = v])
    BY <1>3 DEF IsUpstream
  <2> QED
    BY <2>2, <2>3 DEF parse_upstream_directive
<1> QED
  BY <1>1, <1>2, <1>3

\* What rules there are.
LEMMA RulesAre ==
    ASSUME OpenInv
    PROVE  /\ rule \in {"top", "server", "location", "upstream"}
           /\ rule = "top" => open = <<>>
           /\ rule = "server" => \E s : IsServer(s) /\ open = <<s>>
<1>1. CASE open = <<>>
  BY <1>1, RuleIs
<1>2. ASSUME NEW s, IsServer(s), open = <<s>> PROVE rule = "server"
  BY <1>2, RuleIs DEF IsServer
<1>3. ASSUME NEW u, IsUpstream(u), open = <<u>> PROVE rule = "upstream"
  BY <1>3, RuleIs DEF IsUpstream
<1>4. ASSUME NEW s, NEW l, IsLocation(l), open = <<s, l>> PROVE rule = "location"
  BY <1>4, RuleIs DEF IsLocation
<1> QED
  BY <1>1, <1>2, <1>3, <1>4 DEF OpenInv

\* A statement begins.
LEMMA BeginKeeps == ASSUME ParserInv, NEW t, BeginStatement(t) PROVE ParserInv'
<1>1. /\ expect' = Statements[rule][t] /\ words' = <<t>> /\ open' = open /\ configs' = configs
      /\ t \in DOMAIN Statements[rule]
  BY DEF BeginStatement
<1>2. rule' = rule
  BY <1>1 DEF rule
<1>3. Stage(rule, t, 1, Statements[rule][t])
  BY <1>1, RulesAre, StatementsAre DEF ParserInv
<1>4. IsSeq(words') /\ words' # <<>> /\ Len(words') = 1 /\ words'[1] = t
  BY <1>1, ShortAre
<1>5. WordsInv'
  <2>1. ASSUME NEW i \in 2..Len(words') PROVE FALSE
    BY <1>4
  <2>2. Stage(rule', words'[1], Len(words'), expect')
    BY <1>1, <1>2, <1>3, <1>4, Zenon
  <2> QED
    BY <1>4, <2>1, <2>2 DEF WordsInv
<1>6. OpenInv' /\ ConfigsInv'
  BY <1>1 DEF ParserInv, OpenInv, ConfigsInv
<1> QED
  BY <1>5, <1>6 DEF ParserInv

\* A word of it is consumed.
LEMMA ConsumeKeeps ==
    ASSUME ParserInv, NEW t \in Candidates, ConsumeWord(t)
    PROVE  ParserInv'
<1>1. /\ expect # <<>> /\ Head(expect) \in {"WORD", "WORDS"}
      /\ expect' = IF Head(expect) = "WORD" THEN Tail(expect) ELSE expect
      /\ words' = Append(words, t) /\ open' = open /\ configs' = configs
      /\ TokenType(t) = "WORD"
  BY DEF ConsumeWord
<1>2. /\ IsSeq(words) /\ words # <<>> /\ Len(words) \in Nat
      /\ \A i \in 2..Len(words) : words[i] \in Args[words[1]]
      /\ Stage(rule, words[1], Len(words), expect)
  BY <1>1, SeqIs DEF ParserInv, WordsInv
<1>3. t \in Args[words[1]]
  BY <1>1 DEF Candidates, TokenType
<1>4. rule' = rule
  BY <1>1 DEF rule
<1>5. /\ IsSeq(words') /\ Len(words') = Len(words) + 1
      /\ \A i \in 1..Len(words) : words'[i] = words[i]
      /\ words'[Len(words) + 1] = t
  <2>1. /\ IsSeq(Append(words, t)) /\ Len(Append(words, t)) = Len(words) + 1
        /\ \A i \in 1..Len(words) : Append(words, t)[i] = words[i]
        /\ Append(words, t)[Len(words) + 1] = t
    BY <1>2, AppendIs, Zenon
  <2>2. words' = Append(words, t)
    BY <1>1
  <2> QED
    BY <2>1, <2>2, Zenon
<1>6. Len(words) # 0
  BY <1>2 DEF IsSeq
<1>7. words'[1] = words[1] /\ words' # <<>>
  <2>1. 1 \in 1..Len(words) /\ Len(words') # 0
    BY <1>2, <1>5, <1>6
  <2>2. Len(<<>>) = 0
    OBVIOUS
  <2> QED
    BY <1>5, <2>1, <2>2, Zenon
<1>8. Stage(rule', words'[1], Len(words'), expect')
  <2>1. Stage(rule, words[1], Len(words) + 1,
              IF Head(expect) = "WORD" THEN Tail(expect) ELSE expect)
    BY <1>1, <1>2, StageGoesOn
  <2> QED
    BY <1>1, <1>4, <1>5, <1>7, <2>1
<1>9. ASSUME NEW i \in 2..Len(words') PROVE words'[i] \in Args[words'[1]]
  <2>1. CASE i = Len(words) + 1
    BY <1>3, <1>5, <1>7, <2>1
  <2>2. CASE i # Len(words) + 1
    <3>1. i \in 2..Len(words) /\ i \in 1..Len(words)
      BY <1>2, <1>5, <2>2
    <3> QED
      BY <1>2, <1>5, <1>7, <3>1
  <2> QED
    BY <2>1, <2>2
<1>10. WordsInv'
  BY <1>5, <1>7, <1>8, <1>9 DEF WordsInv
<1>11. OpenInv' /\ ConfigsInv'
  BY <1>1 DEF ParserInv, OpenInv, ConfigsInv
<1> QED
  BY <1>10, <1>11 DEF ParserInv

\* Between statements nothing is said of the words.
LEMMA NoWords == ASSUME words' = <<>>, expect' = <<>> PROVE WordsInv'
<1>1. IsSeq(words')
  BY ShortAre
<1> QED
  BY <1>1 DEF WordsInv

\* The block that begins.
LEMMA OpenIs ==
    ASSUME ParserInv, NEW t, OpenBlock(t)
    PROVE  \/ /\ open = <<>> /\ words[1] = "server"
              /\ IsServer(ServerBlock) /\ open' = <<ServerBlock>>
           \/ /\ open = <<>> /\ words[1] = "upstream"
              /\ \E u : IsUpstream(u) /\ open' = <<u>>
           \/ \E s, l : IsServer(s) /\ IsLocation(l) /\ open = <<s>> /\ open' = <<s, l>>
<1> DEFINE Shape == \/ /\ open = <<>> /\ words[1] = "server"
                       /\ IsServer(ServerBlock) /\ open' = <<ServerBlock>>
                    \/ /\ open = <<>> /\ words[1] = "upstream"
                       /\ \E u : IsUpstream(u) /\ open' = <<u>>
                    \/ \E s, l : IsServer(s) /\ IsLocation(l) /\ open = <<s>> /\ open' = <<s, l>>
<1>1. /\ expect = <<"{">>
      /\ open' = Append(open, CASE words[1] = "server" -> ServerBlock
                                [] words[1] = "location" -> LocationBlock(words[2])
                                [] words[1] = "upstream" -> UpstreamBlock(words[2]))
  BY DEF OpenBlock
<1>2. /\ \A i \in 2..Len(words) : words[i] \in Args[words[1]]
      /\ Stage(rule, words[1], Len(words), <<"{">>)
  <2>1. <<"{">> # <<>>
    OBVIOUS
  <2> QED
    BY <1>1, <2>1 DEF ParserInv, WordsInv
<1>3. \/ rule = "top" /\ words[1] \in {"server", "upstream"}
      \/ rule = "server" /\ words[1] = "location" /\ Len(words) = 2
  <2>1. <<"{">> \notin Rests /\ <<"{">> # <<"WORD", "{">>
    BY DEF Rests
  <2> QED
    BY <1>2, <2>1 DEF Stage
<1>4. Shape
  <2>1. CASE rule = "top" /\ words[1] = "server"
    <3>1. open' = <<ServerBlock>>
      <4>1. open' = Append(<<>>, ServerBlock)
        BY <1>1, <2>1, RulesAre DEF ParserInv
      <4> QED
        BY <4>1, ShortAre, Zenon
    <3>2. IsServer(ServerBlock)
      <4>1. /\ ServerBlock.rule = "server" /\ ServerBlock.locations = <<>>
            /\ {"rule", "locations"} \subseteq DOMAIN ServerBlock
        BY DEF ServerBlock
      <4>2. IsSeq(ServerBlock.locations) /\ Len(ServerBlock.locations) = 0
        BY <4>1, ShortAre, Zenon
      <4> QED
        BY <4>1, <4>2 DEF IsServer
    <3>3. open = <<>>
      BY <2>1, RulesAre, Zenon DEF ParserInv
    <3> QED
      BY <2>1, <3>1, <3>2, <3>3, Zenon
  <2>2. CASE rule = "top" /\ words[1] = "upstream"
    <3>1. open' = <<UpstreamBlock(words[2])>>
      <4>1. open' = Append(<<>>, UpstreamBlock(words[2]))
        BY <1>1, <2>2, RulesAre DEF ParserInv
      <4> QED
        BY <4>1, ShortAre, Zenon
    <3>2. IsUpstream(UpstreamBlock(words[2]))
      BY DEF IsUpstream, UpstreamBlock
    <3>3. open = <<>>
      BY <2>2, RulesAre, Zenon DEF ParserInv
    <3> QED
      BY <2>2, <3>1, <3>2, <3>3, Zenon
  <2>3. CASE rule = "server" /\ words[1] = "location" /\ Len(words) = 2
    <3>1. PICK s : IsServer(s) /\ open = <<s>>
      BY <2>3, RulesAre DEF ParserInv
    <3> DEFINE l == LocationBlock(words[2])
    <3>2. open' = <<s, l>>
      <4>1. open' = Append(<<s>>, l)
        BY <1>1, <2>3, <3>1
      <4> QED
        BY <4>1, ShortAre, Zenon
    <3>3. IsLocation(l)
      <4>1. words[2] \in Args["location"]
        <5>1. 2 \in 2..Len(words)
          BY <2>3
        <5> QED
          BY <1>2, <2>3, <5>1, Zenon
      <4>2. /\ l.rule = "location" /\ l.path = words[2] /\ l.methods = <<>>
            /\ {"rule", "path", "methods"} \subseteq DOMAIN l
        BY DEF LocationBlock
      <4> QED
        BY <4>1, <4>2, ShortAre DEF IsLocation
    <3> QED
      BY <3>1, <3>2, <3>3
  <2> QED
    BY <1>3, <2>1, <2>2, <2>3
<1> QED
  BY <1>4

\* A block begins.
LEMMA OpenKeeps == ASSUME ParserInv, NEW t, OpenBlock(t) PROVE ParserInv'
<1>1. expect' = <<>> /\ words' = <<>> /\ configs' = configs
  BY DEF OpenBlock
<1>2. WordsInv' /\ ConfigsInv'
  BY <1>1, NoWords DEF ParserInv, ConfigsInv
<1>3. OpenInv'
  BY OpenIs, Zenon DEF OpenInv
<1> QED
  BY <1>2, <1>3 DEF ParserInv

\* The innermost block after a directive.
LEMMA EndIs ==
    ASSUME ParserInv, NEW t, EndDirective(t)
    PROVE  \/ \E s, b : IsServer(s) /\ IsServer(b) /\ open = <<s>> /\ open' = <<b>>
           \/ \E u, b : IsUpstream(u) /\ IsUpstream(b) /\ open = <<u>> /\ open' = <<b>>
           \/ \E s, l, b : /\ IsServer(s) /\ IsLocation(l) /\ IsLocation(b)
                          /\ open = <<s, l>> /\ open' = <<s, b>>
<1> DEFINE Shape == \/ \E s, b : IsServer(s) /\ IsServer(b) /\ open = <<s>> /\ open' = <<b>>
                    \/ \E u, b : IsUpstream(u) /\ IsUpstream(b) /\ open = <<u>> /\ open' = <<b>>
                    \/ \E s, l, b : /\ IsServer(s) /\ IsLocation(l) /\ IsLocation(b)
                                   /\ open = <<s, l>> /\ open' = <<s, b>>
<1>1. /\ expect \in {<<";">>, <<"WORDS", ";">>}
      /\ open' = Append(Front(open), Directive(Last(open), words))
  BY DEF EndDirective
<1>2. /\ IsSeq(words) /\ words # <<>>
      /\ \/ Stage(rule, words[1], Len(words), <<";">>)
         \/ Stage(rule, words[1], Len(words), <<"WORDS", ";">>)
  <2>1. <<";">> # <<>> /\ <<"WORDS", ";">> # <<>>
    OBVIOUS
  <2> QED
    BY <1>1, <2>1, Zenon DEF ParserInv, WordsInv
<1>3. Shape
  <2> DEFINE Keeps(b) == /\ IsServer(b) => IsServer(Directive(b, words))
                         /\ IsLocation(b) => IsLocation(Directive(b, words))
                         /\ IsUpstream(b) => IsUpstream(Directive(b, words))
  <2>1. ASSUME NEW b, b.rule = rule PROVE Keeps(b)
    BY <1>2, <2>1, DirectiveKeeps, Zenon
  <2> HIDE DEF Keeps
  <2>2. open # <<>>
    <3> SUFFICES ASSUME open = <<>> PROVE FALSE
      OBVIOUS
    <3>1. rule = "top"
      BY RuleIs
    <3>2. /\ <<";">> \notin {<<"WORD", "{">>, <<"{">>}
          /\ <<"WORDS", ";">> \notin {<<"WORD", "{">>, <<"{">>}
      OBVIOUS
    <3> QED
      BY <1>2, <3>1, <3>2 DEF Stage
  <2>3. ASSUME NEW b, open = <<b>> PROVE open' = <<Directive(b, words)>> /\ Keeps(b)
    <3>1. rule = b.rule /\ Last(open) = b /\ Front(open) = <<>>
      BY <2>3, RuleIs
    <3>2. open' = Append(<<>>, Directive(b, words))
      BY <1>1, <3>1
    <3> QED
      BY <2>1, <3>1, <3>2, ShortAre, Zenon
  <2>4. ASSUME NEW a, NEW b, open = <<a, b>> PROVE open' = <<a, Directive(b, words)>> /\ Keeps(b)
    <3>1. rule = b.rule /\ Last(open) = b /\ Front(open) = <<a>>
      BY <2>4, RuleIs
    <3>2. open' = Append(<<a>>, Directive(b, words))
      BY <1>1, <3>1
    <3> QED
      BY <2>1, <3>1, <3>2, ShortAre, Zenon
  <2>5. ASSUME NEW s, IsServer(s), open = <<s>> PROVE Shape
    BY <2>3, <2>5, Zenon DEF Keeps
  <2>6. ASSUME NEW u, IsUpstream(u), open = <<u>> PROVE Shape
    BY <2>3, <2>6, Zenon DEF Keeps
  <2>7. ASSUME NEW s, NEW l, IsServer(s), IsLocation(l), open = <<s, l>> PROVE Shape
    BY <2>4, <2>7, Zenon DEF Keeps
  <2> QED
    BY <2>2, <2>5, <2>6, <2>7, Zenon DEF ParserInv, OpenInv
<1> QED
  BY <1>3

\* A directive ends.
LEMMA EndKeeps == ASSUME ParserInv, NEW t, EndDirective(t) PROVE ParserInv'
<1>1. expect' = <<>> /\ words' = <<>> /\ configs' = configs
  BY DEF EndDirective
<1>2. WordsInv' /\ ConfigsInv'
  BY <1>1, NoWords DEF ParserInv, ConfigsInv
<1>3. OpenInv'
  BY EndIs, Zenon DEF OpenInv
<1> QED
  BY <1>2, <1>3 DEF ParserInv

\* A location goes into its server block.
LEMMA LocationAdded ==
    ASSUME NEW s, IsServer(s), NEW l, IsLocation(l)
    PROVE  IsServer([s EXCEPT !.locations = Append(@, l)])
<1> DEFINE more == Append(s.locations, l)
           b == [s EXCEPT !.locations = more]
<1>1. /\ IsSeq(more) /\ Len(more) = Len(s.locations) + 1 /\ Len(s.locations) \in Nat
      /\ \A i \in 1..Len(s.locations) : more[i] = s.locations[i]
      /\ more[Len(s.locations) + 1] = l
  <2>1. IsSeq(s.locations)
    BY DEF IsServer
  <2> QED
    BY <2>1, SeqIs, AppendIs
<1> HIDE DEF more
<1>2. DOMAIN b = DOMAIN s /\ b.rule = s.rule /\ b.locations = more
  BY DEF IsServer
<1>3. ASSUME NEW i \in 1..Len(more) PROVE IsLocation(more[i])
  <2>1. CASE i = Len(s.locations) + 1
    BY <1>1, <2>1
  <2>2. CASE i # Len(s.locations) + 1
    <3>1. i \in 1..Len(s.locations)
      BY <1>1, <2>2
    <3> QED
      BY <1>1, <3>1 DEF IsServer
  <2> QED
    BY <2>1, <2>2
<1> HIDE DEF b
<1>4. IsServer(b)
  BY <1>1, <1>2, <1>3 DEF IsServer
<1> QED
  BY <1>4 DEF b, more

\* Where a block goes that ends.
LEMMA CloseIs ==
    ASSUME ParserInv, NEW t, CloseBlock(t)
    PROVE  \/ \E s : IsServer(s) /\ open = <<s>> /\ open' = <<>> /\ configs' = Append(configs, s)
           \/ \E u : IsUpstream(u) /\ open = <<u>> /\ open' = <<>> /\ configs' = configs
           \/ \E s, l, b : /\ IsServer(s) /\ IsLocation(l) /\ IsServer(b) /\ configs' = configs
                          /\ open = <<s, l>> /\ open' = <<b>>
<1> DEFINE block == Last(open)
           outer == Front(open)
<1>1. /\ open # <<>>
      /\ open' = IF block.rule = "location"
                 THEN Append(Front(outer), [Last(outer) EXCEPT !.locations = Append(@, block)])
                 ELSE outer
      /\ configs' = IF block.rule = "server" THEN Append(configs, block) ELSE configs
  BY DEF CloseBlock
<1> HIDE DEF block, outer
<1>2. ASSUME NEW s, IsServer(s), open = <<s>>
      PROVE  open' = <<>> /\ configs' = Append(configs, s)
  <2>1. block = s /\ outer = <<>> /\ s.rule = "server"
    BY <1>2, RuleIs DEF block, outer, IsServer
  <2> QED
    BY <1>1, <2>1
<1>3. ASSUME NEW u, IsUpstream(u), open = <<u>> PROVE open' = <<>> /\ configs' = configs
  <2>1. block = u /\ outer = <<>> /\ u.rule = "upstream"
    BY <1>3, RuleIs DEF block, outer, IsUpstream
  <2> QED
    BY <1>1, <2>1
<1>4. ASSUME NEW s, NEW l, IsServer(s), IsLocation(l), open = <<s, l>>
      PROVE  configs' = configs /\ \E b : IsServer(b) /\ open' = <<b>>
  <2>1. block = l /\ outer = <<s>> /\ l.rule = "location"
    BY <1>4, RuleIs DEF block, outer, IsLocation
  <2>2. Front(<<s>>) = <<>> /\ Last(<<s>>) = s
    BY DEF Front, Last
  <2> DEFINE b == [s EXCEPT !.locations = Append(@, l)]
  <2>3. IsServer(b)
    BY <1>4, LocationAdded
  <2>4. open' = Append(<<>>, b) /\ configs' = configs
    BY <1>1, <2>1, <2>2
  <2> HIDE DEF b
  <2>5. open' = <<b>>
    BY <2>4, ShortAre, Zenon
  <2> QED
    BY <2>3, <2>4, <2>5
<1> QED
  BY <1>1, <1>2, <1>3, <1>4, Zenon DEF ParserInv, OpenInv

\* A block ends.
LEMMA CloseKeeps == ASSUME ParserInv, NEW t, CloseBlock(t) PROVE ParserInv'
<1>1. expect' = <<>> /\ words' = words
  BY DEF CloseBlock
<1>2. WordsInv'
  BY <1>1 DEF ParserInv, WordsInv
<1>3. OpenInv'
  BY CloseIs, Zenon DEF OpenInv
<1>4. ASSUME NEW s, IsServer(s), configs' = Append(configs, s) PROVE ConfigsInv'
  <2>1. IsSeq(configs) /\ \A i \in 1..Len(configs) : IsServer(configs[i])
    BY DEF ParserInv, ConfigsInv
  <2>2. /\ IsSeq(configs') /\ Len(configs') = Len(configs) + 1 /\ Len(configs) \in Nat
        /\ \A i \in 1..Len(configs) : configs'[i] = configs[i]
        /\ configs'[Len(configs) + 1] = s
    BY <1>4, <2>1, SeqIs, AppendIs
  <2>3. ASSUME NEW i \in 1..Len(configs') PROVE IsServer(configs'[i])
    <3>1. CASE i = Len(configs) + 1
      BY <1>4, <2>2, <3>1
    <3>2. CASE i # Len(configs) + 1
      <4>1. i \in 1..Len(configs)
        BY <2>2, <3>2
      <4> QED
        BY <2>1, <2>2, <4>1
    <3> QED
      BY <3>1, <3>2
  <2> QED
    BY <2>2, <2>3 DEF ConfigsInv
<1>5. ASSUME configs' = configs PROVE ConfigsInv'
  BY <1>5, Zenon DEF ParserInv, ConfigsInv
<1>6. \/ configs' = configs
      \/ \E s : IsServer(s) /\ configs' = Append(configs, s)
  BY CloseIs, Zenon
<1>7. ConfigsInv'
  BY <1>4, <1>5, <1>6, Zenon
<1> QED
  BY <1>2, <1>3, <1>7 DEF ParserInv

\* Nothing parsed.
LEMMA NothingParsed ==
    ASSUME open' = <<>>, words' = <<>>, expect' = <<>>, configs' = <<>>
    PROVE  ParserInv'
<1>1. IsSeq(configs') /\ Len(configs') = 0
  BY ShortAre, Zenon
<1> QED
  BY <1>1, NoWords DEF ParserInv, OpenInv, ConfigsInv

\* A step of the parser keeps the shape of what it holds.
LEMMA ParserKeeps == ASSUME ParserInv, ParseConfig PROVE ParserInv'
<1>1. CASE EndOfFile
  <2>1. CASE Throw
    BY <2>1, NothingParsed DEF Throw
  <2>2. CASE UNCHANGED <<tokens_, open, expect, words, configs, upstreams_>>
    BY <2>2 DEF ParserInv, OpenInv, WordsInv, ConfigsInv, rule
  <2> QED
    BY <1>1, <2>1, <2>2 DEF EndOfFile
<1>2. ASSUME NEW t \in Candidates, ReadToken(t) PROVE ParserInv'
  <2>1. CASE SyntaxError(t)
    BY <2>1, NothingParsed DEF SyntaxError, Throw
  <2> QED
    BY <1>2, <2>1, BeginKeeps, ConsumeKeeps, OpenKeeps, EndKeeps, CloseKeeps DEF ReadToken
<1> QED
  BY <1>1, <1>2 DEF ParseConfig

-----------------------------------------------------------------------------
(* Routes                                                                   *)

\* What the locations of a configuration and the internal endpoints say.
SaidRoutes(config, upstreams) == Internal \o LocationRoutes(config, upstreams)

IsRoute(r) == /\ IsSeq(r.prefix) /\ IsSeq(r.methods) /\ r.target.handler \in Handlers

\* Every one of them is a route to one of the handlers.
LEMMA SaidRoutesAre ==
    ASSUME NEW config, IsServer(config), NEW upstreams
    PROVE  /\ IsSeq(SaidRoutes(config, upstreams))
           /\ \A r \in Range(SaidRoutes(config, upstreams)) : IsRoute(r)
<1> DEFINE places == LocationRoutes(config, upstreams)
<1>0. /\ IsSeq(<<"GET">>) /\ IsSeq(<<"GET", "HEAD">>)
  <2>1. <<"GET">> \in Seq({"GET", "HEAD"}) /\ <<"GET", "HEAD">> \in Seq({"GET", "HEAD"})
    OBVIOUS
  <2> QED
    BY <2>1, SeqIs
<1>1. \A w \in {"/", "/health", "/metrics"} \cup Args["location"] : IsSeq(chars[w])
  BY CharsAssumption, SeqIs
<1>2. ASSUME NEW p, NEW m, NEW h, NEW a, IsSeq(p), IsSeq(m), h \in Handlers
      PROVE  IsRoute(Route(p, m, Target(h, a)))
  <2> DEFINE t == Target(h, a)
             r == Route(p, m, t)
  <2>1. t.handler = h
    BY DEF Target
  <2> HIDE DEF t
  <2>2. r.prefix = p /\ r.methods = m /\ r.target = t
    BY DEF Route
  <2> HIDE DEF r
  <2>3. IsRoute(r)
    BY <1>2, <2>1, <2>2, Zenon DEF IsRoute
  <2> QED
    BY <2>3 DEF r, t
<1>4. /\ IsRoute(Route(chars["/health"], <<"GET">>, Target("internal", "/health")))
      /\ IsRoute(Route(chars["/metrics"], <<"GET">>, Target("internal", "/metrics")))
      /\ IsRoute(Route(chars["/"], <<"GET", "HEAD">>, Target("static", "./www")))
  <2>1. "internal" \in Handlers /\ "static" \in Handlers
    BY DEF Handlers
  <2> QED
    BY <1>0, <1>1, <1>2, <2>1, Zenon
<1>5. IsSeq(Internal) /\ \A r \in Range(Internal) : IsRoute(r)
  <2>1. \A a, b : IsSeq(<<a, b>>) /\ \A r \in Range(<<a, b>>) : r = a \/ r = b
    <3> TAKE a, b
    <3>1. <<a, b>> \in Seq({a, b}) /\ Len(<<a, b>>) = 2 /\ <<a, b>>[1] = a /\ <<a, b>>[2] = b
      OBVIOUS
    <3>2. \A i \in 1..2 : i = 1 \/ i = 2
      OBVIOUS
    <3> QED
      BY <3>1, <3>2, SeqIs, Zenon
  <2> QED
    BY <1>4, <2>1, Zenon DEF Internal
<1>6. IsSeq(places) /\ \A r \in Range(places) : IsRoute(r)
  <2>1. CASE config.locations = <<>>
    <3> DEFINE a == Route(chars["/"], <<"GET", "HEAD">>, Target("static", "./www"))
    <3>1. places = <<a>>
      BY <2>1 DEF LocationRoutes
    <3> HIDE DEF a, places
    <3>2. IsSeq(places) /\ Len(places) = 1 /\ places[1] = a
      BY <3>1, ShortAre
    <3>3. \A i \in 1..1 : i = 1
      OBVIOUS
    <3>4. \A r \in Range(places) : r = a
      BY <3>2, <3>3, SeqIs
    <3> QED
      BY <1>4, <3>2, <3>4 DEF a
  <2>2. CASE config.locations # <<>>
    <3> DEFINE locs == config.locations
               entry(i) == Route(chars[locs[i].path], locs[i].methods,
                                 LocationTarget(locs[i], config, upstreams))
    <3>1. Len(locs) \in Nat /\ DOMAIN locs = 1..Len(locs) /\ \A i \in 1..Len(locs) : IsLocation(locs[i])
      BY SeqIs DEF IsServer
    <3>2. places = [i \in 1..Len(locs) |-> entry(i)]
      BY <2>2, <3>1 DEF LocationRoutes
    <3>3. ASSUME NEW i \in 1..Len(locs) PROVE IsRoute(entry(i))
      <4>1. IsSeq(chars[locs[i].path]) /\ IsSeq(locs[i].methods)
        BY <1>1, <3>1 DEF IsLocation
      <4>2. \E h \in Handlers : \E a : LocationTarget(locs[i], config, upstreams) = Target(h, a)
        BY DEF LocationTarget, Handlers
      <4> QED
        BY <1>2, <4>1, <4>2, Zenon
    <3> HIDE DEF entry, places
    <3>4. places \in Seq({entry(i) : i \in 1..Len(locs)})
      BY <3>1, <3>2, IsASeq
    <3>5. IsSeq(places)
      BY <3>4, SeqIs
    <3>6. \A r \in Range(places) : \E i \in 1..Len(locs) : r = entry(i)
      BY <3>2 DEF Range
    <3> QED
      BY <3>3, <3>5, <3>6
  <2> QED
    BY <2>1, <2>2
<1> HIDE DEF places
<1>7. /\ IsSeq(Internal \o places)
      /\ Range(Internal \o places) = Range(Internal) \cup Range(places)
  BY <1>5, <1>6, ConcatIs
<1> QED
  BY <1>5, <1>6, <1>7 DEF SaidRoutes, places

\* Putting a route in its place.
LEMMA InsertIs ==
    ASSUME NEW s, IsSeq(s), NEW i \in 1..(Len(s) + 1), NEW e
    PROVE  IsSeq(InsertAt(s, i, e)) /\ Range(InsertAt(s, i, e)) = Range(s) \cup {e}
<1> DEFINE k == i - 1
           a == SubSeq(s, 1, k)
           b == SubSeq(s, k + 1, Len(s))
<1>1. /\ Len(s) \in Nat /\ s \in Seq(Range(s))
      /\ \A j \in 1..Len(s) : s[j] \in Range(s)
      /\ \A x \in Range(s) : \E j \in 1..Len(s) : s[j] = x
  BY SeqIs DEF IsSeq
<1>2. k \in 0..Len(s) /\ k + 1 = i /\ k \in Nat
  BY <1>1
<1>3. InsertAt(s, i, e) = (a \o <<e>>) \o b
  BY <1>2 DEF InsertAt
<1>4. /\ a \in Seq(Range(s)) /\ Len(a) = k /\ \A j \in 1..k : a[j] = s[j]
      /\ b \in Seq(Range(s)) /\ Len(b) = Len(s) - k
      /\ \A j \in 1..(Len(s) - k) : b[j] = s[k + j]
  <2> HIDE DEF k
  <2> QED
    BY <1>1, <1>2, Parts
<1> HIDE DEF k, a, b
<1>5. IsSeq(a) /\ IsSeq(b)
  BY <1>4, SeqIs
<1>6. IsSeq(<<e>>) /\ Range(<<e>>) = {e}
  <2>1. IsSeq(<<e>>) /\ Len(<<e>>) = 1 /\ <<e>>[1] = e
    BY ShortAre
  <2>2. \A j \in 1..1 : j = 1
    OBVIOUS
  <2> HIDE DEF IsSeq
  <2>3. \A x \in Range(<<e>>) : x = e
    <3> SUFFICES ASSUME NEW x \in Range(<<e>>) PROVE x = e
      OBVIOUS
    <3>1. PICK j \in 1..1 : <<e>>[j] = x
      BY <2>1, SeqIs
    <3> QED
      BY <2>1, <2>2, <3>1, Zenon
  <2>4. e \in Range(<<e>>)
    <3>1. 1 \in 1..1
      OBVIOUS
    <3> QED
      BY <2>1, <3>1, SeqIs
  <2> QED
    BY <2>1, <2>3, <2>4
<1>7. /\ IsSeq(a \o <<e>>) /\ Range(a \o <<e>>) = Range(a) \cup {e}
      /\ IsSeq((a \o <<e>>) \o b)
      /\ Range((a \o <<e>>) \o b) = Range(a \o <<e>>) \cup Range(b)
  <2>1. IsSeq(a \o <<e>>) /\ Range(a \o <<e>>) = Range(a) \cup {e}
    BY <1>5, <1>6, ConcatIs
  <2> QED
    BY <1>5, <2>1, ConcatIs
<1>8. Range(a) \cup Range(b) = Range(s)
  <2>1. ASSUME NEW x \in Range(a) \cup Range(b) PROVE x \in Range(s)
    <3>1. \/ \E j \in 1..Len(a) : a[j] = x
          \/ \E j \in 1..Len(b) : b[j] = x
      BY <1>5, SeqIs
    <3> QED
      BY <1>1, <1>4, <3>1
  <2>2. ASSUME NEW x \in Range(s) PROVE x \in Range(a) \cup Range(b)
    <3>1. PICK j \in 1..Len(s) : s[j] = x
      BY <1>1
    <3>2. CASE j <= k
      <4>1. j \in 1..Len(a) /\ j \in 1..k
        BY <1>2, <1>4, <3>2
      <4> QED
        BY <1>4, <1>5, <3>1, <4>1, SeqIs
    <3>3. CASE ~(j <= k)
      <4>1. j - k \in 1..(Len(s) - k) /\ k + (j - k) = j
        BY <1>1, <1>2, <3>3
      <4>2. b[j - k] = x /\ j - k \in 1..Len(b)
        BY <1>4, <3>1, <4>1
      <4> QED
        BY <1>5, <4>2, SeqIs
    <3> QED
      BY <3>2, <3>3
  <2> QED
    BY <2>1, <2>2
<1> QED
  BY <1>3, <1>7, <1>8

\* One turn of the loop of setup_routes, and its states.
Added(all, rs, n) == UNION {add_route(routes, all[n]) : routes \in rs}

\* The loop has states for any number of turns.
LEMMA SetupExists ==
    ASSUME NEW all, NEW l \in Nat
    PROVE  \E g : g = [n \in 0..l |-> IF n = 0 THEN {<<>>} ELSE Added(all, g[n - 1], n)]
<1> DEFINE Turn(g, n) == IF n = 0 THEN {<<>>} ELSE Added(all, g[n - 1], n)
           D == {m \in Nat : \E g : g = [n \in 0..m |-> Turn(g, n)]}
<1>1. 0 \in D
  <2> DEFINE g == [n \in 0..0 |-> {<<>>}]
  <2>1. g = [n \in 0..0 |-> Turn(g, n)]
    OBVIOUS
  <2> QED
    BY <2>1
<1>2. ASSUME NEW m \in Nat, m \in D PROVE m + 1 \in D
  <2>1. PICK g : g = [n \in 0..m |-> Turn(g, n)]
    BY <1>2
  <2> DEFINE h == [n \in 0..(m + 1) |-> Turn(g, n)]
  <2>2. \A n \in 0..m : h[n] = g[n] /\ n \in 0..(m + 1)
    <3> SUFFICES ASSUME NEW n \in 0..m PROVE h[n] = g[n] /\ n \in 0..(m + 1)
      OBVIOUS
    <3>1. n \in 0..(m + 1)
      OBVIOUS
    <3> HIDE DEF Turn
    <3>2. h[n] = Turn(g, n) /\ g[n] = Turn(g, n)
      BY <2>1, <3>1
    <3> QED
      BY <3>1, <3>2
  <2>3. ASSUME NEW n \in 0..(m + 1) PROVE Turn(g, n) = Turn(h, n)
    <3>1. n # 0 => n - 1 \in 0..m
      OBVIOUS
    <3>2. n # 0 => g[n - 1] = h[n - 1]
      BY <2>2, <3>1
    <3> QED
      BY <3>2
  <2>4. h = [n \in 0..(m + 1) |-> Turn(h, n)]
    BY <2>3
  <2> HIDE DEF h
  <2> QED
    BY <2>4
<1>3. l \in D
  <2> HIDE DEF D
  <2> QED
    BY <1>1, <1>2, Induction
<1> QED
  BY <1>3

\* However routes of equal length are ordered, the table holds what was said,
\* longest prefix first.
LEMMA SetupIs ==
    ASSUME NEW config, IsServer(config), NEW upstreams,
           NEW routes \in setup_routes(config, upstreams)
    PROVE  /\ IsSeq(routes) /\ Sorted(routes)
           /\ Range(routes) = Range(SaidRoutes(config, upstreams))
<1> DEFINE all == SaidRoutes(config, upstreams)
           L == Len(all)
           g == CHOOSE g : g = [n \in 0..L |->
                    IF n = 0 THEN {<<>>} ELSE Added(all, g[n - 1], n)]
<1>1. setup_routes(config, upstreams) = g[L]
  BY Zenon DEF setup_routes, Added, SaidRoutes
<1>2. /\ IsSeq(all) /\ L \in Nat /\ \A i \in 1..L : all[i] \in Range(all)
      /\ \A x \in Range(all) : \E i \in 1..L : all[i] = x
  BY SaidRoutesAre, SeqIs
<1> HIDE DEF all
<1>3. g = [n \in 0..L |-> IF n = 0 THEN {<<>>} ELSE Added(all, g[n - 1], n)]
  <2> HIDE DEF L
  <2>1. L \in Nat
    BY <1>2
  <2>2. \E h : h = [n \in 0..L |-> IF n = 0 THEN {<<>>} ELSE Added(all, h[n - 1], n)]
    BY <2>1, SetupExists, ZenonT(40)
  <2> QED
    BY <2>2, Zenon
<1> HIDE DEF g
<1> DEFINE Is(r, n) == IsSeq(r) /\ Sorted(r) /\ Range(r) = {all[i] : i \in 1..n}
           D == {n \in Nat : n \in 0..L => \A r \in g[n] : Is(r, n)}
<1>4. 0 \in D
  <2>1. g[0] = {<<>>}
    BY <1>2, <1>3
  <2>2. IsSeq(<<>>) /\ DOMAIN <<>> = {}
    <3>1. DOMAIN <<>> = {}
      OBVIOUS
    <3> QED
      BY <3>1, ShortAre
  <2>3. Sorted(<<>>) /\ Range(<<>>) = {all[i] : i \in 1..0}
    BY <2>2 DEF Sorted, Range
  <2> QED
    BY <2>1, <2>2, <2>3
<1>5. ASSUME NEW n \in Nat, n \in D PROVE n + 1 \in D
  <2> SUFFICES ASSUME n + 1 \in 0..L, NEW r \in g[n + 1] PROVE Is(r, n + 1)
    OBVIOUS
  <2>1. n \in 0..L /\ n + 1 # 0 /\ (n + 1) - 1 = n
    BY <1>2
  <2>2. g[n + 1] = Added(all, g[n], n + 1)
    BY <1>3, <2>1
  <2>3. PICK s \in g[n] : r \in add_route(s, all[n + 1])
    BY <2>2 DEF Added
  <2>4. Is(s, n)
    BY <1>5, <2>1
  <2>5. Sorted(r) /\ \E i \in 1..(Len(s) + 1) : r = InsertAt(s, i, all[n + 1])
    BY <2>3 DEF add_route
  <2>6. IsSeq(r) /\ Range(r) = Range(s) \cup {all[n + 1]}
    BY <2>4, <2>5, InsertIs
  <2>7. {all[i] : i \in 1..n} \cup {all[n + 1]} = {all[i] : i \in 1..(n + 1)}
    <3>1. \A i : i \in 1..(n + 1) <=> i \in 1..n \/ i = n + 1
      OBVIOUS
    <3> QED
      BY <3>1
  <2> QED
    BY <2>4, <2>5, <2>6, <2>7
<1>6. Is(routes, L)
  <2>1. L \in D
    <3> HIDE DEF D
    <3> QED
      BY <1>2, <1>4, <1>5, Induction
  <2> HIDE DEF Is
  <2> QED
    BY <1>1, <1>2, <2>1
<1>7. {all[i] : i \in 1..L} = Range(all)
  BY <1>2
<1> QED
  BY <1>6, <1>7 DEF all

\* The first route that matches decides.
LEMMA RouteIs ==
    ASSUME NEW routes, IsSeq(routes), NEW request
    PROVE  LET matching == {i \in 1..Len(routes) : Match(routes[i].prefix, request.path)} IN
           \/ matching = {} /\ route(routes, request) = Target("404", "")
           \/ \E n \in matching :
                 /\ \A k \in matching : n <= k
                 /\ route(routes, request)
                       = IF routes[n].methods # <<>> /\ ~Contains(routes[n].methods, request.method)
                         THEN Target("405", "") ELSE routes[n].target
<1> DEFINE matching == {i \in 1..Len(routes) : Match(routes[i].prefix, request.path)}
           n == IF matching # {} THEN Min(matching) ELSE 0
<1>1. route(routes, request)
         = IF n = 0 THEN Target("404", "")
           ELSE IF routes[n].methods # <<>> /\ ~Contains(routes[n].methods, request.method)
           THEN Target("405", "") ELSE routes[n].target
  BY Zenon DEF route, SelectInSeq
<1>2. matching \in SUBSET Nat /\ \A i \in matching : i # 0
  BY SeqIs
<1> HIDE DEF matching
<1>3. matching # {} => n \in matching /\ \A k \in matching : n <= k
  BY <1>2, Least, Zenon
<1>4. matching = {} => n = 0
  OBVIOUS
<1> HIDE DEF n
<1>5. CASE matching = {}
  BY <1>1, <1>4, <1>5 DEF matching
<1>6. CASE matching # {}
  <2>1. n # 0 /\ n \in matching /\ \A k \in matching : n <= k
    BY <1>2, <1>3, <1>6
  <2>2. route(routes, request)
           = IF routes[n].methods # <<>> /\ ~Contains(routes[n].methods, request.method)
             THEN Target("405", "") ELSE routes[n].target
    BY <1>1, <2>1, Zenon
  <2> QED
    BY <2>1, <2>2, Zenon DEF matching
<1> QED
  BY <1>5, <1>6

-----------------------------------------------------------------------------
(* Segments                                                                 *)

\* What Rank counts.
Upto(S, n) == {m \in S : m <= n}

\* A larger element has a larger rank.
LEMMA RankGrows ==
    ASSUME NEW S \in SUBSET Nat, IsFiniteSet(S)
    PROVE  /\ \A n \in S : Rank(S, n) \in 1..Cardinality(S)
           /\ \A n, k \in S : n < k => Rank(S, n) < Rank(S, k)
           /\ Cardinality(S) \in Nat
<1>1. \A n \in S : /\ IsFiniteSet(Upto(S, n)) /\ Cardinality(Upto(S, n)) \in Nat
                   /\ Cardinality(Upto(S, n)) <= Cardinality(S)
  <2> SUFFICES ASSUME NEW n \in S
               PROVE  /\ IsFiniteSet(Upto(S, n)) /\ Cardinality(Upto(S, n)) \in Nat
                      /\ Cardinality(Upto(S, n)) <= Cardinality(S)
    OBVIOUS
  <2>1. Upto(S, n) \in SUBSET S
    BY DEF Upto
  <2> QED
    BY <2>1, FS_Subset, FS_CardinalityType
<1>2. ASSUME NEW n \in S PROVE Cardinality(Upto(S, n)) # 0
  <2>1. n \in Upto(S, n)
    BY DEF Upto
  <2>2. Upto(S, n) # {} /\ IsFiniteSet(Upto(S, n))
    BY <1>1, <2>1
  <2> QED
    BY <2>2, FS_EmptySet
<1>3. ASSUME NEW n \in S, NEW k \in S, n < k PROVE Rank(S, n) < Rank(S, k)
  <2>1. Upto(S, n) \in SUBSET Upto(S, k)
    <3> SUFFICES ASSUME NEW m \in S, m <= n PROVE m <= k
      BY DEF Upto
    <3>1. m \in Nat /\ n \in Nat /\ k \in Nat
      OBVIOUS
    <3> QED
      BY <1>3, <3>1
  <2>2. Upto(S, n) # Upto(S, k)
    <3>1. k \in Upto(S, k) /\ k \notin Upto(S, n)
      BY <1>3 DEF Upto
    <3> QED
      BY <3>1
  <2>3. /\ Cardinality(Upto(S, n)) <= Cardinality(Upto(S, k))
        /\ Cardinality(Upto(S, n)) = Cardinality(Upto(S, k)) => Upto(S, n) = Upto(S, k)
    BY <1>1, <2>1, FS_Subset
  <2>4. Cardinality(Upto(S, n)) \in Nat /\ Cardinality(Upto(S, k)) \in Nat
    BY <1>1
  <2> QED
    BY <2>2, <2>3, <2>4 DEF Rank, Upto
<1>4. Cardinality(S) \in Nat
  BY FS_CardinalityType
<1>5. ASSUME NEW n \in S PROVE Rank(S, n) \in 1..Cardinality(S)
  BY <1>1, <1>2, <1>4 DEF Rank, Upto
<1> QED
  BY <1>3, <1>4, <1>5

\* The least element behind n has the next rank.
LEMMA NextRank ==
    ASSUME NEW S \in SUBSET Nat, IsFiniteSet(S), NEW n \in S, NEW k \in S, n < k,
           \A m \in S : n < m => k <= m
    PROVE  Rank(S, k) = Rank(S, n) + 1
<1>1. Upto(S, k) = Upto(S, n) \cup {k} /\ k \notin Upto(S, n)
  <2>1. ASSUME NEW m \in S PROVE m <= k <=> m <= n \/ m = k
    <3>1. m \in Nat /\ n \in Nat /\ k \in Nat
      OBVIOUS
    <3>2. n < m => k <= m
      OBVIOUS
    <3> QED
      BY <3>1, <3>2
  <2>2. ~(k <= n)
    <3>1. n \in Nat /\ k \in Nat
      OBVIOUS
    <3> QED
      BY <3>1
  <2> QED
    BY <2>1, <2>2 DEF Upto
<1>2. IsFiniteSet(Upto(S, n))
  <2>1. Upto(S, n) \in SUBSET S
    BY DEF Upto
  <2> QED
    BY <2>1, FS_Subset
<1> QED
  BY <1>1, <1>2, FS_AddElement DEF Rank, Upto

\* There is an element of every rank.
LEMMA NthIs ==
    ASSUME NEW S \in SUBSET Nat, IsFiniteSet(S), NEW i \in 1..Cardinality(S)
    PROVE  Nth(S, i) \in S /\ Rank(S, Nth(S, i)) = i
<1> DEFINE D == {n \in Nat : n + 1 \in 1..Cardinality(S) => \E x \in S : Rank(S, x) = n + 1}
<1>0. Cardinality(S) \in Nat
  BY FS_CardinalityType
<1>1. 0 \in D
  <2> SUFFICES ASSUME 0 + 1 \in 1..Cardinality(S) PROVE \E x \in S : Rank(S, x) = 0 + 1
    OBVIOUS
  <2>1. S # {}
    BY <1>0, FS_EmptySet
  <2>2. Min(S) \in S /\ \A m \in S : Min(S) <= m
    BY <2>1, Least
  <2>3. Upto(S, Min(S)) = {Min(S)}
    <3> DEFINE x == Min(S)
    <3> HIDE DEF x
    <3>1. x \in S /\ \A m \in S : x <= m
      BY <2>2 DEF x
    <3>2. ASSUME NEW m \in S PROVE m <= x <=> m = x
      <4>1. m \in Nat /\ x \in Nat
        BY <3>1
      <4> QED
        BY <3>1, <4>1
    <3>3. Upto(S, x) = {x}
      BY <3>1, <3>2 DEF Upto
    <3> QED
      BY <3>3 DEF x
  <2>4. Rank(S, Min(S)) = 1
    BY <2>3, FS_Singleton DEF Rank, Upto
  <2>5. 0 + 1 = 1
    OBVIOUS
  <2> QED
    BY <2>2, <2>4, <2>5, Zenon
<1>2. ASSUME NEW n \in Nat, n \in D PROVE n + 1 \in D
  <2> SUFFICES ASSUME (n + 1) + 1 \in 1..Cardinality(S)
               PROVE  \E x \in S : Rank(S, x) = (n + 1) + 1
    OBVIOUS
  <2>1. PICK x \in S : Rank(S, x) = n + 1
    BY <1>0, <1>2
  <2> DEFINE T == {m \in S : x < m}
  <2>2. T # {}
    <3> SUFFICES ASSUME T = {} PROVE FALSE
      OBVIOUS
    <3>1. Upto(S, x) = S
      <4>1. ASSUME NEW m \in S PROVE m <= x
        <5>1. m \in Nat /\ x \in Nat /\ ~(x < m)
          OBVIOUS
        <5> QED
          BY <5>1
      <4> QED
        BY <4>1 DEF Upto
    <3>2. Cardinality(S) = n + 1
      BY <2>1, <3>1 DEF Rank, Upto
    <3> QED
      BY <1>0, <3>2
  <2>3. T \in SUBSET Nat
    OBVIOUS
  <2>4. Min(T) \in T /\ \A m \in T : Min(T) <= m
    BY <2>2, <2>3, Least
  <2>5. Rank(S, Min(T)) = Rank(S, x) + 1
    BY <2>4, NextRank
  <2> QED
    BY <2>1, <2>4, <2>5
<1>3. \E x \in S : Rank(S, x) = i
  <2>1. i - 1 \in D
    <3> HIDE DEF D
    <3>1. i - 1 \in Nat
      BY <1>0
    <3> QED
      BY <1>1, <1>2, <3>1, Induction
  <2>2. (i - 1) + 1 = i
    BY <1>0
  <2> QED
    BY <2>1, <2>2
<1> QED
  BY <1>3, Zenon DEF Nth

\* An element is the one of its rank.
LEMMA NthOfRank ==
    ASSUME NEW S \in SUBSET Nat, IsFiniteSet(S), NEW n \in S
    PROVE  Nth(S, Rank(S, n)) = n
<1> DEFINE k == Nth(S, Rank(S, n))
<1>1. k \in S /\ Rank(S, k) = Rank(S, n)
  BY RankGrows, NthIs
<1> HIDE DEF k
<1>2. /\ n < k => Rank(S, n) < Rank(S, k)
      /\ k < n => Rank(S, k) < Rank(S, n)
      /\ Rank(S, n) \in 1..Cardinality(S)
      /\ Cardinality(S) \in Nat
  BY <1>1, RankGrows
<1>3. k = n
  BY <1>1, <1>2
<1> QED
  BY <1>3 DEF k

\* The ends of the segments.
LEMMA EndsAre ==
    ASSUME NEW path, IsSeq(path)
    PROVE  /\ Ends(path) \in SUBSET Nat /\ IsFiniteSet(Ends(path))
           /\ Cardinality(Ends(path)) \in Nat /\ Cardinality(Ends(path)) >= 2
           /\ 0 \in Ends(path) /\ Len(path) + 1 \in Ends(path)
           /\ \A n \in Ends(path) : n <= Len(path) + 1
           /\ Nth(Ends(path), 1) = 0
           /\ Nth(Ends(path), Cardinality(Ends(path))) = Len(path) + 1
<1> DEFINE E == Ends(path)
<1>1. Len(path) \in Nat /\ DOMAIN path = 1..Len(path)
  BY SeqIs
<1>2. E \in SUBSET (0..(Len(path) + 1)) /\ 0 \in E /\ Len(path) + 1 \in E
  BY <1>1 DEF Ends
<1>3. E \in SUBSET Nat /\ IsFiniteSet(E) /\ \A n \in E : n <= Len(path) + 1
  <2>1. IsFiniteSet(0..(Len(path) + 1))
    BY <1>1, FS_Interval
  <2>2. IsFiniteSet(E)
    BY <1>2, <2>1, FS_Subset
  <2> QED
    BY <1>1, <1>2, <2>2
<1> HIDE DEF E
<1>4. Rank(E, 0) = 1
  <2>1. Upto(E, 0) = {0}
    <3>1. ASSUME NEW m \in E PROVE m <= 0 <=> m = 0
      <4>1. m \in Nat
        BY <1>3
      <4> QED
        BY <4>1
    <3> QED
      BY <1>2, <3>1 DEF Upto
  <2> QED
    BY <2>1, FS_Singleton DEF Rank, Upto
<1>5. Rank(E, Len(path) + 1) = Cardinality(E)
  <2>1. Upto(E, Len(path) + 1) = E
    BY <1>3 DEF Upto
  <2> QED
    BY <2>1 DEF Rank, Upto
<1>6. Nth(E, 1) = 0 /\ Nth(E, Cardinality(E)) = Len(path) + 1
  BY <1>2, <1>3, <1>4, <1>5, NthOfRank
<1>7. Cardinality(E) \in Nat /\ Cardinality(E) >= 2
  <2>1. Rank(E, 0) < Rank(E, Len(path) + 1) /\ Cardinality(E) \in Nat
    <3>1. 0 < Len(path) + 1
      BY <1>1
    <3> QED
      BY <1>2, <1>3, <3>1, RankGrows
  <2> QED
    BY <1>4, <1>5, <2>1
<1> QED
  BY <1>2, <1>3, <1>6, <1>7 DEF E

\* The segments, and the characters of one.
LEMMA SegmentsAre ==
    ASSUME NEW path, IsSeq(path)
    PROVE  LET E == Ends(path) IN
           /\ IsSeq(Segments(path)) /\ Len(Segments(path)) = Cardinality(E) - 1
           /\ \A i \in 1..(Cardinality(E) - 1) :
                 /\ Segments(path)[i] = SubSeq(path, Nth(E, i) + 1, Nth(E, i + 1) - 1)
                 /\ Nth(E, i) \in Nat /\ Nth(E, i + 1) \in Nat /\ Nth(E, i) < Nth(E, i + 1)
                 /\ Nth(E, i + 1) <= Len(path) + 1
                 /\ Len(Segments(path)[i]) = Nth(E, i + 1) - Nth(E, i) - 1
                 /\ \A j \in 1..(Nth(E, i + 1) - Nth(E, i) - 1) :
                       Segments(path)[i][j] = path[Nth(E, i) + j]
<1> DEFINE E == Ends(path)
           segs == Segments(path)
           c == Cardinality(E)
<1>1. /\ E \in SUBSET Nat /\ IsFiniteSet(E) /\ c \in Nat /\ c >= 2
      /\ \A n \in E : n <= Len(path) + 1
  BY EndsAre
<1>2. segs = [i \in 1..(c - 1) |-> SubSeq(path, Nth(E, i) + 1, Nth(E, i + 1) - 1)]
  BY DEF Segments
<1>3. Len(path) \in Nat /\ path \in Seq(Range(path)) /\ \A j \in 1..Len(path) : path[j] \in Range(path)
  BY SeqIs DEF IsSeq
<1> HIDE DEF E, c, segs
<1>4. segs \in Seq({segs[i] : i \in 1..(c - 1)}) /\ Len(segs) = c - 1
  <2>1. c - 1 \in Nat
    BY <1>1
  <2>2. segs = [i \in 1..(c - 1) |-> segs[i]]
    BY <1>2
  <2>3. \A i \in 1..(c - 1) : segs[i] \in {segs[k] : k \in 1..(c - 1)}
    OBVIOUS
  <2>4. segs \in Seq({segs[i] : i \in 1..(c - 1)})
    BY <2>1, <2>2, <2>3, IsASeq
  <2>5. DOMAIN segs = 1..(c - 1)
    BY <2>2
  <2> QED
    BY <2>1, <2>4, <2>5
<1>5. IsSeq(segs)
  BY <1>4, SeqIs
<1>6. ASSUME NEW i \in 1..(c - 1)
      PROVE  /\ segs[i] = SubSeq(path, Nth(E, i) + 1, Nth(E, i + 1) - 1)
             /\ Nth(E, i) \in Nat /\ Nth(E, i + 1) \in Nat /\ Nth(E, i) < Nth(E, i + 1)
             /\ Nth(E, i + 1) <= Len(path) + 1
             /\ Len(segs[i]) = Nth(E, i + 1) - Nth(E, i) - 1
             /\ \A j \in 1..(Nth(E, i + 1) - Nth(E, i) - 1) : segs[i][j] = path[Nth(E, i) + j]
  <2> DEFINE a == Nth(E, i)
             b == Nth(E, i + 1)
  <2>1. i \in 1..c /\ i + 1 \in 1..c /\ i < i + 1
    BY <1>1
  <2>2. a \in E /\ b \in E /\ Rank(E, a) = i /\ Rank(E, b) = i + 1
    BY <1>1, <2>1, NthIs DEF c
  <2>3. segs[i] = SubSeq(path, a + 1, b - 1)
    BY <1>2
  <2> HIDE DEF a, b
  <2>4. a \in Nat /\ b \in Nat /\ b <= Len(path) + 1
    BY <1>1, <2>2
  <2>5. a < b
    <3>1. b < a => Rank(E, b) < Rank(E, a)
      BY <1>1, <2>2, RankGrows
    <3>2. ~(b < a)
      BY <2>1, <2>2, <3>1
    <3>3. a # b
      BY <2>1, <2>2
    <3> QED
      BY <2>4, <3>2, <3>3
  <2>6. /\ Len(segs[i]) = b - a - 1
        /\ \A j \in 1..(b - a - 1) : segs[i][j] = path[a + j]
    <3>1. \A j \in (a + 1)..(b - 1) : path[j] \in Range(path)
      BY <1>3, <2>4
    <3>2. a + 1 \in Int /\ b - 1 \in Int
      BY <2>4
    <3>3. /\ Len(segs[i]) = IF a + 1 <= b - 1 THEN (b - 1) - (a + 1) + 1 ELSE 0
          /\ \A j \in 1..((b - 1) - (a + 1) + 1) : segs[i][j] = path[(a + 1) + j - 1]
      BY <2>3, <3>1, <3>2, SubSeqProperties
    <3>4. (b - 1) - (a + 1) + 1 = b - a - 1
      BY <2>4
    <3>5. \A j \in 1..(b - a - 1) : (a + 1) + j - 1 = a + j
      BY <2>4
    <3>6. Len(segs[i]) = b - a - 1
      BY <2>4, <2>5, <3>3
    <3> QED
      BY <3>3, <3>4, <3>5, <3>6, Zenon
  <2> QED
    BY <2>3, <2>4, <2>5, <2>6 DEF a, b
<1> QED
  BY <1>4, <1>5, <1>6 DEF E, c, segs

\* What a prefix of a sequence is, element by element.
LEMMA PrefixIs ==
    ASSUME NEW s, IsSeq(s), NEW t, IsSeq(t)
    PROVE  IsPrefix(s, t) <=> Len(s) <= Len(t) /\ \A i \in 1..Len(s) : s[i] = t[i]
<1> DEFINE n == Len(s)
<1>1. n \in Nat /\ Len(t) \in Nat /\ s \in Seq(Range(s)) /\ t \in Seq(Range(t))
  BY SeqIs DEF IsSeq
<1>2. IsPrefix(s, t) <=> n <= Len(t) /\ SubSeq(s, 1, n) = SubSeq(t, 1, n)
  BY DEF IsPrefix
<1>3. ASSUME n <= Len(t) PROVE SubSeq(s, 1, n) = SubSeq(t, 1, n) <=> \A i \in 1..n : s[i] = t[i]
  <2> DEFINE U == Range(s) \cup Range(t)
  <2>1. s \in Seq(U) /\ t \in Seq(U)
    BY <1>1, SeqMonotonic
  <2> HIDE DEF U
  <2>2. n \in 0..Len(s) /\ n \in 0..Len(t)
    BY <1>1, <1>3
  <2> HIDE DEF n
  <2>3. /\ SubSeq(s, 1, n) \in Seq(U) /\ Len(SubSeq(s, 1, n)) = n
        /\ \A i \in 1..n : SubSeq(s, 1, n)[i] = s[i]
    BY <2>1, <2>2, Parts
  <2>4. /\ SubSeq(t, 1, n) \in Seq(U) /\ Len(SubSeq(t, 1, n)) = n
        /\ \A i \in 1..n : SubSeq(t, 1, n)[i] = t[i]
    BY <2>1, <2>2, Parts
  <2>5. ASSUME \A i \in 1..n : s[i] = t[i] PROVE SubSeq(s, 1, n) = SubSeq(t, 1, n)
    BY <2>3, <2>4, <2>5, SeqEqual
  <2>6. ASSUME SubSeq(s, 1, n) = SubSeq(t, 1, n) PROVE \A i \in 1..n : s[i] = t[i]
    BY <2>3, <2>4, <2>6
  <2> QED
    BY <2>5, <2>6
<1> QED
  BY <1>2, <1>3

\* Match, character by character.
LEMMA MatchIs ==
    ASSUME NEW prefix, IsSeq(prefix), NEW path, IsSeq(path)
    PROVE  Match(prefix, path) <=>
              \/ prefix = <<"/">>
              \/ /\ Len(prefix) <= Len(path)
                 /\ \A i \in 1..Len(prefix) : prefix[i] = path[i]
                 /\ Len(prefix) = Len(path) \/ path[Len(prefix) + 1] = "/"
<1> DEFINE n == Len(prefix)
<1>1. /\ n \in Nat /\ Len(path) \in Nat /\ prefix \in Seq(Range(prefix))
      /\ path \in Seq(Range(path))
  BY SeqIs DEF IsSeq
<1> DEFINE U == Range(prefix) \cup Range(path)
<1>2. prefix \in Seq(U) /\ path \in Seq(U)
  BY <1>1, SeqMonotonic
<1> HIDE DEF U
<1>3. path = prefix <=> n = Len(path) /\ \A i \in 1..n : prefix[i] = path[i]
  BY <1>2, SeqEqual
<1>4. ASSUME Len(path) > n
      PROVE  SubSeq(path, 1, n) = prefix <=> \A i \in 1..n : prefix[i] = path[i]
  <2>1. n \in 0..Len(path)
    BY <1>1, <1>4
  <2> HIDE DEF n
  <2>2. /\ SubSeq(path, 1, n) \in Seq(U) /\ Len(SubSeq(path, 1, n)) = n
        /\ \A i \in 1..n : SubSeq(path, 1, n)[i] = path[i]
    BY <1>2, <2>1, Parts
  <2>3. ASSUME \A i \in 1..n : prefix[i] = path[i] PROVE SubSeq(path, 1, n) = prefix
    BY <1>2, <2>2, <2>3, SeqEqual DEF n
  <2>4. ASSUME SubSeq(path, 1, n) = prefix PROVE \A i \in 1..n : prefix[i] = path[i]
    BY <2>2, <2>4
  <2> QED
    BY <2>3, <2>4
<1>5. n <= Len(path) <=> n = Len(path) \/ Len(path) > n
  BY <1>1
<1>6. Len(path) > n => n # Len(path)
  BY <1>1
<1>7. Match(prefix, path) <=> \/ prefix = <<"/">> \/ path = prefix
                              \/ /\ Len(path) > n /\ SubSeq(path, 1, n) = prefix
                                 /\ path[n + 1] = "/"
  BY Zenon DEF Match
<1> HIDE DEF n
<1>8. CASE Len(path) > n
  BY <1>3, <1>4, <1>5, <1>6, <1>7, <1>8, Zenon DEF n
<1>9. CASE ~(Len(path) > n)
  BY <1>3, <1>5, <1>7, <1>9, Zenon DEF n
<1> QED
  BY <1>8, <1>9

\* Which places are ends.
LEMMA IsEnd ==
    ASSUME NEW path, IsSeq(path), NEW n \in Nat
    PROVE  n \in Ends(path) <=> \/ n = 0 \/ n = Len(path) + 1
                                \/ n \in 1..Len(path) /\ path[n] = "/"
BY SeqIs DEF Ends

\* A path whose first segments are those of a prefix goes on as the prefix
\* does, up to its end.
LEMMA SegmentsMatch ==
    ASSUME NEW prefix, IsSeq(prefix), NEW path, IsSeq(path),
           IsPrefix(Segments(prefix), Segments(path))
    PROVE  /\ Len(prefix) <= Len(path)
           /\ \A i \in 1..Len(prefix) : prefix[i] = path[i]
           /\ Len(prefix) = Len(path) \/ path[Len(prefix) + 1] = "/"
<1> DEFINE P == Ends(prefix)
           Q == Ends(path)
           a == Cardinality(P)
           b == Cardinality(Q)
           n == Len(prefix)
           m == Len(path)
           s == Segments(prefix)
           t == Segments(path)
<1>0. n \in Nat /\ m \in Nat
  BY SeqIs
<1>1. /\ P \in SUBSET Nat /\ IsFiniteSet(P) /\ a \in Nat /\ a >= 2 /\ 0 \in P /\ n + 1 \in P
      /\ (\A x \in P : x <= n + 1) /\ Nth(P, 1) = 0 /\ Nth(P, a) = n + 1
  BY EndsAre
<1>2. /\ Q \in SUBSET Nat /\ IsFiniteSet(Q) /\ b \in Nat /\ b >= 2 /\ Nth(Q, 1) = 0
      /\ \A x \in Q : x <= m + 1
  BY EndsAre
<1>3. /\ IsSeq(s) /\ Len(s) = a - 1
      /\ \A i \in 1..(a - 1) :
            /\ Nth(P, i) \in Nat /\ Nth(P, i + 1) \in Nat /\ Nth(P, i) < Nth(P, i + 1)
            /\ Len(s[i]) = Nth(P, i + 1) - Nth(P, i) - 1
            /\ \A j \in 1..(Nth(P, i + 1) - Nth(P, i) - 1) : s[i][j] = prefix[Nth(P, i) + j]
  BY SegmentsAre, ZenonT(40)
<1>4. /\ IsSeq(t) /\ Len(t) = b - 1
      /\ \A i \in 1..(b - 1) :
            /\ Nth(Q, i) \in Nat /\ Nth(Q, i + 1) \in Nat /\ Nth(Q, i) < Nth(Q, i + 1)
            /\ Len(t[i]) = Nth(Q, i + 1) - Nth(Q, i) - 1
            /\ \A j \in 1..(Nth(Q, i + 1) - Nth(Q, i) - 1) : t[i][j] = path[Nth(Q, i) + j]
  BY SegmentsAre, ZenonT(40)
<1>5. a <= b /\ \A i \in 1..(a - 1) : i \in 1..(b - 1) /\ s[i] = t[i]
  <2>1. Len(s) <= Len(t) /\ \A i \in 1..Len(s) : s[i] = t[i]
    <3>1. IsSeq(s) /\ IsSeq(t) /\ IsPrefix(s, t)
      BY <1>3, <1>4
    <3> HIDE DEF s, t
    <3> QED
      BY <3>1, PrefixIs, Zenon
  <2> HIDE DEF s, t, a, b
  <2> QED
    BY <1>1, <1>2, <1>3, <1>4, <2>1
<1> DEFINE D == {i \in Nat : i + 1 \in 1..a => Nth(P, i + 1) = Nth(Q, i + 1)}
<1> HIDE DEF P, Q, a, b, n, m, s, t
<1>6. 0 \in D
  BY <1>1, <1>2
<1>7. ASSUME NEW i \in Nat, i \in D PROVE i + 1 \in D
  <2> SUFFICES ASSUME (i + 1) + 1 \in 1..a PROVE Nth(P, (i + 1) + 1) = Nth(Q, (i + 1) + 1)
    OBVIOUS
  <2>1. i + 1 \in 1..(a - 1) /\ i + 1 \in 1..a
    BY <1>1
  <2>2. Nth(P, i + 1) = Nth(Q, i + 1)
    BY <1>7, <2>1
  <2>3. i + 1 \in 1..(b - 1) /\ s[i + 1] = t[i + 1]
    BY <1>5, <2>1
  <2>4. Nth(P, (i + 1) + 1) - Nth(P, i + 1) - 1 = Nth(Q, (i + 1) + 1) - Nth(Q, i + 1) - 1
    BY <1>3, <1>4, <2>1, <2>3
  <2>5. /\ Nth(P, i + 1) \in Nat /\ Nth(P, (i + 1) + 1) \in Nat
        /\ Nth(Q, i + 1) \in Nat /\ Nth(Q, (i + 1) + 1) \in Nat
    BY <1>3, <1>4, <2>1, <2>3
  <2> QED
    BY <2>2, <2>4, <2>5
<1>8. ASSUME NEW i \in 1..a PROVE Nth(P, i) = Nth(Q, i) /\ Nth(Q, i) \in Q
  <2>1. i - 1 \in Nat /\ (i - 1) + 1 = i /\ i \in 1..b
    BY <1>1, <1>2, <1>5
  <2>2. i - 1 \in D
    <3> HIDE DEF D
    <3> QED
      BY <1>6, <1>7, <2>1, Induction
  <2>3. Nth(Q, i) \in Q
    BY <1>2, <2>1, NthIs DEF b
  <2> QED
    BY <2>1, <2>2, <2>3
<1>9. n + 1 \in Q
  <2>1. a \in 1..a
    BY <1>1
  <2> QED
    BY <1>1, <1>8, <2>1
<1>10. n <= m /\ (n = m \/ path[n + 1] = "/")
  <2>1. n + 1 \in Nat /\ n + 1 <= m + 1 /\ n + 1 # 0
    BY <1>0, <1>2, <1>9
  <2>2. n + 1 = 0 \/ n + 1 = m + 1 \/ (n + 1 \in 1..m /\ path[n + 1] = "/")
    BY <1>9, <2>1, IsEnd DEF Q, m
  <2> QED
    BY <1>0, <2>1, <2>2
<1>11. ASSUME NEW j \in 1..n PROVE prefix[j] = path[j]
  <2>0. j \in Nat /\ j \in 1..m /\ j # 0 /\ j # m + 1
    BY <1>0, <1>10
  <2>1. CASE prefix[j] = "/"
    <3>1. j \in P
      BY <2>0, <2>1, IsEnd DEF P, n
    <3>2. Rank(P, j) \in 1..a /\ Nth(P, Rank(P, j)) = j
      BY <1>1, <3>1, RankGrows, NthOfRank DEF a
    <3>3. j \in Q
      BY <1>8, <3>2
    <3>4. path[j] = "/"
      BY <2>0, <3>3, IsEnd DEF Q, m
    <3> QED
      BY <2>1, <3>4
  <2>2. CASE prefix[j] # "/"
    <3> DEFINE T == {x \in P : j < x}
               k == Min(T)
    <3>1. j \notin P
      <4>1. j # n + 1
        BY <1>0
      <4> QED
        BY <2>0, <2>2, <4>1, IsEnd DEF P, n
    <3>2. k \in P /\ j < k /\ \A x \in P : j < x => k <= x
      <4>1. T \in SUBSET Nat
        BY <1>1
      <4>2. n + 1 \in T
        BY <1>0, <1>1
      <4>3. k \in T /\ \A x \in T : k <= x
        <5> HIDE DEF T
        <5> QED
          BY <4>1, <4>2, Least
      <4> QED
        BY <4>3
    <3> HIDE DEF T, k
    <3>3. k \in Nat /\ 0 < k
      BY <1>1, <2>0, <3>2
    <3> DEFINE i == Rank(P, k) - 1
    <3>4. Rank(P, 0) \in 1..a /\ Rank(P, k) \in 1..a /\ Rank(P, 0) < Rank(P, k)
      BY <1>1, <3>2, <3>3, RankGrows DEF a
    <3>5. i \in 1..(a - 1) /\ i \in 1..a /\ i + 1 = Rank(P, k) /\ i < Rank(P, k)
      BY <1>1, <3>4
    <3>6. Nth(P, i + 1) = k
      BY <1>1, <3>2, <3>5, NthOfRank
    <3> HIDE DEF i
    <3> DEFINE x == Nth(P, i)
    <3>7. x \in P /\ x \in Nat /\ x < k
      <4>1. x \in P
        BY <1>1, <3>5, NthIs DEF a
      <4> QED
        BY <1>3, <3>5, <3>6, <4>1
    <3>8. x < j
      <4>1. ~(j < x)
        BY <3>2, <3>3, <3>7
      <4>2. x # j
        BY <3>1, <3>7
      <4> QED
        BY <2>0, <3>7, <4>1, <4>2
    <3>9. Nth(Q, i) = x /\ Nth(Q, i + 1) = k
      <4>1. i + 1 \in 1..a
        BY <3>4, <3>5
      <4> QED
        BY <1>8, <3>5, <3>6, <4>1
    <3>10. i \in 1..(b - 1) /\ s[i] = t[i]
      BY <1>5, <3>5
    <3> HIDE DEF x
    <3>11. j - x \in 1..(k - x - 1) /\ x + (j - x) = j
      BY <2>0, <3>2, <3>3, <3>7, <3>8
    <3>12. s[i][j - x] = prefix[x + (j - x)]
      BY <1>3, <3>5, <3>6, <3>11, Zenon DEF x
    <3>13. t[i][j - x] = path[x + (j - x)]
      BY <1>4, <3>9, <3>10, <3>11, Zenon
    <3> QED
      BY <3>10, <3>11, <3>12, <3>13
  <2> QED
    BY <2>1, <2>2
<1> QED
  BY <1>10, <1>11 DEF n, m

\* And the other way round.
LEMMA MatchSegments ==
    ASSUME NEW prefix, IsSeq(prefix), NEW path, IsSeq(path),
           Len(prefix) <= Len(path),
           \A i \in 1..Len(prefix) : prefix[i] = path[i],
           Len(prefix) = Len(path) \/ path[Len(prefix) + 1] = "/"
    PROVE  IsPrefix(Segments(prefix), Segments(path))
<1> DEFINE P == Ends(prefix)
           Q == Ends(path)
           a == Cardinality(P)
           b == Cardinality(Q)
           n == Len(prefix)
           m == Len(path)
           s == Segments(prefix)
           t == Segments(path)
<1>0. n \in Nat /\ m \in Nat
  BY SeqIs
<1>1. /\ P \in SUBSET Nat /\ IsFiniteSet(P) /\ a \in Nat /\ a >= 2
      /\ \A x \in P : x <= n + 1
  BY EndsAre
<1>2. Q \in SUBSET Nat /\ IsFiniteSet(Q) /\ b \in Nat /\ b >= 2
  BY EndsAre
<1>3. /\ IsSeq(s) /\ Len(s) = a - 1
      /\ \A i \in 1..(a - 1) :
            /\ s[i] = SubSeq(prefix, Nth(P, i) + 1, Nth(P, i + 1) - 1)
            /\ Nth(P, i) \in Nat /\ Nth(P, i + 1) \in Nat /\ Nth(P, i) < Nth(P, i + 1)
            /\ Nth(P, i + 1) <= n + 1
  BY SegmentsAre
<1>4. /\ IsSeq(t) /\ Len(t) = b - 1
      /\ \A i \in 1..(b - 1) : t[i] = SubSeq(path, Nth(Q, i) + 1, Nth(Q, i + 1) - 1)
  BY SegmentsAre
<1>5. ASSUME NEW x \in Nat, x <= n + 1 PROVE x \in P <=> x \in Q
  <2>1. x \in P <=> x = 0 \/ x = n + 1 \/ (x \in 1..n /\ prefix[x] = "/")
    BY IsEnd
  <2>2. x \in Q <=> x = 0 \/ x = m + 1 \/ (x \in 1..m /\ path[x] = "/")
    BY IsEnd
  <2>3. CASE x = 0
    BY <2>1, <2>2, <2>3
  <2>4. CASE x = n + 1
    <3>1. n = m \/ (x \in 1..m /\ path[x] = "/")
      BY <1>0, <2>4
    <3> QED
      BY <2>1, <2>2, <2>4, <3>1
  <2>5. CASE x # 0 /\ x # n + 1
    <3>1. x \in 1..n /\ x \in 1..m /\ x # m + 1
      BY <1>0, <1>5, <2>5
    <3>2. prefix[x] = path[x]
      BY <3>1
    <3> QED
      BY <2>1, <2>2, <2>5, <3>1, <3>2
  <2> QED
    BY <2>3, <2>4, <2>5
<1> HIDE DEF P, Q, a, b, s, t
<1>6. P \subseteq Q /\ a <= b
  <2>1. P \subseteq Q
    <3> SUFFICES ASSUME NEW x \in P PROVE x \in Q
      OBVIOUS
    <3>1. x \in Nat /\ x <= n + 1
      BY <1>1
    <3> QED
      BY <1>5, <3>1
  <2> QED
    BY <1>2, <2>1, FS_Subset DEF a, b
<1>7. ASSUME NEW i \in 1..a PROVE Nth(Q, i) = Nth(P, i)
  <2> DEFINE x == Nth(P, i)
  <2>1. x \in P /\ Rank(P, x) = i
    BY <1>1, NthIs DEF a
  <2> HIDE DEF x
  <2>2. x \in Nat /\ x <= n + 1
    BY <1>1, <2>1
  <2>3. Upto(Q, x) = Upto(P, x)
    <3>1. ASSUME NEW y \in Q, y <= x PROVE y \in P
      <4>1. y \in Nat /\ y <= n + 1
        <5>1. y \in Nat
          BY <1>2
        <5> QED
          BY <1>0, <2>2, <3>1, <5>1
      <4> QED
        BY <1>5, <4>1
    <3> QED
      BY <1>6, <3>1 DEF Upto
  <2>4. Rank(Q, x) = i
    BY <2>1, <2>3 DEF Rank, Upto
  <2>5. Nth(Q, Rank(Q, x)) = x
    BY <1>2, <1>6, <2>1, NthOfRank
  <2> QED
    BY <2>4, <2>5 DEF x
<1>8. ASSUME NEW i \in 1..(a - 1) PROVE s[i] = t[i]
  <2>1. i \in 1..a /\ i + 1 \in 1..a /\ i \in 1..(b - 1)
    BY <1>1, <1>2, <1>6
  <2> DEFINE x == Nth(P, i)
             y == Nth(P, i + 1)
  <2>2. x \in Nat /\ y \in Nat /\ x < y /\ y <= n + 1 /\ s[i] = SubSeq(prefix, x + 1, y - 1)
    BY <1>3
  <2>3. Nth(Q, i) = x /\ Nth(Q, i + 1) = y
    BY <1>7, <2>1
  <2>4. t[i] = SubSeq(path, x + 1, y - 1)
    BY <1>4, <2>1, <2>3
  <2> HIDE DEF x, y
  <2>5. \A j \in (x + 1)..(y - 1) : prefix[j] = path[j]
    <3> SUFFICES ASSUME NEW j \in (x + 1)..(y - 1) PROVE prefix[j] = path[j]
      OBVIOUS
    <3>1. j \in 1..n
      BY <1>0, <2>2
    <3> QED
      BY <3>1
  <2> DEFINE U == {prefix[j] : j \in (x + 1)..(y - 1)}
  <2>6. (\A j \in (x + 1)..(y - 1) : prefix[j] \in U) /\ \A j \in (x + 1)..(y - 1) : path[j] \in U
    BY <2>5
  <2> HIDE DEF U
  <2>7. x + 1 \in Int /\ y - 1 \in Int
    BY <2>2
  <2> DEFINE l == (y - 1) - (x + 1) + 1
  <2>8. /\ s[i] \in Seq(U) /\ Len(s[i]) = IF x + 1 <= y - 1 THEN l ELSE 0
        /\ \A j \in 1..l : s[i][j] = prefix[(x + 1) + j - 1]
    BY <2>2, <2>6, <2>7, SubSeqProperties
  <2>9. /\ t[i] \in Seq(U) /\ Len(t[i]) = IF x + 1 <= y - 1 THEN l ELSE 0
        /\ \A j \in 1..l : t[i][j] = path[(x + 1) + j - 1]
    BY <2>4, <2>6, <2>7, SubSeqProperties
  <2>10. ASSUME NEW j \in 1..Len(s[i]) PROVE s[i][j] = t[i][j]
    <3>1. j \in 1..l /\ (x + 1) + j - 1 \in (x + 1)..(y - 1)
      <4> DEFINE size == Len(s[i])
      <4>1. j \in 1..size /\ size = IF x + 1 <= y - 1 THEN l ELSE 0
        BY <2>8
      <4> HIDE DEF size
      <4>2. x + 1 <= y - 1 /\ size = l
        BY <2>2, <4>1
      <4> QED
        BY <2>2, <4>1, <4>2
    <3> HIDE DEF l
    <3>2. s[i][j] = prefix[(x + 1) + j - 1] /\ t[i][j] = path[(x + 1) + j - 1]
      BY <2>8, <2>9, <3>1
    <3> QED
      BY <2>5, <3>1, <3>2
  <2>11. Len(s[i]) = Len(t[i])
    BY <2>8, <2>9
  <2> QED
    BY <2>8, <2>9, <2>10, <2>11, SeqEqual
<1>9. Len(s) <= Len(t) /\ \A i \in 1..Len(s) : s[i] = t[i]
  BY <1>1, <1>2, <1>3, <1>4, <1>6, <1>8
<1>10. IsPrefix(s, t)
  BY <1>3, <1>4, <1>9, PrefixIs
<1> QED
  BY <1>10 DEF s, t

\* A prefix matches the paths it covers segment by segment, and no other.
THEOREM MatchIsCovers ==
    ASSUME NEW prefix, IsSeq(prefix), NEW path, IsSeq(path)
    PROVE  Match(prefix, path) <=> Covers(prefix, path)
<1> DEFINE Goes == /\ Len(prefix) <= Len(path)
                   /\ \A i \in 1..Len(prefix) : prefix[i] = path[i]
                   /\ Len(prefix) = Len(path) \/ path[Len(prefix) + 1] = "/"
<1>1. IsPrefix(Segments(prefix), Segments(path)) <=> Goes
  BY SegmentsMatch, MatchSegments
<1>2. Match(prefix, path) <=> prefix = <<"/">> \/ Goes
  BY MatchIs
<1> HIDE DEF Goes
<1> QED
  BY <1>1, <1>2, Zenon DEF Covers

-----------------------------------------------------------------------------
(* The table of routes, and the request in hand                             *)

\* A server has the routes of its configuration, in some order of setup_routes.
RoutesInv ==
    /\ ParserInv
    /\ outcome = "ok" => configs # <<>>
    /\ process = "args" => load_balancers_ = {}
    /\ process = "serving" => /\ IsServer(config_)
                              /\ routes_ \in setup_routes(config_, load_balancers_)

\* What is remembered of a request is what process_request makes of it with
\* the routes and the configuration of the server.
LastInv ==
    last # None =>
    /\ process = "serving"
    /\ \/ /\ last.request = NoRequest
          /\ last.wire \in {build(too_many_requests), build(bad_request)}
       \/ /\ last.request.is_valid /\ IsSeq(last.request.path)
          /\ last.target = route(routes_, last.request)
          /\ last.answer \in Answers(last.target, last.request.method)
          /\ \E found \in BOOLEAN :
                /\ last.page <=> HasPage(last.answer, found)
                /\ last.wire = Finish(last.request, last.answer, found)

\* The path of a request is a sequence of characters.
LEMMA PathIs == ASSUME NEW uri, IsSeq(uri) PROVE IsSeq(PathOf(uri))
<1> DEFINE q == SelectInSeq(uri, LAMBDA c : c = "?")
           part == IF q = 0 THEN uri ELSE SubSeq(uri, 1, q - 1)
           p == url_decode(part)
<1>1. IsSeq(part)
  <2>1. CASE q = 0
    BY <2>1
  <2>2. CASE q # 0
    <3> DEFINE S == {i \in 1..Len(uri) : uri[i] = "?"}
    <3>1. q = IF S # {} THEN Min(S) ELSE 0
      BY Zenon DEF SelectInSeq
    <3>2. S \in SUBSET Nat /\ S # {}
      <4>1. S # {}
        BY <2>2, <3>1, Zenon
      <4> QED
        BY <4>1
    <3> HIDE DEF q
    <3>3. q \in S
      <4> HIDE DEF S
      <4> QED
        BY <3>1, <3>2, Least, Zenon
    <3>4. Len(uri) \in Nat /\ uri \in Seq(Range(uri))
      BY SeqIs DEF IsSeq
    <3>5. q \in 1..Len(uri)
      BY <3>3
    <3>6. q - 1 \in 0..Len(uri)
      BY <3>4, <3>5
    <3>7. SubSeq(uri, 1, q - 1) \in Seq(Range(uri))
      BY <3>4, <3>6, Parts
    <3>8. part = SubSeq(uri, 1, q - 1)
      BY <2>2
    <3> QED
      BY <3>7, <3>8, SeqIs
  <2> QED
    BY <2>1, <2>2
<1> HIDE DEF part
<1>2. IsSeq(p)
  <2>1. Len(part) \in Nat /\ DOMAIN part = 1..Len(part)
    BY <1>1, SeqIs
  <2>2. p = [i \in 1..Len(part) |-> Decoded[part[i]]]
    BY <2>1 DEF url_decode
  <2>3. p \in Seq({Decoded[part[i]] : i \in 1..Len(part)})
    BY <2>1, <2>2, IsASeq
  <2> QED
    BY <2>3, SeqIs
<1>3. IsSeq(<<"/">> \o p)
  <2>1. IsSeq(<<"/">>)
    BY ShortAre
  <2> QED
    BY <1>2, <2>1, ConcatIs
<1>4. PathOf(uri) = IF p = <<>> \/ p[1] # "/" THEN <<"/">> \o p ELSE p
  BY Zenon DEF PathOf, part
<1> HIDE DEF p
<1> QED
  BY <1>2, <1>3, <1>4

\* So is that of every valid request.
LEMMA ValidPath ==
    ASSUME NEW raw \in Raws, Parsed[raw].done, Parsed[raw].request.is_valid
    PROVE  IsSeq(Parsed[raw].request.path)
<1>0. Parsed[raw] = Result(raw)
  BY DEF Parsed, Result
<1>1. raw \in Seq(Range(raw)) /\ \A u \in Range(raw) : u.unit = "line" => u.uri \in Seq(STRING)
  BY RawsAssumption
<1>2. \A b, h, n, d : ~Parser(b, h, n, NoRequest, d).request.is_valid
  BY DEF Parser, NoRequest
<1>3. \A b, h, n, r : ~Parser(b, h, n, r, No).done
  BY DEF Parser, No
<1>4. /\ BlankLine(raw) # 0 /\ ValidLine(HeadOf(raw))
      /\ Result(raw) = Parser(SubSeq(Rest(raw), Needs(raw) + 1, Len(Rest(raw))), Yes, Needs(raw),
                              WithBytes(Begun(raw), SubSeq(Rest(raw), 1, Needs(raw))), Yes)
  <2>1. \/ Result(raw) = Parser(raw, No, 0, NoRequest, No)
        \/ Result(raw) = Parser(raw, No, 0, NoRequest, Yes)
        \/ Result(raw) = Parser(Rest(raw), Yes, Needs(raw), Begun(raw), No)
        \/ /\ BlankLine(raw) # 0 /\ ValidLine(HeadOf(raw))
           /\ Result(raw) = Parser(SubSeq(Rest(raw), Needs(raw) + 1, Len(Rest(raw))), Yes,
                                   Needs(raw),
                                   WithBytes(Begun(raw), SubSeq(Rest(raw), 1, Needs(raw))), Yes)
    BY <1>1, ResultIs, Zenon
  <2> QED
    BY <1>0, <1>2, <1>3, <2>1, Zenon
<1>5. Result(raw).request.path = PathOf(HeadOf(raw)[1].uri)
  <2>1. \A b, h, n, r, d : Parser(b, h, n, r, d).request = r
    BY DEF Parser
  <2>2. \A r, b : WithBytes(r, b).path = r.path
    BY DEF WithBytes
  <2>3. Begun(raw).path = PathOf(HeadOf(raw)[1].uri)
    BY DEF Begun, NoRequest
  <2>4. Result(raw).request = WithBytes(Begun(raw), SubSeq(Rest(raw), 1, Needs(raw)))
    <3> DEFINE b == SubSeq(Rest(raw), Needs(raw) + 1, Len(Rest(raw)))
               r == WithBytes(Begun(raw), SubSeq(Rest(raw), 1, Needs(raw)))
    <3>1. Result(raw) = Parser(b, Yes, Needs(raw), r, Yes)
      BY <1>4
    <3> HIDE DEF b, r
    <3>2. Parser(b, Yes, Needs(raw), r, Yes).request = r
      BY <2>1
    <3>3. Result(raw).request = r
      BY <3>1, <3>2
    <3> QED
      BY <3>3 DEF r
  <2>5. Result(raw).request.path = Begun(raw).path
    BY <2>2, <2>4, Zenon
  <2> QED
    BY <2>3, <2>5, Zenon
<1>6. IsSeq(HeadOf(raw)[1].uri)
  <2> DEFINE b == BlankLine(raw)
             section == HeadOf(raw)
  <2>1. Len(raw) \in Nat /\ b \in 1..(Len(raw) - 1)
    <3>1. Len(raw) \in Nat
      BY <1>1
    <3> QED
      BY <1>1, <1>4, <3>1, BlankLineIs
  <2>2. b - 1 \in 0..Len(raw)
    BY <2>1
  <2>3. section = SubSeq(raw, 1, b - 1)
    BY DEF HeadOf
  <2>4. /\ section \in Seq(Range(raw)) /\ Len(section) = b - 1
        /\ \A i \in 1..(b - 1) : section[i] = raw[i]
    BY <1>1, <2>2, <2>3, Parts
  <2> HIDE DEF b
  <2>5. section # <<>> /\ section[1].unit = "line"
    BY <1>4 DEF ValidLine
  <2> HIDE DEF section
  <2>6. section[1] \in Range(raw)
    BY <2>4, <2>5
  <2>7. section[1].uri \in Seq(STRING)
    BY <1>1, <2>5, <2>6
  <2> QED
    BY <2>7, SeqIs DEF section
<1> QED
  BY <1>0, <1>5, <1>6, PathIs

\* A step of the parser keeps what the routes rest on.
LEMMA LoadingKeeps == ASSUME RoutesInv, Loading PROVE RoutesInv'
<1>1. ParserInv'
  BY ParserKeeps DEF RoutesInv, Loading
<1>2. outcome' = "ok" => configs' # <<>>
  <2>1. ASSUME NEW t, ReadToken(t) PROVE outcome' # "ok"
    <3>1. CASE outcome' = outcome /\ outcome = "parsing"
      BY <3>1
    <3>2. CASE Throw
      BY <3>2 DEF Throw
    <3> QED
      <4>1. CASE BeginStatement(t)
        BY <3>1, <4>1 DEF BeginStatement, Parsing
      <4>2. CASE ConsumeWord(t)
        BY <3>1, <4>2 DEF ConsumeWord, Parsing
      <4>3. CASE OpenBlock(t)
        BY <3>1, <4>3 DEF OpenBlock, Parsing
      <4>4. CASE EndDirective(t)
        BY <3>1, <4>4 DEF EndDirective, Parsing
      <4>5. CASE CloseBlock(t)
        BY <3>1, <4>5 DEF CloseBlock, Parsing
      <4> QED
        BY <2>1, <3>2, <4>1, <4>2, <4>3, <4>4, <4>5 DEF ReadToken, SyntaxError
  <2>2. CASE EndOfFile
    <3>1. CASE Throw
      BY <3>1 DEF Throw
    <3> QED
      BY <2>2, <3>1 DEF EndOfFile
  <2> QED
    BY <2>1, <2>2 DEF Loading, ParseConfig
<1>3. process = "loading" /\ process' = "loading"
  BY DEF Loading, siteVars
<1> QED
  BY <1>1, <1>2, <1>3 DEF RoutesInv

\* A server starts with the routes of its configuration.
LEMMA StartKeeps == ASSUME RoutesInv, StartWithFile \/ StartWithDefaults PROVE RoutesInv'
<1>1. CASE StartWithFile
  <2>1. configs # <<>> /\ IsSeq(configs) /\ \A i \in 1..Len(configs) : IsServer(configs[i])
    BY <1>1 DEF StartWithFile, RoutesInv, ParserInv, ConfigsInv
  <2>2. IsServer(Head(configs))
    <3>1. configs \in Seq(Range(configs))
      BY <2>1 DEF IsSeq
    <3>2. 1 \in 1..Len(configs) /\ Head(configs) = configs[1]
      BY <2>1, <3>1
    <3> QED
      BY <2>1, <3>2
  <2>3. IsServer(config_') /\ routes_' \in setup_routes(config_', load_balancers_')
    <3>1. /\ config_' = Head(configs) /\ load_balancers_' = DOMAIN upstreams_
          /\ routes_' \in setup_routes(Head(configs), DOMAIN upstreams_)
      BY <1>1 DEF StartWithFile
    <3> QED
      BY <2>2, <3>1, Zenon
  <2>4. ParserInv'
    <3>1. configs' = <<>> /\ open' = open /\ expect' = expect /\ words' = words
      BY <1>1 DEF StartWithFile
    <3>2. IsSeq(configs') /\ Len(configs') = 0
      BY <3>1, ShortAre, Zenon
    <3> QED
      BY <3>1, <3>2 DEF RoutesInv, ParserInv, OpenInv, WordsInv, ConfigsInv, rule
  <2>5. outcome' = "taken" /\ process' = "serving"
    BY <1>1 DEF StartWithFile
  <2> QED
    BY <2>3, <2>4, <2>5 DEF RoutesInv
<1>2. CASE StartWithDefaults
  <2>1. IsServer(ServerBlock)
    <3>1. IsSeq(<<>>) /\ Len(<<>>) = 0
      BY ShortAre, Zenon
    <3>2. /\ DOMAIN ServerBlock = {"rule", "port", "host", "server_name", "root",
                "client_max_body_size", "rate_limit", "error_pages", "locations"}
          /\ ServerBlock.rule = "server" /\ ServerBlock.locations = <<>>
      BY DEF ServerBlock
    <3> QED
      BY <3>1, <3>2 DEF IsServer
  <2>2. process = "args" /\ load_balancers_ = {} /\ process' = "serving"
    BY <1>2 DEF StartWithDefaults, RoutesInv
  <2>3. IsServer(config_') /\ routes_' \in setup_routes(config_', load_balancers_')
    <3>1. /\ config_' = ServerBlock /\ load_balancers_' = {}
          /\ routes_' \in setup_routes(ServerBlock, {})
      BY <1>2, <2>2 DEF StartWithDefaults
    <3> QED
      BY <2>1, <3>1, Zenon
  <2>4. ParserInv' /\ (outcome' = "ok" => configs' # <<>>)
    <3>1. UNCHANGED parserVars
      BY <1>2 DEF StartWithDefaults
    <3> QED
      BY <3>1 DEF parserVars, RoutesInv, ParserInv, OpenInv, WordsInv, ConfigsInv, rule
  <2> QED
    BY <2>2, <2>3, <2>4 DEF RoutesInv
<1> QED
  BY <1>1, <1>2

\* Before and after any other step the server has the same routes.
LEMMA RoutesHold == Spec => []RoutesInv
<1>1. Init => RoutesInv
  <2> SUFFICES ASSUME Init PROVE RoutesInv
    OBVIOUS
  <2>1. /\ open = <<>> /\ expect = <<>> /\ words = <<>> /\ configs = <<>> /\ outcome = "parsing"
        /\ process = "args" /\ load_balancers_ = {}
    BY DEF Init, ParserInit
  <2>2. IsSeq(<<>>) /\ Len(<<>>) = 0
    BY ShortAre, Zenon
  <2>3. ParserInv
    BY <2>1, <2>2 DEF ParserInv, OpenInv, WordsInv, ConfigsInv
  <2> QED
    BY <2>1, <2>3 DEF RoutesInv
<1>2. RoutesInv /\ [Next]_vars => RoutesInv'
  <2> SUFFICES ASSUME RoutesInv, [Next]_vars PROVE RoutesInv'
    OBVIOUS
  <2>1. ASSUME UNCHANGED <<parserVars, config_, load_balancers_, routes_>>,
               process' = process \/ process' \notin {"args", "serving"}
        PROVE  RoutesInv'
    <3>1. ParserInv' /\ (outcome' = "ok" => configs' # <<>>)
      BY <2>1 DEF parserVars, RoutesInv, ParserInv, OpenInv, WordsInv, ConfigsInv, rule
    <3>2. /\ process' = "args" => load_balancers_' = {}
          /\ process' = "serving" => /\ IsServer(config_')
                                     /\ routes_' \in setup_routes(config_', load_balancers_')
      BY <2>1 DEF RoutesInv
    <3> QED
      BY <3>1, <3>2 DEF RoutesInv
  <2>2. CASE Loading
    BY <2>2, LoadingKeeps
  <2>3. CASE Usage \/ LoadFile \/ LoadFailed \/ TestOnly
    BY <2>1, <2>3 DEF Usage, LoadFile, LoadFailed, TestOnly
  <2>4. CASE StartWithFile \/ StartWithDefaults
    BY <2>4, StartKeeps
  <2>5. ASSUME NEW raw \in Raws, Refuse(raw) \/ BadRequest(raw) \/ Respond(raw) PROVE RoutesInv'
    BY <2>1, <2>5, Zenon DEF Refuse, BadRequest, Respond, Handled
  <2>6. CASE NextRequest
    BY <2>1, <2>6 DEF NextRequest
  <2>7. CASE UNCHANGED vars
    BY <2>1, <2>7 DEF vars, siteVars
  <2> QED
    BY <2>2, <2>3, <2>4, <2>5, <2>6, <2>7 DEF Next
<1> QED
  BY <1>1, <1>2, PTL DEF Spec

\* A request as process_request has handled it.
LEMMA RespondIs == ASSUME NEW raw \in Raws, Respond(raw) PROVE LastInv'
<1> DEFINE request == Parsed[raw].request
           target == route(routes_, request)
<1>1. /\ process = "serving" /\ Parsed[raw].done /\ request.is_valid
      /\ \E answer \in Answers(target, request.method), found \in BOOLEAN :
            Handled(raw, request, target, answer, HasPage(answer, found),
                    Finish(request, answer, found))
  BY Zenon DEF Respond, Serving
<1>2. IsSeq(request.path)
  BY <1>1, ValidPath
<1> HIDE DEF request
<1>3. PICK answer \in Answers(target, request.method), found \in BOOLEAN :
         Handled(raw, request, target, answer, HasPage(answer, found),
                 Finish(request, answer, found))
  BY <1>1
<1>4. ASSUME NEW page, NEW wire, Handled(raw, request, target, answer, page, wire)
      PROVE  /\ last'.request = request /\ last'.target = target /\ last'.answer = answer
             /\ last'.page = page /\ last'.wire = wire
             /\ process' = process /\ routes_' = routes_ /\ config_' = config_
  BY <1>4 DEF Handled
<1> HIDE DEF target
<1>5. /\ last'.request = request /\ last'.target = target /\ last'.answer = answer
      /\ last'.page = HasPage(answer, found) /\ last'.wire = Finish(request, answer, found)
      /\ process' = process /\ routes_' = routes_ /\ config_' = config_
  BY <1>3, <1>4
<1>6. (last'.page <=> HasPage(answer, found)')
  <2>1. HasPage(answer, found)' <=> HasPage(answer, found)
    BY <1>5 DEF HasPage
  <2> QED
    BY <1>5, <2>1
<1>7. last'.wire = Finish(request, answer, found)'
  <2>1. config_' = config_
    BY <1>5
  <2>2. ErrorPage(DropBody(request, answer), found)' = ErrorPage(DropBody(request, answer), found)
    BY <2>1 DEF ErrorPage, HasPage
  <2>3. Finish(request, answer, found)' = Finish(request, answer, found)
    BY <2>2 DEF Finish
  <2> QED
    BY <1>5, <2>3
<1>8. last'.target = route(routes_', last'.request)
  BY <1>5 DEF target
<1> QED
  BY <1>1, <1>2, <1>3, <1>5, <1>6, <1>7, <1>8 DEF LastInv

\* What is remembered of a request stays true until the next one.
LEMMA LastHolds == Spec => []LastInv
<1>1. Init => LastInv
  BY DEF Init, LastInv
<1>2. LastInv /\ [Next]_vars => LastInv'
  <2> SUFFICES ASSUME LastInv, [Next]_vars PROVE LastInv'
    OBVIOUS
  <2>1. ASSUME UNCHANGED siteVars PROVE LastInv'
    <3>1. /\ last' = last /\ process' = process /\ routes_' = routes_ /\ config_' = config_
      BY <2>1 DEF siteVars
    <3>2. \A a, f : HasPage(a, f)' <=> HasPage(a, f)
      BY <3>1 DEF HasPage
    <3>3. \A r, a, f : Finish(r, a, f)' = Finish(r, a, f)
      BY <3>1 DEF Finish, ErrorPage, HasPage
    <3> QED
      BY <3>1, <3>2, <3>3 DEF LastInv
  <2>2. ASSUME last' = last, process # "serving" PROVE LastInv'
    BY <2>2 DEF LastInv
  <2>3. CASE Loading \/ UNCHANGED vars
    BY <2>1, <2>3, Zenon DEF Loading, vars
  <2>4. CASE Usage \/ LoadFile \/ LoadFailed \/ TestOnly \/ StartWithFile \/ StartWithDefaults
    BY <2>2, <2>4 DEF Usage, LoadFile, LoadFailed, TestOnly, StartWithFile, StartWithDefaults
  <2>5. ASSUME NEW raw \in Raws, Refuse(raw) \/ BadRequest(raw) PROVE LastInv'
    <3>1. ASSUME NEW request, NEW target, NEW answer, NEW page, NEW wire,
                 Handled(raw, request, target, answer, page, wire)
          PROVE  last'.request = request /\ last'.wire = wire /\ process' = process
      BY <3>1 DEF Handled
    <3>2. /\ process = "serving"
          /\ \E target, answer, page, wire :
                /\ wire \in {build(too_many_requests), build(bad_request)}
                /\ Handled(raw, NoRequest, target, answer, page, wire)
      <4>1. CASE Refuse(raw)
        BY <4>1, Zenon DEF Refuse, Serving
      <4>2. CASE BadRequest(raw)
        BY <4>2, Zenon DEF BadRequest, Serving
      <4> QED
        BY <2>5, <4>1, <4>2
    <3>3. /\ process' = "serving" /\ last'.request = NoRequest
          /\ last'.wire \in {build(too_many_requests), build(bad_request)}
      BY <3>1, <3>2
    <3> QED
      BY <3>3, Zenon DEF LastInv
  <2>6. ASSUME NEW raw \in Raws, Respond(raw) PROVE LastInv'
    BY <2>6, RespondIs
  <2>7. CASE NextRequest
    BY <2>7 DEF NextRequest, LastInv
  <2> QED
    BY <2>3, <2>4, <2>5, <2>6, <2>7 DEF Next
<1> QED
  BY <1>1, <1>2, PTL DEF Spec

\* The router gives a request to one of the handlers, or answers 404 or 405.
LEMMA RoutedSomewhere ==
    ASSUME NEW config, IsServer(config), NEW upstreams,
           NEW routes \in setup_routes(config, upstreams), NEW request
    PROVE  route(routes, request).handler \in Handlers \cup {"404", "405"}
<1>1. IsSeq(routes) /\ \A i \in 1..Len(routes) : IsRoute(routes[i])
  BY SetupIs, SaidRoutesAre, SeqIs
<1>2. Target("404", "").handler = "404" /\ Target("405", "").handler = "405"
  BY DEF Target
<1>3. \/ route(routes, request) \in {Target("404", ""), Target("405", "")}
      \/ \E n \in 1..Len(routes) : route(routes, request) = routes[n].target
  BY <1>1, RouteIs
<1> QED
  BY <1>1, <1>2, <1>3 DEF IsRoute

-----------------------------------------------------------------------------
(* What a client can find the end of                                        *)

\* Which finished answers a client finds the end of, and what they say of the
\* connection.
LEMMA FinishFramed ==
    ASSUME NEW target, target.handler \in Handlers \cup {"404", "405"},
           NEW request, NEW answer \in Answers(target, request.method), NEW found
    PROVE  LET wire == Finish(request, answer, found)
               relayed == target.handler \in {"proxy", "balanced"}
           IN  /\ Framed(request.method, wire) <=>
                     ~(\/ request.method = "HEAD" /\ HasPage(answer, found)
                       \/ /\ request.method # "HEAD" /\ relayed
                          /\ Announced(answer) # {}
                          /\ HasPage(answer, found) \/ answer.body # BackendSize)
               /\ SaysKept(wire) <=> wants_keep_alive(request) \/ (relayed /\ SaysKept(answer))
<1> DEFINE wire == Finish(request, answer, found)
           head == request.method = "HEAD"
           page == HasPage(answer, found)
           relayed == target.handler \in {"proxy", "balanced"}
<1>1. PICK code, size, headers :
         /\ answer = Message(code, size, headers)
         /\ Kept(headers) => relayed
         /\ \/ Lengths(headers) = {} /\ ~Fixed(headers)
            \/ /\ target.handler = "static" /\ code = 200 /\ size = FileSize
               /\ Lengths(headers) = {FileSize} /\ Fixed(headers)
            \/ /\ relayed
               /\ request.method # "HEAD" => size \in {4, 2}
               /\ Lengths(headers) = {BackendSize}
  <2>1. Plausible(target, request.method, answer)
    BY AnswersAnnounce
  <2> QED
    BY <2>1, Zenon DEF Plausible
<1> DEFINE sent == IF page THEN PageSize ELSE IF head THEN 0 ELSE size
<1>2. /\ wire.body = sent
      /\ Announced(wire) = IF Fixed(headers) THEN Lengths(headers)
                           ELSE Lengths(headers) \cup {sent}
      /\ SaysKept(wire) <=> wants_keep_alive(request) \/ Kept(headers)
  <2> DEFINE given == Message(code, size, headers)
             mine == IF HasPage(given, found) THEN PageSize ELSE IF head THEN 0 ELSE size
  <2>1. /\ Finish(request, given, found).body = mine
        /\ Announced(Finish(request, given, found))
              = IF Fixed(headers) THEN Lengths(headers) ELSE Lengths(headers) \cup {mine}
        /\ SaysKept(Finish(request, given, found)) <=> wants_keep_alive(request) \/ Kept(headers)
    BY FinishIs
  <2>2. given = answer
    BY <1>1
  <2> HIDE DEF given
  <2> QED
    BY <2>1, <2>2
<1>3. /\ answer.body = size /\ answer.status_code = code /\ Announced(answer) = Lengths(headers)
      /\ SaysKept(answer) <=> Kept(headers)
  BY <1>1, MessageExcept, AnnouncedIs
<1>4. code = 200 => ~page
  BY <1>3 DEF HasPage
<1>5. Framed(request.method, wire) <=> IF head THEN wire.body = 0 ELSE Announced(wire) = {wire.body}
  BY DEF Framed
<1>6. PageSize = 3 /\ FileSize = 2 /\ BackendSize = 4
  BY DEF PageSize, FileSize, BackendSize
<1> DEFINE Finds == Framed(request.method, wire) <=>
                       ~(\/ head /\ page
                         \/ /\ ~head /\ relayed
                            /\ Announced(answer) # {}
                            /\ page \/ answer.body # BackendSize)
<1> HIDE DEF wire, page
<1>7. ASSUME head PROVE Finds
  <2>1. Framed(request.method, wire) <=> sent = 0
    BY <1>2, <1>5, <1>7
  <2>2. sent = 0 <=> ~page
    BY <1>6, <1>7
  <2> QED
    BY <1>7, <2>1, <2>2
<1>8. ASSUME ~head PROVE Finds
  <2>0. Framed(request.method, wire) <=> Announced(wire) = {sent}
    BY <1>2, <1>5, <1>8
  <2>1. CASE Lengths(headers) = {} /\ ~Fixed(headers)
    <3>1. Announced(wire) = {sent} /\ Announced(answer) = {}
      BY <1>2, <1>3, <2>1
    <3> QED
      BY <1>8, <2>0, <3>1
  <2>2. CASE /\ target.handler = "static" /\ code = 200 /\ size = FileSize
             /\ Lengths(headers) = {FileSize} /\ Fixed(headers)
    <3>1. Announced(wire) = {FileSize}
      BY <1>2, <2>2
    <3>2. sent = FileSize
      BY <1>4, <1>8, <2>2
    <3>3. ~relayed
      BY <2>2
    <3> QED
      BY <1>8, <2>0, <3>1, <3>2, <3>3
  <2>3. CASE relayed /\ size \in {4, 2} /\ Lengths(headers) = {BackendSize}
    <3>1. /\ Announced(answer) = {BackendSize}
          /\ Announced(wire) = {BackendSize} \/ Announced(wire) = {BackendSize} \cup {sent}
      BY <1>2, <1>3, <2>3
    <3>2. Announced(wire) = {sent} <=> sent = BackendSize
      <4> HIDE DEF sent
      <4> QED
        BY <3>1
    <3>3. sent = BackendSize <=> ~page /\ size = BackendSize
      BY <1>6, <1>8, <2>3
    <3>4. Announced(answer) # {}
      BY <3>1
    <3> HIDE DEF sent
    <3>5. Framed(request.method, wire) <=> ~page /\ answer.body = BackendSize
      BY <1>3, <2>0, <3>2, <3>3
    <3> QED
      BY <1>8, <2>3, <3>4, <3>5
  <2> QED
    BY <1>1, <1>8, <2>1, <2>2, <2>3
<1>9. Finds
  BY <1>7, <1>8
<1>10. SaysKept(wire) <=> wants_keep_alive(request) \/ (relayed /\ SaysKept(answer))
  BY <1>1, <1>2, <1>3
<1> QED
  BY <1>9, <1>10 DEF wire, page

\* A client finds the end of every response but for those of a HEAD request
\* with an error page, and those whose body is not what the relayed length or
\* coding says; and it is told what becomes of the connection, unless a
\* backend's own keep-alive goes to a client that has asked for the close
\* (process_request, send_and_receive, parse_backend_response, build).
THEOREM FramedButForTwo == Spec => []FramedExactly
<1> DEFINE Right(found) ==
              LET relayed == last.target.handler \in {"proxy", "balanced"}
                  wire == Finish(last.request, last.answer, found)
              IN  /\ Framed(last.request.method, wire) <=>
                        ~(\/ last.request.method = "HEAD" /\ HasPage(last.answer, found)
                          \/ /\ last.request.method # "HEAD" /\ relayed
                             /\ Announced(last.answer) # {}
                             /\ HasPage(last.answer, found) \/ last.answer.body # BackendSize)
                  /\ SaysKept(wire) <=>
                        wants_keep_alive(last.request) \/ (relayed /\ SaysKept(last.answer))
           Framing == LET relayed == last.target.handler \in {"proxy", "balanced"} IN
                      /\ Framed(last.request.method, last.wire) <=>
                            ~(\/ last.request.method = "HEAD" /\ last.page
                              \/ /\ last.request.method # "HEAD" /\ relayed
                                 /\ Announced(last.answer) # {}
                                 /\ last.page \/ last.answer.body # BackendSize)
                      /\ SaysKept(last.wire) <=>
                            wants_keep_alive(last.request) \/ (relayed /\ SaysKept(last.answer))
<1>1. RoutesInv /\ LastInv => FramedExactly
  <2> SUFFICES ASSUME RoutesInv, LastInv, last # None
               PROVE  IF ~last.request.is_valid THEN last.wire.headers["Connection"] = "close"
                      ELSE Framing
    BY DEF FramedExactly
  <2>1. CASE /\ last.request = NoRequest
             /\ last.wire \in {build(too_many_requests), build(bad_request)}
    <3>1. ~last.request.is_valid
      <4>1. ~NoRequest.is_valid
        BY DEF NoRequest
      <4> QED
        BY <2>1, <4>1, Zenon
    <3>2. \A code : Response(code, 1) = Message(code, 1, <<>>)
      BY DEF Response, Message
    <3>3. PICK code : last.wire = build(Message(code, 1, <<>>))
      <4>1. too_many_requests = Message(429, 1, <<>>) /\ bad_request = Message(400, 1, <<>>)
        BY <3>2 DEF too_many_requests, bad_request
      <4> QED
        BY <2>1, <4>1
    <3>4. PICK m : build(Message(code, 1, <<>>)) = Message(code, 1, m) /\ m["Connection"] = "close"
      BY BuildIs, FewLengths
    <3>5. last.wire.headers = m
      BY <3>3, <3>4, MessageExcept
    <3> QED
      BY <3>1, <3>4, <3>5
  <2>2. ASSUME last.request.is_valid, last.target = route(routes_, last.request),
               last.answer \in Answers(last.target, last.request.method),
               NEW found, last.page <=> HasPage(last.answer, found),
               last.wire = Finish(last.request, last.answer, found)
        PROVE  Framing
    <3>1. last.target.handler \in Handlers \cup {"404", "405"}
      BY <2>2, RoutedSomewhere DEF RoutesInv, LastInv
    <3>2. Right(found)
      BY <2>2, <3>1, FinishFramed, Zenon
    <3> QED
      BY <2>2, <3>2
  <2> QED
    BY <2>1, <2>2 DEF LastInv
<1> QED
  BY <1>1, RoutesHold, LastHolds, PTL

-----------------------------------------------------------------------------
(* Where a request goes                                                     *)

\* The routes that cover a path, the longest of them, and what one allows.
Covering(config, upstreams, path) ==
    {r \in Range(SaidRoutes(config, upstreams)) : Covers(r.prefix, path)}

Longest(covering) == {r \in covering : \A s \in covering : Len(s.prefix) <= Len(r.prefix)}

Allows(r, method) == r.methods = <<>> \/ method \in Range(r.methods)

\* The route that decides is a longest one of those that cover the path, and
\* no route covers it if none decides.
LEMMA RouteDecides ==
    ASSUME NEW config, IsServer(config), NEW upstreams,
           NEW routes \in setup_routes(config, upstreams),
           NEW request, IsSeq(request.path)
    PROVE  LET covering == Covering(config, upstreams, request.path) IN
           \/ covering = {} /\ route(routes, request) = Target("404", "")
           \/ \E r \in Longest(covering) :
                 /\ r.target.handler \in Handlers
                 /\ route(routes, request) = IF Allows(r, request.method) THEN r.target
                                            ELSE Target("405", "")
<1> DEFINE said == Range(SaidRoutes(config, upstreams))
           covering == {r \in said : Covers(r.prefix, request.path)}
           matching == {i \in 1..Len(routes) : Match(routes[i].prefix, request.path)}
           chosen == route(routes, request)
<1>1. /\ IsSeq(routes) /\ Sorted(routes) /\ Range(routes) = said
      /\ \A r \in said : IsRoute(r)
  BY SetupIs, SaidRoutesAre
<1> HIDE DEF said
<1>2. /\ Len(routes) \in Nat /\ DOMAIN routes = 1..Len(routes)
      /\ \A i \in 1..Len(routes) : routes[i] \in said
      /\ \A r \in said : \E i \in 1..Len(routes) : routes[i] = r
  BY <1>1, SeqIs
<1>3. \A r \in said : IsSeq(r.prefix) /\ (Match(r.prefix, request.path) <=> Covers(r.prefix, request.path))
  BY <1>1, MatchIsCovers DEF IsRoute
<1>4. \A i \in 1..Len(routes) : i \in matching <=> routes[i] \in covering
  BY <1>2, <1>3
<1>5. \/ matching = {} /\ chosen = Target("404", "")
      \/ \E n \in matching :
            /\ \A k \in matching : n <= k
            /\ chosen = IF routes[n].methods # <<>> /\ ~Contains(routes[n].methods, request.method)
                        THEN Target("405", "") ELSE routes[n].target
  BY <1>1, RouteIs
<1>6. matching \subseteq 1..Len(routes) /\ covering \subseteq said
  OBVIOUS
<1> HIDE DEF matching, chosen
<1>7. ASSUME matching = {} PROVE covering = {}
  <2>1. ASSUME NEW r \in covering PROVE FALSE
    <3>1. r \in said
      OBVIOUS
    <3>2. PICK i \in 1..Len(routes) : routes[i] = r
      BY <1>2, <3>1
    <3> HIDE DEF covering
    <3> QED
      BY <1>4, <1>7, <2>1, <3>2
  <2> QED
    BY <2>1
<1>8. ASSUME NEW n \in matching, \A k \in matching : n <= k,
             chosen = IF routes[n].methods # <<>> /\ ~Contains(routes[n].methods, request.method)
                      THEN Target("405", "") ELSE routes[n].target
      PROVE  \E r \in Longest(covering) :
                /\ r.target.handler \in Handlers
                /\ chosen = IF Allows(r, request.method) THEN r.target ELSE Target("405", "")
  <2> DEFINE r == routes[n]
  <2>1. n \in 1..Len(routes) /\ r \in covering /\ r \in said
    BY <1>2, <1>4, <1>6, <1>8
  <2>2. r.target.handler \in Handlers /\ IsSeq(r.methods)
    BY <1>1, <2>1 DEF IsRoute
  <2>3. ASSUME NEW s \in covering PROVE Len(s.prefix) <= Len(r.prefix)
    <3>1. s \in said
      OBVIOUS
    <3>2. PICK k \in 1..Len(routes) : routes[k] = s
      BY <1>2, <3>1
    <3> HIDE DEF covering
    <3>3. k \in matching
      BY <1>4, <2>3, <3>2
    <3>4. n <= k
      BY <1>8, <3>3
    <3>5. Len(r.prefix) \in Nat /\ Len(s.prefix) \in Nat
      BY <1>3, <2>1, <3>1, SeqIs
    <3>6. n < k => Len(r.prefix) >= Len(s.prefix)
      BY <1>1, <1>2, <2>1, <3>2 DEF Sorted
    <3>7. n = k => r = s
      BY <3>2
    <3> HIDE DEF r
    <3> QED
      BY <2>1, <3>4, <3>5, <3>6, <3>7
  <2> HIDE DEF covering, r
  <2>4. r \in Longest(covering)
    BY <2>1, <2>3 DEF Longest
  <2>5. Contains(r.methods, request.method) <=> request.method \in Range(r.methods)
    BY <2>2, SeqIs DEF Contains
  <2>6. chosen = IF r.methods # <<>> /\ ~Contains(r.methods, request.method)
                 THEN Target("405", "") ELSE r.target
    BY <1>8 DEF r
  <2>7. chosen = IF Allows(r, request.method) THEN r.target ELSE Target("405", "")
    BY <2>5, <2>6 DEF Allows
  <2> QED
    BY <2>2, <2>4, <2>7
<1>9. covering = Covering(config, upstreams, request.path)
  BY DEF Covering, said
<1> HIDE DEF covering
<1> QED
  BY <1>5, <1>7, <1>8, <1>9, Zenon DEF chosen

\* A request goes to the longest location whose path covers its own, segment
\* by segment, in whatever order the file has them; 405 comes only from such a
\* location that does not list the method, and 404 only if none covers the
\* path (setup_routes, add_route, route).
THEOREM LongestPrefixDecides == Spec => []RoutedByLongestPrefix
<1>1. RoutesInv /\ LastInv => RoutedByLongestPrefix
  <2> SUFFICES ASSUME RoutesInv, LastInv, last # None, last.request.is_valid
               PROVE  RoutedByLongestPrefix
    BY DEF RoutedByLongestPrefix
  <2> DEFINE covering == Covering(config_, load_balancers_, last.request.path)
             allowed(r) == Allows(r, last.request.method)
  <2>1. /\ IsSeq(last.request.path) /\ last.target = route(routes_, last.request)
        /\ IsServer(config_) /\ routes_ \in setup_routes(config_, load_balancers_)
    <3>1. ~NoRequest.is_valid
      BY DEF NoRequest
    <3>2. last.request # NoRequest
      BY <3>1
    <3> QED
      BY <3>2 DEF RoutesInv, LastInv
  <2>2. \/ covering = {} /\ last.target = Target("404", "")
        \/ \E r \in Longest(covering) :
              /\ r.target.handler \in Handlers
              /\ last.target = IF allowed(r) THEN r.target ELSE Target("405", "")
    BY <2>1, RouteDecides
  <2>3. Target("404", "").handler = "404" /\ Target("405", "").handler = "405"
    BY DEF Target
  <2>4. RoutedByLongestPrefix <=>
           CASE last.target.handler = "404" -> covering = {}
             [] last.target.handler = "405" -> \E r \in Longest(covering) : ~allowed(r)
             [] OTHER -> \E r \in Longest(covering) : allowed(r) /\ r.target = last.target
    BY Zenon DEF RoutedByLongestPrefix, SaidRoutes, Covering, Longest, Allows
  <2> HIDE DEF covering, allowed
  <2>5. CASE covering = {} /\ last.target = Target("404", "")
    BY <2>3, <2>4, <2>5
  <2>6. ASSUME NEW r \in Longest(covering), r.target.handler \in Handlers,
               last.target = IF allowed(r) THEN r.target ELSE Target("405", "")
        PROVE  RoutedByLongestPrefix
    <3>1. CASE allowed(r)
      <4>1. last.target = r.target /\ last.target.handler \notin {"404", "405"}
        BY <2>6, <3>1 DEF Handlers
      <4> QED
        BY <2>4, <2>6, <3>1, <4>1
    <3>2. CASE ~allowed(r)
      <4>1. last.target.handler = "405"
        BY <2>3, <2>6, <3>2
      <4> QED
        BY <2>4, <2>6, <3>2, <4>1
    <3> QED
      BY <3>1, <3>2
  <2> QED
    BY <2>2, <2>5, <2>6
<1> QED
  BY <1>1, RoutesHold, LastHolds, PTL

-----------------------------------------------------------------------------
(* The text of a file, one whole statement after another                    *)

\* The punctuation, by names.
Opening == "{"
Closing == "}"
Semicolon == ";"

\* The places before i where f has c.
Places(f, c, i) == {j \in 1..(i - 1) : f[j] = c}

\* What a token adds to the depth.
Deeper(t) == IF t = Opening THEN 1 ELSE IF t = Closing THEN -1 ELSE 0

\* h is g and one more statement: the words w and the punctuation t, or "}"
\* alone.
Grows(g, w, t, h) ==
    /\ IsSeq(g) /\ IsSeq(w) /\ IsSeq(h)
    /\ Len(h) = Len(g) + Len(w) + 1
    /\ \A i \in 1..Len(g) : h[i] = g[i]
    /\ \A i \in 1..Len(w) : h[Len(g) + i] = w[i] /\ TokenType(w[i]) = "WORD"
    /\ h[Len(h)] = t /\ t \in {Opening, Closing, Semicolon}
    /\ Len(g) > 0 => TokenType(g[Len(g)]) # "WORD"
    /\ Len(w) = 0 => t = Closing

\* The block that begins at b has not ended.
IsOpen(g, b) == /\ Depth(g, Len(g) + 1) > Depth(g, b)
                /\ \A j \in Starts(g) : j > b => Depth(g, j) > Depth(g, b)

\* Words are no punctuation.
LEMMA WordIs ==
    ASSUME NEW t
    PROVE  /\ TokenType(t) = "WORD" <=> t \notin {Opening, Closing, Semicolon}
           /\ Opening # Closing /\ Opening # Semicolon /\ Closing # Semicolon
<1>1. /\ "{" # "WORD" /\ "}" # "WORD" /\ ";" # "WORD"
      /\ "{" # "}" /\ "{" # ";" /\ "}" # ";"
  BY Zenon
<1> QED
  BY <1>1, Zenon DEF TokenType, Opening, Closing, Semicolon

\* The depth counts them.
LEMMA DepthIs ==
    ASSUME NEW f, NEW i
    PROVE  Depth(f, i) = Cardinality(Places(f, Opening, i)) - Cardinality(Places(f, Closing, i))
BY Zenon DEF Depth, Places, Opening, Closing

\* Lengths and places of the tokens.
LEMMA GrowsIs ==
    ASSUME NEW g, NEW w, NEW t, NEW h, Grows(g, w, t, h)
    PROVE  /\ Len(g) \in Nat /\ Len(w) \in Nat /\ Len(h) \in Nat
           /\ Len(h) = Len(g) + Len(w) + 1
           /\ DOMAIN g = 1..Len(g) /\ DOMAIN w = 1..Len(w) /\ DOMAIN h = 1..Len(h)
           /\ \A i \in 1..Len(g) : h[i] = g[i]
           /\ \A i \in 1..Len(w) : h[Len(g) + i] = w[i] /\ TokenType(w[i]) = "WORD"
           /\ \A i \in (Len(g) + 1)..(Len(h) - 1) : TokenType(h[i]) = "WORD"
           /\ h[Len(h)] = t /\ TokenType(t) # "WORD"
           /\ Len(g) > 0 => TokenType(g[Len(g)]) # "WORD"
<1>1. IsSeq(g) /\ IsSeq(w) /\ IsSeq(h)
  BY DEF Grows
<1>2. /\ Len(g) \in Nat /\ Len(w) \in Nat /\ Len(h) \in Nat
      /\ DOMAIN g = 1..Len(g) /\ DOMAIN w = 1..Len(w) /\ DOMAIN h = 1..Len(h)
  BY <1>1, SeqIs
<1>3. /\ Len(h) = Len(g) + Len(w) + 1
      /\ \A i \in 1..Len(g) : h[i] = g[i]
      /\ \A i \in 1..Len(w) : h[Len(g) + i] = w[i] /\ TokenType(w[i]) = "WORD"
      /\ h[Len(h)] = t /\ t \in {Opening, Closing, Semicolon}
      /\ Len(g) > 0 => TokenType(g[Len(g)]) # "WORD"
  BY DEF Grows
<1>4. ASSUME NEW i \in (Len(g) + 1)..(Len(h) - 1) PROVE TokenType(h[i]) = "WORD"
  <2> DEFINE n == Len(g)
             k == Len(w)
             m == Len(h)
  <2>1. n \in Nat /\ k \in Nat /\ m = n + k + 1 /\ i \in (n + 1)..(m - 1)
    BY <1>2, <1>3
  <2>2. i - n \in 1..k /\ n + (i - n) = i
    <3> HIDE DEF n, k, m
    <3> QED
      BY <2>1
  <2>3. h[n + (i - n)] = w[i - n] /\ TokenType(w[i - n]) = "WORD"
    BY <1>3, <2>2, Zenon
  <2> QED
    BY <2>2, <2>3
<1> QED
  BY <1>2, <1>3, <1>4, WordIs

\* How many braces there are before a place.
LEMMA PlacesGrown ==
    ASSUME NEW g, NEW w, NEW t, NEW h, Grows(g, w, t, h), NEW c \in {Opening, Closing}
    PROVE  /\ \A i \in 1..(Len(g) + 1) :
                 Places(h, c, i) = Places(g, c, i) /\ Cardinality(Places(g, c, i)) \in Nat
           /\ \A i \in (Len(g) + 1)..Len(h) : Places(h, c, i) = Places(g, c, Len(g) + 1)
           /\ Cardinality(Places(h, c, Len(h) + 1)) =
                 Cardinality(Places(g, c, Len(g) + 1)) + (IF t = c THEN 1 ELSE 0)
<1> DEFINE n == Len(g)
           m == Len(h)
<1>1. /\ n \in Nat /\ m \in Nat /\ n + 1 <= m
      /\ \A i \in 1..n : h[i] = g[i]
      /\ \A i \in (n + 1)..(m - 1) : TokenType(h[i]) = "WORD"
      /\ h[m] = t
  <2>1. /\ n \in Nat /\ Len(w) \in Nat /\ m \in Nat /\ m = n + Len(w) + 1
        /\ \A i \in 1..n : h[i] = g[i]
        /\ \A i \in (n + 1)..(m - 1) : TokenType(h[i]) = "WORD"
        /\ h[m] = t
    BY GrowsIs
  <2> HIDE DEF n, m
  <2> QED
    BY <2>1
<1> HIDE DEF n, m
<1>2. \A i \in (n + 1)..(m - 1) : h[i] # c
  BY <1>1, WordIs
<1>3. ASSUME NEW i \in 1..(n + 1) PROVE IsFiniteSet(Places(g, c, i)) /\ Cardinality(Places(g, c, i)) \in Nat
  <2>0. i - 1 \in Int
    BY <1>1
  <2>1. IsFiniteSet(1..(i - 1))
    BY <2>0, FS_Interval
  <2>2. Places(g, c, i) \in SUBSET (1..(i - 1))
    BY DEF Places
  <2> QED
    BY <2>1, <2>2, FS_Subset, FS_CardinalityType
<1>4. \A i \in 1..(n + 1) : Places(h, c, i) = Places(g, c, i)
  BY <1>1 DEF Places
<1>5. \A i \in (n + 1)..m : Places(h, c, i) = Places(g, c, n + 1)
  BY <1>1, <1>2 DEF Places
<1>6. Cardinality(Places(h, c, m + 1)) = Cardinality(Places(g, c, n + 1)) + (IF t = c THEN 1 ELSE 0)
  <2>1. Places(h, c, m) = Places(g, c, n + 1) /\ n + 1 \in 1..(n + 1)
    BY <1>1, <1>5
  <2>2. m \notin Places(h, c, m)
    BY <1>1 DEF Places
  <2>3. CASE t = c
    <3>1. Places(h, c, m + 1) = Places(h, c, m) \cup {m}
      BY <1>1, <2>3 DEF Places
    <3> QED
      BY <1>3, <2>1, <2>2, <2>3, <3>1, FS_AddElement
  <2>4. CASE t # c
    <3>1. Places(h, c, m + 1) = Places(h, c, m)
      BY <1>1, <2>4 DEF Places
    <3> QED
      BY <1>3, <2>1, <2>4, <3>1
  <2> QED
    BY <2>3, <2>4
<1> QED
  BY <1>3, <1>4, <1>5, <1>6 DEF n, m

\* A statement changes the depth after it only.
LEMMA DepthGrown ==
    ASSUME NEW g, NEW w, NEW t, NEW h, Grows(g, w, t, h)
    PROVE  /\ \A i \in 1..(Len(g) + 1) : Depth(h, i) = Depth(g, i) /\ Depth(g, i) \in Int
           /\ \A i \in (Len(g) + 1)..Len(h) : Depth(h, i) = Depth(g, Len(g) + 1)
           /\ Depth(h, Len(h) + 1) = Depth(g, Len(g) + 1) + Deeper(t)
<1> DEFINE n == Len(g) + 1
           m == Len(h)
<1>1. n \in 1..n
  BY GrowsIs
<1>2. ASSUME NEW f, NEW i
      PROVE  Depth(f, i) = Cardinality(Places(f, Opening, i)) - Cardinality(Places(f, Closing, i))
  BY DepthIs, Zenon
<1>3. ASSUME NEW c \in {Opening, Closing}
      PROVE  /\ \A i \in 1..n : /\ Places(h, c, i) = Places(g, c, i)
                                /\ Cardinality(Places(g, c, i)) \in Nat
             /\ \A i \in n..m : Places(h, c, i) = Places(g, c, n)
             /\ Cardinality(Places(h, c, m + 1)) =
                   Cardinality(Places(g, c, n)) + (IF t = c THEN 1 ELSE 0)
  BY PlacesGrown
<1> HIDE DEF n, m
<1>4. ASSUME NEW i \in 1..n PROVE Depth(h, i) = Depth(g, i) /\ Depth(g, i) \in Int
  <2>1. /\ Places(h, Opening, i) = Places(g, Opening, i) /\ Places(h, Closing, i) = Places(g, Closing, i)
        /\ Cardinality(Places(g, Opening, i)) \in Nat /\ Cardinality(Places(g, Closing, i)) \in Nat
    BY <1>3
  <2>2. Depth(h, i) = Depth(g, i)
    BY <1>2, <2>1, Zenon
  <2>3. Depth(g, i) = Cardinality(Places(g, Opening, i)) - Cardinality(Places(g, Closing, i))
    BY <1>2, Zenon
  <2> DEFINE a == Cardinality(Places(g, Opening, i))
             b == Cardinality(Places(g, Closing, i))
  <2>4. a \in Nat /\ b \in Nat /\ Depth(g, i) = a - b
    BY <2>1, <2>3
  <2> HIDE DEF a, b
  <2> QED
    BY <2>2, <2>4
<1>5. ASSUME NEW i \in n..m PROVE Depth(h, i) = Depth(g, n)
  <2>1. Places(h, Opening, i) = Places(g, Opening, n) /\ Places(h, Closing, i) = Places(g, Closing, n)
    BY <1>3
  <2> QED
    BY <1>2, <2>1, Zenon
<1>6. Depth(h, m + 1) = Depth(g, n) + Deeper(t)
  <2>1. /\ Depth(h, m + 1) = Cardinality(Places(h, Opening, m + 1)) - Cardinality(Places(h, Closing, m + 1))
        /\ Depth(g, n) = Cardinality(Places(g, Opening, n)) - Cardinality(Places(g, Closing, n))
    BY <1>2, Zenon
  <2>2. /\ Cardinality(Places(h, Opening, m + 1)) = Cardinality(Places(g, Opening, n)) + (IF t = Opening THEN 1 ELSE 0)
        /\ Cardinality(Places(h, Closing, m + 1)) = Cardinality(Places(g, Closing, n)) + (IF t = Closing THEN 1 ELSE 0)
        /\ Cardinality(Places(g, Opening, n)) \in Nat /\ Cardinality(Places(g, Closing, n)) \in Nat
    BY <1>1, <1>3
  <2> DEFINE a == Cardinality(Places(g, Opening, n))
             b == Cardinality(Places(g, Closing, n))
  <2>3. a \in Nat /\ b \in Nat /\ Depth(g, n) = a - b
    BY <2>1, <2>2
  <2>4. Depth(h, m + 1) = (a + (IF t = Opening THEN 1 ELSE 0)) - (b + (IF t = Closing THEN 1 ELSE 0))
    BY <2>1, <2>2, Zenon
  <2> HIDE DEF a, b
  <2>5. CASE t = Opening
    <3>1. (IF t = Opening THEN 1 ELSE 0) = 1 /\ (IF t = Closing THEN 1 ELSE 0) = 0 /\ Deeper(t) = 1
      BY <2>5, WordIs DEF Deeper
    <3>2. (a + 1) - (b + 0) = (a - b) + 1
      BY <2>3
    <3> QED
      BY <2>3, <2>4, <3>1, <3>2, Zenon
  <2>6. CASE t = Closing
    <3>1. (IF t = Opening THEN 1 ELSE 0) = 0 /\ (IF t = Closing THEN 1 ELSE 0) = 1 /\ Deeper(t) = -1
      BY <2>6, WordIs DEF Deeper
    <3>2. (a + 0) - (b + 1) = (a - b) + (-1)
      BY <2>3
    <3> QED
      BY <2>3, <2>4, <3>1, <3>2, Zenon
  <2>7. CASE t \notin {Opening, Closing}
    <3>1. (IF t = Opening THEN 1 ELSE 0) = 0 /\ (IF t = Closing THEN 1 ELSE 0) = 0 /\ Deeper(t) = 0
      BY <2>7 DEF Deeper
    <3>2. (a + 0) - (b + 0) = (a - b) + 0
      BY <2>3
    <3> QED
      BY <2>3, <2>4, <3>1, <3>2, Zenon
  <2> QED
    BY <2>5, <2>6, <2>7
<1> QED
  BY <1>4, <1>5, <1>6 DEF n, m

\* Every statement but the last has words and punctuation.
LEMMA StartsGrown ==
    ASSUME NEW g, NEW w, NEW t, NEW h, Grows(g, w, t, h)
    PROVE  /\ Starts(h) = Starts(g) \cup (IF Len(w) = 0 THEN {} ELSE {Len(g) + 1})
           /\ \A i \in Starts(g) : i \in 1..Len(g) /\ i + 1 \in 1..Len(g)
           /\ Len(w) # 0 => h[Len(g) + 1] = w[1]
<1> DEFINE n == Len(g)
           m == Len(h)
<1>1. /\ n \in Nat /\ m \in Nat /\ Len(w) \in Nat /\ m = n + Len(w) + 1
      /\ DOMAIN g = 1..n /\ DOMAIN h = 1..m
      /\ \A i \in 1..n : h[i] = g[i]
      /\ \A i \in 1..Len(w) : h[n + i] = w[i] /\ TokenType(w[i]) = "WORD"
      /\ \A i \in (n + 1)..(m - 1) : TokenType(h[i]) = "WORD"
      /\ h[m] = t /\ TokenType(t) # "WORD"
      /\ n > 0 => TokenType(g[n]) # "WORD"
  BY GrowsIs
<1> HIDE DEF n, m
<1>2. \A i \in Starts(g) : i \in 1..n /\ i + 1 \in 1..n
  BY <1>1 DEF Starts
<1>3. ASSUME NEW i \in 1..n PROVE i \in Starts(h) <=> i \in Starts(g)
  <2>1. i = 1 \/ h[i - 1] = g[i - 1]
    BY <1>1
  <2> QED
    BY <1>1, <2>1 DEF Starts
<1>4. n + 1 \in Starts(h) <=> Len(w) # 0
  <2>1. n = 0 \/ (h[n] = g[n] /\ TokenType(g[n]) # "WORD")
    BY <1>1
  <2>2. CASE Len(w) = 0
    BY <1>1, <2>2 DEF Starts
  <2>3. CASE Len(w) # 0
    <3>1. n + 1 \in (n + 1)..(m - 1) /\ n + 1 \in 1..m /\ (n + 1) - 1 = n
      BY <1>1, <2>3
    <3> QED
      BY <1>1, <2>1, <2>3, <3>1 DEF Starts
  <2> QED
    BY <2>2, <2>3
<1>5. ASSUME NEW i \in (n + 2)..m PROVE i \notin Starts(h)
  <2>1. CASE i = m
    BY <1>1, <2>1 DEF Starts
  <2>2. CASE i # m
    <3>1. i - 1 \in (n + 1)..(m - 1) /\ i # 1
      BY <1>1, <2>2
    <3> QED
      BY <1>1, <3>1 DEF Starts
  <2> QED
    BY <2>1, <2>2
<1>6. Starts(h) \subseteq 1..m
  BY <1>1 DEF Starts
<1>7. \A i \in 1..m : i \in 1..n \/ i = n + 1 \/ i \in (n + 2)..m
  BY <1>1
<1>8. Starts(h) = Starts(g) \cup (IF Len(w) = 0 THEN {} ELSE {n + 1})
  <2>1. ASSUME NEW i \in Starts(h) PROVE i \in Starts(g) \/ (i = n + 1 /\ Len(w) # 0)
    BY <1>3, <1>4, <1>5, <1>6, <1>7
  <2>2. Starts(g) \subseteq Starts(h)
    BY <1>2, <1>3
  <2> QED
    BY <1>4, <2>1, <2>2
<1>9. Len(w) # 0 => h[n + 1] = w[1]
  <2>1. Len(w) # 0 => 1 \in 1..Len(w)
    BY <1>1
  <2> QED
    BY <1>1, <2>1
<1> QED
  BY <1>2, <1>8, <1>9 DEF n, m

\* What is directly inside a block: one statement more if the block is open
\* and the statement is at its depth.
LEMMA InsideGrown ==
    ASSUME NEW g, NEW w, NEW t, NEW h, Grows(g, w, t, h), NEW b \in Starts(g), NEW name
    PROVE  Inside(h, b, name) =
              Inside(g, b, name) \cup
              (IF /\ Len(w) # 0 /\ w[1] = name /\ IsOpen(g, b)
                  /\ Depth(g, Len(g) + 1) = Depth(g, b) + 1
               THEN {Len(g) + 1} ELSE {})
<1> DEFINE n == Len(g)
           more == IF Len(w) = 0 THEN {} ELSE {n + 1}
           begins == /\ Len(w) # 0 /\ w[1] = name /\ IsOpen(g, b)
                     /\ Depth(g, n + 1) = Depth(g, b) + 1
<1>1. /\ n \in Nat /\ b \in 1..n /\ Starts(g) \subseteq 1..n
      /\ \A i \in 1..n : h[i] = g[i]
  BY GrowsIs, StartsGrown
<1>2. /\ Starts(h) = Starts(g) \cup more
      /\ Len(w) # 0 => h[n + 1] = w[1]
  BY StartsGrown
<1>3. \A i \in 1..(n + 1) : Depth(h, i) = Depth(g, i)
  BY DepthGrown
<1>4. \A i \in more : i = n + 1 /\ Len(w) # 0
  BY <1>1
<1> HIDE DEF n, more
<1>5. ASSUME NEW i \in Starts(g) PROVE i \in Inside(h, b, name) <=> i \in Inside(g, b, name)
  <2>1. i \in 1..n /\ i \in Starts(h) /\ Depth(h, i) = Depth(g, i) /\ Depth(h, b) = Depth(g, b)
    BY <1>1, <1>2, <1>3
  <2>2. \A j \in (b + 1)..i : (j \in Starts(h) <=> j \in Starts(g)) /\ Depth(h, j) = Depth(g, j)
    BY <1>1, <1>2, <1>3, <1>4, <2>1
  <2> QED
    BY <1>1, <2>1, <2>2 DEF Inside
<1>6. ASSUME Len(w) # 0 PROVE n + 1 \in Inside(h, b, name) <=> begins
  <2>1. /\ n + 1 \in Starts(h) /\ h[n + 1] = w[1] /\ n + 1 > b
        /\ Depth(h, n + 1) = Depth(g, n + 1) /\ Depth(h, b) = Depth(g, b)
    BY <1>1, <1>2, <1>3, <1>6 DEF more
  <2>2. (\A j \in Starts(h) : j \in (b + 1)..(n + 1) => Depth(h, j) > Depth(h, b))
        <=> IsOpen(g, b)
    <3>1. \A j \in Starts(g) : j \in (b + 1)..(n + 1) <=> j > b
      BY <1>1
    <3>2. \A j \in Starts(g) : Depth(h, j) = Depth(g, j)
      BY <1>1, <1>3
    <3>3. n + 1 \in (b + 1)..(n + 1)
      BY <1>1
    <3>4. \A j \in Starts(h) : j \in Starts(g) \/ j = n + 1
      BY <1>2, <1>4
    <3> QED
      BY <1>2, <2>1, <3>1, <3>2, <3>3, <3>4 DEF IsOpen, n
  <2> QED
    BY <1>6, <2>1, <2>2 DEF Inside
<1>7. /\ Inside(h, b, name) \subseteq Starts(g) \cup more
      /\ Inside(g, b, name) \subseteq Starts(g)
  BY <1>2 DEF Inside
<1>8. n + 1 \notin Starts(g)
  BY <1>1
<1> HIDE DEF begins
<1>9. Inside(h, b, name) = Inside(g, b, name) \cup (IF begins THEN {n + 1} ELSE {})
  <2>1. CASE Len(w) = 0
    BY <1>4, <1>5, <1>7, <2>1 DEF begins
  <2>2. CASE Len(w) # 0
    BY <1>4, <1>5, <1>6, <1>7, <2>2
  <2> QED
    BY <2>1, <2>2
<1> QED
  BY <1>9 DEF begins, n

\* A block that has not ended stays open until it does, and then stays ended.
LEMMA OpenGrown ==
    ASSUME NEW g, NEW w, NEW t, NEW h, Grows(g, w, t, h), NEW b \in Starts(g)
    PROVE  IsOpen(h, b) <=> IsOpen(g, b) /\ Depth(g, Len(g) + 1) + Deeper(t) > Depth(g, b)
<1> DEFINE n == Len(g)
           more == IF Len(w) = 0 THEN {} ELSE {n + 1}
           end == Depth(g, n + 1)
<1>1. n \in Nat /\ b \in 1..n /\ Starts(g) \subseteq 1..n
  BY GrowsIs, StartsGrown
<1>2. Starts(h) = Starts(g) \cup more
  BY StartsGrown
<1>3. /\ \A i \in 1..(n + 1) : Depth(h, i) = Depth(g, i) /\ Depth(g, i) \in Int
      /\ Depth(h, Len(h) + 1) = end + Deeper(t)
  BY DepthGrown
<1>4. \A i \in more : i = n + 1 /\ Len(w) # 0
  BY <1>1
<1>5. Len(w) = 0 => t = Closing
  BY DEF Grows
<1>6. Deeper(Closing) = -1
  BY WordIs DEF Deeper
<1>7. n + 1 \in 1..(n + 1) /\ n + 1 > b /\ end \in Int /\ Depth(h, n + 1) = end
  BY <1>1, <1>3
<1>8. Depth(h, b) = Depth(g, b) /\ Depth(g, b) \in Int
  BY <1>1, <1>3
<1>9. \A j \in Starts(g) : Depth(h, j) = Depth(g, j)
  BY <1>1, <1>3
<1>10. IsOpen(g, b) <=> end > Depth(g, b) /\ \A j \in Starts(g) : j > b => Depth(g, j) > Depth(g, b)
  BY DEF IsOpen
<1>11. IsOpen(h, b) <=> /\ end + Deeper(t) > Depth(g, b)
                        /\ \A j \in Starts(g) \cup more : j > b => Depth(h, j) > Depth(g, b)
  BY <1>2, <1>3, <1>8 DEF IsOpen
<1>12. Len(w) # 0 => more = {n + 1}
  OBVIOUS
<1> HIDE DEF n, more, end
<1>13. CASE Len(w) = 0
  <2>1. end + Deeper(t) = end - 1
    BY <1>5, <1>6, <1>7, <1>13
  <2>2. \A j \in Starts(g) \cup more : j \in Starts(g)
    BY <1>4, <1>13
  <2> DEFINE d == Depth(g, b)
             Deep == \A j \in Starts(g) : j > b => Depth(g, j) > d
  <2>3. (\A j \in Starts(g) \cup more : j > b => Depth(h, j) > d) <=> Deep
    BY <1>9, <2>2
  <2>4. end - 1 > d => end > d
    BY <1>7, <1>8
  <2> HIDE DEF d, Deep
  <2>5. (IsOpen(g, b) <=> end > d /\ Deep) /\ (IsOpen(h, b) <=> end - 1 > d /\ Deep)
    BY <1>10, <1>11, <2>1, <2>3, Zenon DEF d, Deep
  <2> QED
    BY <2>1, <2>4, <2>5, Zenon DEF d, end, n
<1>14. CASE Len(w) # 0
  <2>1. (\A j \in Starts(g) \cup more : j > b => Depth(h, j) > Depth(g, b))
        <=> end > Depth(g, b) /\ \A j \in Starts(g) : j > b => Depth(g, j) > Depth(g, b)
    BY <1>7, <1>9, <1>12, <1>14
  <2> DEFINE Deep == end > Depth(g, b) /\ \A j \in Starts(g) : j > b => Depth(g, j) > Depth(g, b)
             Deep2 == \A j \in Starts(g) \cup more : j > b => Depth(h, j) > Depth(g, b)
             Enough == end + Deeper(t) > Depth(g, b)
  <2>2. (Deep2 <=> Deep) /\ (IsOpen(g, b) <=> Deep) /\ (IsOpen(h, b) <=> Enough /\ Deep2)
    BY <1>10, <1>11, <2>1, Zenon
  <2>3. Deep => end > Depth(g, b)
    BY Zenon
  <2> HIDE DEF Deep, Deep2
  <2> QED
    BY <2>2, Zenon DEF end, n
<1> QED
  BY <1>13, <1>14 DEF n, end

\* Nothing is added to a block that has ended.
LEMMA EndedStays ==
    ASSUME NEW g, NEW w, NEW t, NEW h, Grows(g, w, t, h), NEW b \in Starts(g), ~IsOpen(g, b)
    PROVE  ~IsOpen(h, b) /\ b \in Starts(h) /\ \A name : Inside(h, b, name) = Inside(g, b, name)
<1>1. b \in Starts(h)
  BY StartsGrown
<1>2. ~IsOpen(h, b)
  BY OpenGrown
<1>3. ASSUME NEW name PROVE Inside(h, b, name) = Inside(g, b, name)
  <2>1. Inside(h, b, name) = Inside(g, b, name) \cup
           (IF /\ Len(w) # 0 /\ w[1] = name /\ IsOpen(g, b)
               /\ Depth(g, Len(g) + 1) = Depth(g, b) + 1
            THEN {Len(g) + 1} ELSE {})
    BY InsideGrown
  <2> QED
    BY <2>1
<1> QED
  BY <1>1, <1>2, <1>3

\* The blocks of the file: one more if the statement is at the top.
LEMMA BlocksGrown ==
    ASSUME NEW g, NEW w, NEW t, NEW h, Grows(g, w, t, h), NEW name
    PROVE  Blocks(h, name) = Blocks(g, name) \cup
              (IF Len(w) # 0 /\ w[1] = name /\ Depth(g, Len(g) + 1) = 0
               THEN {Len(g) + 1} ELSE {})
<1> DEFINE n == Len(g)
           more == IF Len(w) = 0 THEN {} ELSE {n + 1}
           begins == Len(w) # 0 /\ w[1] = name /\ Depth(g, n + 1) = 0
<1>1. /\ n \in Nat /\ Starts(g) \subseteq 1..n
      /\ \A i \in 1..n : h[i] = g[i]
  BY GrowsIs, StartsGrown
<1>2. /\ Starts(h) = Starts(g) \cup more
      /\ Len(w) # 0 => h[n + 1] = w[1]
  BY StartsGrown
<1>3. \A i \in 1..(n + 1) : Depth(h, i) = Depth(g, i)
  BY DepthGrown
<1>4. \A i \in more : i = n + 1 /\ Len(w) # 0
  BY <1>1
<1>5. Len(w) # 0 => n + 1 \in more
  OBVIOUS
<1> HIDE DEF n, more
<1>6. ASSUME NEW i \in Starts(g) PROVE i \in Blocks(h, name) <=> i \in Blocks(g, name)
  BY <1>1, <1>2, <1>3 DEF Blocks
<1>7. Len(w) # 0 => (n + 1 \in Blocks(h, name) <=> begins)
  BY <1>1, <1>2, <1>3, <1>5 DEF Blocks
<1>8. /\ Blocks(h, name) \subseteq Starts(g) \cup more
      /\ Blocks(g, name) \subseteq Starts(g)
  BY <1>2 DEF Blocks
<1> HIDE DEF begins
<1>9. Blocks(h, name) = Blocks(g, name) \cup (IF begins THEN {n + 1} ELSE {})
  <2>1. CASE Len(w) = 0
    BY <1>4, <1>6, <1>8, <2>1 DEF begins
  <2>2. CASE Len(w) # 0
    BY <1>4, <1>6, <1>7, <1>8, <2>2
  <2> QED
    BY <2>1, <2>2
<1> QED
  BY <1>9 DEF begins, n

\* A bounded set of places has a last one.
LEMMA MaxIs ==
    ASSUME NEW n \in Nat, NEW S \in SUBSET (1..n), S # {}
    PROVE  Max(S) \in S /\ \A i \in S : i <= Max(S)
<1> DEFINE T == {n - i : i \in S}
<1>1. T \in SUBSET Nat /\ T # {}
  <2>1. \A i \in S : n - i \in Nat
    OBVIOUS
  <2> QED
    BY <2>1, Zenon
<1>2. Min(T) \in T /\ \A m \in T : Min(T) <= m
  BY <1>1, Least
<1>3. PICK x \in S : Min(T) = n - x
  BY <1>2
<1>4. ASSUME NEW i \in S PROVE x >= i
  <2>1. n - i \in T
    BY Zenon
  <2>2. n - x <= n - i
    BY <1>2, <1>3, <2>1
  <2>3. x \in Int /\ i \in Int
    OBVIOUS
  <2> QED
    BY <2>2, <2>3
<1> QED
  BY <1>4 DEF Max

\* A later place is the last one.
LEMMA MaxWith ==
    ASSUME NEW n \in Nat, NEW S, S \subseteq 1..n, NEW m \in Nat, m > n
    PROVE  Max(S \cup {m}) = m
<1>1. /\ m \in S \cup {m} /\ \A i \in S \cup {m} : m >= i
      /\ \A x \in S \cup {m} : (\A i \in S \cup {m} : x >= i) => x = m
  OBVIOUS
<1> QED
  BY <1>1 DEF Max

\* The argument of the last directive.
LEMMA SaidGrown ==
    ASSUME NEW g, NEW w, NEW t, NEW h, Grows(g, w, t, h), NEW b \in Starts(g), NEW name, NEW default
    PROVE  /\ Inside(h, b, name) = Inside(g, b, name)
              => /\ Said(h, b, name, default) = Said(g, b, name, default)
                 /\ SaidNumber(h, b, name, default) = SaidNumber(g, b, name, default)
           /\ Inside(h, b, name) = Inside(g, b, name) \cup {Len(g) + 1} /\ Len(w) >= 2
              => /\ Said(h, b, name, default) = w[2]
                 /\ SaidNumber(h, b, name, default) = stoi[Number(name, w[2])]
<1> DEFINE n == Len(g)
           all == Inside(g, b, name)
<1>1. /\ n \in Nat /\ Len(w) \in Nat
      /\ \A i \in 1..n : h[i] = g[i]
      /\ \A i \in 1..Len(w) : h[n + i] = w[i]
  BY GrowsIs
<1>2. \A i \in Starts(g) : i \in 1..n /\ i + 1 \in 1..n
  BY StartsGrown
<1>3. all \subseteq Starts(g)
  BY DEF Inside
<1>4. all \subseteq 1..n
  BY <1>2, <1>3
<1>0. ASSUME NEW f
      PROVE  /\ Said(f, b, name, default) =
                   IF Inside(f, b, name) = {} THEN default ELSE f[Max(Inside(f, b, name)) + 1]
             /\ SaidNumber(f, b, name, default) =
                   IF Inside(f, b, name) = {} THEN default
                   ELSE stoi[Number(name, f[Max(Inside(f, b, name)) + 1])]
  BY Zenon DEF Said, SaidNumber
<1> HIDE DEF n
<1>5. ASSUME Inside(h, b, name) = all
      PROVE  /\ Said(h, b, name, default) = Said(g, b, name, default)
             /\ SaidNumber(h, b, name, default) = SaidNumber(g, b, name, default)
  <2>1. CASE all = {}
    BY <1>0, <1>5, <2>1, Zenon
  <2>2. CASE all # {}
    <3> HIDE DEF all
    <3>1. Max(all) \in all
      BY <1>1, <1>4, <2>2, MaxIs
    <3>2. h[Max(all) + 1] = g[Max(all) + 1]
      BY <1>1, <1>2, <1>3, <3>1
    <3> QED
      BY <1>0, <1>5, <2>2, <3>2, Zenon DEF all
  <2> QED
    BY <2>1, <2>2
<1>6. ASSUME Inside(h, b, name) = all \cup {n + 1}, Len(w) >= 2
      PROVE  /\ Said(h, b, name, default) = w[2]
             /\ SaidNumber(h, b, name, default) = stoi[Number(name, w[2])]
  <2> HIDE DEF all
  <2>1. Max(all \cup {n + 1}) = n + 1
    <3>1. n + 1 \in Nat /\ n + 1 > n
      BY <1>1
    <3> QED
      BY <1>1, <1>4, <3>1, MaxWith, Zenon
  <2>2. h[(n + 1) + 1] = w[2]
    <3>1. 2 \in 1..Len(w) /\ (n + 1) + 1 = n + 2
      BY <1>1, <1>6
    <3> QED
      BY <1>1, <3>1
  <2>3. all \cup {n + 1} # {}
    OBVIOUS
  <2> QED
    BY <1>0, <1>6, <2>1, <2>2, <2>3, Zenon
<1> QED
  BY <1>5, <1>6, Zenon DEF n

\* The statements of a block are statements.
LEMMA InsideIs ==
    ASSUME NEW g, NEW w, NEW t, NEW h, Grows(g, w, t, h), NEW b, NEW name
    PROVE  /\ Inside(g, b, name) \subseteq Starts(g) /\ Inside(g, b, name) \subseteq 1..Len(g)
           /\ \A i \in Inside(g, b, name) : /\ g[i] = name /\ i + 1 \in 1..Len(g)
                                            /\ h[i] = g[i] /\ h[i + 1] = g[i + 1]
<1>1. Inside(g, b, name) \subseteq Starts(g) /\ \A i \in Inside(g, b, name) : g[i] = name
  BY DEF Inside
<1>2. \A i \in Starts(g) : i \in 1..Len(g) /\ i + 1 \in 1..Len(g)
  BY StartsGrown
<1>3. \A i \in 1..Len(g) : h[i] = g[i]
  BY GrowsIs
<1> QED
  BY <1>1, <1>2, <1>3

\* The size of the last directive.
LEMMA SizeGrown ==
    ASSUME NEW g, NEW w, NEW t, NEW h, Grows(g, w, t, h), NEW b \in Starts(g), NEW name, NEW default
    PROVE  /\ Inside(h, b, name) = Inside(g, b, name)
              => SaidSize(h, b, name, default) = SaidSize(g, b, name, default)
           /\ Inside(h, b, name) = Inside(g, b, name) \cup {Len(g) + 1} /\ Len(w) >= 2
              => SaidSize(h, b, name, default) = parse_size(w[2])
<1>3. ASSUME NEW d
      PROVE  /\ Inside(h, b, name) = Inside(g, b, name)
                => /\ Said(h, b, name, d) = Said(g, b, name, d)
                   /\ SaidNumber(h, b, name, d) = SaidNumber(g, b, name, d)
             /\ Inside(h, b, name) = Inside(g, b, name) \cup {Len(g) + 1} /\ Len(w) >= 2
                => /\ Said(h, b, name, d) = w[2]
                   /\ SaidNumber(h, b, name, d) = stoi[Number(name, w[2])]
  BY SaidGrown
<1>1. /\ Inside(h, b, name) = Inside(g, b, name) => Said(h, b, name, "") = Said(g, b, name, "")
      /\ Inside(h, b, name) = Inside(g, b, name) \cup {Len(g) + 1} /\ Len(w) >= 2
         => Said(h, b, name, "") = w[2]
  BY <1>3, Zenon
<1>2. Inside(g, b, name) \cup {Len(g) + 1} # {}
  OBVIOUS
<1> QED
  BY <1>1, <1>2, Zenon DEF SaidSize

\* The host of the last listen that names one.
LEMMA HostGrown ==
    ASSUME NEW g, NEW w, NEW t, NEW h, Grows(g, w, t, h), NEW b \in Starts(g)
    PROVE  /\ Inside(h, b, "listen") = Inside(g, b, "listen") => SaidHost(h, b) = SaidHost(g, b)
           /\ Inside(h, b, "listen") = Inside(g, b, "listen") \cup {Len(g) + 1} /\ Len(w) >= 2
              => SaidHost(h, b) = IF w[2] \in DOMAIN colon THEN colon[w[2]][1] ELSE SaidHost(g, b)
<1> DEFINE n == Len(g)
           all == Inside(g, b, "listen")
           old == WithHost(g, b)
<1>1. /\ n \in Nat /\ Len(w) \in Nat
      /\ \A i \in 1..Len(w) : h[n + i] = w[i]
  BY GrowsIs
<1>2. all \subseteq 1..n /\ \A i \in all : h[i + 1] = g[i + 1]
  BY InsideIs
<1>3. old = {i \in all : g[i + 1] \in DOMAIN colon} /\ old \subseteq all
  BY DEF WithHost
<1>4. WithHost(h, b) = {i \in Inside(h, b, "listen") : h[i + 1] \in DOMAIN colon}
  BY Zenon DEF WithHost
<1>5. ASSUME NEW f
      PROVE  SaidHost(f, b) = IF WithHost(f, b) = {} THEN "0.0.0.0"
                              ELSE colon[f[Max(WithHost(f, b)) + 1]][1]
  BY Zenon DEF SaidHost
<1> HIDE DEF n, all, old
<1>6. ASSUME WithHost(h, b) = old PROVE SaidHost(h, b) = SaidHost(g, b)
  <2>1. CASE old = {}
    BY <1>5, <1>6, <2>1, Zenon DEF old
  <2>2. CASE old # {}
    <3>1. Max(old) \in old
      <4>1. old \in SUBSET (1..n)
        BY <1>2, <1>3
      <4> QED
        BY <1>1, <2>2, <4>1, MaxIs
    <3>2. h[Max(old) + 1] = g[Max(old) + 1]
      BY <1>2, <1>3, <3>1
    <3> QED
      BY <1>5, <1>6, <2>2, <3>2, Zenon DEF old
  <2> QED
    BY <2>1, <2>2
<1>7. ASSUME Inside(h, b, "listen") = all PROVE SaidHost(h, b) = SaidHost(g, b)
  <2>1. WithHost(h, b) = old
    BY <1>2, <1>3, <1>4, <1>7
  <2> QED
    BY <1>6, <2>1
<1>8. ASSUME Inside(h, b, "listen") = all \cup {n + 1}, Len(w) >= 2
      PROVE  SaidHost(h, b) = IF w[2] \in DOMAIN colon THEN colon[w[2]][1] ELSE SaidHost(g, b)
  <2>1. h[(n + 1) + 1] = w[2]
    <3>1. 2 \in 1..Len(w) /\ (n + 1) + 1 = n + 2
      BY <1>1, <1>8
    <3> QED
      BY <1>1, <3>1
  <2>2. CASE w[2] \in DOMAIN colon
    <3>1. WithHost(h, b) = old \cup {n + 1}
      BY <1>2, <1>3, <1>4, <1>8, <2>1, <2>2
    <3>2. Max(old \cup {n + 1}) = n + 1
      <4>1. n \in Nat
        BY <1>1
      <4>2. n + 1 \in Nat /\ n + 1 > n
        BY <4>1
      <4>3. old \subseteq 1..n
        BY <1>2, <1>3, Zenon
      <4> QED
        BY <4>1, <4>2, <4>3, MaxWith, Zenon
    <3>3. old \cup {n + 1} # {}
      OBVIOUS
    <3>4. SaidHost(h, b) = colon[h[(n + 1) + 1]][1]
      BY <1>5, <3>1, <3>2, <3>3, Zenon
    <3> QED
      BY <2>1, <2>2, <3>4, Zenon
  <2>3. CASE w[2] \notin DOMAIN colon
    <3>1. WithHost(h, b) = old
      BY <1>2, <1>3, <1>4, <1>8, <2>1, <2>3
    <3> QED
      BY <1>6, <2>3, <3>1, Zenon
  <2> QED
    BY <2>2, <2>3
<1> QED
  BY <1>7, <1>8, Zenon DEF n, all

\* The words of a directive that takes any number of them.
LEMMA WordsGrown ==
    ASSUME NEW g, NEW w, NEW t, NEW h, Grows(g, w, t, h), NEW b \in Starts(g), NEW name
    PROVE  /\ SaidWords(g, b, name) \subseteq 1..Len(g)
           /\ Inside(h, b, name) = Inside(g, b, name)
              => SaidWords(h, b, name) = SaidWords(g, b, name)
           /\ Inside(h, b, name) = Inside(g, b, name) \cup {Len(g) + 1} /\ Len(w) # 0
              => SaidWords(h, b, name) =
                    SaidWords(g, b, name) \cup ((Len(g) + 2)..(Len(g) + Len(w)))
<1> DEFINE n == Len(g)
           m == Len(h)
           more == IF Len(w) = 0 THEN {} ELSE {n + 1}
<1>1. /\ n \in Nat /\ m \in Nat /\ Len(w) \in Nat /\ m = n + Len(w) + 1
      /\ DOMAIN g = 1..n /\ DOMAIN h = 1..m
      /\ \A i \in 1..n : h[i] = g[i]
      /\ \A i \in (n + 1)..(m - 1) : TokenType(h[i]) = "WORD"
      /\ TokenType(h[m]) # "WORD"
      /\ n > 0 => TokenType(g[n]) # "WORD"
  BY GrowsIs
<1>2. Starts(h) = Starts(g) \cup more /\ Starts(g) \subseteq 1..n
  BY StartsGrown
<1>3. \A i \in more : i = n + 1 /\ Len(w) # 0
  BY <1>1
<1>4. Len(w) # 0 => n + 1 \in more
  OBVIOUS
<1> HIDE DEF n, m, more
<1>5. Inside(g, b, name) \subseteq 1..n
  BY <1>2 DEF Inside
<1>6. SaidWords(g, b, name) \subseteq 1..n
  BY <1>1 DEF SaidWords
<1>7. ASSUME \A i \in 1..n : i \in Inside(h, b, name) <=> i \in Inside(g, b, name),
             NEW k \in 1..n
      PROVE  k \in SaidWords(h, b, name) <=> k \in SaidWords(g, b, name)
  <2>1. k \in 1..m /\ (k \in Starts(h) <=> k \in Starts(g))
    BY <1>1, <1>2, <1>3
  <2>2. ASSUME NEW i \in Int, i < k, i >= 1
        PROVE  (\A j \in i..k : TokenType(h[j]) = "WORD") <=> (\A j \in i..k : TokenType(g[j]) = "WORD")
    <3>1. \A j \in i..k : h[j] = g[j]
      BY <1>1, <2>2
    <3> QED
      BY <3>1
  <2>3. Inside(h, b, name) \subseteq 1..m
    BY <1>1 DEF Inside, Starts
  <2>4. (\E i \in Inside(h, b, name) : i < k /\ \A j \in i..k : TokenType(h[j]) = "WORD")
        <=> (\E i \in Inside(g, b, name) : i < k /\ \A j \in i..k : TokenType(g[j]) = "WORD")
    <3>1. \A i \in 1..m : i < k => i \in 1..n /\ i \in Int /\ i >= 1
      BY <1>1
    <3>2. Inside(g, b, name) \subseteq 1..m
      BY <1>1, <1>5
    <3> QED
      BY <1>7, <2>2, <2>3, <3>1, <3>2
  <2> QED
    BY <1>1, <2>1, <2>4 DEF SaidWords
<1>8. ASSUME NEW k \in (n + 1)..m,
             \A i \in Inside(h, b, name) : i \in 1..n \/ i = n + 1
      PROVE  k \in SaidWords(h, b, name)
             <=> n + 1 \in Inside(h, b, name) /\ k \in (n + 2)..(n + Len(w)) /\ Len(w) # 0
  <2>1. ASSUME NEW i \in 1..n, \A j \in i..k : TokenType(h[j]) = "WORD" PROVE FALSE
    <3>1. n \in i..k /\ n > 0 /\ n \in 1..n
      BY <1>1
    <3> QED
      BY <1>1, <2>1, <3>1
  <2>2. k \in SaidWords(h, b, name) <=>
           /\ k \notin Starts(h) /\ n + 1 \in Inside(h, b, name) /\ n + 1 < k
           /\ \A j \in (n + 1)..k : TokenType(h[j]) = "WORD"
    BY <1>1, <1>8, <2>1 DEF SaidWords
  <2>3. (\A j \in (n + 1)..k : TokenType(h[j]) = "WORD") <=> k # m
    <3>1. k = m => k \in (n + 1)..k
      BY <1>1
    <3>2. k # m => \A j \in (n + 1)..k : j \in (n + 1)..(m - 1)
      BY <1>1
    <3> QED
      BY <1>1, <3>1, <3>2
  <2>4. n + 1 < k => k \notin Starts(h)
    BY <1>1, <1>2, <1>3
  <2>5. k \in (n + 2)..(n + Len(w)) <=> n + 1 < k /\ k # m
    BY <1>1
  <2>6. k # m /\ n + 1 < k => Len(w) # 0
    BY <1>1
  <2> QED
    BY <2>2, <2>3, <2>4, <2>5, <2>6
<1>9. SaidWords(h, b, name) \subseteq 1..m
  BY <1>1 DEF SaidWords
<1>10. \A k \in 1..m : k \in 1..n \/ k \in (n + 1)..m
  BY <1>1
<1>11. n + 1 \notin 1..n /\ 1..n \subseteq 1..m /\ \A k \in (n + 1)..m : k \notin 1..n
  BY <1>1
<1>12. ASSUME Inside(h, b, name) = Inside(g, b, name)
       PROVE  SaidWords(h, b, name) = SaidWords(g, b, name)
  <2>1. \A k \in 1..n : k \in SaidWords(h, b, name) <=> k \in SaidWords(g, b, name)
    BY <1>7, <1>12
  <2>2. \A k \in (n + 1)..m : k \notin SaidWords(h, b, name)
    BY <1>5, <1>8, <1>11, <1>12
  <2> QED
    BY <1>6, <1>9, <1>10, <1>11, <2>1, <2>2
<1>13. ASSUME Inside(h, b, name) = Inside(g, b, name) \cup {n + 1}, Len(w) # 0
       PROVE  SaidWords(h, b, name) = SaidWords(g, b, name) \cup ((n + 2)..(n + Len(w)))
  <2>1. \A i \in 1..n : i \in Inside(h, b, name) <=> i \in Inside(g, b, name)
    BY <1>11, <1>13
  <2>2. \A k \in 1..n : k \in SaidWords(h, b, name) <=> k \in SaidWords(g, b, name)
    BY <1>7, <2>1
  <2>3. \A k \in (n + 1)..m : k \in SaidWords(h, b, name) <=> k \in (n + 2)..(n + Len(w))
    BY <1>5, <1>8, <1>13
  <2>4. (n + 2)..(n + Len(w)) \subseteq (n + 1)..m
    BY <1>1
  <2>5. \A k \in (n + 2)..(n + Len(w)) : k \notin 1..n
    BY <1>1
  <2> QED
    BY <1>6, <1>9, <1>10, <1>11, <2>2, <2>3, <2>4, <2>5
<1> QED
  BY <1>6, <1>12, <1>13, Zenon DEF n

\* The places of a run that comes after all others.
EndsWithRun(T, S, a, m) ==
    a \in Nat /\ m \in Nat /\ S \subseteq 1..a /\ T = S \cup ((a + 1)..(a + m))

RanksRunOn(T, S, a, m) ==
    /\ Cardinality(S) \in Nat
    /\ Cardinality(T) = Cardinality(S) + m
    /\ \A c \in S : Rank(T, c) = Rank(S, c) /\ Rank(S, c) \in 1..Cardinality(S)
    /\ \A k \in 1..m : Rank(T, a + k) = Cardinality(S) + k

\* Each place of the run comes after those before it.
LEMMA RankRun ==
    ASSUME NEW a, NEW S, NEW m, NEW T, EndsWithRun(T, S, a, m)
    PROVE  RanksRunOn(T, S, a, m)
<1>0. a \in Nat /\ m \in Nat /\ S \subseteq 1..a /\ T = S \cup ((a + 1)..(a + m))
  BY Zenon DEF EndsWithRun
<1>1. IsFiniteSet(S) /\ Cardinality(S) \in Nat
  <2>1. IsFiniteSet(1..a)
    BY <1>0, FS_Interval
  <2> QED
    BY <1>0, <2>1, FS_Subset, FS_CardinalityType
<1>2. ASSUME NEW k \in 0..m
      PROVE  Cardinality(S \cup ((a + 1)..(a + k))) = Cardinality(S) + k
  <2>1. a + 1 \in Int /\ a + k \in Int
    BY <1>0
  <2>2. IsFiniteSet((a + 1)..(a + k)) /\ Cardinality((a + 1)..(a + k)) = k
    <3>1. /\ IsFiniteSet((a + 1)..(a + k))
          /\ Cardinality((a + 1)..(a + k)) = IF a + 1 > a + k THEN 0 ELSE (a + k) - (a + 1) + 1
      BY <2>1, FS_Interval
    <3>2. a \in Nat /\ k \in Nat
      BY <1>0
    <3> QED
      BY <3>1, <3>2
  <2>3. S \cap ((a + 1)..(a + k)) = {}
    BY <1>0
  <2> DEFINE U == (a + 1)..(a + k)
  <2> HIDE DEF U
  <2>4. Cardinality(S \cup U) = Cardinality(S) + Cardinality(U) - Cardinality(S \cap U)
    BY <1>1, <2>2, FS_Union, Zenon DEF U
  <2>5. Cardinality(S \cap U) = 0
    BY <2>3, FS_EmptySet, Zenon DEF U
  <2>6. Cardinality(S \cup U) = Cardinality(S) + k - 0
    BY <2>2, <2>4, <2>5, Zenon DEF U
  <2> QED
    BY <1>0, <1>1, <2>6 DEF U
<1>3. ASSUME NEW k \in 1..m PROVE Rank(T, a + k) = Cardinality(S) + k
  <2>1. ASSUME NEW j \in Int PROVE j \in {i \in T : i <= a + k} <=> j \in S \cup ((a + 1)..(a + k))
    BY <1>0
  <2>2. T \subseteq Int /\ S \subseteq Int /\ (a + 1)..(a + k) \subseteq Int
    BY <1>0
  <2>3. {i \in T : i <= a + k} = S \cup ((a + 1)..(a + k))
    BY <1>0, <2>1, <2>2
  <2>4. k \in 0..m
    BY <1>0
  <2>5. Cardinality(S \cup ((a + 1)..(a + k))) = Cardinality(S) + k
    BY <1>0, <1>2, <2>4
  <2>6. Rank(T, a + k) = Cardinality({i \in T : i <= a + k})
    BY DEF Rank
  <2> QED
    BY <2>3, <2>5, <2>6, Zenon
<1>4. ASSUME NEW c \in S PROVE Rank(T, c) = Rank(S, c) /\ Rank(S, c) \in 1..Cardinality(S)
  <2>1. {j \in T : j <= c} = {j \in S : j <= c}
    BY <1>0
  <2> DEFINE U == {j \in S : j <= c}
  <2>2. U \in SUBSET S /\ U # {}
    BY <1>0
  <2> HIDE DEF U
  <2>3. IsFiniteSet(U) /\ Cardinality(U) <= Cardinality(S)
    BY <1>1, <2>2, FS_Subset
  <2>4. Cardinality(U) \in Nat /\ Cardinality(U) # 0
    BY <2>2, <2>3, FS_CardinalityType, FS_EmptySet
  <2>5. Rank(T, c) = Rank(S, c) /\ Rank(S, c) = Cardinality(U)
    <3>1. Rank(T, c) = Cardinality({j \in T : j <= c})
      BY DEF Rank
    <3>2. Rank(S, c) = Cardinality({j \in S : j <= c})
      BY DEF Rank
    <3> QED
      BY <2>1, <3>1, <3>2, Zenon DEF U
  <2> QED
    BY <1>1, <2>3, <2>4, <2>5
<1>5. Cardinality(T) = Cardinality(S) + m
  BY <1>0, <1>2
<1> QED
  BY <1>1, <1>3, <1>4, <1>5 DEF RanksRunOn

-----------------------------------------------------------------------------
(* What is known of a block stays known                                     *)

\* The blocks S have begun and ended.
Shut(g, S) == \A b \in S : b \in Starts(g) /\ ~IsOpen(g, b)

\* Every error page has its two words.
PagesWhole(g) == \A i \in Starts(g) : g[i] = "error_page" => i + 2 \in 1..Len(g)

\* The same statements are inside a block.
SameInside(g, h, b) == \A name : Inside(h, b, name) = Inside(g, b, name)

\* A location with the same statements.
LEMMA LocationStays ==
    ASSUME NEW g, NEW w, NEW t, NEW h, Grows(g, w, t, h), NEW l \in Starts(g),
           SameInside(g, h, l), NEW loc, LocationMeans(g, l, loc)
    PROVE  LocationMeans(h, l, loc)
<1>1. \A i \in 1..Len(g) : h[i] = g[i]
  BY GrowsIs
<1>2. h[l + 1] = g[l + 1]
  BY <1>1, StartsGrown
<1>3. \A name : Inside(h, l, name) = Inside(g, l, name)
  BY DEF SameInside
<1>4. ASSUME NEW name, NEW default PROVE Said(h, l, name, default) = Said(g, l, name, default)
  <2>1. Inside(h, l, name) = Inside(g, l, name)
    BY <1>3
  <2> QED
    BY <2>1, SaidGrown
<1>5. SaidWords(h, l, "methods") = SaidWords(g, l, "methods")
  <2>1. Inside(h, l, "methods") = Inside(g, l, "methods")
    BY <1>3
  <2> QED
    BY <2>1, WordsGrown
<1>6. \A k \in SaidWords(g, l, "methods") : h[k] = g[k]
  BY <1>1, WordsGrown
<1> QED
  BY <1>2, <1>4, <1>5, <1>6, Zenon DEF LocationMeans

\* What a block says of its error pages.
PagesFor(f, b, c) == {i \in Inside(f, b, "error_page") : stoi[f[i + 1]] = c}

PagesMean(f, b, pages) ==
    /\ DOMAIN pages = {stoi[f[i + 1]] : i \in Inside(f, b, "error_page")}
    /\ \A c \in DOMAIN pages : pages[c] = f[Max(PagesFor(f, b, c)) + 2]

\* What it says otherwise.
ValuesMean(f, b, config) ==
    /\ config.root = Said(f, b, "root", "./www")
    /\ config.server_name = Said(f, b, "server_name", "localhost")
    /\ config.host = SaidHost(f, b)
    /\ config.port = SaidNumber(f, b, "listen", 8080)
    /\ config.client_max_body_size = SaidSize(f, b, "client_max_body_size", Megabyte)
    /\ config.rate_limit = SaidNumber(f, b, "rate_limit", 0)

\* What a server block says, in two parts.
LEMMA ServerSaysIs ==
    ASSUME NEW f, NEW b, NEW config
    PROVE  ServerSays(f, b, config) <=> ValuesMean(f, b, config) /\ PagesMean(f, b, config.error_pages)
<1>1. ServerSays(f, b, config) <=>
         /\ ValuesMean(f, b, config)
         /\ DOMAIN config.error_pages = {stoi[f[i + 1]] : i \in Inside(f, b, "error_page")}
         /\ \A c \in DOMAIN config.error_pages :
               config.error_pages[c] =
                  f[Max({i \in Inside(f, b, "error_page") : stoi[f[i + 1]] = c}) + 2]
  BY DEF ServerSays, ValuesMean
<1> QED
  BY <1>1, Zenon DEF PagesMean, PagesFor

\* Error pages with the same statements.
LEMMA PagesStay ==
    ASSUME NEW g, NEW w, NEW t, NEW h, Grows(g, w, t, h), NEW b \in Starts(g), PagesWhole(g),
           Inside(h, b, "error_page") = Inside(g, b, "error_page"),
           NEW pages, PagesMean(g, b, pages)
    PROVE  PagesMean(h, b, pages)
<1> DEFINE all == Inside(g, b, "error_page")
<1>1. /\ all \subseteq 1..Len(g) /\ Len(g) \in Nat
      /\ \A i \in all : h[i + 1] = g[i + 1] /\ i \in Starts(g) /\ g[i] = "error_page"
      /\ \A i \in 1..Len(g) : h[i] = g[i]
  BY InsideIs, GrowsIs
<1>2. \A i \in all : h[i + 2] = g[i + 2]
  BY <1>1 DEF PagesWhole
<1>3. ASSUME NEW c PROVE PagesFor(h, b, c) = PagesFor(g, b, c) /\ PagesFor(g, b, c) \subseteq all
  BY <1>1 DEF PagesFor
<1>4. DOMAIN pages = {stoi[g[i + 1]] : i \in all}
  BY DEF PagesMean
<1> HIDE DEF all
<1>5. DOMAIN pages = {stoi[h[i + 1]] : i \in all}
  <2>1. \A i \in all : stoi[h[i + 1]] = stoi[g[i + 1]]
    BY <1>1
  <2> QED
    BY <1>4, <2>1
<1>6. ASSUME NEW c \in DOMAIN pages PROVE pages[c] = h[Max(PagesFor(h, b, c)) + 2]
  <2>1. pages[c] = g[Max(PagesFor(g, b, c)) + 2]
    BY Zenon DEF PagesMean
  <2>2. PagesFor(g, b, c) # {}
    BY <1>4 DEF PagesFor, all
  <2>3. Max(PagesFor(g, b, c)) \in PagesFor(g, b, c)
    <3>1. PagesFor(g, b, c) \in SUBSET (1..Len(g))
      BY <1>1, <1>3
    <3> QED
      BY <1>1, <2>2, <3>1, MaxIs
  <2> QED
    BY <1>2, <1>3, <2>1, <2>3
<1> QED
  BY <1>5, <1>6 DEF PagesMean, all

\* A server block with the same directives.
LEMMA ServerStays ==
    ASSUME NEW g, NEW w, NEW t, NEW h, Grows(g, w, t, h), NEW b \in Starts(g), PagesWhole(g),
           \A name : name # "location" => Inside(h, b, name) = Inside(g, b, name),
           NEW s, ServerSays(g, b, s)
    PROVE  ServerSays(h, b, s)
<1>1. ASSUME NEW name, name # "location", NEW default
      PROVE  /\ Said(h, b, name, default) = Said(g, b, name, default)
             /\ SaidNumber(h, b, name, default) = SaidNumber(g, b, name, default)
  <2>1. Inside(h, b, name) = Inside(g, b, name)
    BY <1>1
  <2> QED
    BY <2>1, SaidGrown
<1>2. /\ "root" # "location" /\ "server_name" # "location" /\ "listen" # "location"
      /\ "rate_limit" # "location" /\ "error_page" # "location"
      /\ "client_max_body_size" # "location"
  OBVIOUS
<1>3. ValuesMean(g, b, s) /\ PagesMean(g, b, s.error_pages)
  BY ServerSaysIs, Zenon
<1>4. ValuesMean(h, b, s)
  <2>1. /\ Said(h, b, "root", "./www") = Said(g, b, "root", "./www")
        /\ Said(h, b, "server_name", "localhost") = Said(g, b, "server_name", "localhost")
        /\ SaidNumber(h, b, "listen", 8080) = SaidNumber(g, b, "listen", 8080)
        /\ SaidNumber(h, b, "rate_limit", 0) = SaidNumber(g, b, "rate_limit", 0)
    BY <1>1, <1>2
  <2>2. SaidHost(h, b) = SaidHost(g, b)
    <3>1. Inside(h, b, "listen") = Inside(g, b, "listen")
      BY <1>2
    <3> QED
      BY <3>1, HostGrown
  <2>3. SaidSize(h, b, "client_max_body_size", Megabyte) =
           SaidSize(g, b, "client_max_body_size", Megabyte)
    <3>1. Inside(h, b, "client_max_body_size") = Inside(g, b, "client_max_body_size")
      BY <1>2
    <3> QED
      BY <3>1, SizeGrown
  <2> QED
    BY <1>3, <2>1, <2>2, <2>3 DEF ValuesMean
<1>5. PagesMean(h, b, s.error_pages)
  BY <1>2, <1>3, PagesStay, Zenon
<1> QED
  BY <1>4, <1>5, ServerSaysIs, Zenon

\* An upstream with the same servers.
LEMMA UpstreamStays ==
    ASSUME NEW g, NEW w, NEW t, NEW h, Grows(g, w, t, h), NEW b \in Starts(g),
           SameInside(g, h, b), NEW u, UpstreamMeans(g, b, u)
    PROVE  UpstreamMeans(h, b, u)
<1>1. Inside(h, b, "server") = Inside(g, b, "server")
  BY Zenon DEF SameInside
<1>2. \A i \in Inside(g, b, "server") : h[i + 1] = g[i + 1]
  BY InsideIs
<1>3. SaidNumber(h, b, "health_check_interval", 5) = SaidNumber(g, b, "health_check_interval", 5)
  <2>1. Inside(h, b, "health_check_interval") = Inside(g, b, "health_check_interval")
    BY Zenon DEF SameInside
  <2> QED
    BY <2>1, SaidGrown
<1> QED
  BY <1>1, <1>2, <1>3, Zenon DEF UpstreamMeans

\* A block that has ended.
LEMMA ShutStays ==
    ASSUME NEW g, NEW w, NEW t, NEW h, Grows(g, w, t, h), NEW S, Shut(g, S)
    PROVE  Shut(h, S) /\ \A b \in S : b \in Starts(g) /\ SameInside(g, h, b)
<1>1. ASSUME NEW b \in S
      PROVE  b \in Starts(g) /\ b \in Starts(h) /\ ~IsOpen(h, b) /\ SameInside(g, h, b)
  <2>1. b \in Starts(g) /\ ~IsOpen(g, b)
    BY DEF Shut
  <2>2. ~IsOpen(h, b) /\ b \in Starts(h) /\ \A name : Inside(h, b, name) = Inside(g, b, name)
    BY <2>1, EndedStays
  <2> QED
    BY <2>1, <2>2, Zenon DEF SameInside
<1> QED
  BY <1>1, Zenon DEF Shut

\* Locations that have ended.
LEMMA LocationsStay ==
    ASSUME NEW g, NEW w, NEW t, NEW h, Grows(g, w, t, h), NEW places, Shut(g, places),
           NEW locations, LocationsMean(g, places, locations)
    PROVE  LocationsMean(h, places, locations)
<1>1. ASSUME NEW l \in places PROVE LocationMeans(h, l, locations[Rank(places, l)])
  <2>1. l \in Starts(g) /\ SameInside(g, h, l)
    BY ShutStays
  <2>2. LocationMeans(g, l, locations[Rank(places, l)])
    BY Zenon DEF LocationsMean
  <2> QED
    BY <2>1, <2>2, LocationStays, Zenon
<1> QED
  BY <1>1, Zenon DEF LocationsMean

\* Server blocks that have ended, and their locations.
ServersDone(g, S, servers) ==
    /\ Shut(g, S) /\ ServersMean(g, S, servers)
    /\ \A b \in S : Shut(g, Inside(g, b, "location"))

\* A server block that has ended means the same in a longer text.
LEMMA ServerDoneStays ==
    ASSUME NEW g, NEW w, NEW t, NEW h, Grows(g, w, t, h), PagesWhole(g), NEW b \in Starts(g),
           SameInside(g, h, b), Shut(g, Inside(g, b, "location")),
           NEW s, ServerMeans(g, b, s)
    PROVE  ServerMeans(h, b, s) /\ Shut(h, Inside(h, b, "location"))
<1>1. ServerSays(h, b, s)
  BY ServerStays, Zenon DEF SameInside, ServerMeans
<1>2. Inside(h, b, "location") = Inside(g, b, "location")
  BY Zenon DEF SameInside
<1>3. LocationsMean(h, Inside(g, b, "location"), s.locations)
  BY LocationsStay, Zenon DEF ServerMeans
<1>4. Shut(h, Inside(g, b, "location"))
  BY ShutStays, Zenon
<1> QED
  BY <1>1, <1>2, <1>3, <1>4, Zenon DEF ServerMeans

\* So do all that have ended.
LEMMA ServersStay ==
    ASSUME NEW g, NEW w, NEW t, NEW h, Grows(g, w, t, h), PagesWhole(g), NEW S, NEW servers,
           ServersDone(g, S, servers)
    PROVE  ServersDone(h, S, servers)
<1>1. Shut(h, S) /\ \A b \in S : b \in Starts(g) /\ SameInside(g, h, b)
  BY ShutStays, Zenon DEF ServersDone
<1>2. ASSUME NEW b \in S
      PROVE  ServerMeans(h, b, servers[Rank(S, b)]) /\ Shut(h, Inside(h, b, "location"))
  BY <1>1, ServerDoneStays, Zenon DEF ServersDone, ServersMean
<1> QED
  BY <1>1, <1>2, Zenon DEF ServersDone, ServersMean

\* Upstream blocks that have ended.
UpstreamsDone(g, S, upstreams) == Shut(g, S) /\ UpstreamsMean(g, S, upstreams)

\* Those of one name.
Named(f, S, n) == {b \in S : f[b + 1] = n}

\* What the upstream blocks say, by name.
LEMMA UpstreamsMeanIs ==
    ASSUME NEW f, NEW S, NEW upstreams
    PROVE  UpstreamsMean(f, S, upstreams) <=>
              /\ DOMAIN upstreams = {f[b + 1] : b \in S}
              /\ \A n \in DOMAIN upstreams : UpstreamMeans(f, Max(Named(f, S, n)), upstreams[n])
BY Zenon DEF UpstreamsMean, Named

\* Upstream blocks that have ended mean the same in a longer text.
LEMMA UpstreamsStay ==
    ASSUME NEW g, NEW w, NEW t, NEW h, Grows(g, w, t, h), NEW S, NEW upstreams,
           UpstreamsDone(g, S, upstreams)
    PROVE  UpstreamsDone(h, S, upstreams)
<1>1. /\ Shut(h, S)
      /\ \A b \in S : b \in Starts(g) /\ SameInside(g, h, b)
  BY ShutStays, Zenon DEF UpstreamsDone
<1>2. Len(g) \in Nat /\ \A b \in S : b \in 1..Len(g) /\ h[b + 1] = g[b + 1]
  <2>1. Len(g) \in Nat /\ \A i \in 1..Len(g) : h[i] = g[i]
    BY GrowsIs
  <2> QED
    BY <1>1, <2>1, StartsGrown
<1>3. /\ DOMAIN upstreams = {g[b + 1] : b \in S}
      /\ \A n \in DOMAIN upstreams : UpstreamMeans(g, Max(Named(g, S, n)), upstreams[n])
  BY UpstreamsMeanIs, Zenon DEF UpstreamsDone
<1>4. DOMAIN upstreams = {h[b + 1] : b \in S}
  BY <1>2, <1>3
<1>5. ASSUME NEW n \in DOMAIN upstreams
      PROVE  UpstreamMeans(h, Max(Named(h, S, n)), upstreams[n])
  <2>1. Named(h, S, n) = Named(g, S, n)
    BY <1>2 DEF Named
  <2>2. Named(g, S, n) # {} /\ Named(g, S, n) \in SUBSET S /\ Named(g, S, n) \in SUBSET (1..Len(g))
    BY <1>2, <1>3 DEF Named
  <2>3. Max(Named(g, S, n)) \in S
    BY <1>2, <2>2, MaxIs
  <2> QED
    BY <1>1, <1>3, <2>1, <2>3, UpstreamStays, Zenon
<1> QED
  BY <1>1, <1>4, <1>5, UpstreamsMeanIs, Zenon DEF UpstreamsDone

-----------------------------------------------------------------------------
(* What a statement changes in the block it is in                           *)

ServerFields == {"rule", "port", "host", "server_name", "root", "client_max_body_size",
                 "rate_limit", "error_pages", "locations"}
LocationFields == {"rule", "path", "root", "index_file", "proxy_pass", "methods", "autoindex"}
UpstreamFields == {"rule", "name", "servers", "health_check_interval"}

\* The blocks with all their fields.
WholeServer(s) == IsServer(s) /\ DOMAIN s = ServerFields
WholeLocation(l) == IsLocation(l) /\ DOMAIN l = LocationFields
WholeUpstream(u) == IsUpstream(u) /\ DOMAIN u = UpstreamFields /\ IsSeq(u.servers)

\* The directives of each.
ServerNames == {"listen", "server_name", "root", "error_page", "client_max_body_size", "rate_limit"}
LocationNames == {"root", "index", "proxy_pass", "autoindex", "methods"}
UpstreamNames == {"server", "health_check_interval"}

\* A directive of a location sets its own field.
LEMMA LocationDirectiveIs ==
    ASSUME NEW loc, DOMAIN loc = LocationFields, NEW w, w[1] \in LocationNames
    PROVE  LET new == parse_location_directive(loc, w) IN
           /\ DOMAIN new = LocationFields /\ new.path = loc.path
           /\ new.root = IF w[1] = "root" THEN w[2] ELSE loc.root
           /\ new.index_file = IF w[1] = "index" THEN w[2] ELSE loc.index_file
           /\ new.proxy_pass = IF w[1] = "proxy_pass" THEN w[2] ELSE loc.proxy_pass
           /\ new.autoindex = IF w[1] = "autoindex" THEN w[2] \in {"on", "true", "yes"}
                              ELSE loc.autoindex
           /\ new.methods = IF w[1] = "methods" THEN loc.methods \o Tail(w) ELSE loc.methods
<1>1. {"path", "root", "index_file", "proxy_pass", "methods", "autoindex"} \subseteq DOMAIN loc
  BY DEF LocationFields
<1>2. CASE w[1] = "methods"
  <2>1. parse_location_directive(loc, w) = [loc EXCEPT !.methods = loc.methods \o Tail(w)]
    BY <1>2 DEF parse_location_directive, AddMethods
  <2> QED
    BY <1>1, <1>2, <2>1
<1>3. CASE w[1] = "index"
  <2>1. parse_location_directive(loc, w) = [loc EXCEPT !.index_file = w[2]]
    BY <1>3 DEF parse_location_directive
  <2> QED
    BY <1>1, <1>3, <2>1
<1>4. CASE w[1] = "autoindex"
  <2> DEFINE value == w[2] \in {"on", "true", "yes"}
  <2>1. parse_location_directive(loc, w) = [loc EXCEPT !.autoindex = value]
    BY <1>4 DEF parse_location_directive
  <2>2. (IF w[1] = "autoindex" THEN value ELSE loc.autoindex) = value
    BY <1>4, Zenon
  <2> HIDE DEF value
  <2>3. LET new == parse_location_directive(loc, w) IN
        /\ DOMAIN new = LocationFields /\ new.path = loc.path /\ new.root = loc.root
        /\ new.index_file = loc.index_file /\ new.proxy_pass = loc.proxy_pass
        /\ new.methods = loc.methods /\ new.autoindex = value
    BY <1>1, <2>1
  <2> QED
    BY <1>4, <2>2, <2>3 DEF value
<1>5. CASE w[1] = "root"
  <2>1. parse_location_directive(loc, w) = [loc EXCEPT !["root"] = w[2]]
    BY <1>5 DEF parse_location_directive
  <2> QED
    BY <1>1, <1>5, <2>1
<1>6. CASE w[1] = "proxy_pass"
  <2>1. parse_location_directive(loc, w) = [loc EXCEPT !["proxy_pass"] = w[2]]
    BY <1>6 DEF parse_location_directive
  <2> QED
    BY <1>1, <1>6, <2>1
<1> QED
  BY <1>2, <1>3, <1>4, <1>5, <1>6, Zenon DEF LocationNames

\* So does one of a server block.
LEMMA ServerDirectiveIs ==
    ASSUME NEW s, DOMAIN s = ServerFields, NEW w, w[1] \in ServerNames
    PROVE  LET new == parse_server_directive(s, w) IN
           /\ DOMAIN new = ServerFields /\ new.locations = s.locations
           /\ new.root = IF w[1] = "root" THEN w[2] ELSE s.root
           /\ new.server_name = IF w[1] = "server_name" THEN w[2] ELSE s.server_name
           /\ new.port = IF w[1] = "listen" THEN stoi[Number("listen", w[2])] ELSE s.port
           /\ new.host = IF w[1] = "listen" /\ w[2] \in DOMAIN colon THEN colon[w[2]][1]
                         ELSE s.host
           /\ new.client_max_body_size = IF w[1] = "client_max_body_size" THEN parse_size(w[2])
                                         ELSE s.client_max_body_size
           /\ new.rate_limit = IF w[1] = "rate_limit" THEN stoi[Number("rate_limit", w[2])]
                               ELSE s.rate_limit
           /\ new.error_pages = IF w[1] = "error_page"
                                THEN Assigned(s.error_pages, stoi[w[2]], w[3]) ELSE s.error_pages
<1>1. {"port", "host", "server_name", "root", "client_max_body_size", "rate_limit",
       "error_pages", "locations"} \subseteq DOMAIN s
  BY DEF ServerFields
<1>2. CASE w[1] = "listen"
  <2>1. parse_server_directive(s, w) = parse_listen(s, w[2])
    BY <1>2 DEF parse_server_directive
  <2>2. CASE w[2] \in DOMAIN colon
    <3>1. /\ parse_listen(s, w[2]) =
                [s EXCEPT !.host = colon[w[2]][1], !.port = stoi[colon[w[2]][2]]]
          /\ Number("listen", w[2]) = colon[w[2]][2]
      BY <2>2 DEF parse_listen, Number
    <3> DEFINE host == colon[w[2]][1]
               port == stoi[colon[w[2]][2]]
    <3>2. /\ parse_server_directive(s, w) = [s EXCEPT !.host = host, !.port = port]
          /\ stoi[Number("listen", w[2])] = port
          /\ (IF w[1] = "listen" /\ w[2] \in DOMAIN colon THEN colon[w[2]][1] ELSE s.host) = host
      BY <1>2, <2>1, <2>2, <3>1, Zenon
    <3> HIDE DEF host, port
    <3> QED
      BY <1>1, <1>2, <3>2
  <2>3. CASE w[2] \notin DOMAIN colon
    <3>1. parse_listen(s, w[2]) = [s EXCEPT !.port = stoi[w[2]]] /\ Number("listen", w[2]) = w[2]
      BY <2>3 DEF parse_listen, Number
    <3> QED
      BY <1>1, <1>2, <2>1, <2>3, <3>1
  <2> QED
    BY <2>2, <2>3
<1>3. CASE w[1] = "error_page"
  <2> DEFINE pages == Assigned(s.error_pages, stoi[w[2]], w[3])
  <2>1. parse_server_directive(s, w) = [s EXCEPT !.error_pages = pages]
    BY <1>3 DEF parse_server_directive
  <2> HIDE DEF pages
  <2>2. /\ DOMAIN [s EXCEPT !.error_pages = pages] = ServerFields
        /\ [s EXCEPT !.error_pages = pages].error_pages = pages
        /\ \A k \in ServerFields : k # "error_pages" => [s EXCEPT !.error_pages = pages][k] = s[k]
    BY <1>1
  <2> QED
    BY <1>1, <1>3, <2>1, <2>2 DEF pages
<1>4. CASE w[1] = "client_max_body_size"
  <2>1. parse_server_directive(s, w) = [s EXCEPT !["client_max_body_size"] = parse_size(w[2])]
    BY <1>4 DEF parse_server_directive
  <2> QED
    BY <1>1, <1>4, <2>1
<1>5. CASE w[1] = "rate_limit"
  <2>1. parse_server_directive(s, w) = [s EXCEPT !["rate_limit"] = stoi[w[2]]]
    BY <1>5 DEF parse_server_directive
  <2>2. Number("rate_limit", w[2]) = w[2]
    BY DEF Number
  <2> QED
    BY <1>1, <1>5, <2>1, <2>2
<1>6. CASE w[1] = "server_name"
  <2>1. parse_server_directive(s, w) = [s EXCEPT !["server_name"] = w[2]]
    BY <1>6 DEF parse_server_directive
  <2> QED
    BY <1>1, <1>6, <2>1
<1>7. CASE w[1] = "root"
  <2>1. parse_server_directive(s, w) = [s EXCEPT !["root"] = w[2]]
    BY <1>7 DEF parse_server_directive
  <2> QED
    BY <1>1, <1>7, <2>1
<1> QED
  BY <1>2, <1>3, <1>4, <1>5, <1>6, <1>7, Zenon DEF ServerNames

\* And one of an upstream.
LEMMA UpstreamDirectiveIs ==
    ASSUME NEW u, DOMAIN u = UpstreamFields, NEW w, w[1] \in UpstreamNames
    PROVE  LET new == parse_upstream_directive(u, w) IN
           /\ DOMAIN new = UpstreamFields /\ new.name = u.name
           /\ new.servers = IF w[1] = "server" THEN Append(u.servers, parse_address(w[2]))
                            ELSE u.servers
           /\ new.health_check_interval =
                 IF w[1] = "health_check_interval"
                 THEN stoi[Number("health_check_interval", w[2])] ELSE u.health_check_interval
<1>1. {"name", "servers", "health_check_interval"} \subseteq DOMAIN u
  BY DEF UpstreamFields
<1>2. CASE w[1] = "server"
  <2> DEFINE servers == Append(u.servers, parse_address(w[2]))
  <2>1. parse_upstream_directive(u, w) = [u EXCEPT !.servers = servers]
    BY <1>2 DEF parse_upstream_directive
  <2> HIDE DEF servers
  <2> QED
    BY <1>1, <1>2, <2>1 DEF servers
<1>3. CASE w[1] = "health_check_interval"
  <2>1. parse_upstream_directive(u, w) = [u EXCEPT !.health_check_interval = stoi[w[2]]]
    BY <1>3 DEF parse_upstream_directive
  <2>2. Number("health_check_interval", w[2]) = w[2]
    BY DEF Number
  <2> QED
    BY <1>1, <1>3, <2>1, <2>2
<1> QED
  BY <1>2, <1>3, Zenon DEF UpstreamNames

\* What is inside an open block when the statement is directly in it.
LEMMA InsideOpen ==
    ASSUME NEW g, NEW w, NEW t, NEW h, Grows(g, w, t, h), NEW b \in Starts(g), IsOpen(g, b),
           Depth(g, Len(g) + 1) = Depth(g, b) + 1, Len(w) # 0, NEW name
    PROVE  /\ w[1] = name => Inside(h, b, name) = Inside(g, b, name) \cup {Len(g) + 1}
           /\ w[1] # name => Inside(h, b, name) = Inside(g, b, name)
<1>1. Inside(h, b, name) = Inside(g, b, name) \cup
         (IF Len(w) # 0 /\ w[1] = name /\ IsOpen(g, b) /\ Depth(g, Len(g) + 1) = Depth(g, b) + 1
          THEN {Len(g) + 1} ELSE {})
  BY InsideGrown
<1> QED
  BY <1>1

\* And what the block then says.
LEMMA InsideNow ==
    ASSUME NEW g, NEW w, NEW t, NEW h, Grows(g, w, t, h), NEW b \in Starts(g), IsOpen(g, b),
           Depth(g, Len(g) + 1) = Depth(g, b) + 1, Len(w) # 0, NEW name, NEW default
    PROVE  /\ w[1] = name => Inside(h, b, name) = Inside(g, b, name) \cup {Len(g) + 1}
           /\ w[1] # name => Inside(h, b, name) = Inside(g, b, name)
           /\ Len(w) >= 2 => /\ Said(h, b, name, default) =
                                   IF w[1] = name THEN w[2] ELSE Said(g, b, name, default)
                             /\ SaidNumber(h, b, name, default) =
                                   IF w[1] = name THEN stoi[Number(name, w[2])]
                                   ELSE SaidNumber(g, b, name, default)
                             /\ SaidSize(h, b, name, default) =
                                   IF w[1] = name THEN parse_size(w[2])
                                   ELSE SaidSize(g, b, name, default)
           /\ w[1] # name => Said(h, b, name, default) = Said(g, b, name, default)
<1>2. /\ w[1] = name => Inside(h, b, name) = Inside(g, b, name) \cup {Len(g) + 1}
      /\ w[1] # name => Inside(h, b, name) = Inside(g, b, name)
  BY InsideOpen
<1>3. /\ Inside(h, b, name) = Inside(g, b, name)
         => /\ Said(h, b, name, default) = Said(g, b, name, default)
            /\ SaidNumber(h, b, name, default) = SaidNumber(g, b, name, default)
      /\ Inside(h, b, name) = Inside(g, b, name) \cup {Len(g) + 1} /\ Len(w) >= 2
         => /\ Said(h, b, name, default) = w[2]
            /\ SaidNumber(h, b, name, default) = stoi[Number(name, w[2])]
  BY SaidGrown
<1>4. /\ Inside(h, b, name) = Inside(g, b, name)
         => SaidSize(h, b, name, default) = SaidSize(g, b, name, default)
      /\ Inside(h, b, name) = Inside(g, b, name) \cup {Len(g) + 1} /\ Len(w) >= 2
         => SaidSize(h, b, name, default) = parse_size(w[2])
  BY SizeGrown
<1> QED
  BY <1>2, <1>3, <1>4, Zenon

\* The host a server block gives after another directive.
LEMMA HostNow ==
    ASSUME NEW g, NEW w, NEW t, NEW h, Grows(g, w, t, h), NEW b \in Starts(g), IsOpen(g, b),
           Depth(g, Len(g) + 1) = Depth(g, b) + 1, Len(w) >= 2
    PROVE  SaidHost(h, b) = IF w[1] = "listen" /\ w[2] \in DOMAIN colon THEN colon[w[2]][1]
                            ELSE SaidHost(g, b)
<1>1. Len(w) # 0
  OBVIOUS
<1>2. /\ w[1] = "listen" => Inside(h, b, "listen") = Inside(g, b, "listen") \cup {Len(g) + 1}
      /\ w[1] # "listen" => Inside(h, b, "listen") = Inside(g, b, "listen")
  BY <1>1, InsideOpen
<1>3. /\ Inside(h, b, "listen") = Inside(g, b, "listen") => SaidHost(h, b) = SaidHost(g, b)
      /\ Inside(h, b, "listen") = Inside(g, b, "listen") \cup {Len(g) + 1} /\ Len(w) >= 2
         => SaidHost(h, b) = IF w[2] \in DOMAIN colon THEN colon[w[2]][1] ELSE SaidHost(g, b)
  BY HostGrown
<1> QED
  BY <1>2, <1>3, Zenon

\* The words of a statement after its name.
LEMMA TailIs ==
    ASSUME NEW w, IsSeq(w), Len(w) # 0
    PROVE  /\ IsSeq(Tail(w)) /\ Len(Tail(w)) = Len(w) - 1
           /\ \A i \in 1..(Len(w) - 1) : Tail(w)[i] = w[i + 1]
<1>1. w \in Seq(Range(w)) /\ Len(w) \in Nat
  BY SeqIs DEF IsSeq
<1>2. w # <<>>
  BY ShortAre
<1>3. /\ Tail(w) \in Seq(Range(w)) /\ Len(Tail(w)) = Len(w) - 1
      /\ \A i \in 1..(Len(w) - 1) : Tail(w)[i] = w[i + 1]
  BY <1>1, <1>2, HeadTailProperties
<1> QED
  BY <1>3, SeqIs

\* The tokens of the longer text.
Longer(g, w, h) ==
    /\ Len(g) \in Nat
    /\ \A i \in 1..Len(g) : h[i] = g[i]
    /\ \A i \in 1..Len(w) : h[Len(g) + i] = w[i]

\* One more statement makes a text longer.
LEMMA GrowsLonger ==
    ASSUME NEW g, NEW w, NEW t, NEW h, Grows(g, w, t, h)
    PROVE  Longer(g, w, h)
BY GrowsIs DEF Longer

\* The methods of a location.
MethodsMean(f, l, methods) ==
    LET all == SaidWords(f, l, "methods") IN
    /\ Len(methods) = Cardinality(all)
    /\ \A k \in all : methods[Rank(all, k)] = f[k]

\* What a location says, its methods apart.
LEMMA LocationMeansIs ==
    ASSUME NEW f, NEW l, NEW loc
    PROVE  LocationMeans(f, l, loc) <=>
              /\ loc.path = f[l + 1]
              /\ loc.root = Said(f, l, "root", "")
              /\ loc.index_file = Said(f, l, "index", "index.html")
              /\ loc.proxy_pass = Said(f, l, "proxy_pass", "")
              /\ loc.autoindex = (Said(f, l, "autoindex", "off") \in {"on", "true", "yes"})
              /\ MethodsMean(f, l, loc.methods)
BY Zenon DEF LocationMeans, MethodsMean

\* A directive adds its words to them.
LEMMA MethodsGoOn ==
    ASSUME NEW g, NEW w, NEW t, NEW h, Grows(g, w, t, h), NEW l \in Starts(g), IsOpen(g, l),
           Depth(g, Len(g) + 1) = Depth(g, l) + 1, Len(w) # 0, w[1] = "methods",
           NEW methods, IsSeq(methods), MethodsMean(g, l, methods)
    PROVE  MethodsMean(h, l, methods \o Tail(w))
<1> DEFINE n == Len(g)
           a == n + 1
           m == Len(w) - 1
           old == SaidWords(g, l, "methods")
           all == SaidWords(h, l, "methods")
           longer == methods \o Tail(w)
<1>1. /\ n \in Nat /\ Len(w) \in Nat /\ IsSeq(w)
      /\ \A i \in 1..n : h[i] = g[i]
      /\ \A i \in 1..Len(w) : h[n + i] = w[i]
  BY GrowsIs DEF Grows
<1>2. Inside(h, l, "methods") = Inside(g, l, "methods") \cup {Len(g) + 1}
  BY InsideNow
<1>3. /\ old \subseteq 1..n
      /\ all = old \cup ((n + 2)..(n + Len(w)))
  BY <1>2, WordsGrown
<1>4. Len(methods) = Cardinality(old) /\ \A k \in old : methods[Rank(old, k)] = g[k]
  BY Zenon DEF MethodsMean
<1>5. IsSeq(Tail(w)) /\ Len(Tail(w)) = m /\ \A i \in 1..m : Tail(w)[i] = w[i + 1]
  BY <1>1, TailIs
<1>6. /\ Len(longer) = Len(methods) + m
      /\ \A i \in 1..Len(methods) : longer[i] = methods[i]
      /\ \A i \in 1..m : longer[Len(methods) + i] = Tail(w)[i]
  BY <1>5, ConcatIs
<1>0. m = Len(w) - 1 /\ a = n + 1
  OBVIOUS
<1> HIDE DEF n, old, all, longer, m, a
<1>7. /\ m \in Nat /\ Len(w) = m + 1 /\ a = n + 1 /\ a \in Nat
  <2>1. Len(w) # 0
    OBVIOUS
  <2> QED
    BY <1>0, <1>1, <2>1
<1>8. all = old \cup ((a + 1)..(a + m))
  <2>1. a + 1 = n + 2 /\ a + m = n + Len(w)
    BY <1>1, <1>7
  <2> QED
    BY <1>3, <2>1, Zenon
<1>9. /\ Cardinality(old) \in Nat
      /\ Cardinality(all) = Cardinality(old) + m
      /\ \A c \in old : Rank(all, c) = Rank(old, c) /\ Rank(old, c) \in 1..Cardinality(old)
      /\ \A k \in 1..m : Rank(all, a + k) = Cardinality(old) + k
  <2>1. old \subseteq 1..a
    BY <1>1, <1>3, <1>7
  <2>2. EndsWithRun(all, old, a, m)
    BY <1>7, <1>8, <2>1, Zenon DEF EndsWithRun
  <2> QED
    <3>1. RanksRunOn(all, old, a, m)
      BY <2>2, RankRun, Zenon
    <3> QED
      BY <3>1, Zenon DEF RanksRunOn
<1>10. ASSUME NEW k \in all PROVE longer[Rank(all, k)] = h[k]
  <2>1. CASE k \in old
    <3>1. longer[Rank(all, k)] = methods[Rank(old, k)]
      BY <1>4, <1>6, <1>9, <2>1
    <3>2. h[k] = g[k]
      BY <1>1, <1>3, <2>1
    <3> QED
      BY <1>4, <2>1, <3>1, <3>2
  <2>2. CASE k \notin old
    <3>1. k \in (a + 1)..(a + m)
      BY <1>8, <2>2
    <3> DEFINE i == k - a
    <3>2. i \in 1..m /\ k = a + i /\ i + 1 \in 1..Len(w) /\ n + (i + 1) = k
      BY <1>1, <1>7, <3>1
    <3> HIDE DEF i
    <3>3. longer[Rank(all, k)] = Tail(w)[i]
      BY <1>4, <1>6, <1>9, <3>2
    <3>4. Tail(w)[i] = w[i + 1] /\ h[k] = w[i + 1]
      <4>1. h[n + (i + 1)] = w[i + 1]
        BY <1>1, <3>2, Zenon
      <4> QED
        BY <1>5, <3>2, <4>1
    <3> QED
      BY <3>3, <3>4
  <2> QED
    BY <2>1, <2>2
<1>11. Len(longer) = Cardinality(all)
  BY <1>4, <1>6, <1>9
<1> QED
  BY <1>10, <1>11, Zenon DEF MethodsMean, all, longer

\* A directive in a location.
LEMMA LocationGoesOn ==
    ASSUME NEW g, NEW w, NEW t, NEW h, Grows(g, w, t, h), NEW l \in Starts(g), IsOpen(g, l),
           Depth(g, Len(g) + 1) = Depth(g, l) + 1, Len(w) # 0, w[1] \in LocationNames,
           w[1] # "methods" => Len(w) = 2,
           NEW loc, WholeLocation(loc), LocationMeans(g, l, loc)
    PROVE  LocationMeans(h, l, parse_location_directive(loc, w))
<1> DEFINE new == parse_location_directive(loc, w)
<1>1. /\ new.path = loc.path
      /\ new.root = IF w[1] = "root" THEN w[2] ELSE loc.root
      /\ new.index_file = IF w[1] = "index" THEN w[2] ELSE loc.index_file
      /\ new.proxy_pass = IF w[1] = "proxy_pass" THEN w[2] ELSE loc.proxy_pass
      /\ new.autoindex = IF w[1] = "autoindex" THEN w[2] \in {"on", "true", "yes"}
                         ELSE loc.autoindex
      /\ new.methods = IF w[1] = "methods" THEN loc.methods \o Tail(w) ELSE loc.methods
  BY LocationDirectiveIs DEF WholeLocation
<1> HIDE DEF new
<1>2. /\ loc.path = g[l + 1]
      /\ loc.root = Said(g, l, "root", "")
      /\ loc.index_file = Said(g, l, "index", "index.html")
      /\ loc.proxy_pass = Said(g, l, "proxy_pass", "")
      /\ loc.autoindex = (Said(g, l, "autoindex", "off") \in {"on", "true", "yes"})
      /\ MethodsMean(g, l, loc.methods)
  BY LocationMeansIs, Zenon
<1>3. ASSUME NEW name, name # "methods", NEW default
      PROVE  Said(h, l, name, default) = IF w[1] = name THEN w[2] ELSE Said(g, l, name, default)
  <2>1. CASE w[1] = name
    <3>1. Len(w) >= 2
      BY <1>3, <2>1
    <3> QED
      BY <3>1, InsideNow
  <2>2. CASE w[1] # name
    BY <2>2, InsideNow
  <2> QED
    BY <2>1, <2>2
<1>4. /\ Said(h, l, "root", "") = IF w[1] = "root" THEN w[2] ELSE Said(g, l, "root", "")
      /\ Said(h, l, "index", "index.html") =
            IF w[1] = "index" THEN w[2] ELSE Said(g, l, "index", "index.html")
      /\ Said(h, l, "proxy_pass", "") =
            IF w[1] = "proxy_pass" THEN w[2] ELSE Said(g, l, "proxy_pass", "")
      /\ Said(h, l, "autoindex", "off") =
            IF w[1] = "autoindex" THEN w[2] ELSE Said(g, l, "autoindex", "off")
  <2>1. /\ "root" # "methods" /\ "index" # "methods" /\ "proxy_pass" # "methods"
        /\ "autoindex" # "methods"
    OBVIOUS
  <2> QED
    BY <1>3, <2>1, Zenon
<1>5. h[l + 1] = g[l + 1]
  <2>1. \A i \in 1..Len(g) : h[i] = g[i]
    BY GrowsIs
  <2> QED
    BY <2>1, StartsGrown
<1>6. MethodsMean(h, l, new.methods)
  <2>1. CASE w[1] = "methods"
    <3>1. IsSeq(loc.methods)
      BY DEF WholeLocation, IsLocation
    <3>2. MethodsMean(h, l, loc.methods \o Tail(w))
      BY <1>2, <2>1, <3>1, MethodsGoOn
    <3> QED
      BY <1>1, <2>1, <3>2
  <2>2. CASE w[1] # "methods"
    <3>1. Inside(h, l, "methods") = Inside(g, l, "methods")
      BY <2>2, InsideNow
    <3>2. /\ SaidWords(h, l, "methods") = SaidWords(g, l, "methods")
          /\ SaidWords(g, l, "methods") \subseteq 1..Len(g)
      BY <3>1, WordsGrown
    <3>3. \A k \in SaidWords(g, l, "methods") : h[k] = g[k]
      BY <3>2, GrowsIs
    <3>4. MethodsMean(h, l, loc.methods)
      BY <1>2, <3>2, <3>3, Zenon DEF MethodsMean
    <3> QED
      BY <1>1, <2>2, <3>4
  <2> QED
    BY <2>1, <2>2
<1>7. /\ new.path = h[l + 1] /\ new.root = Said(h, l, "root", "")
      /\ new.index_file = Said(h, l, "index", "index.html")
      /\ new.proxy_pass = Said(h, l, "proxy_pass", "")
      /\ new.autoindex = (Said(h, l, "autoindex", "off") \in {"on", "true", "yes"})
  BY <1>1, <1>2, <1>4, <1>5, Zenon
<1> QED
  BY <1>6, <1>7, LocationMeansIs, Zenon DEF new

\* A directive of a server block adds an error page or replaces it.
LEMMA PagesGoOn ==
    ASSUME NEW g, NEW w, NEW t, NEW h, Grows(g, w, t, h), NEW b \in Starts(g), IsOpen(g, b),
           Depth(g, Len(g) + 1) = Depth(g, b) + 1, Len(w) = 3, w[1] = "error_page",
           PagesWhole(g), NEW pages, PagesMean(g, b, pages)
    PROVE  PagesMean(h, b, Assigned(pages, stoi[w[2]], w[3]))
<1> DEFINE n == Len(g)
           old == Inside(g, b, "error_page")
           code == stoi[w[2]]
           new == Assigned(pages, code, w[3])
<1>1. /\ n \in Nat
      /\ \A i \in 1..n : h[i] = g[i]
      /\ \A i \in 1..Len(w) : h[n + i] = w[i]
  <2>1. Longer(g, w, h)
    BY GrowsLonger, Zenon
  <2> QED
    BY <2>1, Zenon DEF Longer
<1>2. Inside(h, b, "error_page") = old \cup {n + 1}
  <2>1. Len(w) # 0
    OBVIOUS
  <2> QED
    BY <2>1, InsideOpen
<1>3. /\ old \subseteq 1..n
      /\ \A i \in old : h[i + 1] = g[i + 1] /\ i \in Starts(g) /\ g[i] = "error_page"
  BY InsideIs
<1>4. \A i \in old : h[i + 2] = g[i + 2]
  BY <1>1, <1>3 DEF PagesWhole
<1>5. h[(n + 1) + 1] = w[2] /\ h[(n + 1) + 2] = w[3]
  <2>1. 2 \in 1..Len(w) /\ 3 \in 1..Len(w)
    OBVIOUS
  <2>2. h[n + 2] = w[2] /\ h[n + 3] = w[3]
    BY <1>1, <2>1
  <2>3. (n + 1) + 1 = n + 2 /\ (n + 1) + 2 = n + 3
    BY <1>1
  <2> QED
    BY <2>2, <2>3
<1>6. /\ DOMAIN pages = {stoi[g[i + 1]] : i \in old}
      /\ \A c \in DOMAIN pages : pages[c] = g[Max(PagesFor(g, b, c)) + 2]
  BY Zenon DEF PagesMean
<1>7. /\ DOMAIN new = {code} \cup DOMAIN pages
      /\ new[code] = w[3]
      /\ \A c \in DOMAIN pages : c # code => new[c] = pages[c]
  <2> HIDE DEF code
  <2> QED
    BY Zenon DEF Assigned
<1>8. ASSUME NEW c
      PROVE  /\ c = code => PagesFor(h, b, c) = PagesFor(g, b, c) \cup {n + 1}
             /\ c # code => PagesFor(h, b, c) = PagesFor(g, b, c)
             /\ PagesFor(g, b, c) \subseteq old
  <2> HIDE DEF old, n
  <2>1. stoi[h[(n + 1) + 1]] = code
    BY <1>5
  <2>2. \A i \in old : stoi[h[i + 1]] = stoi[g[i + 1]]
    BY <1>3
  <2>3. PagesFor(h, b, c) = {i \in old \cup {n + 1} : stoi[h[i + 1]] = c}
    BY <1>2 DEF PagesFor
  <2>4. PagesFor(g, b, c) = {i \in old : stoi[g[i + 1]] = c}
    BY DEF PagesFor, old
  <2> HIDE DEF code
  <2> QED
    BY <2>1, <2>2, <2>3, <2>4
<1> HIDE DEF n, old, code, new
<1>9. DOMAIN new = {stoi[h[i + 1]] : i \in old \cup {n + 1}}
  <2>1. \A i \in old : stoi[h[i + 1]] = stoi[g[i + 1]]
    BY <1>3
  <2>2. stoi[h[(n + 1) + 1]] = code
    BY <1>5 DEF code
  <2> QED
    BY <1>6, <1>7, <2>1, <2>2
<1>10. ASSUME NEW c \in DOMAIN new PROVE new[c] = h[Max(PagesFor(h, b, c)) + 2]
  <2>1. CASE c = code
    <3>1. Max(PagesFor(g, b, c) \cup {n + 1}) = n + 1
      <4>1. PagesFor(g, b, c) \subseteq 1..n /\ n + 1 \in Nat /\ n + 1 > n
        <5>1. PagesFor(g, b, c) \subseteq old /\ old \subseteq 1..n
          BY <1>3, <1>8, Zenon
        <5>2. n \in Nat
          BY <1>1
        <5>3. PagesFor(g, b, c) \subseteq 1..n
          BY <5>1, Zenon
        <5>4. n + 1 \in Nat /\ n + 1 > n
          BY <5>2
        <5> QED
          BY <5>3, <5>4, Zenon
      <4> QED
        BY <1>1, <4>1, MaxWith, Zenon
    <3> QED
      BY <1>5, <1>7, <1>8, <2>1, <3>1
  <2>2. CASE c # code
    <3>1. c \in DOMAIN pages /\ new[c] = g[Max(PagesFor(g, b, c)) + 2]
      BY <1>6, <1>7, <2>2
    <3>2. PagesFor(g, b, c) # {}
      BY <1>6, <3>1 DEF PagesFor, old
    <3>3. Max(PagesFor(g, b, c)) \in old
      <4>1. PagesFor(g, b, c) \in SUBSET (1..n)
        BY <1>3, <1>8
      <4>2. Max(PagesFor(g, b, c)) \in PagesFor(g, b, c)
        BY <1>1, <3>2, <4>1, MaxIs
      <4> QED
        BY <1>8, <4>2
    <3> QED
      BY <1>4, <1>8, <2>2, <3>1, <3>3
  <2> QED
    BY <2>1, <2>2
<1>11. Inside(h, b, "error_page") = old \cup {n + 1}
  BY <1>2 DEF n, old
<1> QED
  BY <1>9, <1>10, <1>11, Zenon DEF PagesMean, new, code

\* A directive in a server block.
LEMMA ServerGoesOn ==
    ASSUME NEW g, NEW w, NEW t, NEW h, Grows(g, w, t, h), NEW b \in Starts(g), IsOpen(g, b),
           Depth(g, Len(g) + 1) = Depth(g, b) + 1, w[1] \in ServerNames, PagesWhole(g),
           Len(w) = IF w[1] = "error_page" THEN 3 ELSE 2,
           NEW s, WholeServer(s), ServerSays(g, b, s)
    PROVE  ServerSays(h, b, parse_server_directive(s, w))
<1> DEFINE new == parse_server_directive(s, w)
<1>1. /\ new.root = IF w[1] = "root" THEN w[2] ELSE s.root
      /\ new.server_name = IF w[1] = "server_name" THEN w[2] ELSE s.server_name
      /\ new.port = IF w[1] = "listen" THEN stoi[Number("listen", w[2])] ELSE s.port
      /\ new.host = IF w[1] = "listen" /\ w[2] \in DOMAIN colon THEN colon[w[2]][1] ELSE s.host
      /\ new.client_max_body_size = IF w[1] = "client_max_body_size" THEN parse_size(w[2])
                                    ELSE s.client_max_body_size
      /\ new.rate_limit = IF w[1] = "rate_limit" THEN stoi[Number("rate_limit", w[2])]
                          ELSE s.rate_limit
      /\ new.error_pages = IF w[1] = "error_page"
                           THEN Assigned(s.error_pages, stoi[w[2]], w[3]) ELSE s.error_pages
  BY ServerDirectiveIs DEF WholeServer
<1> HIDE DEF new
<1>2. ValuesMean(g, b, s) /\ PagesMean(g, b, s.error_pages)
  BY ServerSaysIs, Zenon
<1>3. Len(w) >= 2 /\ Len(w) # 0
  OBVIOUS
<1>4. ASSUME NEW name, NEW default
      PROVE  /\ Said(h, b, name, default) = IF w[1] = name THEN w[2] ELSE Said(g, b, name, default)
             /\ SaidNumber(h, b, name, default) =
                   IF w[1] = name THEN stoi[Number(name, w[2])] ELSE SaidNumber(g, b, name, default)
             /\ SaidSize(h, b, name, default) =
                   IF w[1] = name THEN parse_size(w[2]) ELSE SaidSize(g, b, name, default)
  BY <1>3, InsideNow
<1>5. ValuesMean(h, b, new)
  <2>1. /\ s.root = Said(g, b, "root", "./www")
        /\ s.server_name = Said(g, b, "server_name", "localhost")
        /\ s.port = SaidNumber(g, b, "listen", 8080)
        /\ s.rate_limit = SaidNumber(g, b, "rate_limit", 0)
        /\ s.host = SaidHost(g, b)
        /\ s.client_max_body_size = SaidSize(g, b, "client_max_body_size", Megabyte)
    BY <1>2 DEF ValuesMean
  <2>2. /\ new.root = Said(h, b, "root", "./www")
        /\ new.server_name = Said(h, b, "server_name", "localhost")
    BY <1>1, <1>4, <2>1
  <2>3. new.port = SaidNumber(h, b, "listen", 8080)
    BY <1>1, <1>4, <2>1
  <2>4. new.rate_limit = SaidNumber(h, b, "rate_limit", 0)
    BY <1>1, <1>4, <2>1
  <2>5. new.host = SaidHost(h, b)
    <3>1. SaidHost(h, b) = IF w[1] = "listen" /\ w[2] \in DOMAIN colon THEN colon[w[2]][1]
                           ELSE SaidHost(g, b)
      BY <1>3, HostNow
    <3> QED
      BY <1>1, <2>1, <3>1
  <2>6. new.client_max_body_size = SaidSize(h, b, "client_max_body_size", Megabyte)
    BY <1>1, <1>4, <2>1
  <2> QED
    BY <2>2, <2>3, <2>4, <2>5, <2>6 DEF ValuesMean
<1>6. PagesMean(h, b, new.error_pages)
  <2>1. CASE w[1] = "error_page"
    <3>1. PagesMean(h, b, Assigned(s.error_pages, stoi[w[2]], w[3]))
      BY <1>2, <2>1, PagesGoOn
    <3> QED
      BY <1>1, <2>1, <3>1, Zenon
  <2>2. CASE w[1] # "error_page"
    <3>1. Inside(h, b, "error_page") = Inside(g, b, "error_page")
      BY <1>3, <2>2, InsideNow
    <3>2. PagesMean(h, b, s.error_pages)
      BY <1>2, <3>1, PagesStay
    <3> QED
      BY <1>1, <2>2, <3>2, Zenon
  <2> QED
    BY <2>1, <2>2
<1> QED
  BY <1>5, <1>6, ServerSaysIs, Zenon DEF new

\* A directive in an upstream block.
LEMMA UpstreamGoesOn ==
    ASSUME NEW g, NEW w, NEW t, NEW h, Grows(g, w, t, h), NEW b \in Starts(g), IsOpen(g, b),
           Depth(g, Len(g) + 1) = Depth(g, b) + 1, w[1] \in UpstreamNames, Len(w) = 2,
           NEW u, WholeUpstream(u), UpstreamMeans(g, b, u)
    PROVE  UpstreamMeans(h, b, parse_upstream_directive(u, w))
<1> DEFINE new == parse_upstream_directive(u, w)
           n == Len(g)
           old == Inside(g, b, "server")
<1>1. /\ new.servers = IF w[1] = "server" THEN Append(u.servers, parse_address(w[2])) ELSE u.servers
      /\ new.health_check_interval =
            IF w[1] = "health_check_interval"
            THEN stoi[Number("health_check_interval", w[2])] ELSE u.health_check_interval
  BY UpstreamDirectiveIs DEF WholeUpstream
<1>2. /\ u.health_check_interval = SaidNumber(g, b, "health_check_interval", 5)
      /\ Len(u.servers) = Cardinality(old)
      /\ \A i \in old : u.servers[Rank(old, i)] = parse_address(g[i + 1])
  BY Zenon DEF UpstreamMeans
<1>3. /\ n \in Nat /\ old \subseteq 1..n
      /\ \A i \in old : h[i + 1] = g[i + 1]
  BY GrowsIs, InsideIs
<1>4. h[(n + 1) + 1] = w[2]
  <2>1. \A i \in 1..Len(w) : h[n + i] = w[i]
    <3>1. Longer(g, w, h)
      BY GrowsLonger, Zenon
    <3> QED
      BY <3>1, Zenon DEF Longer
  <2>2. h[n + 2] = w[2] /\ (n + 1) + 1 = n + 2
    BY <1>3, <2>1
  <2> QED
    BY <2>2
<1>5. IsSeq(u.servers)
  BY DEF WholeUpstream
<1> HIDE DEF new
<1>8. new.health_check_interval = SaidNumber(h, b, "health_check_interval", 5)
  <2>1. SaidNumber(h, b, "health_check_interval", 5) =
           IF w[1] = "health_check_interval" THEN stoi[Number("health_check_interval", w[2])]
           ELSE SaidNumber(g, b, "health_check_interval", 5)
    BY InsideNow
  <2> QED
    BY <1>1, <1>2, <2>1, Zenon
<1>6. CASE w[1] = "server"
  <2>1. Inside(h, b, "server") = old \cup {n + 1}
    BY <1>6, InsideNow
  <2> HIDE DEF n, old
  <2> DEFINE all == old \cup ((n + 1)..(n + 1))
             longer == Append(u.servers, parse_address(w[2]))
  <2>2. all = old \cup {n + 1}
    BY <1>3
  <2>9. EndsWithRun(all, old, n, 1)
    BY <1>3 DEF EndsWithRun
  <2>3. /\ Cardinality(old) \in Nat
        /\ Cardinality(all) = Cardinality(old) + 1
        /\ \A c \in old : Rank(all, c) = Rank(old, c) /\ Rank(old, c) \in 1..Cardinality(old)
        /\ \A k \in 1..1 : Rank(all, n + k) = Cardinality(old) + k
    <3>1. RanksRunOn(all, old, n, 1)
      BY <2>9, RankRun, Zenon
    <3> QED
      BY <3>1, Zenon DEF RanksRunOn
  <2>4. /\ Len(longer) = Len(u.servers) + 1
        /\ \A i \in 1..Len(u.servers) : longer[i] = u.servers[i]
        /\ longer[Len(u.servers) + 1] = parse_address(w[2])
    BY <1>5, AppendIs
  <2> HIDE DEF all, longer
  <2>5. ASSUME NEW i \in all PROVE longer[Rank(all, i)] = parse_address(h[i + 1])
    <3>1. CASE i \in old
      <4>1. longer[Rank(all, i)] = u.servers[Rank(old, i)]
        BY <1>2, <2>3, <2>4, <3>1
      <4> QED
        BY <1>2, <1>3, <3>1, <4>1
    <3>2. CASE i = n + 1
      <4>1. 1 \in 1..1
        OBVIOUS
      <4>2. Rank(all, i) = Cardinality(old) + 1
        BY <2>3, <3>2, <4>1
      <4> QED
        BY <1>2, <1>4, <2>4, <3>2, <4>2
    <3> QED
      BY <2>2, <3>1, <3>2
  <2>6. Len(longer) = Cardinality(all)
    BY <1>2, <2>3, <2>4
  <2>7. new.servers = longer
    BY <1>1, <1>6 DEF longer
  <2>8. Inside(h, b, "server") = all
    BY <2>1, <2>2
  <2> QED
    BY <1>8, <2>5, <2>6, <2>7, <2>8, Zenon DEF UpstreamMeans, new
<1>7. CASE w[1] # "server"
  <2>1. Inside(h, b, "server") = old
    BY <1>7, InsideNow
  <2>2. new.servers = u.servers
    BY <1>1, <1>7
  <2> QED
    BY <1>2, <1>3, <1>8, <2>1, <2>2, Zenon DEF UpstreamMeans, new
<1> QED
  BY <1>6, <1>7

-----------------------------------------------------------------------------
(* A block begins                                                           *)

\* The block that begins with the words w, of which nothing is said yet.
Begins(g, w, h) ==
    LET p == Len(g) + 1 IN
    /\ p \in Nat \ {0} /\ p \in Starts(h) /\ h[p] = w[1] /\ (Len(w) >= 2 => h[p + 1] = w[2])
    /\ IsOpen(h, p) /\ Depth(h, p) = Depth(g, p) /\ Depth(h, Len(h) + 1) = Depth(g, p) + 1
    /\ \A b \in Starts(g) : b < p
    /\ \A name : Inside(h, p, name) = {}

\* "{" begins a block after the words of its statement.
LEMMA BeginsIs ==
    ASSUME NEW g, NEW w, NEW h, Grows(g, w, Opening, h), Len(w) # 0
    PROVE  Begins(g, w, h)
<1> DEFINE p == Len(g) + 1
<1>1. /\ Len(g) \in Nat /\ Len(w) \in Nat /\ Len(h) = Len(g) + Len(w) + 1
      /\ \A i \in 1..Len(w) : h[Len(g) + i] = w[i]
  BY GrowsIs
<1>2. /\ Starts(h) = Starts(g) \cup {p} /\ h[p] = w[1]
      /\ \A i \in Starts(g) : i \in 1..Len(g)
  BY StartsGrown
<1>3. /\ \A i \in 1..p : Depth(h, i) = Depth(g, i) /\ Depth(g, i) \in Int
      /\ Depth(h, Len(h) + 1) = Depth(g, p) + Deeper(Opening)
  BY DepthGrown
<1>4. Deeper(Opening) = 1
  BY DEF Deeper
<1>5. Len(w) >= 2 => h[p + 1] = w[2]
  <2> SUFFICES ASSUME Len(w) >= 2 PROVE h[p + 1] = w[2]
    OBVIOUS
  <2>1. 2 \in 1..Len(w) /\ p + 1 = Len(g) + 2
    BY <1>1
  <2> QED
    BY <1>1, <2>1
<1>6. p \in Nat \ {0} /\ p \in 1..p
  BY <1>1
<1>7. \A b \in Starts(g) : b < p
  BY <1>1, <1>2
<1> HIDE DEF p
<1>8. \A j \in Starts(h) : j = p \/ j < p
  BY <1>2, <1>7
<1>9. \A j \in Starts(h) : ~(j > p)
  BY <1>2, <1>6, <1>7
<1>10. IsOpen(h, p)
  <2>1. Depth(h, Len(h) + 1) > Depth(h, p)
    BY <1>3, <1>4, <1>6
  <2> QED
    BY <1>9, <2>1, Zenon DEF IsOpen
<1>11. \A name : Inside(h, p, name) = {}
  BY <1>9, Zenon DEF Inside
<1> QED
  BY <1>2, <1>3, <1>4, <1>5, <1>6, <1>7, <1>10, <1>11 DEF Begins, p

\* Nothing inside, nothing said.
LEMMA NothingSaid ==
    ASSUME NEW f, NEW b, \A name : Inside(f, b, name) = {}
    PROVE  \A name, default : /\ Said(f, b, name, default) = default
                              /\ SaidNumber(f, b, name, default) = default
                              /\ SaidSize(f, b, name, default) = default
                              /\ SaidWords(f, b, name) = {}
BY Zenon DEF Said, SaidNumber, SaidSize, SaidWords

\* A server block as it begins.
LEMMA ServerBegins ==
    ASSUME NEW f, NEW b, \A name : Inside(f, b, name) = {}
    PROVE  /\ WholeServer(ServerBlock) /\ ServerSays(f, b, ServerBlock)
           /\ LocationsMean(f, {}, ServerBlock.locations)
<1>1. /\ DOMAIN ServerBlock = ServerFields
      /\ ServerBlock.rule = "server" /\ ServerBlock.locations = <<>>
      /\ ServerBlock.root = "./www" /\ ServerBlock.server_name = "localhost"
      /\ ServerBlock.port = 8080 /\ ServerBlock.rate_limit = 0
      /\ ServerBlock.host = "0.0.0.0" /\ ServerBlock.client_max_body_size = Megabyte
      /\ ServerBlock.error_pages = <<>>
  BY DEF ServerBlock, ServerFields
<1>2. IsSeq(<<>>) /\ Len(<<>>) = 0 /\ DOMAIN <<>> = {}
  <2>1. DOMAIN <<>> = {}
    OBVIOUS
  <2> QED
    BY <2>1, ShortAre, Zenon
<1>3. WholeServer(ServerBlock)
  BY <1>1, <1>2 DEF WholeServer, IsServer, ServerFields
<1>4. /\ Said(f, b, "root", "./www") = "./www"
      /\ Said(f, b, "server_name", "localhost") = "localhost"
      /\ SaidNumber(f, b, "listen", 8080) = 8080
      /\ SaidNumber(f, b, "rate_limit", 0) = 0
      /\ SaidSize(f, b, "client_max_body_size", Megabyte) = Megabyte
  BY NothingSaid
<1>10. SaidHost(f, b) = "0.0.0.0"
  <2>1. WithHost(f, b) = {}
    BY DEF WithHost
  <2> QED
    BY <2>1, Zenon DEF SaidHost
<1>5. ValuesMean(f, b, ServerBlock)
  BY <1>1, <1>4, <1>10 DEF ValuesMean
<1>6. PagesMean(f, b, <<>>)
  <2>1. Inside(f, b, "error_page") = {}
    OBVIOUS
  <2>2. {stoi[f[i + 1]] : i \in {}} = {}
    OBVIOUS
  <2> QED
    BY <1>2, <2>1, <2>2, Zenon DEF PagesMean
<1>7. ServerSays(f, b, ServerBlock)
  <2>1. ServerBlock.error_pages = <<>>
    BY <1>1
  <2>2. PagesMean(f, b, ServerBlock.error_pages)
    BY <1>6, <2>1
  <2> QED
    BY <1>5, <2>2, ServerSaysIs, Zenon
<1>8. LocationsMean(f, {}, <<>>)
  BY <1>2, FS_EmptySet, Zenon DEF LocationsMean
<1>9. LocationsMean(f, {}, ServerBlock.locations)
  <2>1. ServerBlock.locations = <<>>
    BY <1>1
  <2> QED
    BY <1>8, <2>1
<1> QED
  BY <1>3, <1>7, <1>9, Zenon

\* A location as it begins.
LEMMA LocationBegins ==
    ASSUME NEW f, NEW b, \A name : Inside(f, b, name) = {}, f[b + 1] \in Args["location"]
    PROVE  /\ WholeLocation(LocationBlock(f[b + 1]))
           /\ LocationMeans(f, b, LocationBlock(f[b + 1]))
<1> DEFINE path == f[b + 1]
           loc == LocationBlock(path)
<1>1. /\ DOMAIN loc = LocationFields
      /\ loc.rule = "location" /\ loc.path = path /\ loc.root = "" /\ loc.index_file = "index.html"
      /\ loc.proxy_pass = "" /\ loc.methods = <<>> /\ loc.autoindex = FALSE
  <2> HIDE DEF path
  <2> QED
    BY DEF LocationBlock, LocationFields
<1> HIDE DEF loc
<1>2. IsSeq(<<>>) /\ Len(<<>>) = 0
  BY ShortAre, Zenon
<1>3. WholeLocation(loc)
  BY <1>1, <1>2 DEF WholeLocation, IsLocation, LocationFields
<1>4. /\ Said(f, b, "root", "") = "" /\ Said(f, b, "index", "index.html") = "index.html"
      /\ Said(f, b, "proxy_pass", "") = "" /\ SaidWords(f, b, "methods") = {}
      /\ Said(f, b, "autoindex", "off") = "off"
  <2>1. \A name, default : Said(f, b, name, default) = default
    BY NothingSaid
  <2>2. \A name : SaidWords(f, b, name) = {}
    BY NothingSaid
  <2> QED
    BY <2>1, <2>2, Zenon
<1>5. MethodsMean(f, b, <<>>)
  BY <1>2, <1>4, FS_EmptySet, Zenon DEF MethodsMean
<1>7. (Said(f, b, "autoindex", "off") \in {"on", "true", "yes"}) = FALSE
  <2>1. "off" \notin {"on", "true", "yes"}
    OBVIOUS
  <2>2. Said(f, b, "autoindex", "off") \notin {"on", "true", "yes"}
    BY <1>4, <2>1
  <2> QED
    BY <2>2
<1>6. LocationMeans(f, b, loc)
  BY <1>1, <1>4, <1>5, <1>7, LocationMeansIs, Zenon
<1> QED
  BY <1>3, <1>6 DEF loc

\* An upstream as it begins.
LEMMA UpstreamBegins ==
    ASSUME NEW f, NEW b, \A name : Inside(f, b, name) = {}, NEW n
    PROVE  /\ WholeUpstream(UpstreamBlock(n)) /\ UpstreamBlock(n).name = n
           /\ UpstreamMeans(f, b, UpstreamBlock(n))
<1>1. /\ DOMAIN UpstreamBlock(n) = UpstreamFields
      /\ UpstreamBlock(n).rule = "upstream" /\ UpstreamBlock(n).name = n
      /\ UpstreamBlock(n).servers = <<>> /\ UpstreamBlock(n).health_check_interval = 5
  BY DEF UpstreamBlock, UpstreamFields
<1>2. IsSeq(<<>>) /\ Len(<<>>) = 0
  BY ShortAre, Zenon
<1>3. WholeUpstream(UpstreamBlock(n))
  BY <1>1, <1>2 DEF WholeUpstream, IsUpstream, UpstreamFields
<1>5. SaidNumber(f, b, "health_check_interval", 5) = 5
  BY NothingSaid
<1>4. UpstreamMeans(f, b, UpstreamBlock(n))
  BY <1>1, <1>2, <1>5, FS_EmptySet, Zenon DEF UpstreamMeans
<1> QED
  BY <1>1, <1>3, <1>4

-----------------------------------------------------------------------------
(* One more block is done                                                   *)

\* A sequence has one element for each place of S but the last, b; one more
\* element gives every place its own.
AllButLast(S, b, s) ==
    /\ b \in Nat \ {0} /\ b \in S /\ \A c \in S \ {b} : c \in Nat \ {0} /\ c < b
    /\ IsSeq(s) /\ Len(s) = Cardinality(S \ {b})

WithLast(S, b, s, more, x) ==
    /\ Len(more) = Cardinality(S) /\ more[Rank(S, b)] = x
    /\ \A c \in S \ {b} : more[Rank(S, c)] = s[Rank(S \ {b}, c)]

\* Appending an element gives the last place its own.
LEMMA OneMore ==
    ASSUME NEW S, NEW b, NEW s, AllButLast(S, b, s), NEW x
    PROVE  WithLast(S, b, s, Append(s, x), x)
<1>0. /\ b \in Nat \ {0} /\ b \in S /\ \A c \in S \ {b} : c \in Nat \ {0} /\ c < b
      /\ IsSeq(s) /\ Len(s) = Cardinality(S \ {b})
  BY Zenon DEF AllButLast
<1> DEFINE O == S \ {b}
           a == b - 1
<1>1. a \in Nat /\ a + 1 = b /\ O \subseteq 1..a
  BY <1>0
<1>2. S = O \cup {b}
  BY <1>0
<1> HIDE DEF O, a
<1>3. EndsWithRun(S, O, a, 1)
  <2>1. (a + 1)..(a + 1) = {b}
    BY <1>1
  <2> QED
    BY <1>1, <1>2, <2>1 DEF EndsWithRun
<1>4. RanksRunOn(S, O, a, 1)
  BY <1>3, RankRun, Zenon
<1>5. /\ Cardinality(O) \in Nat /\ Cardinality(S) = Cardinality(O) + 1
      /\ \A c \in O : Rank(S, c) = Rank(O, c) /\ Rank(O, c) \in 1..Cardinality(O)
      /\ Rank(S, b) = Cardinality(O) + 1
  <2>1. 1 \in 1..1
    OBVIOUS
  <2> QED
    BY <1>1, <1>4, <2>1 DEF RanksRunOn
<1>6. /\ Len(Append(s, x)) = Len(s) + 1
      /\ \A i \in 1..Len(s) : Append(s, x)[i] = s[i]
      /\ Append(s, x)[Len(s) + 1] = x
  <2>1. IsSeq(s)
    BY <1>0, Zenon
  <2> HIDE DEF O
  <2> QED
    BY <2>1, AppendIs
<1>7. Len(s) = Cardinality(O)
  BY <1>0, Zenon DEF O
<1>8. \A c \in O : Append(s, x)[Rank(S, c)] = s[Rank(O, c)]
  BY <1>5, <1>6, <1>7
<1> QED
  BY <1>5, <1>6, <1>7, <1>8, Zenon DEF O, WithLast

-----------------------------------------------------------------------------
(* A text of whole statements, and what has been made of it                 *)

\* The statements are whole and no more blocks have ended than have begun.
WholeText(g) ==
    /\ IsSeq(g) /\ (Len(g) > 0 => TokenType(g[Len(g)]) # "WORD")
    /\ \A i \in 1..(Len(g) + 1) : Depth(g, i) >= 0
    /\ PagesWhole(g)

\* The blocks S and U have ended and are in servers and upstreams.
Done(g, S, U, servers, upstreams) == ServersDone(g, S, servers) /\ UpstreamsDone(g, U, upstreams)

\* The last block of this name has not ended.
LastOpen(g, b, name) ==
    /\ b \in Blocks(g, name) /\ IsOpen(g, b)
    /\ \A c \in Blocks(g, name) \ {b} : c < b

\* A server block whose locations L have ended.
ServerSoFar(g, b, s, L) ==
    WholeServer(s) /\ ServerSays(g, b, s) /\ Shut(g, L) /\ LocationsMean(g, L, s.locations)

AtTop(g, servers, upstreams) ==
    /\ Depth(g, Len(g) + 1) = 0
    /\ Done(g, Blocks(g, "server"), Blocks(g, "upstream"), servers, upstreams)

InServer(g, s, servers, upstreams) ==
    /\ Depth(g, Len(g) + 1) = 1
    /\ \E b : /\ LastOpen(g, b, "server")
              /\ Done(g, Blocks(g, "server") \ {b}, Blocks(g, "upstream"), servers, upstreams)
              /\ ServerSoFar(g, b, s, Inside(g, b, "location"))

LocationSoFar(g, b, l, loc) ==
    /\ l \in Inside(g, b, "location") /\ IsOpen(g, l)
    /\ \A k \in Inside(g, b, "location") \ {l} : k < l
    /\ WholeLocation(loc) /\ LocationMeans(g, l, loc)

InLocation(g, s, loc, servers, upstreams) ==
    /\ Depth(g, Len(g) + 1) = 2
    /\ \E b, l : /\ LastOpen(g, b, "server")
                 /\ Done(g, Blocks(g, "server") \ {b}, Blocks(g, "upstream"), servers, upstreams)
                 /\ ServerSoFar(g, b, s, Inside(g, b, "location") \ {l})
                 /\ LocationSoFar(g, b, l, loc)

UpstreamSoFar(g, b, u) == WholeUpstream(u) /\ u.name = g[b + 1] /\ UpstreamMeans(g, b, u)

InUpstream(g, u, servers, upstreams) ==
    /\ Depth(g, Len(g) + 1) = 1
    /\ \E b : /\ LastOpen(g, b, "upstream")
              /\ Done(g, Blocks(g, "server"), Blocks(g, "upstream") \ {b}, servers, upstreams)
              /\ UpstreamSoFar(g, b, u)

\* One more statement.
LEMMA WholeGrown ==
    ASSUME NEW g, NEW w, NEW t, NEW h, Grows(g, w, t, h), WholeText(g),
           Depth(g, Len(g) + 1) + Deeper(t) >= 0,
           Len(w) # 0 /\ w[1] = "error_page" => Len(w) >= 2
    PROVE  WholeText(h)
<1> DEFINE n == Len(g)
           m == Len(h)
<1>1. /\ n \in Nat /\ m \in Nat /\ Len(w) \in Nat /\ m = n + Len(w) + 1
      /\ \A i \in 1..n : h[i] = g[i]
      /\ h[m] = t /\ TokenType(t) # "WORD"
  BY GrowsIs
<1>2. IsSeq(h)
  BY DEF Grows
<1>3. /\ \A i \in 1..(n + 1) : Depth(h, i) = Depth(g, i)
      /\ \A i \in (n + 1)..m : Depth(h, i) = Depth(g, n + 1)
      /\ Depth(h, m + 1) = Depth(g, n + 1) + Deeper(t)
  BY DepthGrown
<1>4. \A i \in 1..(n + 1) : Depth(g, i) >= 0
  BY DEF WholeText
<1> HIDE DEF n, m
<1>5. \A i \in 1..(m + 1) : Depth(h, i) >= 0
  <2>1. \A i \in 1..(m + 1) : i \in 1..(n + 1) \/ i \in (n + 1)..m \/ i = m + 1
    BY <1>1
  <2>2. n + 1 \in 1..(n + 1)
    BY <1>1
  <2>3. Depth(h, m + 1) >= 0
    BY <1>3 DEF n
  <2> QED
    BY <1>3, <1>4, <2>1, <2>2, <2>3
<1>6. ASSUME NEW i \in Starts(h), h[i] = "error_page" PROVE i + 2 \in 1..m
  <2>1. /\ Starts(h) = Starts(g) \cup (IF Len(w) = 0 THEN {} ELSE {n + 1})
        /\ \A k \in Starts(g) : k \in 1..n
        /\ Len(w) # 0 => h[n + 1] = w[1]
    BY StartsGrown DEF n
  <2>2. CASE i \in Starts(g)
    <3>1. i + 2 \in 1..n
      BY <1>1, <1>6, <2>1, <2>2 DEF WholeText, PagesWhole, n
    <3> QED
      BY <1>1, <3>1
  <2>3. CASE i \notin Starts(g)
    <3>1. i = n + 1 /\ Len(w) # 0
      BY <1>6, <2>1, <2>3
    <3>2. Len(w) >= 2
      BY <1>6, <2>1, <3>1
    <3> QED
      BY <1>1, <3>1, <3>2
  <2> QED
    BY <2>2, <2>3
<1>7. PagesWhole(h)
  BY <1>6 DEF PagesWhole, m
<1> QED
  BY <1>1, <1>2, <1>5, <1>7 DEF WholeText, m

\* What has ended stays as it is.
LEMMA DoneStays ==
    ASSUME NEW g, NEW w, NEW t, NEW h, Grows(g, w, t, h), WholeText(g), NEW S, NEW U,
           NEW servers, NEW upstreams, Done(g, S, U, servers, upstreams)
    PROVE  Done(h, S, U, servers, upstreams)
BY ServersStay, UpstreamsStay, Zenon DEF Done, WholeText

\* No block begins at the top.
LEMMA BlocksStay ==
    ASSUME NEW g, NEW w, NEW t, NEW h, Grows(g, w, t, h), NEW name,
           Depth(g, Len(g) + 1) # 0 \/ Len(w) = 0 \/ w[1] # name
    PROVE  Blocks(h, name) = Blocks(g, name)
<1>1. Blocks(h, name) = Blocks(g, name) \cup
         (IF Len(w) # 0 /\ w[1] = name /\ Depth(g, Len(g) + 1) = 0 THEN {Len(g) + 1} ELSE {})
  BY BlocksGrown
<1> QED
  BY <1>1

\* The block at the top that has not ended.
LEMMA LastStays ==
    ASSUME NEW g, NEW w, NEW t, NEW h, Grows(g, w, t, h), NEW name, NEW b, LastOpen(g, b, name),
           Depth(g, Len(g) + 1) # 0 \/ Len(w) = 0, Depth(g, Len(g) + 1) + Deeper(t) > 0
    PROVE  LastOpen(h, b, name)
<1>1. b \in Starts(g) /\ Depth(g, b) = 0 /\ IsOpen(g, b)
  BY DEF LastOpen, Blocks
<1>2. IsOpen(h, b)
  BY <1>1, OpenGrown
<1>3. Blocks(h, name) = Blocks(g, name)
  BY BlocksStay
<1> QED
  BY <1>2, <1>3, Zenon DEF LastOpen

\* A statement one block further in, or the end of a block, is not inside b.
LEMMA NotInside ==
    ASSUME NEW g, NEW w, NEW t, NEW h, Grows(g, w, t, h), NEW b \in Starts(g),
           Len(w) = 0 \/ Depth(g, Len(g) + 1) # Depth(g, b) + 1
    PROVE  SameInside(g, h, b)
<1>1. ASSUME NEW name PROVE Inside(h, b, name) = Inside(g, b, name)
  <2>1. Inside(h, b, name) = Inside(g, b, name) \cup
           (IF Len(w) # 0 /\ w[1] = name /\ IsOpen(g, b) /\ Depth(g, Len(g) + 1) = Depth(g, b) + 1
            THEN {Len(g) + 1} ELSE {})
    BY InsideGrown
  <2> QED
    BY <2>1
<1> QED
  BY <1>1 DEF SameInside

\* A server block and its locations when nothing is said in the block itself.
LEMMA SoFarStays ==
    ASSUME NEW g, NEW w, NEW t, NEW h, Grows(g, w, t, h), WholeText(g), NEW b \in Starts(g),
           \A name : name # "location" => Inside(h, b, name) = Inside(g, b, name),
           NEW s, NEW L, ServerSoFar(g, b, s, L)
    PROVE  ServerSoFar(h, b, s, L)
<1>1. PagesWhole(g) /\ WholeServer(s) /\ ServerSays(g, b, s) /\ Shut(g, L) /\ LocationsMean(g, L, s.locations)
  BY DEF WholeText, ServerSoFar
<1>2. ServerSays(h, b, s)
  BY <1>1, ServerStays
<1>3. Shut(h, L) /\ LocationsMean(h, L, s.locations)
  BY <1>1, ShutStays, LocationsStay, Zenon
<1> QED
  BY <1>1, <1>2, <1>3 DEF ServerSoFar

-----------------------------------------------------------------------------
(* The state after one more statement                                       *)

\* A server block begins at the top.
LEMMA TopToServer ==
    ASSUME NEW g, NEW w, NEW h, Grows(g, w, Opening, h), WholeText(g), Len(w) # 0, w[1] = "server",
           NEW cs, NEW us, AtTop(g, cs, us)
    PROVE  InServer(h, ServerBlock, cs, us)
<1> DEFINE p == Len(g) + 1
<1>1. /\ p \in Nat \ {0} /\ p \in Starts(h) /\ h[p] = w[1]
      /\ IsOpen(h, p) /\ Depth(h, p) = Depth(g, p) /\ Depth(h, Len(h) + 1) = Depth(g, p) + 1
      /\ \A c \in Starts(g) : c < p
      /\ \A name : Inside(h, p, name) = {}
  BY BeginsIs DEF Begins
<1>2. /\ Depth(g, p) = 0
      /\ Done(g, Blocks(g, "server"), Blocks(g, "upstream"), cs, us)
  BY DEF AtTop
<1>3. /\ Blocks(h, "server") = Blocks(g, "server") \cup {p}
      /\ Blocks(h, "upstream") = Blocks(g, "upstream")
  <2>1. "server" # "upstream"
    OBVIOUS
  <2>2. Blocks(h, "upstream") = Blocks(g, "upstream")
    BY <2>1, BlocksStay
  <2>3. Blocks(h, "server") = Blocks(g, "server") \cup
           (IF Len(w) # 0 /\ w[1] = "server" /\ Depth(g, Len(g) + 1) = 0 THEN {Len(g) + 1} ELSE {})
    BY BlocksGrown
  <2> QED
    BY <1>2, <2>2, <2>3
<1> HIDE DEF p
<1>4. Blocks(g, "server") \subseteq Starts(g)
  BY DEF Blocks
<1>5. Blocks(h, "server") \ {p} = Blocks(g, "server")
  BY <1>1, <1>3, <1>4
<1>6. LastOpen(h, p, "server")
  BY <1>1, <1>3, <1>4, <1>5 DEF LastOpen
<1>7. Done(h, Blocks(h, "server") \ {p}, Blocks(h, "upstream"), cs, us)
  <2>1. Done(h, Blocks(g, "server"), Blocks(g, "upstream"), cs, us)
    BY <1>2, DoneStays, Zenon
  <2> QED
    BY <1>3, <1>5, <2>1
<1>8. ServerSoFar(h, p, ServerBlock, Inside(h, p, "location"))
  <2>1. Inside(h, p, "location") = {} /\ Shut(h, {})
    BY <1>1 DEF Shut
  <2>2. ServerSoFar(h, p, ServerBlock, {})
    BY <1>1, <2>1, ServerBegins, Zenon DEF ServerSoFar
  <2> QED
    BY <2>1, <2>2
<1>9. Depth(h, Len(h) + 1) = 1
  BY <1>1, <1>2
<1> QED
  BY <1>6, <1>7, <1>8, <1>9, Zenon DEF InServer

\* An upstream begins.
LEMMA TopToUpstream ==
    ASSUME NEW g, NEW w, NEW h, Grows(g, w, Opening, h), WholeText(g), Len(w) >= 2, w[1] = "upstream",
           NEW cs, NEW us, AtTop(g, cs, us)
    PROVE  InUpstream(h, UpstreamBlock(w[2]), cs, us)
<1> DEFINE p == Len(g) + 1
<1>0. Len(w) # 0 /\ Len(w) >= 2
  BY GrowsIs
<1>1. /\ p \in Nat \ {0} /\ p \in Starts(h) /\ h[p] = w[1] /\ h[p + 1] = w[2]
      /\ IsOpen(h, p) /\ Depth(h, p) = Depth(g, p) /\ Depth(h, Len(h) + 1) = Depth(g, p) + 1
      /\ \A c \in Starts(g) : c < p
      /\ \A name : Inside(h, p, name) = {}
  <2>1. Begins(g, w, h)
    BY <1>0, BeginsIs, Zenon
  <2> QED
    BY <1>0, <2>1, Zenon DEF Begins
<1>2. /\ Depth(g, p) = 0
      /\ Done(g, Blocks(g, "server"), Blocks(g, "upstream"), cs, us)
  BY DEF AtTop
<1>3. /\ Blocks(h, "upstream") = Blocks(g, "upstream") \cup {p}
      /\ Blocks(h, "server") = Blocks(g, "server")
  <2>1. "server" # "upstream"
    OBVIOUS
  <2>2. Blocks(h, "server") = Blocks(g, "server")
    BY <2>1, BlocksStay
  <2>3. Blocks(h, "upstream") = Blocks(g, "upstream") \cup
           (IF Len(w) # 0 /\ w[1] = "upstream" /\ Depth(g, Len(g) + 1) = 0 THEN {Len(g) + 1} ELSE {})
    BY BlocksGrown
  <2> QED
    BY <1>0, <1>2, <2>2, <2>3
<1> HIDE DEF p
<1>4. Blocks(g, "upstream") \subseteq Starts(g)
  BY DEF Blocks
<1>5. Blocks(h, "upstream") \ {p} = Blocks(g, "upstream")
  BY <1>1, <1>3, <1>4
<1>6. LastOpen(h, p, "upstream")
  BY <1>1, <1>3, <1>4, <1>5 DEF LastOpen
<1>7. Done(h, Blocks(h, "server"), Blocks(h, "upstream") \ {p}, cs, us)
  <2>1. Done(h, Blocks(g, "server"), Blocks(g, "upstream"), cs, us)
    BY <1>2, DoneStays, Zenon
  <2> QED
    BY <1>3, <1>5, <2>1
<1>8. UpstreamSoFar(h, p, UpstreamBlock(w[2]))
  BY <1>1, UpstreamBegins, Zenon DEF UpstreamSoFar
<1>9. Depth(h, Len(h) + 1) = 1
  BY <1>1, <1>2
<1> QED
  BY <1>6, <1>7, <1>8, <1>9, Zenon DEF InUpstream

\* A location begins in a server block.
LEMMA ServerToLocation ==
    ASSUME NEW g, NEW w, NEW h, Grows(g, w, Opening, h), WholeText(g), Len(w) >= 2, w[1] = "location",
           w[2] \in Args["location"], NEW s, NEW cs, NEW us, InServer(g, s, cs, us)
    PROVE  InLocation(h, s, LocationBlock(w[2]), cs, us)
<1> DEFINE p == Len(g) + 1
<1>0. Len(w) # 0 /\ Len(w) >= 2
  BY GrowsIs
<1>1. /\ p \in Nat \ {0} /\ p \in Starts(h) /\ h[p] = w[1] /\ h[p + 1] = w[2]
      /\ IsOpen(h, p) /\ Depth(h, p) = Depth(g, p) /\ Depth(h, Len(h) + 1) = Depth(g, p) + 1
      /\ \A c \in Starts(g) : c < p
      /\ \A name : Inside(h, p, name) = {}
  <2>1. Begins(g, w, h)
    BY <1>0, BeginsIs, Zenon
  <2> QED
    BY <1>0, <2>1, Zenon DEF Begins
<1>2. PICK b : /\ LastOpen(g, b, "server")
               /\ Done(g, Blocks(g, "server") \ {b}, Blocks(g, "upstream"), cs, us)
               /\ ServerSoFar(g, b, s, Inside(g, b, "location"))
  BY Zenon DEF InServer
<1>3. Depth(g, p) = 1 /\ b \in Starts(g) /\ IsOpen(g, b) /\ Depth(g, b) = 0
  BY <1>2 DEF InServer, LastOpen, Blocks
<1>4. Deeper(Opening) = 1
  BY DEF Deeper
<1>5. LastOpen(h, b, "server")
  BY <1>2, <1>3, <1>4, LastStays
<1>6. /\ Blocks(h, "server") = Blocks(g, "server") /\ Blocks(h, "upstream") = Blocks(g, "upstream")
  BY <1>3, BlocksStay
<1>7. Done(h, Blocks(h, "server") \ {b}, Blocks(h, "upstream"), cs, us)
  <2>1. Done(h, Blocks(g, "server") \ {b}, Blocks(g, "upstream"), cs, us)
    BY <1>2, DoneStays, Zenon
  <2> QED
    BY <1>6, <2>1
<1>8. /\ Inside(h, b, "location") = Inside(g, b, "location") \cup {p}
      /\ \A name : name # "location" => Inside(h, b, name) = Inside(g, b, name)
  <2>1. Depth(g, Len(g) + 1) = Depth(g, b) + 1
    BY <1>3
  <2> QED
    <3>1. ASSUME NEW name
          PROVE  /\ w[1] = name => Inside(h, b, name) = Inside(g, b, name) \cup {Len(g) + 1}
                 /\ w[1] # name => Inside(h, b, name) = Inside(g, b, name)
      BY <1>0, <1>3, <2>1, InsideNow
    <3> QED
      BY <3>1
<1>9. Inside(g, b, "location") \subseteq Starts(g)
  BY DEF Inside
<1> HIDE DEF p
<1>10. Inside(h, b, "location") \ {p} = Inside(g, b, "location")
  BY <1>1, <1>8, <1>9
<1>11. ServerSoFar(h, b, s, Inside(h, b, "location") \ {p})
  <2>1. ServerSoFar(h, b, s, Inside(g, b, "location"))
    BY <1>2, <1>3, <1>8, SoFarStays
  <2> QED
    BY <1>10, <2>1
<1>12. LocationSoFar(h, b, p, LocationBlock(w[2]))
  <2>1. /\ WholeLocation(LocationBlock(w[2])) /\ LocationMeans(h, p, LocationBlock(w[2]))
    BY <1>1, LocationBegins
  <2>2. \A k \in Inside(h, b, "location") \ {p} : k < p
    BY <1>1, <1>9, <1>10
  <2> QED
    BY <1>1, <1>8, <2>1, <2>2 DEF LocationSoFar
<1>13. Depth(h, Len(h) + 1) = 2
  BY <1>1, <1>3
<1> QED
  BY <1>5, <1>7, <1>11, <1>12, <1>13, Zenon DEF InLocation

\* A directive of a server block.
LEMMA ServerToServer ==
    ASSUME NEW g, NEW w, NEW h, Grows(g, w, Semicolon, h), WholeText(g), w[1] \in ServerNames,
           Len(w) = IF w[1] = "error_page" THEN 3 ELSE 2,
           NEW s, NEW cs, NEW us, InServer(g, s, cs, us), IsServer(parse_server_directive(s, w))
    PROVE  InServer(h, parse_server_directive(s, w), cs, us)
<1> DEFINE new == parse_server_directive(s, w)
<1>1. PICK b : /\ LastOpen(g, b, "server")
               /\ Done(g, Blocks(g, "server") \ {b}, Blocks(g, "upstream"), cs, us)
               /\ ServerSoFar(g, b, s, Inside(g, b, "location"))
  BY Zenon DEF InServer
<1>2. /\ Depth(g, Len(g) + 1) = 1 /\ b \in Starts(g) /\ IsOpen(g, b) /\ Depth(g, b) = 0
  BY <1>1 DEF InServer, LastOpen, Blocks
<1>3. Deeper(Semicolon) = 0
  BY WordIs DEF Deeper
<1>4. LastOpen(h, b, "server")
  BY <1>1, <1>2, <1>3, LastStays
<1>5. Blocks(h, "server") = Blocks(g, "server") /\ Blocks(h, "upstream") = Blocks(g, "upstream")
  BY <1>2, BlocksStay
<1>6. Done(h, Blocks(h, "server") \ {b}, Blocks(h, "upstream"), cs, us)
  <2>1. Done(h, Blocks(g, "server") \ {b}, Blocks(g, "upstream"), cs, us)
    BY <1>1, DoneStays, Zenon
  <2> QED
    BY <1>5, <2>1
<1>7. Depth(h, Len(h) + 1) = 1
  <2>1. Depth(h, Len(h) + 1) = Depth(g, Len(g) + 1) + Deeper(Semicolon)
    BY DepthGrown
  <2> QED
    BY <1>2, <1>3, <2>1
<1>8. Len(w) # 0 /\ w[1] # "location"
  BY DEF ServerNames
<1>9. Depth(g, Len(g) + 1) = Depth(g, b) + 1
  BY <1>2
<1>10. Inside(h, b, "location") = Inside(g, b, "location")
  <2>1. Inside(h, b, "location") = Inside(g, b, "location") \cup
           (IF Len(w) # 0 /\ w[1] = "location" /\ IsOpen(g, b) /\ Depth(g, Len(g) + 1) = Depth(g, b) + 1
            THEN {Len(g) + 1} ELSE {})
    BY <1>2, InsideGrown
  <2> QED
    BY <1>8, <2>1
<1>11. /\ WholeServer(s) /\ ServerSays(g, b, s)
       /\ Shut(g, Inside(g, b, "location")) /\ LocationsMean(g, Inside(g, b, "location"), s.locations)
  BY <1>1, Zenon DEF ServerSoFar
<1>12. DOMAIN new = ServerFields /\ new.locations = s.locations
  <2>1. DOMAIN s = ServerFields
    BY <1>11 DEF WholeServer
  <2> QED
    BY <2>1, ServerDirectiveIs
<1>13. ServerSays(h, b, new)
  BY <1>2, <1>9, <1>11, ServerGoesOn DEF WholeText
<1> HIDE DEF new
<1>14. /\ Shut(h, Inside(g, b, "location"))
       /\ LocationsMean(h, Inside(g, b, "location"), new.locations)
  <2>1. LocationsMean(h, Inside(g, b, "location"), s.locations)
    BY <1>11, LocationsStay, Zenon
  <2>2. Shut(h, Inside(g, b, "location"))
    BY <1>11, ShutStays, Zenon
  <2> QED
    BY <1>12, <2>1, <2>2
<1>15. WholeServer(new)
  BY <1>12 DEF WholeServer, new
<1>16. ServerSoFar(h, b, new, Inside(h, b, "location"))
  BY <1>10, <1>13, <1>14, <1>15 DEF ServerSoFar
<1>17. InServer(h, new, cs, us)
  BY <1>4, <1>6, <1>7, <1>16, Zenon DEF InServer
<1> QED
  BY <1>17 DEF new

\* A directive of a location.
LEMMA LocationToLocation ==
    ASSUME NEW g, NEW w, NEW h, Grows(g, w, Semicolon, h), WholeText(g), w[1] \in LocationNames,
           Len(w) # 0, w[1] # "methods" => Len(w) = 2,
           NEW s, NEW loc, NEW cs, NEW us, InLocation(g, s, loc, cs, us),
           IsLocation(parse_location_directive(loc, w))
    PROVE  InLocation(h, s, parse_location_directive(loc, w), cs, us)
<1> DEFINE new == parse_location_directive(loc, w)
<1>1. PICK b, l : /\ LastOpen(g, b, "server")
                  /\ Done(g, Blocks(g, "server") \ {b}, Blocks(g, "upstream"), cs, us)
                  /\ ServerSoFar(g, b, s, Inside(g, b, "location") \ {l})
                  /\ LocationSoFar(g, b, l, loc)
  BY Zenon DEF InLocation
<1>2. /\ Depth(g, Len(g) + 1) = 2 /\ b \in Starts(g) /\ IsOpen(g, b) /\ Depth(g, b) = 0
  BY <1>1 DEF InLocation, LastOpen, Blocks
<1>3. Deeper(Semicolon) = 0
  BY WordIs DEF Deeper
<1>4. LastOpen(h, b, "server")
  BY <1>1, <1>2, <1>3, LastStays
<1>5. Blocks(h, "server") = Blocks(g, "server") /\ Blocks(h, "upstream") = Blocks(g, "upstream")
  BY <1>2, BlocksStay
<1>6. Done(h, Blocks(h, "server") \ {b}, Blocks(h, "upstream"), cs, us)
  <2>1. Done(h, Blocks(g, "server") \ {b}, Blocks(g, "upstream"), cs, us)
    BY <1>1, DoneStays, Zenon
  <2> QED
    BY <1>5, <2>1
<1>7. Depth(h, Len(h) + 1) = 2
  <2>1. Depth(h, Len(h) + 1) = Depth(g, Len(g) + 1) + Deeper(Semicolon)
    BY DepthGrown
  <2> QED
    BY <1>2, <1>3, <2>1
<1>8. \A name : Inside(h, b, name) = Inside(g, b, name)
  <2>1. Depth(g, Len(g) + 1) # Depth(g, b) + 1
    BY <1>2
  <2> QED
    BY <1>2, <2>1, NotInside DEF SameInside
<1>9. ServerSoFar(h, b, s, Inside(h, b, "location") \ {l})
  <2>1. ServerSoFar(h, b, s, Inside(g, b, "location") \ {l})
    BY <1>1, <1>2, <1>8, SoFarStays
  <2> QED
    BY <1>8, <2>1
<1>10. /\ l \in Inside(g, b, "location") /\ IsOpen(g, l)
       /\ \A k \in Inside(g, b, "location") \ {l} : k < l
       /\ WholeLocation(loc) /\ LocationMeans(g, l, loc)
  BY <1>1, Zenon DEF LocationSoFar
<1>11. l \in Starts(g) /\ Depth(g, l) = 1
  BY <1>2, <1>10 DEF Inside
<1>12. Depth(g, Len(g) + 1) = Depth(g, l) + 1
  BY <1>2, <1>11
<1>13. IsOpen(h, l)
  BY <1>2, <1>3, <1>10, <1>11, OpenGrown
<1>14. LocationMeans(h, l, new)
  BY <1>10, <1>11, <1>12, LocationGoesOn
<1>15. WholeLocation(new)
  <2>1. DOMAIN loc = LocationFields
    BY <1>10 DEF WholeLocation
  <2>2. DOMAIN new = LocationFields
    BY <2>1, LocationDirectiveIs
  <2> QED
    BY <2>2 DEF WholeLocation
<1> HIDE DEF new
<1>16. LocationSoFar(h, b, l, new)
  BY <1>8, <1>10, <1>13, <1>14, <1>15, Zenon DEF LocationSoFar
<1>17. InLocation(h, s, new, cs, us)
  BY <1>4, <1>6, <1>7, <1>9, <1>16, Zenon DEF InLocation
<1> QED
  BY <1>17 DEF new

\* A directive of an upstream.
LEMMA UpstreamToUpstream ==
    ASSUME NEW g, NEW w, NEW h, Grows(g, w, Semicolon, h), WholeText(g), w[1] \in UpstreamNames,
           Len(w) = 2, NEW u, NEW cs, NEW us, InUpstream(g, u, cs, us),
           IsUpstream(parse_upstream_directive(u, w))
    PROVE  InUpstream(h, parse_upstream_directive(u, w), cs, us)
<1> DEFINE new == parse_upstream_directive(u, w)
<1>1. PICK b : /\ LastOpen(g, b, "upstream")
               /\ Done(g, Blocks(g, "server"), Blocks(g, "upstream") \ {b}, cs, us)
               /\ UpstreamSoFar(g, b, u)
  BY Zenon DEF InUpstream
<1>2. /\ Depth(g, Len(g) + 1) = 1 /\ b \in Starts(g) /\ IsOpen(g, b) /\ Depth(g, b) = 0
  BY <1>1 DEF InUpstream, LastOpen, Blocks
<1>3. Deeper(Semicolon) = 0
  BY WordIs DEF Deeper
<1>4. LastOpen(h, b, "upstream")
  BY <1>1, <1>2, <1>3, LastStays
<1>5. Blocks(h, "server") = Blocks(g, "server") /\ Blocks(h, "upstream") = Blocks(g, "upstream")
  BY <1>2, BlocksStay
<1>6. Done(h, Blocks(h, "server"), Blocks(h, "upstream") \ {b}, cs, us)
  <2>1. Done(h, Blocks(g, "server"), Blocks(g, "upstream") \ {b}, cs, us)
    BY <1>1, DoneStays, Zenon
  <2> QED
    BY <1>5, <2>1
<1>7. Depth(h, Len(h) + 1) = 1
  <2>1. Depth(h, Len(h) + 1) = Depth(g, Len(g) + 1) + Deeper(Semicolon)
    BY DepthGrown
  <2> QED
    BY <1>2, <1>3, <2>1
<1>8. WholeUpstream(u) /\ u.name = g[b + 1] /\ UpstreamMeans(g, b, u)
  BY <1>1, Zenon DEF UpstreamSoFar
<1>9. Depth(g, Len(g) + 1) = Depth(g, b) + 1
  BY <1>2
<1>10. UpstreamMeans(h, b, new)
  BY <1>2, <1>8, <1>9, UpstreamGoesOn
<1>11. /\ DOMAIN new = UpstreamFields /\ new.name = u.name
       /\ new.servers = u.servers \/ \E x : new.servers = Append(u.servers, x)
  <2>1. DOMAIN u = UpstreamFields
    BY <1>8 DEF WholeUpstream
  <2>2. /\ DOMAIN new = UpstreamFields /\ new.name = u.name
        /\ new.servers = IF w[1] = "server" THEN Append(u.servers, parse_address(w[2]))
                         ELSE u.servers
    BY <2>1, UpstreamDirectiveIs
  <2> QED
    BY <2>2, Zenon
<1>12. IsSeq(new.servers)
  <2>1. IsSeq(u.servers)
    BY <1>8 DEF WholeUpstream
  <2>2. \A x : IsSeq(Append(u.servers, x))
    BY <2>1, AppendIs
  <2> HIDE DEF new
  <2> QED
    BY <1>11, <2>1, <2>2
<1>13. WholeUpstream(new)
  BY <1>11, <1>12 DEF WholeUpstream
<1>14. new.name = h[b + 1]
  <2>1. /\ \A i \in 1..Len(g) : h[i] = g[i]
        /\ b + 1 \in 1..Len(g)
    BY <1>2, GrowsIs, StartsGrown
  <2> QED
    BY <1>8, <1>11, <2>1
<1> HIDE DEF new
<1>15. UpstreamSoFar(h, b, new)
  BY <1>10, <1>13, <1>14, Zenon DEF UpstreamSoFar
<1>16. InUpstream(h, new, cs, us)
  BY <1>4, <1>6, <1>7, <1>15, Zenon DEF InUpstream
<1> QED
  BY <1>16 DEF new

\* A block at the top ends.
LEMMA EndsAtTop ==
    ASSUME NEW g, NEW w, NEW h, Grows(g, w, Closing, h), Len(w) = 0,
           Depth(g, Len(g) + 1) = 1, NEW name, NEW b, LastOpen(g, b, name)
    PROVE  /\ Depth(h, Len(h) + 1) = 0 /\ ~IsOpen(h, b) /\ SameInside(g, h, b)
           /\ b \in Starts(g) /\ b \in Starts(h)
           /\ \A other : Blocks(h, other) = Blocks(g, other)
<1>1. b \in Starts(g) /\ IsOpen(g, b) /\ Depth(g, b) = 0
  BY DEF LastOpen, Blocks
<1>2. Deeper(Closing) = -1
  BY WordIs DEF Deeper
<1>3. Depth(h, Len(h) + 1) = Depth(g, Len(g) + 1) + Deeper(Closing)
  BY DepthGrown
<1>4. ~IsOpen(h, b)
  BY <1>1, <1>2, OpenGrown
<1>5. SameInside(g, h, b)
  BY <1>1, NotInside
<1>6. b \in Starts(h)
  BY <1>1, StartsGrown
<1>7. \A other : Blocks(h, other) = Blocks(g, other)
  BY BlocksStay
<1> QED
  BY <1>1, <1>2, <1>3, <1>4, <1>5, <1>6, <1>7

\* A server block ends.
LEMMA ServerToTop ==
    ASSUME NEW g, NEW w, NEW h, Grows(g, w, Closing, h), Len(w) = 0, WholeText(g),
           NEW s, NEW cs, IsSeq(cs), NEW us, InServer(g, s, cs, us)
    PROVE  AtTop(h, Append(cs, s), us)
<1> DEFINE S == Blocks(g, "server")
<1>1. PICK b : /\ LastOpen(g, b, "server")
               /\ Done(g, S \ {b}, Blocks(g, "upstream"), cs, us)
               /\ ServerSoFar(g, b, s, Inside(g, b, "location"))
  BY Zenon DEF InServer
<1>2. Depth(g, Len(g) + 1) = 1
  BY DEF InServer
<1>3. /\ Depth(h, Len(h) + 1) = 0 /\ ~IsOpen(h, b) /\ SameInside(g, h, b)
      /\ b \in Starts(g) /\ b \in Starts(h)
      /\ \A other : Blocks(h, other) = Blocks(g, other)
  BY <1>1, <1>2, EndsAtTop
<1>4. Done(h, S \ {b}, Blocks(g, "upstream"), cs, us)
  BY <1>1, DoneStays, Zenon
<1>5. ServerMeans(h, b, s) /\ Shut(h, Inside(h, b, "location"))
  <2>1. ServerMeans(g, b, s) /\ Shut(g, Inside(g, b, "location"))
    BY <1>1, Zenon DEF ServerSoFar, ServerMeans
  <2> QED
    BY <1>3, <2>1, ServerDoneStays DEF WholeText
<1>6. S \subseteq Starts(g) /\ \A c \in Starts(g) : c \in Nat \ {0}
  <2>1. \A c \in Starts(g) : c \in 1..Len(g)
    BY StartsGrown
  <2>2. Len(g) \in Nat
    BY GrowsIs
  <2> QED
    BY <2>1, <2>2 DEF Blocks
<1>7. b \in S /\ b \in Nat \ {0} /\ \A c \in S \ {b} : c \in Nat \ {0} /\ c < b
  BY <1>1, <1>6 DEF LastOpen
<1>8. /\ Shut(h, S \ {b}) /\ Len(cs) = Cardinality(S \ {b})
      /\ \A c \in S \ {b} : /\ ServerMeans(h, c, cs[Rank(S \ {b}, c)])
                            /\ Shut(h, Inside(h, c, "location"))
  BY <1>4, Zenon DEF Done, ServersDone, ServersMean
<1> HIDE DEF S
<1>9. /\ Len(Append(cs, s)) = Cardinality(S) /\ Append(cs, s)[Rank(S, b)] = s
      /\ \A c \in S \ {b} : Append(cs, s)[Rank(S, c)] = cs[Rank(S \ {b}, c)]
  <2>1. AllButLast(S, b, cs)
    BY <1>7, <1>8, Zenon DEF AllButLast
  <2>2. WithLast(S, b, cs, Append(cs, s), s)
    BY <2>1, OneMore, Zenon
  <2> QED
    BY <2>2, Zenon DEF WithLast
<1>10. \A c \in S : ServerMeans(h, c, Append(cs, s)[Rank(S, c)]) /\ Shut(h, Inside(h, c, "location"))
  <2>1. ASSUME NEW c \in S \ {b} PROVE ServerMeans(h, c, Append(cs, s)[Rank(S, c)])
    <3>1. Append(cs, s)[Rank(S, c)] = cs[Rank(S \ {b}, c)]
      BY <1>9
    <3>2. ServerMeans(h, c, cs[Rank(S \ {b}, c)])
      BY <1>8
    <3> QED
      BY <3>1, <3>2
  <2>2. ServerMeans(h, b, Append(cs, s)[Rank(S, b)])
    BY <1>5, <1>9
  <2> QED
    BY <1>5, <1>8, <2>1, <2>2
<1>11. Shut(h, S)
  BY <1>3, <1>8 DEF Shut
<1>12. ServersDone(h, S, Append(cs, s))
  BY <1>9, <1>10, <1>11, Zenon DEF ServersDone, ServersMean
<1>13. Done(h, Blocks(h, "server"), Blocks(h, "upstream"), Append(cs, s), us)
  <2>1. Blocks(h, "server") = S /\ Blocks(h, "upstream") = Blocks(g, "upstream")
    BY <1>3 DEF S
  <2>2. UpstreamsDone(h, Blocks(g, "upstream"), us)
    BY <1>4, Zenon DEF Done
  <2> QED
    BY <1>12, <2>1, <2>2 DEF Done
<1> QED
  BY <1>3, <1>13 DEF AtTop

\* A location ends.
LEMMA LocationToServer ==
    ASSUME NEW g, NEW w, NEW h, Grows(g, w, Closing, h), Len(w) = 0, WholeText(g),
           NEW s, NEW loc, NEW cs, NEW us, InLocation(g, s, loc, cs, us)
    PROVE  InServer(h, [s EXCEPT !.locations = Append(s.locations, loc)], cs, us)
<1> DEFINE new == [s EXCEPT !.locations = Append(s.locations, loc)]
<1>1. PICK b, l : /\ LastOpen(g, b, "server")
                  /\ Done(g, Blocks(g, "server") \ {b}, Blocks(g, "upstream"), cs, us)
                  /\ ServerSoFar(g, b, s, Inside(g, b, "location") \ {l})
                  /\ LocationSoFar(g, b, l, loc)
  BY Zenon DEF InLocation
<1>2. /\ Depth(g, Len(g) + 1) = 2 /\ b \in Starts(g) /\ IsOpen(g, b) /\ Depth(g, b) = 0
  BY <1>1 DEF InLocation, LastOpen, Blocks
<1>3. Deeper(Closing) = -1
  BY WordIs DEF Deeper
<1>4. LastOpen(h, b, "server")
  BY <1>1, <1>2, <1>3, LastStays
<1>5. Blocks(h, "server") = Blocks(g, "server") /\ Blocks(h, "upstream") = Blocks(g, "upstream")
  BY <1>2, BlocksStay
<1>6. Done(h, Blocks(h, "server") \ {b}, Blocks(h, "upstream"), cs, us)
  <2>1. Done(h, Blocks(g, "server") \ {b}, Blocks(g, "upstream"), cs, us)
    BY <1>1, DoneStays, Zenon
  <2> QED
    BY <1>5, <2>1
<1>7. Depth(h, Len(h) + 1) = 1
  <2>1. Depth(h, Len(h) + 1) = Depth(g, Len(g) + 1) + Deeper(Closing)
    BY DepthGrown
  <2> QED
    BY <1>2, <1>3, <2>1
<1> DEFINE L == Inside(g, b, "location")
<1>8. \A name : Inside(h, b, name) = Inside(g, b, name)
  BY <1>2, NotInside DEF SameInside
<1>9. ServerSoFar(h, b, s, L \ {l})
  BY <1>1, <1>2, <1>8, SoFarStays
<1>10. /\ l \in L /\ IsOpen(g, l) /\ \A k \in L \ {l} : k < l
       /\ WholeLocation(loc) /\ LocationMeans(g, l, loc)
  BY <1>1, Zenon DEF LocationSoFar
<1>11. l \in Starts(g) /\ Depth(g, l) = 1 /\ L \subseteq Starts(g)
  BY <1>2, <1>10 DEF Inside
<1> HIDE DEF L
<1>12. ~IsOpen(h, l) /\ l \in Starts(h)
  <2>1. ~IsOpen(h, l)
    BY <1>2, <1>3, <1>11, OpenGrown
  <2> QED
    BY <1>11, <2>1, StartsGrown
<1>13. LocationMeans(h, l, loc)
  BY <1>10, <1>11, NotInside, LocationStays
<1>14. \A c \in Starts(g) : c \in Nat \ {0}
  <2>1. \A c \in Starts(g) : c \in 1..Len(g)
    BY StartsGrown
  <2>2. Len(g) \in Nat
    BY GrowsIs
  <2> QED
    BY <2>1, <2>2
<1>15. /\ WholeServer(s) /\ ServerSays(h, b, s) /\ Shut(h, L \ {l})
       /\ LocationsMean(h, L \ {l}, s.locations)
  BY <1>9, Zenon DEF ServerSoFar
<1>16. IsSeq(s.locations) /\ DOMAIN s = ServerFields
  BY <1>15 DEF WholeServer, IsServer
<1> DEFINE more == Append(s.locations, loc)
<1>17. /\ Len(s.locations) = Cardinality(L \ {l})
       /\ \A k \in L \ {l} : LocationMeans(h, k, s.locations[Rank(L \ {l}, k)])
  BY <1>15, Zenon DEF LocationsMean
<1>18. /\ Len(more) = Cardinality(L) /\ more[Rank(L, l)] = loc
       /\ \A k \in L \ {l} : more[Rank(L, k)] = s.locations[Rank(L \ {l}, k)]
  <2>1. l \in Nat \ {0} /\ \A k \in L \ {l} : k \in Nat \ {0} /\ k < l
    BY <1>10, <1>11, <1>14
  <2>2. AllButLast(L, l, s.locations)
    BY <1>10, <1>16, <1>17, <2>1, Zenon DEF AllButLast
  <2>3. WithLast(L, l, s.locations, more, loc)
    BY <2>2, OneMore, Zenon
  <2> QED
    BY <2>3, Zenon DEF WithLast
<1> HIDE DEF more
<1>19. LocationsMean(h, L, more)
  <2>1. ASSUME NEW k \in L \ {l} PROVE LocationMeans(h, k, more[Rank(L, k)])
    <3>1. more[Rank(L, k)] = s.locations[Rank(L \ {l}, k)]
      BY <1>18
    <3>2. LocationMeans(h, k, s.locations[Rank(L \ {l}, k)])
      BY <1>17
    <3> QED
      BY <3>1, <3>2
  <2>2. LocationMeans(h, l, more[Rank(L, l)])
    BY <1>13, <1>18
  <2>3. \A k \in L : LocationMeans(h, k, more[Rank(L, k)])
    BY <2>1, <2>2
  <2> QED
    BY <1>18, <2>3, Zenon DEF LocationsMean
<1>20. Shut(h, L)
  BY <1>12, <1>15 DEF Shut
<1>21. /\ DOMAIN new = ServerFields /\ new.locations = more /\ new.rule = s.rule
       /\ new.root = s.root /\ new.server_name = s.server_name /\ new.port = s.port
       /\ new.rate_limit = s.rate_limit /\ new.error_pages = s.error_pages
       /\ new.host = s.host /\ new.client_max_body_size = s.client_max_body_size
  BY <1>16 DEF ServerFields, more
<1>22. WholeServer(new)
  <2>1. IsServer(new)
    BY <1>10, <1>15, LocationAdded DEF WholeServer, WholeLocation
  <2> QED
    BY <1>21, <2>1 DEF WholeServer
<1> HIDE DEF new
<1>23. ServerSays(h, b, new)
  <2>1. ValuesMean(h, b, s) /\ PagesMean(h, b, s.error_pages)
    BY <1>15, ServerSaysIs, Zenon
  <2>2. ValuesMean(h, b, new)
    BY <1>21, <2>1 DEF ValuesMean
  <2>3. PagesMean(h, b, new.error_pages)
    BY <1>21, <2>1
  <2> QED
    BY <2>2, <2>3, ServerSaysIs, Zenon
<1>24. ServerSoFar(h, b, new, Inside(h, b, "location"))
  <2>1. Inside(h, b, "location") = L
    BY <1>8 DEF L
  <2>2. LocationsMean(h, L, new.locations)
    BY <1>19, <1>21
  <2> QED
    BY <1>20, <1>22, <1>23, <2>1, <2>2 DEF ServerSoFar
<1>25. InServer(h, new, cs, us)
  BY <1>4, <1>6, <1>7, <1>24, Zenon DEF InServer
<1> QED
  BY <1>25 DEF new

\* An upstream ends.
LEMMA UpstreamToTop ==
    ASSUME NEW g, NEW w, NEW h, Grows(g, w, Closing, h), Len(w) = 0, WholeText(g),
           NEW u, NEW cs, NEW us, InUpstream(g, u, cs, us)
    PROVE  AtTop(h, cs, Assigned(us, u.name, u))
<1> DEFINE S == Blocks(g, "upstream")
           new == Assigned(us, u.name, u)
<1>1. PICK b : /\ LastOpen(g, b, "upstream")
               /\ Done(g, Blocks(g, "server"), S \ {b}, cs, us)
               /\ UpstreamSoFar(g, b, u)
  BY Zenon DEF InUpstream
<1>2. Depth(g, Len(g) + 1) = 1
  BY DEF InUpstream
<1>3. /\ Depth(h, Len(h) + 1) = 0 /\ ~IsOpen(h, b) /\ SameInside(g, h, b)
      /\ b \in Starts(g) /\ b \in Starts(h)
      /\ \A other : Blocks(h, other) = Blocks(g, other)
  BY <1>1, <1>2, EndsAtTop
<1>4. Done(h, Blocks(g, "server"), S \ {b}, cs, us)
  BY <1>1, DoneStays, Zenon
<1>5. UpstreamMeans(h, b, u) /\ u.name = h[b + 1]
  <2>1. u.name = g[b + 1] /\ UpstreamMeans(g, b, u)
    BY <1>1, Zenon DEF UpstreamSoFar
  <2>2. UpstreamMeans(h, b, u)
    BY <1>3, <2>1, UpstreamStays
  <2>3. /\ \A i \in 1..Len(g) : h[i] = g[i]
        /\ b + 1 \in 1..Len(g)
    BY <1>3, GrowsIs, StartsGrown
  <2> QED
    BY <2>1, <2>2, <2>3
<1>6. S \subseteq Starts(g) /\ \A c \in Starts(g) : c \in Nat \ {0}
  <2>1. \A c \in Starts(g) : c \in 1..Len(g)
    BY StartsGrown
  <2>2. Len(g) \in Nat
    BY GrowsIs
  <2> QED
    BY <2>1, <2>2 DEF Blocks
<1>7. b \in S /\ b \in Nat \ {0} /\ \A c \in S \ {b} : c \in Nat \ {0} /\ c < b
  BY <1>1, <1>6 DEF LastOpen
<1> DEFINE O == S \ {b}
<1>8. Shut(h, O) /\ UpstreamsMean(h, O, us)
  BY <1>4, Zenon DEF Done, UpstreamsDone
<1>9. /\ DOMAIN us = {h[c + 1] : c \in O}
      /\ \A n \in DOMAIN us : UpstreamMeans(h, Max(Named(h, O, n)), us[n])
  BY <1>8, UpstreamsMeanIs, Zenon
<1>10. /\ DOMAIN new = {u.name} \cup DOMAIN us /\ new[u.name] = u
       /\ \A n \in DOMAIN us : n # u.name => new[n] = us[n]
  BY Zenon DEF Assigned
<1>11. S = O \cup {b} /\ O \subseteq 1..(b - 1) /\ b - 1 \in Nat
  <2>1. S = O \cup {b}
    BY <1>7, Zenon
  <2>2. b - 1 \in Nat
    BY <1>7
  <2>3. \A c \in O : c \in 1..(b - 1)
    <3>1. ASSUME NEW c \in S \ {b} PROVE c \in 1..(b - 1)
      <4>1. c \in Nat \ {0} /\ c < b /\ b \in Nat
        BY <1>7
      <4> QED
        BY <4>1
    <3> QED
      BY <3>1, Zenon
  <2> HIDE DEF O, S
  <2> QED
    BY <2>1, <2>2, <2>3, Zenon
<1> HIDE DEF S, O, new
<1>12. DOMAIN new = {h[c + 1] : c \in S}
  BY <1>5, <1>9, <1>10, <1>11
<1>13. ASSUME NEW n \in DOMAIN new PROVE UpstreamMeans(h, Max(Named(h, S, n)), new[n])
  <2>1. CASE n = u.name
    <3>1. Named(h, S, n) = Named(h, O, n) \cup {b} /\ Named(h, O, n) \subseteq O
      BY <1>5, <1>11, <2>1 DEF Named
    <3>2. Named(h, O, n) \subseteq 1..(b - 1)
      BY <1>11, <3>1, Zenon
    <3>3. b > b - 1 /\ b \in Nat
      BY <1>7
    <3>4. Max(Named(h, O, n) \cup {b}) = b
      BY <1>11, <3>2, <3>3, MaxWith, Zenon
    <3> QED
      BY <1>5, <1>10, <2>1, <3>1, <3>4
  <2>2. CASE n # u.name
    <3>1. Named(h, S, n) = Named(h, O, n)
      BY <1>5, <1>11, <2>2 DEF Named
    <3>2. n \in DOMAIN us /\ new[n] = us[n]
      BY <1>10, <2>2
    <3> QED
      BY <1>9, <3>1, <3>2
  <2> QED
    BY <2>1, <2>2
<1>14. UpstreamsDone(h, S, new)
  <2>1. UpstreamsMean(h, S, new)
    BY <1>12, <1>13, UpstreamsMeanIs, Zenon
  <2>2. Shut(h, S)
    BY <1>3, <1>8, <1>11 DEF Shut
  <2> QED
    BY <2>1, <2>2 DEF UpstreamsDone
<1>15. Done(h, Blocks(h, "server"), Blocks(h, "upstream"), cs, new)
  <2>1. Blocks(h, "server") = Blocks(g, "server") /\ Blocks(h, "upstream") = S
    BY <1>3 DEF S
  <2>2. ServersDone(h, Blocks(g, "server"), cs)
    BY <1>4, Zenon DEF Done
  <2> QED
    BY <1>14, <2>1, <2>2 DEF Done
<1> QED
  BY <1>3, <1>15 DEF AtTop, new

-----------------------------------------------------------------------------
(* What the parser has read                                                 *)

\* f is g and, after it, the words w of a statement that has not ended.
Follows(f, g, w) ==
    /\ IsSeq(f) /\ IsSeq(g) /\ IsSeq(w)
    /\ Len(f) = Len(g) + Len(w)
    /\ \A i \in 1..Len(g) : f[i] = g[i]
    /\ \A i \in 1..Len(w) : f[Len(g) + i] = w[i] /\ TokenType(w[i]) = "WORD"

\* The first n words of a statement b, and what it expects after them.
Exact(r, b, n, e) ==
    \/ r = "top" /\ b = "server" /\ e = <<"{">>
    \/ /\ b \in {"upstream", "location"}
       /\ (n = 1 /\ e = <<"WORD", "{">>) \/ (n = 2 /\ e = <<"{">>)
    \/ /\ b = "error_page"
       /\ \/ n = 1 /\ e = <<"WORD", "WORD", ";">>
          \/ n = 2 /\ e = <<"WORD", ";">>
          \/ n = 3 /\ e = <<";">>
    \/ b = "methods" /\ e = <<"WORDS", ";">>
    \/ /\ b \notin {"upstream", "location", "error_page", "methods"}
       /\ (n = 1 /\ e = <<"WORD", ";">>) \/ (n = 2 /\ e = <<";">>)

\* The open blocks hold what the text says.
Held(g, blocks, servers, upstreams) ==
    \/ blocks = <<>> /\ AtTop(g, servers, upstreams)
    \/ \E s : blocks = <<s>> /\ InServer(g, s, servers, upstreams)
    \/ \E u : blocks = <<u>> /\ InUpstream(g, u, servers, upstreams)
    \/ \E s, l : blocks = <<s, l>> /\ InLocation(g, s, l, servers, upstreams)

\* The file up to pos_ is a text of whole statements, all in what the parser
\* holds, and the words of one more.
ReadSoFar == \E g : Follows(tokens_, g, words) /\ WholeText(g) /\ Held(g, open, configs, upstreams_)

TextInv ==
    outcome \in {"parsing", "ok"} =>
    /\ ReadSoFar
    /\ expect = <<>> => words = <<>>
    /\ expect # <<>> => Exact(rule, words[1], Len(words), expect)
    /\ outcome = "ok" => open = <<>> /\ expect = <<>>

\* A text of whole statements.
LEMMA FollowsNothing == ASSUME NEW f, IsSeq(f) PROVE Follows(f, f, <<>>)
<1>1. IsSeq(<<>>) /\ Len(<<>>) = 0 /\ Len(f) \in Nat
  BY ShortAre, SeqIs
<1>2. Len(f) = Len(f) + Len(<<>>)
  BY <1>1
<1>3. \A i \in 1..Len(<<>>) : FALSE
  BY <1>1
<1> QED
  BY <1>1, <1>2, <1>3, Zenon DEF Follows

\* One more word.
LEMMA FollowsOn ==
    ASSUME NEW f, NEW g, NEW w, Follows(f, g, w), NEW t, TokenType(t) = "WORD"
    PROVE  Follows(Append(f, t), g, Append(w, t))
<1>1. /\ IsSeq(f) /\ IsSeq(g) /\ IsSeq(w)
      /\ Len(f) = Len(g) + Len(w)
      /\ \A i \in 1..Len(g) : f[i] = g[i]
      /\ \A i \in 1..Len(w) : f[Len(g) + i] = w[i] /\ TokenType(w[i]) = "WORD"
  BY Zenon DEF Follows
<1>2. Len(f) \in Nat /\ Len(g) \in Nat /\ Len(w) \in Nat
  BY <1>1, SeqIs
<1> DEFINE f2 == Append(f, t)
           w2 == Append(w, t)
<1>3. /\ IsSeq(f2) /\ Len(f2) = Len(f) + 1
      /\ \A i \in 1..Len(f) : f2[i] = f[i]
      /\ f2[Len(f) + 1] = t
  BY <1>1, AppendIs, Zenon
<1>4. /\ IsSeq(w2) /\ Len(w2) = Len(w) + 1
      /\ \A i \in 1..Len(w) : w2[i] = w[i]
      /\ w2[Len(w) + 1] = t
  BY <1>1, AppendIs, Zenon
<1> HIDE DEF f2, w2
<1>5. Len(f2) = Len(g) + Len(w2)
  BY <1>1, <1>2, <1>3, <1>4
<1>6. \A i \in 1..Len(g) : f2[i] = g[i]
  <2>1. \A i \in 1..Len(g) : i \in 1..Len(f)
    BY <1>1, <1>2
  <2> QED
    BY <1>1, <1>3, <2>1
<1>7. ASSUME NEW i \in 1..Len(w2) PROVE f2[Len(g) + i] = w2[i] /\ TokenType(w2[i]) = "WORD"
  <2>1. CASE i = Len(w) + 1
    <3>1. Len(g) + i = Len(f) + 1
      BY <1>1, <1>2, <2>1
    <3> QED
      BY <1>3, <1>4, <2>1, <3>1
  <2>2. CASE i # Len(w) + 1
    <3>1. i \in 1..Len(w) /\ Len(g) + i \in 1..Len(f)
      BY <1>1, <1>2, <1>4, <2>2
    <3> QED
      BY <1>1, <1>3, <1>4, <3>1
  <2> QED
    BY <2>1, <2>2
<1> QED
  BY <1>1, <1>3, <1>4, <1>5, <1>6, <1>7, Zenon DEF Follows, f2, w2

\* The punctuation that ends a statement.
LEMMA FollowsGrows ==
    ASSUME NEW f, NEW g, NEW w, Follows(f, g, w), WholeText(g),
           NEW t \in {Opening, Closing, Semicolon}, Len(w) = 0 => t = Closing
    PROVE  Grows(g, w, t, Append(f, t))
<1>1. /\ IsSeq(f) /\ IsSeq(g) /\ IsSeq(w)
      /\ Len(f) = Len(g) + Len(w)
      /\ \A i \in 1..Len(g) : f[i] = g[i]
      /\ \A i \in 1..Len(w) : f[Len(g) + i] = w[i] /\ TokenType(w[i]) = "WORD"
  BY Zenon DEF Follows
<1>2. Len(f) \in Nat /\ Len(g) \in Nat /\ Len(w) \in Nat
  BY <1>1, SeqIs
<1> DEFINE h == Append(f, t)
<1>3. /\ IsSeq(h) /\ Len(h) = Len(f) + 1
      /\ \A i \in 1..Len(f) : h[i] = f[i]
      /\ h[Len(f) + 1] = t
  BY <1>1, AppendIs, Zenon
<1> HIDE DEF h
<1>4. Len(h) = Len(g) + Len(w) + 1
  BY <1>1, <1>2, <1>3
<1>5. \A i \in 1..Len(g) : h[i] = g[i]
  <2>1. \A i \in 1..Len(g) : i \in 1..Len(f)
    BY <1>1, <1>2
  <2> QED
    BY <1>1, <1>3, <2>1
<1>6. \A i \in 1..Len(w) : h[Len(g) + i] = w[i] /\ TokenType(w[i]) = "WORD"
  <2>1. \A i \in 1..Len(w) : Len(g) + i \in 1..Len(f)
    BY <1>1, <1>2
  <2> QED
    BY <1>1, <1>3, <2>1
<1>7. h[Len(h)] = t
  BY <1>3
<1>8. Len(g) > 0 => TokenType(g[Len(g)]) # "WORD"
  BY DEF WholeText
<1> QED
  BY <1>1, <1>3, <1>4, <1>5, <1>6, <1>7, <1>8, Zenon DEF Grows, h

\* No words after it: the text itself.
LEMMA FollowsItself ==
    ASSUME NEW f, NEW g, Follows(f, g, <<>>)
    PROVE  f = g
<1>1. IsSeq(f) /\ IsSeq(g) /\ Len(f) = Len(g) + Len(<<>>) /\ \A i \in 1..Len(g) : f[i] = g[i]
  BY Zenon DEF Follows
<1>2. Len(<<>>) = 0 /\ Len(g) \in Nat /\ Len(f) \in Nat
  BY <1>1, ShortAre, SeqIs
<1>3. Len(f) = Len(g)
  BY <1>1, <1>2
<1>4. f \in Seq(Range(f)) /\ g \in Seq(Range(g))
  BY <1>1, Zenon DEF IsSeq
<1>5. f = [i \in 1..Len(f) |-> f[i]] /\ g = [i \in 1..Len(g) |-> g[i]]
  BY <1>4
<1> QED
  BY <1>1, <1>3, <1>5

-----------------------------------------------------------------------------
(* Inside a statement                                                       *)

\* A statement that begins.
LEMMA ExactBegins ==
    ASSUME NEW r, NEW b, NEW e, Stated(r, b, e)
    PROVE  Exact(r, b, 1, e) /\ TokenType(b) = "WORD"
<1>1. Exact(r, b, 1, e)
  <2> DEFINE Short == {"listen", "server_name", "root", "client_max_body_size", "rate_limit",
                       "index", "proxy_pass", "autoindex", "server", "health_check_interval"}
  <2>1. ASSUME b \in Short PROVE b \notin {"upstream", "location", "error_page", "methods"}
    BY <2>1
  <2>2. OneWord \subseteq Short /\ OneWordOfLocation \subseteq Short
        /\ {"server", "health_check_interval"} \subseteq Short
    BY DEF OneWord, OneWordOfLocation
  <2> HIDE DEF Short
  <2>3. CASE b \in Short
    <3>1. \/ r = "top" /\ b = "server" /\ e = <<"{">>
          \/ e = <<"WORD", ";">>
      BY <2>1, <2>3, Zenon DEF Stated
    <3> QED
      BY <2>1, <2>3, <3>1, Zenon DEF Exact
  <2>4. CASE b \notin Short
    BY <2>2, <2>4, Zenon DEF Stated, Exact
  <2> QED
    BY <2>3, <2>4
<1>2. TokenType(b) = "WORD"
  <2>1. b \in {"server", "upstream", "location", "error_page", "methods", "health_check_interval"}
              \cup OneWord \cup OneWordOfLocation
    BY Zenon DEF Stated
  <2>2. b # "{" /\ b # "}" /\ b # ";"
    BY <2>1, Zenon DEF OneWord, OneWordOfLocation
  <2> QED
    BY <2>2, Zenon DEF TokenType
<1> QED
  BY <1>1, <1>2

\* A statement that goes on.
LEMMA ExactGoesOn ==
    ASSUME NEW r, NEW b, NEW n \in Nat, NEW e, Exact(r, b, n, e), Head(e) \in {"WORD", "WORDS"}
    PROVE  Exact(r, b, n + 1, IF Head(e) = "WORD" THEN Tail(e) ELSE e)
<1>1. Tail(<<"WORD", "WORD", ";">>) = <<"WORD", ";">>
  BY ShortTails, ZenonT(40)
<1>2. Tail(<<"WORD", ";">>) = <<";">> /\ Tail(<<"WORD", "{">>) = <<"{">>
  BY ShortTails
<1>3. /\ Head(<<"WORD", "WORD", ";">>) = "WORD" /\ Head(<<"WORD", ";">>) = "WORD"
      /\ Head(<<"WORD", "{">>) = "WORD" /\ Head(<<"WORDS", ";">>) = "WORDS"
  OBVIOUS
<1>4. Head(<<"{">>) \notin {"WORD", "WORDS"} /\ Head(<<";">>) \notin {"WORD", "WORDS"}
  OBVIOUS
<1>5. "WORD" # "WORDS" /\ (n = 1 => n + 1 = 2) /\ (n = 2 => n + 1 = 3)
  OBVIOUS
<1> DEFINE f == IF Head(e) = "WORD" THEN Tail(e) ELSE e
<1>6. /\ e = <<"WORD", "WORD", ";">> => f = <<"WORD", ";">>
      /\ e = <<"WORD", ";">> => f = <<";">>
      /\ e = <<"WORD", "{">> => f = <<"{">>
      /\ e = <<"WORDS", ";">> => f = e
      /\ e # <<"{">> /\ e # <<";">>
  BY <1>1, <1>2, <1>3, <1>4, <1>5, Zenon
<1> HIDE DEF f
<1>7. Exact(r, b, n + 1, f)
  BY <1>5, <1>6, Zenon DEF Exact
<1> QED
  BY <1>7 DEF f

\* The parser begins a statement.
LEMMA BeginReads ==
    ASSUME ParserInv, TextInv, NEW t, BeginStatement(t)
    PROVE  TextInv'
<1>1. /\ expect = <<>> /\ t \in DOMAIN Statements[rule] /\ expect' = Statements[rule][t]
      /\ words' = <<t>> /\ open' = open /\ configs' = configs /\ upstreams_' = upstreams_
      /\ outcome' = outcome /\ outcome = "parsing" /\ tokens_' = Append(tokens_, t)
  BY DEF BeginStatement, Parsing
<1>2. rule' = rule
  BY <1>1 DEF rule
<1>3. Stated(rule, t, Statements[rule][t])
  BY <1>1, RulesAre, StatementIs DEF ParserInv
<1>4. Exact(rule, t, 1, expect') /\ TokenType(t) = "WORD"
  BY <1>1, <1>3, ExactBegins
<1>5. /\ ReadSoFar /\ words = <<>>
  BY <1>1 DEF TextInv
<1>6. PICK g : Follows(tokens_, g, words) /\ WholeText(g) /\ Held(g, open, configs, upstreams_)
  BY <1>5, Zenon DEF ReadSoFar
<1>7. Follows(tokens_', g, words')
  <2>1. Follows(Append(tokens_, t), g, Append(words, t))
    BY <1>4, <1>6, FollowsOn
  <2>2. Append(words, t) = <<t>>
    BY <1>5, ShortAre, Zenon
  <2> QED
    BY <1>1, <2>1, <2>2, Zenon
<1>8. ReadSoFar'
  <2>1. Held(g, open', configs', upstreams_')
    BY <1>1, <1>6
  <2> QED
    BY <1>6, <1>7, <2>1, Zenon DEF ReadSoFar
<1>9. expect' # <<>>
  <2>1. /\ <<"{">> # <<>> /\ <<"WORD", "{">> # <<>> /\ <<"WORD", "WORD", ";">> # <<>>
        /\ <<"WORDS", ";">> # <<>> /\ <<"WORD", ";">> # <<>>
    OBVIOUS
  <2> QED
    BY <1>1, <1>3, <2>1, Zenon DEF Stated
<1>10. words'[1] = t /\ Len(words') = 1
  BY <1>1, ShortAre
<1> QED
  BY <1>1, <1>2, <1>4, <1>8, <1>9, <1>10 DEF TextInv

\* The parser consumes a word.
LEMMA ConsumeReads ==
    ASSUME ParserInv, TextInv, NEW t, ConsumeWord(t)
    PROVE  TextInv'
<1>1. /\ expect # <<>> /\ TokenType(t) = "WORD" /\ Head(expect) \in {"WORD", "WORDS"}
      /\ words' = Append(words, t) /\ expect' = IF Head(expect) = "WORD" THEN Tail(expect) ELSE expect
      /\ open' = open /\ configs' = configs /\ upstreams_' = upstreams_
      /\ outcome' = outcome /\ outcome = "parsing" /\ tokens_' = Append(tokens_, t)
  BY DEF ConsumeWord, Parsing
<1>2. rule' = rule
  BY <1>1 DEF rule
<1>3. ReadSoFar /\ Exact(rule, words[1], Len(words), expect)
  BY <1>1 DEF TextInv
<1>4. /\ IsSeq(words) /\ words # <<>> /\ Len(words) \in Nat
  BY <1>1, SeqIs DEF ParserInv, WordsInv
<1>5. PICK g : Follows(tokens_, g, words) /\ WholeText(g) /\ Held(g, open, configs, upstreams_)
  BY <1>3, Zenon DEF ReadSoFar
<1>6. Follows(tokens_', g, words')
  <2>1. Follows(Append(tokens_, t), g, Append(words, t))
    BY <1>1, <1>5, FollowsOn
  <2> QED
    BY <1>1, <2>1, Zenon
<1>7. ReadSoFar'
  <2>1. Held(g, open', configs', upstreams_')
    BY <1>1, <1>5
  <2> QED
    BY <1>5, <1>6, <2>1, Zenon DEF ReadSoFar
<1>8. Exact(rule, words[1], Len(words) + 1, expect')
  BY <1>1, <1>3, <1>4, ExactGoesOn
<1>9. Len(words') = Len(words) + 1 /\ words'[1] = words[1]
  <2>1. /\ IsSeq(Append(words, t)) /\ Len(Append(words, t)) = Len(words) + 1
        /\ \A i \in 1..Len(words) : Append(words, t)[i] = words[i]
        /\ Append(words, t)[Len(words) + 1] = t
    BY <1>4, AppendIs, Zenon
  <2>2. 1 \in 1..Len(words)
    BY <1>4 DEF IsSeq
  <2> QED
    BY <1>1, <2>1, <2>2, Zenon
<1>10. expect' # <<>>
  <2>1. <<"{">> # <<>> /\ <<";">> # <<>> /\ <<"WORD", "{">> # <<>> /\ <<"WORD", ";">> # <<>>
        /\ <<"WORD", "WORD", ";">> # <<>> /\ <<"WORDS", ";">> # <<>>
    OBVIOUS
  <2> QED
    BY <1>8, <2>1, Zenon DEF Exact
<1> QED
  BY <1>1, <1>2, <1>7, <1>8, <1>9, <1>10 DEF TextInv

-----------------------------------------------------------------------------
(* Where a statement or a block ends                                        *)

\* What the parser has read when a statement has ended.
LEMMA StatementRead ==
    ASSUME WholeText(tokens_'), Held(tokens_', open', configs', upstreams_'),
           words' = <<>>, expect' = <<>>, outcome' = "parsing"
    PROVE  TextInv'
<1>1. Follows(tokens_', tokens_', words')
  BY FollowsNothing, Zenon DEF WholeText
<1>2. ReadSoFar'
  BY <1>1, Zenon DEF ReadSoFar
<1> QED
  BY <1>2 DEF TextInv

\* A statement whose end is consumed.
LEMMA EndsStatement ==
    ASSUME ParserInv, TextInv, outcome = "parsing", expect # <<>>,
           NEW t \in {Opening, Closing, Semicolon}
    PROVE  /\ words # <<>> /\ IsSeq(words) /\ Len(words) \in Nat /\ Len(words) # 0
           /\ \A i \in 2..Len(words) : words[i] \in Args[words[1]]
           /\ Stage(rule, words[1], Len(words), expect)
           /\ Exact(rule, words[1], Len(words), expect)
           /\ \E g : /\ Grows(g, words, t, Append(tokens_, t)) /\ WholeText(g)
                     /\ Held(g, open, configs, upstreams_)
<1>1. /\ words # <<>> /\ IsSeq(words)
      /\ \A i \in 2..Len(words) : words[i] \in Args[words[1]]
      /\ Stage(rule, words[1], Len(words), expect)
  BY DEF ParserInv, WordsInv
<1>2. Len(words) \in Nat /\ Len(words) # 0
  BY <1>1, SeqIs DEF IsSeq
<1>3. ReadSoFar /\ Exact(rule, words[1], Len(words), expect)
  BY DEF TextInv
<1>4. PICK g : Follows(tokens_, g, words) /\ WholeText(g) /\ Held(g, open, configs, upstreams_)
  BY <1>3, Zenon DEF ReadSoFar
<1>5. Grows(g, words, t, Append(tokens_, t))
  BY <1>2, <1>4, FollowsGrows
<1> QED
  BY <1>1, <1>2, <1>3, <1>4, <1>5, Zenon

\* The depth of a text of whole statements.
LEMMA WholeDepth ==
    ASSUME NEW g, WholeText(g)
    PROVE  Depth(g, Len(g) + 1) >= 0
<1>1. Len(g) \in Nat
  BY SeqIs DEF WholeText
<1>2. Len(g) + 1 \in 1..(Len(g) + 1)
  BY <1>1
<1> QED
  BY <1>2 DEF WholeText

\* The parser begins a block.
LEMMA OpenReads ==
    ASSUME ParserInv, TextInv, NEW t, OpenBlock(t)
    PROVE  TextInv'
<1>1. /\ expect = <<"{">> /\ t = Opening
      /\ words' = <<>> /\ expect' = <<>> /\ configs' = configs /\ upstreams_' = upstreams_
      /\ outcome' = outcome /\ outcome = "parsing" /\ tokens_' = Append(tokens_, t)
  BY DEF OpenBlock, Parsing, Opening
<1>2. /\ words[1] = "server" => open' = Append(open, ServerBlock)
      /\ words[1] = "location" => open' = Append(open, LocationBlock(words[2]))
      /\ words[1] = "upstream" => open' = Append(open, UpstreamBlock(words[2]))
  BY DEF OpenBlock
<1>3. <<"{">> # <<>> /\ <<"{">> \notin Rests /\ <<"{">> # <<"WORD", "{">>
  BY DEF Rests
<1>4. /\ Len(words) \in Nat /\ Len(words) # 0
      /\ \A i \in 2..Len(words) : words[i] \in Args[words[1]]
      /\ Stage(rule, words[1], Len(words), expect)
      /\ Exact(rule, words[1], Len(words), expect)
      /\ \E g : /\ Grows(g, words, t, Append(tokens_, t)) /\ WholeText(g)
                /\ Held(g, open, configs, upstreams_)
  BY <1>1, <1>3, EndsStatement, Zenon
<1>5. PICK g : Grows(g, words, Opening, tokens_') /\ WholeText(g) /\ Held(g, open, configs, upstreams_)
  BY <1>1, <1>4, Zenon
<1>6. \/ rule = "top" /\ words[1] \in {"server", "upstream"}
      \/ rule = "server" /\ words[1] = "location"
  BY <1>1, <1>3, <1>4, Zenon DEF Stage
<1>7. words[1] \in {"upstream", "location"} => Len(words) = 2
  BY <1>1, <1>3, <1>4, Zenon DEF Exact
<1>8. WholeText(tokens_')
  <2>1. Deeper(Opening) = 1
    BY DEF Deeper
  <2>2. Depth(g, Len(g) + 1) >= 0 /\ Depth(g, Len(g) + 1) \in Int
    <3>1. Len(g) \in Nat
      BY <1>5, GrowsIs
    <3>2. Len(g) + 1 \in 1..(Len(g) + 1)
      BY <3>1
    <3> QED
      BY <1>5, <3>2, WholeDepth, DepthGrown
  <2>3. words[1] # "error_page"
    BY <1>6
  <2> QED
    BY <1>5, <2>1, <2>2, <2>3, WholeGrown
<1>9. Held(tokens_', open', configs, upstreams_)
  <2>1. ASSUME open = <<>>, AtTop(g, configs, upstreams_)
        PROVE  Held(tokens_', open', configs, upstreams_)
    <3>1. words[1] \in {"server", "upstream"}
      BY <1>6, <2>1, RuleIs
    <3>2. CASE words[1] = "server"
      <4>1. open' = <<ServerBlock>>
        BY <1>2, <2>1, <3>2, ShortAre, Zenon
      <4>2. InServer(tokens_', ServerBlock, configs, upstreams_)
        BY <1>4, <1>5, <2>1, <3>2, TopToServer
      <4> QED
        BY <4>1, <4>2, Zenon DEF Held
    <3>3. CASE words[1] = "upstream"
      <4>1. open' = <<UpstreamBlock(words[2])>>
        BY <1>2, <2>1, <3>3, ShortAre, Zenon
      <4>2. Len(words) >= 2
        <5>1. Len(words) = 2
          BY <1>7, <3>3, Zenon
        <5> QED
          BY <5>1
      <4>3. InUpstream(tokens_', UpstreamBlock(words[2]), configs, upstreams_)
        BY <1>5, <2>1, <3>3, <4>2, TopToUpstream
      <4> QED
        BY <4>1, <4>3, Zenon DEF Held
    <3> QED
      BY <3>1, <3>2, <3>3
  <2>2. ASSUME NEW s, open = <<s>>, InServer(g, s, configs, upstreams_)
        PROVE  Held(tokens_', open', configs, upstreams_)
    <3>1. IsServer(s)
      BY <2>2, Zenon DEF InServer, ServerSoFar, WholeServer
    <3>2. words[1] = "location"
      <4>1. rule = "server"
        BY <2>2, <3>1, RuleIs DEF IsServer
      <4> QED
        BY <1>6, <4>1
    <3>3. open' = <<s, LocationBlock(words[2])>>
      BY <1>2, <2>2, <3>2, ShortAre, Zenon
    <3>4. Len(words) >= 2 /\ words[2] \in Args["location"]
      <4>1. Len(words) = 2
        BY <1>7, <3>2
      <4>2. 2 \in 2..Len(words)
        BY <4>1
      <4> QED
        BY <1>4, <3>2, <4>1, <4>2
    <3>5. InLocation(tokens_', s, LocationBlock(words[2]), configs, upstreams_)
      BY <1>5, <2>2, <3>2, <3>4, ServerToLocation
    <3> QED
      BY <3>3, <3>5, Zenon DEF Held
  <2>3. ASSUME NEW u, open = <<u>>, InUpstream(g, u, configs, upstreams_) PROVE FALSE
    <3>1. u.rule = "upstream"
      BY <2>3, Zenon DEF InUpstream, UpstreamSoFar, WholeUpstream, IsUpstream
    <3> QED
      BY <1>6, <2>3, <3>1, RuleIs
  <2>4. ASSUME NEW s, NEW l, open = <<s, l>>, InLocation(g, s, l, configs, upstreams_) PROVE FALSE
    <3>1. l.rule = "location"
      BY <2>4, Zenon DEF InLocation, LocationSoFar, WholeLocation, IsLocation
    <3> QED
      BY <1>6, <2>4, <3>1, RuleIs
  <2>5. Held(g, open, configs, upstreams_)
    BY <1>5
  <2> QED
    BY <2>1, <2>2, <2>3, <2>4, <2>5, Zenon DEF Held
<1> QED
  BY <1>1, <1>8, <1>9, StatementRead

\* The n words of a directive b in a block of rule r.
WholeDirective(r, b, n) ==
    /\ r = "server" => b \in ServerNames /\ n = IF b = "error_page" THEN 3 ELSE 2
    /\ r = "location" => b \in LocationNames /\ (b # "methods" => n = 2)
    /\ r = "upstream" => b \in UpstreamNames /\ n = 2

\* A directive that ends has them all.
LEMMA DirectiveIs ==
    ASSUME NEW r \in {"server", "location", "upstream"}, NEW b, NEW n,
           NEW e \in {<<";">>, <<"WORDS", ";">>}, Stage(r, b, n, e), Exact(r, b, n, e)
    PROVE  WholeDirective(r, b, n)
<1>1. /\ <<";">> # <<"{">> /\ <<";">> # <<"WORD", "{">> /\ <<";">> # <<"WORDS", ";">>
      /\ <<";">> # <<"WORD", ";">> /\ <<";">> # <<"WORD", "WORD", ";">>
      /\ <<"WORDS", ";">> # <<"{">> /\ <<"WORDS", ";">> # <<"WORD", "{">>
      /\ <<"WORDS", ";">> # <<"WORD", ";">> /\ <<"WORDS", ";">> # <<"WORD", "WORD", ";">>
  OBVIOUS
<1>2. e # <<"{">> /\ e # <<"WORD", "{">> /\ e # <<"WORD", ";">> /\ e # <<"WORD", "WORD", ";">>
  BY <1>1, Zenon
<1>3. \/ b = "methods"
      \/ b = "error_page" /\ n = 3
      \/ b # "error_page" /\ n = 2
  BY <1>2, Zenon DEF Exact
<1>4. /\ r = "server" => b \in ServerNames
      /\ r = "location" => b \in LocationNames
      /\ r = "upstream" => b \in UpstreamNames
  BY <1>2, Zenon DEF Stage, ServerNames, LocationNames, UpstreamNames
<1>5. /\ "methods" \notin ServerNames /\ "methods" \notin UpstreamNames
      /\ "error_page" \notin LocationNames /\ "error_page" \notin UpstreamNames
  BY DEF ServerNames, LocationNames, UpstreamNames
<1>6. ASSUME r = "server" PROVE b \in ServerNames /\ n = IF b = "error_page" THEN 3 ELSE 2
  BY <1>3, <1>4, <1>5, <1>6, Zenon
<1>7. ASSUME r = "location" PROVE b \in LocationNames /\ (b # "methods" => n = 2)
  BY <1>3, <1>4, <1>5, <1>7, Zenon
<1>8. ASSUME r = "upstream" PROVE b \in UpstreamNames /\ n = 2
  BY <1>3, <1>4, <1>5, <1>8, Zenon
<1> QED
  BY <1>6, <1>7, <1>8, Zenon DEF WholeDirective

\* The parser ends a directive.
LEMMA EndReads ==
    ASSUME ParserInv, TextInv, NEW t, EndDirective(t)
    PROVE  TextInv'
<1>1. /\ expect \in {<<";">>, <<"WORDS", ";">>} /\ t = Semicolon
      /\ words' = <<>> /\ expect' = <<>> /\ configs' = configs /\ upstreams_' = upstreams_
      /\ outcome' = outcome /\ outcome = "parsing" /\ tokens_' = Append(tokens_, t)
      /\ open' = Append(Front(open), Directive(Last(open), words))
  BY DEF EndDirective, Parsing, Semicolon
<1>2. <<";">> # <<>> /\ <<"WORDS", ";">> # <<>>
  OBVIOUS
<1>3. /\ words # <<>> /\ IsSeq(words) /\ Len(words) \in Nat /\ Len(words) # 0
      /\ Stage(rule, words[1], Len(words), expect)
      /\ Exact(rule, words[1], Len(words), expect)
      /\ \E g : /\ Grows(g, words, t, Append(tokens_, t)) /\ WholeText(g)
                /\ Held(g, open, configs, upstreams_)
  BY <1>1, <1>2, EndsStatement, Zenon
<1>4. PICK g : Grows(g, words, Semicolon, tokens_') /\ WholeText(g) /\ Held(g, open, configs, upstreams_)
  BY <1>1, <1>3, Zenon
<1>5. rule # "top"
  <2>1. /\ <<";">> # <<"{">> /\ <<";">> # <<"WORD", "{">>
        /\ <<"WORDS", ";">> # <<"{">> /\ <<"WORDS", ";">> # <<"WORD", "{">>
    OBVIOUS
  <2> QED
    BY <1>1, <1>3, <2>1, Zenon DEF Stage
<1> DEFINE Stays(b) == /\ IsServer(b) => IsServer(Directive(b, words))
                       /\ IsLocation(b) => IsLocation(Directive(b, words))
                       /\ IsUpstream(b) => IsUpstream(Directive(b, words))
<1>6. ASSUME NEW b, b.rule = rule PROVE Stays(b)
  <2>1. \/ Stage(b.rule, words[1], Len(words), <<";">>)
        \/ Stage(b.rule, words[1], Len(words), <<"WORDS", ";">>)
    BY <1>1, <1>3, <1>6, Zenon
  <2> QED
    BY <1>3, <2>1, DirectiveKeeps, Zenon
<1>7. ASSUME NEW r \in {"server", "location", "upstream"}, rule = r
      PROVE  /\ r = "server" => /\ words[1] \in ServerNames
                                /\ Len(words) = IF words[1] = "error_page" THEN 3 ELSE 2
             /\ r = "location" => words[1] \in LocationNames /\ (words[1] # "methods" => Len(words) = 2)
             /\ r = "upstream" => words[1] \in UpstreamNames /\ Len(words) = 2
  <2>1. Stage(r, words[1], Len(words), expect) /\ Exact(r, words[1], Len(words), expect)
    BY <1>3, <1>7, Zenon
  <2>2. WholeDirective(r, words[1], Len(words))
    BY <1>1, <2>1, DirectiveIs, Zenon
  <2> QED
    BY <2>2, Zenon DEF WholeDirective
<1> HIDE DEF Stays
<1>8. Held(tokens_', open', configs, upstreams_)
  <2>1. ASSUME NEW s, open = <<s>>, InServer(g, s, configs, upstreams_)
        PROVE  Held(tokens_', open', configs, upstreams_)
    <3>1. IsServer(s) /\ s.rule = "server"
      BY <2>1, Zenon DEF InServer, ServerSoFar, WholeServer, IsServer
    <3>2. rule = "server" /\ rule = s.rule /\ Last(open) = s /\ Front(open) = <<>>
      BY <2>1, <3>1, RuleIs
    <3>3. Directive(s, words) = parse_server_directive(s, words)
      BY <3>1 DEF Directive
    <3>4. open' = <<parse_server_directive(s, words)>>
      BY <1>1, <3>2, <3>3, ShortAre, Zenon
    <3>5. IsServer(parse_server_directive(s, words))
      BY <1>6, <3>1, <3>2, <3>3, Zenon DEF Stays
    <3>6. words[1] \in ServerNames /\ Len(words) = IF words[1] = "error_page" THEN 3 ELSE 2
      BY <1>7, <3>2, Zenon
    <3>7. InServer(tokens_', parse_server_directive(s, words), configs, upstreams_)
      BY <1>4, <2>1, <3>5, <3>6, ServerToServer, Zenon
    <3> QED
      BY <3>4, <3>7, Zenon DEF Held
  <2>2. ASSUME NEW u, open = <<u>>, InUpstream(g, u, configs, upstreams_)
        PROVE  Held(tokens_', open', configs, upstreams_)
    <3>1. IsUpstream(u) /\ u.rule = "upstream"
      BY <2>2, Zenon DEF InUpstream, UpstreamSoFar, WholeUpstream, IsUpstream
    <3>2. rule = "upstream" /\ rule = u.rule /\ Last(open) = u /\ Front(open) = <<>>
      BY <2>2, <3>1, RuleIs
    <3>3. Directive(u, words) = parse_upstream_directive(u, words)
      BY <3>1 DEF Directive
    <3>4. open' = <<parse_upstream_directive(u, words)>>
      BY <1>1, <3>2, <3>3, ShortAre, Zenon
    <3>5. IsUpstream(parse_upstream_directive(u, words))
      BY <1>6, <3>1, <3>2, <3>3, Zenon DEF Stays
    <3>6. words[1] \in UpstreamNames /\ Len(words) = 2
      BY <1>7, <3>2, Zenon
    <3>7. InUpstream(tokens_', parse_upstream_directive(u, words), configs, upstreams_)
      BY <1>4, <2>2, <3>5, <3>6, UpstreamToUpstream, Zenon
    <3> QED
      BY <3>4, <3>7, Zenon DEF Held
  <2>3. ASSUME NEW s, NEW l, open = <<s, l>>, InLocation(g, s, l, configs, upstreams_)
        PROVE  Held(tokens_', open', configs, upstreams_)
    <3>1. IsLocation(l) /\ l.rule = "location"
      BY <2>3, Zenon DEF InLocation, LocationSoFar, WholeLocation, IsLocation
    <3>2. rule = "location" /\ rule = l.rule /\ Last(open) = l /\ Front(open) = <<s>>
      BY <2>3, <3>1, RuleIs
    <3>3. Directive(l, words) = parse_location_directive(l, words)
      BY <3>1 DEF Directive
    <3>4. open' = <<s, parse_location_directive(l, words)>>
      BY <1>1, <3>2, <3>3, ShortAre, Zenon
    <3>5. IsLocation(parse_location_directive(l, words))
      BY <1>6, <3>1, <3>2, <3>3, Zenon DEF Stays
    <3>6. words[1] \in LocationNames /\ (words[1] # "methods" => Len(words) = 2)
      BY <1>7, <3>2, Zenon
    <3>7. InLocation(tokens_', s, parse_location_directive(l, words), configs, upstreams_)
      BY <1>3, <1>4, <2>3, <3>5, <3>6, LocationToLocation, Zenon
    <3> QED
      BY <3>4, <3>7, Zenon DEF Held
  <2>4. open # <<>>
    BY <1>5, RuleIs
  <2>5. Held(g, open, configs, upstreams_)
    BY <1>4
  <2> QED
    BY <2>1, <2>2, <2>3, <2>4, <2>5, Zenon DEF Held
<1>9. rule \in {"server", "location", "upstream"}
  BY <1>5, RulesAre, Zenon DEF ParserInv
<1>10. WholeText(tokens_')
  <2>1. Deeper(Semicolon) = 0
    BY WordIs DEF Deeper
  <2>2. Depth(g, Len(g) + 1) >= 0 /\ Depth(g, Len(g) + 1) \in Int
    <3>1. Len(g) \in Nat
      BY <1>4, GrowsIs
    <3>2. Len(g) + 1 \in 1..(Len(g) + 1)
      BY <3>1
    <3> QED
      BY <1>4, <3>2, WholeDepth, DepthGrown
  <2>3. words[1] = "error_page" => Len(words) >= 2
    <3> SUFFICES ASSUME words[1] = "error_page" PROVE Len(words) >= 2
      OBVIOUS
    <3>1. "error_page" \notin LocationNames /\ "error_page" \notin UpstreamNames
      BY DEF LocationNames, UpstreamNames
    <3>2. Len(words) = 3
      BY <1>7, <1>9, <3>1, Zenon
    <3> QED
      BY <3>2
  <2> QED
    BY <1>4, <2>1, <2>2, <2>3, WholeGrown
<1> QED
  BY <1>1, <1>8, <1>10, StatementRead

\* The parser ends a block.
LEMMA CloseReads ==
    ASSUME ParserInv, TextInv, NEW t, CloseBlock(t)
    PROVE  TextInv'
<1> DEFINE block == Last(open)
           outer == Front(open)
<1>1. /\ expect = <<>> /\ t = Closing /\ open # <<>>
      /\ words' = words /\ expect' = expect
      /\ outcome' = outcome /\ outcome = "parsing" /\ tokens_' = Append(tokens_, t)
  BY DEF CloseBlock, Parsing, Closing
<1>2. /\ open' = IF block.rule = "location"
                 THEN Append(Front(outer), [Last(outer) EXCEPT !.locations = Append(@, block)])
                 ELSE outer
      /\ configs' = IF block.rule = "server" THEN Append(configs, block) ELSE configs
      /\ upstreams_' = IF block.rule = "upstream" THEN Assigned(upstreams_, block.name, block)
                       ELSE upstreams_
  BY DEF CloseBlock
<1> HIDE DEF block, outer
<1>3. ReadSoFar /\ words = <<>>
  BY <1>1 DEF TextInv
<1>4. PICK g : Follows(tokens_, g, words) /\ WholeText(g) /\ Held(g, open, configs, upstreams_)
  BY <1>3, Zenon DEF ReadSoFar
<1>5. Len(words) = 0
  BY <1>3, ShortAre, Zenon
<1>6. Grows(g, words, Closing, tokens_')
  <2>1. Grows(g, words, Closing, Append(tokens_, Closing))
    BY <1>4, FollowsGrows
  <2> QED
    BY <1>1, <2>1, Zenon
<1>7. IsSeq(configs)
  BY DEF ParserInv, ConfigsInv
<1>8. Held(tokens_', open', configs', upstreams_') /\ Depth(g, Len(g) + 1) > 0
  <2>1. ASSUME NEW s, open = <<s>>, InServer(g, s, configs, upstreams_)
        PROVE  Held(tokens_', open', configs', upstreams_') /\ Depth(g, Len(g) + 1) = 1
    <3>1. s.rule = "server"
      BY <2>1, Zenon DEF InServer, ServerSoFar, WholeServer, IsServer
    <3>2. block = s /\ outer = <<>>
      BY <2>1, RuleIs DEF block, outer
    <3>3. open' = <<>> /\ configs' = Append(configs, s) /\ upstreams_' = upstreams_
      BY <1>2, <3>1, <3>2
    <3>4. AtTop(tokens_', Append(configs, s), upstreams_)
      BY <1>4, <1>5, <1>6, <1>7, <2>1, ServerToTop
    <3>5. Depth(g, Len(g) + 1) = 1
      BY <2>1, Zenon DEF InServer
    <3> QED
      BY <3>3, <3>4, <3>5, Zenon DEF Held
  <2>2. ASSUME NEW u, open = <<u>>, InUpstream(g, u, configs, upstreams_)
        PROVE  Held(tokens_', open', configs', upstreams_') /\ Depth(g, Len(g) + 1) = 1
    <3>1. u.rule = "upstream"
      BY <2>2, Zenon DEF InUpstream, UpstreamSoFar, WholeUpstream, IsUpstream
    <3>2. block = u /\ outer = <<>>
      BY <2>2, RuleIs DEF block, outer
    <3>3. open' = <<>> /\ configs' = configs /\ upstreams_' = Assigned(upstreams_, u.name, u)
      BY <1>2, <3>1, <3>2
    <3>4. AtTop(tokens_', configs, Assigned(upstreams_, u.name, u))
      BY <1>4, <1>5, <1>6, <2>2, UpstreamToTop
    <3>5. Depth(g, Len(g) + 1) = 1
      BY <2>2, Zenon DEF InUpstream
    <3> QED
      BY <3>3, <3>4, <3>5, Zenon DEF Held
  <2>3. ASSUME NEW s, NEW l, open = <<s, l>>, InLocation(g, s, l, configs, upstreams_)
        PROVE  Held(tokens_', open', configs', upstreams_') /\ Depth(g, Len(g) + 1) = 2
    <3>1. l.rule = "location"
      BY <2>3, Zenon DEF InLocation, LocationSoFar, WholeLocation, IsLocation
    <3>2. block = l /\ outer = <<s>>
      BY <2>3, RuleIs DEF block, outer
    <3>3. Front(<<s>>) = <<>> /\ Last(<<s>>) = s
      BY DEF Front, Last
    <3> DEFINE new == [s EXCEPT !.locations = Append(s.locations, l)]
    <3>4. open' = Append(<<>>, new) /\ configs' = configs /\ upstreams_' = upstreams_
      BY <1>2, <3>1, <3>2, <3>3
    <3>5. InServer(tokens_', new, configs, upstreams_)
      BY <1>4, <1>5, <1>6, <2>3, LocationToServer
    <3> HIDE DEF new
    <3>6. open' = <<new>>
      BY <3>4, ShortAre, Zenon
    <3>7. Depth(g, Len(g) + 1) = 2
      BY <2>3, Zenon DEF InLocation
    <3> QED
      BY <3>4, <3>5, <3>6, <3>7, Zenon DEF Held
  <2>4. \/ Held(tokens_', open', configs', upstreams_') /\ Depth(g, Len(g) + 1) = 1
        \/ Held(tokens_', open', configs', upstreams_') /\ Depth(g, Len(g) + 1) = 2
    BY <1>1, <1>4, <2>1, <2>2, <2>3, Zenon DEF Held
  <2> QED
    BY <2>4
<1>9. WholeText(tokens_')
  <2>1. Deeper(Closing) = -1
    BY WordIs DEF Deeper
  <2>2. Depth(g, Len(g) + 1) \in Int
    <3>1. Len(g) \in Nat
      BY <1>6, GrowsIs
    <3>2. Len(g) + 1 \in 1..(Len(g) + 1)
      BY <3>1
    <3> QED
      BY <1>6, <3>2, DepthGrown
  <2> QED
    BY <1>4, <1>5, <1>6, <1>8, <2>1, <2>2, WholeGrown
<1> QED
  BY <1>1, <1>3, <1>8, <1>9, StatementRead

\* A step of the parser.
LEMMA ParserReads == ASSUME ParserInv, TextInv, ParseConfig PROVE TextInv'
<1>1. ASSUME Throw PROVE TextInv'
  BY <1>1 DEF Throw, TextInv
<1>2. CASE EndOfFile
  <2>1. CASE Throw
    BY <1>1, <2>1
  <2>2. CASE ~Throw
    <3>1. /\ open = <<>> /\ expect = <<>> /\ outcome = "parsing" /\ outcome' = "ok"
          /\ tokens_' = tokens_ /\ open' = open /\ expect' = expect /\ words' = words
          /\ configs' = configs /\ upstreams_' = upstreams_
      BY <1>2, <2>2 DEF EndOfFile
    <3>2. ReadSoFar /\ words = <<>>
      BY <3>1 DEF TextInv
    <3>3. ReadSoFar'
      BY <3>1, <3>2 DEF ReadSoFar
    <3> QED
      BY <3>1, <3>2, <3>3 DEF TextInv
  <2> QED
    BY <2>1, <2>2
<1>3. ASSUME NEW t \in Candidates, ReadToken(t) PROVE TextInv'
  <2>1. CASE SyntaxError(t)
    BY <1>1, <2>1 DEF SyntaxError
  <2> QED
    BY <1>3, <2>1, BeginReads, ConsumeReads, OpenReads, EndReads, CloseReads DEF ReadToken
<1> QED
  BY <1>2, <1>3 DEF ParseConfig

\* A file of which nothing has been read.
LEMMA NothingRead == ASSUME ParserInit PROVE TextInv
<1>1. /\ tokens_ = <<>> /\ open = <<>> /\ expect = <<>> /\ words = <<>>
      /\ configs = <<>> /\ upstreams_ = <<>> /\ outcome = "parsing"
  BY DEF ParserInit
<1>2. IsSeq(<<>>) /\ Len(<<>>) = 0 /\ DOMAIN <<>> = {}
  <2>1. DOMAIN <<>> = {}
    OBVIOUS
  <2> QED
    BY <2>1, ShortAre, Zenon
<1>3. Starts(<<>>) = {} /\ \A name : Blocks(<<>>, name) = {}
  BY <1>2, Zenon DEF Starts, Blocks
<1>4. ASSUME NEW i \in 1..1 PROVE Depth(<<>>, i) = 0
  <2>1. 1..(i - 1) = {}
    OBVIOUS
  <2>2. Places(<<>>, Opening, i) = {} /\ Places(<<>>, Closing, i) = {}
    BY <2>1, Zenon DEF Places
  <2>3. Depth(<<>>, i) = Cardinality({}) - Cardinality({})
    BY <2>2, DepthIs, Zenon
  <2> QED
    BY <2>3, FS_EmptySet
<1>5. WholeText(<<>>)
  <2>1. PagesWhole(<<>>)
    BY <1>3 DEF PagesWhole
  <2>2. \A i \in 1..(Len(<<>>) + 1) : Depth(<<>>, i) >= 0
    BY <1>2, <1>4
  <2>3. ~(Len(<<>>) > 0)
    BY <1>2
  <2> QED
    BY <1>2, <2>1, <2>2, <2>3, Zenon DEF WholeText
<1>6. AtTop(<<>>, <<>>, <<>>)
  <2>1. ServersDone(<<>>, {}, <<>>)
    BY <1>2, FS_EmptySet, Zenon DEF ServersDone, ServersMean, Shut
  <2>2. UpstreamsDone(<<>>, {}, <<>>)
    <3>1. {<<>>[b + 1] : b \in {}} = {}
      OBVIOUS
    <3>2. UpstreamsMean(<<>>, {}, <<>>)
      BY <1>2, <3>1, UpstreamsMeanIs, Zenon
    <3> QED
      BY <3>2, Zenon DEF UpstreamsDone, Shut
  <2>3. Depth(<<>>, Len(<<>>) + 1) = 0
    BY <1>2, <1>4
  <2> QED
    BY <1>3, <2>1, <2>2, <2>3, Zenon DEF AtTop, Done
<1>7. ReadSoFar
  <2>1. Follows(<<>>, <<>>, <<>>)
    BY <1>2, FollowsNothing, Zenon
  <2> QED
    BY <1>1, <1>5, <1>6, <2>1, Zenon DEF ReadSoFar, Held
<1> QED
  BY <1>1, <1>7 DEF TextInv

\* At any point of a file the parser holds what its whole statements say.
LEMMA TextHolds == Spec => []TextInv
<1>1. Init => TextInv
  BY NothingRead DEF Init
<1>2. RoutesInv /\ TextInv /\ [Next]_vars => TextInv'
  <2> SUFFICES ASSUME RoutesInv, TextInv, [Next]_vars PROVE TextInv'
    OBVIOUS
  <2>1. ASSUME UNCHANGED parserVars PROVE TextInv'
    BY <2>1 DEF parserVars, TextInv, ReadSoFar, rule
  <2>2. CASE Loading
    BY <2>2, ParserReads DEF Loading, RoutesInv
  <2>3. CASE Usage \/ LoadFile \/ LoadFailed \/ TestOnly
    BY <2>1, <2>3 DEF Usage, LoadFile, LoadFailed, TestOnly
  <2>4. CASE StartWithFile
    BY <2>4 DEF StartWithFile, TextInv
  <2>5. CASE StartWithDefaults
    BY <2>1, <2>5 DEF StartWithDefaults
  <2>6. ASSUME NEW raw \in Raws, Refuse(raw) \/ BadRequest(raw) \/ Respond(raw) PROVE TextInv'
    BY <2>1, <2>6, Zenon DEF Refuse, BadRequest, Respond, Handled
  <2>7. CASE NextRequest
    BY <2>1, <2>7 DEF NextRequest
  <2>8. CASE UNCHANGED vars
    BY <2>1, <2>8 DEF vars
  <2> QED
    BY <2>2, <2>3, <2>4, <2>5, <2>6, <2>7, <2>8 DEF Next
<1> QED
  BY <1>1, <1>2, RoutesHold, PTL DEF Spec

\* A file that load accepts has matching braces, and configs_ and upstreams_
\* hold for each block, in order, what the directives of parse_server,
\* parse_location and parse_upstream say inside the braces of that block and
\* of no other, whatever the file.
THEOREM AcceptedAsWritten == Spec => []MeansWhatItSays
<1>1. TextInv => MeansWhatItSays
  <2> SUFFICES ASSUME TextInv, outcome = "ok"
      PROVE  /\ BracesMatch(tokens_)
             /\ ServersMean(tokens_, Blocks(tokens_, "server"), configs)
             /\ UpstreamsMean(tokens_, Blocks(tokens_, "upstream"), upstreams_)
    BY Zenon DEF MeansWhatItSays
  <2>1. ReadSoFar /\ words = <<>> /\ open = <<>>
    BY DEF TextInv
  <2>2. PICK g : Follows(tokens_, g, <<>>) /\ WholeText(g) /\ Held(g, <<>>, configs, upstreams_)
    BY <2>1, Zenon DEF ReadSoFar
  <2>3. tokens_ = g
    BY <2>2, FollowsItself
  <2>4. AtTop(tokens_, configs, upstreams_)
    <3>1. ASSUME NEW x, NEW y PROVE <<>> # <<x>> /\ <<>> # <<x, y>>
      OBVIOUS
    <3> QED
      BY <2>2, <2>3, <3>1, Zenon DEF Held
  <2>5. BracesMatch(tokens_)
    <3>1. Depth(tokens_, Len(tokens_) + 1) = 0
      BY <2>4, Zenon DEF AtTop
    <3>2. \A i \in 1..(Len(tokens_) + 1) : Depth(tokens_, i) >= 0
      BY <2>2, <2>3, Zenon DEF WholeText
    <3>3. DOMAIN tokens_ = 1..Len(tokens_) /\ Len(tokens_) \in Nat
      <4>1. IsSeq(tokens_)
        BY <2>2, <2>3, Zenon DEF WholeText
      <4> QED
        BY <4>1, SeqIs
    <3>4. \A i \in DOMAIN tokens_ : i \in 1..(Len(tokens_) + 1)
      BY <3>3
    <3>5. \A i \in DOMAIN tokens_ : Depth(tokens_, i) >= 0
      BY <3>2, <3>4, Zenon
    <3> QED
      BY <3>1, <3>5, Zenon DEF BracesMatch
  <2>6. /\ ServersMean(tokens_, Blocks(tokens_, "server"), configs)
        /\ UpstreamsMean(tokens_, Blocks(tokens_, "upstream"), upstreams_)
    BY <2>4, Zenon DEF AtTop, Done, ServersDone, UpstreamsDone
  <2> QED
    BY <2>5, <2>6, Zenon
<1> QED
  BY <1>1, TextHolds, PTL
=============================================================================

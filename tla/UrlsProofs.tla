----------------------------- MODULE UrlsProofs -----------------------------
(***************************************************************************)
(* The public address and the links built on it, for any hosts, prefixes   *)
(* and paths of any length.                                                *)
(*                                                                         *)
(* First what the operators on strings compute: each is defined by CHOOSE, *)
(* so there is a lemma that what it chooses exists (from the least and the *)
(* greatest element of a set of positions) and one that says what a join   *)
(* holds at every position (JoinedAt).  Then the invariant: every          *)
(* generator comes from the source, and the prefixes that configuration    *)
(* takes are clean.                                                        *)
(***************************************************************************)
EXTENDS Urls, SequenceTheorems, WellFoundedInduction, TLAPS

-----------------------------------------------------------------------------
(* Strings.                                                                *)

\* Every set of positions has a least and, if bounded, a greatest element.
LEMMA LeastExists ==
  ASSUME NEW T, T \subseteq Nat, T # {}
  PROVE  \E x \in T : \A y \in T : x <= y
<1> DEFINE R == OpToRel(<, Nat)
<1>1. \A x, y \in Nat : <<y, x>> \in R <=> y < x
  BY DEF OpToRel
<1>2. IsWellFoundedOn(R, Nat)
  BY NatLessThanWellFounded
<1> HIDE DEF R
<1>3. PICK x \in T : \A y \in T : ~(<<y, x>> \in R)
  BY <1>2, WFMin
<1>4. ASSUME NEW y \in T PROVE x <= y
  <2>1. x \in Nat /\ y \in Nat
    OBVIOUS
  <2>2. ~(y < x)
    BY <1>1, <1>3, <2>1
  <2> QED
    BY <2>1, <2>2
<1> QED
  BY <1>4

LEMMA GreatestExists ==
  ASSUME NEW N \in Nat, NEW T, T \subseteq 0..N, T # {}
  PROVE  \E x \in T : \A y \in T : y <= x
<1> DEFINE U == {N - x : x \in T}
<1>1. U \subseteq Nat /\ U # {}
  <2>1. \A x \in T : x \in Int /\ N - x \in Nat
    OBVIOUS
  <2>2. PICK x \in T : TRUE
    OBVIOUS
  <2>3. N - x \in U
    BY <2>2
  <2>4. U \subseteq Nat
    BY <2>1
  <2> QED
    BY <2>3, <2>4
<1> HIDE DEF U
<1>2. PICK u \in U : \A v \in U : u <= v
  BY <1>1, LeastExists
<1>3. PICK x \in T : \A y \in T : N - x <= N - y
  BY <1>2 DEF U
<1> QED
  BY <1>3

\* The fragment and what is before it.
LEMMA NoFragmentIs ==
  ASSUME NEW s \in Seq(Chars)
  PROVE  \E n \in 0..Len(s) : /\ NoFragment(s) = SubSeq(s, 1, n)
                              /\ \A i \in 1..n : s[i] # "#"
                              /\ n < Len(s) => s[n + 1] = "#"
<1> DEFINE Before(n) == SubSeq(s, 1, n)
           Ends(p) == ~Has(p, "#") /\ (p # s => s[Len(p) + 1] = "#")
<1>0. Len(s) \in Nat /\ \A i \in 1..Len(s) : s[i] \in Chars
  BY LenProperties, ElementOfSeq
<1>1. \A n \in 0..Len(s) : /\ Before(n) \in Seq(Chars) /\ Len(Before(n)) = n
                           /\ DOMAIN Before(n) = 1..n
                           /\ \A i \in 1..n : Before(n)[i] = s[i]
  <2> TAKE n \in 0..Len(s)
  <2>1. Before(n) \in Seq(Chars) /\ Len(Before(n)) = n /\ \A i \in 1..n : Before(n)[i] = s[i]
    BY <1>0, SubSeqProperties
  <2> QED
    BY <2>1, LenProperties
<1>2. Before(Len(s)) = s
  BY SubSeqFull
<1> HIDE DEF Before
<1>3. \E p \in {Before(n) : n \in 0..Len(s)} : Ends(p)
  <2>1. CASE \A i \in 1..Len(s) : s[i] # "#"
    <3>1. ~Has(s, "#")
      BY <2>1, LenProperties DEF Has
    <3> QED
      BY <1>0, <1>2, <3>1
  <2>2. CASE \E i \in 1..Len(s) : s[i] = "#"
    <3> DEFINE T == {i \in 1..Len(s) : s[i] = "#"}
    <3>1. T \subseteq Nat /\ T # {}
      BY <1>0, <2>2
    <3> HIDE DEF T
    <3>2. PICK k \in T : \A y \in T : k <= y
      BY <3>1, LeastExists
    <3>3. k \in 1..Len(s) /\ s[k] = "#" /\ \A i \in 1..(k - 1) : s[i] # "#"
      BY <1>0, <3>2 DEF T
    <3>4. k - 1 \in 0..Len(s) /\ (k - 1) + 1 = k
      BY <1>0, <3>3
    <3>5. Len(Before(k - 1)) = k - 1 /\ DOMAIN Before(k - 1) = 1..(k - 1)
          /\ \A i \in 1..(k - 1) : Before(k - 1)[i] = s[i]
      BY <1>1, <3>4
    <3>6. ~Has(Before(k - 1), "#")
      BY <3>3, <3>5 DEF Has
    <3>7. Ends(Before(k - 1))
      BY <3>3, <3>4, <3>5, <3>6
    <3> QED
      BY <3>4, <3>7
  <2> QED
    BY <2>1, <2>2
<1>4. NoFragment(s) \in {Before(n) : n \in 0..Len(s)} /\ Ends(NoFragment(s))
  BY <1>3 DEF NoFragment, Before
<1>5. PICK n \in 0..Len(s) : NoFragment(s) = Before(n) /\ Ends(Before(n))
  BY <1>4
<1>6. \A i \in 1..n : s[i] # "#"
  BY <1>1, <1>5 DEF Has
<1>7. n < Len(s) => s[n + 1] = "#"
  BY <1>0, <1>1, <1>5
<1> QED
  BY <1>5, <1>6, <1>7 DEF Before

\* How much of a prefix, and of a path, is not slashes at the seam.
LastKept(s, m) == m \in 0..Len(s) /\ (m > 0 => s[m] # "/") /\ \A i \in (m + 1)..Len(s) : s[i] = "/"
FirstKept(s, n) == n \in 1..(Len(s) + 1) /\ (n <= Len(s) => s[n] # "/") /\ \A i \in 1..(n - 1) : s[i] = "/"

\* There is one place to trim at, and trimming stops there.
LEMMA TrimEndIs ==
  ASSUME NEW s \in Seq(Chars)
  PROVE  /\ \E m \in 0..Len(s) : LastKept(s, m)
         /\ \A m \in 0..Len(s) : LastKept(s, m) => TrimEnd(s) = SubSeq(s, 1, m)
<1>0. Len(s) \in Nat
  BY LenProperties
<1>1. \E m \in 0..Len(s) : LastKept(s, m)
  <2> DEFINE T == {i \in 1..Len(s) : s[i] # "/"}
  <2>1. CASE T = {}
    BY <1>0, <2>1 DEF LastKept
  <2>2. CASE T # {}
    <3>1. T \subseteq 0..Len(s)
      BY <1>0
    <3>2. PICK m \in T : \A y \in T : y <= m
      <4> HIDE DEF T
      <4> QED
        BY <1>0, <2>2, <3>1, GreatestExists
    <3>3. LastKept(s, m)
      BY <1>0, <3>2 DEF LastKept
    <3> QED
      BY <3>3 DEF LastKept
  <2> QED
    BY <2>1, <2>2
<1>2. ASSUME NEW m, LastKept(s, m), NEW k, LastKept(s, k) PROVE m = k
  <2>1. CASE m < k
    BY <1>0, <1>2, <2>1 DEF LastKept
  <2>2. CASE k < m
    BY <1>0, <1>2, <2>2 DEF LastKept
  <2> QED
    BY <1>0, <1>2, <2>1, <2>2 DEF LastKept
<1>3. ASSUME NEW m \in 0..Len(s), LastKept(s, m) PROVE TrimEnd(s) = SubSeq(s, 1, m)
  <2> DEFINE kept == CHOOSE n \in 0..Len(s) : /\ n > 0 => s[n] # "/"
                                              /\ \A i \in (n + 1)..Len(s) : s[i] = "/"
  <2>1. LastKept(s, kept)
    BY <1>3 DEF LastKept
  <2>2. kept = m
    BY <1>2, <1>3, <2>1
  <2> QED
    BY <2>2 DEF TrimEnd
<1> QED
  BY <1>1, <1>3

LEMMA TrimStartIs ==
  ASSUME NEW s \in Seq(Chars)
  PROVE  /\ \E n \in 1..(Len(s) + 1) : FirstKept(s, n)
         /\ \A n \in 1..(Len(s) + 1) : FirstKept(s, n) => TrimStart(s) = SubSeq(s, n, Len(s))
<1>0. Len(s) \in Nat
  BY LenProperties
<1>1. \E n \in 1..(Len(s) + 1) : FirstKept(s, n)
  <2> DEFINE T == {i \in 1..Len(s) : s[i] # "/"}
  <2>1. CASE T = {}
    <3>1. FirstKept(s, Len(s) + 1)
      BY <1>0, <2>1 DEF FirstKept
    <3> QED
      BY <1>0, <3>1
  <2>2. CASE T # {}
    <3>1. T \subseteq Nat
      BY <1>0
    <3>2. PICK n \in T : \A y \in T : n <= y
      <4> HIDE DEF T
      <4> QED
        BY <2>2, <3>1, LeastExists
    <3>3. FirstKept(s, n)
      BY <1>0, <3>2 DEF FirstKept
    <3> QED
      BY <3>3 DEF FirstKept
  <2> QED
    BY <2>1, <2>2
<1>2. ASSUME NEW n, FirstKept(s, n), NEW k, FirstKept(s, k) PROVE n = k
  <2>1. CASE n < k
    BY <1>0, <1>2, <2>1 DEF FirstKept
  <2>2. CASE k < n
    BY <1>0, <1>2, <2>2 DEF FirstKept
  <2> QED
    BY <1>0, <1>2, <2>1, <2>2 DEF FirstKept
<1>3. ASSUME NEW n \in 1..(Len(s) + 1), FirstKept(s, n) PROVE TrimStart(s) = SubSeq(s, n, Len(s))
  <2> DEFINE kept == CHOOSE k \in 1..(Len(s) + 1) : /\ k <= Len(s) => s[k] # "/"
                                                    /\ \A i \in 1..(k - 1) : s[i] = "/"
  <2>1. FirstKept(s, kept)
    BY <1>3 DEF FirstKept
  <2>2. kept = n
    BY <1>2, <1>3, <2>1
  <2> QED
    BY <2>2 DEF TrimStart
<1> QED
  BY <1>1, <1>3

\* A join: the characters of the prefix up to the seam, one slash, and those of
\* the path after it.
JoinedAt(j, s, p, m, n) ==
  /\ j = SubSeq(s, 1, m) \o <<"/">> \o SubSeq(p, n, Len(p))
  /\ j \in Seq(Chars) /\ DOMAIN j = 1..Len(j)
  /\ Len(j) = m + 1 + (Len(p) - n + 1)
  /\ \A i \in 1..m : j[i] = s[i]
  /\ j[m + 1] = "/"
  /\ \A i \in (m + 2)..Len(j) : j[i] = p[n + i - m - 2]

LEMMA PrefixedPathIs ==
  ASSUME NEW s \in Seq(Chars), NEW p \in Seq(Chars), NEW m, LastKept(s, m), NEW n, FirstKept(p, n)
  PROVE  JoinedAt(PrefixedPath(s, p), s, p, m, n)
<1> DEFINE a == SubSeq(s, 1, m)
           b == SubSeq(p, n, Len(p))
           j == PrefixedPath(s, p)
<1>1. /\ Len(s) \in Nat /\ Len(p) \in Nat /\ m \in 0..Len(s) /\ n \in 1..(Len(p) + 1)
      /\ \A i \in 1..Len(s) : s[i] \in Chars
      /\ \A i \in 1..Len(p) : p[i] \in Chars
  BY LenProperties, ElementOfSeq DEF LastKept, FirstKept
<1>2. j = a \o <<"/">> \o b
  BY <1>1, TrimEndIs, TrimStartIs DEF PrefixedPath
<1>3. a \in Seq(Chars) /\ Len(a) = m /\ \A i \in 1..m : a[i] = s[i]
  BY <1>1, SubSeqProperties
<1>4. b \in Seq(Chars) /\ Len(b) = Len(p) - n + 1 /\ \A i \in 1..(Len(p) - n + 1) : b[i] = p[n + i - 1]
  BY <1>1, SubSeqProperties
<1>5. <<"/">> \in Seq(Chars) /\ Len(<<"/">>) = 1 /\ <<"/">>[1] = "/"
  <2>1. "/" \in Chars
    BY DEF Chars
  <2> QED
    BY <2>1
<1> HIDE DEF a, b, j
<1> DEFINE c == a \o <<"/">>
<1>6. c \in Seq(Chars) /\ Len(c) = m + 1 /\ (\A i \in 1..m : c[i] = a[i]) /\ c[m + 1] = "/"
  <2>1. c \in Seq(Chars) /\ Len(c) = Len(a) + 1
        /\ \A i \in 1..(Len(a) + 1) : c[i] = IF i <= Len(a) THEN a[i] ELSE <<"/">>[i - Len(a)]
    BY <1>3, <1>5, ConcatProperties
  <2> QED
    BY <1>1, <1>3, <1>5, <2>1
<1> HIDE DEF c
<1>7. j = c \o b
  BY <1>2 DEF c
<1>8. j \in Seq(Chars) /\ Len(j) = m + 1 + (Len(p) - n + 1)
      /\ \A i \in 1..Len(j) : j[i] = IF i <= m + 1 THEN c[i] ELSE b[i - (m + 1)]
  <2>1. j \in Seq(Chars) /\ Len(j) = Len(c) + Len(b)
        /\ \A i \in 1..(Len(c) + Len(b)) : j[i] = IF i <= Len(c) THEN c[i] ELSE b[i - Len(c)]
    BY <1>4, <1>6, <1>7, ConcatProperties
  <2> QED
    BY <1>1, <1>4, <1>6, <2>1
<1>9. DOMAIN j = 1..Len(j)
  BY <1>8, LenProperties
<1>10. ASSUME NEW i \in 1..m PROVE j[i] = s[i]
  <2>1. i \in 1..Len(j) /\ i <= m + 1
    BY <1>1, <1>8
  <2> QED
    BY <1>3, <1>6, <1>8, <2>1
<1>11. j[m + 1] = "/"
  <2>1. m + 1 \in 1..Len(j)
    BY <1>1, <1>8
  <2>2. m + 1 <= m + 1
    BY <1>1
  <2>3. j[m + 1] = c[m + 1]
    BY <1>8, <2>1, <2>2
  <2> QED
    BY <1>6, <2>3
<1>12. ASSUME NEW i \in (m + 2)..Len(j) PROVE j[i] = p[n + i - m - 2]
  <2>1. j[i] = b[i - (m + 1)] /\ i - (m + 1) \in 1..(Len(p) - n + 1)
    BY <1>1, <1>8
  <2>2. n + (i - (m + 1)) - 1 = n + i - m - 2
    BY <1>1, <1>8
  <2> QED
    BY <1>4, <2>1, <2>2
<1> QED
  BY <1>2, <1>8, <1>9, <1>10, <1>11, <1>12 DEF JoinedAt, j, a, b

\* What is kept of a string is in the string; without a fragment that is all.
LEMMA NoFragmentHas ==
  ASSUME NEW s \in Seq(Chars)
  PROVE  /\ NoFragment(s) \in Seq(Chars)
         /\ ~Has(NoFragment(s), "#")
         /\ \A c : Has(NoFragment(s), c) => Has(s, c)
         /\ ~Has(s, "#") => NoFragment(s) = s
<1>0. Len(s) \in Nat /\ DOMAIN s = 1..Len(s) /\ \A i \in 1..Len(s) : s[i] \in Chars
  BY LenProperties, ElementOfSeq
<1>1. PICK n \in 0..Len(s) : /\ NoFragment(s) = SubSeq(s, 1, n)
                             /\ \A i \in 1..n : s[i] # "#"
                             /\ n < Len(s) => s[n + 1] = "#"
  BY NoFragmentIs
<1> DEFINE p == SubSeq(s, 1, n)
<1>2. p \in Seq(Chars) /\ Len(p) = n /\ \A i \in 1..n : p[i] = s[i]
  BY <1>0, SubSeqProperties
<1>3. DOMAIN p = 1..n
  BY <1>2, LenProperties
<1>4. SubSeq(s, 1, Len(s)) = s
  BY SubSeqFull
<1>5. ASSUME ~Has(s, "#") PROVE n = Len(s)
  <2>1. n < Len(s) => n + 1 \in DOMAIN s /\ s[n + 1] = "#"
    BY <1>0, <1>1
  <2>2. ~(n < Len(s))
    BY <1>5, <2>1 DEF Has
  <2>3. n \in Nat /\ Len(s) \in Nat /\ n <= Len(s)
    BY <1>0
  <2> QED
    BY <2>2, <2>3
<1> HIDE DEF p
<1>6. ~Has(p, "#") /\ \A c : Has(p, c) => Has(s, c)
  BY <1>0, <1>1, <1>2, <1>3 DEF Has
<1> QED
  BY <1>1, <1>2, <1>4, <1>5, <1>6 DEF p

\* A link has only what its prefix or its path has, and the slash between.
LEMMA JoinHas ==
  ASSUME NEW s \in Seq(Chars), NEW p \in Seq(Chars)
  PROVE  /\ PrefixedPath(s, p) \in Seq(Chars)
         /\ \A c : Has(PrefixedPath(s, p), c) => c = "/" \/ Has(s, c) \/ Has(p, c)
<1> DEFINE j == PrefixedPath(s, p)
<1>0. Len(s) \in Nat /\ DOMAIN s = 1..Len(s) /\ Len(p) \in Nat /\ DOMAIN p = 1..Len(p)
  BY LenProperties
<1>1. PICK m \in 0..Len(s) : LastKept(s, m)
  BY TrimEndIs
<1>2. PICK n \in 1..(Len(p) + 1) : FirstKept(p, n)
  BY TrimStartIs
<1>3. JoinedAt(j, s, p, m, n)
  BY <1>1, <1>2, PrefixedPathIs
<1> HIDE DEF j
<1>4. j \in Seq(Chars)
  BY <1>3 DEF JoinedAt
<1>5. ASSUME NEW c, Has(j, c), c # "/" PROVE Has(s, c) \/ Has(p, c)
  <2>1. PICK i \in 1..Len(j) : j[i] = c
    BY <1>3, <1>5 DEF JoinedAt, Has
  <2>2. CASE i \in 1..m
    <3>1. s[i] = c /\ i \in 1..Len(s)
      BY <1>0, <1>1, <1>3, <2>1, <2>2 DEF JoinedAt
    <3> QED
      BY <1>0, <3>1 DEF Has
  <2>3. CASE i \in (m + 2)..Len(j)
    <3>1. p[n + i - m - 2] = c
      BY <1>3, <2>1, <2>3 DEF JoinedAt
    <3>2. n + i - m - 2 \in 1..Len(p)
      <4>1. Len(j) = m + 1 + (Len(p) - n + 1)
        BY <1>3 DEF JoinedAt
      <4> QED
        BY <1>0, <1>1, <1>2, <2>3, <4>1
    <3> QED
      BY <1>0, <3>1, <3>2 DEF Has
  <2>4. i # m + 1
    BY <1>3, <1>5, <2>1 DEF JoinedAt
  <2>5. Len(j) \in Nat
    BY <1>4, LenProperties
  <2> QED
    BY <1>0, <1>1, <2>1, <2>2, <2>3, <2>4, <2>5
<1> QED
  BY <1>4, <1>5 DEF j

\* Slashes at the seam make no difference.
LEMMA SeamIsOneSlash ==
  ASSUME NEW s \in Seq(Chars), NEW p \in Seq(Chars)
  PROVE  PrefixedPath(s \o <<"/">>, <<"/">> \o p) = PrefixedPath(s, p)
<1> DEFINE t == s \o <<"/">>
           q == <<"/">> \o p
<1>0. Len(s) \in Nat /\ Len(p) \in Nat
  BY LenProperties
<1>1. <<"/">> \in Seq(Chars) /\ Len(<<"/">>) = 1 /\ <<"/">>[1] = "/"
  <2>1. "/" \in Chars
    BY DEF Chars
  <2> QED
    BY <2>1
<1>2. t \in Seq(Chars) /\ Len(t) = Len(s) + 1
      /\ (\A i \in 1..Len(s) : t[i] = s[i]) /\ t[Len(s) + 1] = "/"
  <2>1. t \in Seq(Chars) /\ Len(t) = Len(s) + Len(<<"/">>)
        /\ \A i \in 1..(Len(s) + Len(<<"/">>)) : t[i] = IF i <= Len(s) THEN s[i] ELSE <<"/">>[i - Len(s)]
    BY <1>1, ConcatProperties
  <2> HIDE DEF t
  <2> QED
    BY <1>0, <1>1, <2>1
<1>3. q \in Seq(Chars) /\ Len(q) = Len(p) + 1
      /\ q[1] = "/" /\ \A i \in 2..(Len(p) + 1) : q[i] = p[i - 1]
  <2>1. q \in Seq(Chars) /\ Len(q) = Len(<<"/">>) + Len(p)
        /\ \A i \in 1..(Len(<<"/">>) + Len(p)) :
             q[i] = IF i <= Len(<<"/">>) THEN <<"/">>[i] ELSE p[i - Len(<<"/">>)]
    BY <1>1, ConcatProperties
  <2> HIDE DEF q
  <2> QED
    BY <1>0, <1>1, <2>1
<1>4. PICK m \in 0..Len(s) : LastKept(s, m)
  BY TrimEndIs
<1>5. PICK n \in 1..(Len(p) + 1) : FirstKept(p, n)
  BY TrimStartIs
<1>6. SubSeq(t, 1, m) = SubSeq(s, 1, m)
  <2>1. CASE m = 0
    BY <2>1, SubSeqEmpty
  <2>2. CASE m > 0
    BY <1>0, <1>1, <2>2, SubSeqOfConcat1
  <2> QED
    BY <1>0, <2>1, <2>2
<1>7. SubSeq(q, n + 1, Len(q)) = SubSeq(p, n, Len(p))
  <2>1. CASE n = Len(p) + 1
    BY <1>0, <1>3, <2>1, SubSeqEmpty
  <2>2. CASE n <= Len(p)
    <3>1. n + 1 \in (Len(<<"/">>) + 1)..(Len(<<"/">>) + Len(p))
          /\ Len(q) \in (Len(<<"/">>) + 1)..(Len(<<"/">>) + Len(p))
      BY <1>0, <1>1, <1>3, <2>2
    <3>2. SubSeq(q, n + 1, Len(q)) = SubSeq(p, n + 1 - Len(<<"/">>), Len(q) - Len(<<"/">>))
      BY <1>1, <3>1, SubSeqOfConcat2
    <3>3. n + 1 - Len(<<"/">>) = n /\ Len(q) - Len(<<"/">>) = Len(p)
      BY <1>0, <1>1, <1>3
    <3> QED
      BY <3>2, <3>3
  <2> QED
    BY <1>0, <2>1, <2>2
<1> HIDE DEF t, q
<1>8. LastKept(t, m)
  <2>1. ASSUME NEW i \in (m + 1)..Len(t) PROVE t[i] = "/"
    <3>1. CASE i \in (m + 1)..Len(s)
      BY <1>0, <1>2, <1>4, <3>1 DEF LastKept
    <3>2. CASE i = Len(s) + 1
      BY <1>2, <3>2
    <3> QED
      BY <1>0, <1>2, <3>1, <3>2
  <2> QED
    BY <1>0, <1>2, <1>4, <2>1 DEF LastKept
<1>9. FirstKept(q, n + 1)
  <2>1. ASSUME NEW i \in 1..n PROVE q[i] = "/"
    <3>1. CASE i = 1
      BY <1>3, <3>1
    <3>2. CASE i # 1
      BY <1>0, <1>3, <1>5, <3>2 DEF FirstKept
    <3> QED
      BY <3>1, <3>2
  <2>2. n + 1 <= Len(q) => q[n + 1] # "/"
    BY <1>0, <1>3, <1>5 DEF FirstKept
  <2> QED
    BY <1>0, <1>3, <2>1, <2>2 DEF FirstKept
<1>10. JoinedAt(PrefixedPath(s, p), s, p, m, n) /\ JoinedAt(PrefixedPath(t, q), t, q, m, n + 1)
  BY <1>2, <1>3, <1>4, <1>5, <1>8, <1>9, PrefixedPathIs
<1> QED
  BY <1>6, <1>7, <1>10 DEF JoinedAt, t, q

\* Joining adds no empty segment.
LEMMA JoinAddsNoSegment ==
  ASSUME NEW s \in Seq(Chars), NEW p \in Seq(Chars), ~Doubled(s), ~Doubled(p)
  PROVE  ~Doubled(PrefixedPath(s, p))
<1> DEFINE j == PrefixedPath(s, p)
<1>0. Len(s) \in Nat /\ Len(p) \in Nat
  BY LenProperties
<1>1. PICK m \in 0..Len(s) : LastKept(s, m)
  BY TrimEndIs
<1>2. PICK n \in 1..(Len(p) + 1) : FirstKept(p, n)
  BY TrimStartIs
<1>3. JoinedAt(j, s, p, m, n)
  BY <1>1, <1>2, PrefixedPathIs
<1> HIDE DEF j
<1>4. Len(j) = m + Len(p) - n + 2 /\ Len(j) \in Nat
  <2>1. Len(j) = m + 1 + (Len(p) - n + 1)
    BY <1>3 DEF JoinedAt
  <2> QED
    BY <1>0, <1>1, <1>2, <2>1
<1>5. ASSUME NEW i \in 1..(Len(j) - 1), j[i] = "/", j[i + 1] = "/" PROVE FALSE
  <2>1. CASE i < m
    <3>1. i \in 1..(Len(s) - 1) /\ i \in 1..m /\ i + 1 \in 1..m
      BY <1>0, <1>1, <1>4, <2>1
    <3>2. s[i] = "/" /\ s[i + 1] = "/"
      BY <1>3, <1>5, <3>1 DEF JoinedAt
    <3> QED
      BY <3>1, <3>2 DEF Doubled
  <2>2. CASE i = m
    <3>1. m \in 1..m /\ m > 0
      BY <1>1, <1>4, <2>2
    <3>2. s[m] = "/"
      BY <1>3, <1>5, <2>2, <3>1 DEF JoinedAt
    <3> QED
      BY <1>1, <3>1, <3>2 DEF LastKept
  <2>3. CASE i = m + 1
    <3>1. j[i + 1] = p[n] /\ n <= Len(p)
      <4>1. i + 1 \in (m + 2)..Len(j) /\ n + (i + 1) - m - 2 = n
        BY <1>0, <1>4, <2>3
      <4>2. j[i + 1] = p[n + (i + 1) - m - 2]
        BY <1>3, <4>1 DEF JoinedAt
      <4>3. n <= Len(p)
        BY <1>0, <1>4, <2>3
      <4> QED
        BY <4>1, <4>2, <4>3
    <3> QED
      BY <1>2, <1>5, <3>1 DEF FirstKept
  <2>4. CASE i > m + 1
    <3> DEFINE k == n + i - m - 2
    <3>1. i \in (m + 2)..Len(j) /\ i + 1 \in (m + 2)..Len(j) /\ n + (i + 1) - m - 2 = k + 1
      BY <1>0, <1>4, <2>4
    <3>2. j[i] = p[k] /\ j[i + 1] = p[n + (i + 1) - m - 2]
      BY <1>3, <3>1 DEF JoinedAt
    <3>3. k \in 1..(Len(p) - 1)
      BY <1>0, <1>4, <2>4
    <3> HIDE DEF k
    <3> QED
      BY <1>5, <3>1, <3>2, <3>3 DEF Doubled
  <2> QED
    BY <1>0, <1>4, <2>1, <2>2, <2>3, <2>4
<1> QED
  BY <1>5 DEF Doubled, j

-----------------------------------------------------------------------------
(* The invariant.                                                          *)

\* A prefix that neither panics nor spoils what is appended to it.
Clean(s) == s \in Seq(Chars) /\ ~Has(s, "?") /\ ~Has(s, "#") /\ ~Has(s, " ")

SourceOK ==
  \/ source.is \in {"unset", "refused", "missing", "automatic"}
  \/ /\ source.is = "internal" /\ source.prefix \in Prefixes
     /\ source.checked => InternalPrefix(source.prefix)
  \/ source.is = "explicit" /\ source.url \in RawUrls /\ ParsePublicUrl(source.url) = "ok"

ConfiguredOK == configured = IF source.is = "explicit" THEN FromPublicUrl(source.url) ELSE NoUrls

\* Whatever was extracted was extracted from some request, from the last one
\* while it is handled.
ReplyOK ==
  /\ \/ reply = Rejected(0)
     \/ source.is \notin {"unset", "refused"} /\ \E h \in Headers : reply = FromRequestParts(source, h)
  /\ request = NoRequest \/ (request \in Headers /\ reply = FromRequestParts(source, request))

\* The generators a link may be built with.
Generators == {urls \in {configured} \cup IF reply.status = 200 THEN {reply.urls} ELSE {} : urls # NoUrls}

LinkOK ==
  \/ link = NoLink
  \/ \E path \in Paths, urls \in Generators : link \in {Internal(urls, path), External(urls, path)}

UrlsInv == SourceOK /\ ConfiguredOK /\ ReplyOK /\ LinkOK

\* A checked public URL has a clean prefix and a whole origin.
LEMMA PublicUrlIsClean ==
  ASSUME NEW raw \in RawUrls, ParsePublicUrl(raw) = "ok"
  PROVE  /\ Clean(FromPublicUrl(raw).script)
         /\ FromPublicUrl(raw).origin = [scheme |-> raw.scheme, cred |-> raw.cred, host |-> raw.host]
         /\ FromPublicUrl(raw).origin \in Origins
         /\ FromPublicUrl(raw) \in UrlsType
<1> DEFINE urls == FromPublicUrl(raw)
<1>1. raw \in RawUrl /\ raw.path \in Seq(Chars)
  BY UrlsAssumption DEF RawUrls, RawUrl
<1>2. ~Has(raw.path, "?") /\ ~Has(raw.path, "#") /\ raw.host # "malformed" /\ Parses(raw.path)
      /\ raw.scheme \in {"http", "https"} /\ raw.host # ""
  BY DEF ParsePublicUrl
<1>3. Clean(raw.path)
  BY <1>1, <1>2, NoFragmentHas DEF Clean, Parses
<1>4. Clean(<<"/">>)
  <2>1. "/" \in Chars
    BY DEF Chars
  <2>2. <<"/">> \in Seq(Chars) /\ DOMAIN <<"/">> = {1} /\ <<"/">>[1] = "/"
    BY <2>1
  <2> QED
    BY <2>2 DEF Clean, Has
<1>5. urls.script = (IF raw.path = <<>> THEN <<"/">> ELSE raw.path)
      /\ urls.origin = [scheme |-> raw.scheme, cred |-> raw.cred, host |-> raw.host]
      /\ urls = [script |-> urls.script, origin |-> urls.origin]
  BY DEF FromPublicUrl
<1> HIDE DEF urls
<1>6. urls.origin \in Origins
  <2>1. raw.cred \in BOOLEAN /\ raw.host \in Hosts
    BY <1>1, <1>2 DEF RawUrl
  <2>2. raw.scheme \in {"http", "https"}
    BY <1>2
  <2>3. [scheme |-> raw.scheme, cred |-> raw.cred, host |-> raw.host] \in Origins
    BY <2>1, <2>2 DEF Origins
  <2> QED
    BY <1>5, <2>3
<1>7. Clean(urls.script)
  BY <1>3, <1>4, <1>5
<1>8. urls \in UrlsType
  BY <1>5, <1>6, <1>7 DEF UrlsType, Clean
<1> QED
  BY <1>5, <1>6, <1>7, <1>8 DEF urls

LEMMA InternalIsClean ==
  ASSUME NEW s \in Prefixes, InternalPrefix(s)
  PROVE  Clean(s) /\ InternalOnly(s) \in UrlsType
<1>1. s \in Seq(Chars) /\ ~Has(s, "?") /\ ~Has(s, "#") /\ ~Has(s, " ")
  BY UrlsAssumption DEF InternalPrefix
<1> QED
  BY <1>1 DEF Clean, InternalOnly, UrlsType

\* An origin says its scheme, which no missing one has.
LEMMA OriginsAreWhole == NoOrigin \notin Origins
  BY DEF Origins, NoOrigin

\* What extraction can answer, from any source.
LEMMA RepliesAre ==
  ASSUME SourceOK, NEW h \in Headers, source.is \notin {"unset", "refused"}
  PROVE  LET r == FromRequestParts(source, h) IN
         /\ r.status # 0
         /\ r.status \in {-1, 0, 400, 500, 502} \/ r \in [status : {200}, urls : UrlsType]
         /\ source.is = "explicit" => r = Accepted(FromPublicUrl(source.url))
         /\ source.is = "internal" /\ InternalPrefix(source.prefix) => r = Accepted(InternalOnly(source.prefix))
         /\ source.is = "internal" /\ ~InternalPrefix(source.prefix) => r = Panicked
         /\ r = Panicked => source.is = "internal"
<1> DEFINE r == FromRequestParts(source, h)
<1>1. CASE source.is = "missing"
  BY <1>1 DEF FromRequestParts, Rejected, Panicked
<1>2. CASE source.is = "explicit"
  <2>1. r = Accepted(FromPublicUrl(source.url)) /\ FromPublicUrl(source.url) \in UrlsType
    BY <1>2, PublicUrlIsClean DEF FromRequestParts, SourceOK
  <2> QED
    BY <1>2, <2>1 DEF Accepted, Panicked
<1>3. CASE source.is = "internal"
  <2>1. ASSUME InternalPrefix(source.prefix)
        PROVE  r = Accepted(InternalOnly(source.prefix)) /\ InternalOnly(source.prefix) \in UrlsType
    BY <1>3, <2>1, InternalIsClean DEF FromRequestParts, SourceOK
  <2>2. ASSUME ~InternalPrefix(source.prefix) PROVE r = Panicked
    BY <1>3, <2>2 DEF FromRequestParts
  <2> QED
    BY <1>3, <2>1, <2>2 DEF Accepted, Panicked
<1>4. CASE source.is = "automatic"
  <2>1. r = Detect(h)
    BY <1>4 DEF FromRequestParts
  <2> DEFINE urls == [script |-> IF h.script.is = "absent" THEN <<"/">> ELSE h.script.value,
                      origin |-> [scheme |-> IF h.proto = "absent" THEN "http" ELSE h.proto,
                                  cred |-> FALSE, host |-> HostOf(h)]]
  <2>2. Detect(h) \in {Rejected(502), Rejected(400), Accepted(urls)}
    BY DEF Detect
  <2>3. CASE h.proto \notin {"opaque", "other"} /\ HostOf(h) \in Hosts
    <3>1. h.script.value \in Seq(Chars) /\ <<"/">> \in Seq(Chars)
      <4>1. "/" \in Chars
        BY DEF Chars
      <4>2. h.script.value \in {<<>>} \cup Prefixes
        BY DEF Headers
      <4>3. <<>> \in Seq(Chars) /\ <<"/">> \in Seq(Chars)
        BY <4>1
      <4> QED
        BY <4>2, <4>3, UrlsAssumption
    <3>2. [scheme |-> IF h.proto = "absent" THEN "http" ELSE h.proto, cred |-> FALSE, host |-> HostOf(h)] \in Origins
      BY <2>3 DEF Headers, Origins
    <3>3. urls \in UrlsType
      BY <3>1, <3>2 DEF UrlsType
    <3> HIDE DEF urls
    <3> QED
      BY <1>4, <2>1, <2>2, <3>3 DEF Rejected, Accepted, Panicked
  <2>4. CASE ~(h.proto \notin {"opaque", "other"} /\ HostOf(h) \in Hosts)
    BY <1>4, <2>1, <2>4 DEF Detect, Rejected, Panicked
  <2> QED
    BY <2>3, <2>4
<1> QED
  BY <1>1, <1>2, <1>3, <1>4 DEF SourceOK

LEMMA UrlsInitInv == UrlsInit => UrlsInv
  BY DEF UrlsInit, UrlsInv, SourceOK, ConfiguredOK, ReplyOK, LinkOK

\* No link is there before there is a source.
LEMMA NoSourceNoLink == UrlsInv /\ source.is = "unset" => link = NoLink /\ reply = Rejected(0)
<1> SUFFICES ASSUME UrlsInv, source.is = "unset" PROVE link = NoLink /\ reply = Rejected(0)
  OBVIOUS
<1>1. configured = NoUrls /\ reply = Rejected(0)
  BY DEF UrlsInv, ConfiguredOK, ReplyOK
<1>2. Generators = {}
  BY <1>1 DEF Generators, Rejected
<1> QED
  BY <1>1, <1>2 DEF UrlsInv, LinkOK

LEMMA UrlsStepInv == UrlsInv /\ [UrlsNext]_urlsVars => UrlsInv'
<1> SUFFICES ASSUME UrlsInv, [UrlsNext]_urlsVars PROVE UrlsInv'
  OBVIOUS
<1>1. ASSUME NEW raw \in RawUrls, Configure(raw) PROVE UrlsInv'
  <2>1. link' = NoLink /\ reply' = Rejected(0) /\ request' = request /\ configured = NoUrls
    BY <1>1, NoSourceNoLink DEF Configure, UrlsInv, ConfiguredOK
  <2>2. request = NoRequest
    <3>1. ASSUME request \in Headers PROVE FromRequestParts(source, request).status # 0
      BY <1>1 DEF Configure, FromRequestParts, Detect, Rejected, Accepted, Panicked
    <3> QED
      BY <1>1, <3>1, NoSourceNoLink DEF Configure, UrlsInv, ReplyOK, Rejected
  <2>3. SourceOK' /\ ConfiguredOK'
    BY <1>1, <2>1 DEF Configure, SourceOK, ConfiguredOK
  <2> QED
    BY <2>1, <2>2, <2>3 DEF UrlsInv, ReplyOK, LinkOK
<1>2. ASSUME NEW src \in OtherSources, Register(src) PROVE UrlsInv'
  <2>1. link' = NoLink /\ reply' = Rejected(0) /\ request' = request /\ configured' = NoUrls /\ source' = src
    BY <1>2, NoSourceNoLink DEF Register, UrlsInv, ConfiguredOK
  <2>2. request = NoRequest
    <3>1. ASSUME request \in Headers PROVE FromRequestParts(source, request).status # 0
      BY <1>2 DEF Register, FromRequestParts, Detect, Rejected, Accepted, Panicked
    <3> QED
      BY <1>2, <3>1, NoSourceNoLink DEF Register, UrlsInv, ReplyOK, Rejected
  <2>3. SourceOK' /\ ConfiguredOK'
    BY <2>1 DEF OtherSources, SourceOK, ConfiguredOK
  <2> QED
    BY <2>1, <2>2, <2>3 DEF UrlsInv, ReplyOK, LinkOK
<1>7. ASSUME NEW prefix \in Prefixes, RegisterInternal(prefix) PROVE UrlsInv'
  <2>1. /\ link' = NoLink /\ reply' = Rejected(0) /\ request' = request /\ configured' = NoUrls
        /\ source' = IF InternalPrefix(prefix) THEN [is |-> "internal", checked |-> TRUE, prefix |-> prefix]
                     ELSE [is |-> "refused", why |-> "panic"]
    BY <1>7, NoSourceNoLink DEF RegisterInternal, UrlsInv, ConfiguredOK
  <2>2. request = NoRequest
    <3>1. ASSUME request \in Headers PROVE FromRequestParts(source, request).status # 0
      BY <1>7 DEF RegisterInternal, FromRequestParts, Detect, Rejected, Accepted, Panicked
    <3> QED
      BY <1>7, <3>1, NoSourceNoLink DEF RegisterInternal, UrlsInv, ReplyOK, Rejected
  <2>3. SourceOK' /\ ConfiguredOK'
    BY <2>1 DEF SourceOK, ConfiguredOK
  <2> QED
    BY <2>1, <2>2, <2>3 DEF UrlsInv, ReplyOK, LinkOK
<1>3. ASSUME NEW h \in Headers, Extract(h) PROVE UrlsInv'
  BY <1>3 DEF Extract, UrlsInv, SourceOK, ConfiguredOK, ReplyOK, LinkOK
<1>4. CASE Handle
  BY <1>4 DEF Handle, UrlsInv, SourceOK, ConfiguredOK, ReplyOK, LinkOK, Generators
<1>5. ASSUME NEW path \in Paths, Link(path) PROVE UrlsInv'
  <2>1. UNCHANGED <<source, configured, request, reply>> /\ Generators' = Generators
    BY <1>5 DEF Link, Generators
  <2>2. \E urls \in Generators : link' \in {Internal(urls, path), External(urls, path)}
    BY <1>5 DEF Link, Generators
  <2> QED
    BY <2>1, <2>2 DEF UrlsInv, SourceOK, ConfiguredOK, ReplyOK, LinkOK
<1>6. CASE UNCHANGED urlsVars
  BY <1>6 DEF urlsVars, UrlsInv, SourceOK, ConfiguredOK, ReplyOK, LinkOK, Generators
<1> QED
  BY <1>1, <1>2, <1>3, <1>4, <1>5, <1>6, <1>7 DEF UrlsNext

LEMMA UrlsInvariant == UrlsSpec => []UrlsInv
  BY UrlsInitInv, UrlsStepInv, PTL DEF UrlsSpec

-----------------------------------------------------------------------------
(* What follows from it.                                                   *)

\* What was extracted, from any request.
LEMMA ReplyIs ==
  ASSUME UrlsInv
  PROVE  /\ reply.status \in {-1, 0, 400, 500, 502} \/ reply \in [status : {200}, urls : UrlsType]
         /\ reply.status # 0 /\ source.is = "explicit" => reply = Accepted(FromPublicUrl(source.url))
         /\ reply.status # 0 /\ source.is = "internal" =>
              reply = IF InternalPrefix(source.prefix) THEN Accepted(InternalOnly(source.prefix)) ELSE Panicked
         /\ reply = Panicked => source.is = "internal"
<1>1. CASE reply = Rejected(0)
  BY <1>1 DEF Rejected, Panicked
<1>2. CASE reply # Rejected(0)
  BY <1>2, RepliesAre DEF UrlsInv, ReplyOK
<1> QED
  BY <1>1, <1>2

\* With a fixed source links are built with one generator, and its prefix is
\* clean; with any other, with one of the right type.
LEMMA GeneratorsAre ==
  ASSUME UrlsInv, NEW urls \in Generators
  PROVE  /\ urls \in UrlsType
         /\ source.is = "explicit" => urls = FromPublicUrl(source.url) /\ urls.origin # NoOrigin
         /\ source.is = "internal" => urls = InternalOnly(source.prefix) /\ InternalPrefix(source.prefix)
         /\ Fixed => Clean(urls.script)
<1>1. urls # NoUrls /\ (urls = configured \/ (reply.status = 200 /\ urls = reply.urls))
  BY DEF Generators
<1>2. CASE source.is = "explicit"
  <2>1. urls = FromPublicUrl(source.url) /\ source.url \in RawUrls /\ ParsePublicUrl(source.url) = "ok"
    BY <1>1, <1>2, ReplyIs DEF UrlsInv, SourceOK, ConfiguredOK, Accepted
  <2>2. urls \in UrlsType /\ urls.origin # NoOrigin /\ Clean(urls.script)
    BY <2>1, PublicUrlIsClean, OriginsAreWhole
  <2> QED
    BY <1>2, <2>1, <2>2
<1>3. CASE source.is = "internal"
  <2>1. urls = InternalOnly(source.prefix) /\ source.prefix \in Prefixes /\ InternalPrefix(source.prefix)
    <3>1. configured = NoUrls /\ reply.status = 200 /\ urls = reply.urls
      BY <1>1, <1>3 DEF UrlsInv, ConfiguredOK
    <3>2. reply = IF InternalPrefix(source.prefix) THEN Accepted(InternalOnly(source.prefix)) ELSE Panicked
      BY <1>3, <3>1, ReplyIs
    <3>3. InternalPrefix(source.prefix)
      BY <3>1, <3>2 DEF Panicked
    <3> QED
      BY <1>3, <3>1, <3>2, <3>3 DEF UrlsInv, SourceOK, Accepted
  <2>2. urls \in UrlsType /\ Clean(urls.script)
    BY <2>1, InternalIsClean DEF InternalOnly
  <2> QED
    BY <1>3, <2>1, <2>2
<1>4. CASE ~Fixed
  <2>1. configured = NoUrls
    BY <1>4 DEF UrlsInv, ConfiguredOK, Fixed
  <2>2. urls = reply.urls /\ reply.status = 200
    BY <1>1, <2>1
  <2> QED
    BY <1>4, <2>2, ReplyIs DEF Fixed
<1> QED
  BY <1>2, <1>3, <1>4 DEF Fixed

\* A link that was built, and what with.
LEMMA LinkIs ==
  ASSUME UrlsInv, link.outcome # "none"
  PROVE  \E urls \in Generators, path \in Paths :
           /\ urls.script \in Seq(Chars) /\ path \in Seq(Chars)
           /\ link.urls = urls /\ link.path = path
           /\ link.url = NoFragment(PrefixedPath(urls.script, path))
           /\ link.outcome = "ok" => Parses(PrefixedPath(urls.script, path))
           /\ link.outcome \in {"panic", "InvalidUri"} => ~Parses(PrefixedPath(urls.script, path))
           /\ link.outcome = "InternalOnly" => urls.origin = NoOrigin
<1>1. link # NoLink
  BY DEF NoLink, Internal
<1>2. PICK path \in Paths, urls \in Generators : link \in {Internal(urls, path), External(urls, path)}
  BY <1>1 DEF UrlsInv, LinkOK
<1>3. urls.script \in Seq(Chars) /\ path \in Seq(Chars)
  BY GeneratorsAre, UrlsAssumption DEF UrlsType
<1>4. CASE link = Internal(urls, path)
  BY <1>3, <1>4 DEF Internal
<1>5. CASE link = External(urls, path)
  BY <1>3, <1>5 DEF External
<1> QED
  BY <1>2, <1>4, <1>5

\* Type correctness of configured and extracted generators and of links; no
\* link has a fragment (UrlsTypeOK).
THEOREM UrlsTypeCorrect == UrlsSpec => []UrlsTypeOK
<1>1. UrlsInv => UrlsTypeOK
  <2> SUFFICES ASSUME UrlsInv PROVE UrlsTypeOK
    OBVIOUS
  <2>1. configured \in UrlsType
    <3>1. <<>> \in Seq(Chars)
      OBVIOUS
    <3>2. NoUrls \in UrlsType
      BY <3>1 DEF NoUrls, UrlsType
    <3> QED
      BY <3>2, PublicUrlIsClean DEF UrlsInv, ConfiguredOK, SourceOK
  <2>2. link.url \in Seq(Chars) /\ ~Has(link.url, "#")
    <3>1. CASE link = NoLink
      <4>1. <<>> \in Seq(Chars)
        OBVIOUS
      <4>2. link.url = NoFragment(PrefixedPath(<<>>, <<>>))
        BY <3>1 DEF NoLink, Internal, NoUrls
      <4> QED
        BY <4>1, <4>2, JoinHas, NoFragmentHas
    <3>2. CASE link # NoLink
      <4>1. link.outcome # "none"
        BY <3>2 DEF UrlsInv, LinkOK, Internal, External
      <4> QED
        BY <4>1, LinkIs, JoinHas, NoFragmentHas
    <3> QED
      BY <3>1, <3>2
  <2> QED
    BY <2>1, <2>2, ReplyIs DEF UrlsTypeOK
<1> QED
  BY <1>1, UrlsInvariant, PTL

\* Links of any prefix and path keep both but the slashes where they meet
\* (LinkJoins).
THEOREM LinksJoin == UrlsSpec => []LinkJoins
<1>1. UrlsInv => LinkJoins
  <2> SUFFICES ASSUME UrlsInv, link.outcome = "ok", Fixed, ~Has(link.path, "#")
               PROVE  LET s == link.urls.script
                          p == link.path
                      IN /\ \E m \in 0..Len(s), n \in 1..(Len(p) + 1) :
                              /\ link.url = SubSeq(s, 1, m) \o <<"/">> \o SubSeq(p, n, Len(p))
                              /\ \A i \in (m + 1)..Len(s) : s[i] = "/"
                              /\ \A i \in 1..(n - 1) : p[i] = "/"
                         /\ link.url = Internal([link.urls EXCEPT !.script = s \o <<"/">>], <<"/">> \o p).url
                         /\ ~Doubled(s) /\ ~Doubled(p) => ~Doubled(link.url)
    BY DEF LinkJoins
  <2> DEFINE s == link.urls.script
             p == link.path
             j == PrefixedPath(s, p)
  <2>1. link.urls \in Generators /\ s \in Seq(Chars) /\ p \in Seq(Chars) /\ link.url = NoFragment(j)
    BY LinkIs
  <2>2. Clean(s) /\ link.urls \in UrlsType
    BY <2>1, GeneratorsAre
  <2>3. link.url = j
    <3>1. j \in Seq(Chars) /\ ~Has(j, "#")
      BY <2>1, <2>2, JoinHas DEF Clean
    <3> QED
      BY <2>1, <3>1, NoFragmentHas
  <2>4. \E m \in 0..Len(s), n \in 1..(Len(p) + 1) : LastKept(s, m) /\ FirstKept(p, n) /\ JoinedAt(j, s, p, m, n)
    <3> HIDE DEF s, p, j
    <3>1. PICK m \in 0..Len(s) : LastKept(s, m)
      BY <2>1, TrimEndIs
    <3>2. PICK n \in 1..(Len(p) + 1) : FirstKept(p, n)
      BY <2>1, TrimStartIs
    <3>3. JoinedAt(j, s, p, m, n)
      BY <2>1, <3>1, <3>2, PrefixedPathIs DEF j
    <3> QED
      BY <3>1, <3>2, <3>3
  <2>5. \E m \in 0..Len(s), n \in 1..(Len(p) + 1) :
          /\ link.url = SubSeq(s, 1, m) \o <<"/">> \o SubSeq(p, n, Len(p))
          /\ \A i \in (m + 1)..Len(s) : s[i] = "/"
          /\ \A i \in 1..(n - 1) : p[i] = "/"
    <3> HIDE DEF s, p, j
    <3> QED
      BY <2>3, <2>4 DEF LastKept, FirstKept, JoinedAt
  <2>6. link.url = Internal([link.urls EXCEPT !.script = s \o <<"/">>], <<"/">> \o p).url
    <3> DEFINE urls == [link.urls EXCEPT !.script = s \o <<"/">>]
    <3>1. urls.script = s \o <<"/">>
      BY <2>2 DEF UrlsType
    <3>2. Internal(urls, <<"/">> \o p).url = NoFragment(PrefixedPath(urls.script, <<"/">> \o p))
      BY DEF Internal
    <3>3. PrefixedPath(s \o <<"/">>, <<"/">> \o p) = j
      BY <2>1, SeamIsOneSlash
    <3> QED
      BY <2>1, <3>1, <3>2, <3>3
  <2>7. ~Doubled(s) /\ ~Doubled(p) => ~Doubled(link.url)
    BY <2>1, <2>3, JoinAddsNoSegment
  <2> QED
    BY <2>5, <2>6, <2>7
<1> QED
  BY <1>1, UrlsInvariant, PTL

\* No prefix that was checked makes a request panic or a link panic or fail, or
\* puts a query into one (FixedPrefixIsSound).
THEOREM FixedPrefixesAreSound == UrlsSpec => []FixedPrefixIsSound
<1>1. UrlsInv => (reply = Panicked => source.is = "internal" /\ ~source.checked)
  <2> SUFFICES ASSUME UrlsInv, reply = Panicked PROVE source.is = "internal" /\ ~source.checked
    OBVIOUS
  <2>1. source.is = "internal" /\ reply.status = -1
    BY ReplyIs DEF Panicked
  <2>2. ~InternalPrefix(source.prefix)
    BY <2>1, ReplyIs DEF Accepted
  <2> QED
    BY <2>1, <2>2 DEF UrlsInv, SourceOK
<1>2. UrlsInv => FixedPrefixIsSound
  <2> SUFFICES ASSUME UrlsInv, Fixed, link.outcome # "none"
               PROVE  /\ link.outcome \in {"panic", "InvalidUri"} => Has(link.path, " ")
                      /\ Has(link.url, "?") => Has(link.path, "?")
                      /\ link.outcome = "InternalOnly" => source.is = "internal"
    BY <1>1 DEF FixedPrefixIsSound
  <2>1. PICK urls \in Generators, path \in Paths :
           /\ urls.script \in Seq(Chars) /\ path \in Seq(Chars)
           /\ link.urls = urls /\ link.path = path
           /\ link.url = NoFragment(PrefixedPath(urls.script, path))
           /\ link.outcome \in {"panic", "InvalidUri"} => ~Parses(PrefixedPath(urls.script, path))
           /\ link.outcome = "InternalOnly" => urls.origin = NoOrigin
    BY LinkIs
  <2>2. Clean(urls.script) /\ (source.is = "explicit" => urls.origin # NoOrigin)
    BY GeneratorsAre
  <2>3. ASSUME NEW c \in {" ", "?"}, Has(NoFragment(PrefixedPath(urls.script, path)), c)
        PROVE  Has(path, c)
    <3>1. PrefixedPath(urls.script, path) \in Seq(Chars)
      BY <2>1, JoinHas
    <3>2. Has(PrefixedPath(urls.script, path), c)
      BY <2>3, <3>1, NoFragmentHas
    <3>3. c = "/" \/ Has(urls.script, c) \/ Has(path, c)
      BY <2>1, <3>2, JoinHas
    <3>4. c # "/" /\ ~Has(urls.script, c)
      BY <2>2, <2>3 DEF Clean
    <3> QED
      BY <3>3, <3>4
  <2> QED
    BY <2>1, <2>2, <2>3 DEF Parses, Fixed
<1> QED
  BY <1>2, UrlsInvariant, PTL

\* Detection behind an honest proxy gives what configuring the public URL
\* gives (DetectionAgrees).
THEOREM DetectedIsConfigured == UrlsSpec => []DetectionAgrees
<1>1. UrlsInv => DetectionAgrees
  <2> SUFFICES ASSUME UrlsInv, source.is = "automatic", request # NoRequest
               PROVE  /\ reply.status = 200 => PublicHost(reply.urls) \in Hosts
                      /\ \A raw \in RawUrls :
                           LET urls == FromPublicUrl([raw EXCEPT !.cred = FALSE]) IN
                           (ParsePublicUrl(raw) = "ok" /\ [request EXCEPT !.host = HostOf(request)] = ProxyHeaders(urls))
                             => reply = Accepted(urls)
    BY DEF DetectionAgrees
  <2>1. request \in Headers /\ reply = Detect(request)
    BY DEF UrlsInv, ReplyOK, FromRequestParts
  <2>2. reply.status = 200 => PublicHost(reply.urls) \in Hosts
    <3> SUFFICES ASSUME reply.status = 200 PROVE PublicHost(reply.urls) \in Hosts
      OBVIOUS
    <3> DEFINE scheme == IF request.proto = "absent" THEN "http" ELSE request.proto
    <3>1. /\ request.proto \notin {"opaque", "other"} /\ HostOf(request) \in Hosts
          /\ reply.urls.origin = [scheme |-> scheme, cred |-> FALSE, host |-> HostOf(request)]
      BY <2>1 DEF Detect, Rejected, Accepted
    <3>2. scheme # "none"
      BY <2>1, <3>1 DEF Headers
    <3> HIDE DEF scheme
    <3>3. reply.urls.origin # NoOrigin /\ reply.urls.origin.host = HostOf(request)
      BY <3>1, <3>2 DEF NoOrigin
    <3> QED
      BY <3>1, <3>3 DEF PublicHost
  <2>3. ASSUME NEW raw \in RawUrls, ParsePublicUrl(raw) = "ok",
               [request EXCEPT !.host = HostOf(request)] = ProxyHeaders(FromPublicUrl([raw EXCEPT !.cred = FALSE]))
        PROVE  reply = Accepted(FromPublicUrl([raw EXCEPT !.cred = FALSE]))
    <3> DEFINE urls == FromPublicUrl([raw EXCEPT !.cred = FALSE])
    <3>1. raw \in RawUrl /\ raw.scheme \in {"http", "https"} /\ raw.host \in Hosts
      BY <2>3 DEF RawUrls, RawUrl, ParsePublicUrl
    <3>2. urls = [script |-> urls.script, origin |-> [scheme |-> raw.scheme, cred |-> FALSE, host |-> raw.host]]
      BY <3>1 DEF RawUrl, FromPublicUrl
    <3> HIDE DEF urls
    <3>3. request.script = [is |-> "text", value |-> urls.script] /\ request.proto = raw.scheme
          /\ request.forwarded = raw.host
      <4> DEFINE seen == [request EXCEPT !.host = HostOf(request)]
      <4>1. seen.script = request.script /\ seen.proto = request.proto /\ seen.forwarded = request.forwarded
        BY <2>1 DEF Headers
      <4>2. seen = ProxyHeaders(urls)
        BY <2>3 DEF urls
      <4> HIDE DEF seen
      <4> QED
        BY <3>2, <4>1, <4>2 DEF ProxyHeaders
    <3>4. HostOf(request) = raw.host
      BY <3>1, <3>3, UrlsAssumption DEF HostOf
    <3>5. Detect(request) = Accepted([script |-> urls.script,
                                      origin |-> [scheme |-> raw.scheme, cred |-> FALSE, host |-> raw.host]])
      <4>1. request.script.is = "text" /\ request.script.value = urls.script
        BY <3>3
      <4>2. request.proto \notin {"opaque", "other", "absent"} /\ request.proto = raw.scheme
        BY <3>1, <3>3
      <4>3. HostOf(request) = raw.host /\ raw.host \in Hosts
        BY <3>1, <3>4
      <4> QED
        BY <4>1, <4>2, <4>3 DEF Detect
    <3> QED
      BY <2>1, <3>2, <3>5 DEF urls
  <2> QED
    BY <2>2, <2>3
<1> QED
  BY <1>1, UrlsInvariant, PTL

\* A link that names a host has it from its prefix, or from its path where the
\* prefix is slashes and the path goes on with a backslash.
LEMMA JoinNamesHost ==
  ASSUME NEW s \in Seq(Chars), NEW p \in Seq(Chars), Len(s) > 0, s[1] = "/",
         NamesHost(NoFragment(PrefixedPath(s, p)))
  PROVE  \/ NamesHost(s)
         \/ /\ \A i \in DOMAIN s : s[i] = "/"
            /\ \E n \in DOMAIN p : p[n] = "\\" /\ \A i \in 1..(n - 1) : p[i] = "/"
<1> DEFINE j == PrefixedPath(s, p)
<1>0. Len(s) \in Nat /\ Len(p) \in Nat /\ DOMAIN s = 1..Len(s) /\ DOMAIN p = 1..Len(p)
  BY LenProperties
<1>1. PICK m \in 0..Len(s) : LastKept(s, m)
  BY TrimEndIs
<1>2. PICK n \in 1..(Len(p) + 1) : FirstKept(p, n)
  BY TrimStartIs
<1>3. JoinedAt(j, s, p, m, n)
  BY <1>1, <1>2, PrefixedPathIs
<1> HIDE DEF j
<1>4. j \in Seq(Chars) /\ Len(j) = m + 1 + (Len(p) - n + 1)
  BY <1>3 DEF JoinedAt
<1>5. Len(j) > 1 /\ j[1] \in {"/", "\\"} /\ j[2] \in {"/", "\\"}
  <2>1. PICK k \in 0..Len(j) : NoFragment(j) = SubSeq(j, 1, k)
    BY <1>4, NoFragmentIs
  <2>2. Len(j) \in Nat /\ \A i \in 1..k : j[i] \in Chars
    BY <1>4, LenProperties, ElementOfSeq
  <2>3. Len(SubSeq(j, 1, k)) = k /\ \A i \in 1..k : SubSeq(j, 1, k)[i] = j[i]
    BY <2>2, SubSeqProperties
  <2>4. k > 1 /\ NoFragment(j)[1] \in {"/", "\\"} /\ NoFragment(j)[2] \in {"/", "\\"}
    BY <2>1, <2>3 DEF NamesHost, j
  <2> QED
    BY <2>1, <2>2, <2>3, <2>4
<1>6. CASE m = 0
  <2>1. n <= Len(p) /\ 2 \in (m + 2)..Len(j) /\ n + 2 - m - 2 = n
    BY <1>0, <1>4, <1>5, <1>6
  <2>2. j[2] = p[n + 2 - m - 2]
    BY <1>3, <2>1 DEF JoinedAt
  <2>3. p[n] = "\\" /\ n \in DOMAIN p /\ \A i \in 1..(n - 1) : p[i] = "/"
    BY <1>0, <1>2, <1>5, <2>1, <2>2 DEF FirstKept
  <2>4. \A i \in DOMAIN s : s[i] = "/"
    BY <1>0, <1>1, <1>6 DEF LastKept
  <2> QED
    BY <2>3, <2>4
<1>7. CASE m = 1
  BY <1>1, <1>7 DEF LastKept
<1>8. CASE m > 1
  <2>1. 1 \in 1..m /\ 2 \in 1..m /\ Len(s) > 1
    BY <1>0, <1>8
  <2>2. s[1] = j[1] /\ s[2] = j[2]
    BY <1>3, <2>1 DEF JoinedAt
  <2> QED
    BY <1>5, <2>1, <2>2 DEF NamesHost
<1> QED
  BY <1>0, <1>6, <1>7, <1>8

\* InternalKeepsHost fails for these causes alone, whatever the source and the
\* path: a public_url whose path names a host, or a path that goes on with a
\* backslash on a prefix of slashes (HostOnlyAsWritten).
THEOREM HostIsKept == UrlsSpec => []HostOnlyAsWritten
<1>1. UrlsInv => HostOnlyAsWritten
  <2> SUFFICES ASSUME UrlsInv, InternalLink, NamesHost(link.url)
               PROVE  \/ source.is = "explicit" /\ NamesHost(link.urls.script)
                      \/ /\ \A i \in DOMAIN link.urls.script : link.urls.script[i] = "/"
                         /\ \E n \in DOMAIN link.path :
                              link.path[n] = "\\" /\ \A i \in 1..(n - 1) : link.path[i] = "/"
    BY DEF HostOnlyAsWritten
  <2>1. PICK urls \in Generators, path \in Paths :
           /\ urls.script \in Seq(Chars) /\ path \in Seq(Chars)
           /\ link.urls = urls /\ link.path = path
           /\ link.url = NoFragment(PrefixedPath(urls.script, path))
    BY LinkIs DEF InternalLink
  <2>2. Len(urls.script) > 0 /\ urls.script[1] = "/"
    <3>1. CASE source.is = "explicit"
      <4>1. urls = FromPublicUrl(source.url) /\ source.url \in RawUrls
        BY <3>1, GeneratorsAre DEF UrlsInv, SourceOK
      <4>2. urls.script = IF source.url.path = <<>> THEN <<"/">> ELSE source.url.path
        BY <4>1 DEF FromPublicUrl
      <4>3. source.url.path = <<>> \/ source.url.path[1] = "/"
        BY <4>1 DEF RawUrls
      <4>4. urls.script # <<>> /\ urls.script[1] = "/"
        BY <4>2, <4>3
      <4> QED
        BY <2>1, <4>4, EmptySeq
    <3>2. CASE source.is = "internal"
      <4>1. urls.script = source.prefix /\ InternalPrefix(source.prefix)
        BY <3>2, GeneratorsAre DEF InternalOnly
      <4>2. urls.script # <<>> /\ urls.script[1] = "/"
        BY <4>1 DEF InternalPrefix
      <4> QED
        BY <2>1, <4>2, EmptySeq
    <3> QED
      BY <3>1, <3>2 DEF InternalLink, Fixed
  <2>3. ASSUME source.is # "explicit" PROVE ~NamesHost(urls.script)
    <3>1. urls.script = source.prefix /\ InternalPrefix(source.prefix)
      BY <2>3, GeneratorsAre DEF InternalLink, Fixed, InternalOnly
    <3>2. ASSUME Len(source.prefix) > 1 PROVE source.prefix[2] \notin {"/", "\\"}
      <4>1. 2 \in DOMAIN source.prefix
        BY <2>1, <3>1, <3>2, LenProperties
      <4> QED
        BY <3>1, <3>2, <4>1 DEF InternalPrefix, Has
    <3> QED
      BY <3>1, <3>2 DEF NamesHost
  <2> QED
    BY <2>1, <2>2, <2>3, JoinNamesHost
<1> QED
  BY <1>1, UrlsInvariant, PTL
=============================================================================

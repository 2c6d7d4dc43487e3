----------------------------- MODULE WalkProofs -----------------------------
(***************************************************************************)
(* When a walk comes to its end, and what it has met by then.  A walk is   *)
(* known by the sequence of its cells (IsWalk): the proofs about the lists *)
(* of tinyxml2 and of ikcp.h show what an operation makes of that          *)
(* sequence, and never walk themselves.                                    *)
(***************************************************************************)
EXTENDS Walks, Integers, SequencesExt, SequenceTheorems, FiniteSetTheorems,
        WellFoundedInduction, TLAPS

\* A set of numbers that is not empty has a least one.
LEMMA Least ==
  ASSUME NEW T, T \subseteq Nat, T # {}
  PROVE  \E x \in T : \A y \in T : x <= y
<1> DEFINE R == OpToRel(<, Nat)
<1>1. IsWellFoundedOn(R, Nat)
  BY NatLessThanWellFounded
<1>2. \A a, b \in Nat : a < b => <<a, b>> \in R
  BY DEF OpToRel
<1> HIDE DEF R
<1>3. PICK x \in T : \A y \in T : ~ (<<y, x>> \in R)
  BY <1>1, WFMin
<1>4. x \in Nat /\ \A y \in T : y \in Nat /\ ~ (y < x)
  BY <1>2, <1>3
<1> QED BY <1>4

\* A set that holds 0, and with a number the next one, holds them all.
LEMMA InductionSet ==
  ASSUME NEW T, 0 \in T, \A n \in Nat : n \in T => n + 1 \in T
  PROVE  Nat \subseteq T
<1> SUFFICES ASSUME Nat \ T # {} PROVE FALSE
  OBVIOUS
<1>1. PICK x \in Nat \ T : \A y \in Nat \ T : x <= y
  BY Least
<1>2. x # 0 /\ x - 1 \in Nat /\ (x - 1) + 1 = x /\ ~ (x <= x - 1)
  BY <1>1
<1> QED BY <1>1, <1>2

\* A set of numbers with an upper bound has a greatest one.
LEMMA Greatest ==
  ASSUME NEW T, T \subseteq Nat, T # {}, NEW most \in Nat, \A x \in T : x <= most
  PROVE  \E x \in T : \A y \in T : y <= x
<1> DEFINE D == {k \in Nat : most - k \in T}
<1>1. PICK x \in T : x <= most
  OBVIOUS
<1>2. most - x \in Nat /\ most - (most - x) = x
  BY <1>1
<1>3. D \subseteq Nat /\ D # {}
  BY <1>1, <1>2
<1>4. PICK k \in D : \A l \in D : k <= l
  <2> HIDE DEF D
  <2> QED BY <1>3, Least
<1>5. k \in Nat /\ most - k \in T
  BY <1>4
<1>6. ASSUME NEW y \in T PROVE y <= most - k
  <2>1. y \in Nat /\ y <= most
    OBVIOUS
  <2>2. most - y \in Nat /\ most - (most - y) = y
    BY <2>1
  <2>3. most - y \in D
    BY <2>2
  <2> QED BY <1>4, <1>5, <2>1, <2>3
<1> QED BY <1>5, <1>6

-----------------------------------------------------------------------------

\* The cell at place i of s, or the end of the walk.
At(s, i, end) == IF i \in 1 .. Len(s) THEN s[i] ELSE end

\* s holds the cells of a walk, in order.
IsWalk(s, from, link, end) ==
  /\ from = At(s, 1, end)
  /\ \A i \in 1 .. Len(s) : s[i] # end /\ link[s[i]] = At(s, i + 1, end)

\* No two places of s hold the same cell.
Once(s) == \A i, j \in 1 .. Len(s) : s[i] = s[j] => i = j

\* What Walk computes is the sequence of the walk.
LEMMA WalkFound ==
  ASSUME NEW S, NEW s \in Seq(S), NEW from, NEW link, NEW end, NEW most \in Nat,
         IsWalk(s, from, link, end), Len(s) <= most
  PROVE  Walk(from, link, end, most) = s
<1> DEFINE at[i \in 1 .. most] ==
             IF i = 1 THEN from
             ELSE LET before == at[i - 1] IN IF before = end THEN end ELSE link[before]
           Steps(f) == [i \in 1 .. most |->
             IF i = 1 THEN from
             ELSE LET before == f[i - 1] IN IF before = end THEN end ELSE link[before]]
           met == [i \in 1 .. most |-> At(s, i, end)]
<1>0. PICK k \in Nat : Len(s) = k /\ k <= most
  BY LenProperties
<1>1. met = Steps(met)
  <2>1. ASSUME NEW i \in 1 .. most
        PROVE  met[i] = IF i = 1 THEN from
                        ELSE IF met[i - 1] = end THEN end ELSE link[met[i - 1]]
    <3>1. CASE i = 1
      BY <3>1 DEF IsWalk
    <3>2. CASE i # 1
      <4>1. i - 1 \in 1 .. most /\ (i - 1) + 1 = i
        BY <3>2
      <4>2. met[i - 1] = At(s, i - 1, end) /\ met[i] = At(s, i, end)
        BY <4>1
      <4>3. CASE i - 1 \in 1 .. k
        <5>1. At(s, i - 1, end) = s[i - 1] /\ s[i - 1] # end /\ link[s[i - 1]] = At(s, i, end)
          BY <1>0, <4>1, <4>3 DEF At, IsWalk
        <5> HIDE DEF met
        <5> QED BY <3>2, <4>2, <5>1
      <4>4. CASE i - 1 \notin 1 .. k
        <5>1. i \notin 1 .. k
          BY <4>1, <4>4
        <5>2. At(s, i - 1, end) = end /\ At(s, i, end) = end
          BY <1>0, <4>4, <5>1 DEF At
        <5> HIDE DEF met
        <5> QED BY <3>2, <4>2, <5>2
      <4> QED BY <4>3, <4>4
    <3> QED BY <3>1, <3>2
  <2>2. met = [i \in 1 .. most |-> met[i]]
    OBVIOUS
  <2> HIDE DEF met
  <2> QED BY <2>1, <2>2
<1>2. at = Steps(at)
  <2>1. \E f : f = [i \in 1 .. most |->
             IF i = 1 THEN from
             ELSE LET before == f[i - 1] IN IF before = end THEN end ELSE link[before]]
    BY <1>1
  <2> HIDE DEF met
  <2> QED BY <2>1
<1>3. \A i \in 1 .. most : at[i] = met[i]
  <2> DEFINE T == {n \in Nat : n \in 1 .. most => at[n] = met[n]}
  <2> HIDE DEF at, met
  <2>1. 0 \in T
    OBVIOUS
  <2>2. ASSUME NEW n \in Nat, n \in T PROVE n + 1 \in T
    <3> SUFFICES ASSUME n + 1 \in 1 .. most PROVE at[n + 1] = met[n + 1]
      OBVIOUS
    <3>1. (n + 1) - 1 = n
      OBVIOUS
    <3>2. CASE n = 0
      BY <1>1, <1>2, <3>2
    <3>3. CASE n # 0
      <4>1. at[n] = met[n] /\ n + 1 # 1
        BY <2>2, <3>3
      <4>2. at[n + 1] = IF at[n] = end THEN end ELSE link[at[n]]
        BY <1>2, <3>1, <4>1
      <4>3. met[n + 1] = IF met[n] = end THEN end ELSE link[met[n]]
        BY <1>1, <3>1, <4>1
      <4> QED BY <4>1, <4>2, <4>3
    <3> QED BY <3>2, <3>3
  <2> HIDE DEF T
  <2>3. Nat \subseteq T
    BY <2>1, <2>2, InductionSet
  <2> QED BY <2>3 DEF T
<1>4. \A i \in 1 .. most : at[i] = At(s, i, end)
  <2> HIDE DEF at
  <2> QED BY <1>3
<1> HIDE DEF met
<1>5. {i \in 1 .. most : at[i] # end} = 1 .. k
  <2> HIDE DEF at
  <2>1. \A i \in 1 .. most : i \in 1 .. k <=> at[i] # end
    BY <1>0, <1>4 DEF At, IsWalk
  <2> QED BY <1>0, <2>1
<1>6. Cardinality(1 .. k) = k
  BY <1>0, FS_Interval
<1>7. Walk(from, link, end, most) = [i \in 1 .. k |-> at[i]]
  <2>1. Walk(from, link, end, most) =
          [i \in 1 .. Cardinality({i \in 1 .. most : at[i] # end}) |-> at[i]]
    BY DEF Walk
  <2> HIDE DEF at
  <2> QED BY <1>5, <1>6, <2>1
<1>8. \A i \in 1 .. k : at[i] = s[i]
  <2> HIDE DEF at
  <2> QED BY <1>0, <1>4 DEF At
<1>9. s = [i \in 1 .. k |-> s[i]]
  BY <1>0, LenProperties
<1> HIDE DEF at
<1> QED BY <1>7, <1>8, <1>9
\* A sequence without repetition is no longer than its set of cells is large.
LEMMA OnceShort ==
  ASSUME NEW S, IsFiniteSet(S), NEW s \in Seq(S), Once(s)
  PROVE  Len(s) \in Nat /\ Len(s) <= Cardinality(S)
<1>1. PICK k \in Nat : Len(s) = k
  BY LenProperties
<1>2. s \in [1 .. k -> S]
  BY <1>1, LenProperties
<1>3. s \in Injection(1 .. k, S)
  BY <1>1, <1>2 DEF Once, Injection, IsInjective
<1>4. Cardinality(1 .. k) <= Cardinality(S)
  BY <1>3, FS_Injection
<1>5. Cardinality(1 .. k) = k
  BY FS_Interval
<1> QED BY <1>1, <1>4, <1>5

\* The cells that a walk has met after some steps.
IsBegun(s, from, link) ==
  /\ s # <<>> => s[1] = from
  /\ \A i \in 1 .. Len(s) - 1 : link[s[i]] = s[i + 1]

\* A link that stays in a finite set, never leads back to the first cell and never
\* from two cells to one, leads to the end, and meets no cell twice.
LEMMA WalkEnds ==
  ASSUME NEW S, IsFiniteSet(S), NEW link, NEW end, end \notin S, NEW from \in S \cup {end},
         \A c \in S : link[c] \in S \cup {end} /\ (from # end => link[c] # from),
         \A a, b \in S : link[a] = link[b] /\ link[a] # end => a = b
  PROVE  \E s \in Seq(S) : IsWalk(s, from, link, end) /\ Once(s)
<1> DEFINE Fits(s) == s \in Seq(S) /\ Once(s) /\ IsBegun(s, from, link)
           T == {k \in Nat : \E s : Fits(s) /\ Len(s) = k}
<1>1. Cardinality(S) \in Nat
  BY FS_CardinalityType
<1>2. \A k \in T : k <= Cardinality(S)
  BY OnceShort
<1>3. <<>> \in Seq(S) /\ Len(<<>>) = 0
  BY EmptySeq
<1>4. Fits(<<>>)
  BY <1>3 DEF Once, IsBegun
<1>5. 0 \in T
  BY <1>3, <1>4
<1>6. PICK k \in T : \A l \in T : l <= k
  <2> HIDE DEF T
  <2>1. T \subseteq Nat /\ T # {}
    BY <1>5 DEF T
  <2> QED BY <1>1, <1>2, <2>1, Greatest
<1>7. PICK s : Fits(s) /\ Len(s) = k
  BY <1>6
<1>8. k \in Nat /\ s \in Seq(S) /\ Once(s) /\ IsBegun(s, from, link)
      /\ \A i \in 1 .. k : s[i] \in S
  BY <1>6, <1>7, ElementOfSeq
<1>9. ASSUME NEW x \in S, \A i \in 1 .. k : s[i] # x,
             k = 0 => x = from, k # 0 => link[s[k]] = x
      PROVE  FALSE
  <2>1. PICK t : t = Append(s, x)
    OBVIOUS
  <2>2. /\ t \in Seq(S) /\ Len(t) = k + 1 /\ t # <<>>
        /\ \A i \in 1 .. k : t[i] = s[i]
        /\ t[k + 1] = x
    BY <1>7, <1>8, <2>1, AppendProperties
  <2>3. Once(t)
    BY <1>7, <1>8, <1>9, <2>2 DEF Once
  <2>4. t[1] = from
    <3>1. CASE k = 0
      BY <1>9, <2>2, <3>1
    <3>2. CASE k # 0
      <4>1. s # <<>> /\ 1 \in 1 .. k
        BY <1>3, <1>7, <1>8, <3>2
      <4> QED BY <1>8, <2>2, <4>1 DEF IsBegun
    <3> QED BY <3>1, <3>2
  <2>5. ASSUME NEW i \in 1 .. k PROVE link[t[i]] = t[i + 1]
    <3>1. CASE i = k
      BY <1>8, <1>9, <2>2, <3>1
    <3>2. CASE i # k
      <4>1. i \in 1 .. k - 1 /\ i + 1 \in 1 .. k
        BY <1>8, <3>2
      <4> QED BY <1>7, <1>8, <2>2, <4>1 DEF IsBegun
    <3> QED BY <3>1, <3>2
  <2>6. Fits(t)
    BY <1>8, <2>2, <2>3, <2>4, <2>5 DEF IsBegun
  <2>7. k + 1 \in T
    BY <1>8, <2>2, <2>6
  <2> QED BY <1>6, <1>8, <2>7
<1>10. CASE k = 0
  <2>1. s = <<>> /\ from = end
    BY <1>3, <1>7, <1>8, <1>9, <1>10, EmptySeq
  <2>2. IsWalk(s, from, link, end)
    BY <1>3, <2>1 DEF IsWalk, At
  <2> QED BY <1>8, <2>2
<1>11. CASE k # 0
  <2>1. k \in 1 .. k /\ 1 \in 1 .. k /\ s # <<>> /\ s[k] \in S
    BY <1>3, <1>7, <1>8, <1>11
  <2>2. s[1] = from /\ from # end
    BY <1>8, <2>1 DEF IsBegun
  <2>3. link[s[k]] = end
    <3> SUFFICES ASSUME link[s[k]] # end PROVE FALSE
      OBVIOUS
    <3>1. PICK x \in S : link[s[k]] = x
      BY <2>1
    <3>2. ASSUME NEW i \in 1 .. k, s[i] = x PROVE FALSE
      <4>1. i # 1
        BY <2>1, <2>2, <3>1, <3>2
      <4>2. i - 1 \in 1 .. k - 1 /\ i - 1 \in 1 .. k /\ (i - 1) + 1 = i /\ i - 1 # k
        BY <1>8, <4>1
      <4>3. link[s[i - 1]] = s[i]
        BY <1>7, <1>8, <4>2 DEF IsBegun
      <4>4. s[i - 1] = s[k]
        BY <1>8, <2>1, <3>1, <3>2, <4>2, <4>3
      <4> QED BY <1>7, <1>8, <2>1, <4>2, <4>4 DEF Once
    <3> QED BY <1>9, <1>11, <3>1, <3>2
  <2>4. ASSUME NEW i \in 1 .. k PROVE s[i] # end /\ link[s[i]] = At(s, i + 1, end)
    <3>1. s[i] # end
      BY <1>8
    <3>2. CASE i = k
      BY <1>7, <1>8, <2>3, <3>1, <3>2 DEF At
    <3>3. CASE i # k
      <4>1. i \in 1 .. k - 1 /\ i + 1 \in 1 .. k
        BY <1>8, <3>3
      <4> QED BY <1>7, <1>8, <3>1, <4>1 DEF IsBegun, At
    <3> QED BY <3>2, <3>3
  <2>5. IsWalk(s, from, link, end)
    BY <1>7, <2>1, <2>2, <2>4 DEF IsWalk, At
  <2> QED BY <1>8, <2>5
<1> QED BY <1>8, <1>10, <1>11

\* The walk from the other end, along links that go the other way, meets the same
\* cells in the opposite order.
LEMMA WalkBack ==
  ASSUME NEW S, IsFiniteSet(S), NEW end, end \notin S,
         NEW from \in S \cup {end}, NEW link, NEW to \in S \cup {end}, NEW back,
         NEW most \in Nat, Cardinality(S) <= most,
         \A c \in S : link[c] \in S \cup {end} /\ back[c] \in S \cup {end},
         \A c \in S : from = c <=> back[c] = end,
         \A c \in S : to = c <=> link[c] = end,
         \A a, b \in S : link[a] = b <=> back[b] = a,
         from = end => S = {}
  PROVE  Walk(from, link, end, most) =
           [i \in 1 .. Len(Walk(to, back, end, most)) |->
              Walk(to, back, end, most)[Len(Walk(to, back, end, most)) - i + 1]]
<1>1. \A c \in S : link[c] \in S \cup {end} /\ (from # end => link[c] # from)
  OBVIOUS
<1>2. \A a, b \in S : link[a] = link[b] /\ link[a] # end => a = b
  OBVIOUS
<1>3. PICK s \in Seq(S) : IsWalk(s, from, link, end) /\ Once(s)
  BY <1>1, <1>2, WalkEnds
<1>4. PICK k \in Nat : Len(s) = k /\ k <= most
  <2>1. Cardinality(S) \in Nat
    BY FS_CardinalityType
  <2> QED BY <1>3, <2>1, OnceShort
<1>5. \A i \in 1 .. k : s[i] \in S /\ s[i] # end
  BY <1>4, ElementOfSeq
<1> DEFINE t == [i \in 1 .. k |-> s[k - i + 1]]
<1>6. t \in [1 .. k -> S]
  BY <1>4, <1>5
<1>7. t \in Seq(S) /\ Len(t) = k
  <2> HIDE DEF t
  <2> QED BY <1>4, <1>6, SeqDef
<1>8. to = At(t, 1, end)
  <2>1. CASE k = 0
    <3>1. from = end
      BY <1>3, <1>4, <2>1 DEF IsWalk, At
    <3> HIDE DEF t
    <3> QED BY <1>7, <2>1, <3>1 DEF At
  <2>2. CASE k # 0
    <3>1. k \in 1 .. k /\ k + 1 \notin 1 .. k /\ 1 \in 1 .. k
      BY <1>4, <2>2
    <3>2. link[s[k]] = end
      BY <1>3, <1>4, <3>1 DEF IsWalk, At
    <3>3. to = s[k]
      BY <1>5, <3>1, <3>2
    <3>4. t[1] = s[k]
      BY <1>4, <3>1
    <3> HIDE DEF t
    <3> QED BY <1>7, <3>1, <3>3, <3>4 DEF At
  <2> QED BY <2>1, <2>2
<1>9. ASSUME NEW i \in 1 .. k PROVE t[i] # end /\ back[t[i]] = At(t, i + 1, end)
  <2>1. k - i + 1 \in 1 .. k /\ t[i] = s[k - i + 1]
    BY <1>4
  <2>2. t[i] # end
    BY <1>5, <2>1
  <2>3. CASE i = k
    <3>1. t[i] = s[1] /\ s[1] \in S /\ 1 \in 1 .. k /\ i + 1 \notin 1 .. k
      BY <1>4, <1>5, <2>1, <2>3
    <3>2. from = s[1]
      BY <1>3, <1>4, <3>1 DEF IsWalk, At
    <3>3. back[t[i]] = end
      BY <3>1, <3>2
    <3> HIDE DEF t
    <3> QED BY <1>7, <2>2, <3>1, <3>3 DEF At
  <2>4. CASE i # k
    <3>1. k - i \in 1 .. k /\ (k - i) + 1 = k - i + 1 /\ i + 1 \in 1 .. k /\ k - (i + 1) + 1 = k - i
      BY <1>4, <2>4
    <3>2. link[s[k - i]] = s[k - i + 1]
      BY <1>3, <1>4, <2>1, <3>1 DEF IsWalk, At
    <3>3. back[s[k - i + 1]] = s[k - i]
      BY <1>5, <2>1, <3>1, <3>2
    <3>4. t[i + 1] = s[k - i]
      BY <3>1
    <3> HIDE DEF t
    <3> QED BY <1>7, <2>1, <2>2, <3>1, <3>3, <3>4 DEF At
  <2> QED BY <2>3, <2>4
<1> HIDE DEF t
<1>10. IsWalk(t, to, back, end)
  BY <1>7, <1>8, <1>9 DEF IsWalk
<1>11. Walk(from, link, end, most) = s /\ Walk(to, back, end, most) = t
  BY <1>3, <1>4, <1>7, <1>10, WalkFound
<1>12. s = [i \in 1 .. k |-> s[i]]
  BY <1>4, LenProperties
<1>13. \A i \in 1 .. k : k - i + 1 \in 1 .. k /\ k - (k - i + 1) + 1 = i
  BY <1>4
<1>14. s = [i \in 1 .. k |-> t[k - i + 1]]
  BY <1>12, <1>13 DEF t
<1> QED BY <1>7, <1>11, <1>14

-----------------------------------------------------------------------------
(* What an operation on the links makes of a walk.                         *)

\* What InsertAt returns, place by place.
LEMMA InsertedAt ==
  ASSUME NEW S, NEW s \in Seq(S), NEW x \in S, NEW i \in 1 .. Len(s) + 1
  PROVE  /\ InsertAt(s, i, x) \in Seq(S)
         /\ Len(InsertAt(s, i, x)) = Len(s) + 1
         /\ \A j \in 1 .. Len(s) + 1 :
              InsertAt(s, i, x)[j] = IF j < i THEN s[j] ELSE IF j = i THEN x ELSE s[j - 1]
<1>1. PICK k \in Nat : Len(s) = k
  BY LenProperties
<1>2. \A j \in 1 .. k : s[j] \in S
  BY <1>1, ElementOfSeq
<1> DEFINE a == SubSeq(s, 1, i - 1)
           b == SubSeq(s, i, k)
           m == <<x>>
<1>3. /\ a \in Seq(S) /\ Len(a) = i - 1
      /\ \A j \in 1 .. i - 1 : a[j] = s[j]
  <2>1. \A j \in 1 .. i - 1 : s[j] \in S
    BY <1>1, <1>2
  <2>2. i - 1 \in Int /\ 1 \in Int /\ (1 <= i - 1 \/ i - 1 = 0)
    BY <1>1
  <2> QED BY <2>1, <2>2, SubSeqProperties
<1>4. /\ b \in Seq(S) /\ Len(b) = k - i + 1
      /\ \A j \in 1 .. k - i + 1 : b[j] = s[i + j - 1]
  <2>1. \A j \in i .. k : s[j] \in S
    BY <1>1, <1>2
  <2>2. i \in Int /\ k \in Int /\ (i <= k \/ k - i + 1 = 0)
    BY <1>1
  <2> QED BY <2>1, <2>2, SubSeqProperties
<1>5. m \in Seq(S) /\ Len(m) = 1 /\ m[1] = x
  OBVIOUS
<1> HIDE DEF a, b, m
<1>6. /\ a \o m \in Seq(S) /\ Len(a \o m) = i
      /\ \A j \in 1 .. i : (a \o m)[j] = IF j <= i - 1 THEN s[j] ELSE x
  <2>1. i - 1 + 1 = i
    BY <1>1
  <2>2. /\ a \o m \in Seq(S) /\ Len(a \o m) = i
        /\ \A j \in 1 .. i : (a \o m)[j] = IF j <= i - 1 THEN a[j] ELSE m[j - (i - 1)]
    <3>1. a \in Seq(S) /\ m \in Seq(S)
      BY <1>3, <1>5
    <3>2. /\ a \o m \in Seq(S) /\ Len(a \o m) = Len(a) + Len(m)
          /\ \A j \in 1 .. Len(a) + Len(m) :
               (a \o m)[j] = IF j <= Len(a) THEN a[j] ELSE m[j - Len(a)]
      BY <3>1, ConcatProperties
    <3>3. Len(a) = i - 1 /\ Len(m) = 1
      BY <1>3, <1>5
    <3> QED BY <2>1, <3>2, <3>3
  <2> QED BY <1>1, <1>3, <1>5, <2>2
<1>7. /\ (a \o m) \o b \in Seq(S) /\ Len((a \o m) \o b) = k + 1
      /\ \A j \in 1 .. k + 1 : ((a \o m) \o b)[j] = IF j <= i THEN (a \o m)[j] ELSE b[j - i]
  <2>1. i + (k - i + 1) = k + 1
    BY <1>1
  <2>2. a \o m \in Seq(S) /\ b \in Seq(S) /\ Len(a \o m) = i /\ Len(b) = k - i + 1
    BY <1>4, <1>6
  <2>3. /\ (a \o m) \o b \in Seq(S) /\ Len((a \o m) \o b) = Len(a \o m) + Len(b)
        /\ \A j \in 1 .. Len(a \o m) + Len(b) :
             ((a \o m) \o b)[j] = IF j <= Len(a \o m) THEN (a \o m)[j] ELSE b[j - Len(a \o m)]
    BY <2>2, ConcatProperties
  <2> QED BY <2>1, <2>2, <2>3
<1>8. ASSUME NEW j \in 1 .. k + 1
      PROVE  ((a \o m) \o b)[j] = IF j < i THEN s[j] ELSE IF j = i THEN x ELSE s[j - 1]
  <2>1. CASE j <= i
    BY <1>1, <1>6, <1>7, <2>1
  <2>2. CASE ~ (j <= i)
    <3>1. j - i \in 1 .. k - i + 1 /\ i + (j - i) - 1 = j - 1
      BY <1>1, <2>2
    <3> QED BY <1>1, <1>4, <1>7, <2>2, <3>1
  <2> QED BY <2>1, <2>2
<1>9. InsertAt(s, i, x) = (a \o m) \o b
  BY <1>1 DEF InsertAt, a, b, m
<1> QED BY <1>1, <1>7, <1>8, <1>9

\* What RemoveAt returns, place by place.
LEMMA RemovedAt ==
  ASSUME NEW S, NEW s \in Seq(S), NEW i \in 1 .. Len(s)
  PROVE  /\ RemoveAt(s, i) \in Seq(S)
         /\ Len(RemoveAt(s, i)) = Len(s) - 1
         /\ \A j \in 1 .. Len(s) - 1 : RemoveAt(s, i)[j] = IF j < i THEN s[j] ELSE s[j + 1]
<1>1. PICK k \in Nat : Len(s) = k
  BY LenProperties
<1>2. \A j \in 1 .. k : s[j] \in S
  BY <1>1, ElementOfSeq
<1> DEFINE a == SubSeq(s, 1, i - 1)
           b == SubSeq(s, i + 1, k)
<1>3. /\ a \in Seq(S) /\ Len(a) = i - 1
      /\ \A j \in 1 .. i - 1 : a[j] = s[j]
  <2>1. \A j \in 1 .. i - 1 : s[j] \in S
    BY <1>1, <1>2
  <2>2. i - 1 \in Int /\ 1 \in Int /\ (1 <= i - 1 \/ i - 1 = 0)
    BY <1>1
  <2> QED BY <2>1, <2>2, SubSeqProperties
<1>4. /\ b \in Seq(S) /\ Len(b) = k - i
      /\ \A j \in 1 .. k - i : b[j] = s[i + j]
  <2>1. \A j \in i + 1 .. k : s[j] \in S
    BY <1>1, <1>2
  <2>2. i + 1 \in Int /\ k \in Int /\ (i + 1 <= k \/ k - i = 0) /\ k - (i + 1) + 1 = k - i
    BY <1>1
  <2>3. \A j \in 1 .. k - i : (i + 1) + j - 1 = i + j
    BY <1>1
  <2> QED BY <2>1, <2>2, <2>3, SubSeqProperties
<1> HIDE DEF a, b
<1>5. /\ a \o b \in Seq(S) /\ Len(a \o b) = k - 1
      /\ \A j \in 1 .. k - 1 : (a \o b)[j] = IF j <= i - 1 THEN a[j] ELSE b[j - (i - 1)]
  <2>1. i - 1 + (k - i) = k - 1 /\ i - 1 \in Nat /\ k - i \in Nat
    BY <1>1
  <2>2. a \in Seq(S) /\ b \in Seq(S)
    BY <1>3, <1>4
  <2>3. /\ a \o b \in Seq(S) /\ Len(a \o b) = Len(a) + Len(b)
        /\ \A j \in 1 .. Len(a) + Len(b) :
             (a \o b)[j] = IF j <= Len(a) THEN a[j] ELSE b[j - Len(a)]
    BY <2>2, ConcatProperties
  <2>4. Len(a) = i - 1 /\ Len(b) = k - i
    BY <1>3, <1>4
  <2> QED BY <2>1, <2>3, <2>4
<1>6. ASSUME NEW j \in 1 .. k - 1 PROVE (a \o b)[j] = IF j < i THEN s[j] ELSE s[j + 1]
  <2>1. CASE j < i
    BY <1>1, <1>3, <1>5, <2>1
  <2>2. CASE ~ (j < i)
    <3>1. j - (i - 1) \in 1 .. k - i /\ i + (j - (i - 1)) = j + 1
      BY <1>1, <2>2
    <3> QED BY <1>1, <1>4, <1>5, <2>2, <3>1
  <2> QED BY <2>1, <2>2
<1>7. RemoveAt(s, i) = a \o b
  BY <1>1 DEF RemoveAt, a, b
<1> QED BY <1>1, <1>5, <1>6, <1>7

\* A cell that gets a link to what was at place i, and is linked to by what was
\* before it, is inserted there.
LEMMA WalkInsert ==
  ASSUME NEW S, NEW s \in Seq(S), Once(s), NEW end, end \notin S,
         NEW from, NEW link, IsWalk(s, from, link, end),
         NEW x \in S, \A j \in 1 .. Len(s) : s[j] # x,
         NEW i \in 1 .. Len(s) + 1,
         NEW onFrom, onFrom = IF i = 1 THEN x ELSE from,
         NEW onLink, onLink[x] = At(s, i, end),
         i > 1 => onLink[s[i - 1]] = x,
         \A j \in 1 .. Len(s) : j # i - 1 => onLink[s[j]] = link[s[j]]
  PROVE  /\ InsertAt(s, i, x) \in Seq(S) /\ Once(InsertAt(s, i, x))
         /\ IsWalk(InsertAt(s, i, x), onFrom, onLink, end)
<1>1. PICK k \in Nat : Len(s) = k
  BY LenProperties
<1>2. \A j \in 1 .. k : s[j] \in S /\ s[j] # end
  BY <1>1, ElementOfSeq
<1>3. PICK t : t = InsertAt(s, i, x)
  OBVIOUS
<1>4. /\ t \in Seq(S) /\ Len(t) = k + 1
      /\ \A j \in 1 .. k + 1 : t[j] = IF j < i THEN s[j] ELSE IF j = i THEN x ELSE s[j - 1]
  <2>1. /\ t \in Seq(S) /\ Len(t) = Len(s) + 1
        /\ \A j \in 1 .. Len(s) + 1 : t[j] = IF j < i THEN s[j] ELSE IF j = i THEN x ELSE s[j - 1]
    BY <1>3, InsertedAt
  <2> QED BY <1>1, <2>1
<1>5. Once(t)
  BY <1>1, <1>4 DEF Once
<1>6. onFrom = At(t, 1, end)
  <2>1. CASE i = 1
    BY <1>1, <1>4, <2>1 DEF At
  <2>2. CASE i # 1
    BY <1>1, <1>4, <2>2 DEF At, IsWalk
  <2> QED BY <2>1, <2>2
<1>7. ASSUME NEW j \in 1 .. k + 1 PROVE t[j] # end /\ onLink[t[j]] = At(t, j + 1, end)
  <2>1. t[j] \in S /\ t[j] # end
    BY <1>4, ElementOfSeq
  <2>2. CASE j = i
    <3>1. At(t, i + 1, end) = At(s, i, end)
      BY <1>1, <1>4 DEF At
    <3> QED BY <1>4, <2>1, <2>2, <3>1
  <2>3. CASE j = i - 1
    BY <1>1, <1>4, <2>1, <2>3 DEF At
  <2>4. CASE j < i - 1
    <3>1. j \in 1 .. k /\ j + 1 \in 1 .. k /\ j + 1 < i /\ j < i
      BY <1>1, <2>4
    <3>2. onLink[s[j]] = s[j + 1]
      BY <1>1, <2>4, <3>1 DEF IsWalk, At
    <3> QED BY <1>1, <1>4, <2>1, <3>1, <3>2 DEF At
  <2>5. CASE j > i
    <3>1. j - 1 \in 1 .. k /\ (j - 1) + 1 = j /\ j - 1 # i - 1 /\ ~ (j < i) /\ j # i
      BY <1>1, <2>5
    <3>2. onLink[s[j - 1]] = At(s, j, end)
      BY <1>1, <3>1 DEF IsWalk
    <3>3. At(t, j + 1, end) = At(s, j, end)
      BY <1>1, <1>4, <2>5 DEF At
    <3> QED BY <1>4, <2>1, <3>1, <3>2, <3>3
  <2> QED BY <1>1, <2>2, <2>3, <2>4, <2>5
<1> QED BY <1>3, <1>4, <1>5, <1>6, <1>7 DEF IsWalk

\* A cell over which the link now leads is removed.
LEMMA WalkRemove ==
  ASSUME NEW S, NEW s \in Seq(S), Once(s), NEW end, end \notin S,
         NEW from, NEW link, IsWalk(s, from, link, end),
         NEW i \in 1 .. Len(s),
         NEW onFrom, onFrom = IF i = 1 THEN At(s, 2, end) ELSE from,
         NEW onLink,
         i > 1 => onLink[s[i - 1]] = At(s, i + 1, end),
         \A j \in 1 .. Len(s) : j \notin {i - 1, i} => onLink[s[j]] = link[s[j]]
  PROVE  /\ RemoveAt(s, i) \in Seq(S) /\ Once(RemoveAt(s, i))
         /\ IsWalk(RemoveAt(s, i), onFrom, onLink, end)
<1>1. PICK k \in Nat : Len(s) = k
  BY LenProperties
<1>2. \A j \in 1 .. k : s[j] \in S /\ s[j] # end
  BY <1>1, ElementOfSeq
<1>3. PICK t : t = RemoveAt(s, i)
  OBVIOUS
<1>4. /\ t \in Seq(S) /\ Len(t) = k - 1
      /\ \A j \in 1 .. k - 1 : t[j] = IF j < i THEN s[j] ELSE s[j + 1]
  BY <1>1, <1>3, RemovedAt
<1>5. Once(t)
  <2> SUFFICES ASSUME NEW a \in 1 .. k - 1, NEW b \in 1 .. k - 1, t[a] = t[b] PROVE a = b
    BY <1>4 DEF Once
  <2>1. a \in 1 .. k /\ b \in 1 .. k /\ a + 1 \in 1 .. k /\ b + 1 \in 1 .. k
    BY <1>1
  <2> QED BY <1>1, <1>4, <2>1 DEF Once
<1>6. onFrom = At(t, 1, end)
  <2>1. CASE i = 1
    BY <1>1, <1>4, <2>1 DEF At
  <2>2. CASE i # 1
    BY <1>1, <1>4, <2>2 DEF At, IsWalk
  <2> QED BY <2>1, <2>2
<1>7. ASSUME NEW j \in 1 .. k - 1 PROVE t[j] # end /\ onLink[t[j]] = At(t, j + 1, end)
  <2>1. t[j] # end
    BY <1>2, <1>4, ElementOfSeq
  <2>2. CASE j = i - 1
    <3>1. i > 1 /\ t[j] = s[i - 1] /\ j + 1 = i
      BY <1>1, <1>4, <2>2
    <3>2. At(t, i, end) = At(s, i + 1, end)
      BY <1>1, <1>4 DEF At
    <3> QED BY <2>1, <3>1, <3>2
  <2>3. CASE j < i - 1
    <3>1. j \in 1 .. k /\ j + 1 \in 1 .. k /\ j + 1 < i /\ j < i /\ j \notin {i - 1, i}
          /\ j + 1 \in 1 .. k - 1
      BY <1>1, <2>3
    <3>2. onLink[s[j]] = s[j + 1]
      BY <1>1, <3>1 DEF IsWalk, At
    <3> QED BY <1>1, <1>4, <2>1, <3>1, <3>2 DEF At
  <2>4. CASE j >= i
    <3>1. j + 1 \in 1 .. k /\ j + 1 \notin {i - 1, i} /\ ~ (j < i) /\ (j + 1) + 1 = j + 2
      BY <1>1, <2>4
    <3>2. onLink[s[j + 1]] = At(s, j + 2, end)
      BY <1>1, <3>1 DEF IsWalk
    <3>3. At(t, j + 1, end) = At(s, j + 2, end)
      BY <1>1, <1>4, <2>4 DEF At
    <3> QED BY <1>4, <2>1, <3>1, <3>2, <3>3
  <2> QED BY <1>1, <2>2, <2>3, <2>4
<1> QED BY <1>3, <1>4, <1>5, <1>6, <1>7 DEF IsWalk

\* A walk that goes through s and on to a walk t, without a cell in common, is both.
LEMMA WalkJoin ==
  ASSUME NEW S, NEW s \in Seq(S), NEW t \in Seq(S), Once(s), Once(t), s # <<>>,
         \A i \in 1 .. Len(s) : \A j \in 1 .. Len(t) : s[i] # t[j],
         NEW link, \A i \in 1 .. Len(s) : i # Len(s) => link[s[i]] = s[i + 1],
         NEW end, end \notin S, IsWalk(t, link[s[Len(s)]], link, end)
  PROVE  s \o t \in Seq(S) /\ Once(s \o t) /\ IsWalk(s \o t, s[1], link, end)
<1>1. PICK k \in Nat, l \in Nat : Len(s) = k /\ Len(t) = l /\ k > 0
  BY LenProperties, EmptySeq
<1>2. PICK u : u = s \o t
  OBVIOUS
<1>3. /\ u \in Seq(S) /\ Len(u) = k + l
      /\ \A j \in 1 .. k + l : u[j] = IF j <= k THEN s[j] ELSE t[j - k]
  <2>1. /\ s \o t \in Seq(S) /\ Len(s \o t) = Len(s) + Len(t)
        /\ \A j \in 1 .. Len(s) + Len(t) :
             (s \o t)[j] = IF j <= Len(s) THEN s[j] ELSE t[j - Len(s)]
    BY ConcatProperties
  <2> QED BY <1>1, <1>2, <2>1
<1>4. Once(u)
  <2> SUFFICES ASSUME NEW a \in 1 .. k + l, NEW b \in 1 .. k + l, u[a] = u[b] PROVE a = b
    BY <1>3 DEF Once
  <2>1. (a \in 1 .. k \/ a - k \in 1 .. l) /\ (b \in 1 .. k \/ b - k \in 1 .. l)
    BY <1>1
  <2> QED BY <1>1, <1>3, <2>1 DEF Once
<1>5. s[1] = At(u, 1, end)
  BY <1>1, <1>3 DEF At
<1>6. ASSUME NEW j \in 1 .. k + l PROVE u[j] # end /\ link[u[j]] = At(u, j + 1, end)
  <2>1. u[j] # end
    BY <1>3, ElementOfSeq
  <2>2. CASE j < k
    <3>1. j \in 1 .. k /\ j + 1 \in 1 .. k /\ j # k /\ j + 1 \in 1 .. k + l
      BY <1>1, <2>2
    <3>2. link[u[j]] = s[j + 1]
      BY <1>1, <1>3, <3>1
    <3>3. At(u, j + 1, end) = s[j + 1]
      BY <1>3, <3>1 DEF At
    <3> QED BY <2>1, <3>2, <3>3
  <2>3. CASE j = k
    <3>1. link[u[j]] = At(t, 1, end)
      BY <1>1, <1>3, <2>3 DEF IsWalk
    <3>2. At(u, k + 1, end) = At(t, 1, end)
      BY <1>1, <1>3 DEF At
    <3> QED BY <2>1, <2>3, <3>1, <3>2
  <2>4. CASE j > k
    <3>1. j - k \in 1 .. l /\ ~ (j <= k)
      BY <1>1, <2>4
    <3>2. link[u[j]] = At(t, j - k + 1, end)
      BY <1>1, <1>3, <3>1 DEF IsWalk
    <3>3. At(u, j + 1, end) = At(t, j - k + 1, end)
      BY <1>1, <1>3, <2>4 DEF At
    <3> QED BY <2>1, <3>2, <3>3
  <2> QED BY <1>1, <2>2, <2>3, <2>4
<1> QED BY <1>2, <1>3, <1>4, <1>5, <1>6 DEF IsWalk
=============================================================================

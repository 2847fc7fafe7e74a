----------------------------- MODULE ListLemmas -----------------------------
(***************************************************************************)
(* What the other proofs need of numbers and lists: least elements and     *)
(* induction without an operator as parameter, Append, Front and RemoveAt  *)
(* as changes of a range, and the list a directory search returns.         *)
(***************************************************************************)
EXTENDS Listing, SequencesExt, WellFoundedInduction, NaturalsInduction, TLAPS

\* A set of natural numbers has a least element.
LEMMA Least ==
    ASSUME NEW T \in SUBSET Nat, T # {}
    PROVE  \E n \in T : \A m \in T : n <= m
<1>1. PICK x \in T : \A y \in T : ~(<<y, x>> \in OpToRel(<, Nat))
  BY NatLessThanWellFounded, WFMin
<1>2. \A y \in T : ~(y < x)
  BY <1>1 DEF OpToRel
<1> QED BY <1>2

\* Induction, over a set in place of a predicate.
LEMMA NatInd ==
    ASSUME NEW S \in SUBSET Nat, 0 \in S, \A n \in S : n + 1 \in S
    PROVE  S = Nat
<1>1. SUFFICES ASSUME Nat \ S # {} PROVE FALSE
  OBVIOUS
<1>2. PICK x \in Nat \ S : \A y \in Nat \ S : x <= y
  BY <1>1, Least
<1>3. x - 1 \in S
  BY <1>2
<1> QED BY <1>2, <1>3

-----------------------------------------------------------------------------
(* Sequences without repetition, and their ranges.                         *)

\* A list with an element more.
LEMMA AppendRange ==
    ASSUME NEW T, NEW s \in Seq(T), NEW e \in T
    PROVE  /\ Append(s, e) \in Seq(T)
           /\ Len(Append(s, e)) = Len(s) + 1
           /\ \A i \in 1..Len(s) : Append(s, e)[i] = s[i]
           /\ Append(s, e)[Len(s) + 1] = e
           /\ Range(Append(s, e)) = Range(s) \cup {e}
           /\ IsInjective(s) /\ e \notin Range(s) => IsInjective(Append(s, e))
<1>0. Append(s, e) \in Seq(T)
  OBVIOUS
<1>1. PICK t \in Seq(T) : t = Append(s, e)
  BY <1>0
<1>2. /\ Len(t) = Len(s) + 1 /\ Len(s) \in Nat
      /\ \A i \in 1..Len(s) : t[i] = s[i]
      /\ t[Len(s) + 1] = e
  BY <1>1
<1>3. DOMAIN s = 1..Len(s) /\ DOMAIN t = 1..(Len(s) + 1)
  BY <1>2
<1>4. Range(t) = Range(s) \cup {e}
  BY <1>2, <1>3 DEF Range
<1>5. IsInjective(s) /\ e \notin Range(s) => IsInjective(t)
  BY <1>2, <1>3 DEF Range, IsInjective
<1> QED BY <1>1, <1>2, <1>4, <1>5

\* A list without its last element.
LEMMA FrontRange ==
    ASSUME NEW T, NEW s \in Seq(T), s # <<>>
    PROVE  /\ Front(s) \in Seq(T) /\ Last(s) \in T
           /\ Len(Front(s)) = Len(s) - 1
           /\ \A i \in 1..(Len(s) - 1) : Front(s)[i] = s[i]
           /\ Last(s) = s[Len(s)]
           /\ Range(s) = Range(Front(s)) \cup {Last(s)}
           /\ IsInjective(s) => IsInjective(Front(s)) /\ Last(s) \notin Range(Front(s))
<1>1. Len(s) \in Nat \ {0} /\ DOMAIN s = 1..Len(s)
  OBVIOUS
<1>0. SubSeq(s, 1, Len(s) - 1) \in Seq(T)
  OBVIOUS
<1>2. PICK f \in Seq(T) : f = Front(s)
  BY <1>0 DEF Front
<1>3. /\ Len(f) = Len(s) - 1
      /\ \A i \in 1..(Len(s) - 1) : f[i] = s[i]
      /\ Last(s) = s[Len(s)] /\ Last(s) \in T
  BY <1>1, <1>2 DEF Front, Last
<1>4. DOMAIN f = 1..(Len(s) - 1)
  BY <1>3
<1>5. Range(s) = Range(f) \cup {Last(s)}
  BY <1>1, <1>3, <1>4 DEF Range
<1>6. IsInjective(s) => IsInjective(f) /\ Last(s) \notin Range(f)
  BY <1>1, <1>3, <1>4 DEF Range, IsInjective
<1> QED BY <1>2, <1>3, <1>5, <1>6

\* Erasing an element of a list.
LEMMA RemoveAtElements ==
    ASSUME NEW T, NEW s \in Seq(T), NEW k \in 1..Len(s)
    PROVE  /\ RemoveAt(s, k) \in Seq(T)
           /\ Len(RemoveAt(s, k)) = Len(s) - 1
           /\ \A p \in 1..(Len(s) - 1) :
                  RemoveAt(s, k)[p] = IF p < k THEN s[p] ELSE s[p + 1]
<1>1. /\ SubSeq(s, 1, k - 1) \in Seq(T)
      /\ Len(SubSeq(s, 1, k - 1)) = k - 1
      /\ \A p \in 1..(k - 1) : SubSeq(s, 1, k - 1)[p] = s[p]
  OBVIOUS
<1>2. /\ SubSeq(s, k + 1, Len(s)) \in Seq(T)
      /\ Len(SubSeq(s, k + 1, Len(s))) = Len(s) - k
      /\ \A p \in 1..(Len(s) - k) : SubSeq(s, k + 1, Len(s))[p] = s[p + k]
  OBVIOUS
<1>a. PICK a \in Seq(T) : a = SubSeq(s, 1, k - 1)
  BY <1>1
<1>b. PICK b \in Seq(T) : b = SubSeq(s, k + 1, Len(s))
  BY <1>2
<1>3. RemoveAt(s, k) = a \o b
  BY <1>a, <1>b DEF RemoveAt
<1>4. /\ a \o b \in Seq(T)
      /\ Len(a \o b) = Len(s) - 1
      /\ \A p \in 1..(Len(s) - 1) :
             (a \o b)[p] = IF p < k THEN a[p] ELSE b[p - (k - 1)]
  <2>1. Len(a) = k - 1 /\ Len(b) = Len(s) - k
    BY <1>1, <1>2, <1>a, <1>b
  <2>2. /\ a \o b \in Seq(T)
        /\ Len(a \o b) = Len(a) + Len(b)
        /\ \A p \in 1..(Len(a) + Len(b)) :
               (a \o b)[p] = IF p <= Len(a) THEN a[p] ELSE b[p - Len(a)]
    OBVIOUS
  <2>3. Len(a) + Len(b) = Len(s) - 1
    BY <2>1
  <2>4. ASSUME NEW p \in 1..(Len(s) - 1)
        PROVE  p <= Len(a) <=> p < k
    BY <2>1
  <2> QED BY <2>1, <2>2, <2>3, <2>4
<1>5. ASSUME NEW p \in 1..(Len(s) - 1), p >= k
      PROVE  b[p - (k - 1)] = s[p + 1]
  <2>1. p - (k - 1) \in 1..(Len(s) - k)
    BY <1>5
  <2>2. b[p - (k - 1)] = s[(p - (k - 1)) + k]
    BY <1>2, <1>b, <2>1
  <2>3. (p - (k - 1)) + k = p + 1
    OBVIOUS
  <2> QED BY <2>2, <2>3
<1>6. ASSUME NEW p \in 1..(Len(s) - 1), p < k
      PROVE  a[p] = s[p]
  BY <1>1, <1>a, <1>6
<1> QED BY <1>3, <1>4, <1>5, <1>6

LEMMA RemoveAtRange ==
    ASSUME NEW T, NEW s \in Seq(T), IsInjective(s), NEW k \in 1..Len(s)
    PROVE  /\ IsInjective(RemoveAt(s, k))
           /\ Range(RemoveAt(s, k)) = Range(s) \ {s[k]}
<1> DEFINE r == RemoveAt(s, k)
<1>1. /\ r \in Seq(T)
      /\ Len(r) = Len(s) - 1
      /\ \A p \in 1..(Len(s) - 1) : r[p] = IF p < k THEN s[p] ELSE s[p + 1]
  BY RemoveAtElements
<1> HIDE DEF r
<1>2. DOMAIN r = 1..(Len(s) - 1) /\ DOMAIN s = 1..Len(s)
  BY <1>1
<1>3. \A p, q \in 1..Len(s) : s[p] = s[q] => p = q
  BY <1>2 DEF IsInjective
<1>4. IsInjective(r)
  <2> SUFFICES ASSUME NEW p \in 1..(Len(s) - 1), NEW q \in 1..(Len(s) - 1),
                      r[p] = r[q]
               PROVE  p = q
    BY <1>2 DEF IsInjective
  <2> DEFINE at(x) == IF x < k THEN x ELSE x + 1
  <2>1. at(p) \in 1..Len(s) /\ at(q) \in 1..Len(s)
    OBVIOUS
  <2>2. r[p] = s[at(p)] /\ r[q] = s[at(q)]
    BY <1>1
  <2>3. at(p) = at(q)
    BY <1>3, <2>1, <2>2
  <2> QED BY <2>3
<1>5. Range(r) \subseteq Range(s) \ {s[k]}
  <2> SUFFICES ASSUME NEW p \in 1..(Len(s) - 1)
               PROVE  r[p] \in Range(s) \ {s[k]}
    BY <1>2 DEF Range
  <2>1. CASE p < k
    BY <1>1, <1>2, <1>3, <2>1 DEF Range
  <2>2. CASE ~(p < k)
    <3>1. r[p] = s[p + 1] /\ p + 1 \in 1..Len(s) /\ p + 1 # k
      BY <1>1, <2>2
    <3> QED BY <1>2, <1>3, <3>1 DEF Range
  <2> QED BY <2>1, <2>2
<1>6. Range(s) \ {s[k]} \subseteq Range(r)
  <2> SUFFICES ASSUME NEW p \in 1..Len(s), s[p] # s[k]
               PROVE  s[p] \in Range(r)
    BY <1>2 DEF Range
  <2>1. CASE p < k
    <3>1. p \in 1..(Len(s) - 1) /\ r[p] = s[p]
      BY <1>1, <2>1
    <3> QED BY <1>2, <3>1 DEF Range
  <2>2. CASE p > k
    <3>1. p - 1 \in 1..(Len(s) - 1) /\ ~(p - 1 < k)
      BY <2>2
    <3>2. r[p - 1] = s[(p - 1) + 1]
      BY <1>1, <3>1
    <3>3. (p - 1) + 1 = p
      OBVIOUS
    <3> QED BY <1>2, <3>1, <3>2, <3>3 DEF Range
  <2> QED BY <2>1, <2>2
<1> QED BY <1>4, <1>5, <1>6 DEF r

-----------------------------------------------------------------------------
(* Listing.Keep.                                                           *)

\* Keep as the values its recursion runs through.
LEMMA KeepSteps ==
    ASSUME NEW T, NEW order \in Seq(T), NEW wanted
    PROVE  \E kept :
              /\ Keep(order, wanted) = kept[Len(order)]
              /\ kept[0] = <<>>
              /\ \A i \in 1..Len(order) :
                     kept[i] = IF order[i] \in wanted THEN Append(kept[i - 1], order[i])
                               ELSE kept[i - 1]
<1> DEFINE n == Len(order)
           Rec(f) == f = [i \in 0..n |->
                             IF i = 0 THEN <<>>
                             ELSE IF order[i] \in wanted THEN Append(f[i - 1], order[i])
                             ELSE f[i - 1]]
           kept == CHOOSE f : Rec(f)
           Add(s, e) == IF e \in wanted THEN Append(s, e) ELSE s
           Upto(k, f) == /\ f \in [0..k -> Seq(T)]
                         /\ f[0] = <<>>
                         /\ \A i \in 1..k : f[i] = Add(f[i - 1], order[i])
           S == {k \in Nat : k <= n => \E f : Upto(k, f)}
<1>0. n \in Nat /\ \A i \in 1..n : order[i] \in T
  OBVIOUS
<1> HIDE DEF n
<1>1. Upto(0, [i \in 0..0 |-> <<>>])
  OBVIOUS
<1>2. ASSUME NEW k \in Nat, k + 1 <= n, NEW f, Upto(k, f) PROVE \E g : Upto(k + 1, g)
  <2> DEFINE new == Add(f[k], order[k + 1])
             g == [i \in 0..(k + 1) |-> IF i <= k THEN f[i] ELSE new]
  <2>1. f[k] \in Seq(T) /\ order[k + 1] \in T
    BY <1>0, <1>2
  <2>2. new \in Seq(T)
    BY <2>1
  <2> HIDE DEF new
  <2>3. g \in [0..(k + 1) -> Seq(T)]
    BY <1>2, <2>2
  <2>4. g[0] = <<>>
    BY <1>2
  <2>5. \A i \in 0..k : g[i] = f[i]
    BY <1>2
  <2>6. g[k + 1] = Add(g[k], order[k + 1])
    BY <1>2, <2>5 DEF new
  <2>7. ASSUME NEW i \in 1..(k + 1)
        PROVE  g[i] = Add(g[i - 1], order[i])
    <3>1. CASE i <= k
      <4>1. g[i] = f[i] /\ g[i - 1] = f[i - 1]
        BY <2>5, <3>1
      <4>2. f[i] = Add(f[i - 1], order[i])
        BY <1>2, <3>1
      <4> QED BY <4>1, <4>2
    <3>2. CASE i = k + 1
      <4>1. i - 1 = k
        BY <3>2
      <4> QED BY <2>6, <3>2, <4>1
    <3> QED BY <3>1, <3>2
  <2> HIDE DEF g
  <2>8. Upto(k + 1, g)
    BY <2>3, <2>4, <2>7
  <2> QED BY <2>8
<1>3. 0 \in S
  BY <1>1
<1>4. ASSUME NEW k \in S PROVE k + 1 \in S
  <2> HIDE DEF Upto
  <2>1. k \in Nat /\ (k <= n => \E f : Upto(k, f))
    OBVIOUS
  <2>2. k + 1 <= n => \E f : Upto(k + 1, f)
    BY <1>0, <1>2, <2>1
  <2> QED BY <2>1, <2>2
<1>a. S = Nat
  <2> HIDE DEF S
  <2>1. S \in SUBSET Nat
    BY DEF S
  <2> QED BY <1>3, <1>4, <2>1, NatInd
<1>b. PICK g : Upto(n, g)
  <2> HIDE DEF Upto
  <2>1. n \in S
    BY <1>0, <1>a
  <2> QED BY <1>0, <2>1
<1>5. Rec(g)
  <2>1. ASSUME NEW i \in 0..n
        PROVE  g[i] = IF i = 0 THEN <<>>
                      ELSE IF order[i] \in wanted THEN Append(g[i - 1], order[i])
                      ELSE g[i - 1]
    <3>1. CASE i = 0
      BY <1>b, <3>1
    <3>2. CASE i # 0
      <4>1. i \in 1..n
        BY <1>0, <3>2
      <4> QED BY <1>b, <3>2, <4>1
    <3> QED BY <3>1, <3>2
  <2> QED BY <1>b, <2>1
<1>6. Rec(kept)
  BY <1>5
<1>7. Keep(order, wanted) = kept[n]
  BY DEF Keep, n
<1> HIDE DEF kept
<1>8. /\ kept[0] = <<>>
      /\ \A i \in 1..n : kept[i] = IF order[i] \in wanted THEN Append(kept[i - 1], order[i])
                                   ELSE kept[i - 1]
  <2>1. kept = [i \in 0..n |->
                   IF i = 0 THEN <<>>
                   ELSE IF order[i] \in wanted THEN Append(kept[i - 1], order[i])
                   ELSE kept[i - 1]]
    BY <1>6
  <2>2. ASSUME NEW i \in 0..n
        PROVE  kept[i] = IF i = 0 THEN <<>>
                         ELSE IF order[i] \in wanted THEN Append(kept[i - 1], order[i])
                         ELSE kept[i - 1]
    BY <2>1
  <2> QED BY <1>0, <2>2
<1> QED BY <1>7, <1>8 DEF n

\* What a search returns: each entry wanted, once, and no other.
LEMMA KeepIsListing ==
    ASSUME NEW T, NEW order \in Seq(T), NEW wanted, IsInjective(order)
    PROVE  /\ Keep(order, wanted) \in Seq(T)
           /\ IsInjective(Keep(order, wanted))
           /\ Range(Keep(order, wanted)) = Range(order) \cap wanted
<1> DEFINE n == Len(order)
           First(k) == {order[j] : j \in 1..k}
<1>0. n \in Nat /\ DOMAIN order = 1..n /\ \A i \in 1..n : order[i] \in T
  OBVIOUS
<1>1. PICK kept :
          /\ Keep(order, wanted) = kept[n]
          /\ kept[0] = <<>>
          /\ \A i \in 1..n : kept[i] = IF order[i] \in wanted THEN Append(kept[i - 1], order[i])
                                       ELSE kept[i - 1]
  BY KeepSteps
<1> HIDE DEF n
<1> DEFINE Good(k) == /\ kept[k] \in Seq(T)
                      /\ IsInjective(kept[k])
                      /\ Range(kept[k]) = First(k) \cap wanted
           S == {k \in Nat : k <= n => Good(k)}
<1>2. Good(0)
  <2>1. <<>> \in Seq(T) /\ IsInjective(<<>>) /\ Range(<<>>) = {} /\ First(0) = {}
    BY DEF IsInjective, Range
  <2> QED BY <1>1, <2>1
<1>3. ASSUME NEW k \in Nat, k + 1 <= n, Good(k) PROVE Good(k + 1)
  <2>1. k + 1 \in 1..n
    BY <1>0, <1>3
  <2>2. kept[k + 1] = IF order[k + 1] \in wanted THEN Append(kept[k], order[k + 1])
                      ELSE kept[k]
    BY <1>1, <2>1
  <2>3. order[k + 1] \in T /\ order[k + 1] \notin First(k)
    BY <1>0, <2>1 DEF IsInjective
  <2>4. First(k + 1) = First(k) \cup {order[k + 1]}
    BY <2>1
  <2> HIDE DEF First
  <2>5. CASE order[k + 1] \in wanted
    <3>1. kept[k + 1] = Append(kept[k], order[k + 1])
      BY <2>2, <2>5
    <3>2. order[k + 1] \notin Range(kept[k])
      BY <1>3, <2>3
    <3>3. /\ kept[k + 1] \in Seq(T)
          /\ IsInjective(kept[k + 1])
          /\ Range(kept[k + 1]) = Range(kept[k]) \cup {order[k + 1]}
      BY <1>3, <2>3, <3>1, <3>2, AppendRange
    <3> QED BY <1>3, <2>4, <2>5, <3>3
  <2>6. CASE order[k + 1] \notin wanted
    BY <1>3, <2>2, <2>4, <2>6
  <2> QED BY <2>5, <2>6
<1> HIDE DEF Good
<1>4. 0 \in S
  BY <1>2
<1>5. ASSUME NEW k \in S PROVE k + 1 \in S
  BY <1>0, <1>3
<1>6. S = Nat
  <2> HIDE DEF S
  <2>1. S \in SUBSET Nat
    BY DEF S
  <2> QED BY <1>4, <1>5, <2>1, NatInd
<1>7. Good(n)
  BY <1>0, <1>6
<1>8. Range(order) = First(n)
  BY <1>0 DEF Range
<1> QED BY <1>1, <1>7, <1>8 DEF Good

=============================================================================

----------------------------- MODULE WordProofs -----------------------------
(***************************************************************************)
(* What the proofs about every format have in common, places in sequences  *)
(* and the bits of numbers and words, and the proofs about the cubin the   *)
(* words are patched into, for every template and sequence of calls.       *)
(***************************************************************************)
EXTENDS CubinPatcher, FiniteSetTheorems, FunctionTheorems, SequenceTheorems, WellFoundedInduction, TLAPS

-----------------------------------------------------------------------------
(* Places in sequences.                                                    *)

\* A set of numbers has a least member.
LEMMA Least ==
  ASSUME NEW T \in SUBSET Nat, T # {}
  PROVE  \E x \in T : \A y \in T : x <= y
<1>1. PICK x \in T : \A y \in T : ~(<<y, x>> \in OpToRel(<, Nat))
  BY WFMin, NatLessThanWellFounded, Zenon
<1>2. ASSUME NEW y \in T, y < x PROVE FALSE
  <2>1. <<y, x>> \in Nat \X Nat /\ <<y, x>>[1] < <<y, x>>[2]
    BY <1>2
  <2>2. <<y, x>> \in OpToRel(<, Nat)
    BY <2>1, Zenon DEF OpToRel
  <2>. QED
    BY <1>1, <2>2, Zenon
<1>. QED
  BY <1>2

\* The members of a set of places up to one of them tell which it is.
LEMMA Counted ==
  ASSUME NEW n \in Nat, NEW S \in SUBSET (1 .. n), NEW i \in S
  PROVE  /\ IsFiniteSet(S) /\ Cardinality(S) \in Nat
         /\ Cardinality({j \in S : j <= i}) = Cardinality({j \in S : j < i}) + 1
         /\ Cardinality({j \in S : j <= i}) <= Cardinality(S)
         /\ \A x \in S : Cardinality({j \in S : j <= x}) = Cardinality({j \in S : j <= i}) => x = i
<1>. DEFINE upTo(x) == {j \in S : j <= x}
            below == {j \in S : j < i}
<1>1. IsFiniteSet(S) /\ Cardinality(S) \in Nat /\ S \subseteq Nat
  <2>1. IsFiniteSet(1 .. n)
    BY FS_Interval
  <2>2. IsFiniteSet(S)
    BY <2>1, FS_Subset
  <2>. QED
    BY <2>2, FS_CardinalityType
<1>2. \A x : IsFiniteSet(upTo(x)) /\ Cardinality(upTo(x)) <= Cardinality(S)
  <2>1. \A x : upTo(x) \in SUBSET S
    OBVIOUS
  <2>. QED
    BY <1>1, <2>1, FS_Subset
<1>3. \A x, y \in S : x < y => Cardinality(upTo(x)) # Cardinality(upTo(y))
  <2>1. TAKE x, y \in S
  <2>2. HAVE x < y
  <2>3. x \in Nat /\ y \in Nat /\ \A z \in S : z \in Nat
    BY <1>1
  <2>4. \A z \in S : z <= x => z <= y
    BY <2>2, <2>3
  <2>5. x <= y /\ y <= y /\ ~(y <= x)
    BY <2>2, <2>3
  <2>6. upTo(x) \in SUBSET upTo(y) /\ y \in upTo(y) /\ y \notin upTo(x)
    BY <2>4, <2>5, Zenon
  <2>. QED
    BY <1>2, <2>6, FS_Subset
<1>4. Cardinality(upTo(i)) = Cardinality(below) + 1
  <2>1. upTo(i) = below \union {i} /\ i \notin below
    <3>1. \A z \in S : z \in Nat
      BY <1>1
    <3>2. \A z \in S : z <= i <=> z < i \/ z = i
      BY <3>1
    <3>3. ~(i < i)
      BY <3>1
    <3>. QED
      BY <3>2, <3>3, Zenon
  <2>2. IsFiniteSet(below)
    BY <1>1, FS_Subset
  <2>. QED
    BY <2>1, <2>2, FS_AddElement
<1>5. \A x \in S : Cardinality(upTo(x)) = Cardinality(upTo(i)) => x = i
  BY <1>1, <1>3
<1>. QED
  BY <1>1, <1>2, <1>4, <1>5

\* A set of places has an increasing enumeration, and in every one of them k - 1
\* members of the set lie in front of the k-th.
LEMMA Enumerated ==
  ASSUME NEW n \in Nat, NEW S \in SUBSET (1 .. n)
  PROVE  /\ Increasing(S) \in Seq(S) /\ Len(Increasing(S)) = Cardinality(S)
         /\ Cardinality(S) \in Nat
         /\ \A k \in 1 .. Cardinality(S) :
              /\ Increasing(S)[k] \in S
              /\ Cardinality({j \in S : j < Increasing(S)[k]}) = k - 1
<1>. DEFINE c == Cardinality(S)
            rank == [i \in S |-> Cardinality({j \in S : j <= i})]
            Orders(f) == \A a, b \in DOMAIN f : a < b => f[a] < f[b]
<1>1. IsFiniteSet(S) /\ c \in Nat /\ \A i \in S : i \in Nat
  <2>1. IsFiniteSet(1 .. n)
    BY FS_Interval
  <2>2. IsFiniteSet(S)
    BY <2>1, FS_Subset
  <2>. QED
    BY <2>2, FS_CardinalityType
<1>2. IsFiniteSet(1 .. c) /\ Cardinality(1 .. c) = c
  BY <1>1, FS_Interval
<1>3. \A i \in S : /\ Cardinality({j \in S : j <= i}) = Cardinality({j \in S : j < i}) + 1
                   /\ Cardinality({j \in S : j <= i}) <= c
                   /\ \A x \in S : Cardinality({j \in S : j <= x}) = Cardinality({j \in S : j <= i}) => x = i
                   /\ Cardinality({j \in S : j < i}) \in Nat
  <2>1. \A i \in S : {j \in S : j < i} \in SUBSET S
    OBVIOUS
  <2>2. \A i \in S : Cardinality({j \in S : j < i}) \in Nat
    BY <1>1, <2>1, FS_Subset, FS_CardinalityType
  <2>. QED
    BY <2>2, Counted
<1>4. rank \in [S -> 1 .. c]
  <2>1. ASSUME NEW i \in S PROVE Cardinality({j \in S : j <= i}) \in 1 .. c
    <3>1. PICK m, o : m = Cardinality({j \in S : j <= i}) /\ o = Cardinality({j \in S : j < i})
      OBVIOUS
    <3>2. m = o + 1 /\ o \in Nat /\ m <= c
      BY <1>3, <3>1, Zenon
    <3>3. m \in 1 .. c
      BY <1>1, <3>2
    <3>. QED
      BY <3>1, <3>3, Zenon
  <2>. QED
    BY <2>1, Zenon
<1>5. \A i, j \in S : rank[i] = rank[j] => i = j
  BY <1>3, Zenon
<1>6. rank \in Surjection(S, 1 .. c)
  <2>1. rank \in Injection(S, 1 .. c)
    BY <1>4, <1>5, Fun_IsInj, Zenon
  <2>. QED
    BY <1>2, <2>1, FS_Injection
<1>7. \A k \in 1 .. c : \E i \in S : rank[i] = k
  BY <1>6, Zenon DEF Surjection
<1>. HIDE DEF rank
<1>8. \E f \in [1 .. c -> S] : Orders(f)
  <2>. DEFINE g == [k \in 1 .. c |-> CHOOSE i \in S : rank[i] = k]
  <2>1. \A k \in 1 .. c : g[k] \in S /\ rank[g[k]] = k
    BY <1>7
  <2>2. g \in [1 .. c -> S]
    BY <2>1
  <2>. HIDE DEF g
  <2>3. ASSUME NEW a \in 1 .. c, NEW b \in 1 .. c, ~(g[a] < g[b])
        PROVE  ~(a < b)
    <3>1. g[a] \in Nat /\ g[b] \in Nat /\ g[b] <= g[a]
      <4>1. g[a] \in Nat /\ g[b] \in Nat
        BY <1>1, <2>1, Zenon
      <4>. QED
        BY <2>3, <4>1
    <3>2. \A j \in S : j <= g[b] => j <= g[a]
      BY <1>1, <3>1
    <3>3. {j \in S : j <= g[b]} \in SUBSET {j \in S : j <= g[a]}
      BY <3>2, Zenon
    <3>4. {j \in S : j <= g[a]} \in SUBSET S
      OBVIOUS
    <3>5. Cardinality({j \in S : j <= g[b]}) <= Cardinality({j \in S : j <= g[a]})
      BY <1>1, <3>3, <3>4, FS_Subset
    <3>6. rank[g[a]] = Cardinality({j \in S : j <= g[a]}) /\ rank[g[b]] = Cardinality({j \in S : j <= g[b]})
      BY <2>1, Zenon DEF rank
    <3>7. b <= a
      BY <2>1, <3>5, <3>6, Zenon
    <3>. QED
      BY <1>1, <3>7
  <2>4. Orders(g)
    BY <2>2, <2>3
  <2>. QED
    BY <2>2, <2>4, Zenon
<1>. DEFINE f == Increasing(S)
<1>9. f \in [1 .. c -> S] /\ Orders(f)
  BY <1>8, Zenon DEF Increasing
<1>. HIDE DEF f
<1>10. f \in Seq(S) /\ Len(f) = c
  BY <1>1, <1>9
<1>11. \A a, b \in 1 .. c : (a < b <=> f[a] < f[b]) /\ (f[a] = f[b] => a = b)
  <2>1. \A a \in 1 .. c : a \in Nat /\ f[a] \in Nat
    <3>1. \A a \in 1 .. c : f[a] \in S
      BY <1>9
    <3>2. \A a \in 1 .. c : a \in Nat
      BY <1>1
    <3>. QED
      BY <1>1, <3>1, <3>2, Zenon
  <2>2. \A a, b \in 1 .. c : a < b => f[a] < f[b]
    BY <1>9
  <2>. QED
    BY <2>1, <2>2
<1>12. \A i \in S : \E a \in 1 .. c : f[a] = i
  <2>1. f \in Injection(1 .. c, S)
    BY <1>9, <1>11, Fun_IsInj, Zenon
  <2>2. f \in Surjection(1 .. c, S)
    BY <1>1, <1>2, <2>1, FS_Injection
  <2>. QED
    BY <2>2, Zenon DEF Surjection
<1>13. ASSUME NEW k \in 1 .. c
       PROVE  Cardinality({j \in S : j < f[k]}) = k - 1
  <2>. DEFINE B == {j \in S : j < f[k]}
              h == [a \in 1 .. k - 1 |-> f[a]]
  <2>1. \A a \in 1 .. k - 1 : a \in 1 .. c /\ a < k
    BY <1>1
  <2>2. h \in [1 .. k - 1 -> B]
    BY <1>9, <1>11, <2>1
  <2>3. \A a, b \in 1 .. k - 1 : h[a] = h[b] => a = b
    BY <1>11, <2>1, Zenon
  <2>4. \A j \in B : \E a \in 1 .. k - 1 : h[a] = j
    <3>1. TAKE j \in B
    <3>2. PICK a \in 1 .. c : f[a] = j
      BY <1>12
    <3>3. a < k
      BY <1>11, <3>2
    <3>4. a \in 1 .. k - 1
      BY <1>1, <3>3
    <3>. QED
      BY <3>2, <3>4
  <2>5. h \in Injection(1 .. k - 1, B) /\ h \in Surjection(1 .. k - 1, B)
    BY <2>2, <2>3, <2>4, Fun_IsInj, Fun_IsSurj, Zenon
  <2>6. ExistsBijection(1 .. k - 1, B)
    BY <2>5, Zenon DEF ExistsBijection, Bijection
  <2>7. k - 1 \in Nat
    BY <1>1
  <2>. QED
    BY <2>6, <2>7, FS_CountingElements
<1>14. \A k \in 1 .. c : f[k] \in S
  BY <1>9
<1>. QED
  BY <1>1, <1>10, <1>13, <1>14, Zenon DEF f

-----------------------------------------------------------------------------
(* Numbers and their bits.                                                 *)

\* What bit b adds to the number a set of bits stands for.
One(s, b) == IF b \in s THEN 2^b ELSE 0
Four(s, b) == One(s, b) + One(s, b + 1) + One(s, b + 2) + One(s, b + 3)
Total(s) == Four(s, 0) + Four(s, 4) + Four(s, 8) + Four(s, 12)

LEMMA Powers ==
  /\ 2^0 = 1 /\ 2^1 = 2 /\ 2^2 = 4 /\ 2^3 = 8 /\ 2^4 = 16 /\ 2^5 = 32 /\ 2^6 = 64 /\ 2^7 = 128
  /\ 2^8 = 256 /\ 2^9 = 512 /\ 2^10 = 1024 /\ 2^11 = 2048 /\ 2^12 = 4096 /\ 2^13 = 8192
  /\ 2^14 = 16384 /\ 2^15 = 32768 /\ 2^16 = 65536
  /\ \A b \in 0 .. 15 : 2^b \in Nat
<1>1. /\ 2^0 = 1 /\ 2^1 = 2 /\ 2^2 = 4 /\ 2^3 = 8 /\ 2^4 = 16 /\ 2^5 = 32 /\ 2^6 = 64 /\ 2^7 = 128
      /\ 2^8 = 256 /\ 2^9 = 512 /\ 2^10 = 1024 /\ 2^11 = 2048 /\ 2^12 = 4096 /\ 2^13 = 8192
      /\ 2^14 = 16384 /\ 2^15 = 32768 /\ 2^16 = 65536
  OBVIOUS
<1>2. \A b \in 0 .. 15 : b \in {0, 1, 2, 3, 4, 5, 6, 7, 8, 9, 10, 11, 12, 13, 14, 15}
  OBVIOUS
<1>3. /\ 2^0 \in Nat /\ 2^1 \in Nat /\ 2^2 \in Nat /\ 2^3 \in Nat /\ 2^4 \in Nat /\ 2^5 \in Nat
      /\ 2^6 \in Nat /\ 2^7 \in Nat /\ 2^8 \in Nat /\ 2^9 \in Nat /\ 2^10 \in Nat /\ 2^11 \in Nat
      /\ 2^12 \in Nat /\ 2^13 \in Nat /\ 2^14 \in Nat /\ 2^15 \in Nat
  OBVIOUS
<1>4. \A b \in {0, 1, 2, 3, 4, 5, 6, 7, 8, 9, 10, 11, 12, 13, 14, 15} : 2^b \in Nat
  BY <1>3, Zenon
<1>5. \A b \in 0 .. 15 : 2^b \in Nat
  BY <1>2, <1>4, Zenon
<1>. QED
  BY <1>1, <1>5

\* A number loses with a bit what the bit adds.
LEMMA BitTaken ==
  ASSUME NEW s \in SUBSET (0 .. 15), NEW x \in s
  PROVE  Total(s) = 2^x + Total(s \ {x})
<1>. DEFINE t == s \ {x}
            p(b) == 2^b
            rest(b) == IF b = x THEN p(x) ELSE 0
            rests(b) == rest(b) + rest(b + 1) + rest(b + 2) + rest(b + 3)
<1>1. x \in 0 .. 15 /\ \A b \in 0 .. 15 : p(b) \in Int
  BY Powers
<1>2. \A b \in 0 .. 15 : One(s, b) = One(t, b) + rest(b) /\ One(t, b) \in Int /\ rest(b) \in Int
  <2>1. TAKE b \in 0 .. 15
  <2>2. /\ One(s, b) = IF b \in s THEN p(b) ELSE 0
        /\ One(t, b) = IF b \in t THEN p(b) ELSE 0
        /\ rest(b) = IF b = x THEN p(x) ELSE 0
    BY Zenon DEF One
  <2>3. p(b) \in Int /\ p(x) \in Int
    BY <1>1
  <2>. HIDE DEF p, rest
  <2>. QED
    BY <2>2, <2>3
<1>3. rests(0) + rests(4) + rests(8) + rests(12) = p(x)
  <2>. HIDE DEF p
  <2>. QED
    BY <1>1
<1>4. \A b \in 0 .. 12 : Four(s, b) = Four(t, b) + rests(b) /\ Four(t, b) \in Int /\ rests(b) \in Int
  <2>. HIDE DEF t, rest
  <2>1. TAKE b \in 0 .. 12
  <2>2. b \in 0 .. 15 /\ b + 1 \in 0 .. 15 /\ b + 2 \in 0 .. 15 /\ b + 3 \in 0 .. 15
    OBVIOUS
  <2>. QED
    BY <1>2, <2>2 DEF Four
<1>. HIDE DEF t, rests
<1>5. Total(s) = Total(t) + (rests(0) + rests(4) + rests(8) + rests(12)) /\ Total(t) \in Int
  BY <1>4 DEF Total
<1>. QED
  BY <1>1, <1>3, <1>5 DEF t

\* The fold over a word of sixteen bits is the sum of what its bits add.
LEMMA UnsignedIsTotal ==
  ASSUME NEW S \in SUBSET (0 .. 15)
  PROVE  Unsigned(S) = Total(S)
<1>. DEFINE pick(s) == CHOOSE x \in s : TRUE
            sums(f) == [s \in SUBSET S |-> IF s = {} THEN 0 ELSE 2^pick(s) + f[s \ {pick(s)}]]
            iter == CHOOSE f : f = sums(f)
            totals == [s \in SUBSET S |-> Total(s)]
<1>1. Unsigned(S) = iter[S]
  BY Zenon DEF Unsigned, MapThenSumSet, MapThenFoldSet
<1>2. Total({}) = 0
  BY DEF Total, Four, One
<1>3. \A s \in SUBSET S : s # {} =>
        /\ pick(s) \in s /\ s \ {pick(s)} \in SUBSET S
        /\ Total(s) = 2^pick(s) + Total(s \ {pick(s)})
  <2>1. TAKE s \in SUBSET S
  <2>2. HAVE s # {}
  <2>3. pick(s) \in s
    BY <2>2
  <2>. QED
    BY <2>3, BitTaken
<1>4. totals = sums(totals)
  <2>1. ASSUME NEW s \in SUBSET S PROVE Total(s) = sums(totals)[s]
    BY <1>2, <1>3
  <2>. QED
    BY <2>1
<1>5. iter = sums(iter)
  BY <1>4
<1>. HIDE DEF iter
<1>6. \A s \in SUBSET S : IsFiniteSet(s) /\ Cardinality(s) \in Nat
  <2>1. IsFiniteSet(0 .. 15)
    <3>1. \A m \in Nat : IsFiniteSet(0 .. m)
      BY FS_Interval
    <3>. QED
      BY <3>1
  <2>2. TAKE s \in SUBSET S
  <2>3. IsFiniteSet(s)
    BY <2>1, FS_Subset
  <2>. QED
    BY <2>3, FS_CardinalityType
<1>7. \A s \in SUBSET S : iter[s] = Total(s)
  <2>1. SUFFICES ASSUME NEW z \in SUBSET S, iter[z] # Total(z) PROVE FALSE
    OBVIOUS
  <2>. DEFINE bad == {n \in Nat : \E s \in SUBSET S : Cardinality(s) = n /\ iter[s] # Total(s)}
  <2>2. bad # {}
    BY <1>6, <2>1
  <2>3. PICK n \in bad : \A m \in bad : n <= m
    BY <2>2, Least
  <2>4. PICK s \in SUBSET S : Cardinality(s) = n /\ iter[s] # Total(s)
    OBVIOUS
  <2>5. s # {} /\ iter[s] = 2^pick(s) + iter[s \ {pick(s)}]
    <3>1. iter[s] = IF s = {} THEN 0 ELSE 2^pick(s) + iter[s \ {pick(s)}]
      BY <1>5
    <3>. QED
      BY <1>2, <2>4, <3>1
  <2>6. s \ {pick(s)} \in SUBSET S /\ Cardinality(s \ {pick(s)}) = Cardinality(s) - 1
    BY <1>3, <1>6, <2>5, FS_RemoveElement
  <2>7. iter[s \ {pick(s)}] = Total(s \ {pick(s)})
    <3>1. Cardinality(s \ {pick(s)}) \notin bad
      BY <1>6, <2>3, <2>4, <2>6
    <3>. QED
      BY <1>6, <2>6, <3>1
  <2>. QED
    BY <1>3, <2>4, <2>5, <2>7
<1>. QED
  BY <1>1, <1>7

\* What bit b of a number adds, and the number without the bits below b.
Digit(n, b) == 2^b * ((n \div 2^b) % 2)
Above(n, b) == 2^b * (n \div 2^b)

LEMMA AboveInt ==
  ASSUME NEW n \in Int, NEW b \in 0 .. 16
  PROVE  Above(n, b) \in Int
<1>. DEFINE whole(c) == Above(n, c) \in Int
<1>1. /\ whole(0) /\ whole(1) /\ whole(2) /\ whole(3) /\ whole(4) /\ whole(5)
      /\ whole(6) /\ whole(7) /\ whole(8) /\ whole(9) /\ whole(10) /\ whole(11)
      /\ whole(12) /\ whole(13) /\ whole(14) /\ whole(15) /\ whole(16)
  BY Powers DEF Above
<1>. HIDE DEF whole
<1>2. whole(b)
  BY <1>1
<1>. QED
  BY <1>2 DEF whole

LEMMA DigitTaken ==
  ASSUME NEW n \in Int, NEW b \in 0 .. 15
  PROVE  Digit(n, b) = Above(n, b) - Above(n, b + 1)
<1>. DEFINE splits(c, next) == Digit(n, c) = Above(n, c) - Above(n, next)
<1>1. /\ splits(0, 1) /\ splits(1, 2) /\ splits(2, 3) /\ splits(3, 4)
      /\ splits(4, 5) /\ splits(5, 6) /\ splits(6, 7) /\ splits(7, 8)
      /\ splits(8, 9) /\ splits(9, 10) /\ splits(10, 11) /\ splits(11, 12)
      /\ splits(12, 13) /\ splits(13, 14) /\ splits(14, 15) /\ splits(15, 16)
  BY Powers DEF Above, Digit
<1>. HIDE DEF splits
<1>2. splits(b, b + 1)
  BY <1>1
<1>. QED
  BY <1>2 DEF splits

\* The low bits of a number are what it has below the others.
LEMMA UnsignedBits ==
  ASSUME NEW n \in Int, NEW width \in 0 .. 16
  PROVE  Unsigned(Bits(n, width)) = n - Above(n, width)
<1>. DEFINE s == Bits(n, width)
            left(b) == Above(n, IF b < width THEN b ELSE width)
<1>1. s \in SUBSET (0 .. 15)
  BY DEF Bits
<1>2. \A b \in 0 .. 15 : One(s, b) = left(b) - left(b + 1) /\ left(b) \in Int /\ left(b + 1) \in Int
  <2>1. TAKE b \in 0 .. 15
  <2>2. CASE b < width
    <3>1. One(s, b) = Digit(n, b)
      BY <2>2, Powers DEF Bits, One, Digit
    <3>2. left(b) = Above(n, b) /\ left(b + 1) = Above(n, b + 1)
      <4>1. b + 1 < width \/ b + 1 = width
        BY <2>2
      <4>. QED
        BY <2>2, <4>1
    <3>3. Digit(n, b) = Above(n, b) - Above(n, b + 1)
      BY DigitTaken
    <3>4. Above(n, b) \in Int /\ Above(n, b + 1) \in Int
      <4>1. b \in 0 .. 16 /\ b + 1 \in 0 .. 16
        OBVIOUS
      <4>. QED
        BY <4>1, AboveInt
    <3>. HIDE DEF left, s
    <3>. QED
      BY <3>1, <3>2, <3>3, <3>4
  <2>3. CASE ~(b < width)
    <3>1. One(s, b) = 0
      BY <2>3 DEF Bits, One
    <3>2. left(b) = Above(n, width) /\ left(b + 1) = Above(n, width)
      <4>1. ~(b + 1 < width)
        BY <2>3
      <4>. QED
        BY <2>3, <4>1
    <3>3. Above(n, width) \in Int
      BY AboveInt
    <3>. HIDE DEF left, s
    <3>. QED
      BY <3>1, <3>2, <3>3
  <2>. QED
    BY <2>2, <2>3
<1>3. left(0) = n /\ left(16) = Above(n, width)
  <2>1. Above(n, 0) = n
    BY Powers DEF Above
  <2>2. width = 0 \/ 0 < width
    OBVIOUS
  <2>. QED
    BY <2>1, <2>2
<1>. HIDE DEF left, s
<1>4. \A b \in {0, 4, 8, 12} : Four(s, b) = left(b) - left(b + 4) /\ left(b) \in Int /\ left(b + 4) \in Int
  <2>1. TAKE b \in {0, 4, 8, 12}
  <2>2. b \in 0 .. 15 /\ b + 1 \in 0 .. 15 /\ b + 2 \in 0 .. 15 /\ b + 3 \in 0 .. 15
        /\ b + 1 + 1 = b + 2 /\ b + 2 + 1 = b + 3 /\ b + 3 + 1 = b + 4
    OBVIOUS
  <2>. QED
    BY <1>2, <2>2 DEF Four
<1>5. Total(s) = left(0) - left(16)
  BY <1>4 DEF Total
<1>. QED
  BY <1>1, <1>3, <1>5, UnsignedIsTotal DEF s

LEMMA Unsigned6 == ASSUME NEW n \in Int PROVE Unsigned(Bits(n, 6)) = n % 64
<1>1. Unsigned(Bits(n, 6)) = n - Above(n, 6)
  BY UnsignedBits
<1>. QED
  BY <1>1, Powers DEF Above

LEMMA Unsigned8 == ASSUME NEW n \in Int PROVE Unsigned(Bits(n, 8)) = n % 256
<1>1. Unsigned(Bits(n, 8)) = n - Above(n, 8)
  BY UnsignedBits
<1>. QED
  BY <1>1, Powers DEF Above

LEMMA Unsigned14 == ASSUME NEW n \in Int PROVE Unsigned(Bits(n, 14)) = n % 16384
<1>1. Unsigned(Bits(n, 14)) = n - Above(n, 14)
  BY UnsignedBits
<1>. QED
  BY <1>1, Powers DEF Above

LEMMA Unsigned16 == ASSUME NEW n \in Int PROVE Unsigned(Bits(n, 16)) = n % 65536
<1>1. Unsigned(Bits(n, 16)) = n - Above(n, 16)
  BY UnsignedBits
<1>. QED
  BY <1>1, Powers DEF Above

\* Numbers that fit come back with their sign.
LEMMA Signed8 == ASSUME NEW n \in Int, 0 <= n + 128, n < 128 PROVE Signed(Bits(n, 8), 8) = n
<1>1. Signed(Bits(n, 8), 8) = Unsigned(Bits(n, 8)) - (IF 7 \in Bits(n, 8) THEN 256 ELSE 0)
  <2>1. Signed(Bits(n, 8), 8) = Unsigned(Bits(n, 8)) - (IF 8 - 1 \in Bits(n, 8) THEN 2^8 ELSE 0)
    BY SMT DEF Signed, Int16
  <2>2. 8 - 1 = 7 /\ 2^8 = 256
    OBVIOUS
  <2>. QED
    BY <2>1, <2>2
<1>2. Unsigned(Bits(n, 8)) = n % 256
  BY Unsigned8
<1>5. 7 \in Bits(n, 8) <=> (n \div 128) % 2 = 1
  BY Powers DEF Bits
<1>3. CASE n < 0
  <2>1. n \div 128 + 1 = 0 /\ n % 256 = n + 256
    BY <1>3
  <2>2. (n \div 128) % 2 = 1
    BY <2>1
  <2>. QED
    BY <1>1, <1>2, <1>5, <2>1, <2>2
<1>4. CASE n >= 0
  <2>1. n \div 128 = 0 /\ n % 256 = n
    BY <1>4
  <2>. QED
    BY <1>1, <1>2, <1>5, <2>1
<1>. QED
  BY <1>3, <1>4

LEMMA Signed14 == ASSUME NEW n \in Int, 0 <= n + 8192, n < 8192 PROVE Signed(Bits(n, 14), 14) = n
<1>1. Signed(Bits(n, 14), 14) = Unsigned(Bits(n, 14)) - (IF 13 \in Bits(n, 14) THEN 16384 ELSE 0)
  <2>1. Signed(Bits(n, 14), 14) = Unsigned(Bits(n, 14)) - (IF 14 - 1 \in Bits(n, 14) THEN 2^14 ELSE 0)
    BY SMT DEF Signed, Int16
  <2>2. 14 - 1 = 13 /\ 2^14 = 16384
    OBVIOUS
  <2>. QED
    BY <2>1, <2>2
<1>2. Unsigned(Bits(n, 14)) = n % 16384
  BY Unsigned14
<1>5. 13 \in Bits(n, 14) <=> (n \div 8192) % 2 = 1
  BY Powers DEF Bits
<1>3. CASE n < 0
  <2>1. n \div 8192 + 1 = 0 /\ n % 16384 = n + 16384
    BY <1>3
  <2>2. (n \div 8192) % 2 = 1
    BY <2>1
  <2>. QED
    BY <1>1, <1>2, <1>5, <2>1, <2>2
<1>4. CASE n >= 0
  <2>1. n \div 8192 = 0 /\ n % 16384 = n
    BY <1>4
  <2>. QED
    BY <1>1, <1>2, <1>5, <2>1
<1>. QED
  BY <1>3, <1>4

LEMMA Signed16 == ASSUME NEW n \in Int, 0 <= n + 32768, n < 32768 PROVE Int16(n) = n
<1>1. Int16(n) = Unsigned(Bits(n, 16)) - (IF 15 \in Bits(n, 16) THEN 65536 ELSE 0)
  <2>1. Int16(n) = Unsigned(Bits(n, 16)) - (IF 16 - 1 \in Bits(n, 16) THEN 2^16 ELSE 0)
    BY SMT DEF Signed, Int16
  <2>2. 16 - 1 = 15 /\ 2^16 = 65536
    OBVIOUS
  <2>. QED
    BY <2>1, <2>2
<1>2. Unsigned(Bits(n, 16)) = n % 65536
  BY Unsigned16
<1>5. 15 \in Bits(n, 16) <=> (n \div 32768) % 2 = 1
  BY Powers DEF Bits
<1>3. CASE n < 0
  <2>1. n \div 32768 + 1 = 0 /\ n % 65536 = n + 65536
    BY <1>3
  <2>2. (n \div 32768) % 2 = 1
    BY <2>1
  <2>. QED
    BY <1>1, <1>2, <1>5, <2>1, <2>2
<1>4. CASE n >= 0
  <2>1. n \div 32768 = 0 /\ n % 65536 = n
    BY <1>4
  <2>. QED
    BY <1>1, <1>2, <1>5, <2>1
<1>. QED
  BY <1>3, <1>4

-----------------------------------------------------------------------------
(* The fields of a word.                                                   *)

LEMMA BitsInside ==
  ASSUME NEW n, NEW width \in Nat
  PROVE  \A b \in Bits(n, width) : b \in Int /\ 0 <= b /\ b < width
  BY DEF Bits

LEMMA ShiftedMembers ==
  ASSUME NEW s, \A b \in s : b \in Int, NEW by \in Int
  PROVE  \A x \in Int : x \in Shifted(s, by) <=> x - by \in s
<1>1. ASSUME NEW x \in Int, x \in Shifted(s, by) PROVE x - by \in s
  BY <1>1 DEF Shifted
<1>2. ASSUME NEW x \in Int, x - by \in s PROVE x \in Shifted(s, by)
  <2>1. x = (x - by) + by
    OBVIOUS
  <2>. QED
    BY <1>2, <2>1, Zenon DEF Shifted
<1>. QED
  BY <1>1, <1>2

LEMMA ShiftedInts ==
  ASSUME NEW s, \A b \in s : b \in Int, NEW by \in Int
  PROVE  \A x \in Shifted(s, by) : x \in Int
  BY DEF Shifted

LEMMA FieldInside ==
  ASSUME NEW w \in SUBSET Int, NEW low \in Int, NEW width \in Int
  PROVE  Field(w, low, width) \in SUBSET (0 .. width - 1)
  BY DEF Field

LEMMA FieldMembers ==
  ASSUME NEW w \in SUBSET Int, NEW low \in Int, NEW width \in Int, NEW x \in 0 .. width - 1
  PROVE  x \in Field(w, low, width) <=> x + low \in w
<1>1. ASSUME x + low \in w PROVE x \in Field(w, low, width)
  <2>1. x + low \in w \intersect (low .. low + width - 1) /\ x = (x + low) - low
    BY <1>1
  <2>. QED
    BY <2>1, Zenon DEF Field
<1>2. ASSUME x \in Field(w, low, width) PROVE x + low \in w
  <2>1. PICK b \in w \intersect (low .. low + width - 1) : x = b - low
    BY <1>2 DEF Field
  <2>2. b \in Int /\ b = x + low
    BY <2>1
  <2>. QED
    BY <2>1, <2>2
<1>. QED
  BY <1>1, <1>2

LEMMA WholeField ==
  ASSUME NEW n, NEW width \in Nat
  PROVE  Field(Bits(n, width), 0, width) = Bits(n, width)
<1>1. Bits(n, width) \in SUBSET Int /\ \A b \in Bits(n, width) : 0 <= b /\ b < width
  BY BitsInside
<1>2. \A x \in 0 .. width - 1 : x \in Field(Bits(n, width), 0, width) <=> x + 0 \in Bits(n, width)
  BY <1>1, FieldMembers
<1>3. Field(Bits(n, width), 0, width) \in SUBSET (0 .. width - 1)
  BY <1>1, FieldInside
<1>. QED
  BY <1>1, <1>2, <1>3

-----------------------------------------------------------------------------
(* The window of the patcher, for all templates, words and sequences of    *)
(* calls on one object.                                                    *)

\* A file has a type, and its last text section lies in its rows.
LEMMA FileFacts ==
  ASSUME NEW f \in Templates \union {NoFile}
  PROVE  /\ f \in File
         /\ f.text # <<>> =>
              /\ f \in Templates /\ Last(f.text) \in Section
              /\ Last(f.text).offset + Last(f.text).size <= Len(f.rows)
<1>1. f \in File
  <2>1. NoFile.elf \in BOOLEAN /\ NoFile.rows \in Seq(Row) /\ NoFile.text \in Seq(Section)
    BY DEF NoFile
  <2>2. NoFile \in File
    BY <2>1 DEF NoFile, File
  <2>3. QED
    BY <2>2, PatcherAssumption
<1>2. ASSUME f.text # <<>>
      PROVE  /\ f \in Templates /\ Last(f.text) \in Section
             /\ Last(f.text).offset + Last(f.text).size <= Len(f.rows)
  <2>1. f \in Templates
    BY <1>2 DEF NoFile
  <2>2. f.text \in Seq(Section) /\ Len(f.text) \in DOMAIN f.text
    BY <1>1, <1>2 DEF File
  <2>3. QED
    BY <2>1, <2>2, PatcherAssumption DEF Last
<1>3. QED
  BY <1>1, <1>2

\* The window of a text section of a file lies inside the file's rows.
LEMMA WindowInside ==
  ASSUME PatchInv, file.elf, file.text # <<>>
  PROVE  Window \subseteq DOMAIN data
<1>1. file \in File /\ window \in Section /\ window.offset + window.size <= Len(file.rows)
  BY FileFacts DEF PatchInv, PatchTypes
<1>2. DOMAIN data = 1 .. Len(file.rows)
  BY <1>1 DEF PatchInv, File
<1>3. QED
  BY <1>1, <1>2 DEF Window, Section

\* Patched words leave a vector of rows of the same length.
LEMMA PatchedRows ==
  ASSUME PatchInv, NEW words \in Seq(Row)
  PROVE  Patched(words) \in Seq(Row) /\ DOMAIN Patched(words) = DOMAIN data
<1>1. data \in Seq(Row)
  BY DEF PatchInv, PatchTypes
<1>2. \A i \in DOMAIN data :
        i \in FreeRows /\ Before(i) < Len(words) => words[Before(i) + 1] \in Row
  <2>1. SUFFICES ASSUME NEW i \in FreeRows, Before(i) < Len(words)
                 PROVE  words[Before(i) + 1] \in Row
    OBVIOUS
  <2>2. IsFiniteSet(FreeRows) /\ IsFiniteSet({j \in FreeRows : j < i})
    <3>1. IsFiniteSet(1 .. Len(data)) /\ FreeRows \subseteq 1 .. Len(data)
      BY <1>1, FS_Interval DEF FreeRows
    <3>2. QED
      BY <3>1, FS_Subset
  <2>3. Before(i) \in Nat
    BY <2>2, FS_CardinalityType DEF Before
  <2>4. QED
    BY <2>1, <2>3
<1>3. QED
  BY <1>1, <1>2 DEF Patched

\* The initial object meets the invariant.
LEMMA PatchInitInv == PatchInit => PatchInv
<1> SUFFICES ASSUME PatchInit PROVE PatchInv
  OBVIOUS
<1>1. file = NoFile /\ data = <<>> /\ file.rows = <<>> /\ file.text = <<>> /\ ~file.elf
  BY DEF PatchInit, NoFile
<1>2. PatchTypes
  <2>1. data \in Seq(Row)
    BY <1>1
  <2>2. window \in Section /\ valid \in BOOLEAN /\ result = "none"
    BY DEF PatchInit, Section
  <2>3. calls \in 0 .. MaxCalls
    BY PatcherAssumption DEF PatchInit
  <2>4. QED
    BY <1>1, <2>1, <2>2, <2>3 DEF PatchTypes
<1>3. QED
  <2>1. window.size = 0 /\ valid = FALSE /\ result = "none"
    BY DEF PatchInit
  <2>2. QED
    BY <1>1, <1>2, <2>1 DEF PatchInv

\* A load keeps the invariant: it takes over the last text section of its file
\* or leaves a window that is already one of a template.
LEMMA LoadInv ==
  ASSUME PatchInv, NEW f \in Templates, Load(f)
  PROVE  PatchInv'
<1> USE DEF Load, ReadFile, Calling, PatchInv, PatchTypes
<1>1. f \in File /\ (f.text # <<>> => Last(f.text) \in Section)
  BY FileFacts
<1>2. PatchTypes'
  <2>1. window' \in Section
    BY <1>1 DEF TextOf
  <2>2. valid' \in BOOLEAN /\ result' \in {"true", "false"} /\ calls' \in 0 .. MaxCalls
    BY PatcherAssumption
  <2>3. file' \in Templates /\ data' \in Seq(Row)
    BY <1>1 DEF File
  <2>4. QED
    BY <2>1, <2>2, <2>3
<1>3. CASE f.text = <<>>
  BY <1>1, <1>2, <1>3 DEF TextOf, OfTemplate, Section
<1>4. CASE f.text # <<>>
  <2>1. window' = Last(f.text) /\ file' = f /\ data' = f.rows
    BY <1>4 DEF TextOf
  <2>2. OfTemplate(window')
    BY <1>4, <2>1 DEF OfTemplate
  <2>3. valid' => window'.size > 0
    OBVIOUS
  <2>4. QED
    BY <1>2, <2>1, <2>2, <2>3 DEF OfTemplate
<1>5. QED
  BY <1>3, <1>4

\* The inductive step, by the ways a call ends.
LEMMA PatchInvStep == PatchInv /\ [\E words \in Seq(Row) : PatchNext(words)]_patchVars => PatchInv'
<1> SUFFICES ASSUME PatchInv, [\E words \in Seq(Row) : PatchNext(words)]_patchVars
             PROVE  PatchInv'
  OBVIOUS
<1> USE DEF PatchInv, PatchTypes, OfTemplate
<1>1. CASE UNCHANGED patchVars
  BY <1>1 DEF patchVars
<1>2. CASE NoSuchFile
  BY <1>2, PatcherAssumption DEF NoSuchFile, Calling
<1>3. ASSUME NEW f \in Templates, NotElf(f)
      PROVE  PatchInv'
  <2>1. f \in File
    BY FileFacts
  <2>2. QED
    BY <1>3, <2>1, PatcherAssumption DEF NotElf, ReadFile, Calling, File
<1>4. ASSUME NEW f \in Templates, Load(f)
      PROVE  PatchInv'
  BY <1>4, LoadInv
<1>5. ASSUME NEW words \in Seq(Row), Refuse(words)
      PROVE  PatchInv'
  BY <1>5, PatcherAssumption DEF Refuse, Calling
<1>6. ASSUME NEW words \in Seq(Row), Patch(words)
      PROVE  PatchInv'
  BY <1>6, PatchedRows, PatcherAssumption DEF Patch, Calling
<1>7. ASSUME NEW words \in Seq(Row), PatchOutside(words)
      PROVE  PatchInv'
  <2>1. ~(Window \subseteq DOMAIN data)
    BY <1>7 DEF PatchOutside, LeavesData
  <2>2. QED
    BY <1>7, <2>1, WindowInside, PatcherAssumption DEF PatchOutside, Calling
<1>8. QED
  BY <1>1, <1>2, <1>3, <1>4, <1>5, <1>6, <1>7 DEF PatchNext

\* PatchInv is an invariant of every sequence of calls.
THEOREM PatchInvariance == PatchSpec => []PatchInv
<1>1. PatchInit => PatchInv
  BY PatchInitInv
<1>2. PatchInv /\ [\E words \in Seq(Row) : PatchNext(words)]_patchVars => PatchInv'
  BY PatchInvStep
<1>3. QED
  BY <1>1, <1>2, PTL DEF PatchSpec

\* In every sequence of calls a text section found by the last load is the
\* window, a valid window is one of a template, and a patch leaves data_ only
\* when the last load found no text section.
THEOREM WindowTheorem == PatchSpec => []WindowOfTemplate
<1>1. PatchInv => WindowOfTemplate
  BY DEF PatchInv, WindowOfTemplate
<1>2. QED
  BY <1>1, PatchInvariance, PTL

\* What one patch_and_save does to the rows, with the increasing enumeration of
\* the rows it may write.
LEMMA PatchWrites ==
  ASSUME PatchInv, NEW words \in Seq(Row), Patch(words)
  PROVE  PatchStep(words)
<1>. DEFINE free == Increasing(FreeRows)
            n == IF Len(words) <= Len(free) THEN Len(words) ELSE Len(free)
            control == {i \in Window : ControlRow(data[i])}
<1>1. /\ data \in Seq(Row) /\ DOMAIN data = 1 .. Len(data) /\ Len(data) \in Nat
      /\ window.offset \in Nat /\ window.size \in Nat /\ Len(words) \in Nat
  BY DEF PatchInv, PatchTypes, Section
<1>2. FreeRows = {i \in DOMAIN data : i \in Window /\ ~ControlRow(data[i])}
  BY DEF FreeRows
<1>3. FreeRows \in SUBSET (1 .. Len(data))
  BY <1>1, <1>2
<1>4. /\ Len(free) = Cardinality(FreeRows) /\ Len(free) \in Nat
      /\ \A k \in 1 .. Len(free) : free[k] \in FreeRows /\ Before(free[k]) = k - 1
  BY <1>1, <1>3, Enumerated DEF Before
<1>. HIDE DEF free
<1>5. data' = Patched(words) /\ (Window \subseteq DOMAIN data \/ Cardinality(FreeRows) >= Len(words))
  <2>1. Cardinality(FreeRows) \in Nat
    BY <1>4
  <2>. QED
    BY <1>1, <2>1 DEF Patch, LeavesData
<1>6. DOMAIN data' = DOMAIN data /\ \A i \in DOMAIN data : data'[i] # data[i] => i \in FreeRows
  BY <1>5, Zenon DEF Patched
<1>7. \A k \in 1 .. Len(free) :
        data'[free[k]] = IF k - 1 < Len(words) THEN words[(k - 1) + 1] ELSE data[free[k]]
  <2>1. \A i \in FreeRows : data'[i] = IF Before(i) < Len(words) THEN words[Before(i) + 1] ELSE data[i]
    BY <1>2, <1>5 DEF Patched
  <2>. QED
    BY <1>4, <2>1
<1>8. /\ n \in Nat /\ n <= Len(words) /\ n <= Len(free)
      /\ \A k \in 1 .. n : data'[free[k]] = words[k]
      /\ \A k \in n + 1 .. Len(free) : data'[free[k]] = data[free[k]]
  <2>1. n \in Nat /\ n <= Len(words) /\ n <= Len(free)
    BY <1>1, <1>4
  <2>2. \A k \in 1 .. n : k \in 1 .. Len(free) /\ k - 1 < Len(words) /\ (k - 1) + 1 = k
    BY <1>1, <1>4, <2>1
  <2>3. \A k \in n + 1 .. Len(free) : k \in 1 .. Len(free) /\ ~(k - 1 < Len(words))
    BY <1>1, <1>4
  <2>. HIDE DEF n
  <2>. QED
    BY <1>7, <2>1, <2>2, <2>3
<1>9. ASSUME n < Len(words)
      PROVE  Cardinality(control) > window.size - Len(words)
  <2>1. Len(free) < Len(words)
    BY <1>1, <1>4, <1>9
  <2>2. Window \subseteq DOMAIN data
    BY <1>1, <1>4, <1>5, <2>1
  <2>3. FreeRows \union control = Window /\ FreeRows \intersect control = {}
    BY <1>2, <2>2, Zenon
  <2>4. IsFiniteSet(Window) /\ Cardinality(Window) = window.size
    <3>. DEFINE lo == window.offset + 1
                hi == window.offset + window.size
    <3>1. lo \in Int /\ hi \in Int /\ (IF lo > hi THEN 0 ELSE hi - lo + 1) = window.size
      BY <1>1
    <3>2. Window = lo .. hi
      BY DEF Window
    <3>. HIDE DEF lo, hi
    <3>3. IsFiniteSet(lo .. hi) /\ Cardinality(lo .. hi) = IF lo > hi THEN 0 ELSE hi - lo + 1
      BY <3>1, FS_Interval
    <3>. QED
      BY <3>1, <3>2, <3>3
  <2>5. FreeRows \in SUBSET Window /\ control \in SUBSET Window
    BY <2>3, Zenon
  <2>6. IsFiniteSet(FreeRows) /\ IsFiniteSet(control)
    BY <2>4, <2>5, FS_Subset
  <2>7. Cardinality(FreeRows \intersect control) = 0
    BY <2>3, FS_EmptySet
  <2>8. Cardinality(Window) = Cardinality(FreeRows) + Cardinality(control) - 0
    BY <2>3, <2>6, <2>7, FS_Union
  <2>9. Cardinality(control) \in Nat
    BY <2>6, FS_CardinalityType
  <2>. QED
    BY <1>1, <1>4, <2>1, <2>4, <2>8, <2>9
<1>. QED
  <2>1. Increasing({i \in DOMAIN data : i \in Window /\ ~ControlRow(data[i])}) = free
    BY <1>2, Zenon DEF free
  <2>2. \A i \in FreeRows : i \in Window /\ ~ControlRow(data[i])
    BY <1>2
  <2>. HIDE DEF control
  <2>. QED
    BY <1>6, <1>8, <1>9, <2>1, <2>2, Zenon DEF PatchStep, control

\* For all templates, words and sequences of calls: a patch changes free rows of
\* the window only, in order and from the first on, and it drops words silently
\* exactly when control rows take their places.
THEOREM PatchTheorem == PatchSpec => PatchExact
<1>1. PatchInv /\ [\E words \in Seq(Row) : PatchNext(words)]_patchVars => [PatchStep(given')]_patchVars
  <2>. SUFFICES ASSUME PatchInv, [\E words \in Seq(Row) : PatchNext(words)]_patchVars,
                       ~UNCHANGED patchVars
                PROVE  PatchStep(given')
    OBVIOUS
  <2>1. ASSUME data' = data \/ data' = file'.rows
        PROVE  PatchStep(given')
    BY <2>1, Zenon DEF PatchStep
  <2>2. CASE NoSuchFile
    BY <2>1, <2>2, Zenon DEF NoSuchFile
  <2>3. ASSUME NEW f \in Templates, NotElf(f) \/ Load(f)
        PROVE  PatchStep(given')
    BY <2>1, <2>3, Zenon DEF NotElf, Load, ReadFile
  <2>4. ASSUME NEW words \in Seq(Row), Refuse(words) \/ PatchOutside(words)
        PROVE  PatchStep(given')
    BY <2>1, <2>4, Zenon DEF Refuse, PatchOutside
  <2>5. ASSUME NEW words \in Seq(Row), Patch(words)
        PROVE  PatchStep(given')
    <3>1. PatchStep(words) /\ given' = words
      BY <2>5, PatchWrites DEF Patch
    <3>. QED
      BY <3>1
  <2>. QED
    BY <2>2, <2>3, <2>4, <2>5 DEF PatchNext
<1>2. QED
  BY <1>1, PatchInvariance, PTL DEF PatchSpec, PatchExact
=============================================================================

------------------------------ MODULE WordProofs ------------------------------
(***************************************************************************)
(* The comparison computes what it is defined to compute, for texts of any *)
(* length.                                                                 *)
(*                                                                         *)
(* Table: WordInv is the inductive invariant.  A cell that is filled holds *)
(* the least cost of an alignment (Best), because an alignment of the      *)
(* first i with the first j words is one of fewer words with its last pair *)
(* put behind it, or leaves one of the two last words out.  The walk back  *)
(* has recorded what it has come past (WalkAt), so that the verdict is that *)
(* of the best alignment.                                                  *)
(*                                                                         *)
(* Words: the pass over the folded characters is followed one character at *)
(* a time (PassAt); it has found the runs that have ended, and holds the   *)
(* word of the one that is open.                                           *)
(*                                                                         *)
(* Excluded time: merging the segments one at a time covers what they      *)
(* cover (MergedAt), and ranges that lie apart are the only ones that      *)
(* cover what they cover (OneSetOfRanges).                                 *)
(*                                                                         *)
(* The induction over data all three need is over sets of numbers: LeastOf *)
(* and Induction follow from the well-foundedness of < on Nat.             *)
(***************************************************************************)
EXTENDS WordProperties, FiniteSetTheorems, WellFoundedInduction, TLAPS

-----------------------------------------------------------------------------
(* Induction over the naturals, for sets in place of predicates.           *)

\* A set of numbers that is not empty has a least one.
LEMMA LeastOf ==
    ASSUME NEW S \in SUBSET Nat, S # {}
    PROVE  \E m \in S : \A k \in S : m <= k
  <1> DEFINE R == OpToRel(<, Nat)
  <1>1. \A x, y \in Nat : x < y => <<x, y>> \in R
    BY DEF OpToRel
  <1>2. IsWellFoundedOn(R, Nat)
    BY NatLessThanWellFounded
  <1> HIDE DEF R
  <1>3. PICK m \in S : \A y \in S : ~ (<<y, m>> \in R)
    BY <1>2, WFMin
  <1>4. ASSUME NEW k \in S PROVE m <= k
    <2>1. ~ (k < m)
      BY <1>1, <1>3, Zenon
    <2> QED BY <2>1
  <1> QED BY <1>4

\* What holds at 0 and of every number whose predecessor it holds of, holds up to n: the
\* induction every pass over a sequence is reasoned with.
LEMMA Induction ==
    ASSUME NEW n \in Nat, NEW S, 0 \in S,
           \A k \in 1 .. n : k - 1 \in S => k \in S
    PROVE  \A k \in 0 .. n : k \in S
  <1> DEFINE Without == {k \in 0 .. n : k \notin S}
  <1>1. SUFFICES ASSUME Without # {} PROVE FALSE
    OBVIOUS
  <1>2. PICK k \in Without : \A m \in Without : k <= m
    <2>1. Without \in SUBSET Nat
      OBVIOUS
    <2> HIDE DEF Without
    <2> QED BY <1>1, <2>1, LeastOf
  <1>3. k \in 1 .. n /\ k - 1 \in 0 .. n
    BY <1>2
  <1>4. k - 1 \notin Without
    BY <1>2, <1>3
  <1> QED BY <1>2, <1>3, <1>4

\* The library's minimum is the element no other is below.
LEMMA Minimum ==
    ASSUME NEW S \in SUBSET Int, NEW m \in S, \A k \in S : m <= k
    PROVE  Min(S) = m
  <1>1. \A x \in S : (\A k \in S : x <= k) => x = m
    OBVIOUS
  <1> QED BY <1>1 DEF Min

-----------------------------------------------------------------------------
(* Alignments of the first i words of the one text with the first j of the *)
(* other; W tells which words are the same.                                *)

Aligned(i, j) ==
    UNION {{f \in [chosen -> 1 .. j] : \A k, m \in chosen : k < m => f[k] < f[m]} :
              chosen \in SUBSET (1 .. i)}

Unlike(W, f) == {k \in DOMAIN f : <<k, f[k]>> \notin W}

CostOf(W, f, i, j) ==
    Cardinality(Unlike(W, f)) + (i - Cardinality(DOMAIN f)) + (j - Cardinality(DOMAIN f))

\* The least cost is v.
Best(W, v, i, j) == /\ \E f \in Aligned(i, j) : CostOf(W, f, i, j) = v
                    /\ \A f \in Aligned(i, j) : v <= CostOf(W, f, i, j)

LEMMA AlignedForm ==
    ASSUME NEW i \in Nat, NEW j \in Nat, NEW f
    PROVE  f \in Aligned(i, j) <=>
              /\ DOMAIN f \subseteq 1 .. i /\ f \in [DOMAIN f -> 1 .. j]
              /\ \A k, m \in DOMAIN f : k < m => f[k] < f[m]
  <1>1. ASSUME f \in Aligned(i, j)
        PROVE  /\ DOMAIN f \subseteq 1 .. i /\ f \in [DOMAIN f -> 1 .. j]
               /\ \A k, m \in DOMAIN f : k < m => f[k] < f[m]
    BY <1>1 DEF Aligned
  <1>2. ASSUME DOMAIN f \subseteq 1 .. i, f \in [DOMAIN f -> 1 .. j],
               \A k, m \in DOMAIN f : k < m => f[k] < f[m]
        PROVE  f \in Aligned(i, j)
    <2> DEFINE on(chosen) == {g \in [chosen -> 1 .. j] :
                                 \A k, m \in chosen : k < m => g[k] < g[m]}
    <2>1. f \in on(DOMAIN f) /\ DOMAIN f \in SUBSET (1 .. i)
      BY <1>2
    <2>2. \A chosen \in SUBSET (1 .. i) : on(chosen) \subseteq Aligned(i, j)
      BY DEF Aligned
    <2> HIDE DEF on
    <2> QED BY <2>1, <2>2
  <1> QED BY <1>1, <1>2

LEMMA CostsAreNumbers ==
    ASSUME NEW W, NEW i \in Nat, NEW j \in Nat, NEW f \in Aligned(i, j)
    PROVE  /\ IsFiniteSet(DOMAIN f) /\ IsFiniteSet(Unlike(W, f))
           /\ Cardinality(DOMAIN f) \in Nat /\ Cardinality(Unlike(W, f)) \in Nat
           /\ CostOf(W, f, i, j) \in Int
  <1>1. DOMAIN f \in SUBSET (1 .. i)
    BY AlignedForm
  <1>2. IsFiniteSet(DOMAIN f)
    BY <1>1, FS_Interval, FS_Subset
  <1>3. IsFiniteSet(Unlike(W, f))
    BY <1>2, FS_Subset DEF Unlike
  <1> QED BY <1>2, <1>3, FS_CardinalityType DEF CostOf

LEMMA NothingAligned ==
    ASSUME NEW W, NEW i \in Nat, NEW j \in Nat, i = 0 \/ j = 0
    PROVE  Best(W, i + j, i, j)
  <1> DEFINE e == [k \in {} |-> 0]
  <1>1. e \in Aligned(i, j)
    BY AlignedForm
  <1>2. \A f \in Aligned(i, j) : DOMAIN f = {}
    BY AlignedForm
  <1>3. \A f \in Aligned(i, j) : CostOf(W, f, i, j) = i + j
    <2> TAKE f \in Aligned(i, j)
    <2>1. DOMAIN f = {} /\ Unlike(W, f) = {}
      BY <1>2 DEF Unlike
    <2>2. Cardinality({}) = 0
      BY FS_EmptySet
    <2> QED BY <2>1, <2>2 DEF CostOf
  <1> QED BY <1>1, <1>3 DEF Best

\* The last two words opposite each other.
With(f, i, j) == [k \in DOMAIN f \cup {i} |-> IF k = i THEN j ELSE f[k]]

LEMMA Paired ==
    ASSUME NEW W, NEW i \in Nat \ {0}, NEW j \in Nat \ {0},
           NEW f \in Aligned(i - 1, j - 1)
    PROVE  /\ With(f, i, j) \in Aligned(i, j)
           /\ CostOf(W, With(f, i, j), i, j) = CostOf(W, f, i - 1, j - 1) + (IF <<i, j>> \in W THEN 0 ELSE 1)
  <1> DEFINE g == With(f, i, j)
  <1>0. i - 1 \in Nat /\ j - 1 \in Nat
    OBVIOUS
  <1>1. /\ DOMAIN f \subseteq 1 .. i - 1 /\ f \in [DOMAIN f -> 1 .. j - 1]
        /\ \A k, m \in DOMAIN f : k < m => f[k] < f[m]
    BY <1>0, AlignedForm
  <1>2. DOMAIN g = DOMAIN f \cup {i} /\ i \notin DOMAIN f /\ g[i] = j
    BY <1>1 DEF With
  <1>3. \A k \in DOMAIN f : g[k] = f[k] /\ k < i /\ f[k] < j /\ f[k] \in 1 .. j
    BY <1>1 DEF With
  <1>4. g \in Aligned(i, j)
    <2>1. DOMAIN g \subseteq 1 .. i
      BY <1>1, <1>2
    <2>2. g \in [DOMAIN g -> 1 .. j]
      BY <1>2, <1>3 DEF With
    <2>3. \A k, m \in DOMAIN g : k < m => g[k] < g[m]
      BY <1>1, <1>2, <1>3
    <2> QED BY <2>1, <2>2, <2>3, AlignedForm
  <1>5. /\ IsFiniteSet(DOMAIN f) /\ IsFiniteSet(Unlike(W, f))
        /\ Cardinality(DOMAIN f) \in Nat /\ Cardinality(Unlike(W, f)) \in Nat
    BY <1>0, CostsAreNumbers
  <1>6. Cardinality(DOMAIN g) = Cardinality(DOMAIN f) + 1
    BY <1>2, <1>5, FS_AddElement
  <1>7. CASE <<i, j>> \in W
    <2>1. Unlike(W, g) = Unlike(W, f)
      BY <1>2, <1>3, <1>7 DEF Unlike
    <2> QED BY <1>4, <1>5, <1>6, <1>7, <2>1 DEF CostOf
  <1>8. CASE <<i, j>> \notin W
    <2>1. Unlike(W, g) = Unlike(W, f) \cup {i} /\ i \notin Unlike(W, f)
      BY <1>2, <1>3, <1>8 DEF Unlike
    <2>2. Cardinality(Unlike(W, g)) = Cardinality(Unlike(W, f)) + 1
      BY <1>5, <2>1, FS_AddElement
    <2> QED BY <1>4, <1>5, <1>6, <1>8, <2>2 DEF CostOf
  <1> QED BY <1>7, <1>8

LEMMA Unpaired ==
    ASSUME NEW W, NEW i \in Nat \ {0}, NEW j \in Nat \ {0},
           NEW g \in Aligned(i, j), i \in DOMAIN g, g[i] = j
    PROVE  \E f \in Aligned(i - 1, j - 1) :
              CostOf(W, g, i, j) = CostOf(W, f, i - 1, j - 1) + (IF <<i, j>> \in W THEN 0 ELSE 1)
  <1> DEFINE f == [k \in DOMAIN g \ {i} |-> g[k]]
  <1>0. i - 1 \in Nat /\ j - 1 \in Nat
    OBVIOUS
  <1>1. /\ DOMAIN g \subseteq 1 .. i /\ g \in [DOMAIN g -> 1 .. j]
        /\ \A k, m \in DOMAIN g : k < m => g[k] < g[m]
    BY AlignedForm
  <1>2. \A k \in DOMAIN g \ {i} : k \in 1 .. i - 1 /\ k < i /\ g[k] < j /\ g[k] \in 1 .. j - 1
    BY <1>1
  <1>3. f \in Aligned(i - 1, j - 1)
    <2>1. DOMAIN f \subseteq 1 .. i - 1 /\ f \in [DOMAIN f -> 1 .. j - 1]
      BY <1>2
    <2>2. \A k, m \in DOMAIN f : k < m => f[k] < f[m]
      BY <1>1
    <2>3. i - 1 \in Nat /\ j - 1 \in Nat
      OBVIOUS
    <2> HIDE DEF f
    <2> QED BY <2>1, <2>2, <2>3, AlignedForm
  <1>4. g = With(f, i, j)
    <2>1. DOMAIN f \cup {i} = DOMAIN g
      OBVIOUS
    <2>2. \A k \in DOMAIN g : g[k] = IF k = i THEN j ELSE f[k]
      OBVIOUS
    <2>3. g = [k \in DOMAIN g |-> g[k]]
      BY <1>1
    <2> HIDE DEF f
    <2> QED BY <2>1, <2>2, <2>3 DEF With
  <1> HIDE DEF f
  <1>5. CostOf(W, g, i, j) = CostOf(W, f, i - 1, j - 1) + (IF <<i, j>> \in W THEN 0 ELSE 1)
    BY <1>3, <1>4, Paired
  <1> QED BY <1>3, <1>5

LEMMA DropOriginal ==
    ASSUME NEW W, NEW i \in Nat \ {0}, NEW j \in Nat, NEW f
    PROVE  /\ f \in Aligned(i - 1, j) <=> f \in Aligned(i, j) /\ i \notin DOMAIN f
           /\ f \in Aligned(i - 1, j) => CostOf(W, f, i, j) = CostOf(W, f, i - 1, j) + 1
  <1>0. i - 1 \in Nat
    OBVIOUS
  <1>1. ASSUME f \in Aligned(i - 1, j)
        PROVE  f \in Aligned(i, j) /\ i \notin DOMAIN f
    <2>1. DOMAIN f \subseteq 1 .. i - 1 /\ f \in [DOMAIN f -> 1 .. j]
          /\ \A k, m \in DOMAIN f : k < m => f[k] < f[m]
      BY <1>0, <1>1, AlignedForm
    <2>2. DOMAIN f \subseteq 1 .. i /\ i \notin DOMAIN f
      BY <2>1
    <2> QED BY <2>1, <2>2, AlignedForm
  <1>2. ASSUME f \in Aligned(i, j), i \notin DOMAIN f
        PROVE  f \in Aligned(i - 1, j)
    <2>1. DOMAIN f \subseteq 1 .. i /\ f \in [DOMAIN f -> 1 .. j]
          /\ \A k, m \in DOMAIN f : k < m => f[k] < f[m]
      BY <1>2, AlignedForm
    <2>2. DOMAIN f \subseteq 1 .. i - 1
      BY <2>1, <1>2
    <2> QED BY <2>1, <2>2, AlignedForm
  <1>3. ASSUME f \in Aligned(i - 1, j)
        PROVE  CostOf(W, f, i, j) = CostOf(W, f, i - 1, j) + 1
    <2>1. Cardinality(DOMAIN f) \in Nat /\ Cardinality(Unlike(W, f)) \in Nat
      BY <1>0, <1>3, CostsAreNumbers
    <2> QED BY <2>1 DEF CostOf
  <1> QED BY <1>1, <1>2, <1>3

LEMMA DropSecondary ==
    ASSUME NEW W, NEW i \in Nat, NEW j \in Nat \ {0}, NEW f
    PROVE  /\ f \in Aligned(i, j - 1) <=> f \in Aligned(i, j) /\ \A k \in DOMAIN f : f[k] # j
           /\ f \in Aligned(i, j - 1) => CostOf(W, f, i, j) = CostOf(W, f, i, j - 1) + 1
  <1>1. ASSUME f \in Aligned(i, j - 1)
        PROVE  f \in Aligned(i, j) /\ \A k \in DOMAIN f : f[k] # j
    <2>1. DOMAIN f \subseteq 1 .. i /\ f \in [DOMAIN f -> 1 .. j - 1]
          /\ \A k, m \in DOMAIN f : k < m => f[k] < f[m]
      BY <1>1, AlignedForm
    <2>2. f \in [DOMAIN f -> 1 .. j] /\ \A k \in DOMAIN f : f[k] # j
      BY <2>1
    <2> QED BY <2>1, <2>2, AlignedForm
  <1>2. ASSUME f \in Aligned(i, j), \A k \in DOMAIN f : f[k] # j
        PROVE  f \in Aligned(i, j - 1)
    <2>1. DOMAIN f \subseteq 1 .. i /\ f \in [DOMAIN f -> 1 .. j]
          /\ \A k, m \in DOMAIN f : k < m => f[k] < f[m]
      BY <1>2, AlignedForm
    <2>2. f \in [DOMAIN f -> 1 .. j - 1]
      BY <2>1, <1>2
    <2> QED BY <2>1, <2>2, AlignedForm
  <1>3. ASSUME f \in Aligned(i, j - 1)
        PROVE  CostOf(W, f, i, j) = CostOf(W, f, i, j - 1) + 1
    <2>1. Cardinality(DOMAIN f) \in Nat /\ Cardinality(Unlike(W, f)) \in Nat
      BY <1>3, CostsAreNumbers
    <2> QED BY <2>1 DEF CostOf
  <1> QED BY <1>1, <1>2, <1>3

\* A cell is the least of three: its last two words opposite each other, or one of them
\* opposite none.
LEMMA CellIsBest ==
    ASSUME NEW W, NEW i \in Nat \ {0}, NEW j \in Nat \ {0},
           NEW x \in Nat, NEW y \in Nat, NEW z \in Nat, NEW v \in Nat,
           Best(W, x, i - 1, j - 1), Best(W, y, i - 1, j), Best(W, z, i, j - 1),
           v \in {x + (IF <<i, j>> \in W THEN 0 ELSE 1), y + 1, z + 1},
           \A w \in {x + (IF <<i, j>> \in W THEN 0 ELSE 1), y + 1, z + 1} : v <= w
    PROVE  Best(W, v, i, j)
  <1> DEFINE e == IF <<i, j>> \in W THEN 0 ELSE 1
  <1>0. e \in {0, 1} /\ i - 1 \in Nat /\ j - 1 \in Nat
    OBVIOUS
  <1>1. \E f \in Aligned(i, j) : CostOf(W, f, i, j) = x + e
    <2>1. PICK f \in Aligned(i - 1, j - 1) : CostOf(W, f, i - 1, j - 1) = x
      BY DEF Best
    <2> QED BY <1>0, <2>1, Paired
  <1>2. \E f \in Aligned(i, j) : CostOf(W, f, i, j) = y + 1
    <2>1. PICK f \in Aligned(i - 1, j) : CostOf(W, f, i - 1, j) = y
      BY DEF Best
    <2> QED BY <1>0, <2>1, DropOriginal
  <1>3. \E f \in Aligned(i, j) : CostOf(W, f, i, j) = z + 1
    <2>1. PICK f \in Aligned(i, j - 1) : CostOf(W, f, i, j - 1) = z
      BY DEF Best
    <2> QED BY <1>0, <2>1, DropSecondary
  <1>4. ASSUME NEW f \in Aligned(i, j) PROVE v <= CostOf(W, f, i, j)
    <2>0. CostOf(W, f, i, j) \in Int
      BY CostsAreNumbers
    <2>1. CASE i \notin DOMAIN f
      <3>1. f \in Aligned(i - 1, j) /\ CostOf(W, f, i, j) = CostOf(W, f, i - 1, j) + 1
        BY <2>1, DropOriginal
      <3>2. CostOf(W, f, i - 1, j) \in Int /\ y <= CostOf(W, f, i - 1, j)
        BY <1>0, <3>1, CostsAreNumbers DEF Best
      <3> QED BY <3>1, <3>2
    <2>2. CASE i \in DOMAIN f /\ f[i] = j
      <3>1. PICK g \in Aligned(i - 1, j - 1) : CostOf(W, f, i, j) = CostOf(W, g, i - 1, j - 1) + e
        BY <2>2, Unpaired
      <3>2. CostOf(W, g, i - 1, j - 1) \in Int /\ x <= CostOf(W, g, i - 1, j - 1)
        BY <1>0, CostsAreNumbers DEF Best
      <3> QED BY <1>0, <3>1, <3>2
    <2>3. CASE i \in DOMAIN f /\ f[i] # j
      <3>1. /\ DOMAIN f \subseteq 1 .. i /\ f \in [DOMAIN f -> 1 .. j]
            /\ \A k, m \in DOMAIN f : k < m => f[k] < f[m]
        BY AlignedForm
      <3>2. \A k \in DOMAIN f : f[k] # j
        BY <2>3, <3>1
      <3>3. f \in Aligned(i, j - 1) /\ CostOf(W, f, i, j) = CostOf(W, f, i, j - 1) + 1
        BY <3>2, DropSecondary
      <3>4. CostOf(W, f, i, j - 1) \in Int /\ z <= CostOf(W, f, i, j - 1)
        BY <1>0, <3>3, CostsAreNumbers DEF Best
      <3> QED BY <3>3, <3>4
    <2> QED BY <2>1, <2>2, <2>3
  <1>5. \E f \in Aligned(i, j) : CostOf(W, f, i, j) = v
    BY <1>1, <1>2, <1>3
  <1> QED BY <1>4, <1>5 DEF Best

-----------------------------------------------------------------------------
(* Operations with a kind in X among the first k.                           *)
Those(s, k, X) == {m \in 1 .. k : s[m].op \in X}

LEMMA CountsAreNumbers ==
    ASSUME NEW s, NEW k \in Nat, NEW X
    PROVE  IsFiniteSet(Those(s, k, X)) /\ Cardinality(Those(s, k, X)) \in Nat
  <1>1. Those(s, k, X) \in SUBSET (1 .. k)
    BY DEF Those
  <1>2. IsFiniteSet(1 .. k)
    BY FS_Interval
  <1>3. IsFiniteSet(Those(s, k, X))
    BY <1>1, <1>2, FS_Subset
  <1> QED BY <1>3, FS_CardinalityType

\* One more operation in front.
LEMMA Prepended ==
    ASSUME NEW S, NEW s \in Seq(S), NEW e \in S, NEW X, NEW k \in 0 .. Len(s)
    PROVE  Cardinality(Those(<<e>> \o s, k + 1, X))
             = Cardinality(Those(s, k, X)) + (IF e.op \in X THEN 1 ELSE 0)
  <1> DEFINE t == <<e>> \o s
             old == Those(s, k, X)
             moved == {m + 1 : m \in old}
  <1>0. k \in Nat
    OBVIOUS
  <1>1. /\ t[1] = e /\ \A m \in 1 .. k : t[m + 1] = s[m]
    OBVIOUS
  <1>2. Those(t, k + 1, X) = IF e.op \in X THEN moved \cup {1} ELSE moved
    <2>1. \A m \in 2 .. k + 1 : t[m] = s[m - 1] /\ m - 1 \in 1 .. k
      OBVIOUS
    <2>2. ASSUME NEW m \in 2 .. k + 1
          PROVE  m \in Those(t, k + 1, X) <=> m \in moved
      <3>1. m \in Those(t, k + 1, X) <=> m - 1 \in old
        BY <2>1 DEF Those
      <3>2. m \in moved <=> m - 1 \in old
        BY DEF Those
      <3> QED BY <3>1, <3>2
    <2>3. 1 \in Those(t, k + 1, X) <=> e.op \in X
      BY <1>1 DEF Those
    <2>4. moved \subseteq 2 .. k + 1 /\ Those(t, k + 1, X) \subseteq 1 .. k + 1
      BY DEF Those
    <2> HIDE DEF t, moved
    <2>5. Those(t, k + 1, X) \subseteq {1} \cup (2 .. k + 1) /\ 1 \notin moved
      BY <1>0, <2>4
    <2>6. CASE e.op \in X
      BY <2>2, <2>3, <2>4, <2>5, <2>6
    <2>7. CASE e.op \notin X
      <3>1. \A m : m \in Those(t, k + 1, X) <=> m \in moved
        BY <2>2, <2>3, <2>4, <2>5, <2>7
      <3>2. Those(t, k + 1, X) = moved
        BY <3>1, Zenon
      <3> QED BY <2>7, <3>2
    <2> QED BY <2>6, <2>7
  <1>3. IsFiniteSet(old) /\ Cardinality(old) \in Nat /\ old \subseteq Nat
    <2>1. old \subseteq Nat
      BY DEF Those
    <2> QED BY <1>0, <2>1, CountsAreNumbers
  <1>4. IsFiniteSet(moved) /\ Cardinality(moved) = Cardinality(old) /\ 1 \notin moved
    <2> DEFINE f == [m \in old |-> m + 1]
    <2>1. f \in Bijection(old, moved)
      BY <1>3 DEF Bijection, Injection, Surjection, IsInjective
    <2>2. ExistsBijection(old, moved)
      BY <2>1 DEF ExistsBijection
    <2>3. 1 \notin moved
      BY DEF Those
    <2> HIDE DEF old, moved
    <2> QED BY <1>3, <2>2, <2>3, FS_Bijection
  <1>5. Cardinality(moved \cup {1}) = Cardinality(moved) + 1
    BY <1>4, FS_AddElement
  <1> HIDE DEF moved, old
  <1> DEFINE all == Those(t, k + 1, X)
  <1>6. Cardinality(all) = Cardinality(old) + (IF e.op \in X THEN 1 ELSE 0)
    <2>1. all = IF e.op \in X THEN moved \cup {1} ELSE moved
      BY <1>2
    <2> HIDE DEF all
    <2>2. CASE e.op \in X
      BY <1>3, <1>4, <1>5, <2>1, <2>2
    <2>3. CASE e.op \notin X
      BY <1>3, <1>4, <2>1, <2>3
    <2> QED BY <2>2, <2>3
  <1> QED BY <1>6 DEF old

-----------------------------------------------------------------------------
(* The inductive invariant of the comparison.                               *)

FoldedChar == {"a", "amark", "mark", "apostrophe", "n", "stop", "digit"}
Token == [word : Seq(FoldedChar), from : Nat, to : Nat]

Operation ==
    [op : {"match", "replace"}, original : Token, secondary : Token]
    \cup [op : {"delete"}, original : Token]
    \cup [op : {"insert"}, secondary : Token]

WordTyped ==
    /\ original.words \in Seq(Token) /\ secondary.words \in Seq(Token)
    /\ stage \in {"fill", "walk", "done"}
    /\ dp \in [(0 .. N) \X (0 .. M) -> Nat]
    /\ at \in Nat \X Nat
    /\ ops \in Seq(Operation)

\* The pairs of the same word.
Same == {p \in (1 .. N) \X (1 .. M) : SameWord(p[1], p[2])}

InTable(i, j) ==
    stage = "fill" => i = 0 \/ j = 0 \/ i < at[1] \/ (i = at[1] /\ j < at[2])

\* A cell that is filled holds the least cost, which it got from its neighbours.
Computed(i, j) ==
    /\ Best(Same, dp[<<i, j>>], i, j)
    /\ i > 0 /\ j > 0 => dp[<<i, j>>] = Cell(dp, i, j)

Border == /\ \A i \in 0 .. N : dp[<<i, 0>>] = i
          /\ \A j \in 0 .. M : dp[<<0, j>>] = j

Table == stage # "done" \/ Compared =>
            \A i \in 0 .. N, j \in 0 .. M : InTable(i, j) => Computed(i, j)

FillAt == stage = "fill" =>
    /\ ops = <<>> /\ at[1] \in 1 .. N + 1 /\ at[2] \in 1 .. M + 1
    /\ at[2] = M + 1 => M = 0
    /\ at[1] = N + 1 => at[2] = 1

\* The operations so far turn what the walk has left behind into each other.
WalkAt == stage = "walk" \/ Compared =>
    /\ at[1] \in 0 .. N /\ at[2] \in 0 .. M
    /\ dp[at] + Count("replace") + Count("insert") + Count("delete") = dp[<<N, M>>]
    /\ at[1] + OriginalUsed(Len(ops)) = N
    /\ at[2] + SecondaryUsed(Len(ops)) = M
    /\ \A k \in 1 .. Len(ops) :
          /\ ops[k].op # "insert" => ops[k].original = Of(at[1] + OriginalUsed(k))
          /\ ops[k].op # "delete" => ops[k].secondary = By(at[2] + SecondaryUsed(k))

DoneAt == stage = "done" => result = Unavailable \/ (at = <<0, 0>> /\ result = Verdict)

WordInv == WordTyped /\ Border /\ Table /\ FillAt /\ WalkAt /\ DoneAt

LEMMA LeastOfThree ==
    ASSUME NEW x \in Nat, NEW y \in Nat, NEW z \in Nat
    PROVE  /\ Min({x, y, z}) \in {x, y, z} /\ Min({x, y, z}) \in Nat
           /\ \A w \in {x, y, z} : Min({x, y, z}) <= w
  <1>1. \E m \in {x, y, z} : \A w \in {x, y, z} : m <= w
    BY LeastOf
  <1>2. PICK m \in {x, y, z} : \A w \in {x, y, z} : m <= w
    BY <1>1
  <1>3. Min({x, y, z}) = m
    BY <1>2, Minimum
  <1> QED BY <1>2, <1>3

\* Three neighbours are filled.
LEMMA NewCell ==
    ASSUME WordTyped, NEW i \in 1 .. N, NEW j \in 1 .. M,
           Best(Same, dp[<<i - 1, j - 1>>], i - 1, j - 1),
           Best(Same, dp[<<i - 1, j>>], i - 1, j), Best(Same, dp[<<i, j - 1>>], i, j - 1)
    PROVE  Cell(dp, i, j) \in Nat /\ Best(Same, Cell(dp, i, j), i, j)
  <1> DEFINE x == dp[<<i - 1, j - 1>>]  y == dp[<<i - 1, j>>]  z == dp[<<i, j - 1>>]
             e == IF <<i, j>> \in Same THEN 0 ELSE 1
  <1>1. N \in Nat /\ M \in Nat /\ i \in Nat \ {0} /\ j \in Nat \ {0}
    BY DEF WordTyped, N, M
  <1>2. x \in Nat /\ y \in Nat /\ z \in Nat
    BY <1>1 DEF WordTyped
  <1>3. SameWord(i, j) <=> <<i, j>> \in Same
    BY DEF Same
  <1>4. Cell(dp, i, j) = Min({x + e, y + 1, z + 1})
    BY <1>3 DEF Cell
  <1>5. e \in {0, 1}
    OBVIOUS
  <1>6. x + e \in Nat /\ y + 1 \in Nat /\ z + 1 \in Nat
    BY <1>2, <1>5
  <1> HIDE DEF x, y, z
  <1>7. /\ Cell(dp, i, j) \in {x + e, y + 1, z + 1} /\ Cell(dp, i, j) \in Nat
        /\ \A w \in {x + e, y + 1, z + 1} : Cell(dp, i, j) <= w
    BY <1>4, <1>6, LeastOfThree
  <1>8. Best(Same, x, i - 1, j - 1) /\ Best(Same, y, i - 1, j) /\ Best(Same, z, i, j - 1)
    BY DEF x, y, z
  <1> QED BY <1>1, <1>2, <1>7, <1>8, CellIsBest

LEMMA SameTexts ==
    ASSUME UNCHANGED <<original, secondary>>
    PROVE  /\ N' = N /\ M' = M /\ Same' = Same /\ PlainReasons' = PlainReasons
           /\ Unavailable' = Unavailable
           /\ \A k : Of(k)' = Of(k) /\ By(k)' = By(k)
           /\ \A i, j : SameWord(i, j)' <=> SameWord(i, j)
  <1>1. N' = N /\ M' = M
    BY DEF N, M
  <1>2. \A k : Of(k)' = Of(k) /\ By(k)' = By(k)
    BY DEF Of, By
  <1>3. \A i, j : SameWord(i, j)' <=> SameWord(i, j)
    BY DEF Of, By, SameWord
  <1>4. Same' = Same
    BY <1>1, <1>3 DEF Same
  <1>5. PlainReasons' = PlainReasons
    BY <1>1 DEF PlainReasons
  <1> QED BY <1>1, <1>2, <1>3, <1>4, <1>5 DEF Unavailable

LEMMA FillTyped ==
    ASSUME WordInv, Fill
    PROVE  /\ at[1] \in 1 .. N /\ at[2] \in 1 .. M /\ N \in Nat /\ M \in Nat
           /\ Cell(dp, at[1], at[2]) \in Nat
           /\ Best(Same, Cell(dp, at[1], at[2]), at[1], at[2])
           /\ \A i \in 0 .. N, j \in 0 .. M : InTable(i, j) => Computed(i, j)
  <1> DEFINE i == at[1]  j == at[2]
  <1>1. N \in Nat /\ M \in Nat
    BY DEF WordInv, WordTyped, N, M
  <1>2. i \in 1 .. N /\ j \in 1 .. M
    BY <1>1 DEF WordInv, FillAt, Fill
  <1>3. \A k \in 0 .. N, m \in 0 .. M : InTable(k, m) => Computed(k, m)
    BY DEF WordInv, Table, Fill
  <1>4. InTable(i - 1, j - 1) /\ InTable(i - 1, j) /\ InTable(i, j - 1)
    BY <1>1, <1>2 DEF InTable
  <1>5. /\ Best(Same, dp[<<i - 1, j - 1>>], i - 1, j - 1)
        /\ Best(Same, dp[<<i - 1, j>>], i - 1, j) /\ Best(Same, dp[<<i, j - 1>>], i, j - 1)
    BY <1>1, <1>2, <1>3, <1>4 DEF Computed
  <1> HIDE DEF i, j
  <1>6. Cell(dp, i, j) \in Nat /\ Best(Same, Cell(dp, i, j), i, j)
    BY <1>2, <1>5, NewCell DEF WordInv
  <1> QED BY <1>1, <1>2, <1>3, <1>6 DEF i, j

LEMMA FillKeepsTable ==
    ASSUME WordInv, Fill
    PROVE  Table' /\ Border' /\ WordTyped' /\ FillAt'
  <1> DEFINE i == at[1]  j == at[2]  v == Cell(dp, i, j)
  <1>1. /\ i \in 1 .. N /\ j \in 1 .. M /\ N \in Nat /\ M \in Nat /\ v \in Nat
        /\ Best(Same, v, i, j)
        /\ \A k \in 0 .. N, m \in 0 .. M : InTable(k, m) => Computed(k, m)
    BY FillTyped
  <1>2. /\ dp' = [dp EXCEPT ![<<i, j>>] = v]
        /\ at' = IF j < M THEN <<i, j + 1>> ELSE <<i + 1, 1>>
        /\ UNCHANGED <<original, secondary, stage, ops, result>> /\ stage = "fill"
    BY DEF Fill
  <1>3. N' = N /\ M' = M /\ Same' = Same /\ \A k, m : SameWord(k, m)' <=> SameWord(k, m)
    BY <1>2, SameTexts
  <1>4. dp \in [(0 .. N) \X (0 .. M) -> Nat]
    BY DEF WordInv, WordTyped
  <1> HIDE DEF v, i, j
  <1>5. /\ dp' \in [(0 .. N) \X (0 .. M) -> Nat] /\ dp'[<<i, j>>] = v
        /\ \A k \in 0 .. N, m \in 0 .. M : <<k, m>> # <<i, j>> => dp'[<<k, m>>] = dp[<<k, m>>]
    BY <1>1, <1>2, <1>4
  <1>6. WordTyped'
    <2>1. at' \in Nat \X Nat
      BY <1>1, <1>2
    <2> QED BY <1>2, <1>3, <1>5, <2>1 DEF WordInv, WordTyped
  <1>7. Border'
    BY <1>1, <1>3, <1>5 DEF WordInv, Border
  <1>8. FillAt'
    BY <1>1, <1>2, <1>3 DEF WordInv, FillAt
  <1>9. ASSUME NEW k \in 0 .. N, NEW m \in 0 .. M, InTable(k, m)'
        PROVE  Computed(k, m)'
    <2>1. (k = i /\ m = j) \/ (InTable(k, m) /\ ~ (k = i /\ m = j))
      BY <1>1, <1>2, <1>9 DEF InTable, i, j
    <2>2. ASSUME k > 0, m > 0, <<k, m>> = <<i, j>> \/ InTable(k, m)
          PROVE  Cell(dp, k, m)' = Cell(dp, k, m)
      <3>1. /\ <<k - 1, m - 1>> # <<i, j>> /\ <<k - 1, m>> # <<i, j>> /\ <<k, m - 1>> # <<i, j>>
        BY <1>1, <1>2, <2>2 DEF InTable, i, j
      <3>2. /\ dp'[<<k - 1, m - 1>>] = dp[<<k - 1, m - 1>>]
            /\ dp'[<<k - 1, m>>] = dp[<<k - 1, m>>] /\ dp'[<<k, m - 1>>] = dp[<<k, m - 1>>]
        BY <1>1, <1>5, <2>2, <3>1
      <3> QED BY <1>3, <3>2 DEF Cell
    <2>3. CASE k = i /\ m = j
      <3>1. dp'[<<k, m>>] = v /\ Cell(dp, k, m)' = v
        BY <1>1, <1>5, <2>2, <2>3 DEF v
      <3> QED BY <1>1, <1>3, <2>3, <3>1 DEF Computed
    <2>4. CASE InTable(k, m) /\ ~ (k = i /\ m = j)
      <3>1. dp'[<<k, m>>] = dp[<<k, m>>] /\ Computed(k, m)
        BY <1>1, <1>5, <2>4
      <3> QED BY <1>3, <2>2, <2>4, <3>1 DEF Computed
    <2> QED BY <2>1, <2>3, <2>4
  <1> QED BY <1>3, <1>6, <1>7, <1>8, <1>9 DEF Table

LEMMA FillKeeps ==
    ASSUME WordInv, Fill PROVE WordInv'
  <1>1. stage' = "fill"
    BY DEF Fill
  <1>2. WalkAt' /\ DoneAt'
    BY <1>1 DEF WalkAt, DoneAt, Compared
  <1> QED BY <1>2, FillKeepsTable DEF WordInv

LEMMA GivenUp ==
    ASSUME WordInv, TooLarge \/ OutOfMemory PROVE WordInv'
  <1>1. /\ UNCHANGED <<original, secondary, dp, at, ops>>
        /\ stage' = "done" /\ result' = Unavailable
    BY DEF TooLarge, OutOfMemory
  <1>2. N' = N /\ M' = M /\ Unavailable' = Unavailable
    BY <1>1, SameTexts
  <1>3. ~ Compared'
    BY <1>1 DEF Compared, Unavailable
  <1>4. WordTyped' /\ Border'
    BY <1>1, <1>2 DEF WordInv, WordTyped, Border
  <1>5. Table' /\ FillAt' /\ WalkAt' /\ DoneAt'
    BY <1>1, <1>2, <1>3 DEF Table, FillAt, WalkAt, DoneAt
  <1> QED BY <1>4, <1>5 DEF WordInv

LEMMA FilledKeeps ==
    ASSUME WordInv, Filled PROVE WordInv'
  <1>1. /\ UNCHANGED <<original, secondary, dp, ops, result>>
        /\ stage = "fill" /\ stage' = "walk" /\ at' = <<N, M>> /\ ops = <<>>
        /\ at[1] > N \/ at[2] > M
    BY DEF Filled, WordInv, FillAt
  <1>2. /\ N' = N /\ M' = M /\ Same' = Same /\ \A k, m : SameWord(k, m)' <=> SameWord(k, m)
        /\ \A k : Of(k)' = Of(k) /\ By(k)' = By(k)
    BY <1>1, SameTexts
  <1>3. N \in Nat /\ M \in Nat
    BY DEF WordInv, WordTyped, N, M
  <1>4. WordTyped' /\ Border' /\ FillAt' /\ DoneAt'
    BY <1>1, <1>2, <1>3 DEF WordInv, WordTyped, Border, FillAt, DoneAt
  <1>5. \A k \in 0 .. N, m \in 0 .. M : InTable(k, m)
    BY <1>1, <1>3 DEF WordInv, FillAt, InTable
  <1>6. \A k \in 0 .. N, m \in 0 .. M : Computed(k, m)
    BY <1>1, <1>5 DEF WordInv, Table
  <1>7. Table'
    <2>1. \A k, m : Cell(dp, k, m)' = Cell(dp, k, m)
      BY <1>1, <1>2 DEF Cell
    <2> QED BY <1>1, <1>2, <1>6, <2>1 DEF Table, Computed
  <1>8. WalkAt'
    <2>1. ops' = <<>>
      BY <1>1
    <2>2. /\ OriginalUsed(Len(ops))' = 0 /\ SecondaryUsed(Len(ops))' = 0
          /\ \A op : Count(op)' = 0
      <3>1. Len(ops') = 0 /\ 1 .. 0 = {}
        BY <2>1
      <3>2. Cardinality({}) = 0
        BY FS_EmptySet
      <3> QED BY <3>1, <3>2 DEF OriginalUsed, SecondaryUsed, Count
    <2>3. dp'[at'] \in Nat
      BY <1>1, <1>3 DEF WordInv, WordTyped
    <2> QED BY <1>1, <1>2, <1>3, <2>1, <2>2, <2>3 DEF WalkAt
  <1> QED BY <1>4, <1>7, <1>8 DEF WordInv

\* What the counts of the operations have in common.
LEMMA CountsAreThose ==
    ASSUME ops \in Seq(Operation)
    PROVE  /\ Len(ops) \in Nat
           /\ \A kind : Count(kind) = Cardinality(Those(ops, Len(ops), {kind}))
           /\ \A k \in 0 .. Len(ops) :
                /\ OriginalUsed(k) = Cardinality(Those(ops, k, {"match", "replace", "delete"}))
                /\ SecondaryUsed(k) = Cardinality(Those(ops, k, {"match", "replace", "insert"}))
                /\ OriginalUsed(k) \in Nat /\ SecondaryUsed(k) \in Nat
           /\ \A kind : Count(kind) \in Nat
  <1>1. Len(ops) \in Nat
    OBVIOUS
  <1>2. \A k \in 1 .. Len(ops) : ops[k].op \in {"match", "replace", "delete", "insert"}
    BY DEF Operation
  <1>3. \A kind : Count(kind) = Cardinality(Those(ops, Len(ops), {kind}))
    BY DEF Count, Those
  <1>4. ASSUME NEW k \in 0 .. Len(ops)
        PROVE  /\ OriginalUsed(k) = Cardinality(Those(ops, k, {"match", "replace", "delete"}))
               /\ SecondaryUsed(k) = Cardinality(Those(ops, k, {"match", "replace", "insert"}))
               /\ OriginalUsed(k) \in Nat /\ SecondaryUsed(k) \in Nat
    <2>1. /\ {m \in 1 .. k : ops[m].op # "insert"} = Those(ops, k, {"match", "replace", "delete"})
          /\ {m \in 1 .. k : ops[m].op # "delete"} = Those(ops, k, {"match", "replace", "insert"})
      BY <1>1, <1>2 DEF Those
    <2>2. k \in Nat
      BY <1>1
    <2> QED BY <2>1, <2>2, CountsAreNumbers DEF OriginalUsed, SecondaryUsed
  <1>5. \A kind : Count(kind) \in Nat
    BY <1>1, <1>3, CountsAreNumbers
  <1> QED BY <1>1, <1>3, <1>4, <1>5

\* The same for the operations that a step leaves.
LEMMA CountsAreThoseNext ==
    ASSUME ops' \in Seq(Operation)
    PROVE  /\ Len(ops') \in Nat
           /\ \A kind : Count(kind)' = Cardinality(Those(ops', Len(ops'), {kind}))
           /\ \A k \in 0 .. Len(ops') :
                /\ OriginalUsed(k)' = Cardinality(Those(ops', k, {"match", "replace", "delete"}))
                /\ SecondaryUsed(k)' = Cardinality(Those(ops', k, {"match", "replace", "insert"}))
  <1>1. Len(ops') \in Nat
    OBVIOUS
  <1>2. \A k \in 1 .. Len(ops') : ops'[k].op \in {"match", "replace", "delete", "insert"}
    BY DEF Operation
  <1>3. \A kind : Count(kind)' = Cardinality(Those(ops', Len(ops'), {kind}))
    BY DEF Count, Those
  <1>4. ASSUME NEW k \in 0 .. Len(ops')
        PROVE  /\ OriginalUsed(k)' = Cardinality(Those(ops', k, {"match", "replace", "delete"}))
               /\ SecondaryUsed(k)' = Cardinality(Those(ops', k, {"match", "replace", "insert"}))
    <2>1. /\ {m \in 1 .. k : ops'[m].op # "insert"} = Those(ops', k, {"match", "replace", "delete"})
          /\ {m \in 1 .. k : ops'[m].op # "delete"} = Those(ops', k, {"match", "replace", "insert"})
      BY <1>1, <1>2 DEF Those
    <2> QED BY <2>1 DEF OriginalUsed, SecondaryUsed
  <1> QED BY <1>1, <1>3, <1>4

\* An operation that accounts for the words it steps over, and for the cost.
LEMMA WalkStep ==
    ASSUME WordInv, stage = "walk", NEW e \in Operation, NEW i \in Nat, NEW j \in Nat,
           Step(e, i, j),
           at[1] = i + (IF e.op # "insert" THEN 1 ELSE 0),
           at[2] = j + (IF e.op # "delete" THEN 1 ELSE 0),
           dp[at] = dp[<<i, j>>] + (IF e.op # "match" THEN 1 ELSE 0),
           e.op # "insert" => e.original = Of(at[1]),
           e.op # "delete" => e.secondary = By(at[2])
    PROVE  WordInv'
  <1>1. /\ ops' = <<e>> \o ops /\ at' = <<i, j>>
        /\ UNCHANGED <<original, secondary, stage, dp, result>>
    BY DEF Step
  <1>2. /\ N' = N /\ M' = M /\ Same' = Same /\ \A k, m : SameWord(k, m)' <=> SameWord(k, m)
        /\ \A k : Of(k)' = Of(k) /\ By(k)' = By(k)
    BY <1>1, SameTexts
  <1>3. N \in Nat /\ M \in Nat
    BY DEF WordInv, WordTyped, N, M
  <1>4. ops \in Seq(Operation) /\ Len(ops) \in Nat
    BY DEF WordInv, WordTyped
  <1>5. ops' \in Seq(Operation) /\ Len(ops') = Len(ops) + 1
    BY <1>1, <1>4
  <1>6. /\ \A kind : Count(kind)' = Count(kind) + (IF e.op = kind THEN 1 ELSE 0)
        /\ \A kind : Count(kind) \in Nat
    <2>1. ASSUME NEW kind
          PROVE  Count(kind)' = Count(kind) + (IF e.op = kind THEN 1 ELSE 0)
      <3>1. Cardinality(Those(ops', Len(ops) + 1, {kind}))
              = Cardinality(Those(ops, Len(ops), {kind})) + (IF e.op \in {kind} THEN 1 ELSE 0)
        BY <1>1, <1>4, Prepended
      <3> QED BY <1>4, <1>5, <3>1, CountsAreThose, CountsAreThoseNext
    <2> QED BY <1>4, <2>1, CountsAreThose
  <1>7. ASSUME NEW k \in 0 .. Len(ops)
        PROVE  /\ OriginalUsed(k + 1)' = OriginalUsed(k) + (IF e.op # "insert" THEN 1 ELSE 0)
               /\ SecondaryUsed(k + 1)' = SecondaryUsed(k) + (IF e.op # "delete" THEN 1 ELSE 0)
               /\ OriginalUsed(k) \in Nat /\ SecondaryUsed(k) \in Nat
    <2> DEFINE O == {"match", "replace", "delete"}  S == {"match", "replace", "insert"}
    <2>1. /\ Cardinality(Those(ops', k + 1, O)) = Cardinality(Those(ops, k, O)) + (IF e.op \in O THEN 1 ELSE 0)
          /\ Cardinality(Those(ops', k + 1, S)) = Cardinality(Those(ops, k, S)) + (IF e.op \in S THEN 1 ELSE 0)
      BY <1>1, <1>4, Prepended
    <2>2. k + 1 \in 0 .. Len(ops')
      BY <1>4, <1>5
    <2>3. (e.op \in O <=> e.op # "insert") /\ (e.op \in S <=> e.op # "delete")
      BY DEF Operation
    <2> HIDE DEF O, S
    <2>4. /\ OriginalUsed(k) = Cardinality(Those(ops, k, O))
          /\ SecondaryUsed(k) = Cardinality(Those(ops, k, S))
          /\ OriginalUsed(k) \in Nat /\ SecondaryUsed(k) \in Nat
      BY <1>4, CountsAreThose DEF O, S
    <2>5. /\ OriginalUsed(k + 1)' = Cardinality(Those(ops', k + 1, O))
          /\ SecondaryUsed(k + 1)' = Cardinality(Those(ops', k + 1, S))
      BY <1>5, <2>2, CountsAreThoseNext DEF O, S
    <2> QED BY <2>1, <2>3, <2>4, <2>5
  <1>8. WordTyped' /\ Border' /\ FillAt' /\ DoneAt'
    BY <1>1, <1>2, <1>3, <1>5 DEF WordInv, WordTyped, Border, FillAt, DoneAt
  <1>9. Table'
    <2>1. \A k, m : Cell(dp, k, m)' = Cell(dp, k, m)
      BY <1>1, <1>2 DEF Cell
    <2> QED BY <1>1, <1>2, <2>1 DEF WordInv, Table, Computed, InTable
  <1>10. WalkAt'
    <2>1. /\ at[1] \in 0 .. N /\ at[2] \in 0 .. M
          /\ dp[at] + Count("replace") + Count("insert") + Count("delete") = dp[<<N, M>>]
          /\ at[1] + OriginalUsed(Len(ops)) = N
          /\ at[2] + SecondaryUsed(Len(ops)) = M
          /\ \A k \in 1 .. Len(ops) :
                /\ ops[k].op # "insert" => ops[k].original = Of(at[1] + OriginalUsed(k))
                /\ ops[k].op # "delete" => ops[k].secondary = By(at[2] + SecondaryUsed(k))
      BY DEF WordInv, WalkAt
    <2>2. i \in 0 .. N /\ j \in 0 .. M
      BY <1>3, <2>1
    <2>3. e.op \in {"match", "replace", "delete", "insert"}
      BY DEF Operation
    <2>4. dp[<<i, j>>] \in Nat /\ dp[at] \in Nat
      BY <1>3, <2>1, <2>2 DEF WordInv, WordTyped
    <2>5. dp[<<i, j>>] + Count("replace")' + Count("insert")' + Count("delete")' = dp[<<N, M>>]
      <3>1. /\ Count("replace")' = Count("replace") + (IF e.op = "replace" THEN 1 ELSE 0)
            /\ Count("insert")' = Count("insert") + (IF e.op = "insert" THEN 1 ELSE 0)
            /\ Count("delete")' = Count("delete") + (IF e.op = "delete" THEN 1 ELSE 0)
            /\ Count("replace") \in Nat /\ Count("insert") \in Nat /\ Count("delete") \in Nat
        BY <1>6
      <3>2. dp[at] + Count("replace") + Count("insert") + Count("delete") = dp[<<N, M>>]
        BY <2>1
      <3>3. CASE e.op = "match"
        BY <2>4, <3>1, <3>2, <3>3
      <3>4. CASE e.op = "replace"
        BY <2>4, <3>1, <3>2, <3>4
      <3>5. CASE e.op = "insert"
        BY <2>4, <3>1, <3>2, <3>5
      <3>6. CASE e.op = "delete"
        BY <2>4, <3>1, <3>2, <3>6
      <3> QED BY <2>3, <3>3, <3>4, <3>5, <3>6
    <2>6. i + OriginalUsed(Len(ops))' = N /\ j + SecondaryUsed(Len(ops))' = M
      <3>1. PICK n \in Nat : n = Len(ops)
        BY <1>4
      <3>2. /\ OriginalUsed(n + 1)' = OriginalUsed(n) + (IF e.op # "insert" THEN 1 ELSE 0)
            /\ SecondaryUsed(n + 1)' = SecondaryUsed(n) + (IF e.op # "delete" THEN 1 ELSE 0)
            /\ OriginalUsed(n) \in Nat /\ SecondaryUsed(n) \in Nat
        BY <1>7, <3>1
      <3>3. /\ OriginalUsed(Len(ops))' = OriginalUsed(n + 1)'
            /\ SecondaryUsed(Len(ops))' = SecondaryUsed(n + 1)'
        BY <1>5, <3>1 DEF OriginalUsed, SecondaryUsed
      <3> QED BY <2>1, <3>1, <3>2, <3>3
    <2>7. ASSUME NEW k \in 1 .. Len(ops')
          PROVE  /\ ops'[k].op # "insert" => ops'[k].original = Of(i + OriginalUsed(k)')
                 /\ ops'[k].op # "delete" => ops'[k].secondary = By(j + SecondaryUsed(k)')
      <3>1. CASE k = 1
        <4>1. OriginalUsed(0) = 0 /\ SecondaryUsed(0) = 0
          BY FS_EmptySet DEF OriginalUsed, SecondaryUsed
        <4>2. /\ OriginalUsed(1)' = (IF e.op # "insert" THEN 1 ELSE 0)
              /\ SecondaryUsed(1)' = (IF e.op # "delete" THEN 1 ELSE 0)
          BY <1>4, <1>7, <4>1
        <4>3. ops'[1] = e
          BY <1>1, <1>4
        <4> QED BY <3>1, <4>2, <4>3
      <3>2. CASE k # 1
        <4>1. k - 1 \in 1 .. Len(ops) /\ ops'[k] = ops[k - 1]
          BY <1>1, <1>4, <1>5, <3>2
        <4>2. /\ OriginalUsed(k)' = OriginalUsed(k - 1) + (IF e.op # "insert" THEN 1 ELSE 0)
              /\ SecondaryUsed(k)' = SecondaryUsed(k - 1) + (IF e.op # "delete" THEN 1 ELSE 0)
              /\ OriginalUsed(k - 1) \in Nat /\ SecondaryUsed(k - 1) \in Nat
          <5>1. k - 1 \in 0 .. Len(ops) /\ (k - 1) + 1 = k
            BY <1>4, <4>1
          <5> QED BY <1>7, <5>1
        <4>3. /\ i + OriginalUsed(k)' = at[1] + OriginalUsed(k - 1)
              /\ j + SecondaryUsed(k)' = at[2] + SecondaryUsed(k - 1)
          BY <4>2
        <4> QED BY <2>1, <4>1, <4>3
      <3> QED BY <3>1, <3>2
    <2>8. at'[1] = i /\ at'[2] = j /\ dp'[at'] = dp[<<i, j>>]
      BY <1>1
    <2>9. \A k \in 1 .. Len(ops') :
             /\ ops'[k].op # "insert" => ops'[k].original = Of(at[1] + OriginalUsed(k))'
             /\ ops'[k].op # "delete" => ops'[k].secondary = By(at[2] + SecondaryUsed(k))'
      BY <1>1, <2>7, <2>8 DEF Of, By
    <2>10. /\ at'[1] \in 0 .. N' /\ at'[2] \in 0 .. M'
           /\ dp'[at'] + Count("replace")' + Count("insert")' + Count("delete")' = dp'[<<N', M'>>]
           /\ at'[1] + OriginalUsed(Len(ops))' = N' /\ at'[2] + SecondaryUsed(Len(ops))' = M'
      BY <1>1, <1>2, <2>2, <2>5, <2>6, <2>8
    <2> QED BY <2>9, <2>10 DEF WalkAt
  <1> QED BY <1>8, <1>9, <1>10 DEF WordInv

LEMMA WalkKeeps ==
    ASSUME WordInv, Match \/ Replace \/ Delete \/ Insert PROVE WordInv'
  <1>1. N \in Nat /\ M \in Nat /\ stage = "walk"
    BY DEF WordInv, WordTyped, N, M, Match, Replace, Delete, Insert
  <1>2. at[1] \in 0 .. N /\ at[2] \in 0 .. M /\ at = <<at[1], at[2]>>
    BY <1>1 DEF WordInv, WalkAt, WordTyped
  <1>3. /\ at[1] > 0 => Of(at[1]) \in Token
        /\ at[2] > 0 => By(at[2]) \in Token
    BY <1>1, <1>2 DEF WordInv, WordTyped, Of, By, N, M
  <1>4. CASE Match
    <2>1. /\ at[1] > 0 /\ at[2] > 0 /\ dp[at] = dp[<<at[1] - 1, at[2] - 1>>]
          /\ Step([op |-> "match", original |-> Of(at[1]), secondary |-> By(at[2])],
                  at[1] - 1, at[2] - 1)
      BY <1>2, <1>4, Zenon DEF Match, CanMatch
    <2>2. PICK i \in Nat, j \in Nat : i = at[1] - 1 /\ j = at[2] - 1
      BY <1>1, <1>2, <2>1
    <2>3. PICK e \in Operation :
             e = [op |-> "match", original |-> Of(at[1]), secondary |-> By(at[2])]
      BY <1>3, <2>1 DEF Operation
    <2>4. dp[at] \in Nat /\ dp[<<i, j>>] \in Nat /\ dp[at] = dp[<<i, j>>]
      BY <1>1, <1>2, <2>1, <2>2 DEF WordInv, WordTyped
    <2>5. /\ at[1] = i + (IF e.op # "insert" THEN 1 ELSE 0)
          /\ at[2] = j + (IF e.op # "delete" THEN 1 ELSE 0)
          /\ dp[at] = dp[<<i, j>>] + (IF e.op # "match" THEN 1 ELSE 0)
          /\ e.original = Of(at[1]) /\ e.secondary = By(at[2])
      BY <1>1, <1>2, <2>1, <2>2, <2>3, <2>4
    <2>6. Step(e, i, j)
      BY <2>1, <2>2, <2>3
    <2> QED BY <1>1, <2>5, <2>6, WalkStep
  <1>5. CASE Replace
    <2>1. /\ at[1] > 0 /\ at[2] > 0 /\ dp[at] = dp[<<at[1] - 1, at[2] - 1>>] + 1
          /\ Step([op |-> "replace", original |-> Of(at[1]), secondary |-> By(at[2])],
                  at[1] - 1, at[2] - 1)
      BY <1>2, <1>5, Zenon DEF Replace, CanReplace
    <2>2. PICK i \in Nat, j \in Nat : i = at[1] - 1 /\ j = at[2] - 1
      BY <1>1, <1>2, <2>1
    <2>3. PICK e \in Operation :
             e = [op |-> "replace", original |-> Of(at[1]), secondary |-> By(at[2])]
      BY <1>3, <2>1 DEF Operation
    <2>4. /\ at[1] = i + (IF e.op # "insert" THEN 1 ELSE 0)
          /\ at[2] = j + (IF e.op # "delete" THEN 1 ELSE 0)
          /\ dp[at] = dp[<<i, j>>] + (IF e.op # "match" THEN 1 ELSE 0)
          /\ e.original = Of(at[1]) /\ e.secondary = By(at[2])
      BY <1>1, <1>2, <2>1, <2>2, <2>3
    <2>5. Step(e, i, j)
      BY <2>1, <2>2, <2>3
    <2> QED BY <1>1, <2>4, <2>5, WalkStep
  <1>6. CASE Delete
    <2>1. /\ at[1] > 0 /\ dp[at] = dp[<<at[1] - 1, at[2]>>] + 1
          /\ Step([op |-> "delete", original |-> Of(at[1])], at[1] - 1, at[2])
      BY <1>2, <1>6, Zenon DEF Delete, CanDelete
    <2>2. PICK i \in Nat, j \in Nat : i = at[1] - 1 /\ j = at[2]
      BY <1>1, <1>2, <2>1
    <2>3. PICK e \in Operation : e = [op |-> "delete", original |-> Of(at[1])]
      BY <1>3, <2>1 DEF Operation
    <2>4. /\ at[1] = i + (IF e.op # "insert" THEN 1 ELSE 0)
          /\ at[2] = j + (IF e.op # "delete" THEN 1 ELSE 0)
          /\ dp[at] = dp[<<i, j>>] + (IF e.op # "match" THEN 1 ELSE 0)
          /\ e.original = Of(at[1]) /\ e.op = "delete"
      BY <1>1, <1>2, <2>1, <2>2, <2>3
    <2>5. Step(e, i, j)
      BY <2>1, <2>2, <2>3
    <2> QED BY <1>1, <2>4, <2>5, WalkStep
  <1>7. CASE Insert
    <2>1. /\ at[2] > 0 /\ dp[at] = dp[<<at[1], at[2] - 1>>] + 1
          /\ Step([op |-> "insert", secondary |-> By(at[2])], at[1], at[2] - 1)
      BY <1>2, <1>7, Zenon DEF Insert, CanInsert
    <2>2. PICK i \in Nat, j \in Nat : i = at[1] /\ j = at[2] - 1
      BY <1>1, <1>2, <2>1
    <2>3. PICK e \in Operation : e = [op |-> "insert", secondary |-> By(at[2])]
      BY <1>3, <2>1 DEF Operation
    <2>4. /\ at[1] = i + (IF e.op # "insert" THEN 1 ELSE 0)
          /\ at[2] = j + (IF e.op # "delete" THEN 1 ELSE 0)
          /\ dp[at] = dp[<<i, j>>] + (IF e.op # "match" THEN 1 ELSE 0)
          /\ e.secondary = By(at[2]) /\ e.op = "insert"
      BY <1>1, <1>2, <2>1, <2>2, <2>3
    <2>5. Step(e, i, j)
      BY <2>1, <2>2, <2>3
    <2> QED BY <1>1, <2>4, <2>5, WalkStep
  <1> QED BY <1>4, <1>5, <1>6, <1>7

LEMMA JudgeKeeps ==
    ASSUME WordInv, Judge PROVE WordInv'
  <1>1. /\ UNCHANGED <<original, secondary, dp, at, ops>>
        /\ stage = "walk" /\ stage' = "done" /\ at = <<0, 0>> /\ result' = Verdict
    BY DEF Judge
  <1>2. /\ N' = N /\ M' = M /\ Same' = Same /\ PlainReasons' = PlainReasons
        /\ \A k, m : SameWord(k, m)' <=> SameWord(k, m)
    BY <1>1, SameTexts
  <1>3. Verdict' = Verdict
    BY <1>1, <1>2 DEF Verdict
  <1>4. WordTyped' /\ Border' /\ FillAt' /\ DoneAt'
    BY <1>1, <1>2, <1>3 DEF WordInv, WordTyped, Border, FillAt, DoneAt
  <1>5. Table'
    <2>1. \A k, m : Cell(dp, k, m)' = Cell(dp, k, m)
      BY <1>1, <1>2 DEF Cell
    <2> QED BY <1>1, <1>2, <2>1 DEF WordInv, Table, Computed, InTable
  <1>6. WalkAt'
    BY <1>1, <1>2 DEF WordInv, WalkAt, OriginalUsed, SecondaryUsed, Count, Of, By
  <1> QED BY <1>4, <1>5, <1>6 DEF WordInv

LEMMA WordInvStutters ==
    ASSUME WordInv, UNCHANGED vars PROVE WordInv'
  <1>1. UNCHANGED <<original, secondary, stage, dp, at, ops, result>>
    BY DEF vars
  <1>2. /\ N' = N /\ M' = M /\ Same' = Same /\ PlainReasons' = PlainReasons
        /\ Unavailable' = Unavailable
        /\ \A k, m : SameWord(k, m)' <=> SameWord(k, m)
    BY <1>1, SameTexts
  <1>3. Verdict' = Verdict
    BY <1>1, <1>2 DEF Verdict
  <1>4. WordTyped' /\ Border' /\ FillAt' /\ DoneAt'
    BY <1>1, <1>2, <1>3 DEF WordInv, WordTyped, Border, FillAt, DoneAt
  <1>5. Table'
    <2>1. \A k, m : Cell(dp, k, m)' = Cell(dp, k, m)
      BY <1>1, <1>2 DEF Cell
    <2> QED BY <1>1, <1>2, <2>1 DEF WordInv, Table, Computed, InTable, Compared
  <1>6. WalkAt'
    BY <1>1, <1>2 DEF WordInv, WalkAt, OriginalUsed, SecondaryUsed, Count, Of, By, Compared
  <1> QED BY <1>4, <1>5, <1>6 DEF WordInv

-----------------------------------------------------------------------------
(* What follows from the invariant.                                         *)

LEMMA AlignmentsCost ==
    ASSUME WordInv
    PROVE  /\ N \in Nat /\ M \in Nat /\ Alignment = Aligned(N, M)
           /\ \A f \in Alignment : Cost(f) = CostOf(Same, f, N, M) /\ Cost(f) \in Int
  <1>1. N \in Nat /\ M \in Nat
    BY DEF WordInv, WordTyped, N, M
  <1>2. Alignment = Aligned(N, M)
    BY DEF Alignment, Aligned
  <1>3. ASSUME NEW f \in Alignment
        PROVE  Cost(f) = CostOf(Same, f, N, M) /\ Cost(f) \in Int
    <2>1. DOMAIN f \subseteq 1 .. N /\ f \in [DOMAIN f -> 1 .. M]
      BY <1>1, <1>2, AlignedForm
    <2>2. \A k \in DOMAIN f : SameWord(k, f[k]) <=> <<k, f[k]>> \in Same
      BY <2>1 DEF Same
    <2>3. {k \in DOMAIN f : ~ SameWord(k, f[k])} = Unlike(Same, f)
      BY <2>2 DEF Unlike
    <2>4. CostOf(Same, f, N, M) \in Int
      BY <1>1, <1>2, CostsAreNumbers
    <2> QED BY <2>3, <2>4 DEF Cost, CostOf
  <1> QED BY <1>1, <1>2, <1>3

LEMMA DistanceFollows ==
    ASSUME WordInv, Compared
    PROVE  /\ result = Verdict /\ at = <<0, 0>>
           /\ \E f \in Alignment : Cost(f) = result.distance
           /\ \A f \in Alignment : result.distance <= Cost(f)
           /\ result.distance = dp[<<N, M>>] /\ result.distance \in Nat
  <1>1. N \in Nat /\ M \in Nat /\ Alignment = Aligned(N, M)
        /\ \A f \in Alignment : Cost(f) = CostOf(Same, f, N, M)
    BY AlignmentsCost
  <1>2. result = Verdict /\ at = <<0, 0>>
    BY DEF WordInv, DoneAt, Compared, Unavailable
  <1>3. InTable(N, M)
    BY DEF InTable, Compared
  <1>4. Best(Same, dp[<<N, M>>], N, M) /\ dp[<<N, M>>] \in Nat
    BY <1>1, <1>3 DEF WordInv, WordTyped, Table, Computed
  <1>5. result.distance = dp[<<N, M>>]
    BY <1>2 DEF Verdict
  <1> QED BY <1>1, <1>2, <1>4, <1>5 DEF Best

LEMMA DistanceIsLeastFollows ==
    ASSUME WordInv PROVE DistanceIsLeast
  <1> SUFFICES ASSUME Compared PROVE DistanceIsLeast
    BY DEF DistanceIsLeast
  <1>1. /\ at = <<0, 0>> /\ result.distance = dp[<<N, M>>] /\ result.distance \in Nat
        /\ \E f \in Alignment : Cost(f) = result.distance
        /\ \A f \in Alignment : result.distance <= Cost(f) /\ Cost(f) \in Int
    BY DistanceFollows, AlignmentsCost
  <1>2. BestCost = result.distance
    <2> DEFINE costs == {Cost(f) : f \in Alignment}
    <2>1. costs \in SUBSET Int /\ result.distance \in costs /\ \A k \in costs : result.distance <= k
      BY <1>1
    <2> HIDE DEF costs
    <2>2. Min(costs) = result.distance
      BY <2>1, Minimum
    <2> QED BY <2>2 DEF BestCost, costs
  <1>3. dp[at] + Count("replace") + Count("insert") + Count("delete") = dp[<<N, M>>]
    BY DEF WordInv, WalkAt
  <1>4. dp[at] = 0
    <2>1. N \in Nat
      BY AlignmentsCost
    <2> QED BY <1>1, <2>1 DEF WordInv, Border
  <1>5. Count("replace") \in Nat /\ Count("insert") \in Nat /\ Count("delete") \in Nat
    BY CountsAreThose DEF WordInv, WordTyped
  <1> QED BY <1>1, <1>2, <1>3, <1>4, <1>5 DEF DistanceIsLeast

LEMMA WalkGoesOnFollows ==
    ASSUME WordInv PROVE WalkGoesOn
  <1> SUFFICES ASSUME stage = "walk", at # <<0, 0>>
               PROVE  \/ CanMatch(at[1], at[2]) \/ CanReplace(at[1], at[2])
                      \/ CanDelete(at[1], at[2]) \/ CanInsert(at[1], at[2])
    BY DEF WalkGoesOn
  <1> DEFINE i == at[1]  j == at[2]
  <1>1. N \in Nat /\ M \in Nat
    BY AlignmentsCost
  <1>2. i \in 0 .. N /\ j \in 0 .. M /\ (i # 0 \/ j # 0)
    BY DEF WordInv, WalkAt, WordTyped
  <1>3. Computed(i, j)
    BY <1>2 DEF WordInv, Table, InTable
  <1> HIDE DEF i, j
  <1>4. dp \in [(0 .. N) \X (0 .. M) -> Nat]
    BY DEF WordInv, WordTyped
  <1>5. CASE i = 0
    <2>1. dp[<<i, j>>] = j /\ dp[<<i, j - 1>>] = j - 1 /\ j > 0
      BY <1>1, <1>2, <1>5 DEF WordInv, Border
    <2> QED BY <1>2, <2>1 DEF CanInsert, i, j
  <1>6. CASE j = 0
    <2>1. dp[<<i, j>>] = i /\ dp[<<i - 1, j>>] = i - 1 /\ i > 0
      BY <1>1, <1>2, <1>6 DEF WordInv, Border
    <2> QED BY <1>2, <2>1 DEF CanDelete, i, j
  <1>7. CASE i > 0 /\ j > 0
    <2> DEFINE e == IF SameWord(i, j) THEN 0 ELSE 1
               x == dp[<<i - 1, j - 1>>]  y == dp[<<i - 1, j>>]  z == dp[<<i, j - 1>>]
    <2>1. x \in Nat /\ y \in Nat /\ z \in Nat
      BY <1>1, <1>2, <1>4, <1>7
    <2>2. dp[<<i, j>>] = Min({x + e, y + 1, z + 1})
      BY <1>3, <1>7 DEF Computed, Cell
    <2>3. x + e \in Nat /\ y + 1 \in Nat /\ z + 1 \in Nat
      BY <2>1
    <2>4. dp[<<i, j>>] \in {x + e, y + 1, z + 1}
      <3> HIDE DEF e, x, y, z
      <3> QED BY <2>2, <2>3, LeastOfThree
    <2>5. CASE dp[<<i, j>>] = x + e
      BY <1>7, <2>1, <2>5 DEF CanMatch, CanReplace, i, j
    <2>6. CASE dp[<<i, j>>] = y + 1
      BY <1>7, <2>6 DEF CanDelete, i, j
    <2>7. CASE dp[<<i, j>>] = z + 1
      BY <1>7, <2>7 DEF CanInsert, i, j
    <2> QED BY <2>4, <2>5, <2>6, <2>7
  <1> QED BY <1>1, <1>2, <1>5, <1>6, <1>7

LEMMA OpsTellFollows ==
    ASSUME WordInv PROVE OpsTellBothTexts
  <1> SUFFICES ASSUME Compared PROVE OpsTellBothTexts
    BY DEF OpsTellBothTexts
  <1>1. at = <<0, 0>>
    BY DistanceFollows
  <1>2. Len(ops) \in Nat
        /\ \A k \in 0 .. Len(ops) : OriginalUsed(k) \in Nat /\ SecondaryUsed(k) \in Nat
    BY CountsAreThose DEF WordInv, WordTyped
  <1>3. /\ 0 + OriginalUsed(Len(ops)) = N /\ 0 + SecondaryUsed(Len(ops)) = M
        /\ \A k \in 1 .. Len(ops) :
              /\ ops[k].op # "insert" => ops[k].original = Of(0 + OriginalUsed(k))
              /\ ops[k].op # "delete" => ops[k].secondary = By(0 + SecondaryUsed(k))
    BY <1>1 DEF WordInv, WalkAt
  <1>4. OriginalUsed(Len(ops)) = N /\ SecondaryUsed(Len(ops)) = M
    BY <1>2, <1>3
  <1>5. \A k \in 1 .. Len(ops) : /\ 0 + OriginalUsed(k) = OriginalUsed(k)
                                 /\ 0 + SecondaryUsed(k) = SecondaryUsed(k)
    BY <1>2
  <1> QED BY <1>3, <1>4, <1>5 DEF OpsTellBothTexts

LEMMA JudgementFollows ==
    ASSUME WordInv PROVE WordReviewExact /\ NothingPassesUnread
  <1>1. N \in Nat /\ M \in Nat /\ \A f \in Alignment : Cost(f) \in Int
    BY AlignmentsCost
  <1>2. Larger(N, M) \in Nat /\ Threshold \in Nat
    BY <1>1, NumbersAssumption DEF Larger
  <1>3. "word_difference_exceeded" \notin PlainReasons
    BY DEF PlainReasons
  <1>4. ASSUME Compared, N > 0, M > 0
        PROVE  /\ "word_difference_exceeded" \in result.reasons
                  <=> \A f \in Alignment : 10000 * Cost(f) > Threshold * Larger(N, M)
               /\ result.reasons = {} =>
                    \E f \in Alignment : 10000 * Cost(f) <= Threshold * Larger(N, M)
    <2> DEFINE d == result.distance  limit == Threshold * Larger(N, M)
    <2>1. /\ result = Verdict /\ d = dp[<<N, M>>] /\ d \in Nat
          /\ \E f \in Alignment : Cost(f) = d
          /\ \A f \in Alignment : d <= Cost(f)
      BY <1>4, DistanceFollows
    <2>2. limit \in Nat /\ limit = Larger(N, M) * Threshold
      BY <1>2
    <2>3. result.reasons = PlainReasons \cup
            (IF Exceeds(d, Larger(N, M)) THEN {"word_difference_exceeded"} ELSE {})
      BY <1>4, <2>1 DEF Verdict
    <2>4. Exceeds(d, Larger(N, M)) <=> 10000 * d > limit
      BY <2>1, <2>2 DEF Exceeds
    <2>5. "word_difference_exceeded" \in result.reasons <=> 10000 * d > limit
      BY <1>3, <2>3, <2>4
    <2> HIDE DEF d, limit
    <2>6. 10000 * d > limit <=> \A f \in Alignment : 10000 * Cost(f) > limit
      BY <1>1, <2>1, <2>2
    <2>7. ~ (10000 * d > limit) => \E f \in Alignment : 10000 * Cost(f) <= limit
      BY <1>1, <2>1, <2>2
    <2> QED BY <2>5, <2>6, <2>7 DEF limit
  <1>5. WordReviewExact
    BY <1>4 DEF WordReviewExact
  <1>6. ASSUME stage = "done", result.reasons = {}
        PROVE  N > 0 /\ M > 0 /\ Compared
    <2>1. Compared
      BY <1>6 DEF Compared
    <2>2. PlainReasons = {}
      BY <1>6, <2>1, DistanceFollows DEF Verdict
    <2>3. N # 0 /\ M # 0
      BY <2>2 DEF PlainReasons
    <2> QED BY <1>1, <2>1, <2>3
  <1>7. NothingPassesUnread
    BY <1>4, <1>6 DEF NothingPassesUnread
  <1> QED BY <1>5, <1>7

-----------------------------------------------------------------------------
\* The folded characters of a text.

Item == [char : FoldedChar, from : Nat, to : Nat]

\* An item lies behind the one before it, or both are what one character folds to.
Follows(x, y) ==
    \/ x.to <= y.from
    \/ x.from = y.from /\ x.to = y.to /\ x.char = "apostrophe" /\ y.char = "n"

\* Items in the order of the text, none of which reaches beyond its first n characters.
Ordered(f, n) ==
    /\ f \in Seq(Item)
    /\ \A k \in 1 .. Len(f) : f[k].from < f[k].to /\ f[k].to <= n
    /\ \A k \in 2 .. Len(f) : Follows(f[k - 1], f[k])

\* Where the character that begins at the k-th raw one, or before it, ends.
Reach(t, k) == IF k < Len(t) /\ Composes(t, k + 1) THEN k + 1 ELSE k

\* The recursion of the folding is well-founded, so that its equations hold.
LEMMA FoldedToIs ==
    ASSUME NEW t, Len(t) \in Nat
    PROVE  /\ FoldedTo(t)[0] = <<>>
           /\ \A k \in 1 .. Len(t) :
                 FoldedTo(t)[k] = IF Composes(t, k) THEN FoldedTo(t)[k - 1]
                                  ELSE FoldedTo(t)[k - 1] \o Spread(Composed(t, k))
  <1> DEFINE More(u, k) == IF Composes(t, k) THEN u ELSE u \o Spread(Composed(t, k))
             Is(p, n) == p = [k \in 0 .. n |-> IF k = 0 THEN <<>> ELSE More(p[k - 1], k)]
             S == {n \in Nat : \E p : Is(p, n)}
  <1> HIDE DEF More
  <1>1. 0 \in S
    <2> DEFINE p == [k \in 0 .. 0 |-> <<>>]
    <2>1. Is(p, 0)
      OBVIOUS
    <2> QED BY <2>1
  <1>2. ASSUME NEW n \in Nat, NEW q, Is(q, n)
        PROVE  \E p : Is(p, n + 1)
    <2> DEFINE p == [k \in 0 .. n + 1 |-> IF k \in 0 .. n THEN q[k] ELSE More(q[n], n + 1)]
    <2>1. ASSUME NEW k \in 0 .. n + 1
          PROVE  p[k] = IF k = 0 THEN <<>> ELSE More(p[k - 1], k)
      <3>1. CASE k = 0
        BY <1>2, <3>1
      <3>2. CASE k \in 1 .. n
        <4>1. k - 1 \in 0 .. n /\ k \in 0 .. n
          BY <3>2
        <4>2. q[k] = More(q[k - 1], k)
          BY <1>2, <3>2, <4>1
        <4> QED BY <3>2, <4>1, <4>2
      <3>3. CASE k = n + 1
        <4>1. k - 1 = n /\ n \in 0 .. n /\ k \notin 0 .. n /\ k # 0
          BY <3>3
        <4> QED BY <3>3, <4>1
      <3> QED BY <3>1, <3>2, <3>3
    <2>2. Is(p, n + 1)
      BY <2>1
    <2> QED BY <2>2
  <1> HIDE DEF Is
  <1>3. ASSUME NEW k \in 1 .. Len(t), k - 1 \in S
        PROVE  k \in S
    <2>1. k - 1 \in Nat /\ (k - 1) + 1 = k
      OBVIOUS
    <2>2. PICK q : Is(q, k - 1)
      BY <1>3
    <2>3. \E p : Is(p, (k - 1) + 1)
      BY <1>2, <2>1, <2>2
    <2> QED BY <2>1, <2>3
  <1>4. Len(t) \in S
    <2> HIDE DEF S
    <2>1. \A k \in 0 .. Len(t) : k \in S
      BY <1>1, <1>3, Induction
    <2> QED BY <2>1
  <1>5. PICK q : Is(q, Len(t))
    BY <1>4
  <1>6. Is(FoldedTo(t), Len(t))
    BY <1>5 DEF FoldedTo, Is, More
  <1>7. \A k \in 0 .. Len(t) :
           FoldedTo(t)[k] = IF k = 0 THEN <<>> ELSE More(FoldedTo(t)[k - 1], k)
    <2> HIDE DEF More
    <2> QED BY <1>6 DEF Is
  <1>8. \A k \in 1 .. Len(t) : k \in 0 .. Len(t) /\ k # 0
    OBVIOUS
  <1> QED BY <1>7, <1>8 DEF More

\* The pass is what its recursion says: after no character nothing is read, and every
\* further character is one Read.
LEMMA PassIs ==
    ASSUME NEW f, Len(f) \in Nat
    PROVE  /\ Pass(f)[0] = NoWord
           /\ \A k \in 1 .. Len(f) : Pass(f)[k] = Read(f, Pass(f)[k - 1], k)
  <1> DEFINE Is(p, n) == p = [k \in 0 .. n |-> IF k = 0 THEN NoWord ELSE Read(f, p[k - 1], k)]
             S == {n \in Nat : \E p : Is(p, n)}
  <1>1. 0 \in S
    <2> DEFINE p == [k \in 0 .. 0 |-> NoWord]
    <2>1. Is(p, 0)
      OBVIOUS
    <2> QED BY <2>1
  <1>2. ASSUME NEW n \in Nat, NEW q, Is(q, n)
        PROVE  \E p : Is(p, n + 1)
    <2> DEFINE p == [k \in 0 .. n + 1 |-> IF k \in 0 .. n THEN q[k] ELSE Read(f, q[n], n + 1)]
    <2>1. ASSUME NEW k \in 0 .. n + 1
          PROVE  p[k] = IF k = 0 THEN NoWord ELSE Read(f, p[k - 1], k)
      <3>1. CASE k = 0
        BY <1>2, <3>1
      <3>2. CASE k \in 1 .. n
        <4>1. k - 1 \in 0 .. n /\ k \in 0 .. n
          BY <3>2
        <4>2. q[k] = Read(f, q[k - 1], k)
          BY <1>2, <3>2, <4>1
        <4> QED BY <3>2, <4>1, <4>2
      <3>3. CASE k = n + 1
        <4>1. k - 1 = n /\ n \in 0 .. n /\ k \notin 0 .. n /\ k # 0
          BY <3>3
        <4> QED BY <3>3, <4>1
      <3> QED BY <3>1, <3>2, <3>3
    <2>2. Is(p, n + 1)
      BY <2>1
    <2> QED BY <2>2
  <1> HIDE DEF Is
  <1>3. ASSUME NEW k \in 1 .. Len(f), k - 1 \in S
        PROVE  k \in S
    <2>1. k - 1 \in Nat /\ (k - 1) + 1 = k
      OBVIOUS
    <2>2. PICK q : Is(q, k - 1)
      BY <1>3
    <2>3. \E p : Is(p, (k - 1) + 1)
      BY <1>2, <2>1, <2>2
    <2> QED BY <2>1, <2>3
  <1>4. Len(f) \in S
    <2> HIDE DEF S
    <2>1. \A k \in 0 .. Len(f) : k \in S
      BY <1>1, <1>3, Induction
    <2> QED BY <2>1
  <1>5. PICK q : Is(q, Len(f))
    BY <1>4
  <1>6. Is(Pass(f), Len(f))
    BY <1>5 DEF Pass, Is
  <1> QED BY <1>6 DEF Is

\* What a composed character folds to: one character, or an apostrophe and a letter, with
\* the span of the composed one.
LEMMA SpreadIs ==
    ASSUME NEW t \in Seq(Char), NEW k \in 1 .. Len(t), ~ Composes(t, k)
    PROVE  LET v == Spread(Composed(t, k)) IN
           /\ v \in Seq(Item) /\ Len(v) \in {1, 2}
           /\ \A j \in 1 .. Len(v) : v[j].from = k - 1 /\ v[j].to = Reach(t, k)
           /\ Len(v) = 2 => v[1].char = "apostrophe" /\ v[2].char = "n"
  <1> DEFINE c == Composed(t, k)
             v == Spread(c)
  <1>1. /\ c = [char |-> c.char, from |-> k - 1, to |-> Reach(t, k)]
        /\ c.char \in Char \cup {"amark", "Amark"}
    BY DEF Composed, Reach, Char
  <1>2. k - 1 \in Nat /\ Reach(t, k) \in Nat
    BY DEF Reach
  <1> HIDE DEF c
  <1>3. CASE c.char = "napostrophe"
    <2>1. CaseFold(c.char) = <<"apostrophe", "n">>
      BY <1>3 DEF CaseFold
    <2>2. v = <<[c EXCEPT !.char = "apostrophe"], [c EXCEPT !.char = "n"]>>
      BY <2>1 DEF Spread
    <2>3. /\ [c EXCEPT !.char = "apostrophe"] = [char |-> "apostrophe", from |-> k - 1, to |-> Reach(t, k)]
          /\ [c EXCEPT !.char = "n"] = [char |-> "n", from |-> k - 1, to |-> Reach(t, k)]
      BY <1>1
    <2>4. \A x \in {"apostrophe", "n"} : [char |-> x, from |-> k - 1, to |-> Reach(t, k)] \in Item
      BY <1>2 DEF Item, FoldedChar
    <2> HIDE DEF v
    <2> QED BY <2>2, <2>3, <2>4 DEF c, v
  <1>4. CASE c.char # "napostrophe"
    <2>1. PICK x \in FoldedChar : CaseFold(c.char) = <<x>>
      BY <1>1, <1>4 DEF CaseFold, FoldedChar, Char
    <2>2. v = <<[c EXCEPT !.char = x]>>
      BY <2>1 DEF Spread
    <2>3. [c EXCEPT !.char = x] = [char |-> x, from |-> k - 1, to |-> Reach(t, k)]
      BY <1>1
    <2>4. [char |-> x, from |-> k - 1, to |-> Reach(t, k)] \in Item
      BY <1>2, <2>1 DEF Item
    <2> HIDE DEF v
    <2> QED BY <2>2, <2>3, <2>4 DEF c, v
  <1> QED BY <1>3, <1>4 DEF c

\* Ordered items stay ordered when the next character's are put behind them.
LEMMA OrderedGrows ==
    ASSUME NEW u, NEW n \in Nat, NEW m \in Nat, Ordered(u, n), n < m, NEW v \in Seq(Item),
           Len(v) \in {1, 2},
           \A j \in 1 .. Len(v) : v[j].from = n /\ v[j].to = m,
           Len(v) = 2 => v[1].char = "apostrophe" /\ v[2].char = "n"
    PROVE  Ordered(u \o v, m)
  <1> DEFINE w == u \o v
  <1>1. /\ w \in Seq(Item) /\ Len(w) = Len(u) + Len(v) /\ Len(u) \in Nat /\ Len(v) \in Nat
        /\ \A k \in 1 .. Len(u) : w[k] = u[k]
        /\ \A k \in Len(u) + 1 .. Len(u) + Len(v) : w[k] = v[k - Len(u)]
    BY DEF Ordered
  <1>2. \A k \in 1 .. Len(u) : u[k] \in Item /\ u[k].from < u[k].to /\ u[k].to <= n
    BY DEF Ordered
  <1>3. \A j \in 1 .. Len(v) : v[j] \in Item
    OBVIOUS
  <1> HIDE DEF w
  <1>4. ASSUME NEW k \in 1 .. Len(w)
        PROVE  w[k].from < w[k].to /\ w[k].to <= m
    <2>1. CASE k \in 1 .. Len(u)
      <3>1. w[k].from \in Nat /\ w[k].to \in Nat
        BY <1>1, <1>2, <2>1 DEF Item
      <3> QED BY <1>1, <1>2, <2>1, <3>1
    <2>2. CASE k \in Len(u) + 1 .. Len(u) + Len(v)
      <3>1. k - Len(u) \in 1 .. Len(v)
        BY <1>1, <2>2
      <3> QED BY <1>1, <2>2, <3>1
    <2> QED BY <1>1, <2>1, <2>2
  <1>5. ASSUME NEW k \in 2 .. Len(w)
        PROVE  Follows(w[k - 1], w[k])
    <2>1. CASE k \in 2 .. Len(u)
      <3>1. k - 1 \in 1 .. Len(u) /\ k \in 1 .. Len(u)
        BY <2>1
      <3> QED BY <1>1, <2>1, <3>1 DEF Ordered
    <2>2. CASE k = Len(u) + 1
      <3>1. k - 1 \in 1 .. Len(u) /\ k - Len(u) = 1 /\ 1 \in 1 .. Len(v)
        BY <1>1, <2>2
      <3>2. w[k - 1].to <= n /\ w[k].from = n
        BY <1>1, <1>2, <2>2, <3>1
      <3> QED BY <3>2 DEF Follows
    <2>3. CASE k = Len(u) + 2 /\ Len(v) = 2
      <3>1. /\ k - 1 \in Len(u) + 1 .. Len(u) + Len(v) /\ k \in Len(u) + 1 .. Len(u) + Len(v)
            /\ (k - 1) - Len(u) = 1 /\ k - Len(u) = 2 /\ 1 \in 1 .. Len(v) /\ 2 \in 1 .. Len(v)
        BY <1>1, <2>3
      <3>2. w[k - 1] = v[1] /\ w[k] = v[2]
        BY <1>1, <3>1
      <3> QED BY <2>3, <3>1, <3>2 DEF Follows
    <2>4. k \in 2 .. Len(u) \/ k = Len(u) + 1 \/ (k = Len(u) + 2 /\ Len(v) = 2)
      <3>1. PICK a \in Nat, b \in Nat : a = Len(u) /\ b = Len(v)
        BY <1>1
      <3>2. k \in 2 .. a + b /\ (b = 1 \/ b = 2)
        BY <1>1, <3>1
      <3>3. k \in 2 .. a \/ k = a + 1 \/ (k = a + 2 /\ b = 2)
        BY <3>2
      <3> QED BY <3>1, <3>3
    <2> QED BY <2>1, <2>2, <2>3, <2>4
  <1> QED BY <1>1, <1>4, <1>5 DEF Ordered, w

LEMMA OrderedReaches ==
    ASSUME NEW u, NEW n \in Nat, NEW m \in Nat, Ordered(u, n), n <= m
    PROVE  Ordered(u, m)
  <1>1. \A k \in 1 .. Len(u) : u[k] \in Item
    BY DEF Ordered
  <1>2. \A k \in 1 .. Len(u) : u[k].to \in Nat
    BY <1>1 DEF Item
  <1> QED BY <1>2 DEF Ordered

\* The folded characters are in the order of the text, and none lies outside it.
LEMMA FoldedOrdered ==
    ASSUME NEW t \in Seq(Char)
    PROVE  Ordered(Folded(t), Len(t))
  <1> DEFINE S == {k \in 0 .. Len(t) : Ordered(FoldedTo(t)[k], Reach(t, k))}
  <1>1. /\ Len(t) \in Nat /\ \A k \in 0 .. Len(t) : Reach(t, k) \in Nat
        /\ Reach(t, Len(t)) = Len(t)
    BY DEF Reach
  <1>2. 0 \in S
    <2>1. Ordered(<<>>, Reach(t, 0))
      BY DEF Ordered
    <2> QED BY <1>1, <2>1, FoldedToIs
  <1>3. ASSUME NEW k \in 1 .. Len(t), k - 1 \in S
        PROVE  k \in S
    <2>1. k - 1 \in 0 .. Len(t) /\ k \in 0 .. Len(t) /\ Ordered(FoldedTo(t)[k - 1], Reach(t, k - 1))
      BY <1>3
    <2>2. CASE Composes(t, k)
      <3>1. Reach(t, k - 1) = k /\ k <= Reach(t, k)
        BY <2>2 DEF Reach
      <3>2. Ordered(FoldedTo(t)[k], Reach(t, k - 1))
        BY <1>1, <2>1, <2>2, FoldedToIs
      <3> QED BY <1>1, <2>1, <3>1, <3>2, OrderedReaches
    <2>3. CASE ~ Composes(t, k)
      <3>1. Reach(t, k - 1) = k - 1 /\ k - 1 < Reach(t, k)
        BY <2>3 DEF Reach
      <3>2. FoldedTo(t)[k] = FoldedTo(t)[k - 1] \o Spread(Composed(t, k))
        BY <1>1, <2>3, FoldedToIs
      <3> DEFINE v == Spread(Composed(t, k))
      <3>3. /\ v \in Seq(Item) /\ Len(v) \in {1, 2}
            /\ \A j \in 1 .. Len(v) : v[j].from = k - 1 /\ v[j].to = Reach(t, k)
            /\ Len(v) = 2 => v[1].char = "apostrophe" /\ v[2].char = "n"
        BY <2>3, SpreadIs
      <3> HIDE DEF v
      <3>4. k - 1 \in Nat /\ Ordered(FoldedTo(t)[k - 1], k - 1)
        BY <2>1, <3>1
      <3>5. Ordered(FoldedTo(t)[k - 1] \o v, Reach(t, k))
        BY <1>1, <2>1, <3>1, <3>3, <3>4, OrderedGrows
      <3> QED BY <2>1, <3>2, <3>5 DEF v
    <2> QED BY <2>2, <2>3
  <1>4. \A k \in 0 .. Len(t) : k \in S
    <2> HIDE DEF S
    <2> QED BY <1>1, <1>2, <1>3, Induction
  <1> QED BY <1>1, <1>4 DEF Folded

-----------------------------------------------------------------------------
\* The pass over the folded characters.

PassState == [word : Seq(FoldedChar), from : Nat, to : Nat, tokens : Seq(Token)]

LEMMA FlushedTyped ==
    ASSUME NEW s \in PassState
    PROVE  Flushed(s) \in Seq(Token)
  <1>1. s.word \in Seq(FoldedChar) /\ s.from \in Nat /\ s.to \in Nat /\ s.tokens \in Seq(Token)
    BY DEF PassState
  <1>2. [word |-> s.word, from |-> s.from, to |-> s.to] \in Token
    BY <1>1 DEF Token
  <1> QED BY <1>1, <1>2 DEF Flushed

LEMMA ReadTyped ==
    ASSUME NEW f \in Seq(Item), NEW s \in PassState, NEW k \in 1 .. Len(f)
    PROVE  Read(f, s, k) \in PassState
  <1>1. f[k] \in Item
    OBVIOUS
  <1>2. f[k].char \in FoldedChar /\ f[k].from \in Nat /\ f[k].to \in Nat
    BY <1>1 DEF Item
  <1>3. s.word \in Seq(FoldedChar) /\ s.from \in Nat /\ s.to \in Nat /\ s.tokens \in Seq(Token)
    BY DEF PassState
  <1>4. [s EXCEPT !.to = Larger(@, f[k].to)] \in PassState
    <2>1. Larger(s.to, f[k].to) \in Nat
      BY <1>2, <1>3 DEF Larger
    <2> QED BY <2>1 DEF PassState
  <1>5. [NoWord EXCEPT !.tokens = Flushed(s)] \in PassState
    <2>1. [NoWord EXCEPT !.tokens = Flushed(s)]
             = [word |-> <<>>, from |-> 0, to |-> 0, tokens |-> Flushed(s)]
      BY DEF NoWord
    <2>2. Flushed(s) \in Seq(Token)
      BY FlushedTyped
    <2>3. <<>> \in Seq(FoldedChar) /\ 0 \in Nat
      OBVIOUS
    <2> QED BY <2>1, <2>2, <2>3 DEF PassState
  <1>6. Grown(s, f[k]) \in PassState
    <2>1. /\ Append(s.word, f[k].char) \in Seq(FoldedChar)
          /\ (IF s.word = <<>> \/ f[k].from < s.from THEN f[k].from ELSE s.from) \in Nat
          /\ (IF s.word = <<>> THEN f[k].to ELSE Larger(s.to, f[k].to)) \in Nat
      BY <1>2, <1>3 DEF Larger
    <2> QED BY <1>3, <2>1 DEF Grown, PassState
  <1> QED BY <1>4, <1>5, <1>6 DEF Read

LEMMA PassTyped ==
    ASSUME NEW f \in Seq(Item)
    PROVE  \A k \in 0 .. Len(f) : Pass(f)[k] \in PassState
  <1> DEFINE S == {k \in 0 .. Len(f) : Pass(f)[k] \in PassState}
  <1>1. Len(f) \in Nat
    OBVIOUS
  <1>2. 0 \in S
    <2>1. NoWord \in PassState
      BY DEF NoWord, PassState
    <2> QED BY <1>1, <2>1, PassIs
  <1>3. ASSUME NEW k \in 1 .. Len(f), k - 1 \in S
        PROVE  k \in S
    <2>1. k \in 0 .. Len(f) /\ Pass(f)[k - 1] \in PassState
      BY <1>3
    <2>2. Pass(f)[k] = Read(f, Pass(f)[k - 1], k)
      BY <1>1, PassIs
    <2> QED BY <2>1, <2>2, ReadTyped
  <1>4. \A k \in 0 .. Len(f) : k \in S
    <2> HIDE DEF S
    <2> QED BY <1>1, <1>2, <1>3, Induction
  <1> QED BY <1>4

\* The words a text is cut into are words, whatever the text.
LEMMA TokensTyped ==
    ASSUME NEW t \in Seq(Char)
    PROVE  Tokens(t) \in Seq(Token)
  <1>1. Folded(t) \in Seq(Item)
    BY FoldedOrdered DEF Ordered
  <1>2. Pass(Folded(t))[Len(Folded(t))] \in PassState
    <2>1. Len(Folded(t)) \in 0 .. Len(Folded(t))
      BY <1>1
    <2> QED BY <1>1, <2>1, PassTyped
  <1> QED BY <1>2, FlushedTyped DEF Tokens

\* The spans of ordered items move to the right only.
LEMMA SpansMoveRight ==
    ASSUME NEW f, NEW n \in Nat, Ordered(f, n), NEW j \in 1 .. Len(f)
    PROVE  \A k \in j .. Len(f) : f[j].from <= f[k].from /\ f[j].to <= f[k].to
  <1> DEFINE S == {d \in Nat : j + d <= Len(f) => f[j].from <= f[j + d].from /\ f[j].to <= f[j + d].to}
  <1>1. Len(f) \in Nat
    BY DEF Ordered
  <1>2. \A k \in 1 .. Len(f) : f[k].from \in Nat /\ f[k].to \in Nat /\ f[k].from < f[k].to
    <2>1. \A k \in 1 .. Len(f) : f[k] \in Item
      BY DEF Ordered
    <2> QED BY <2>1 DEF Ordered, Item
  <1>3. 0 \in S
    BY <1>2
  <1>4. ASSUME NEW d \in 1 .. Len(f) - j, d - 1 \in S
        PROVE  d \in S
    <2>1. /\ j + d \in 2 .. Len(f) /\ j + d \in 1 .. Len(f) /\ j + (d - 1) \in 1 .. Len(f)
          /\ (j + d) - 1 = j + (d - 1)
      BY <1>1
    <2>2. Follows(f[j + (d - 1)], f[j + d])
      BY <2>1 DEF Ordered
    <2>3. f[j].from <= f[j + (d - 1)].from /\ f[j].to <= f[j + (d - 1)].to
      BY <1>4, <2>1
    <2>4. f[j + (d - 1)].from <= f[j + d].from /\ f[j + (d - 1)].to <= f[j + d].to
      BY <1>2, <2>1, <2>2 DEF Follows
    <2>5. f[j].from <= f[j + d].from /\ f[j].to <= f[j + d].to
      <3>1. /\ f[j].from \in Nat /\ f[j + (d - 1)].from \in Nat /\ f[j + d].from \in Nat
            /\ f[j].to \in Nat /\ f[j + (d - 1)].to \in Nat /\ f[j + d].to \in Nat
        BY <1>2, <2>1
      <3>2. f[j].from <= f[j + d].from
        BY <2>3, <2>4, <3>1
      <3>3. f[j].to <= f[j + d].to
        BY <2>3, <2>4, <3>1
      <3> QED BY <3>2, <3>3
    <2> QED BY <2>5
  <1>5. \A d \in 0 .. Len(f) - j : d \in S
    <2>1. Len(f) - j \in Nat
      BY <1>1
    <2> HIDE DEF S
    <2> QED BY <1>3, <1>4, <2>1, Induction
  <1>6. ASSUME NEW k \in j .. Len(f)
        PROVE  k - j \in 0 .. Len(f) - j /\ j + (k - j) = k
    BY <1>1
  <1> QED BY <1>5, <1>6

-----------------------------------------------------------------------------
\* Both texts are what was handed in, from the first step to the last.
TextsGiven == IsTranscript(original) /\ IsTranscript(secondary)

LEMMA TranscriptsWords ==
    ASSUME NEW t, IsTranscript(t)
    PROVE  t.words = Tokens(t.text) /\ t.words \in Seq(Token)
  BY TokensTyped DEF IsTranscript, Transcript

LEMMA InitTexts ==
    ASSUME Init PROVE TextsGiven
  <1>1. PICK pair \in Pairs : original = pair[1] /\ secondary = pair[2]
    BY DEF Init
  <1> QED BY <1>1, PairsAssumption DEF TextsGiven

\* No step writes to the texts.
LEMMA TextsStay ==
    ASSUME [Next]_vars PROVE UNCHANGED <<original, secondary>>
  BY DEF Next, vars, TooLarge, OutOfMemory, Fill, Filled, Match, Replace, Delete, Insert, Step, Judge

\* The first row and column hold what dropping every word costs.
LEMMA InitTable ==
    ASSUME N \in Nat, M \in Nat, dp = EmptyTable, NEW i \in 0 .. N, NEW j \in 0 .. M,
           i = 0 \/ j = 0
    PROVE  dp[<<i, j>>] = i + j
  <1>1. <<i, j>> \in (0 .. N) \X (0 .. M)
    OBVIOUS
  <1>2. dp[<<i, j>>] = IF i = 0 THEN j ELSE IF j = 0 THEN i ELSE 0
    BY <1>1 DEF EmptyTable
  <1> QED BY <1>2

LEMMA InitInv ==
    ASSUME Init PROVE WordInv
  <1>1. original.words \in Seq(Token) /\ secondary.words \in Seq(Token)
    BY InitTexts, TranscriptsWords DEF TextsGiven
  <1>2. N \in Nat /\ M \in Nat
    BY <1>1 DEF N, M
  <1>3. stage = "fill" /\ dp = EmptyTable /\ at = <<1, 1>> /\ ops = <<>>
    BY DEF Init
  <1>4. WordTyped
    <2>1. dp \in [(0 .. N) \X (0 .. M) -> Nat]
      <3>1. \A c \in (0 .. N) \X (0 .. M) : c[1] \in Nat /\ c[2] \in Nat
        BY <1>2
      <3> QED BY <1>3, <3>1 DEF EmptyTable
    <2> QED BY <1>1, <1>3, <2>1 DEF WordTyped
  <1>5. Border
    <2>1. ASSUME NEW i \in 0 .. N PROVE dp[<<i, 0>>] = i
      <3>1. 0 \in 0 .. M /\ dp[<<i, 0>>] = i + 0
        BY <1>2, <1>3, InitTable
      <3> QED BY <3>1
    <2>2. ASSUME NEW j \in 0 .. M PROVE dp[<<0, j>>] = j
      <3>1. 0 \in 0 .. N /\ dp[<<0, j>>] = 0 + j
        BY <1>2, <1>3, InitTable
      <3> QED BY <3>1
    <2> QED BY <2>1, <2>2 DEF Border
  <1>6. Table
    <2> SUFFICES ASSUME NEW i \in 0 .. N, NEW j \in 0 .. M, InTable(i, j)
                 PROVE  Computed(i, j)
      BY DEF Table
    <2>1. i \in Nat /\ j \in Nat /\ (i = 0 \/ j = 0)
      BY <1>2, <1>3 DEF InTable
    <2>2. dp[<<i, j>>] = i + j /\ Best(Same, i + j, i, j)
      BY <1>2, <1>3, <2>1, InitTable, NothingAligned
    <2> QED BY <2>1, <2>2 DEF Computed
  <1>7. FillAt /\ WalkAt /\ DoneAt
    BY <1>2, <1>3 DEF FillAt, WalkAt, DoneAt, Compared
  <1> QED BY <1>4, <1>5, <1>6, <1>7 DEF WordInv

LEMMA NextInv ==
    ASSUME WordInv, [Next]_vars PROVE WordInv'
  <1>1. CASE TooLarge \/ OutOfMemory
    BY <1>1, GivenUp
  <1>2. CASE Fill
    BY <1>2, FillKeeps
  <1>3. CASE Filled
    BY <1>3, FilledKeeps
  <1>4. CASE Match \/ Replace \/ Delete \/ Insert
    BY <1>4, WalkKeeps
  <1>5. CASE Judge
    BY <1>5, JudgeKeeps
  <1>6. CASE UNCHANGED vars
    BY <1>6, WordInvStutters
  <1> QED BY <1>1, <1>2, <1>3, <1>4, <1>5, <1>6 DEF Next

\* Every filled cell of the table is the least cost of the texts before it, and the walk has
\* undone exactly what it has recorded.
THEOREM WordInvHolds == Spec => []WordInv
  <1>1. Init => WordInv
    BY InitInv
  <1>2. WordInv /\ [Next]_vars => WordInv'
    BY NextInv
  <1> QED BY <1>1, <1>2, PTL DEF Spec

\* The verdict, the distance and the stored operations are what the texts say, for texts of
\* any length: the distance is the least cost of any alignment, the walk back never gets
\* stuck, its operations tell both texts, and the threshold is compared exactly.
THEOREM VerdictExactHolds == Spec => []VerdictExact
  <1>1. WordInv => VerdictExact
    BY DistanceIsLeastFollows, WalkGoesOnFollows, OpsTellFollows, JudgementFollows
       DEF VerdictExact
  <1> QED BY <1>1, WordInvHolds, PTL

\* The texts and their words are those of a pair that was handed in.
THEOREM TextsGivenHold == Spec => []TextsGiven
  <1>1. Init => TextsGiven
    BY InitTexts
  <1>2. TextsGiven /\ [Next]_vars => TextsGiven'
    BY TextsStay DEF TextsGiven, IsTranscript, Transcript
  <1> QED BY <1>1, <1>2, PTL DEF Spec

-----------------------------------------------------------------------------
\* The words the pass finds are the runs of the definition.

\* What a word has of its run: its characters, and the span from the first to the last.
TokenOf(f, w, r) == Spells(w.word, f, r) /\ w.from = f[r[1]].from /\ w.to = f[r[2]].to

\* The words are those of the runs that end before the n-th character.
Tells(f, words, n) ==
    \E order \in [1 .. Len(words) -> Runs(f)] :
        /\ \A k \in 1 .. Len(words) : TokenOf(f, words[k], order[k])
        /\ \A j, k \in 1 .. Len(words) : j < k => order[j][2] < order[k][1]
        /\ {order[k] : k \in 1 .. Len(words)} = {r \in Runs(f) : r[2] < n}

\* The word under way is that of the run that is open at the k-th character, if one is.
Open(f, s, k) ==
    IF InWord(f, k)
    THEN \E b \in 1 .. k : /\ \A m \in b .. k : InWord(f, m)
                           /\ ~ InWord(f, b - 1) /\ TokenOf(f, s, <<b, k>>)
    ELSE s.word = <<>>

PassAt(f, s, k) == Tells(f, s.tokens, k) /\ Open(f, s, k)

LEMMA KeptCounts ==
    ASSUME NEW f, NEW m \in Nat, NEW n \in Nat
    PROVE  /\ IsFiniteSet(Kept(f, m, n)) /\ Cardinality(Kept(f, m, n)) \in Nat
           /\ n < m => Cardinality(Kept(f, m, n)) = 0
           /\ m <= n + 1 =>
                IF IsJoiner(f[n + 1].char) THEN Kept(f, m, n + 1) = Kept(f, m, n)
                ELSE /\ Kept(f, m, n + 1) = Kept(f, m, n) \cup {n + 1}
                     /\ Cardinality(Kept(f, m, n + 1)) = Cardinality(Kept(f, m, n)) + 1
  <1>1. IsFiniteSet(Kept(f, m, n))
    <2>1. Kept(f, m, n) \in SUBSET (m .. n) /\ IsFiniteSet(m .. n)
      BY FS_Interval DEF Kept
    <2> QED BY <2>1, FS_Subset
  <1>2. n < m => Cardinality(Kept(f, m, n)) = 0
    <2>1. n < m => Kept(f, m, n) = {}
      BY DEF Kept
    <2> QED BY <2>1, FS_EmptySet
  <1>3. ASSUME m <= n + 1, IsJoiner(f[n + 1].char)
        PROVE  Kept(f, m, n + 1) = Kept(f, m, n)
    BY <1>3 DEF Kept
  <1>4. ASSUME m <= n + 1, ~ IsJoiner(f[n + 1].char)
        PROVE  /\ Kept(f, m, n + 1) = Kept(f, m, n) \cup {n + 1}
               /\ Cardinality(Kept(f, m, n + 1)) = Cardinality(Kept(f, m, n)) + 1
    <2>1. Kept(f, m, n + 1) = Kept(f, m, n) \cup {n + 1} /\ n + 1 \notin Kept(f, m, n)
      BY <1>4 DEF Kept
    <2> QED BY <1>1, <2>1, FS_AddElement
  <1> QED BY <1>1, <1>2, <1>3, <1>4, FS_CardinalityType

\* A word begins with a letter or a digit, never with a joiner.
LEMMA RunsBeginWithoutJoiner ==
    ASSUME NEW f, NEW b \in Nat, InWord(f, b), ~ InWord(f, b - 1)
    PROVE  ~ IsJoiner(f[b].char)
  <1> SUFFICES ASSUME IsJoiner(f[b].char) PROVE FALSE
    OBVIOUS
  <1>1. b \in 1 .. Len(f) /\ b > 1 /\ IsLetter(f[b - 1].char)
    BY DEF InWord, Dropped
  <1>2. b - 1 \in 1 .. Len(f)
    BY <1>1
  <1>3. ~ IsJoiner(f[b - 1].char) /\ ~ Breaks(f[b - 1].char)
    BY <1>1 DEF IsLetter, IsJoiner, Breaks
  <1> QED BY <1>2, <1>3 DEF InWord

\* While a run is open, its word is not empty, and ends with the last character unless that
\* is a joiner.
LEMMA OpenWord ==
    ASSUME NEW f, NEW s, NEW k \in Nat, Open(f, s, k), InWord(f, k), s.word \in Seq(FoldedChar)
    PROVE  s.word # <<>> /\ (~ IsJoiner(f[k].char) => Last(s.word) = f[k].char)
  <1>1. PICK b \in 1 .. k : /\ \A m \in b .. k : InWord(f, m)
                            /\ ~ InWord(f, b - 1) /\ TokenOf(f, s, <<b, k>>)
    BY DEF Open
  <1>2. b \in Nat /\ b \in b .. k
    OBVIOUS
  <1>3. b \in Kept(f, b, k)
    BY <1>1, <1>2, RunsBeginWithoutJoiner DEF Kept
  <1>4. /\ Len(s.word) = Cardinality(Kept(f, b, k))
        /\ \A m \in Kept(f, b, k) : s.word[Cardinality(Kept(f, b, m))] = f[m].char
    BY <1>1 DEF TokenOf, Spells
  <1>5. Len(s.word) # 0
    <2>1. IsFiniteSet(Kept(f, b, k))
      BY <1>2, KeptCounts
    <2> QED BY <1>3, <1>4, <2>1, FS_EmptySet
  <1>6. ASSUME ~ IsJoiner(f[k].char)
        PROVE  Last(s.word) = f[k].char
    <2>1. k \in Kept(f, b, k)
      BY <1>6 DEF Kept
    <2> QED BY <1>4, <2>1 DEF Last
  <1> QED BY <1>5, <1>6

\* The pass drops a joiner exactly if the definition does.
LEMMA JoinsIsDropped ==
    ASSUME NEW f \in Seq(Item), NEW s \in PassState, NEW k \in 1 .. Len(f),
           Open(f, s, k - 1), IsJoiner(f[k].char)
    PROVE  Joins(f, s, k) <=> Dropped(f, k)
  <1>1. k - 1 \in Nat /\ s.word \in Seq(FoldedChar) /\ Len(f) \in Nat
    BY DEF PassState
  <1>2. ASSUME Joins(f, s, k)
        PROVE  Dropped(f, k)
    <2>1. s.word # <<>> /\ IsLetter(Last(s.word)) /\ k < Len(f) /\ IsLetter(f[k + 1].char)
      BY <1>2 DEF Joins, NextIsLetter
    <2>2. InWord(f, k - 1)
      BY <2>1 DEF Open
    <2>3. k > 1
      BY <2>2 DEF InWord
    <2>4. ~ IsJoiner(f[k - 1].char)
      <3>1. (k - 1) + 1 = k
        OBVIOUS
      <3>2. ~ IsLetter(f[k].char)
        BY DEF IsJoiner, IsLetter
      <3> QED BY <2>2, <3>1, <3>2 DEF InWord, Dropped
    <2>5. IsLetter(f[k - 1].char)
      BY <1>1, <2>1, <2>2, <2>4, OpenWord
    <2> QED BY <2>1, <2>3, <2>5 DEF Dropped
  <1>3. ASSUME Dropped(f, k)
        PROVE  Joins(f, s, k)
    <2>1. k > 1 /\ IsLetter(f[k - 1].char) /\ k < Len(f) /\ IsLetter(f[k + 1].char)
      BY <1>3 DEF Dropped
    <2>2. ~ IsJoiner(f[k - 1].char) /\ ~ Breaks(f[k - 1].char)
      BY <2>1 DEF IsJoiner, IsLetter, Breaks
    <2>3. InWord(f, k - 1)
      BY <1>1, <2>1, <2>2 DEF InWord
    <2>4. s.word # <<>> /\ Last(s.word) = f[k - 1].char
      BY <1>1, <2>2, <2>3, OpenWord
    <2> QED BY <2>1, <2>4 DEF Joins, NextIsLetter
  <1> QED BY <1>2, <1>3

LEMMA RunsForm ==
    ASSUME NEW f, NEW r \in Runs(f)
    PROVE  /\ r = <<r[1], r[2]>> /\ r[1] \in 1 .. Len(f) /\ r[2] \in 1 .. Len(f) /\ r[1] <= r[2]
           /\ \A k \in r[1] .. r[2] : InWord(f, k)
           /\ ~ InWord(f, r[1] - 1) /\ ~ InWord(f, r[2] + 1)
  BY DEF Runs

\* No run ends where the next character is in a word.
LEMMA NothingEnds ==
    ASSUME NEW f, NEW words, NEW k \in Nat, Tells(f, words, k), InWord(f, k + 1) \/ ~ InWord(f, k)
    PROVE  Tells(f, words, k + 1)
  <1>1. ASSUME NEW r \in Runs(f), r[2] < k + 1
        PROVE  r[2] < k
    <2>1. r[2] \in Int /\ (r[2] = k => FALSE)
      <3>1. r[2] \in r[1] .. r[2]
        BY RunsForm
      <3> QED BY <3>1, RunsForm
    <2> QED BY <1>1, <2>1
  <1>2. \A r \in Runs(f) : r[2] \in Int
    BY RunsForm
  <1>3. {r \in Runs(f) : r[2] < k + 1} = {r \in Runs(f) : r[2] < k}
    BY <1>1, <1>2
  <1> QED BY <1>3 DEF Tells

\* Where a run ends, its word is flushed and becomes one of the words.
LEMMA FlushedTells ==
    ASSUME NEW f \in Seq(Item), NEW s \in PassState, NEW k \in 0 .. Len(f), PassAt(f, s, k),
           ~ InWord(f, k + 1)
    PROVE  Tells(f, Flushed(s), k + 1)
  <1>1. /\ s.word \in Seq(FoldedChar) /\ s.tokens \in Seq(Token) /\ Len(f) \in Nat
        /\ s.from \in Nat /\ s.to \in Nat /\ k \in Nat
    BY DEF PassState
  <1>2. CASE ~ InWord(f, k)
    <2>1. Flushed(s) = s.tokens
      BY <1>2 DEF PassAt, Open, Flushed
    <2> QED BY <1>1, <1>2, <2>1, NothingEnds DEF PassAt
  <1>3. CASE InWord(f, k)
    <2> DEFINE w == [word |-> s.word, from |-> s.from, to |-> s.to]
               words == Append(s.tokens, w)
               n == Len(s.tokens)
    <2>1. Flushed(s) = words
      BY <1>1, <1>3, OpenWord DEF PassAt, Flushed
    <2>2. PICK b \in 1 .. k : /\ \A m \in b .. k : InWord(f, m)
                              /\ ~ InWord(f, b - 1) /\ TokenOf(f, s, <<b, k>>)
      BY <1>3 DEF PassAt, Open
    <2> DEFINE last == <<b, k>>
    <2>3. last \in Runs(f)
      <3>1. k \in 1 .. Len(f) /\ b \in 1 .. Len(f) /\ b <= k
        BY <1>1, <1>3 DEF InWord
      <3> QED BY <2>2, <3>1 DEF Runs
    <2>4. PICK order \in [1 .. n -> Runs(f)] :
              /\ \A j \in 1 .. n : TokenOf(f, s.tokens[j], order[j])
              /\ \A j, m \in 1 .. n : j < m => order[j][2] < order[m][1]
              /\ {order[j] : j \in 1 .. n} = {r \in Runs(f) : r[2] < k}
      BY DEF PassAt, Tells
    <2>5. \A r \in Runs(f) : r[2] < k => r[2] < b
      <3> SUFFICES ASSUME NEW r \in Runs(f), r[2] < k, b <= r[2] PROVE FALSE
        BY RunsForm
      <3>1. r[2] + 1 \in b .. k
        BY RunsForm
      <3> QED BY <2>2, <3>1, RunsForm
    <2>6. \A r \in Runs(f) : r[2] = k => r = last
      <3> TAKE r \in Runs(f)
      <3> HAVE r[2] = k
      <3>1. r[1] \in Int /\ r[1] <= k /\ r = <<r[1], k>>
        BY RunsForm
      <3>2. r[1] = b
        <4>1. CASE r[1] < b
          <5>1. b - 1 \in r[1] .. r[2]
            BY <3>1, <4>1
          <5> QED BY <2>2, <5>1, RunsForm
        <4>2. CASE r[1] > b
          <5>1. r[1] - 1 \in b .. k
            BY <3>1, <4>2
          <5> QED BY <2>2, <5>1, RunsForm
        <4> QED BY <3>1, <4>1, <4>2
      <3> QED BY <3>1, <3>2
    <2> DEFINE next == [j \in 1 .. n + 1 |-> IF j = n + 1 THEN last ELSE order[j]]
    <2>7. /\ n \in Nat /\ Len(words) = n + 1 /\ words[n + 1] = w
          /\ \A j \in 1 .. n : words[j] = s.tokens[j] /\ next[j] = order[j]
          /\ next[n + 1] = last
      BY <1>1
    <2>8. next \in [1 .. Len(words) -> Runs(f)]
      BY <2>3, <2>4, <2>7
    <2>9. \A j \in 1 .. Len(words) : TokenOf(f, words[j], next[j])
      <3>1. TokenOf(f, w, last)
        BY <2>2 DEF TokenOf
      <3> HIDE DEF w, next, words, last
      <3> QED BY <2>4, <2>7, <3>1
    <2>10. ASSUME NEW j \in 1 .. Len(words), NEW m \in 1 .. Len(words), j < m
           PROVE  next[j][2] < next[m][1]
      <3>1. j \in 1 .. n /\ (m \in 1 .. n \/ m = n + 1)
        BY <2>7, <2>10
      <3>2. order[j] \in Runs(f) /\ order[j][2] < k
        BY <2>4, <3>1
      <3>3. order[j][2] < b
        BY <2>5, <3>2
      <3> HIDE DEF w, next, words
      <3> QED BY <2>4, <2>7, <2>10, <3>1, <3>3
    <2>11. {next[j] : j \in 1 .. Len(words)} = {r \in Runs(f) : r[2] < k + 1}
      <3>1. {next[j] : j \in 1 .. Len(words)} = {order[j] : j \in 1 .. n} \cup {last}
        <4>1. 1 .. Len(words) = (1 .. n) \cup {n + 1}
          BY <2>7
        <4> HIDE DEF w, next, words, last, n
        <4> QED BY <2>7, <4>1
      <3>2. {r \in Runs(f) : r[2] < k + 1} = {r \in Runs(f) : r[2] < k} \cup {last}
        <4>1. \A r \in Runs(f) : r[2] \in Int
          BY RunsForm
        <4>2. last[2] = k
          OBVIOUS
        <4> HIDE DEF last
        <4> QED BY <1>1, <2>3, <2>6, <4>1, <4>2
      <3> QED BY <2>4, <3>1, <3>2
    <2> HIDE DEF words, next
    <2>12. Tells(f, words, k + 1)
      BY <2>8, <2>9, <2>10, <2>11 DEF Tells
    <2> QED BY <2>1, <2>12
  <1> QED BY <1>2, <1>3

\* A joiner that is dropped belongs to the word under way: its span grows over it.
LEMMA DroppedKeeps ==
    ASSUME NEW f, NEW n \in Nat, Ordered(f, n), NEW s \in PassState, NEW k \in 1 .. Len(f),
           Open(f, s, k - 1), IsJoiner(f[k].char), Dropped(f, k)
    PROVE  InWord(f, k) /\ Open(f, [s EXCEPT !.to = Larger(@, f[k].to)], k)
  <1> DEFINE t == [s EXCEPT !.to = Larger(@, f[k].to)]
  <1>1. t.word = s.word /\ t.from = s.from /\ t.to = Larger(s.to, f[k].to)
    BY DEF PassState
  <1> HIDE DEF t
  <1>2. InWord(f, k) /\ InWord(f, k - 1) /\ k - 1 \in 1 .. Len(f)
    <2>1. k > 1 /\ IsLetter(f[k - 1].char)
      BY DEF Dropped
    <2>2. Len(f) \in Nat /\ ~ IsJoiner(f[k - 1].char) /\ ~ Breaks(f[k - 1].char)
      BY <2>1 DEF Ordered, IsJoiner, IsLetter, Breaks
    <2>3. k - 1 \in 1 .. Len(f)
      BY <2>1, <2>2
    <2> QED BY <2>2, <2>3 DEF InWord
  <1>3. PICK b \in 1 .. k - 1 : /\ \A m \in b .. k - 1 : InWord(f, m)
                                /\ ~ InWord(f, b - 1) /\ TokenOf(f, s, <<b, k - 1>>)
    BY <1>2 DEF Open
  <1>4. b \in 1 .. k /\ \A m \in b .. k : m \in b .. k - 1 \/ m = k
    OBVIOUS
  <1>5. Kept(f, b, k) = Kept(f, b, k - 1)
    <2>1. b \in Nat /\ k - 1 \in Nat /\ (k - 1) + 1 = k /\ b <= (k - 1) + 1
      BY <1>2
    <2>2. IsJoiner(f[(k - 1) + 1].char)
      BY <2>1
    <2>3. Kept(f, b, (k - 1) + 1) = Kept(f, b, k - 1)
      BY <2>1, <2>2, KeptCounts
    <2> QED BY <2>1, <2>3
  <1>6. TokenOf(f, t, <<b, k>>)
    <2>1. Spells(t.word, f, <<b, k>>)
      BY <1>1, <1>3, <1>5 DEF TokenOf, Spells
    <2>2. t.from = f[b].from
      BY <1>1, <1>3 DEF TokenOf
    <2>3. t.to = f[k].to
      <3>1. s.to = f[k - 1].to
        BY <1>3 DEF TokenOf
      <3>2. f[k - 1].to <= f[k].to
        BY <1>2, SpansMoveRight
      <3>3. f[k - 1].to \in Nat /\ f[k].to \in Nat
        <4>1. f[k - 1] \in Item /\ f[k] \in Item
          BY <1>2 DEF Ordered
        <4> QED BY <4>1 DEF Item
      <3> QED BY <1>1, <3>1, <3>2, <3>3 DEF Larger
    <2> QED BY <2>1, <2>2, <2>3 DEF TokenOf
  <1>7. Open(f, t, k)
    BY <1>2, <1>3, <1>4, <1>6 DEF Open
  <1> QED BY <1>2, <1>7 DEF t

\* Any other character of a word is put behind those of the word, or begins one.
LEMMA GrownKeeps ==
    ASSUME NEW f, NEW n \in Nat, Ordered(f, n), NEW s \in PassState, NEW k \in 1 .. Len(f),
           Open(f, s, k - 1), ~ IsJoiner(f[k].char), ~ Breaks(f[k].char)
    PROVE  InWord(f, k) /\ Open(f, Grown(s, f[k]), k)
  <1> DEFINE t == Grown(s, f[k])
  <1>1. /\ s.word \in Seq(FoldedChar) /\ s.from \in Nat /\ s.to \in Nat
        /\ f[k].char \in FoldedChar /\ f[k].from \in Nat /\ f[k].to \in Nat
    <2>1. f[k] \in Item
      BY DEF Ordered
    <2> QED BY <2>1 DEF PassState, Item
  <1>2. /\ t.word = Append(s.word, f[k].char)
        /\ t.from = IF s.word = <<>> \/ f[k].from < s.from THEN f[k].from ELSE s.from
        /\ t.to = IF s.word = <<>> THEN f[k].to ELSE Larger(s.to, f[k].to)
    BY DEF Grown, PassState
  <1> HIDE DEF t
  <1>3. InWord(f, k) /\ k - 1 \in Nat /\ (k - 1) + 1 = k /\ Len(f) \in Nat
    BY DEF InWord, Ordered
  <1> DEFINE Since(b) ==
               /\ \A m \in b .. k - 1 : InWord(f, m)
               /\ ~ InWord(f, b - 1) /\ t.from = f[b].from /\ t.to = f[k].to
               /\ Len(s.word) = Cardinality(Kept(f, b, k - 1))
               /\ \A m \in Kept(f, b, k - 1) : s.word[Cardinality(Kept(f, b, m))] = f[m].char
  <1>4. ASSUME NEW b \in 1 .. k, Since(b)
        PROVE  Open(f, t, k)
    <2>1. b \in Nat /\ b <= (k - 1) + 1 /\ ~ IsJoiner(f[(k - 1) + 1].char)
      BY <1>3
    <2>2. /\ Kept(f, b, (k - 1) + 1) = Kept(f, b, k - 1) \cup {(k - 1) + 1}
          /\ Cardinality(Kept(f, b, (k - 1) + 1)) = Cardinality(Kept(f, b, k - 1)) + 1
      BY <1>3, <2>1, KeptCounts
    <2>3. /\ Kept(f, b, k) = Kept(f, b, k - 1) \cup {k}
          /\ Cardinality(Kept(f, b, k)) = Len(s.word) + 1
      BY <1>3, <1>4, <2>2
    <2>4. Len(t.word) = Cardinality(Kept(f, b, k))
      BY <1>1, <1>2, <2>3
    <2>5. ASSUME NEW m \in Kept(f, b, k)
          PROVE  t.word[Cardinality(Kept(f, b, m))] = f[m].char
      <3>1. CASE m = k
        <4>1. t.word[Len(s.word) + 1] = f[k].char
          BY <1>1, <1>2
        <4> QED BY <2>3, <3>1, <4>1
      <3>2. CASE m \in Kept(f, b, k - 1)
        <4>1. m \in Nat /\ m \in b .. k - 1
          BY <3>2 DEF Kept
        <4>2. m \in Kept(f, b, m) /\ Kept(f, b, m) \subseteq Kept(f, b, k - 1)
          BY <3>2, <4>1 DEF Kept
        <4>3. /\ Cardinality(Kept(f, b, m)) <= Cardinality(Kept(f, b, k - 1))
              /\ Cardinality(Kept(f, b, m)) \in Nat /\ Cardinality(Kept(f, b, m)) # 0
          <5>1. IsFiniteSet(Kept(f, b, m)) /\ IsFiniteSet(Kept(f, b, k - 1))
            BY <1>3, <2>1, <4>1, KeptCounts
          <5> QED BY <4>2, <5>1, FS_Subset, FS_EmptySet, FS_CardinalityType
        <4>4. Cardinality(Kept(f, b, m)) \in 1 .. Len(s.word)
          BY <1>4, <4>3
        <4>5. t.word[Cardinality(Kept(f, b, m))] = s.word[Cardinality(Kept(f, b, m))]
          BY <1>1, <1>2, <4>4
        <4> QED BY <1>4, <3>2, <4>5
      <3> QED BY <2>3, <3>1, <3>2
    <2>6. TokenOf(f, t, <<b, k>>)
      BY <1>4, <2>4, <2>5 DEF TokenOf, Spells
    <2>7. \A m \in b .. k : m \in b .. k - 1 \/ m = k
      OBVIOUS
    <2> QED BY <1>3, <1>4, <2>6, <2>7 DEF Open
  <1>5. CASE InWord(f, k - 1)
    <2>1. PICK b \in 1 .. k - 1 : /\ \A m \in b .. k - 1 : InWord(f, m)
                                  /\ ~ InWord(f, b - 1) /\ TokenOf(f, s, <<b, k - 1>>)
      BY <1>5 DEF Open
    <2>2. k - 1 \in 1 .. Len(f) /\ b \in 1 .. Len(f) /\ k \in b .. Len(f) /\ b \in 1 .. k
      BY <1>3
    <2>3. s.word # <<>>
      BY <1>1, <1>3, <1>5, OpenWord
    <2>4. s.from = f[b].from /\ s.to = f[k - 1].to /\ Spells(s.word, f, <<b, k - 1>>)
      BY <2>1 DEF TokenOf
    <2>5. f[b].from <= f[k].from /\ f[k - 1].to <= f[k].to
      <3>1. k \in k - 1 .. Len(f)
        BY <2>2
      <3> QED BY <2>2, <3>1, SpansMoveRight
    <2>6. t.from = f[b].from /\ t.to = f[k].to
      BY <1>1, <1>2, <2>3, <2>4, <2>5 DEF Larger
    <2>7. /\ Len(s.word) = Cardinality(Kept(f, b, k - 1))
          /\ \A m \in Kept(f, b, k - 1) : s.word[Cardinality(Kept(f, b, m))] = f[m].char
      BY <2>4 DEF Spells
    <2>8. Since(b)
      BY <2>1, <2>6, <2>7
    <2> HIDE DEF Since
    <2> QED BY <1>3, <1>4, <2>2, <2>8 DEF t
  <1>6. CASE ~ InWord(f, k - 1)
    <2>1. s.word = <<>>
      BY <1>6 DEF Open
    <2>2. k \in 1 .. k /\ k .. k - 1 = {}
      OBVIOUS
    <2>3. Kept(f, k, k - 1) = {}
      BY <2>2 DEF Kept
    <2>4. Len(s.word) = Cardinality(Kept(f, k, k - 1))
      BY <2>1, <2>3, FS_EmptySet
    <2>5. t.from = f[k].from /\ t.to = f[k].to
      BY <1>2, <2>1
    <2>6. \A m \in k .. k - 1 : InWord(f, m)
      BY <2>2
    <2>7. Since(k)
      BY <1>6, <2>3, <2>4, <2>5, <2>6
    <2> HIDE DEF Since
    <2> QED BY <1>3, <1>4, <2>2, <2>7 DEF t
  <1> QED BY <1>3, <1>5, <1>6 DEF t

LEMMA ReadKeeps ==
    ASSUME NEW f, NEW n \in Nat, Ordered(f, n), NEW s \in PassState, NEW k \in 1 .. Len(f),
           PassAt(f, s, k - 1)
    PROVE  PassAt(f, Read(f, s, k), k)
  <1>1. f \in Seq(Item) /\ k - 1 \in 0 .. Len(f) /\ k - 1 \in Nat /\ (k - 1) + 1 = k
    BY DEF Ordered
  <1>2. Tells(f, s.tokens, k - 1) /\ Open(f, s, k - 1)
    BY DEF PassAt
  <1>3. CASE IsJoiner(f[k].char) /\ Dropped(f, k)
    <2> DEFINE t == [s EXCEPT !.to = Larger(@, f[k].to)]
    <2>1. Read(f, s, k) = t
      BY <1>1, <1>2, <1>3, JoinsIsDropped DEF Read
    <2>2. t.tokens = s.tokens
      BY DEF PassState
    <2>3. InWord(f, k) /\ Open(f, t, k)
      BY <1>2, <1>3, DroppedKeeps
    <2> HIDE DEF t
    <2>4. Tells(f, t.tokens, (k - 1) + 1)
      BY <1>1, <1>2, <2>2, <2>3, NothingEnds
    <2> QED BY <1>1, <2>1, <2>3, <2>4 DEF PassAt
  <1>4. CASE (IsJoiner(f[k].char) \/ Breaks(f[k].char)) /\ ~ Dropped(f, k)
    <2> DEFINE t == [NoWord EXCEPT !.tokens = Flushed(s)]
    <2>1. Read(f, s, k) = t
      <3>1. ~ Joins(f, s, k)
        BY <1>1, <1>2, <1>4, JoinsIsDropped DEF Joins
      <3> QED BY <1>4, <3>1 DEF Read
    <2>2. t.tokens = Flushed(s) /\ t.word = <<>>
      BY DEF NoWord
    <2>3. ~ InWord(f, k)
      BY <1>4 DEF InWord
    <2> HIDE DEF t
    <2>4. Tells(f, t.tokens, (k - 1) + 1)
      BY <1>1, <2>2, <2>3, FlushedTells
    <2> QED BY <1>1, <2>1, <2>2, <2>3, <2>4 DEF PassAt, Open
  <1>5. CASE ~ IsJoiner(f[k].char) /\ ~ Breaks(f[k].char)
    <2> DEFINE t == Grown(s, f[k])
    <2>1. Read(f, s, k) = t
      BY <1>5 DEF Read, Joins
    <2>2. t.tokens = s.tokens
      BY DEF PassState, Grown
    <2>3. InWord(f, k) /\ Open(f, t, k)
      BY <1>2, <1>5, GrownKeeps
    <2> HIDE DEF t
    <2>4. Tells(f, t.tokens, (k - 1) + 1)
      BY <1>1, <1>2, <2>2, <2>3, NothingEnds
    <2> QED BY <1>1, <2>1, <2>3, <2>4 DEF PassAt
  <1>6. Dropped(f, k) => IsJoiner(f[k].char)
    BY DEF Dropped
  <1> QED BY <1>3, <1>4, <1>5, <1>6

\* After any number of characters the pass has found the runs that have ended.
LEMMA PassTells ==
    ASSUME NEW f, NEW n \in Nat, Ordered(f, n)
    PROVE  \A k \in 0 .. Len(f) : PassAt(f, Pass(f)[k], k)
  <1> DEFINE S == {k \in 0 .. Len(f) : PassAt(f, Pass(f)[k], k)}
  <1>1. f \in Seq(Item) /\ Len(f) \in Nat
    BY DEF Ordered
  <1>2. 0 \in S
    <2>1. Pass(f)[0] = NoWord
      BY <1>1, PassIs
    <2>2. Open(f, NoWord, 0)
      BY DEF Open, NoWord, InWord
    <2>3. Tells(f, <<>>, 0)
      <3> DEFINE order == [k \in 1 .. 0 |-> k]
      <3>1. order \in [1 .. Len(<<>>) -> Runs(f)] /\ {order[k] : k \in 1 .. Len(<<>>)} = {}
        OBVIOUS
      <3>2. \A r \in Runs(f) : r[2] \in 1 .. Len(f) /\ ~ (r[2] < 0)
        BY <1>1, RunsForm
      <3>3. {r \in Runs(f) : r[2] < 0} = {}
        BY <3>2
      <3>4. \A k \in 1 .. Len(<<>>) : FALSE
        OBVIOUS
      <3> HIDE DEF order
      <3> QED BY <3>1, <3>3, <3>4 DEF Tells
    <2>4. PassAt(f, NoWord, 0)
      BY <2>2, <2>3 DEF PassAt, NoWord
    <2> QED BY <1>1, <2>1, <2>4
  <1>3. ASSUME NEW k \in 1 .. Len(f), k - 1 \in S
        PROVE  k \in S
    <2>1. k \in 0 .. Len(f) /\ k - 1 \in 0 .. Len(f) /\ PassAt(f, Pass(f)[k - 1], k - 1)
      BY <1>3
    <2>2. Pass(f)[k] = Read(f, Pass(f)[k - 1], k) /\ Pass(f)[k - 1] \in PassState
      BY <1>1, <2>1, PassIs, PassTyped
    <2>3. PassAt(f, Read(f, Pass(f)[k - 1], k), k)
      BY <2>1, <2>2, ReadKeeps
    <2> QED BY <2>1, <2>2, <2>3
  <1>4. \A k \in 0 .. Len(f) : k \in S
    <2> HIDE DEF S
    <2> QED BY <1>1, <1>2, <1>3, Induction
  <1> QED BY <1>4

\* The words of a text are its runs, all of them and in order, with their spans.
LEMMA TokensTell ==
    ASSUME NEW t \in Seq(Char)
    PROVE  Tells(Folded(t), Tokens(t), Len(Folded(t)) + 1)
  <1> DEFINE f == Folded(t)  k == Len(f)
  <1>1. Ordered(f, Len(t)) /\ Len(t) \in Nat
    BY FoldedOrdered
  <1>2. f \in Seq(Item) /\ k \in 0 .. k /\ k \in Nat
    BY <1>1 DEF Ordered
  <1>3. Pass(f)[k] \in PassState /\ PassAt(f, Pass(f)[k], k)
    BY <1>1, <1>2, PassTyped, PassTells
  <1>4. ~ InWord(f, k + 1)
    BY <1>2 DEF InWord
  <1>5. Tells(f, Flushed(Pass(f)[k]), k + 1)
    BY <1>2, <1>3, <1>4, FlushedTells
  <1> QED BY <1>5 DEF Tokens

\* Every character of a word is in a run.
LEMMA RunsCover ==
    ASSUME NEW f, Len(f) \in Nat, NEW j \in 1 .. Len(f), InWord(f, j)
    PROVE  \E r \in Runs(f) : j \in r[1] .. r[2]
  <1> DEFINE Back == {d \in 0 .. j : ~ InWord(f, j - d)}
             Ahead == {k \in j .. Len(f) + 1 : ~ InWord(f, k)}
  <1>1. PICK d \in Back : \A x \in Back : d <= x
    <2>1. j \in Back /\ Back \in SUBSET Nat
      BY DEF InWord
    <2> HIDE DEF Back
    <2> QED BY <2>1, LeastOf
  <1>2. PICK e \in Ahead : \A x \in Ahead : e <= x
    <2>1. Len(f) + 1 \in Ahead /\ Ahead \in SUBSET Nat
      BY DEF InWord
    <2> HIDE DEF Ahead
    <2> QED BY <2>1, LeastOf
  <1> DEFINE b == j - d + 1
  <1>3. d \in 1 .. j /\ e \in j + 1 .. Len(f) + 1
    BY <1>1, <1>2
  <1>4. b \in 1 .. j /\ e - 1 \in j .. Len(f) /\ b - 1 = j - d /\ (e - 1) + 1 = e
    BY <1>3
  <1>5. ASSUME NEW k \in b .. e - 1
        PROVE  InWord(f, k)
    <2>1. CASE k <= j
      <3>1. j - k \in 0 .. j /\ j - (j - k) = k /\ j - k < d
        BY <1>3, <2>1
      <3>2. j - k \notin Back
        <4> HIDE DEF Back
        <4> QED BY <1>1, <1>3, <3>1
      <3> QED BY <3>1, <3>2
    <2>2. CASE k > j
      <3>1. k \in j .. Len(f) + 1 /\ k < e
        BY <1>3, <2>2
      <3> QED BY <1>2, <3>1
    <2> QED BY <2>1, <2>2
  <1>6. ~ InWord(f, b - 1) /\ ~ InWord(f, (e - 1) + 1)
    BY <1>1, <1>2, <1>4
  <1>7. <<b, e - 1>> \in Runs(f)
    <2>1. b \in 1 .. Len(f) /\ e - 1 \in 1 .. Len(f) /\ b <= e - 1
      BY <1>4
    <2> HIDE DEF b
    <2> QED BY <1>5, <1>6, <2>1 DEF Runs
  <1> HIDE DEF b
  <1> QED BY <1>4, <1>7

\* A text is cut into the words it is defined to have, each found again in the text.
LEMMA WordsFollow ==
    ASSUME NEW t \in Seq(Char)
    PROVE  LET f == Folded(t)  words == Tokens(t) IN
           WordsInOrder(f, words) /\ SpansInOrder(t, words) /\ SpansCover(f, words)
  <1> DEFINE f == Folded(t)  words == Tokens(t)
  <1>1. /\ Ordered(f, Len(t)) /\ Len(t) \in Nat /\ Len(f) \in Nat
        /\ words \in Seq(Token) /\ Len(words) \in Nat
    BY FoldedOrdered, TokensTyped DEF Ordered
  <1>2. PICK order \in [1 .. Len(words) -> Runs(f)] :
            /\ \A k \in 1 .. Len(words) : TokenOf(f, words[k], order[k])
            /\ \A j, k \in 1 .. Len(words) : j < k => order[j][2] < order[k][1]
            /\ {order[k] : k \in 1 .. Len(words)} = {r \in Runs(f) : r[2] < Len(f) + 1}
    BY TokensTell DEF Tells
  <1> HIDE DEF f, words
  <1>3. {r \in Runs(f) : r[2] < Len(f) + 1} = Runs(f)
    <2>1. \A r \in Runs(f) : r[2] < Len(f) + 1
      BY <1>1, RunsForm
    <2> QED BY <2>1
  <1>4. WordsInOrder(f, words)
    BY <1>2, <1>3 DEF WordsInOrder, TokenOf
  <1>5. \A k \in 1 .. Len(f) : f[k].from \in Nat /\ f[k].to \in Nat /\ f[k].from < f[k].to
                               /\ f[k].to <= Len(t)
    <2>1. \A k \in 1 .. Len(f) : f[k] \in Item
      BY <1>1 DEF Ordered
    <2> QED BY <1>1, <2>1 DEF Ordered, Item
  <1>6. ASSUME NEW k \in 1 .. Len(words)
        PROVE  /\ order[k] \in Runs(f) /\ order[k][1] \in 1 .. Len(f) /\ order[k][2] \in 1 .. Len(f)
               /\ order[k][1] <= order[k][2]
               /\ words[k].from = f[order[k][1]].from /\ words[k].to = f[order[k][2]].to
    <2>1. order[k] \in Runs(f) /\ TokenOf(f, words[k], order[k])
      BY <1>2
    <2> QED BY <2>1, RunsForm DEF TokenOf
  <1>7. ASSUME NEW k \in 1 .. Len(words)
        PROVE  words[k].from < words[k].to /\ words[k].to <= Len(t)
    <2> DEFINE b == order[k][1]  e == order[k][2]
    <2>1. b \in 1 .. Len(f) /\ e \in 1 .. Len(f) /\ e \in b .. Len(f)
      BY <1>6
    <2>2. f[b].to <= f[e].to
      BY <1>1, <2>1, SpansMoveRight
    <2>3. f[b].from < f[e].to
      <3> HIDE DEF b, e
      <3>1. f[b].from \in Nat /\ f[b].to \in Nat /\ f[e].to \in Nat /\ f[b].from < f[b].to
        BY <1>5, <2>1
      <3> QED BY <2>2, <3>1
    <2> QED BY <1>5, <1>6, <2>1, <2>3
  <1>8. ASSUME NEW k \in 2 .. Len(words)
        PROVE  words[k - 1].to <= words[k].from
    <2>1. k - 1 \in 1 .. Len(words) /\ k \in 1 .. Len(words) /\ k - 1 < k
      OBVIOUS
    <2> DEFINE x == order[k - 1][2]  y == order[k][1]
    <2>2. x \in 1 .. Len(f) /\ y \in 1 .. Len(f) /\ x < y
      BY <1>2, <1>6, <2>1
    <2>3. ~ InWord(f, x + 1) /\ InWord(f, y)
      <3>1. order[k - 1] \in Runs(f) /\ order[k] \in Runs(f)
        BY <1>6, <2>1
      <3>2. y \in order[k][1] .. order[k][2]
        BY <1>6, <2>1
      <3> QED BY <3>1, <3>2, RunsForm
    <2> HIDE DEF x, y
    <2>4. x + 1 \in 2 .. Len(f) /\ (x + 1) - 1 = x /\ x + 1 \in 1 .. Len(f) /\ y \in x + 1 .. Len(f)
      BY <2>2
    <2>5. f[x].to <= f[x + 1].from
      <3>1. Follows(f[x], f[x + 1])
        BY <1>1, <2>4 DEF Ordered
      <3>2. f[x + 1].char # "n"
        BY <2>3, <2>4 DEF InWord, IsJoiner, Breaks
      <3> QED BY <3>1, <3>2 DEF Follows
    <2>6. f[x + 1].from <= f[y].from
      BY <1>1, <2>4, SpansMoveRight
    <2>7. f[x].to <= f[y].from
      <3>1. f[x].to \in Nat /\ f[x + 1].from \in Nat /\ f[y].from \in Nat
        BY <1>5, <2>2, <2>4
      <3> QED BY <2>5, <2>6, <3>1
    <2> QED BY <1>6, <2>1, <2>7 DEF x, y
  <1>9. SpansInOrder(t, words)
    BY <1>7, <1>8 DEF SpansInOrder
  <1>10. ASSUME NEW j \in 1 .. Len(f), InWord(f, j)
         PROVE  \E k \in 1 .. Len(words) : words[k].from <= f[j].from /\ f[j].to <= words[k].to
    <2>1. PICK r \in Runs(f) : j \in r[1] .. r[2]
      BY <1>1, <1>10, RunsCover
    <2>2. PICK k \in 1 .. Len(words) : order[k] = r
      BY <1>2, <1>3
    <2>3. r[1] \in 1 .. Len(f) /\ r[2] \in 1 .. Len(f) /\ j \in r[1] .. Len(f) /\ r[2] \in j .. Len(f)
      BY <1>1, <2>1, RunsForm
    <2>4. f[r[1]].from <= f[j].from /\ f[j].to <= f[r[2]].to
      BY <1>1, <2>3, SpansMoveRight
    <2> QED BY <1>6, <2>2, <2>4
  <1>11. SpansCover(f, words)
    BY <1>10 DEF SpansCover
  <1> QED BY <1>4, <1>9, <1>11 DEF f, words

\* Whatever the texts are, each is cut into the words it is defined to have, all of them and
\* in order, and every word is found again in the raw text, its joiners and marks included.
THEOREM WordsAsDefinedHolds == Spec => []WordsAsDefined
  <1>1. ASSUME TextsGiven PROVE WordsAsDefined
    <2> SUFFICES ASSUME NEW t \in {original, secondary}
                 PROVE  LET f == Folded(t.text) IN
                        /\ WordsInOrder(f, t.words)
                        /\ SpansInOrder(t.text, t.words)
                        /\ SpansCover(f, t.words)
      BY DEF WordsAsDefined
    <2>1. IsTranscript(t)
      BY <1>1 DEF TextsGiven
    <2>2. t.text \in Seq(Char) /\ t.words = Tokens(t.text)
      BY <2>1, TranscriptsWords DEF IsTranscript
    <2> QED BY <2>2, WordsFollow
  <1> QED BY <1>1, TextsGivenHold, PTL

-----------------------------------------------------------------------------
\* The excluded time: the segments in order, and the ranges they make.

Rank(S, r) == Cardinality({t \in S : Earlier(t, r)})

LEMMA RanksTellApart ==
    ASSUME NEW S, IsFiniteSet(S), S \subseteq Nat \X Nat
    PROVE  /\ \A r \in S : Rank(S, r) \in 0 .. Cardinality(S) - 1
           /\ \A r, t \in S : Earlier(r, t) => Rank(S, r) < Rank(S, t)
           /\ \A r, t \in S : r # t => Earlier(r, t) \/ Earlier(t, r)
           /\ \A r, t \in S : Rank(S, r) < Rank(S, t) => Earlier(r, t)
  <1> DEFINE Before(r) == {t \in S : Earlier(t, r)}
  <1>1. \A r \in S : /\ IsFiniteSet(Before(r)) /\ Cardinality(Before(r)) \in Nat
                     /\ Before(r) \in SUBSET S
    BY FS_Subset, FS_CardinalityType
  <1>2. \A r \in S : r[1] \in Nat /\ r[2] \in Nat /\ r = <<r[1], r[2]>>
    OBVIOUS
  <1>3. \A r \in S : ~ Earlier(r, r)
    BY <1>2 DEF Earlier
  <1>4. ASSUME NEW r \in S
        PROVE  Rank(S, r) \in 0 .. Cardinality(S) - 1
    <2>1. Before(r) # S
      BY <1>3
    <2>2. Cardinality(Before(r)) <= Cardinality(S) /\ Cardinality(Before(r)) # Cardinality(S)
      BY <1>1, <2>1, FS_Subset
    <2>3. Cardinality(S) \in Nat
      BY FS_CardinalityType
    <2> QED BY <1>1, <2>2, <2>3 DEF Rank
  <1>5. ASSUME NEW r \in S, NEW t \in S, Earlier(r, t)
        PROVE  Rank(S, r) < Rank(S, t)
    <2>1. Before(r) \in SUBSET Before(t)
      <3> SUFFICES ASSUME NEW x \in S, Earlier(x, r) PROVE Earlier(x, t)
        OBVIOUS
      <3> QED BY <1>2, <1>5 DEF Earlier
    <2>2. r \in Before(t) /\ r \notin Before(r)
      BY <1>3, <1>5
    <2>3. Cardinality(Before(r)) <= Cardinality(Before(t))
          /\ Cardinality(Before(r)) # Cardinality(Before(t))
      <3> HIDE DEF Before
      <3> QED BY <1>1, <2>1, <2>2, FS_Subset
    <2>4. Rank(S, r) \in Nat /\ Rank(S, t) \in Nat /\ Rank(S, r) <= Rank(S, t)
          /\ Rank(S, r) # Rank(S, t)
      BY <1>1, <2>3 DEF Rank
    <2> QED BY <2>4
  <1>6. \A r, t \in S : r # t => Earlier(r, t) \/ Earlier(t, r)
    BY <1>2 DEF Earlier
  <1>7. ASSUME NEW r \in S, NEW t \in S, Rank(S, r) < Rank(S, t)
        PROVE  Earlier(r, t)
    <2>1. Rank(S, r) \in Int /\ Rank(S, t) \in Int
      BY <1>4
    <2>2. r # t /\ ~ (Rank(S, t) < Rank(S, r))
      BY <1>7, <2>1
    <2> QED BY <1>5, <1>6, <2>2
  <1> QED BY <1>4, <1>5, <1>6, <1>7

\* Sorting keeps the segments, all of them, and puts them in order.
LEMMA SortedIs ==
    ASSUME NEW S, IsFiniteSet(S), S \subseteq Nat \X Nat
    PROVE  /\ Sorted(S) \in Seq(Nat \X Nat) /\ Len(Sorted(S)) \in Nat
           /\ {Sorted(S)[k] : k \in 1 .. Len(Sorted(S))} = S
           /\ \A j, k \in 1 .. Len(Sorted(S)) : j < k => Sorted(S)[j][1] <= Sorted(S)[k][1]
  <1> DEFINE n == Cardinality(S)
             rank == [r \in S |-> Rank(S, r)]
             q == Sorted(S)
  <1>1. n \in Nat
    BY FS_CardinalityType
  <1>2. \A r, t \in S : Rank(S, r) = Rank(S, t) => r = t
    <2> SUFFICES ASSUME NEW r \in S, NEW t \in S, Rank(S, r) = Rank(S, t), r # t PROVE FALSE
      OBVIOUS
    <2>1. Rank(S, r) \in Int /\ Rank(S, t) \in Int
      BY RanksTellApart
    <2>2. Rank(S, r) < Rank(S, t) \/ Rank(S, t) < Rank(S, r)
      BY RanksTellApart
    <2> QED BY <2>1, <2>2
  <1>3. rank \in Injection(S, 0 .. n - 1)
    <2>1. rank \in [S -> 0 .. n - 1]
      <3>1. \A r \in S : Rank(S, r) \in 0 .. n - 1
        BY RanksTellApart
      <3> QED BY <3>1
    <2>2. \A r, t \in S : rank[r] = rank[t] => r = t
      BY <1>2
    <2> HIDE DEF rank
    <2> QED BY <2>1, <2>2 DEF Injection, IsInjective
  <1>4. IsFiniteSet(0 .. n - 1) /\ Cardinality(0 .. n - 1) = n
    <2>1. 0 \in Int /\ n - 1 \in Int /\ (n - 1) - 0 + 1 = n
      BY <1>1
    <2>2. Cardinality(0 .. n - 1) = IF 0 > n - 1 THEN 0 ELSE (n - 1) - 0 + 1
      BY <2>1, FS_Interval
    <2> QED BY <1>1, <2>1, <2>2, FS_Interval
  <1>5. rank \in Surjection(S, 0 .. n - 1)
    BY <1>3, <1>4, FS_Injection
  <1>6. \A k \in 1 .. n : \E r \in S : Rank(S, r) = k - 1
    <2> TAKE k \in 1 .. n
    <2>1. k - 1 \in 0 .. n - 1
      BY <1>1
    <2> QED BY <1>5, <2>1 DEF Surjection
  <1>7. q = [k \in 1 .. n |-> CHOOSE r \in S : Rank(S, r) = k - 1]
    BY DEF Sorted, Rank
  <1>8. \A k \in 1 .. n : q[k] \in S /\ Rank(S, q[k]) = k - 1
    <2> TAKE k \in 1 .. n
    <2>1. q[k] = CHOOSE r \in S : Rank(S, r) = k - 1
      BY <1>7
    <2>2. \E r \in S : Rank(S, r) = k - 1
      BY <1>6
    <2> HIDE DEF q
    <2> QED BY <2>1, <2>2
  <1>9. q \in [1 .. n -> S]
    BY <1>7, <1>8
  <1>10. q \in Seq(Nat \X Nat) /\ Len(q) = n
    <2>1. q \in [1 .. n -> Nat \X Nat]
      BY <1>9
    <2> HIDE DEF q
    <2> QED BY <1>1, <2>1
  <1>11. ASSUME NEW r \in S
         PROVE  \E k \in 1 .. n : q[k] = r
    <2>1. Rank(S, r) \in 0 .. n - 1
      BY RanksTellApart
    <2>2. Rank(S, r) + 1 \in 1 .. n /\ (Rank(S, r) + 1) - 1 = Rank(S, r)
      BY <1>1, <2>1
    <2>3. q[Rank(S, r) + 1] \in S /\ Rank(S, q[Rank(S, r) + 1]) = Rank(S, r)
      BY <1>8, <2>2
    <2> HIDE DEF q
    <2> QED BY <1>2, <2>2, <2>3
  <1>12. ASSUME NEW j \in 1 .. n, NEW k \in 1 .. n, j < k
         PROVE  q[j][1] <= q[k][1]
    <2>1. Rank(S, q[j]) < Rank(S, q[k])
      BY <1>8, <1>12
    <2>2. q[j] \in S /\ q[k] \in S /\ Earlier(q[j], q[k])
      BY <1>8, <2>1, RanksTellApart
    <2> HIDE DEF q
    <2>3. q[j][1] \in Nat /\ q[k][1] \in Nat
      BY <2>2
    <2> QED BY <2>2, <2>3 DEF Earlier
  <1>13. {q[k] : k \in 1 .. n} = S
    <2> HIDE DEF q
    <2> QED BY <1>8, <1>11
  <1> HIDE DEF n
  <1> QED BY <1>1, <1>10, <1>12, <1>13

\* The merging is well-founded, so that its equations hold.
LEMMA MergedToIs ==
    ASSUME NEW raw, Len(raw) \in Nat
    PROVE  /\ MergedTo(raw)[0] = <<>>
           /\ \A k \in 1 .. Len(raw) : MergedTo(raw)[k] = Absorb(MergedTo(raw)[k - 1], raw[k])
  <1> DEFINE Is(p, n) == p = [k \in 0 .. n |-> IF k = 0 THEN <<>> ELSE Absorb(p[k - 1], raw[k])]
             S == {n \in Nat : \E p : Is(p, n)}
  <1>1. 0 \in S
    <2> DEFINE p == [k \in 0 .. 0 |-> <<>>]
    <2>1. Is(p, 0)
      OBVIOUS
    <2> QED BY <2>1
  <1>2. ASSUME NEW n \in Nat, NEW q, Is(q, n)
        PROVE  \E p : Is(p, n + 1)
    <2> DEFINE p == [k \in 0 .. n + 1 |-> IF k \in 0 .. n THEN q[k] ELSE Absorb(q[n], raw[n + 1])]
    <2>1. ASSUME NEW k \in 0 .. n + 1
          PROVE  p[k] = IF k = 0 THEN <<>> ELSE Absorb(p[k - 1], raw[k])
      <3>1. CASE k = 0
        BY <1>2, <3>1
      <3>2. CASE k \in 1 .. n
        <4>1. k - 1 \in 0 .. n /\ k \in 0 .. n
          BY <3>2
        <4>2. q[k] = Absorb(q[k - 1], raw[k])
          BY <1>2, <3>2, <4>1
        <4> QED BY <3>2, <4>1, <4>2
      <3>3. CASE k = n + 1
        <4>1. k - 1 = n /\ n \in 0 .. n /\ k \notin 0 .. n /\ k # 0
          BY <3>3
        <4> QED BY <3>3, <4>1
      <3> QED BY <3>1, <3>2, <3>3
    <2>2. Is(p, n + 1)
      BY <2>1
    <2> QED BY <2>2
  <1> HIDE DEF Is
  <1>3. ASSUME NEW k \in 1 .. Len(raw), k - 1 \in S
        PROVE  k \in S
    <2>1. k - 1 \in Nat /\ (k - 1) + 1 = k
      OBVIOUS
    <2>2. PICK q : Is(q, k - 1)
      BY <1>3
    <2>3. \E p : Is(p, (k - 1) + 1)
      BY <1>2, <2>1, <2>2
    <2> QED BY <2>1, <2>3
  <1>4. Len(raw) \in S
    <2> HIDE DEF S
    <2>1. \A k \in 0 .. Len(raw) : k \in S
      BY <1>1, <1>3, Induction
    <2> QED BY <2>1
  <1>5. PICK q : Is(q, Len(raw))
    BY <1>4
  <1>6. Is(MergedTo(raw), Len(raw))
    BY <1>5 DEF MergedTo, Is
  <1> QED BY <1>6 DEF Is

\* The millisecond is in one of the first n ranges.
Within(q, n, x) == \E k \in 1 .. n : x \in Covered(q[k])

\* Ranges in order, none of them empty, with a gap between any two.
Apart(q) ==
    /\ q \in Seq(Nat \X Nat)
    /\ \A k \in 1 .. Len(q) : q[k][1] < q[k][2]
    /\ \A k \in 2 .. Len(q) : q[k - 1][2] < q[k][1]

\* Segments in order.
InOrder(raw) ==
    /\ raw \in Seq(Nat \X Nat)
    /\ \A k \in 1 .. Len(raw) : raw[k][1] < raw[k][2]
    /\ \A j, k \in 1 .. Len(raw) : j < k => raw[j][1] <= raw[k][1]

\* What the first k segments have been merged into.
MergedAt(raw, q, k) ==
    /\ Apart(q)
    /\ \A x \in Int : Within(q, Len(q), x) <=> Within(raw, k, x)
    /\ q # <<>> => \A j \in k + 1 .. Len(raw) : Last(q)[1] <= raw[j][1]

\* One more segment covers what it covers, whether it grows the last range or begins one.
LEMMA WithinOneMore ==
    ASSUME NEW q, NEW n \in Nat, NEW x
    PROVE  Within(q, n + 1, x) <=> Within(q, n, x) \/ x \in Covered(q[n + 1])
  <1>1. 1 .. n + 1 = (1 .. n) \cup {n + 1}
    OBVIOUS
  <1> QED BY <1>1 DEF Within

LEMMA AbsorbKeeps ==
    ASSUME NEW raw, InOrder(raw), NEW k \in 1 .. Len(raw), NEW q, MergedAt(raw, q, k - 1)
    PROVE  MergedAt(raw, Absorb(q, raw[k]), k)
  <1> DEFINE t == raw[k]  n == Len(q)  p == Absorb(q, t)
  <1>1. /\ q \in Seq(Nat \X Nat) /\ n \in Nat /\ Len(raw) \in Nat
        /\ t \in Nat \X Nat /\ t[1] \in Nat /\ t[2] \in Nat /\ t[1] < t[2]
        /\ \A i \in 1 .. n : /\ q[i] \in Nat \X Nat /\ q[i][1] \in Nat /\ q[i][2] \in Nat
                             /\ q[i][1] < q[i][2]
        /\ \A i \in 2 .. n : q[i - 1][2] < q[i][1]
    <2>1. \A r \in Nat \X Nat : r[1] \in Nat /\ r[2] \in Nat
      OBVIOUS
    <2>2. q \in Seq(Nat \X Nat) /\ n \in Nat
      BY DEF MergedAt, Apart
    <2>3. Len(raw) \in Nat /\ t \in Nat \X Nat /\ t[1] < t[2]
      BY DEF InOrder
    <2>4. \A i \in 1 .. n : q[i] \in Nat \X Nat
      BY <2>2
    <2>5. /\ \A i \in 1 .. n : q[i][1] < q[i][2]
          /\ \A i \in 2 .. n : q[i - 1][2] < q[i][1]
      BY DEF MergedAt, Apart
    <2> HIDE DEF t, n
    <2> QED BY <2>1, <2>2, <2>3, <2>4, <2>5
  <1>2. \A x \in Int : Within(raw, k, x) <=> Within(q, n, x) \/ x \in Covered(t)
    <2>1. k - 1 \in Nat /\ (k - 1) + 1 = k
      OBVIOUS
    <2>2. \A x : Within(raw, (k - 1) + 1, x) <=> Within(raw, k - 1, x) \/ x \in Covered(raw[(k - 1) + 1])
      BY <2>1, WithinOneMore
    <2> QED BY <2>1, <2>2 DEF MergedAt
  <1>3. \A j \in k + 1 .. Len(raw) : t[1] <= raw[j][1]
    BY <1>1 DEF InOrder
  <1>4. CASE q # <<>> /\ Touches(Last(q), t)
    <2> DEFINE last == <<q[n][1], Larger(q[n][2], t[2])>>
    <2>1. n \in 1 .. n
      BY <1>1, <1>4
    <2>2. q[n][1] <= t[1] /\ t[1] <= q[n][2]
      <3>1. k \in (k - 1) + 1 .. Len(raw)
        OBVIOUS
      <3> QED BY <1>4, <3>1 DEF MergedAt, Last, Touches
    <2>3. /\ last \in Nat \X Nat /\ last[1] = q[n][1] /\ last[2] = Larger(q[n][2], t[2])
          /\ last[2] \in Nat /\ last[1] < last[2]
      BY <1>1, <2>1 DEF Larger
    <2>4. p = [q EXCEPT ![n] = last]
      BY <1>4 DEF Absorb
    <2>5. /\ p \in Seq(Nat \X Nat) /\ Len(p) = n /\ p # <<>> /\ p[n] = last
          /\ \A i \in 1 .. n : i # n => p[i] = q[i]
      <3> HIDE DEF p, last
      <3> QED BY <1>1, <2>1, <2>3, <2>4
    <2>6. \A x \in Int : x \in Covered(last) <=> x \in Covered(q[n]) \/ x \in Covered(t)
      <3>1. q[n][1] \in Nat /\ q[n][2] \in Nat /\ q[n][1] < q[n][2]
        BY <1>1, <2>1
      <3> HIDE DEF last
      <3> QED BY <1>1, <2>2, <2>3, <3>1 DEF Covered, Larger
    <2> HIDE DEF p, last
    <2>7. Apart(p)
      <3>1. \A i \in 1 .. n : p[i][1] < p[i][2] /\ p[i][1] = q[i][1]
        BY <1>1, <2>3, <2>5
      <3>2. ASSUME NEW i \in 2 .. n PROVE p[i - 1][2] < p[i][1]
        <4>1. i - 1 \in 1 .. n /\ i - 1 # n /\ i \in 1 .. n
          BY <1>1
        <4> QED BY <1>1, <2>5, <3>1, <4>1
      <3> QED BY <2>5, <3>1, <3>2 DEF Apart
    <2>8. ASSUME NEW x \in Int
          PROVE  Within(p, n, x) <=> Within(raw, k, x)
      <3>1. Within(p, n, x) <=> Within(q, n, x) \/ x \in Covered(t)
        BY <2>1, <2>5, <2>6 DEF Within
      <3> QED BY <1>2, <3>1
    <2>9. \A j \in k + 1 .. Len(raw) : Last(p)[1] <= raw[j][1]
      <3>1. \A j \in k + 1 .. Len(raw) : j \in (k - 1) + 1 .. Len(raw)
        OBVIOUS
      <3>2. \A j \in k + 1 .. Len(raw) : q[n][1] <= raw[j][1]
        BY <1>4, <3>1 DEF MergedAt, Last
      <3> QED BY <2>3, <2>5, <3>2 DEF Last
    <2> QED BY <2>5, <2>7, <2>8, <2>9 DEF MergedAt, p
  <1>5. CASE ~ (q # <<>> /\ Touches(Last(q), t))
    <2>1. p = Append(q, t)
      BY <1>5 DEF Absorb
    <2>2. /\ p \in Seq(Nat \X Nat) /\ Len(p) = n + 1 /\ p # <<>> /\ p[n + 1] = t
          /\ \A i \in 1 .. n : p[i] = q[i]
      <3>1. q \in Seq(Nat \X Nat) /\ t \in Nat \X Nat /\ n \in Nat
        BY <1>1
      <3> HIDE DEF p, t
      <3>2. p \in Seq(Nat \X Nat)
        BY <2>1, <3>1
      <3>3. Len(p) = n + 1 /\ p[n + 1] = t /\ \A i \in 1 .. n : p[i] = q[i]
        BY <2>1, <3>1
      <3>4. p # <<>>
        BY <3>1, <3>3
      <3> QED BY <3>2, <3>3, <3>4
    <2> HIDE DEF p
    <2>3. Apart(p)
      <3>1. ASSUME NEW i \in 1 .. n + 1 PROVE p[i][1] < p[i][2]
        <4>1. i \in 1 .. n \/ i = n + 1
          BY <1>1
        <4> HIDE DEF t
        <4> QED BY <1>1, <2>2, <4>1
      <3>2. ASSUME NEW i \in 2 .. n + 1 PROVE p[i - 1][2] < p[i][1]
        <4>1. CASE i \in 2 .. n
          <5>1. i - 1 \in 1 .. n /\ i \in 1 .. n
            <6>1. n \in Nat
              BY <1>1
            <6> HIDE DEF n
            <6> QED BY <4>1, <6>1
          <5> QED BY <1>1, <2>2, <4>1, <5>1
        <4>2. CASE i = n + 1
          <5>1. n \in 1 .. n /\ i - 1 = n /\ q # <<>>
            <6>1. n \in Nat /\ n + 1 \in 2 .. n + 1
              BY <1>1, <4>2
            <6>2. n \in 1 .. n /\ i - 1 = n
              BY <4>2, <6>1
            <6> QED BY <1>1, <6>2
          <5>2. ~ (t[1] <= q[n][2])
            BY <1>5, <5>1 DEF Touches, Last
          <5>3. q[n][2] \in Nat
            BY <1>1, <5>1
          <5> HIDE DEF t
          <5> QED BY <1>1, <2>2, <4>2, <5>1, <5>2, <5>3
        <4>3. i \in 2 .. n \/ i = n + 1
          BY <1>1
        <4> QED BY <4>1, <4>2, <4>3
      <3> QED BY <2>2, <3>1, <3>2 DEF Apart
    <2>4. ASSUME NEW x \in Int
          PROVE  Within(p, n + 1, x) <=> Within(raw, k, x)
      <3>1. Within(p, n + 1, x) <=> Within(p, n, x) \/ x \in Covered(t)
        BY <1>1, <2>2, WithinOneMore
      <3>2. Within(p, n, x) <=> Within(q, n, x)
        BY <2>2 DEF Within
      <3> QED BY <1>2, <3>1, <3>2
    <2>5. \A j \in k + 1 .. Len(raw) : Last(p)[1] <= raw[j][1]
      BY <1>3, <2>2 DEF Last
    <2> QED BY <2>2, <2>3, <2>4, <2>5 DEF MergedAt, p
  <1> QED BY <1>4, <1>5

\* The ranges cover what the segments cover, whatever the segments are.
LEMMA BadQualityMerges ==
    ASSUME NEW S, IsFiniteSet(S), S \subseteq Nat \X Nat, \A r \in S : r[1] < r[2]
    PROVE  /\ Apart(BadQuality(S))
           /\ UNION {Covered(r) : r \in S}
                = UNION {Covered(BadQuality(S)[k]) : k \in 1 .. Len(BadQuality(S))}
  <1> DEFINE raw == Sorted(S)  n == Len(raw)
             Done == {k \in 0 .. n : MergedAt(raw, MergedTo(raw)[k], k)}
             q == MergedTo(raw)[n]
  <1>1. InOrder(raw) /\ n \in Nat /\ {raw[k] : k \in 1 .. n} = S
    <2>1. \A k \in 1 .. n : raw[k] \in S
      BY SortedIs
    <2> QED BY <2>1, SortedIs DEF InOrder
  <1> HIDE DEF raw
  <1>2. 0 \in Done
    <2>1. Apart(<<>>)
      BY DEF Apart
    <2>2. \A x : ~ Within(<<>>, 0, x) /\ ~ Within(raw, 0, x)
      BY DEF Within
    <2>3. MergedAt(raw, <<>>, 0)
      BY <2>1, <2>2 DEF MergedAt
    <2> QED BY <1>1, <2>3, MergedToIs
  <1>3. ASSUME NEW k \in 1 .. n, k - 1 \in Done
        PROVE  k \in Done
    <2>1. k \in 0 .. n /\ MergedAt(raw, MergedTo(raw)[k - 1], k - 1)
      BY <1>3
    <2>2. MergedTo(raw)[k] = Absorb(MergedTo(raw)[k - 1], raw[k])
      BY <1>1, MergedToIs
    <2> QED BY <1>1, <2>1, <2>2, AbsorbKeeps
  <1>4. MergedAt(raw, q, n)
    <2>1. n \in 0 .. n /\ \A k \in 0 .. n : k \in Done
      <3> HIDE DEF Done
      <3> QED BY <1>1, <1>2, <1>3, Induction
    <2> QED BY <2>1
  <1>5. BadQuality(S) = q
    BY DEF BadQuality, raw
  <1> HIDE DEF q
  <1>6. \A r \in Nat \X Nat : Covered(r) \subseteq Int
    BY DEF Covered
  <1>7. UNION {Covered(r) : r \in S} = {x \in Int : Within(raw, n, x)}
    <2>1. UNION {Covered(r) : r \in S} \subseteq Int
      BY <1>6
    <2>2. \A x : x \in UNION {Covered(r) : r \in S} <=> Within(raw, n, x)
      BY <1>1 DEF Within
    <2> QED BY <2>1, <2>2
  <1>8. UNION {Covered(q[k]) : k \in 1 .. Len(q)} = {x \in Int : Within(q, Len(q), x)}
    <2>1. \A k \in 1 .. Len(q) : q[k] \in Nat \X Nat
      BY <1>4 DEF MergedAt, Apart
    <2>2. UNION {Covered(q[k]) : k \in 1 .. Len(q)} \subseteq Int
      BY <1>6, <2>1
    <2>3. \A x : x \in UNION {Covered(q[k]) : k \in 1 .. Len(q)} <=> Within(q, Len(q), x)
      BY DEF Within
    <2> QED BY <2>2, <2>3
  <1> QED BY <1>4, <1>5, <1>7, <1>8 DEF MergedAt

LEMMA RangesAreNumbers ==
    ASSUME NEW q, Apart(q)
    PROVE  /\ Len(q) \in Nat
           /\ \A k \in 1 .. Len(q) : /\ q[k] \in Nat \X Nat /\ q[k] = <<q[k][1], q[k][2]>>
                                     /\ q[k][1] \in Nat /\ q[k][2] \in Nat /\ q[k][1] < q[k][2]
  <1>1. \A r \in Nat \X Nat : r[1] \in Nat /\ r[2] \in Nat /\ r = <<r[1], r[2]>>
    OBVIOUS
  <1> QED BY <1>1 DEF Apart

\* There is a gap between any two ranges, not only between neighbours.
LEMMA GapsBetweenAny ==
    ASSUME NEW q, Apart(q), NEW j \in 1 .. Len(q), NEW k \in j + 1 .. Len(q)
    PROVE  q[j][2] < q[k][1]
  <1> DEFINE S == {d \in Nat : j + d + 1 <= Len(q) => q[j][2] < q[j + d + 1][1]}
  <1>1. Len(q) \in Nat /\ \A i \in 2 .. Len(q) : q[i - 1][2] < q[i][1]
    BY RangesAreNumbers DEF Apart
  <1>2. 0 \in S
    <2>1. j + 0 + 1 <= Len(q) => j + 0 + 1 \in 2 .. Len(q) /\ (j + 0 + 1) - 1 = j
      BY <1>1
    <2> QED BY <1>1, <2>1
  <1>3. ASSUME NEW d \in 1 .. Len(q), d - 1 \in S
        PROVE  d \in S
    <2> SUFFICES ASSUME j + d + 1 <= Len(q) PROVE q[j][2] < q[j + d + 1][1]
      OBVIOUS
    <2> DEFINE m == j + d
    <2>1. /\ m \in 1 .. Len(q) /\ m + 1 \in 2 .. Len(q) /\ (m + 1) - 1 = m /\ m + 1 \in 1 .. Len(q)
          /\ j + (d - 1) + 1 = m /\ j + d + 1 = m + 1
      BY <1>1
    <2>2. q[j][2] < q[m][1] /\ q[m][2] < q[m + 1][1]
      BY <1>1, <1>3, <2>1
    <2> HIDE DEF m
    <2>3. q[j][2] \in Nat /\ q[m][1] \in Nat /\ q[m][2] \in Nat /\ q[m + 1][1] \in Nat /\ q[m][1] < q[m][2]
      BY <2>1, RangesAreNumbers
    <2>4. q[j][2] < q[m + 1][1]
      <3>1. PICK a \in Nat, b \in Nat, c \in Nat, e \in Nat :
                /\ a = q[j][2] /\ b = q[m][1] /\ c = q[m][2] /\ e = q[m + 1][1]
        BY <2>3
      <3>2. a < b /\ b < c /\ c < e
        BY <2>2, <2>3, <3>1
      <3>3. a < e
        BY <3>2
      <3> QED BY <3>1, <3>3
    <2> QED BY <2>1, <2>4
  <1>4. \A d \in 0 .. Len(q) : d \in S
    <2> HIDE DEF S
    <2> QED BY <1>1, <1>2, <1>3, Induction
  <1>5. (k - j) - 1 \in 0 .. Len(q) /\ j + ((k - j) - 1) + 1 = k
    BY <1>1
  <1>6. (k - j) - 1 \in S
    BY <1>4, <1>5
  <1>7. k <= Len(q)
    BY <1>1
  <1> QED BY <1>5, <1>6, <1>7

\* Of two sequences of ranges that cover the same and begin alike, the one reaches as far as
\* the other, and its next range begins no later.
LEMMA NextBeginsNoLater ==
    ASSUME NEW p, NEW q, Apart(p), Apart(q),
           \A x \in Int : Within(p, Len(p), x) => Within(q, Len(q), x),
           NEW k \in 1 .. Len(p), \A j \in 1 .. k - 1 : j <= Len(q) /\ p[j] = q[j]
    PROVE  k <= Len(q) /\ q[k][1] <= p[k][1]
  <1> DEFINE x == p[k][1]
  <1>1. x \in Int /\ Within(p, Len(p), x)
    BY RangesAreNumbers DEF Within, Covered
  <1>2. PICK m \in 1 .. Len(q) : x \in Covered(q[m])
    BY <1>1 DEF Within
  <1>3. q[m][1] \in Nat /\ q[m][2] \in Nat /\ q[m][1] <= x /\ x < q[m][2] /\ Len(q) \in Nat
    BY <1>2, RangesAreNumbers DEF Covered
  <1>4. m >= k
    <2> SUFFICES ASSUME m < k PROVE FALSE
      OBVIOUS
    <2>1. m \in 1 .. k - 1 /\ k \in m + 1 .. Len(p) /\ m \in 1 .. Len(p)
      BY RangesAreNumbers
    <2>2. p[m] = q[m] /\ p[m][2] < x
      BY <2>1, GapsBetweenAny
    <2> QED BY <1>1, <1>3, <2>2
  <1>5. k \in 1 .. Len(q)
    BY <1>3, <1>4
  <1>6. CASE m = k
    BY <1>3, <1>5, <1>6
  <1>7. CASE m > k
    <2>1. m \in k + 1 .. Len(q)
      BY <1>7
    <2>2. q[k][2] < q[m][1] /\ q[k][1] \in Nat /\ q[k][2] \in Nat /\ q[k][1] < q[k][2]
      BY <1>5, <2>1, GapsBetweenAny, RangesAreNumbers
    <2> HIDE DEF x
    <2>3. q[k][1] <= x
      BY <1>1, <1>3, <2>2
    <2> QED BY <1>5, <2>3 DEF x
  <1> QED BY <1>4, <1>6, <1>7

\* Nor does a range that begins with another one end later.
LEMMA EndsNoLater ==
    ASSUME NEW p, NEW q, Apart(p), Apart(q),
           \A x \in Int : Within(p, Len(p), x) => Within(q, Len(q), x),
           NEW k \in 1 .. Len(p), k <= Len(q), p[k][1] = q[k][1]
    PROVE  p[k][2] <= q[k][2]
  <1> DEFINE x == q[k][2]
  <1>1. /\ k \in 1 .. Len(q) /\ p[k][1] \in Nat /\ p[k][2] \in Nat /\ x \in Nat /\ x \in Int
        /\ q[k][1] < x
    BY RangesAreNumbers
  <1> SUFFICES ASSUME x < p[k][2] PROVE FALSE
    BY <1>1
  <1>2. Within(p, Len(p), x)
    BY <1>1 DEF Within, Covered
  <1>3. PICK m \in 1 .. Len(q) : x \in Covered(q[m])
    BY <1>1, <1>2 DEF Within
  <1>4. q[m][1] \in Nat /\ q[m][2] \in Nat /\ q[m][1] <= x /\ x < q[m][2]
    BY <1>3, RangesAreNumbers DEF Covered
  <1>5. m # k
    BY <1>1, <1>4
  <1>6. CASE m < k
    <2>1. k \in m + 1 .. Len(q)
      BY <1>1, <1>6
    <2>2. q[m][2] < q[k][1] /\ q[k][1] \in Nat
      BY <1>1, <2>1, GapsBetweenAny, RangesAreNumbers
    <2> HIDE DEF x
    <2> QED BY <1>1, <1>4, <2>2
  <1>7. CASE m > k
    <2>1. m \in k + 1 .. Len(q)
      BY <1>7
    <2>2. x < q[m][1]
      BY <1>1, <2>1, GapsBetweenAny
    <2> HIDE DEF x
    <2> QED BY <1>1, <1>4, <2>2
  <1> QED BY <1>5, <1>6, <1>7

\* There is one way only to write a set of milliseconds as ranges that lie apart.
LEMMA OneSetOfRanges ==
    ASSUME NEW p, NEW q, Apart(p), Apart(q),
           \A x \in Int : Within(p, Len(p), x) <=> Within(q, Len(q), x)
    PROVE  Len(p) = Len(q) /\ \A k \in 1 .. Len(p) : p[k] = q[k]
  <1> DEFINE S == {k \in 0 .. Len(p) : \A j \in 1 .. k : j <= Len(q) /\ p[j] = q[j]}
  <1>1. Len(p) \in Nat /\ Len(q) \in Nat
    BY RangesAreNumbers
  <1>2. 0 \in S
    BY <1>1
  <1>3. ASSUME NEW k \in 1 .. Len(p), k - 1 \in S
        PROVE  k \in S
    <2>1. \A j \in 1 .. k - 1 : j <= Len(q) /\ p[j] = q[j]
      BY <1>3
    <2>2. k <= Len(q) /\ q[k][1] <= p[k][1]
      BY <2>1, NextBeginsNoLater
    <2>3. k \in 1 .. Len(q) /\ \A j \in 1 .. k - 1 : j <= Len(p) /\ q[j] = p[j]
      BY <1>1, <2>1, <2>2
    <2>4. p[k][1] <= q[k][1]
      BY <2>3, NextBeginsNoLater
    <2>5. /\ p[k][1] \in Nat /\ p[k][2] \in Nat /\ q[k][1] \in Nat /\ q[k][2] \in Nat
          /\ p[k] = <<p[k][1], p[k][2]>> /\ q[k] = <<q[k][1], q[k][2]>>
      BY <2>3, RangesAreNumbers
    <2>6. p[k][1] = q[k][1]
      BY <2>2, <2>4, <2>5
    <2>7. p[k][2] <= q[k][2] /\ q[k][2] <= p[k][2]
      BY <1>1, <2>2, <2>3, <2>6, EndsNoLater
    <2>8. p[k] = q[k]
      BY <2>5, <2>6, <2>7
    <2>9. \A j \in 1 .. k : j \in 1 .. k - 1 \/ j = k
      OBVIOUS
    <2> QED BY <1>1, <2>1, <2>2, <2>8, <2>9
  <1>4. \A k \in 0 .. Len(p) : k \in S
    <2> HIDE DEF S
    <2> QED BY <1>1, <1>2, <1>3, Induction
  <1>5. \A k \in 1 .. Len(p) : k <= Len(q) /\ p[k] = q[k]
    BY <1>1, <1>4
  <1>6. Len(p) <= Len(q)
    BY <1>1, <1>5
  <1>7. Len(q) <= Len(p)
    <2> SUFFICES ASSUME Len(p) < Len(q) PROVE FALSE
      BY <1>1
    <2>1. Len(p) + 1 \in 1 .. Len(q) /\ (Len(p) + 1) - 1 = Len(p)
      BY <1>1
    <2>2. \A j \in 1 .. (Len(p) + 1) - 1 : j <= Len(p) /\ q[j] = p[j]
      BY <1>1, <1>5
    <2>3. Len(p) + 1 <= Len(p)
      BY <2>1, <2>2, NextBeginsNoLater
    <2> QED BY <1>1, <2>3
  <1> QED BY <1>1, <1>5, <1>6, <1>7

\* What a verdict says of the excluded time is what the ranges say.
LEMMA ConflictIsJudged ==
    ASSUME WordInv, stage = "done", "bad_quality_conflict" \in result.reasons
    PROVE  BadQualityConflict(BadQuality(original.excluded), BadQuality(secondary.excluded))
  <1>1. "bad_quality_conflict" \in PlainReasons
    BY DEF WordInv, DoneAt, Unavailable, Verdict
  <1> QED BY <1>1 DEF PlainReasons

LEMMA ExcludedTimeFollows ==
    ASSUME TextsGiven, WordInv PROVE ExcludedTimeExact
  <1>1. ASSUME NEW t \in {original, secondary}
        PROVE  /\ Apart(BadQuality(t.excluded))
               /\ UNION {Covered(r) : r \in t.excluded}
                    = UNION {Covered(BadQuality(t.excluded)[k]) : k \in 1 .. Len(BadQuality(t.excluded))}
    <2>1. IsTranscript(t)
      BY DEF TextsGiven
    <2>2. /\ IsFiniteSet(t.excluded) /\ t.excluded \subseteq Nat \X Nat
          /\ \A r \in t.excluded : r[1] < r[2]
      BY <2>1 DEF IsTranscript
    <2> QED BY <2>2, BadQualityMerges
  <1>2. UnionExact
    BY <1>1 DEF UnionExact, Apart
  <1>3. CutsDoNotConflict
    <2> SUFFICES ASSUME stage = "done", "bad_quality_conflict" \in result.reasons,
                        UNION {Covered(r) : r \in original.excluded}
                          = UNION {Covered(r) : r \in secondary.excluded}
                 PROVE  FALSE
      BY DEF CutsDoNotConflict
    <2> DEFINE p == BadQuality(original.excluded)  q == BadQuality(secondary.excluded)
    <2>1. BadQualityConflict(p, q)
      BY ConflictIsJudged
    <2>2. /\ Apart(p) /\ Apart(q)
          /\ UNION {Covered(p[k]) : k \in 1 .. Len(p)} = UNION {Covered(q[k]) : k \in 1 .. Len(q)}
      BY <1>1
    <2> HIDE DEF p, q
    <2>3. \A x \in Int : Within(p, Len(p), x) <=> Within(q, Len(q), x)
      <3>1. \A x : /\ Within(p, Len(p), x) <=> x \in UNION {Covered(p[k]) : k \in 1 .. Len(p)}
                   /\ Within(q, Len(q), x) <=> x \in UNION {Covered(q[k]) : k \in 1 .. Len(q)}
        BY DEF Within
      <3> QED BY <2>2, <3>1
    <2>4. Len(p) = Len(q) /\ \A k \in 1 .. Len(p) : p[k] = q[k]
      BY <2>2, <2>3, OneSetOfRanges
    <2>5. \A k \in 1 .. Len(p) : p[k][1] \in Nat /\ p[k][2] \in Nat
      BY <2>2, RangesAreNumbers
    <2>6. \A n \in Nat : Near(n, n)
      BY DEF Near
    <2> QED BY <2>1, <2>4, <2>5, <2>6 DEF BadQualityConflict
  <1> QED BY <1>2, <1>3 DEF ExcludedTimeExact

\* However the excluded milliseconds of a transcript are cut into segments, the merged ranges
\* cover them and no others with a gap between any two, and two transcripts that leave out
\* the same milliseconds never disagree about them.
THEOREM ExcludedTimeExactHolds == Spec => []ExcludedTimeExact
  <1>1. TextsGiven /\ WordInv => ExcludedTimeExact
    BY ExcludedTimeFollows
  <1> QED BY <1>1, TextsGivenHold, WordInvHolds, PTL
=============================================================================

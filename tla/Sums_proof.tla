----------------------------- MODULE Sums_proof -----------------------------
(***************************************************************************)
(* Facts about Sum: what it is for the empty set, what one element adds,   *)
(* and how sums compare.  Sum is a fold, and a fold is a recursive         *)
(* function over the subsets of a set; that this function exists is shown  *)
(* here by induction on their size.                                        *)
(***************************************************************************)
EXTENDS Sums, FiniteSetTheorems, WellFoundedInduction, NaturalsInduction, TLAPS

-----------------------------------------------------------------------------
(* Induction                                                               *)

\* A set with 0 and with the successor of each of its members has every
\* natural number.
LEMMA Induction ==
    ASSUME NEW P, 0 \in P, \A n \in Nat : n \in P => n + 1 \in P
    PROVE  \A n \in Nat : n \in P
<1> DEFINE R == OpToRel(<, Nat)
           S == Nat \ P
<1>1. ASSUME S # {} PROVE \E x \in S : \A y \in S : ~(<<y, x>> \in R)
  <2>1. IsWellFoundedOn(R, Nat)
    BY NatLessThanWellFounded
  <2>2. S \subseteq Nat /\ S # {}
    BY <1>1
  <2> HIDE DEF R, S
  <2>3. QED
    BY <2>1, <2>2, WFMin, Zenon
<1>2. \A x, y \in Nat : y < x => <<y, x>> \in R
  BY DEF OpToRel
<1> HIDE DEF R
<1>3. ASSUME S # {} PROVE FALSE
  <2>1. PICK x \in S : \A y \in S : ~(<<y, x>> \in R)
    BY <1>1, <1>3
  <2>2. x \in Nat /\ x \notin P /\ x # 0
    BY <2>1
  <2>3. x - 1 \in Nat /\ x - 1 < x /\ (x - 1) + 1 = x
    BY <2>2
  <2>4. x - 1 \notin P
    BY <2>2, <2>3
  <2>5. QED
    BY <1>2, <2>1, <2>2, <2>3, <2>4
<1>4. QED
  BY <1>3

\* A set of naturals has a least element: Min returns a member.
LEMMA MinIsMember ==
    ASSUME NEW S, S \subseteq Nat, S # {}
    PROVE  Min(S) \in S
<1> DEFINE R == OpToRel(<, Nat)
<1>1. \E x \in S : \A y \in S : ~(<<y, x>> \in R)
  <2>1. IsWellFoundedOn(R, Nat)
    BY NatLessThanWellFounded
  <2>2. QED
    BY <2>1, WFMin, Zenon
<1>2. \A x, y \in Nat : y < x => <<y, x>> \in R
  BY DEF OpToRel
<1> HIDE DEF R
<1>3. PICK x \in S : \A y \in S : ~(<<y, x>> \in R)
  BY <1>1, Zenon
<1>4. ASSUME NEW y \in S PROVE x <= y
  <2>1. x \in Nat /\ y \in Nat /\ ~(y < x)
    BY <1>2, <1>3
  <2>2. QED
    BY <2>1
<1>5. QED
  BY <1>4 DEF Min

\* A property of the empty set that survives adding an element holds for a
\* finite set.
LEMMA SetInduction ==
    ASSUME NEW T, IsFiniteSet(T), NEW P, {} \in P,
           \A s \in SUBSET T : s \in P => \A x \in T \ s : s \cup {x} \in P
    PROVE  T \in P
<1> DEFINE Q == {n \in Nat : \A s \in SUBSET T : Cardinality(s) = n => s \in P}
<1>1. \A s \in SUBSET T : IsFiniteSet(s) /\ Cardinality(s) \in Nat
  BY FS_Subset, FS_CardinalityType
<1>2. 0 \in Q
  <2>1. \A s \in SUBSET T : Cardinality(s) = 0 => s = {}
    BY <1>1, FS_EmptySet
  <2>2. QED
    BY <2>1
<1>3. ASSUME NEW n \in Nat, n \in Q PROVE n + 1 \in Q
  <2>1. ASSUME NEW s \in SUBSET T, Cardinality(s) = n + 1 PROVE s \in P
    <3>1. s # {}
      <4>1. n + 1 # 0 /\ Cardinality({}) = 0
        BY FS_EmptySet
      <4>2. QED
        BY <2>1, <4>1
    <3>2. PICK x \in s : TRUE
      BY <3>1
    <3>3. Cardinality(s \ {x}) = n
      <4>1. Cardinality(s \ {x}) = Cardinality(s) - 1
        BY <1>1, FS_RemoveElement
      <4>2. QED
        BY <2>1, <4>1
    <3>4. s \ {x} \in P
      BY <1>3, <3>3
    <3>5. (s \ {x}) \cup {x} = s /\ x \in T \ (s \ {x}) /\ s \ {x} \in SUBSET T
      BY <3>2
    <3>6. (s \ {x}) \cup {x} \in P
      BY <3>4, <3>5
    <3>7. QED
      BY <3>5, <3>6
  <2>2. QED
    BY <2>1
<1>4. \A n \in Nat : n \in Q
  <2> HIDE DEF Q
  <2>1. QED
    BY <1>2, <1>3, Induction
<1>5. QED
  BY <1>1, <1>4

-----------------------------------------------------------------------------
(* The fold behind Sum                                                     *)

Pick(s) == CHOOSE x \in s : TRUE

\* g adds f up over the subsets of S, one picked element after the other.
Adds(g, f, S) ==
    g = [s \in SUBSET S |-> IF s = {} THEN 0 ELSE f[Pick(s)] + g[s \ {Pick(s)}]]

\* A set that is not empty has the element that is picked from it.
LEMMA Picked == ASSUME NEW s, s # {} PROVE Pick(s) \in s
BY DEF Pick

\* Sum is one of the functions that add up, at the whole set.
LEMMA SumIsFold ==
    ASSUME NEW f, NEW S
    PROVE  Sum(f, S) = (CHOOSE g : Adds(g, f, S))[S]
BY DEF Sum, MapThenSumSet, MapThenFoldSet, Adds, Pick

\* Such a function exists.
LEMMA FoldExists ==
    ASSUME NEW S, IsFiniteSet(S), NEW f, \A x \in S : f[x] \in Int
    PROVE  \E g : Adds(g, f, S)
<1> DEFINE Small(n) == {s \in SUBSET S : Cardinality(s) <= n}
           Rule(g, s) == IF s = {} THEN 0 ELSE f[Pick(s)] + g[s \ {Pick(s)}]
           P == {n \in Nat : \E g : /\ g = [s \in Small(n) |-> g[s]]
                                    /\ \A s \in Small(n) : g[s] = Rule(g, s)}
<1>1. \A s \in SUBSET S : IsFiniteSet(s) /\ Cardinality(s) \in Nat
  BY FS_Subset, FS_CardinalityType
<1>2. ASSUME NEW s \in SUBSET S, s # {}
      PROVE  Pick(s) \in s /\ Cardinality(s \ {Pick(s)}) = Cardinality(s) - 1
  BY <1>1, <1>2, Picked, FS_RemoveElement
<1>3. 0 \in P
  <2>1. \A s \in Small(0) : s = {}
    BY <1>1, FS_EmptySet
  <2>2. PICK g : g = [s \in Small(0) |-> 0]
    OBVIOUS
  <2>3. g = [s \in Small(0) |-> g[s]] /\ \A s \in Small(0) : g[s] = Rule(g, s)
    BY <2>1, <2>2
  <2>4. QED
    BY <2>3
<1>4. ASSUME NEW n \in Nat, n \in P PROVE n + 1 \in P
  <2>1. PICK g : \A s \in Small(n) : g[s] = Rule(g, s)
    BY <1>4
  <2>2. PICK h : h = [s \in Small(n + 1) |-> Rule(g, s)]
    OBVIOUS
  <2>3. \A s \in Small(n) : s \in Small(n + 1) /\ h[s] = g[s]
    BY <1>1, <2>1, <2>2
  <2>4. ASSUME NEW s \in Small(n + 1), s # {} PROVE s \ {Pick(s)} \in Small(n)
    <3>1. /\ s \in SUBSET S /\ Cardinality(s) \in Nat /\ Cardinality(s) <= n + 1
          /\ Cardinality(s \ {Pick(s)}) = Cardinality(s) - 1
      BY <1>1, <1>2, <2>4
    <3>2. Cardinality(s \ {Pick(s)}) <= n /\ s \ {Pick(s)} \in SUBSET S
      BY <3>1
    <3>3. QED
      BY <3>2
  <2>5. \A s \in Small(n + 1) : h[s] = Rule(h, s)
    BY <2>2, <2>3, <2>4
  <2>6. h = [s \in Small(n + 1) |-> h[s]]
    BY <2>2
  <2>7. \E e : /\ e = [s \in Small(n + 1) |-> e[s]]
               /\ \A s \in Small(n + 1) : e[s] = Rule(e, s)
    BY <2>5, <2>6
  <2>8. n + 1 \in Nat
    OBVIOUS
  <2> HIDE DEF Small, Rule
  <2>9. QED
    BY <2>7, <2>8
<1>5. Cardinality(S) \in P
  <2> HIDE DEF P
  <2>1. QED
    BY <1>1, <1>3, <1>4, Induction
<1>6. PICK g : g = [s \in Small(Cardinality(S)) |-> g[s]]
               /\ \A s \in Small(Cardinality(S)) : g[s] = Rule(g, s)
  BY <1>5
<1>7. Small(Cardinality(S)) = SUBSET S
  BY FS_Subset
<1>8. g = [s \in SUBSET S |-> Rule(g, s)]
  BY <1>6, <1>7
<1>9. QED
  BY <1>8 DEF Adds


\* All such functions agree where they are defined.
LEMMA FoldsAgree ==
    ASSUME NEW S, NEW T, NEW f, NEW g, NEW h, NEW s, IsFiniteSet(s),
           Adds(g, f, S), Adds(h, f, T), s \subseteq S, s \subseteq T
    PROVE  g[s] = h[s]
<1> DEFINE P == {n \in Nat : \A r \in SUBSET s : Cardinality(r) = n => g[r] = h[r]}
<1>1. \A r \in SUBSET s : IsFiniteSet(r) /\ Cardinality(r) \in Nat
  BY FS_Subset, FS_CardinalityType
<1>2. g[{}] = 0 /\ h[{}] = 0
  BY DEF Adds
<1>3. ASSUME NEW r \in SUBSET s, r # {}
      PROVE  /\ Pick(r) \in r
             /\ g[r] = f[Pick(r)] + g[r \ {Pick(r)}]
             /\ h[r] = f[Pick(r)] + h[r \ {Pick(r)}]
  <2>1. r \in SUBSET S /\ r \in SUBSET T
    OBVIOUS
  <2>2. QED
    BY <1>3, <2>1, Picked DEF Adds
<1>4. 0 \in P
  <2>1. \A r \in SUBSET s : Cardinality(r) = 0 => r = {}
    BY <1>1, FS_EmptySet
  <2>2. QED
    BY <1>2, <2>1
<1>5. ASSUME NEW n \in Nat, n \in P PROVE n + 1 \in P
  <2>1. ASSUME NEW r \in SUBSET s, Cardinality(r) = n + 1 PROVE g[r] = h[r]
    <3>1. n + 1 # 0 /\ Cardinality({}) = 0
      BY FS_EmptySet
    <3>2. r # {}
      BY <2>1, <3>1
    <3>3. Cardinality(r \ {Pick(r)}) = Cardinality(r) - 1
      BY <1>1, <1>3, <3>2, FS_RemoveElement
    <3>4. Cardinality(r \ {Pick(r)}) = n
      BY <2>1, <3>3
    <3>5. g[r \ {Pick(r)}] = h[r \ {Pick(r)}]
      BY <1>5, <3>4
    <3>6. QED
      BY <1>3, <3>2, <3>5
  <2>2. QED
    BY <2>1
<1>6. Cardinality(s) \in P
  <2> HIDE DEF P
  <2>1. QED
    BY <1>1, <1>4, <1>5, Induction
<1>7. QED
  BY <1>6

\* Sum takes the value any of them has.
LEMMA SumIsAnyFold ==
    ASSUME NEW S, IsFiniteSet(S), NEW f, \A x \in S : f[x] \in Int,
           NEW s \in SUBSET S, NEW g, Adds(g, f, S)
    PROVE  Sum(f, s) = g[s]
<1>1. IsFiniteSet(s) /\ \A x \in s : f[x] \in Int
  BY FS_Subset
<1>2. PICK h : h = (CHOOSE e : Adds(e, f, s))
  OBVIOUS
<1>3. \E e : Adds(e, f, s)
  BY <1>1, FoldExists
<1>4. Adds(h, f, s)
  BY <1>2, <1>3
<1>5. Sum(f, s) = h[s]
  BY <1>2, SumIsFold
<1>6. h[s] = g[s]
  BY <1>1, <1>4, FoldsAgree
<1>7. QED
  BY <1>5, <1>6

\* Nothing adds up to nothing; a picked element comes off.
LEMMA SumSteps ==
    ASSUME NEW S, IsFiniteSet(S), NEW f, \A x \in S : f[x] \in Int
    PROVE  /\ Sum(f, {}) = 0
           /\ S # {} => Sum(f, S) = f[Pick(S)] + Sum(f, S \ {Pick(S)})
<1>1. PICK g : Adds(g, f, S)
  BY FoldExists
<1>2. \A s \in SUBSET S : Sum(f, s) = g[s]
  BY <1>1, SumIsAnyFold
<1>3. \A s \in SUBSET S : g[s] = IF s = {} THEN 0 ELSE f[Pick(s)] + g[s \ {Pick(s)}]
  BY <1>1 DEF Adds
<1>4. {} \in SUBSET S /\ S \in SUBSET S /\ S \ {Pick(S)} \in SUBSET S
  OBVIOUS
<1>5. QED
  BY <1>2, <1>3, <1>4

-----------------------------------------------------------------------------
(* What the other proofs use                                               *)

\* A sum of integers is one.
LEMMA SumInteger ==
    ASSUME NEW S, IsFiniteSet(S), NEW f, \A x \in S : f[x] \in Int
    PROVE  Sum(f, S) \in Int
<1> DEFINE P == {n \in Nat : \A s \in SUBSET S : Cardinality(s) = n => Sum(f, s) \in Int}
<1>1. \A s \in SUBSET S : /\ IsFiniteSet(s) /\ Cardinality(s) \in Nat
                          /\ \A x \in s : Cardinality(s \ {x}) = Cardinality(s) - 1
  BY FS_Subset, FS_CardinalityType, FS_RemoveElement
<1>2. Sum(f, {}) = 0
  BY SumSteps
<1>3. ASSUME NEW s \in SUBSET S, s # {}
      PROVE  Pick(s) \in s /\ Sum(f, s) = f[Pick(s)] + Sum(f, s \ {Pick(s)})
  BY <1>1, <1>3, SumSteps, Picked
<1>4. 0 \in P
  <2>1. \A s \in SUBSET S : Cardinality(s) = 0 => s = {}
    BY <1>1, FS_EmptySet
  <2>2. QED
    BY <1>2, <2>1
<1>5. ASSUME NEW n \in Nat, n \in P PROVE n + 1 \in P
  <2>1. ASSUME NEW s \in SUBSET S, Cardinality(s) = n + 1 PROVE Sum(f, s) \in Int
    <3>1. n + 1 # 0 /\ Cardinality({}) = 0 /\ n + 1 - 1 = n
      BY FS_EmptySet
    <3>2. s # {}
      BY <2>1, <3>1
    <3>3. Pick(s) \in s /\ Cardinality(s \ {Pick(s)}) = n
      <4>1. Pick(s) \in s
        BY <1>3, <3>2
      <4>2. QED
        BY <1>1, <2>1, <3>1, <4>1
    <3>4. Sum(f, s \ {Pick(s)}) \in Int /\ f[Pick(s)] \in Int
      BY <1>5, <3>3
    <3>5. QED
      BY <1>3, <3>2, <3>4
  <2>2. QED
    BY <2>1
<1>6. Cardinality(S) \in P
  <2> HIDE DEF P
  <2>1. QED
    BY <1>1, <1>4, <1>5, Induction
<1>7. QED
  BY <1>6

\* A sum is an integer and any element comes off it.
LEMMA SumElement ==
    ASSUME NEW S, IsFiniteSet(S), NEW f, \A x \in S : f[x] \in Int
    PROVE  /\ Sum(f, S) \in Int
           /\ Sum(f, {}) = 0
           /\ \A x \in S : Sum(f, S) = f[x] + Sum(f, S \ {x})
<1> DEFINE Splits(s) == /\ Sum(f, s) \in Int
                        /\ \A x \in s : Sum(f, s) = f[x] + Sum(f, s \ {x})
           P == {n \in Nat : \A s \in SUBSET S : Cardinality(s) = n => Splits(s)}
<1>1. \A s \in SUBSET S : /\ IsFiniteSet(s) /\ Cardinality(s) \in Nat
                          /\ \A x \in s : Cardinality(s \ {x}) = Cardinality(s) - 1
  BY FS_Subset, FS_CardinalityType, FS_RemoveElement
<1>2. Sum(f, {}) = 0
  BY SumSteps
<1>3. ASSUME NEW s \in SUBSET S, s # {}
      PROVE  Pick(s) \in s /\ Sum(f, s) = f[Pick(s)] + Sum(f, s \ {Pick(s)})
  BY <1>1, <1>3, SumSteps, Picked
<1>4. 0 \in P
  <2>1. \A s \in SUBSET S : Cardinality(s) = 0 => s = {}
    BY <1>1, FS_EmptySet
  <2>2. Splits({})
    BY <1>2
  <2> HIDE DEF Splits
  <2>3. QED
    BY <2>1, <2>2
<1>5. ASSUME NEW n \in Nat, n \in P PROVE n + 1 \in P
  <2>1. ASSUME NEW s \in SUBSET S, Cardinality(s) = n + 1 PROVE Splits(s)
    <3>1. n + 1 # 0 /\ Cardinality({}) = 0 /\ n + 1 - 1 = n
      BY FS_EmptySet
    <3>2. s # {}
      BY <2>1, <3>1
    <3>3. PICK c : c = Pick(s)
      OBVIOUS
    <3>4. c \in s /\ Sum(f, s) = f[c] + Sum(f, s \ {c})
      BY <1>3, <3>2, <3>3
    <3>5. \A x \in s : s \ {x} \in SUBSET S /\ Cardinality(s \ {x}) = n
      BY <1>1, <2>1, <3>1
    <3>6. \A x \in s : Splits(s \ {x})
      BY <1>5, <3>5
    <3> HIDE DEF P
    <3>7. Sum(f, s) \in Int
      BY <3>4, <3>6
    <3>8. ASSUME NEW x \in s, x # c PROVE Sum(f, s) = f[x] + Sum(f, s \ {x})
      <4>1. (s \ {c}) \ {x} = (s \ {x}) \ {c} /\ c \in s \ {x} /\ x \in s \ {c}
        BY <3>4, <3>8
      <4>2. Sum(f, s \ {c}) = f[x] + Sum(f, (s \ {c}) \ {x})
        BY <3>4, <3>6, <4>1
      <4>3. Sum(f, s \ {x}) = f[c] + Sum(f, (s \ {x}) \ {c})
        BY <3>6, <4>1
      <4>4. Sum(f, (s \ {x}) \ {c}) \in Int
        <5>1. /\ IsFiniteSet((s \ {x}) \ {c}) /\ \A y \in (s \ {x}) \ {c} : f[y] \in Int
          BY <1>1
        <5>2. QED
          BY <5>1, SumInteger
      <4>5. f[x] \in Int /\ f[c] \in Int
        BY <3>4
      <4>6. PICK r \in Int : r = Sum(f, (s \ {x}) \ {c})
        BY <4>4
      <4>7. Sum(f, s \ {c}) = f[x] + r /\ Sum(f, s \ {x}) = f[c] + r
        BY <4>1, <4>2, <4>3, <4>6
      <4>8. f[c] + (f[x] + r) = f[x] + (f[c] + r)
        BY <4>5
      <4>9. QED
        BY <3>4, <4>7, <4>8
    <3>9. QED
      BY <3>4, <3>7, <3>8
  <2>2. QED
    BY <2>1
<1>6. Cardinality(S) \in P
  <2> HIDE DEF P
  <2>1. QED
    BY <1>1, <1>4, <1>5, Induction
<1>7. QED
  BY <1>2, <1>6
\* An element that was not there adds its value.
LEMMA SumAdd ==
    ASSUME NEW S, IsFiniteSet(S), NEW x, x \notin S, NEW f,
           \A y \in S \cup {x} : f[y] \in Int
    PROVE  Sum(f, S \cup {x}) = f[x] + Sum(f, S) /\ Sum(f, S) \in Int
<1>1. IsFiniteSet(S \cup {x}) /\ (S \cup {x}) \ {x} = S /\ x \in S \cup {x}
  BY FS_AddElement
<1>2. \A y \in S \cup {x} : Sum(f, S \cup {x}) = f[y] + Sum(f, (S \cup {x}) \ {y})
  BY <1>1, SumElement
<1>3. Sum(f, S) \in Int
  BY SumInteger
<1>4. QED
  BY <1>1, <1>2, <1>3

\* A larger function has the larger sum.
LEMMA SumGrows ==
    ASSUME NEW S, IsFiniteSet(S), NEW f, NEW g,
           \A x \in S : f[x] \in Int /\ g[x] \in Int /\ f[x] <= g[x]
    PROVE  Sum(f, S) <= Sum(g, S)
<1> DEFINE P == {s \in SUBSET S : Sum(f, s) <= Sum(g, s)}
<1>1. \A s \in SUBSET S : IsFiniteSet(s)
  BY FS_Subset
<1>2. {} \in P
  BY SumElement
<1>3. ASSUME NEW s \in SUBSET S, s \in P, NEW x \in S \ s PROVE s \cup {x} \in P
  <2>1. /\ Sum(f, s \cup {x}) = f[x] + Sum(f, s) /\ Sum(f, s) \in Int
        /\ Sum(g, s \cup {x}) = g[x] + Sum(g, s) /\ Sum(g, s) \in Int
    BY <1>1, SumAdd
  <2>2. f[x] \in Int /\ g[x] \in Int /\ f[x] <= g[x] /\ Sum(f, s) <= Sum(g, s)
    BY <1>3
  <2>3. Sum(f, s \cup {x}) <= Sum(g, s \cup {x})
    BY <2>1, <2>2
  <2>4. QED
    BY <2>3
<1>4. S \in P
  <2> HIDE DEF P
  <2>1. QED
    BY <1>2, <1>3, SetInduction
<1>5. QED
  BY <1>4

\* Functions that agree on a set have one sum over it.
LEMMA SumSame ==
    ASSUME NEW S, IsFiniteSet(S), NEW f, NEW g,
           \A x \in S : f[x] \in Int /\ f[x] = g[x]
    PROVE  Sum(f, S) = Sum(g, S)
<1>1. Sum(f, S) <= Sum(g, S) /\ Sum(g, S) <= Sum(f, S)
  BY SumGrows
<1>2. Sum(f, S) \in Int /\ Sum(g, S) \in Int
  BY SumInteger
<1>3. QED
  BY <1>1, <1>2

\* Zeros add up to zero.
LEMMA SumZero ==
    ASSUME NEW S, IsFiniteSet(S), NEW f, \A x \in S : f[x] = 0
    PROVE  Sum(f, S) = 0
<1> DEFINE P == {s \in SUBSET S : Sum(f, s) = 0}
<1>1. \A s \in SUBSET S : IsFiniteSet(s)
  BY FS_Subset
<1>2. {} \in P
  BY SumElement
<1>3. ASSUME NEW s \in SUBSET S, s \in P, NEW x \in S \ s PROVE s \cup {x} \in P
  <2>0. IsFiniteSet(s) /\ x \notin s /\ \A y \in s \cup {x} : f[y] \in Int
    BY <1>1
  <2>1. Sum(f, s \cup {x}) = f[x] + Sum(f, s)
    BY <2>0, SumAdd
  <2>2. f[x] = 0 /\ Sum(f, s) = 0
    BY <1>3
  <2>3. QED
    BY <2>1, <2>2
<1>4. S \in P
  <2> HIDE DEF P
  <2>1. QED
    BY <1>2, <1>3, SetInduction
<1>5. QED
  BY <1>4

\* Only one element counts.
LEMMA SumOnly ==
    ASSUME NEW S, IsFiniteSet(S), NEW f, \A x \in S : f[x] \in Int,
           NEW o \in S, \A x \in S \ {o} : f[x] = 0
    PROVE  Sum(f, S) = f[o]
<1>1. IsFiniteSet(S \ {o})
  BY FS_RemoveElement
<1>2. Sum(f, S \ {o}) = 0
  BY <1>1, SumZero
<1>3. Sum(f, S) = f[o] + Sum(f, S \ {o})
  BY SumElement
<1>4. QED
  BY <1>2, <1>3

\* Adding naturals over more elements gives no less.
LEMMA SumSubset ==
    ASSUME NEW T, IsFiniteSet(T), NEW f, \A x \in T : f[x] \in Nat, NEW S \in SUBSET T
    PROVE  Sum(f, S) <= Sum(f, T) /\ Sum(f, S) \in Nat /\ Sum(f, T) \in Nat
<1> DEFINE P == {s \in SUBSET T : Sum(f, s \cap S) <= Sum(f, s) /\ Sum(f, s \cap S) \in Nat}
<1>1. \A s \in SUBSET T : IsFiniteSet(s)
  BY FS_Subset
<1>2. {} \in P
  <2>1. {} \cap S = {} /\ Sum(f, {}) = 0
    BY SumElement
  <2>2. QED
    BY <2>1
<1>3. ASSUME NEW s \in SUBSET T, s \in P, NEW x \in T \ s PROVE s \cup {x} \in P
  <2>0. IsFiniteSet(s) /\ x \notin s /\ \A y \in s \cup {x} : f[y] \in Int
    BY <1>1
  <2>1. Sum(f, s \cup {x}) = f[x] + Sum(f, s) /\ Sum(f, s) \in Int
    BY <2>0, SumAdd
  <2>2. f[x] \in Nat /\ Sum(f, s \cap S) <= Sum(f, s) /\ Sum(f, s \cap S) \in Nat
    BY <1>3
  <2>3. CASE x \notin S
    <3>1. (s \cup {x}) \cap S = s \cap S
      BY <2>3
    <3>2. Sum(f, s \cap S) <= f[x] + Sum(f, s)
      BY <2>1, <2>2
    <3>3. QED
      BY <2>1, <2>2, <3>1, <3>2
  <2>4. CASE x \in S
    <3>1. (s \cup {x}) \cap S = (s \cap S) \cup {x} /\ IsFiniteSet(s \cap S) /\ x \notin s \cap S
          /\ \A y \in (s \cap S) \cup {x} : f[y] \in Int
      BY <1>1, <2>0, <2>4
    <3>2. Sum(f, (s \cup {x}) \cap S) = f[x] + Sum(f, s \cap S)
      BY <3>1, SumAdd
    <3>3. /\ f[x] + Sum(f, s \cap S) <= f[x] + Sum(f, s)
          /\ f[x] + Sum(f, s \cap S) \in Nat
      BY <2>1, <2>2
    <3>4. QED
      BY <2>1, <3>2, <3>3
  <2>5. QED
    BY <2>3, <2>4
<1>4. T \in P
  <2> HIDE DEF P
  <2>1. QED
    BY <1>2, <1>3, SetInduction
<1>5. T \cap S = S /\ Sum(f, T) \in Int
  BY SumInteger
<1>6. QED
  BY <1>4, <1>5

\* Two sets without a common element have the sums of both.
LEMMA SumUnion ==
    ASSUME NEW A, IsFiniteSet(A), NEW B, IsFiniteSet(B), A \cap B = {},
           NEW f, \A x \in A \cup B : f[x] \in Int
    PROVE  Sum(f, A \cup B) = Sum(f, A) + Sum(f, B)
<1> DEFINE P == {s \in SUBSET B : Sum(f, A \cup s) = Sum(f, A) + Sum(f, s)}
<1>1. \A s \in SUBSET B : IsFiniteSet(s) /\ IsFiniteSet(A \cup s)
  BY FS_Subset, FS_Union
<1>2. {} \in P
  <2>1. A \cup {} = A /\ Sum(f, {}) = 0 /\ Sum(f, A) \in Int
    BY SumElement
  <2>2. QED
    BY <2>1
<1>3. ASSUME NEW s \in SUBSET B, s \in P, NEW x \in B \ s PROVE s \cup {x} \in P
  <2>1. /\ IsFiniteSet(s) /\ x \notin s /\ \A y \in s \cup {x} : f[y] \in Int
        /\ IsFiniteSet(A \cup s) /\ x \notin A \cup s
        /\ \A y \in (A \cup s) \cup {x} : f[y] \in Int
        /\ A \cup (s \cup {x}) = (A \cup s) \cup {x}
    BY <1>1
  <2>2. Sum(f, s \cup {x}) = f[x] + Sum(f, s) /\ Sum(f, s) \in Int
    BY <2>1, SumAdd
  <2>3. Sum(f, (A \cup s) \cup {x}) = f[x] + Sum(f, A \cup s)
    BY <2>1, SumAdd
  <2>4. Sum(f, A \cup s) = Sum(f, A) + Sum(f, s) /\ Sum(f, A) \in Int /\ f[x] \in Int
    BY <1>3, <2>1, SumInteger
  <2>5. Sum(f, A \cup (s \cup {x})) = Sum(f, A) + Sum(f, s \cup {x})
    <3>1. f[x] + (Sum(f, A) + Sum(f, s)) = Sum(f, A) + (f[x] + Sum(f, s))
      BY <2>2, <2>4
    <3>2. Sum(f, A \cup (s \cup {x})) = f[x] + (Sum(f, A) + Sum(f, s))
      BY <2>1, <2>3, <2>4
    <3>3. QED
      BY <2>2, <3>1, <3>2
  <2>6. QED
    BY <2>5
<1>4. B \in P
  <2> HIDE DEF P
  <2>1. QED
    BY <1>2, <1>3, SetInduction
<1>5. QED
  BY <1>4

\* A function changes at one element.
LEMMA SumMove ==
    ASSUME NEW S, IsFiniteSet(S), NEW x \in S, NEW f, NEW g,
           \A y \in S : f[y] \in Int /\ g[y] \in Int,
           \A y \in S \ {x} : f[y] = g[y]
    PROVE  Sum(g, S) = Sum(f, S) + g[x] - f[x] /\ Sum(f, S) \in Int
<1>1. IsFiniteSet(S \ {x})
  BY FS_RemoveElement
<1>2. Sum(f, S \ {x}) = Sum(g, S \ {x})
  BY <1>1, SumSame
<1>3. \A y \in S : f[y] \in Int
  OBVIOUS
<1>4. \A y \in S : g[y] \in Int
  OBVIOUS
<1>5. Sum(f, S) = f[x] + Sum(f, S \ {x}) /\ Sum(f, S) \in Int
  BY <1>3, SumElement
<1>6. Sum(g, S) = g[x] + Sum(g, S \ {x})
  BY <1>4, SumElement
<1>7. Sum(f, S \ {x}) \in Int
  BY <1>1, <1>3, SumInteger
<1>8. QED
  BY <1>2, <1>3, <1>4, <1>5, <1>6, <1>7

\* Elements that count for nothing may be left out.
LEMMA SumRest ==
    ASSUME NEW T, IsFiniteSet(T), NEW S \in SUBSET T, NEW f, NEW g,
           \A x \in T : g[x] \in Int,
           \A x \in S : f[x] = g[x],
           \A x \in T \ S : g[x] = 0
    PROVE  Sum(f, S) = Sum(g, T)
<1>1. IsFiniteSet(S) /\ IsFiniteSet(T \ S)
  <2>1. T \ S \in SUBSET T
    OBVIOUS
  <2>2. QED
    BY <2>1, FS_Subset
<1>2. Sum(f, S) = Sum(g, S)
  <2>1. \A x \in S : g[x] \in Int /\ g[x] = f[x]
    OBVIOUS
  <2>2. QED
    BY <1>1, <2>1, SumSame
<1>3. Sum(g, T \ S) = 0
  BY <1>1, SumZero
<1>4. Sum(g, S \cup (T \ S)) = Sum(g, S) + Sum(g, T \ S)
  <2>1. S \cap (T \ S) = {} /\ \A x \in S \cup (T \ S) : g[x] \in Int
    OBVIOUS
  <2>2. QED
    BY <1>1, <2>1, SumUnion
<1>5. Sum(g, T) = Sum(g, S) + 0
  <2>1. S \cup (T \ S) = T
    OBVIOUS
  <2>2. QED
    BY <1>3, <1>4, <2>1
<1>6. Sum(g, S) \in Int
  BY <1>1, SumInteger
<1>7. QED
  BY <1>2, <1>5, <1>6
=============================================================================

---------------------------- MODULE FoldTheorems ---------------------------
(***************************************************************************)
(* Sums over finite sets and folds over sequences (SumFunctionOnSet and    *)
(* FoldLeft of the community modules), for the proofs about what the       *)
(* servers count - the space a mailbox takes, the recipients of a window,  *)
(* what the sessions of a day have sent - and about the EXPUNGE lines a    *)
(* client is told.                                                         *)
(*                                                                         *)
(* Both are defined by a recursive function on the subsets of a set; so a  *)
(* fact about them needs an induction.  Induction is had without a theorem *)
(* that takes a predicate as its parameter: what is to hold is a set, and  *)
(* NatSet, from the well-foundedness of < on Nat, says that a set with 0   *)
(* and every successor of its elements has all of Nat.  FiniteSubsets says *)
(* the same of the subsets of a finite set.                                *)
(***************************************************************************)
EXTENDS FiniteSetsExt, FiniteSetTheorems, WellFoundedInduction, TLAPS

\* Induction on the natural numbers, over a set.
LEMMA NatSet ==
    ASSUME NEW B, 0 \in B, \A n \in Nat : n \in B => n + 1 \in B
    PROVE  Nat \subseteq B
<1>. SUFFICES ASSUME Nat \ B # {} PROVE FALSE
  OBVIOUS
<1>. DEFINE less == {p \in Nat \X Nat : p[1] < p[2]}
<1>1. IsWellFoundedOn(less, Nat)
  BY NatLessThanWellFounded DEF OpToRel
<1>2. \A x, y \in Nat : y < x => <<y, x>> \in less
  OBVIOUS
<1>. HIDE DEF less
<1>3. PICK n \in Nat \ B : \A m \in Nat \ B : <<m, n>> \notin less
  BY <1>1, WFMin
<1>4. n # 0 /\ n - 1 \in Nat
  BY <1>3
<1>5. <<n - 1, n>> \in less
  BY <1>2, <1>4
<1>6. n - 1 \in B
  BY <1>3, <1>4, <1>5
<1>. QED
  BY <1>3, <1>4, <1>6

\* Induction on the subsets of a finite set, by one element at a time.
LEMMA FiniteSubsets ==
    ASSUME NEW S, IsFiniteSet(S), NEW B, {} \in B,
           \A T \in SUBSET S : \A x \in S \ T : T \in B => T \cup {x} \in B
    PROVE  SUBSET S \subseteq B
<1>. DEFINE C == {n \in Nat : \A T \in SUBSET S : Cardinality(T) = n => T \in B}
<1>1. 0 \in C
  <2>1. ASSUME NEW T \in SUBSET S, Cardinality(T) = 0 PROVE T = {}
    BY <2>1, FS_Subset, FS_EmptySet
  <2>. QED
    BY <2>1
<1>2. ASSUME NEW n \in Nat, n \in C PROVE n + 1 \in C
  <2>1. ASSUME NEW T \in SUBSET S, Cardinality(T) = n + 1 PROVE T \in B
    <3>1. IsFiniteSet(T) /\ T # {}
      BY <2>1, FS_Subset, FS_EmptySet
    <3>2. PICK x : x \in T
      BY <3>1
    <3>3. T \ {x} \in SUBSET S /\ Cardinality(T \ {x}) = n
      <4>1. Cardinality(T \ {x}) = Cardinality(T) - 1
        BY <3>1, <3>2, FS_RemoveElement
      <4>. QED
        BY <2>1, <4>1
    <3>4. T \ {x} \in B /\ x \in S \ (T \ {x}) /\ (T \ {x}) \cup {x} = T
      BY <1>2, <3>2, <3>3
    <3>. QED
      BY <3>3, <3>4
  <2>. QED
    BY <2>1
<1>. HIDE DEF C
<1>3. Nat \subseteq C
  BY <1>1, <1>2, NatSet
<1>4. ASSUME NEW T \in SUBSET S PROVE T \in B
  <2>1. Cardinality(T) \in C
    BY <1>3, FS_Subset, FS_CardinalityType
  <2>. QED
    BY <2>1 DEF C
<1>. QED
  BY <1>4

\* The element the fold takes first, and what its definition says of the sums.
First(s) == CHOOSE x \in s : TRUE

SumsUp(h, f, S) ==
    h = [s \in SUBSET S |-> IF s = {} THEN 0 ELSE f[First(s)] + h[s \ {First(s)}]]

\* What is added first is an element.
LEMMA FirstIn == ASSUME NEW s, s # {} PROVE First(s) \in s
BY DEF First

\* The recursive function of the fold exists, for a finite set: it is built up by
\* the size of the subsets.
LEMMA SumsExist ==
    ASSUME NEW S, IsFiniteSet(S), NEW f
    PROVE  \E h : SumsUp(h, f, S)
<1>. DEFINE Step(h, s) == IF s = {} THEN 0 ELSE f[First(s)] + h[s \ {First(s)}]
            Upto(h, n) == \A s \in SUBSET S : Cardinality(s) <= n => h[s] = Step(h, s)
            B == {n \in Nat : \E h : Upto(h, n)}
<1>1. 0 \in B
  <2>. DEFINE h == [s \in SUBSET S |-> 0]
  <2>1. ASSUME NEW s \in SUBSET S, Cardinality(s) <= 0 PROVE h[s] = Step(h, s)
    <3>1. s = {}
      BY <2>1, FS_Subset, FS_CardinalityType, FS_EmptySet
    <3>. QED
      BY <3>1
  <2>. HIDE DEF h, Step
  <2>. QED
    BY <2>1
<1>2. ASSUME NEW n \in Nat, n \in B PROVE n + 1 \in B
  <2>1. PICK g : Upto(g, n)
    BY <1>2
  <2>. DEFINE h == [s \in SUBSET S |-> Step(g, s)]
  <2>2. ASSUME NEW s \in SUBSET S, Cardinality(s) <= n + 1 PROVE h[s] = Step(h, s)
    <3>1. CASE s = {}
      BY <3>1
    <3>2. CASE s # {}
      <4>. DEFINE t == s \ {First(s)}
      <4>1. t \in SUBSET S /\ Cardinality(t) <= n
        BY <2>2, <3>2, FirstIn, FS_Subset, FS_RemoveElement, FS_CardinalityType
      <4>2. h[t] = Step(g, t) /\ g[t] = Step(g, t)
        BY <2>1, <4>1
      <4>. QED
        BY <3>2, <4>2
    <3>. QED
      BY <3>1, <3>2
  <2>. HIDE DEF h, Step
  <2>. QED
    BY <2>2
<1>. HIDE DEF B
<1>3. Cardinality(S) \in B
  BY <1>1, <1>2, NatSet, FS_CardinalityType
<1>4. PICK g : Upto(g, Cardinality(S))
  BY <1>3 DEF B
<1>. DEFINE h == [s \in SUBSET S |-> g[s]]
<1>5. ASSUME NEW s \in SUBSET S PROVE h[s] = Step(h, s)
  BY <1>4, FS_Subset, FirstIn
<1>6. SumsUp(h, f, S)
  BY <1>5 DEF SumsUp
<1>. QED
  BY <1>6

\* Two such functions agree where what they add does, whatever larger set they
\* are defined on.
LEMMA SumsUnique ==
    ASSUME NEW S, IsFiniteSet(S), NEW f, NEW g, NEW h, NEW k, \A x \in S : f[x] = g[x],
           SumsUp(h, f, S), NEW T, S \subseteq T, SumsUp(k, g, T)
    PROVE  h[S] = k[S]
<1>. DEFINE B == {n \in Nat : \A s \in SUBSET S : Cardinality(s) <= n => h[s] = k[s]}
<1>1. 0 \in B
  <2>1. ASSUME NEW s \in SUBSET S, Cardinality(s) <= 0 PROVE s = {}
    BY <2>1, FS_Subset, FS_CardinalityType, FS_EmptySet
  <2>2. h[{}] = k[{}]
    BY DEF SumsUp
  <2>. QED
    BY <2>1, <2>2
<1>2. ASSUME NEW n \in Nat, n \in B PROVE n + 1 \in B
  <2>1. ASSUME NEW s \in SUBSET S, Cardinality(s) <= n + 1 PROVE h[s] = k[s]
    <3>1. CASE s = {}
      BY <3>1 DEF SumsUp
    <3>2. CASE s # {}
      <4>. DEFINE t == s \ {First(s)}
      <4>1. First(s) \in s
        BY <3>2, FirstIn
      <4>2. t \in SUBSET S /\ Cardinality(t) <= n
        BY <2>1, <4>1, FS_Subset, FS_RemoveElement, FS_CardinalityType
      <4>3. h[t] = k[t]
        BY <1>2, <4>2
      <4>4. h[s] = f[First(s)] + h[t]
        BY <3>2 DEF SumsUp
      <4>5. k[s] = g[First(s)] + k[t]
        BY <3>2 DEF SumsUp
      <4>. QED
        BY <4>1, <4>3, <4>4, <4>5
    <3>. QED
      BY <3>1, <3>2
  <2>. QED
    BY <2>1
<1>. HIDE DEF B
<1>3. Cardinality(S) \in B
  BY <1>1, <1>2, NatSet, FS_CardinalityType
<1>. QED
  BY <1>3, FS_CardinalityType DEF B

\* The sum is what that function says.
LEMMA SumIsSum ==
    ASSUME NEW S, IsFiniteSet(S), NEW f
    PROVE  \E h : SumsUp(h, f, S) /\ SumFunctionOnSet(f, S) = h[S]
<1>1. SumsUp(CHOOSE h : SumsUp(h, f, S), f, S)
  BY SumsExist
<1>2. SumFunctionOnSet(f, S) = (CHOOSE h : SumsUp(h, f, S))[S]
  BY DEF SumFunctionOnSet, FoldFunctionOnSet, MapThenFoldSet, SumsUp, First
<1>. QED
  BY <1>1, <1>2

\* Nothing adds up to 0.
LEMMA SumEmpty == \A f : SumFunctionOnSet(f, {}) = 0
BY SumIsSum, FS_EmptySet DEF SumsUp

\* A sum depends on what is added, and on nothing else.
LEMMA SumSame ==
    ASSUME NEW S, IsFiniteSet(S), NEW f, NEW g, \A x \in S : f[x] = g[x]
    PROVE  SumFunctionOnSet(f, S) = SumFunctionOnSet(g, S)
BY SumIsSum, SumsUnique

\* A sum is its first part and the rest.
LEMMA SumFirst ==
    ASSUME NEW S, IsFiniteSet(S), S # {}, NEW f
    PROVE  SumFunctionOnSet(f, S) = f[First(S)] + SumFunctionOnSet(f, S \ {First(S)})
<1>. DEFINE T == S \ {First(S)}
<1>1. IsFiniteSet(T)
  BY FS_RemoveElement
<1>2. PICK h : SumsUp(h, f, S) /\ SumFunctionOnSet(f, S) = h[S]
  BY SumIsSum
<1>3. PICK k : SumsUp(k, f, T) /\ SumFunctionOnSet(f, T) = k[T]
  BY <1>1, SumIsSum
<1>4. k[T] = h[T]
  BY <1>1, <1>2, <1>3, SumsUnique
<1>5. h[S] = f[First(S)] + h[T]
  BY <1>2 DEF SumsUp
<1>. QED
  BY <1>2, <1>3, <1>4, <1>5

\* Numbers add up to a number.
LEMMA SumType ==
    ASSUME NEW S, IsFiniteSet(S), NEW f, \A x \in S : f[x] \in Nat
    PROVE  SumFunctionOnSet(f, S) \in Nat
<1>. DEFINE C == {n \in Nat : \A T \in SUBSET S : Cardinality(T) <= n => SumFunctionOnSet(f, T) \in Nat}
<1>1. 0 \in C
  BY SumEmpty, FS_Subset, FS_CardinalityType, FS_EmptySet
<1>2. ASSUME NEW n \in Nat, n \in C PROVE n + 1 \in C
  <2>1. ASSUME NEW T \in SUBSET S, Cardinality(T) <= n + 1, T # {}
        PROVE  SumFunctionOnSet(f, T) \in Nat
    <3>. DEFINE t == T \ {First(T)}
    <3>1. IsFiniteSet(T) /\ First(T) \in T
      BY <2>1, FirstIn, FS_Subset
    <3>2. t \in SUBSET S /\ Cardinality(t) <= n
      <4>1. Cardinality(t) = Cardinality(T) - 1 /\ Cardinality(T) \in Nat
        BY <3>1, FS_RemoveElement, FS_CardinalityType
      <4>. QED
        BY <2>1, <4>1
    <3>3. SumFunctionOnSet(f, T) = f[First(T)] + SumFunctionOnSet(f, t)
      BY <2>1, <3>1, SumFirst
    <3>. QED
      BY <1>2, <3>1, <3>2, <3>3
  <2>. QED
    BY <2>1, SumEmpty
<1>. HIDE DEF C
<1>3. Cardinality(S) \in C
  BY <1>1, <1>2, NatSet, FS_CardinalityType
<1>. QED
  BY <1>3, FS_CardinalityType DEF C

\* The order does not matter: any part may be taken first.
LEMMA SumRemove ==
    ASSUME NEW S, IsFiniteSet(S), NEW f, \A y \in S : f[y] \in Nat, NEW x \in S
    PROVE  SumFunctionOnSet(f, S) = f[x] + SumFunctionOnSet(f, S \ {x})
<1>. DEFINE C == {n \in Nat : \A T \in SUBSET S : \A y \in T : Cardinality(T) <= n =>
                     SumFunctionOnSet(f, T) = f[y] + SumFunctionOnSet(f, T \ {y})}
<1>1. 0 \in C
  BY FS_Subset, FS_CardinalityType, FS_EmptySet
<1>2. ASSUME NEW n \in Nat, n \in C PROVE n + 1 \in C
  <2>1. ASSUME NEW T \in SUBSET S, NEW y \in T, Cardinality(T) <= n + 1
        PROVE  SumFunctionOnSet(f, T) = f[y] + SumFunctionOnSet(f, T \ {y})
    <3>. DEFINE z == First(T)
    <3>1. IsFiniteSet(T) /\ z \in T
      BY FirstIn, FS_Subset
    <3>2. SumFunctionOnSet(f, T) = f[z] + SumFunctionOnSet(f, T \ {z})
      BY <3>1, SumFirst
    <3>. HIDE DEF z
    <3>3. CASE y = z
      BY <3>2, <3>3
    <3>4. CASE y # z
      <4>1. /\ IsFiniteSet(T \ {z}) /\ Cardinality(T \ {z}) = Cardinality(T) - 1
            /\ IsFiniteSet(T \ {y}) /\ Cardinality(T \ {y}) = Cardinality(T) - 1
            /\ Cardinality(T) \in Nat
        BY <3>1, FS_RemoveElement, FS_CardinalityType
      <4>. DEFINE U == (T \ {y}) \ {z}
      <4>2. U = (T \ {z}) \ {y} /\ U \subseteq S /\ IsFiniteSet(U)
        BY <4>1, FS_RemoveElement
      <4>3. SumFunctionOnSet(f, T \ {z}) = f[y] + SumFunctionOnSet(f, U)
        BY <1>2, <2>1, <3>4, <4>1, <4>2
      <4>4. SumFunctionOnSet(f, T \ {y}) = f[z] + SumFunctionOnSet(f, U)
        BY <1>2, <2>1, <3>1, <3>4, <4>1
      <4>5. SumFunctionOnSet(f, U) \in Nat
        BY <4>2, SumType
      <4>6. f[y] \in Nat /\ f[z] \in Nat
        BY <3>1
      <4>. HIDE DEF U
      <4>. QED
        BY <3>2, <4>3, <4>4, <4>5, <4>6
    <3>. QED
      BY <3>3, <3>4
  <2>. QED
    BY <2>1
<1>. HIDE DEF C
<1>3. Cardinality(S) \in C
  BY <1>1, <1>2, NatSet, FS_CardinalityType
<1>. QED
  BY <1>3, FS_CardinalityType DEF C

\* One part more.
LEMMA SumAdd ==
    ASSUME NEW S, IsFiniteSet(S), NEW x, x \notin S, NEW f, \A y \in S \cup {x} : f[y] \in Nat
    PROVE  SumFunctionOnSet(f, S \cup {x}) = f[x] + SumFunctionOnSet(f, S)
<1>1. IsFiniteSet(S \cup {x}) /\ (S \cup {x}) \ {x} = S
  BY FS_AddElement
<1>. QED
  BY <1>1, SumRemove

\* Two sets without a common element.
LEMMA SumUnion ==
    ASSUME NEW S, IsFiniteSet(S), NEW T, IsFiniteSet(T), S \cap T = {},
           NEW f, \A y \in S \cup T : f[y] \in Nat
    PROVE  SumFunctionOnSet(f, S \cup T) = SumFunctionOnSet(f, S) + SumFunctionOnSet(f, T)
<1>. DEFINE B == {U \in SUBSET T : SumFunctionOnSet(f, S \cup U)
                                    = SumFunctionOnSet(f, S) + SumFunctionOnSet(f, U)}
<1>0. ASSUME NEW U \in SUBSET T PROVE /\ IsFiniteSet(U) /\ IsFiniteSet(S \cup U)
                                       /\ SumFunctionOnSet(f, U) \in Nat
  BY FS_Subset, FS_Union, SumType
<1>a. SumFunctionOnSet(f, S) \in Nat
  BY SumType
<1>1. {} \in B
  BY <1>a, SumEmpty
<1>2. ASSUME NEW U \in SUBSET T, NEW x \in T \ U, U \in B PROVE U \cup {x} \in B
  <2>1. SumFunctionOnSet(f, U \cup {x}) = f[x] + SumFunctionOnSet(f, U)
    BY <1>0, SumAdd
  <2>2. SumFunctionOnSet(f, (S \cup U) \cup {x}) = f[x] + SumFunctionOnSet(f, S \cup U)
    BY <1>0, SumAdd
  <2>3. (S \cup U) \cup {x} = S \cup (U \cup {x})
    OBVIOUS
  <2>4. f[x] \in Nat
    OBVIOUS
  <2>. QED
    BY <1>0, <1>a, <1>2, <2>1, <2>2, <2>3, <2>4
<1>. HIDE DEF B
<1>3. \A U \in SUBSET T : \A x \in T \ U : U \in B => U \cup {x} \in B
  BY <1>2
<1>4. SUBSET T \subseteq B
  BY ONLY <1>1, <1>3, IsFiniteSet(T), FiniteSubsets
<1>5. T \in B
  BY <1>4
<1>. QED
  BY <1>5 DEF B

\* A sum of which one part changes.
LEMMA SumChange ==
    ASSUME NEW S, IsFiniteSet(S), NEW x \in S, NEW f, NEW g,
           \A y \in S : f[y] \in Nat /\ g[y] \in Nat, \A y \in S \ {x} : f[y] = g[y]
    PROVE  SumFunctionOnSet(g, S) + f[x] = SumFunctionOnSet(f, S) + g[x]
<1>1. IsFiniteSet(S \ {x})
  BY FS_RemoveElement
<1>2. SumFunctionOnSet(f, S \ {x}) = SumFunctionOnSet(g, S \ {x})
  BY <1>1, SumSame
<1>3. SumFunctionOnSet(f, S \ {x}) \in Nat
  BY <1>1, SumType
<1>4. SumFunctionOnSet(f, S) = f[x] + SumFunctionOnSet(f, S \ {x})
  BY SumRemove
<1>5. SumFunctionOnSet(g, S) = g[x] + SumFunctionOnSet(g, S \ {x})
  BY SumRemove
<1>. QED
  BY <1>2, <1>3, <1>4, <1>5

\* A single part.
LEMMA SumOne == ASSUME NEW f, NEW x, f[x] \in Nat PROVE SumFunctionOnSet(f, {x}) = f[x]
<1>1. IsFiniteSet({}) /\ {} \cup {x} = {x}
  BY FS_EmptySet
<1>2. SumFunctionOnSet(f, {} \cup {x}) = f[x] + SumFunctionOnSet(f, {})
  BY <1>1, SumAdd
<1>. QED
  BY <1>1, <1>2, SumEmpty

\* Parts that are all 0.
LEMMA SumZero ==
    ASSUME NEW S, IsFiniteSet(S), NEW f, \A x \in S : f[x] = 0
    PROVE  SumFunctionOnSet(f, S) = 0
<1>. DEFINE B == {T \in SUBSET S : SumFunctionOnSet(f, T) = 0}
<1>1. {} \in B
  BY SumEmpty
<1>2. ASSUME NEW T \in SUBSET S, NEW x \in S \ T, T \in B PROVE T \cup {x} \in B
  <2>1. IsFiniteSet(T) /\ \A y \in T \cup {x} : f[y] \in Nat
    BY FS_Subset
  <2>2. SumFunctionOnSet(f, T \cup {x}) = f[x] + SumFunctionOnSet(f, T)
    BY <2>1, SumAdd
  <2>. QED
    BY <1>2, <2>2
<1>. HIDE DEF B
<1>3. \A T \in SUBSET S : \A x \in S \ T : T \in B => T \cup {x} \in B
  BY <1>2
<1>4. SUBSET S \subseteq B
  BY ONLY <1>1, <1>3, IsFiniteSet(S), FiniteSubsets
<1>5. S \in B
  BY <1>4
<1>. QED
  BY <1>5 DEF B

\* A sum in two parts.
LEMMA SumSplit ==
    ASSUME NEW S, IsFiniteSet(S), NEW T, NEW f, \A y \in S : f[y] \in Nat
    PROVE  SumFunctionOnSet(f, S) = SumFunctionOnSet(f, S \cap T) + SumFunctionOnSet(f, S \ T)
<1>1. /\ IsFiniteSet(S \cap T) /\ IsFiniteSet(S \ T) /\ (S \cap T) \cup (S \ T) = S
      /\ (S \cap T) \cap (S \ T) = {}
  BY FS_Subset
<1>2. SumFunctionOnSet(f, (S \cap T) \cup (S \ T)) = SumFunctionOnSet(f, S \cap T) + SumFunctionOnSet(f, S \ T)
  BY <1>1, SumUnion
<1>. QED
  BY <1>1, <1>2

\* A part is no more than the whole.
LEMMA SumSubset ==
    ASSUME NEW S, IsFiniteSet(S), NEW T \in SUBSET S, NEW f, \A y \in S : f[y] \in Nat
    PROVE  SumFunctionOnSet(f, T) <= SumFunctionOnSet(f, S)
<1>1. SumFunctionOnSet(f, S) = SumFunctionOnSet(f, S \cap T) + SumFunctionOnSet(f, S \ T)
  BY SumSplit
<1>2. IsFiniteSet(T) /\ IsFiniteSet(S \ T) /\ S \cap T = T
  BY FS_Subset
<1>3. SumFunctionOnSet(f, T) \in Nat /\ SumFunctionOnSet(f, S \ T) \in Nat
  BY <1>2, SumType
<1>. QED
  BY <1>1, <1>2, <1>3

-----------------------------------------------------------------------------

\* A set of numbers up to a bound has a largest one.
LEMMA LargestIn == ASSUME NEW n \in Nat, NEW s \in SUBSET (1..n), s # {} PROVE Max(s) \in s
<1>. DEFINE B == {m \in Nat : \A t \in SUBSET (1..m) : t # {} => \E x \in t : \A y \in t : x >= y}
<1>1. 0 \in B
  <2>1. 1..0 = {}
    OBVIOUS
  <2>. QED
    BY <2>1
<1>2. ASSUME NEW m \in Nat, m \in B PROVE m + 1 \in B
  <2>1. ASSUME NEW t \in SUBSET (1..(m + 1)), t # {} PROVE \E x \in t : \A y \in t : x >= y
    <3>1. CASE m + 1 \in t
      BY <3>1
    <3>2. CASE m + 1 \notin t
      <4>1. t \in SUBSET (1..m)
        BY <3>2
      <4>. QED
        BY <1>2, <2>1, <4>1
    <3>. QED
      BY <3>1, <3>2
  <2>. QED
    BY <2>1
<1>. HIDE DEF B
<1>3. n \in B
  BY <1>1, <1>2, NatSet
<1>4. \E x \in s : \A y \in s : x >= y
  BY <1>3 DEF B
<1>. QED
  BY <1>4 DEF Max

\* What a fold over a sequence takes last, and what is left.
LEMMA LargestOfPrefix ==
    ASSUME NEW i \in Nat, i # 0
    PROVE  Max(1..i) = i /\ (1..i) \ {i} = 1..(i - 1)
<1>1. \A x \in 1..i : (\A y \in 1..i : x >= y) => x = i
  OBVIOUS
<1>. QED
  BY <1>1 DEF Max

\* What the definition of a fold over n elements says, with what it does to a value
\* and an element as a function.
FoldsUp(h, n, l, base, G) ==
    \A s \in SUBSET (1..n) : h[s] = IF s = {} THEN base ELSE G[<<h[s \ {Max(s)}], l[Max(s)]>>]

\* The recursive function of a fold over a sequence exists: its values are built up
\* by the size of the subsets of the sequence's indices.
LEMMA FoldsExist ==
    ASSUME NEW n \in Nat, NEW T, NEW l, \A i \in 1..n : l[i] \in T,
           NEW W, NEW base \in W, NEW G \in [W \X T -> W]
    PROVE  \E h \in [SUBSET (1..n) -> W] : FoldsUp(h, n, l, base, G)
<1>. DEFINE S == 1..n
            Step(h, s) == IF s = {} THEN base ELSE G[<<h[s \ {Max(s)}], l[Max(s)]>>]
            Upto(h, k) == \A s \in SUBSET S : Cardinality(s) <= k => h[s] = Step(h, s)
            B == {k \in Nat : \E h \in [SUBSET S -> W] : Upto(h, k)}
<1>0. IsFiniteSet(S) /\ \A s \in SUBSET S : s # {} => Max(s) \in s
  <2>1. 1 \in Int /\ n \in Int
    OBVIOUS
  <2>2. IsFiniteSet(S)
    BY <2>1, FS_Interval
  <2>3. ASSUME NEW s \in SUBSET S, s # {} PROVE Max(s) \in s
    BY <2>3, LargestIn
  <2>. QED
    BY <2>2, <2>3
<1>. HIDE DEF S
<1>1. 0 \in B
  <2>. DEFINE h == [s \in SUBSET S |-> base]
  <2>1. ASSUME NEW s \in SUBSET S, Cardinality(s) <= 0 PROVE h[s] = Step(h, s)
    <3>1. s = {}
      BY <1>0, <2>1, FS_Subset, FS_CardinalityType, FS_EmptySet
    <3>. QED
      BY <3>1
  <2>2. h \in [SUBSET S -> W]
    OBVIOUS
  <2>. HIDE DEF h, Step
  <2>. QED
    BY <2>1, <2>2
<1>2. ASSUME NEW k \in Nat, k \in B PROVE k + 1 \in B
  <2>1. PICK g \in [SUBSET S -> W] : Upto(g, k)
    BY <1>2
  <2>. DEFINE h == [s \in SUBSET S |-> Step(g, s)]
  <2>2. ASSUME NEW s \in SUBSET S, Cardinality(s) <= k + 1 PROVE h[s] = Step(h, s)
    <3>1. CASE s = {}
      BY <3>1
    <3>2. CASE s # {}
      <4>. DEFINE t == s \ {Max(s)}
      <4>1. t \in SUBSET S /\ Cardinality(t) <= k
        BY <1>0, <2>2, <3>2, FS_Subset, FS_RemoveElement, FS_CardinalityType
      <4>2. h[t] = Step(g, t) /\ g[t] = Step(g, t)
        BY <2>1, <4>1
      <4>. QED
        BY <3>2, <4>2
    <3>. QED
      BY <3>1, <3>2
  <2>3. ASSUME NEW s \in SUBSET S PROVE Step(g, s) \in W
    <3>1. CASE s # {}
      <4>1. Max(s) \in S /\ s \ {Max(s)} \in SUBSET S
        BY <1>0, <3>1
      <4>2. g[s \ {Max(s)}] \in W /\ l[Max(s)] \in T
        BY <4>1 DEF S
      <4>. QED
        BY <3>1, <4>2
    <3>. QED
      BY <3>1
  <2>4. h \in [SUBSET S -> W]
    BY <2>3
  <2>. HIDE DEF h, Step
  <2>. QED
    BY <2>2, <2>4
<1>. HIDE DEF B
<1>3. Cardinality(S) \in B
  BY <1>0, <1>1, <1>2, NatSet, FS_CardinalityType
<1>4. PICK g \in [SUBSET S -> W] : Upto(g, Cardinality(S))
  BY <1>3 DEF B
<1>5. ASSUME NEW s \in SUBSET S PROVE g[s] = Step(g, s)
  BY <1>0, <1>4, FS_Subset
<1>. QED
  BY <1>5 DEF S, FoldsUp
=============================================================================

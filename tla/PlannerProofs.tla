--------------------------- MODULE PlannerProofs ---------------------------
(***************************************************************************)
(* Proofs about Planner: a finished search has found a best placement.     *)
(*                                                                         *)
(* The argument is that of the dynamic program.  Every label stands for a  *)
(* layout (LabelInv), so no score is too low.  None is too high: a layout  *)
(* of one device is in the table from the start (SeedInv); any other is    *)
(* one that has grown (CutLayout, GrownLayout), the shorter one has a      *)
(* label by induction on the layers, and once that label has been extended *)
(* what grows from it costs no more (StepInv).  That a label does not      *)
(* improve after it has been extended is the order of the loops (OrderInv).*)
(***************************************************************************)
EXTENDS Planner, FiniteSetTheorems, WellFoundedInduction, TLAPS

-----------------------------------------------------------------------------
(* Sums, as the folds of the community modules define them.                *)

(* The sum of the values of a function over a set of its arguments.        *)
SumOf(g, S) == MapThenSumSet(LAMBDA c : g[c], S)

(* The fold is a function on the subsets of a set: h computes it.          *)
AnyOf(s) == CHOOSE x \in s : TRUE
SumFold(h, g, U) ==
  h = [s \in SUBSET U |-> IF s = {} THEN 0 ELSE g[AnyOf(s)] + h[s \ {AnyOf(s)}]]

(* A set of numbers that holds 0 and with a number the next holds all.     *)
LEMMA AllNumbers ==
  ASSUME NEW T, 0 \in T, \A n \in Nat : n \in T => n + 1 \in T
  PROVE  Nat \subseteq T
<1> SUFFICES ASSUME ~ (Nat \subseteq T)
             PROVE  FALSE
  OBVIOUS
<1> DEFINE R == OpToRel(<, Nat)
           M == Nat \ T
<1>1. IsWellFoundedOn(R, Nat) /\ \A x, y \in Nat : x < y => <<x, y>> \in R
  BY NatLessThanWellFounded DEF OpToRel
<1>2. M \subseteq Nat /\ M # {}
  OBVIOUS
<1> HIDE DEF R, M
<1>3. PICK n \in M : \A m \in M : ~ (<<m, n>> \in R)
  BY <1>1, <1>2, WFMin, Zenon
<1> USE DEF M
<1>4. n - 1 \in Nat /\ n - 1 < n
  BY <1>3
<1>5. n - 1 \in T
  BY <1>1, <1>3, <1>4
<1>6. (n - 1) + 1 \in T
  BY <1>4, <1>5
<1> QED BY <1>3, <1>6

(* Some function computes the fold, for the sets of up to n elements and   *)
(* then for all.                                                           *)
LEMMA SumsExist ==
  ASSUME NEW g, NEW U, IsFiniteSet(U)
  PROVE  \E h : SumFold(h, g, U)
<1> DEFINE Small(n) == {s \in SUBSET U : Cardinality(s) <= n}
           Upto(h, n) == h = [s \in Small(n) |->
                                IF s = {} THEN 0 ELSE g[AnyOf(s)] + h[s \ {AnyOf(s)}]]
           T == {n \in Nat : \E h : Upto(h, n)}
<1>1. \A s \in SUBSET U : IsFiniteSet(s) /\ Cardinality(s) \in Nat
  BY FS_Subset, FS_CardinalityType
<1>2. \A s \in SUBSET U : s # {} => /\ AnyOf(s) \in s /\ s \ {AnyOf(s)} \in SUBSET U
                                    /\ Cardinality(s \ {AnyOf(s)}) = Cardinality(s) - 1
  BY <1>1, FS_RemoveElement DEF AnyOf
<1>3. 0 \in T
  <2>1. Small(0) = {{}}
    <3>1. \A s \in SUBSET U : Cardinality(s) <= 0 <=> s = {}
      BY <1>1, FS_EmptySet
    <3> QED BY <3>1
  <2> DEFINE h == [s \in {{}} |-> 0]
  <2>2. \A s \in Small(0) : s = {}
    BY <2>1
  <2>3. Upto(h, 0)
    BY <2>1, <2>2
  <2> QED BY <2>3
<1>4. ASSUME NEW n \in Nat, n \in T
      PROVE  n + 1 \in T
  <2>1. PICK h : Upto(h, n)
    BY <1>4
  <2> DEFINE k == [s \in Small(n + 1) |->
                     IF s = {} THEN 0 ELSE g[AnyOf(s)] + h[s \ {AnyOf(s)}]]
  <2>2. \A s \in Small(n) : s \in Small(n + 1)
    BY <1>1
  <2>3. \A s \in Small(n) : h[s] = IF s = {} THEN 0 ELSE g[AnyOf(s)] + h[s \ {AnyOf(s)}]
    BY <2>1
  <2>4. \A s \in Small(n) : k[s] = h[s]
    BY <2>2, <2>3
  <2>5. \A s \in Small(n + 1) : s # {} => s \ {AnyOf(s)} \in Small(n)
    BY <1>1, <1>2
  <2>6. \A s \in Small(n + 1) :
          (IF s = {} THEN 0 ELSE g[AnyOf(s)] + h[s \ {AnyOf(s)}])
            = (IF s = {} THEN 0 ELSE g[AnyOf(s)] + k[s \ {AnyOf(s)}])
    BY <2>4, <2>5
  <2> HIDE DEF Small
  <2>7. k = [s \in Small(n + 1) |-> IF s = {} THEN 0 ELSE g[AnyOf(s)] + k[s \ {AnyOf(s)}]]
    BY <2>6, Zenon
  <2>8. Upto(k, n + 1)
    BY <2>7, Zenon
  <2> HIDE DEF Upto
  <2> QED BY <2>8
<1>5. Cardinality(U) \in T
  BY <1>1, <1>3, <1>4, AllNumbers
<1>6. PICK h : Upto(h, Cardinality(U))
  BY <1>5
<1>7. Small(Cardinality(U)) = SUBSET U
  BY FS_Subset
<1> HIDE DEF Small
<1> QED BY <1>6, <1>7 DEF SumFold

(* The functions that compute the fold agree where both are defined.       *)
LEMMA SumsAgree ==
  ASSUME NEW g, NEW U, NEW V, IsFiniteSet(U), NEW h, NEW k, SumFold(h, g, U), SumFold(k, g, V),
         NEW S, S \subseteq U, S \subseteq V
  PROVE  h[S] = k[S]
<1> DEFINE T == {n \in Nat : \A s \in SUBSET (U \cap V) : Cardinality(s) = n => h[s] = k[s]}
<1>1. \A s \in SUBSET (U \cap V) : IsFiniteSet(s) /\ Cardinality(s) \in Nat
  BY FS_Subset, FS_CardinalityType
<1>2. \A s \in SUBSET U : h[s] = IF s = {} THEN 0 ELSE g[AnyOf(s)] + h[s \ {AnyOf(s)}]
  BY DEF SumFold
<1>3. \A s \in SUBSET V : k[s] = IF s = {} THEN 0 ELSE g[AnyOf(s)] + k[s \ {AnyOf(s)}]
  BY DEF SumFold
<1>4. 0 \in T
  <2>1. \A s \in SUBSET (U \cap V) : Cardinality(s) = 0 => s = {}
    BY <1>1, FS_EmptySet
  <2>2. h[{}] = 0 /\ k[{}] = 0
    BY <1>2, <1>3
  <2> QED BY <2>1, <2>2
<1>5. ASSUME NEW n \in Nat, n \in T
      PROVE  n + 1 \in T
  <2> SUFFICES ASSUME NEW s \in SUBSET (U \cap V), Cardinality(s) = n + 1
               PROVE  h[s] = k[s]
    OBVIOUS
  <2>1. s # {}
    BY FS_EmptySet
  <2>2. AnyOf(s) \in s
    BY <2>1 DEF AnyOf
  <2>3. Cardinality(s \ {AnyOf(s)}) = n /\ s \ {AnyOf(s)} \in SUBSET (U \cap V)
    <3>1. IsFiniteSet(s)
      BY <1>1
    <3>2. Cardinality(s \ {AnyOf(s)}) = Cardinality(s) - 1
      BY <2>2, <3>1, FS_RemoveElement
    <3> QED BY <3>2
  <2>4. h[s \ {AnyOf(s)}] = k[s \ {AnyOf(s)}]
    BY <1>5, <2>3
  <2>5. s \in SUBSET U /\ s \in SUBSET V
    OBVIOUS
  <2> QED BY <1>2, <1>3, <2>1, <2>4, <2>5
<1>6. Cardinality(S) \in T
  <2>1. Cardinality(S) \in Nat
    BY <1>1
  <2> QED BY <1>4, <1>5, <2>1, AllNumbers
<1> QED BY <1>6

(* The sum is what any function that computes the fold says.               *)
LEMMA SumIs ==
  ASSUME NEW g, NEW U, IsFiniteSet(U), NEW S \in SUBSET U, NEW h, SumFold(h, g, U)
  PROVE  SumOf(g, S) = h[S]
<1> DEFINE k == CHOOSE k : SumFold(k, g, S)
<1>1. SumOf(g, S) = k[S]
  BY DEF SumOf, MapThenSumSet, MapThenFoldSet, SumFold, AnyOf
<1>2. IsFiniteSet(S)
  BY FS_Subset
<1>3. SumFold(k, g, S)
  BY <1>2, SumsExist
<1> HIDE DEF k
<1>4. k[S] = h[S]
  <2>1. S \subseteq S /\ S \subseteq U
    OBVIOUS
  <2> QED BY <1>2, <1>3, <2>1, SumsAgree
<1> QED BY <1>1, <1>4

(* The sum over nothing.                                                   *)
LEMMA SumEmpty ==
  ASSUME NEW g
  PROVE  SumOf(g, {}) = 0
<1>1. IsFiniteSet({})
  BY FS_EmptySet
<1>2. PICK h : SumFold(h, g, {})
  BY <1>1, SumsExist
<1>3. h[{}] = 0
  BY <1>2 DEF SumFold
<1> QED BY <1>1, <1>2, <1>3, SumIs

(* A sum of natural numbers is one, and grows by the value of a new        *)
(* element.                                                                *)
LEMMA SumAdd ==
  ASSUME NEW g, NEW S, IsFiniteSet(S), NEW x, x \notin S,
         \A c \in S \cup {x} : g[c] \in Nat
  PROVE  /\ SumOf(g, S) \in Nat
         /\ SumOf(g, S \cup {x}) = SumOf(g, S) + g[x]
<1> DEFINE U == S \cup {x}
<1>1. IsFiniteSet(U)
  BY FS_AddElement
<1>2. PICK h : SumFold(h, g, U)
  BY <1>1, SumsExist
<1>3. \A c \in U : g[c] \in Nat
  OBVIOUS
<1>4. \A s \in SUBSET U : h[s] = IF s = {} THEN 0 ELSE g[AnyOf(s)] + h[s \ {AnyOf(s)}]
  BY <1>2 DEF SumFold
<1>5. \A s \in SUBSET U : IsFiniteSet(s) /\ Cardinality(s) \in Nat
  BY <1>1, FS_Subset, FS_CardinalityType
<1> HIDE DEF U
<1> DEFINE T == {n \in Nat : \A s \in SUBSET U : Cardinality(s) = n =>
                    h[s] \in Nat /\ \A y \in U \ s : h[s \cup {y}] = h[s] + g[y]}
<1>6. 0 \in T
  <2>1. \A s \in SUBSET U : Cardinality(s) = 0 => s = {}
    BY <1>5, FS_EmptySet
  <2>2. h[{}] = 0
    BY <1>4
  <2>3. ASSUME NEW y \in U
        PROVE  h[{y}] = g[y]
    <3>1. AnyOf({y}) = y /\ {y} \ {AnyOf({y})} = {} /\ {y} \in SUBSET U /\ {y} # {}
      BY DEF AnyOf
    <3>2. h[{y}] = g[y] + 0
      BY <1>4, <2>2, <3>1
    <3> QED BY <1>3, <3>2
  <2>4. ASSUME NEW y \in U
        PROVE  h[{} \cup {y}] = h[{}] + g[y]
    <3>1. {} \cup {y} = {y}
      OBVIOUS
    <3>2. h[{y}] = g[y] /\ g[y] \in Nat
      BY <1>3, <2>3
    <3> QED BY <2>2, <3>1, <3>2
  <2>5. \A y \in U \ {} : h[{} \cup {y}] = h[{}] + g[y]
    BY <2>4
  <2> HIDE DEF T
  <2>6. \A s \in SUBSET U : Cardinality(s) = 0 =>
          h[s] \in Nat /\ \A y \in U \ s : h[s \cup {y}] = h[s] + g[y]
    <3> SUFFICES ASSUME NEW s \in SUBSET U, Cardinality(s) = 0
                 PROVE  h[s] \in Nat /\ \A y \in U \ s : h[s \cup {y}] = h[s] + g[y]
      OBVIOUS
    <3>1. s = {}
      BY <2>1
    <3> QED BY <2>2, <2>5, <3>1
  <2> QED BY <2>6 DEF T
<1>7. ASSUME NEW n \in Nat, n \in T
      PROVE  n + 1 \in T
  <2> SUFFICES ASSUME NEW s \in SUBSET U, Cardinality(s) = n + 1
               PROVE  h[s] \in Nat /\ \A y \in U \ s : h[s \cup {y}] = h[s] + g[y]
    OBVIOUS
  <2>1. s # {}
    BY FS_EmptySet
  <2>2. ASSUME NEW z \in s
        PROVE  /\ s \ {z} \in SUBSET U /\ Cardinality(s \ {z}) = n
               /\ h[s \ {z}] \in Nat /\ \A y \in U \ (s \ {z}) : h[(s \ {z}) \cup {y}] = h[s \ {z}] + g[y]
    <3>1. s \ {z} \in SUBSET U /\ Cardinality(s \ {z}) = n
      BY <1>5, FS_RemoveElement
    <3> QED BY <1>7, <3>1
  <2>3. ASSUME NEW z \in s
        PROVE  h[s] = h[s \ {z}] + g[z] /\ h[s] \in Nat
    <3>1. (s \ {z}) \cup {z} = s /\ z \in U \ (s \ {z})
      OBVIOUS
    <3>2. h[(s \ {z}) \cup {z}] = h[s \ {z}] + g[z]
      BY <2>2, <3>1
    <3>3. g[z] \in Nat /\ h[s \ {z}] \in Nat
      BY <1>3, <2>2
    <3>4. h[s] = h[s \ {z}] + g[z]
      BY <3>1, <3>2
    <3> QED BY <3>3, <3>4
  <2>4. ASSUME NEW y \in U \ s
        PROVE  h[s \cup {y}] = h[s] + g[y]
    <3> DEFINE t == s \cup {y}
               p == AnyOf(t)
    <3>1. t \in SUBSET U /\ t # {} /\ p \in t
      BY DEF AnyOf
    <3>2. h[t] = g[p] + h[t \ {p}]
      BY <1>4, <3>1
    <3>3. g[y] \in Nat /\ g[p] \in Nat
      BY <1>3, <3>1
    <3>4. h[s] \in Nat
      BY <2>1, <2>3
    <3> HIDE DEF p
    <3>5. CASE p = y
      <4>1. t \ {p} = s
        BY <3>5
      <4>2. h[t] = g[y] + h[s]
        BY <3>2, <3>5, <4>1
      <4> HIDE DEF t
      <4>3. h[t] = h[s] + g[y]
        BY <3>3, <3>4, <4>2
      <4> QED BY <4>3 DEF t
    <3>6. CASE p # y
      <4>1. p \in s
        BY <3>1, <3>6
      <4>2. t \ {p} = (s \ {p}) \cup {y} /\ y \in U \ (s \ {p})
        BY <3>6
      <4>3. h[t \ {p}] = h[s \ {p}] + g[y]
        BY <2>2, <4>1, <4>2
      <4>4. h[s] = h[s \ {p}] + g[p] /\ h[s \ {p}] \in Nat
        BY <2>2, <2>3, <4>1
      <4> HIDE DEF t
      <4>5. h[t] = h[s] + g[y]
        BY <3>2, <3>3, <4>3, <4>4
      <4> QED BY <4>5 DEF t
    <3> QED BY <3>5, <3>6
  <2> QED BY <2>1, <2>3, <2>4
<1>8. S \in SUBSET U /\ x \in U \ S
  BY DEF U
<1>9. Cardinality(S) \in T
  <2>1. Cardinality(S) \in Nat
    BY <1>5, <1>8
  <2> QED BY <1>6, <1>7, <2>1, AllNumbers
<1>10. h[S] \in Nat /\ h[S \cup {x}] = h[S] + g[x]
  BY <1>8, <1>9
<1>11. SumOf(g, S) = h[S] /\ SumOf(g, U) = h[U]
  BY <1>1, <1>2, <1>8, SumIs
<1> QED BY <1>10, <1>11 DEF U

(* A sum of natural numbers is a natural number.                           *)
LEMMA SumType ==
  ASSUME NEW g, NEW S, IsFiniteSet(S), \A c \in S : g[c] \in Nat
  PROVE  SumOf(g, S) \in Nat
<1>1. CASE S = {}
  BY <1>1, SumEmpty
<1>2. CASE S # {}
  <2>1. PICK x \in S : TRUE
    BY <1>2
  <2> DEFINE R == S \ {x}
  <2>2. IsFiniteSet(R) /\ x \notin R /\ \A c \in R \cup {x} : g[c] \in Nat
    BY FS_Subset
  <2>3. R \cup {x} = S
    OBVIOUS
  <2> HIDE DEF R
  <2>4. SumOf(g, R) \in Nat /\ SumOf(g, R \cup {x}) = SumOf(g, R) + g[x]
    BY <2>2, SumAdd
  <2>5. SumOf(g, R) + g[x] \in Nat
    BY <2>2, <2>4
  <2>6. SumOf(g, R \cup {x}) \in Nat
    BY <2>4, <2>5
  <2> QED BY <2>3, <2>6
<1> QED BY <1>1, <1>2

(* Only the values over the set count.                                     *)
LEMMA SumSame ==
  ASSUME NEW g, NEW h, NEW S, IsFiniteSet(S), \A c \in S : g[c] \in Nat /\ h[c] = g[c]
  PROVE  SumOf(h, S) = SumOf(g, S)
<1> DEFINE T == {n \in Nat : \A s \in SUBSET S : Cardinality(s) = n => SumOf(h, s) = SumOf(g, s)}
<1>1. \A s \in SUBSET S : IsFiniteSet(s) /\ Cardinality(s) \in Nat
  BY FS_Subset, FS_CardinalityType
<1>2. 0 \in T
  <2>1. \A s \in SUBSET S : Cardinality(s) = 0 => s = {}
    BY <1>1, FS_EmptySet
  <2>2. SumOf(h, {}) = 0 /\ SumOf(g, {}) = 0
    BY SumEmpty
  <2> QED BY <2>1, <2>2
<1>3. ASSUME NEW n \in Nat, n \in T
      PROVE  n + 1 \in T
  <2> SUFFICES ASSUME NEW s \in SUBSET S, Cardinality(s) = n + 1
               PROVE  SumOf(h, s) = SumOf(g, s)
    OBVIOUS
  <2>1. IsFiniteSet(s) /\ s # {}
    BY <1>1, FS_EmptySet
  <2>2. PICK x \in s : TRUE
    BY <2>1
  <2> DEFINE r == s \ {x}
  <2>3. IsFiniteSet(r) /\ Cardinality(r) = Cardinality(s) - 1
    BY <2>1, FS_RemoveElement
  <2>4. r \in SUBSET S /\ x \in S /\ x \notin r /\ r \cup {x} = s
    OBVIOUS
  <2> HIDE DEF r
  <2>5. Cardinality(r) = n
    BY <2>3
  <2>6. SumOf(h, r) = SumOf(g, r)
    BY <1>3, <2>4, <2>5
  <2>7. \A c \in r \cup {x} : g[c] \in Nat /\ h[c] \in Nat
    BY <2>4
  <2>8. SumOf(g, r \cup {x}) = SumOf(g, r) + g[x]
    BY <2>3, <2>4, <2>7, SumAdd
  <2>9. SumOf(h, r \cup {x}) = SumOf(h, r) + h[x]
    BY <2>3, <2>4, <2>7, SumAdd
  <2>10. h[x] = g[x]
    BY <2>4
  <2> QED BY <2>4, <2>6, <2>8, <2>9, <2>10
<1>4. Cardinality(S) \in T
  <2>1. Cardinality(S) \in Nat
    BY <1>1
  <2> QED BY <1>2, <1>3, <2>1, AllNumbers
<1> QED BY <1>4

-----------------------------------------------------------------------------
(* Extremes of sets of numbers, and the first element of an order.         *)

(* R orders the elements of S.                                             *)
Orders(R, S) ==
  /\ \A x, y \in S : x # y => <<x, y>> \in R \/ <<y, x>> \in R
  /\ \A x, y, z \in S : <<x, y>> \in R /\ <<y, z>> \in R => <<x, z>> \in R

(* A finite set has a first element in every total order of its elements.  *)
LEMMA FirstExists ==
  ASSUME NEW R, NEW S, IsFiniteSet(S), S # {}, Orders(R, S)
  PROVE  \E x \in S : \A y \in S \ {x} : <<x, y>> \in R
<1> DEFINE Has(s) == \E x \in s : \A y \in s \ {x} : <<x, y>> \in R
           T == {n \in Nat : \A s \in SUBSET S : Cardinality(s) = n + 1 => Has(s)}
<1>1. \A s \in SUBSET S : IsFiniteSet(s) /\ Cardinality(s) \in Nat
  BY FS_Subset, FS_CardinalityType
<1>2. \A s \in SUBSET S : \A z \in s : /\ s \ {z} \in SUBSET S
                                       /\ Cardinality(s \ {z}) = Cardinality(s) - 1
  BY <1>1, FS_RemoveElement
<1>3. \A s \in SUBSET S : Cardinality(s) = 0 <=> s = {}
  BY <1>1, FS_EmptySet
<1>4. 0 \in T
  <2> SUFFICES ASSUME NEW s \in SUBSET S, Cardinality(s) = 0 + 1
               PROVE  Has(s)
    OBVIOUS
  <2>1. PICK z \in s : TRUE
    BY <1>3
  <2>2. Cardinality(s \ {z}) = 0
    BY <1>2
  <2>3. s \ {z} = {}
    BY <1>2, <1>3, <2>2
  <2> QED BY <2>3
<1>5. ASSUME NEW n \in Nat, n \in T
      PROVE  n + 1 \in T
  <2> SUFFICES ASSUME NEW s \in SUBSET S, Cardinality(s) = (n + 1) + 1
               PROVE  Has(s)
    OBVIOUS
  <2>1. s # {}
    BY <1>3
  <2>2. PICK z \in s : TRUE
    BY <2>1
  <2>3. Cardinality(s \ {z}) = n + 1 /\ s \ {z} \in SUBSET S
    BY <1>2
  <2>4. Has(s \ {z})
    BY <1>5, <2>3
  <2>5. PICK x \in s \ {z} : \A y \in (s \ {z}) \ {x} : <<x, y>> \in R
    BY <2>4
  <2>6. x \in S /\ z \in S /\ x # z
    OBVIOUS
  <2>7. CASE <<x, z>> \in R
    BY <2>5, <2>7
  <2>8. CASE <<z, x>> \in R
    <3>1. \A y \in s \ {z} : <<z, y>> \in R
      BY <2>5, <2>6, <2>8 DEF Orders
    <3> QED BY <3>1
  <2> QED BY <2>6, <2>7, <2>8 DEF Orders
<1>6. PICK n \in Nat : Cardinality(S) = n + 1
  <2>1. Cardinality(S) \in Nat /\ Cardinality(S) # 0
    BY <1>1, <1>3
  <2> QED BY <2>1
<1>7. n \in T
  BY <1>4, <1>5, AllNumbers
<1> QED BY <1>6, <1>7

(* The least of a finite set of numbers.                                   *)
LEMMA MinIs ==
  ASSUME NEW S, S \subseteq Nat, IsFiniteSet(S), S # {}
  PROVE  Min(S) \in S /\ \A x \in S : Min(S) <= x
<1> DEFINE R == {p \in S \X S : p[1] < p[2]}
<1>1. \A x, y \in S : <<x, y>> \in R <=> x < y
  OBVIOUS
<1> HIDE DEF R
<1>2. Orders(R, S)
  BY <1>1 DEF Orders
<1>3. \E x \in S : \A y \in S \ {x} : <<x, y>> \in R
  BY <1>2, FirstExists
<1>4. PICK x \in S : \A y \in S \ {x} : <<x, y>> \in R
  BY <1>3
<1>5. \A y \in S : x <= y
  <2> TAKE y \in S
  <2>1. x \in Nat /\ y \in Nat /\ (x # y => <<x, y>> \in R)
    BY <1>4
  <2>2. x # y => x < y
    BY <1>1, <2>1
  <2> QED BY <2>1, <2>2
<1> QED BY <1>4, <1>5 DEF Min

(* And the greatest.                                                       *)
LEMMA MaxIs ==
  ASSUME NEW S, S \subseteq Nat, IsFiniteSet(S), S # {}
  PROVE  Max(S) \in S /\ \A x \in S : x <= Max(S)
<1> DEFINE R == {p \in S \X S : p[2] < p[1]}
<1>1. \A x, y \in S : <<x, y>> \in R <=> y < x
  OBVIOUS
<1> HIDE DEF R
<1>2. Orders(R, S)
  BY <1>1 DEF Orders
<1>3. \E x \in S : \A y \in S \ {x} : <<x, y>> \in R
  BY <1>2, FirstExists
<1>4. PICK x \in S : \A y \in S \ {x} : <<x, y>> \in R
  BY <1>3
<1>5. \A y \in S : x >= y
  <2> TAKE y \in S
  <2>1. x \in Nat /\ y \in Nat /\ (x # y => <<x, y>> \in R)
    BY <1>4
  <2>2. x # y => y < x
    BY <1>1, <2>1
  <2> QED BY <2>1, <2>2
<1> QED BY <1>4, <1>5 DEF Max

(* The ends of an interval.                                                *)
LEMMA Ends ==
  ASSUME NEW a \in Nat, NEW b \in Nat, a <= b
  PROVE  Min(a .. b) = a /\ Max(a .. b) = b
<1>1. IsFiniteSet(a .. b) /\ a .. b \subseteq Nat /\ a .. b # {} /\ a \in a .. b /\ b \in a .. b
  <2>1. a \in Int /\ b \in Int /\ a \in a .. b /\ b \in a .. b /\ a .. b \subseteq Nat
    OBVIOUS
  <2>2. IsFiniteSet(a .. b)
    BY <2>1, FS_Interval
  <2> QED BY <2>1, <2>2
<1>2. Min(a .. b) \in a .. b /\ \A x \in a .. b : Min(a .. b) <= x
  BY <1>1, MinIs
<1>3. Max(a .. b) \in a .. b /\ \A x \in a .. b : x <= Max(a .. b)
  BY <1>1, MaxIs
<1> QED BY <1>1, <1>2, <1>3

(* The values of a function on a finite set.                               *)
LEMMA ImageFinite ==
  ASSUME NEW f, NEW S, IsFiniteSet(S)
  PROVE  IsFiniteSet({f[x] : x \in S})
<1> DEFINE T == {f[x] : x \in S}
           g == [x \in S |-> f[x]]
<1>1. g \in [S -> T] /\ \A t \in T : \E x \in S : g[x] = t
  OBVIOUS
<1> HIDE DEF T, g
<1>2. g \in Surjection(S, T)
  BY <1>1 DEF Surjection
<1>3. IsFiniteSet(T)
  BY <1>2, FS_Surjection
<1> QED BY <1>3 DEF T

(* The greatest of a set with one number more.                             *)
LEMMA MaxAdd ==
  ASSUME NEW S, S \subseteq Nat, IsFiniteSet(S), S # {}, NEW x \in Nat
  PROVE  Max(S \cup {x}) = IF Max(S) < x THEN x ELSE Max(S)
<1> DEFINE T == S \cup {x}
<1>1. IsFiniteSet(T) /\ T \subseteq Nat /\ T # {}
  BY FS_AddElement
<1>2. Max(S) \in S /\ \A y \in S : y <= Max(S)
  BY MaxIs
<1>3. Max(T) \in T /\ \A y \in T : y <= Max(T)
  BY <1>1, MaxIs
<1>4. x \in T /\ Max(S) \in T /\ \A y \in T : y \in S \/ y = x
  BY <1>2
<1>5. Max(S) \in Nat /\ Max(T) \in Nat
  BY <1>1, <1>2, <1>3
<1> HIDE DEF T
<1>6. x <= Max(T) /\ Max(S) <= Max(T) /\ (Max(T) <= Max(S) \/ Max(T) = x)
  BY <1>2, <1>3, <1>4
<1>7. Max(T) = IF Max(S) < x THEN x ELSE Max(S)
  BY <1>5, <1>6
<1> QED BY <1>7 DEF T

(* The greatest of one number.                                             *)
LEMMA MaxOne ==
  ASSUME NEW x \in Nat
  PROVE  Max({x}) = x
<1>1. IsFiniteSet({x}) /\ {x} \subseteq Nat /\ {x} # {}
  BY FS_Singleton
<1> QED BY <1>1, MaxIs

(* Products of natural numbers.                                            *)
LEMMA ProductNat ==
  ASSUME NEW x \in Nat, NEW y \in Nat
  PROVE  x * y \in Nat
OBVIOUS

-----------------------------------------------------------------------------
(* Devices and layouts.                                                    *)

(* A profile that validate let pass.                                       *)
Checked == profile \in Profiles /\ Valid

(* The enabled devices are finitely many, and the bounds on them numbers.  *)
LEMMA DevicesAre ==
  ASSUME Checked
  PROVE  /\ IsFiniteSet(Devices) /\ Devices \subseteq Nat
         /\ NumLayers \in Nat /\ NumDevices \in Nat
         /\ MaxDevices \in Nat /\ MaxDevices >= 1
         /\ profile.min_devices \in Nat \ {0}
<1>1. /\ DOMAIN profile.devices \subseteq Nat /\ IsFiniteSet(DOMAIN profile.devices)
      /\ profile.max_devices \in Nat \cup {None}
      /\ profile.num_layers \in Nat /\ profile.min_devices \in Nat
  <2>1. \A field \in {"num_layers", "min_devices"} : profile[field] \in Nat
    BY ProfilesAssumption DEF Checked
  <2> QED BY <2>1, ProfilesAssumption DEF Checked
<1>2. Devices \subseteq DOMAIN profile.devices
  BY DEF Devices
<1>3. IsFiniteSet(Devices)
  BY <1>1, <1>2, FS_Subset
<1>4. NumDevices \in Nat
  BY <1>3, FS_CardinalityType DEF NumDevices
<1>5. NumDevices >= 1 /\ profile.max_devices # 0 /\ profile.min_devices > 0
  BY <1>4 DEF Checked, Valid, ValidObjective, ValidCount
<1>6. MaxDevices \in Nat /\ MaxDevices >= 1
  <2>1. CASE profile.max_devices = None
    BY <1>4, <1>5, <2>1 DEF MaxDevices
  <2>2. CASE profile.max_devices # None
    <3>1. profile.max_devices \in Nat
      BY <1>1, <2>2
    <3> QED BY <1>4, <1>5, <2>2, <3>1 DEF MaxDevices, Lesser, Greater
  <2> QED BY <2>1, <2>2
<1> QED BY <1>1, <1>2, <1>3, <1>4, <1>5, <1>6 DEF NumLayers

(* What a device costs is a number: first the sums over layers,            *)
LEMMA SumOverType ==
  ASSUME NEW metric, NEW a \in Int, NEW b \in Int, \A l \in a .. b : metric[l] \in Nat
  PROVE  SumOver(metric, a, b) \in Nat
<1>1. IsFiniteSet(a .. b)
  BY FS_Interval
<1>2. SumOf(metric, a .. b) \in Nat
  BY <1>1, SumType
<1> QED BY <1>2 DEF SumOf, SumOver

(* the figures of the profile,                                             *)
LEMMA ProfileNumbers ==
  ASSUME Checked
  PROVE  /\ profile.prompt_tokens \in Nat /\ profile.output_tokens \in Nat
         /\ profile.ttft_weight \in Nat /\ profile.tpot_weight \in Nat
         /\ profile.energy_weight \in Nat /\ profile.penalty \in Nat
         /\ profile.risk \in Nat /\ RiskUnit \in Nat /\ RiskUnit - profile.risk \in Nat
         /\ profile.algorithm \in {"dial", "edgeshard-latency", "edgeshard-throughput"}
<1>1. /\ \A field \in {"num_layers", "max_seq", "prompt_tokens", "output_tokens", "kv_context",
                       "kv_per_token", "ttft_weight", "tpot_weight", "risk", "energy_weight",
                       "penalty", "min_devices"} : profile[field] \in Nat
      /\ profile.algorithm \in {"dial", "edgeshard-latency", "edgeshard-throughput"}
  BY ProfilesAssumption DEF Checked
<1>2. profile.risk \in Nat /\ RiskUnit \in Nat /\ profile.risk <= RiskUnit
  BY <1>1, RiskAssumption DEF Checked, Valid, ValidObjective
<1> QED BY <1>1, <1>2

(* the figures of a device,                                                *)
LEMMA DeviceNumbers ==
  ASSUME Checked, NEW d \in Devices
  PROVE  /\ Device(d).latency \in Nat /\ Device(d).latency_tail \in Nat
         /\ Device(d).transfer \in Nat /\ Device(d).transfer_tail \in Nat
         /\ \A a, b \in Layers :
              /\ SumOver(Device(d).prefill, a, b) \in Nat
              /\ SumOver(Device(d).decode, a, b) \in Nat
              /\ SumOver(Device(d).prefill_tail, a, b) \in Nat
              /\ SumOver(Device(d).decode_tail, a, b) \in Nat
              /\ SumOver(Device(d).prefill_energy, a, b) \in Nat
              /\ SumOver(Device(d).decode_energy, a, b) \in Nat
<1> DEFINE dev == Device(d)
<1>1. d \in DOMAIN profile.devices
  BY DEF Devices
<1>2. /\ \A field \in {"usable", "fixed", "latency", "latency_tail", "transfer",
                       "transfer_tail"} : dev[field] \in Nat
      /\ \A metric \in Metrics : \A l \in DOMAIN dev[metric] : dev[metric][l] \in Nat
  BY <1>1, ProfilesAssumption DEF Checked, Device
<1>3. ValidDevice(dev)
  BY DEF Checked, Valid
<1>4. \A metric \in Metrics \ {"memory"} : DOMAIN dev[metric] = Layers
  BY <1>3 DEF ValidDevice, NotBelow, PerLayer, Metrics
<1> HIDE DEF dev
<1>5. ASSUME NEW metric \in Metrics \ {"memory"}, NEW a \in Layers, NEW b \in Layers
      PROVE  SumOver(dev[metric], a, b) \in Nat
  <2>1. NumLayers \in Nat
    BY DevicesAre
  <2>2. a \in Int /\ b \in Int /\ a .. b \subseteq Layers
    BY <2>1 DEF Layers
  <2>3. \A l \in a .. b : dev[metric][l] \in Nat
    BY <1>2, <1>4, <2>2
  <2> QED BY <2>2, <2>3, SumOverType
<1>6. {"prefill", "decode", "prefill_tail", "decode_tail", "prefill_energy", "decode_energy"}
        = Metrics \ {"memory"}
  BY DEF Metrics
<1>7. \A a, b \in Layers :
        /\ SumOver(dev.prefill, a, b) \in Nat
        /\ SumOver(dev.decode, a, b) \in Nat
        /\ SumOver(dev.prefill_tail, a, b) \in Nat
        /\ SumOver(dev.decode_tail, a, b) \in Nat
        /\ SumOver(dev.prefill_energy, a, b) \in Nat
        /\ SumOver(dev.decode_energy, a, b) \in Nat
  BY <1>5, <1>6
<1> QED BY <1>2, <1>7 DEF dev

(* its times,                                                              *)
LEMMA TtftType ==
  ASSUME Checked, NEW d, NEW a, NEW b, NEW prefill, NEW decode,
         NEW latency \in Nat, NEW transfer \in Nat,
         SumOver(prefill, a, b) \in Nat, SumOver(decode, a, b) \in Nat
  PROVE  /\ PrefillNet(d, latency, transfer) \in Nat
         /\ DecodeNet(d, latency, transfer) \in Nat
         /\ Ttft(d, a, b, prefill, decode, latency, transfer) \in Nat
         /\ Tpot(d, a, b, decode, latency, transfer) \in Nat
<1>1. profile.prompt_tokens * transfer \in Nat
  BY ProfileNumbers, ProductNat
<1> DEFINE x == profile.prompt_tokens * transfer
<1> HIDE DEF x
<1>2. PrefillNet(d, latency, transfer) = IF IsWorker(d) THEN latency + x ELSE 0
  BY DEF PrefillNet, x
<1>3. x \in Nat
  BY <1>1 DEF x
<1>4. PrefillNet(d, latency, transfer) \in Nat
  BY <1>2, <1>3
<1>5. DecodeNet(d, latency, transfer) \in Nat
  BY DEF DecodeNet
<1> QED BY <1>4, <1>5 DEF Ttft, Tpot

(* their weighted sum,                                                     *)
LEMMA LatencyScoreType ==
  ASSUME Checked, NEW ttft \in Nat, NEW tpot \in Nat
  PROVE  LatencyScore(ttft, tpot) \in Nat
<1>1. profile.ttft_weight * ttft \in Nat /\ profile.tpot_weight * tpot \in Nat
  BY ProfileNumbers, ProductNat
<1> QED BY <1>1 DEF LatencyScore

(* and the score of a segment by any algorithm.                            *)
LEMMA ScoreType ==
  ASSUME Checked, NEW d \in Devices, NEW a \in Layers, NEW b \in Layers
  PROVE  SegmentScore(d, a, b) \in Nat /\ MeanTtft(d, a, b) \in Nat
<1> DEFINE dev == Device(d)
<1>1. /\ dev.latency \in Nat /\ dev.latency_tail \in Nat
      /\ dev.transfer \in Nat /\ dev.transfer_tail \in Nat
      /\ SumOver(dev.prefill, a, b) \in Nat
      /\ SumOver(dev.decode, a, b) \in Nat
      /\ SumOver(dev.prefill_tail, a, b) \in Nat
      /\ SumOver(dev.decode_tail, a, b) \in Nat
      /\ SumOver(dev.prefill_energy, a, b) \in Nat
      /\ SumOver(dev.decode_energy, a, b) \in Nat
  BY DeviceNumbers
<1>2. MeanTtft(d, a, b) \in Nat /\ MeanScore(d, a, b) \in Nat /\ TailScore(d, a, b) \in Nat
  <2>1. /\ Ttft(d, a, b, dev.prefill, dev.decode, dev.latency, dev.transfer) \in Nat
        /\ Tpot(d, a, b, dev.decode, dev.latency, dev.transfer) \in Nat
    BY <1>1, TtftType
  <2>2. /\ Ttft(d, a, b, dev.prefill_tail, dev.decode_tail, dev.latency_tail,
                dev.transfer_tail) \in Nat
        /\ Tpot(d, a, b, dev.decode_tail, dev.latency_tail, dev.transfer_tail) \in Nat
    BY <1>1, TtftType
  <2> QED BY <2>1, <2>2, LatencyScoreType DEF MeanTtft, MeanScore, TailScore
<1>3. CASE profile.algorithm = "dial"
  <2>1. SegmentScore(d, a, b) = DialScore(d, a, b)
    BY <1>3 DEF SegmentScore
  <2> DEFINE mean == (RiskUnit - profile.risk) * MeanScore(d, a, b)
             tail == profile.risk * TailScore(d, a, b)
             energy == RequestEnergy(d, a, b)
             more == profile.energy_weight * energy + IF IsWorker(d) THEN profile.penalty ELSE 0
  <2>2. mean \in Nat /\ tail \in Nat
    BY <1>2, ProfileNumbers, ProductNat
  <2>3. energy \in Nat
    <3>1. profile.output_tokens * SumOver(dev.decode_energy, a, b) \in Nat
      BY <1>1, ProfileNumbers, ProductNat
    <3> QED BY <1>1, <3>1 DEF RequestEnergy
  <2>4. more \in Nat
    <3> HIDE DEF energy
    <3>1. profile.energy_weight * energy \in Nat
      BY <2>3, ProfileNumbers, ProductNat
    <3>2. (IF IsWorker(d) THEN profile.penalty ELSE 0) \in Nat
      BY ProfileNumbers
    <3> QED BY <3>1, <3>2
  <2>5. RiskUnit * more \in Nat
    <3> HIDE DEF more
    <3> QED BY <2>4, ProfileNumbers, ProductNat
  <2>6. DialScore(d, a, b) = mean + tail + RiskUnit * more
    BY DEF DialScore
  <2>7. mean + tail + RiskUnit * more \in Nat
    <3> HIDE DEF mean, tail, more
    <3> QED BY <2>2, <2>5
  <2> QED BY <1>2, <2>1, <2>6, <2>7
<1>4. CASE profile.algorithm # "dial"
  <2>1. RequestCompute(d, a, b) \in Nat
    <3>1. profile.output_tokens * SumOver(dev.decode, a, b) \in Nat
      BY <1>1, ProfileNumbers, ProductNat
    <3> QED BY <1>1, <3>1 DEF RequestCompute
  <2>2. RequestNet(d) \in Nat
    <3>1. /\ PrefillNet(d, dev.latency, dev.transfer) \in Nat
          /\ DecodeNet(d, dev.latency, dev.transfer) \in Nat
      BY <1>1, TtftType
    <3>2. profile.output_tokens * DecodeNet(d, dev.latency, dev.transfer) \in Nat
      BY <3>1, ProfileNumbers, ProductNat
    <3> QED BY <3>1, <3>2 DEF RequestNet
  <2>3. SegmentScore(d, a, b) \in {RequestCompute(d, a, b) + RequestNet(d),
                                   Greater(RequestCompute(d, a, b), RequestNet(d))}
    BY <1>4, ProfileNumbers DEF SegmentScore
  <2> QED BY <1>2, <2>1, <2>2, <2>3 DEF Greater
<1> QED BY <1>3, <1>4

-----------------------------------------------------------------------------
(* The order of the loops is total.                                        *)
LEMMA SmallerOrders ==
  ASSUME NEW a, NEW b, NEW c, a \subseteq Nat, b \subseteq Nat, c \subseteq Nat,
         IsFiniteSet(a), IsFiniteSet(b)
  PROVE  /\ a # b => Smaller(a, b) \/ Smaller(b, a)
         /\ Smaller(a, b) /\ Smaller(b, c) => Smaller(a, c)
<1>1. ASSUME a # b
      PROVE  Smaller(a, b) \/ Smaller(b, a)
  <2> DEFINE D == (a \ b) \cup (b \ a)
  <2>1. D \subseteq Nat /\ IsFiniteSet(D) /\ D # {}
    <3>1. IsFiniteSet(a \ b) /\ IsFiniteSet(b \ a)
      BY FS_Difference
    <3> QED BY <1>1, <3>1, FS_Union
  <2>2. Max(D) \in D /\ \A x \in D : x <= Max(D)
    <3> HIDE DEF D
    <3> QED BY <2>1, MaxIs
  <2>3. ASSUME NEW m \in Nat, m \in D, \A x \in D : x <= m
        PROVE  Smaller(a, b) \/ Smaller(b, a)
    <3>1. CASE m \in a \ b
      <4>1. \A e \in b \ a : e < m
        BY <2>3, <3>1
      <4> QED BY <3>1, <4>1 DEF Smaller
    <3>2. CASE m \in b \ a
      <4>1. \A e \in a \ b : e < m
        BY <2>3, <3>2
      <4> QED BY <3>2, <4>1 DEF Smaller
    <3> QED BY <2>3, <3>1, <3>2
  <2> HIDE DEF D
  <2> QED BY <2>1, <2>2, <2>3
<1>2. ASSUME Smaller(a, b), Smaller(b, c)
      PROVE  Smaller(a, c)
  <2>1. PICK d \in b \ a : \A e \in a \ b : e < d
    BY <1>2 DEF Smaller
  <2>2. PICK f \in c \ b : \A e \in b \ c : e < f
    BY <1>2 DEF Smaller
  <2>3. d \in Nat /\ f \in Nat /\ d # f
    BY <2>1, <2>2
  <2>4. CASE d > f
    <3>1. d \in c \ a
      BY <2>1, <2>2, <2>3, <2>4
    <3>2. ASSUME NEW e \in a \ c
          PROVE  e < d
      <4>1. e \in Nat
        OBVIOUS
      <4>2. e < d \/ e < f
        BY <2>1, <2>2
      <4> QED BY <2>3, <2>4, <4>1, <4>2
    <3> QED BY <3>1, <3>2 DEF Smaller
  <2>5. CASE f > d
    <3>1. f \in c \ a
      BY <2>1, <2>2, <2>3, <2>5
    <3>2. ASSUME NEW e \in a \ c
          PROVE  e < f
      <4>1. e \in Nat
        OBVIOUS
      <4>2. e < d \/ e < f
        BY <2>1, <2>2
      <4> QED BY <2>3, <2>5, <4>1, <4>2
    <3> QED BY <3>1, <3>2 DEF Smaller
  <2> QED BY <2>3, <2>4, <2>5
<1> QED BY <1>1, <1>2

(* So is that of the places of the table.                                  *)
LEMMA BeforeOrders ==
  ASSUME Checked, NEW s \in States, NEW t \in States, NEW u \in States
  PROVE  /\ s # t => Before(s, t) \/ Before(t, s)
         /\ Before(s, t) /\ Before(t, u) => Before(s, u)
<1>1. \A x \in States : /\ x.end \in Nat /\ x.last \in Nat
                        /\ x.mask \subseteq Nat /\ IsFiniteSet(x.mask)
  <2>1. \A x \in States : x.end \in Nat /\ x.last \in Devices /\ x.mask \subseteq Devices
    BY DevicesAre DEF States
  <2>2. \A m \in SUBSET Devices : IsFiniteSet(m) /\ m \subseteq Nat
    BY DevicesAre, FS_Subset
  <2> QED BY <2>1, <2>2, DevicesAre
<1>2. s = t <=> s.end = t.end /\ s.mask = t.mask /\ s.last = t.last
  BY DEF States
<1>3. /\ s.mask # t.mask => Smaller(s.mask, t.mask) \/ Smaller(t.mask, s.mask)
      /\ Smaller(s.mask, t.mask) /\ Smaller(t.mask, u.mask) => Smaller(s.mask, u.mask)
  BY <1>1, SmallerOrders
<1>4. s # t => Before(s, t) \/ Before(t, s)
  <2>1. s.end \in Nat /\ t.end \in Nat /\ s.last \in Nat /\ t.last \in Nat
    BY <1>1
  <2> QED BY <1>2, <1>3, <2>1 DEF Before
<1>5. Before(s, t) /\ Before(t, u) => Before(s, u)
  <2>1. /\ s.end \in Nat /\ t.end \in Nat /\ u.end \in Nat
        /\ s.last \in Nat /\ t.last \in Nat /\ u.last \in Nat
    BY <1>1
  <2> QED BY <1>3, <2>1 DEF Before
<1> QED BY <1>4, <1>5

(* The table is finite.                                                    *)
LEMMA StatesFinite ==
  ASSUME Checked
  PROVE  IsFiniteSet(States)
<1> DEFINE A == 1 .. NumLayers
           B == SUBSET Devices
           P == A \X (B \X Devices)
           f == [p \in P |-> State(p[1], p[2][1], p[2][2])]
<1>1. IsFiniteSet(A) /\ IsFiniteSet(B) /\ IsFiniteSet(Devices)
  <2>1. IsFiniteSet(Devices) /\ NumLayers \in Int /\ 1 \in Int
    BY DevicesAre
  <2>2. IsFiniteSet(A)
    BY <2>1, FS_Interval
  <2>3. IsFiniteSet(B)
    BY <2>1, FS_SUBSET
  <2> QED BY <2>1, <2>2, <2>3
<1>2. IsFiniteSet(P)
  <2> HIDE DEF A, B
  <2>1. IsFiniteSet(B \X Devices)
    BY <1>1, FS_Product
  <2> QED BY <1>1, <2>1, FS_Product
<1>3. IsFiniteSet({f[p] : p \in P})
  <2> HIDE DEF P, f
  <2> QED BY <1>2, ImageFinite
<1>4. States \subseteq {f[p] : p \in P}
  <2> SUFFICES ASSUME NEW s \in States
               PROVE  \E p \in P : s = f[p]
    OBVIOUS
  <2>1. s.end \in A /\ s.mask \in B /\ s.last \in Devices
    BY DEF States
  <2>2. s = State(s.end, s.mask, s.last)
    BY DEF States, State
  <2> DEFINE p == <<s.end, <<s.mask, s.last>>>>
  <2> HIDE DEF A, B
  <2>3. p \in P /\ f[p] = s
    BY <2>1, <2>2
  <2> QED BY <2>3
<1> QED BY <1>3, <1>4, FS_Subset

(* FirstOf finds the first.                                                *)
LEMMA FirstOfIs ==
  ASSUME Checked, NEW S, S \subseteq States, S # {}
  PROVE  FirstOf(S) \in S /\ \A t \in S \ {FirstOf(S)} : Before(FirstOf(S), t)
<1> DEFINE R == {p \in S \X S : Before(p[1], p[2])}
<1>1. \A x, y \in S : <<x, y>> \in R <=> Before(x, y)
  OBVIOUS
<1> HIDE DEF R
<1>2. Orders(R, S)
  BY <1>1, BeforeOrders DEF Orders
<1>3. IsFiniteSet(S)
  BY StatesFinite, FS_Subset
<1>4. PICK x \in S : \A y \in S \ {x} : <<x, y>> \in R
  BY <1>2, <1>3, FirstExists
<1>5. \A y \in S \ {x} : Before(x, y)
  BY <1>1, <1>4
<1> QED BY <1>5 DEF FirstOf

-----------------------------------------------------------------------------
(* The layout g of the first a layers, and layers a .. b - 1 on device d.  *)
Grown(g, a, d, b) == [l \in 0 .. b - 1 |-> IF l < a THEN g[l] ELSE d]

(* What is used by a layout: finitely many devices, each for layers of its *)
(* own.                                                                    *)
LEMMA UsedIs ==
  ASSUME Checked, NEW end \in 1 .. NumLayers, NEW f \in [0 .. end - 1 -> Devices]
  PROVE  /\ Used(f) \subseteq Devices /\ IsFiniteSet(Used(f)) /\ Cardinality(Used(f)) \in Nat
         /\ Used(f) # {} /\ f[end - 1] \in Used(f)
         /\ \A d \in Used(f) : /\ LayersOf(f, d) \subseteq 0 .. end - 1
                               /\ LayersOf(f, d) # {}
                               /\ LayersOf(f, d) \subseteq Nat /\ IsFiniteSet(LayersOf(f, d))
                               /\ Min(LayersOf(f, d)) \in LayersOf(f, d)
                               /\ Max(LayersOf(f, d)) \in LayersOf(f, d)
                               /\ \A l \in LayersOf(f, d) :
                                    Min(LayersOf(f, d)) <= l /\ l <= Max(LayersOf(f, d))
<1>1. end \in Nat /\ end - 1 \in 0 .. end - 1 /\ 0 .. end - 1 \subseteq Nat
  BY DevicesAre
<1>2. Used(f) \subseteq Devices /\ f[end - 1] \in Used(f)
  BY <1>1 DEF Used
<1>3. IsFiniteSet(Used(f)) /\ Cardinality(Used(f)) \in Nat
  BY <1>2, DevicesAre, FS_Subset, FS_CardinalityType
<1>4. ASSUME NEW d \in Used(f)
      PROVE  /\ LayersOf(f, d) \subseteq 0 .. end - 1
             /\ LayersOf(f, d) # {}
             /\ LayersOf(f, d) \subseteq Nat /\ IsFiniteSet(LayersOf(f, d))
             /\ Min(LayersOf(f, d)) \in LayersOf(f, d)
             /\ Max(LayersOf(f, d)) \in LayersOf(f, d)
             /\ \A l \in LayersOf(f, d) :
                  Min(LayersOf(f, d)) <= l /\ l <= Max(LayersOf(f, d))
  <2>1. LayersOf(f, d) \subseteq 0 .. end - 1 /\ LayersOf(f, d) # {}
    BY DEF LayersOf, Used
  <2>2. 0 \in Int /\ end - 1 \in Int
    BY <1>1
  <2>3. IsFiniteSet(0 .. end - 1)
    BY <2>2, FS_Interval
  <2>4. LayersOf(f, d) \subseteq Nat /\ IsFiniteSet(LayersOf(f, d))
    BY <1>1, <2>1, <2>3, FS_Subset
  <2> QED BY <2>1, <2>4, MinIs, MaxIs
<1> QED BY <1>2, <1>3, <1>4

(* The scores of a layout's devices and of the layout are numbers.         *)
LEMMA ScoresType ==
  ASSUME Checked, NEW end \in 1 .. NumLayers, NEW f \in [0 .. end - 1 -> Devices]
  PROVE  /\ DOMAIN Scores(f) = Used(f)
         /\ \A d \in Used(f) : Scores(f)[d] \in Nat
         /\ Total(Scores(f)) = SumOf(Scores(f), Used(f))
<1>1. DOMAIN Scores(f) = Used(f)
  BY DEF Scores
<1>2. ASSUME NEW d \in Used(f)
      PROVE  Scores(f)[d] \in Nat
  <2>1. d \in Devices /\ Min(LayersOf(f, d)) \in 0 .. end - 1 /\ Max(LayersOf(f, d)) \in 0 .. end - 1
    BY UsedIs
  <2>2. 0 .. end - 1 \subseteq Layers
    BY DevicesAre DEF Layers
  <2>3. SegmentScore(d, Min(LayersOf(f, d)), Max(LayersOf(f, d))) \in Nat
    BY <2>1, <2>2, ScoreType
  <2> QED BY <2>3 DEF Scores
<1>3. Total(Scores(f)) = SumOf(Scores(f), DOMAIN Scores(f))
  BY DEF Total, SumOf
<1> QED BY <1>1, <1>2, <1>3

(* The score of a layout is a number.                                      *)
LEMMA LayoutScoreType ==
  ASSUME Checked, NEW end \in 1 .. NumLayers, NEW f \in [0 .. end - 1 -> Devices]
  PROVE  LayoutScore(f) \in Nat
<1> DEFINE V == {Scores(f)[d] : d \in Used(f)}
<1>1. Total(Scores(f)) \in Nat
  BY ScoresType, UsedIs, SumType
<1>2. V \subseteq Nat /\ V # {}
  BY ScoresType, UsedIs
<1>3. IsFiniteSet(V)
  <2> DEFINE g == Scores(f)
             U == Used(f)
  <2>1. IsFiniteSet(U)
    BY UsedIs
  <2> HIDE DEF g, U
  <2>2. IsFiniteSet({g[x] : x \in U})
    BY <2>1, ImageFinite
  <2> QED BY <2>2 DEF g, U
<1> HIDE DEF V
<1>4. Max(V) \in Nat
  BY <1>2, <1>3, MaxIs
<1> QED BY <1>1, <1>4 DEF LayoutScore, V

(* One device alone.                                                       *)
LEMMA SingleLayout ==
  ASSUME Checked, NEW end \in 1 .. NumLayers, NEW d \in Devices
  PROVE  LET f == [l \in 0 .. end - 1 |-> d]
         IN  /\ f \in [0 .. end - 1 -> Devices]
             /\ Used(f) = {d} /\ f[end - 1] = d
             /\ Fits(d, 0, end - 1) => f \in Layouts(end)
             /\ LayoutScore(f) = SegmentScore(d, 0, end - 1)
<1> DEFINE f == [l \in 0 .. end - 1 |-> d]
<1>1. end \in Nat /\ end >= 1
  BY DevicesAre
<1>2. f \in [0 .. end - 1 -> Devices] /\ f[end - 1] = d
  BY <1>1
<1>3. Used(f) = {d} /\ LayersOf(f, d) = 0 .. end - 1
  <2>1. DOMAIN f = 0 .. end - 1 /\ \A l \in 0 .. end - 1 : f[l] = d
    OBVIOUS
  <2>2. end - 1 \in 0 .. end - 1
    BY <1>1
  <2> HIDE DEF f
  <2> QED BY <2>1, <2>2 DEF Used, LayersOf
<1>4. Min(0 .. end - 1) = 0 /\ Max(0 .. end - 1) = end - 1
  <2>1. 0 \in Nat /\ end - 1 \in Nat /\ 0 <= end - 1
    BY <1>1
  <2> QED BY <2>1, Ends
<1>5. Fits(d, 0, end - 1) => f \in Layouts(end)
  <2> HIDE DEF f
  <2> QED BY <1>2, <1>3, <1>4 DEF Layouts
<1>6. DOMAIN Scores(f) = {d} /\ Scores(f)[d] = SegmentScore(d, 0, end - 1)
  <2> HIDE DEF f
  <2> QED BY <1>3, <1>4 DEF Scores
<1>7. SegmentScore(d, 0, end - 1) \in Nat
  <2>1. 0 \in Layers /\ end - 1 \in Layers
    BY <1>1, DevicesAre DEF Layers
  <2> QED BY <2>1, ScoreType
<1> HIDE DEF f
<1>8. Total(Scores(f)) = SegmentScore(d, 0, end - 1)
  <2> DEFINE g == Scores(f)
  <2>1. g[d] \in Nat
    BY <1>6, <1>7
  <2>2. Total(g) = SumOf(g, {d})
    BY <1>6 DEF Total, SumOf
  <2>3. IsFiniteSet({}) /\ {} \cup {d} = {d} /\ d \notin {}
    BY FS_EmptySet
  <2> HIDE DEF g
  <2>4. SumOf(g, {} \cup {d}) = SumOf(g, {}) + g[d]
    <3>1. \A c \in {} \cup {d} : g[c] \in Nat
      BY <2>1
    <3> QED BY <2>3, <3>1, SumAdd
  <2>5. SumOf(g, {d}) = g[d]
    BY <2>1, <2>3, <2>4, SumEmpty
  <2>6. Total(g) = g[d]
    BY <2>2, <2>5
  <2> QED BY <1>6, <2>6 DEF g
<1>9. Max({Scores(f)[c] : c \in Used(f)}) = SegmentScore(d, 0, end - 1)
  <2>1. {Scores(f)[c] : c \in Used(f)} = {SegmentScore(d, 0, end - 1)}
    BY <1>3, <1>6
  <2> QED BY <1>7, <2>1, MaxOne
<1>10. LayoutScore(f) = SegmentScore(d, 0, end - 1)
  BY <1>8, <1>9 DEF LayoutScore
<1> QED BY <1>2, <1>3, <1>5, <1>10 DEF f

(* One device more, behind a layout.                                       *)
LEMMA GrownLayers ==
  ASSUME Checked, NEW a \in 1 .. NumLayers, NEW b \in a + 1 .. NumLayers,
         NEW g \in [0 .. a - 1 -> Devices], NEW d \in Devices, d \notin Used(g)
  PROVE  LET f == Grown(g, a, d, b)
         IN  /\ f \in [0 .. b - 1 -> Devices]
             /\ Used(f) = Used(g) \cup {d} /\ f[b - 1] = d
             /\ LayersOf(f, d) = a .. b - 1
             /\ \A e \in Used(g) : LayersOf(f, e) = LayersOf(g, e)
             /\ Min(a .. b - 1) = a /\ Max(a .. b - 1) = b - 1
<1> DEFINE f == Grown(g, a, d, b)
<1>1. a \in Nat /\ b \in Nat /\ a >= 1 /\ a < b
  BY DevicesAre
<1>2. DOMAIN f = 0 .. b - 1 /\ DOMAIN g = 0 .. a - 1
  BY DEF Grown
<1>3. \A l \in 0 .. a - 1 : l \in 0 .. b - 1 /\ f[l] = g[l] /\ f[l] # d
  <2> TAKE l \in 0 .. a - 1
  <2>1. l \in 0 .. b - 1 /\ l < a
    BY <1>1
  <2>2. f[l] = g[l]
    BY <2>1 DEF Grown
  <2>3. g[l] \in Used(g)
    BY <1>2 DEF Used
  <2> QED BY <2>1, <2>2, <2>3
<1>4. \A l \in a .. b - 1 : l \in 0 .. b - 1 /\ f[l] = d
  BY <1>1 DEF Grown
<1>5. \A l \in 0 .. b - 1 : l \in 0 .. a - 1 \/ l \in a .. b - 1
  BY <1>1
<1> HIDE DEF f
<1>6. f \in [0 .. b - 1 -> Devices]
  <2>1. \A l \in 0 .. b - 1 : f[l] \in Devices
    BY <1>3, <1>4, <1>5
  <2>2. f = [l \in 0 .. b - 1 |-> f[l]]
    BY DEF f, Grown
  <2> QED BY <2>1, <2>2
<1>7. b - 1 \in a .. b - 1
  BY <1>1
<1>8. Used(f) = Used(g) \cup {d}
  <2>1. Used(f) = {f[l] : l \in 0 .. b - 1} /\ Used(g) = {g[l] : l \in 0 .. a - 1}
    BY <1>2 DEF Used
  <2> QED BY <1>3, <1>4, <1>5, <1>7, <2>1
<1>9. LayersOf(f, d) = a .. b - 1
  BY <1>2, <1>3, <1>4, <1>5 DEF LayersOf
<1>10. \A e \in Used(g) : LayersOf(f, e) = LayersOf(g, e)
  BY <1>2, <1>3, <1>4, <1>5 DEF LayersOf
<1>11. Min(a .. b - 1) = a /\ Max(a .. b - 1) = b - 1
  <2>1. a \in Nat /\ b - 1 \in Nat /\ a <= b - 1
    BY <1>1
  <2> QED BY <2>1, Ends
<1> QED BY <1>4, <1>6, <1>7, <1>8, <1>9, <1>10, <1>11 DEF f

(* A layout grows by a device whose layers fit, and costs what the device  *)
(* adds.                                                                   *)
LEMMA GrownLayout ==
  ASSUME Checked, NEW a \in 1 .. NumLayers, NEW b \in a + 1 .. NumLayers,
         NEW g \in Layouts(a), NEW d \in Devices, d \notin Used(g)
  PROVE  /\ Fits(d, a, b - 1) <=> Grown(g, a, d, b) \in Layouts(b)
         /\ LayoutScore(Grown(g, a, d, b)) = Combined(LayoutScore(g), SegmentScore(d, a, b - 1))
<1> DEFINE f == Grown(g, a, d, b)
           x == SegmentScore(d, a, b - 1)
<1>1. a \in Nat /\ b \in Nat /\ a >= 1 /\ a < b /\ b \in 1 .. NumLayers
  BY DevicesAre
<1>2. g \in [0 .. a - 1 -> Devices]
  BY DEF Layouts
<1>3. /\ f \in [0 .. b - 1 -> Devices]
      /\ Used(f) = Used(g) \cup {d} /\ f[b - 1] = d
      /\ LayersOf(f, d) = a .. b - 1
      /\ \A e \in Used(g) : LayersOf(f, e) = LayersOf(g, e)
      /\ Min(a .. b - 1) = a /\ Max(a .. b - 1) = b - 1
  BY <1>2, GrownLayers
<1> HIDE DEF f
<1>4. Fits(d, a, b - 1) <=> f \in Layouts(b)
  <2>1. \A e \in Used(g) : LET own == LayersOf(f, e)
                           IN  own = Min(own) .. Max(own) /\ Fits(e, Min(own), Max(own))
    BY <1>3 DEF Layouts
  <2>2. d \in Used(f) /\ \A e \in Used(f) : e = d \/ e \in Used(g)
    BY <1>3
  <2> QED BY <1>3, <2>1, <2>2 DEF Layouts
<1>5. x \in Nat
  <2>1. a \in Layers /\ b - 1 \in Layers
    BY <1>1, DevicesAre DEF Layers
  <2> QED BY <2>1, ScoreType
<1>6. /\ \A e \in Used(g) : Scores(f)[e] = Scores(g)[e] /\ Scores(g)[e] \in Nat
      /\ Scores(f)[d] = x /\ DOMAIN Scores(f) = Used(f)
      /\ Total(Scores(g)) = SumOf(Scores(g), Used(g))
      /\ Total(Scores(f)) = SumOf(Scores(f), Used(f))
  <2>1. \A e \in Used(f) :
          Scores(f)[e] = SegmentScore(e, Min(LayersOf(f, e)), Max(LayersOf(f, e)))
    BY DEF Scores
  <2>2. \A e \in Used(g) :
          Scores(g)[e] = SegmentScore(e, Min(LayersOf(g, e)), Max(LayersOf(g, e)))
    BY DEF Scores
  <2>3. \A e \in Used(g) : Scores(g)[e] \in Nat
    BY <1>2, ScoresType
  <2>4. /\ Total(Scores(g)) = SumOf(Scores(g), Used(g))
        /\ Total(Scores(f)) = SumOf(Scores(f), Used(f))
        /\ DOMAIN Scores(f) = Used(f)
    BY <1>1, <1>2, <1>3, ScoresType
  <2> QED BY <1>3, <2>1, <2>2, <2>3, <2>4
<1>7. IsFiniteSet(Used(g)) /\ Used(g) # {}
  BY <1>2, UsedIs
<1> HIDE DEF x
<1>8. Total(Scores(f)) = Total(Scores(g)) + x
  <2> DEFINE h == Scores(f)
             k == Scores(g)
             U == Used(g)
  <2>1. /\ \A e \in U : h[e] = k[e] /\ k[e] \in Nat
        /\ h[d] = x /\ IsFiniteSet(U) /\ d \notin U
    BY <1>6, <1>7
  <2> HIDE DEF h, k, U
  <2>2. SumOf(h, U) = SumOf(k, U)
    BY <2>1, SumSame
  <2>3. SumOf(h, U \cup {d}) = SumOf(h, U) + h[d]
    <3>1. \A e \in U \cup {d} : h[e] \in Nat
      BY <1>5, <2>1
    <3> QED BY <2>1, <3>1, SumAdd
  <2>4. SumOf(h, U \cup {d}) = SumOf(k, U) + x
    BY <2>1, <2>2, <2>3
  <2> QED BY <1>3, <1>6, <2>4 DEF h, k, U
<1>9. Max({Scores(f)[e] : e \in Used(f)}) = Greater(Max({Scores(g)[e] : e \in Used(g)}), x)
  <2> DEFINE k == Scores(g)
             U == Used(g)
             V == {k[e] : e \in U}
  <2>1. {Scores(f)[e] : e \in Used(f)} = V \cup {x}
    BY <1>3, <1>6
  <2>2. V \subseteq Nat /\ V # {}
    BY <1>6, <1>7
  <2>3. IsFiniteSet(V)
    <3>1. IsFiniteSet(U)
      BY <1>7
    <3> HIDE DEF k, U
    <3> QED BY <3>1, ImageFinite
  <2>4. Max(V \cup {x}) = IF Max(V) < x THEN x ELSE Max(V)
    <3> HIDE DEF V
    <3> QED BY <1>5, <2>2, <2>3, MaxAdd
  <2> QED BY <2>1, <2>4 DEF Greater
<1>10. LayoutScore(f) = Combined(LayoutScore(g), x)
  BY <1>8, <1>9 DEF LayoutScore, Combined
<1> QED BY <1>4, <1>10 DEF f, x

(* A layout of more than one device is one that has grown: without the     *)
(* layers of its last device it is a layout of the layers before.          *)
LEMMA CutLayout ==
  ASSUME Checked, NEW end \in 1 .. NumLayers, NEW f \in Layouts(end)
  PROVE  LET d == f[end - 1]
             a == Min(LayersOf(f, d))
             g == [l \in 0 .. a - 1 |-> f[l]]
         IN  /\ d \in Devices /\ a \in 0 .. end - 1
             /\ Fits(d, a, end - 1)
             /\ a = 0 => f = [l \in 0 .. end - 1 |-> d]
             /\ a # 0 => /\ a \in 1 .. NumLayers /\ end \in a + 1 .. NumLayers
                         /\ g \in Layouts(a) /\ d \notin Used(g)
                         /\ f = Grown(g, a, d, end)
<1> DEFINE d == f[end - 1]
           own == LayersOf(f, d)
           a == Min(own)
           g == [l \in 0 .. a - 1 |-> f[l]]
<1>1. f \in [0 .. end - 1 -> Devices] /\ end \in Nat /\ NumLayers \in Nat /\ end <= NumLayers
  BY DevicesAre DEF Layouts
<1>2. /\ d \in Used(f) /\ d \in Devices
      /\ own \subseteq 0 .. end - 1
      /\ a \in own /\ Max(own) \in own
      /\ \A l \in own : a <= l /\ l <= Max(own)
  BY <1>1, UsedIs
<1>3. end - 1 \in own
  BY <1>1 DEF LayersOf
<1>4. a \in 0 .. end - 1 /\ a \in Nat
  BY <1>2
<1>5. own = a .. Max(own) /\ Fits(d, a, Max(own))
  BY <1>2 DEF Layouts
<1> HIDE DEF a
<1>6. Max(own) = end - 1
  <2>1. Max(own) \in 0 .. end - 1 /\ end - 1 <= Max(own)
    BY <1>2, <1>3
  <2> QED BY <1>1, <2>1
<1>7. \A l \in 0 .. end - 1 : f[l] = d <=> l \in a .. end - 1
  BY <1>1, <1>5, <1>6 DEF LayersOf
<1> HIDE DEF d, own
<1>8. CASE a = 0
  <2>1. \A l \in 0 .. end - 1 : f[l] = d
    BY <1>7, <1>8
  <2>2. f = [l \in 0 .. end - 1 |-> f[l]]
    BY <1>1
  <2>3. f = [l \in 0 .. end - 1 |-> d]
    BY <2>1, <2>2
  <2> QED BY <1>2, <1>4, <1>5, <1>6, <1>8, <2>3 DEF a, d, own
<1>9. CASE a # 0
  <2>1. a \in 1 .. NumLayers /\ end \in a + 1 .. NumLayers
    BY <1>1, <1>4, <1>9
  <2>2. \A l \in 0 .. a - 1 : l \in 0 .. end - 1 /\ f[l] # d /\ g[l] = f[l]
    BY <1>1, <1>4, <1>7
  <2>3. g \in [0 .. a - 1 -> Devices]
    BY <1>1, <2>2
  <2> HIDE DEF g
  <2>4. d \notin Used(g)
    BY <2>2, <2>3 DEF Used
  <2>5. \A e \in Used(g) : e \in Used(f) /\ e # d /\ LayersOf(g, e) = LayersOf(f, e)
    <3> TAKE e \in Used(g)
    <3>1. e \in Used(f)
      BY <1>1, <2>2, <2>3 DEF Used
    <3>2. e # d
      BY <2>4
    <3>3. \A l \in 0 .. end - 1 : f[l] = e => l \in 0 .. a - 1
      BY <1>1, <1>4, <1>7, <3>2
    <3>4. LayersOf(g, e) = LayersOf(f, e)
      BY <1>1, <2>2, <2>3, <3>3 DEF LayersOf
    <3> QED BY <3>1, <3>2, <3>4
  <2>6. g \in Layouts(a)
    <3>1. \A e \in Used(f) : LET o == LayersOf(f, e)
                             IN  o = Min(o) .. Max(o) /\ Fits(e, Min(o), Max(o))
      BY DEF Layouts
    <3>2. \A e \in Used(g) : LET o == LayersOf(g, e)
                             IN  o = Min(o) .. Max(o) /\ Fits(e, Min(o), Max(o))
      BY <2>5, <3>1
    <3> QED BY <2>3, <3>2 DEF Layouts
  <2>7. f = Grown(g, a, d, end)
    <3>1. \A l \in 0 .. end - 1 : f[l] = IF l < a THEN g[l] ELSE d
      BY <1>1, <1>4, <1>7, <2>2
    <3>2. f = [l \in 0 .. end - 1 |-> f[l]]
      BY <1>1
    <3>3. f = [l \in 0 .. end - 1 |-> IF l < a THEN g[l] ELSE d]
      BY <3>1, <3>2
    <3> QED BY <3>3 DEF Grown
  <2> QED BY <1>2, <1>4, <1>5, <1>6, <1>9, <2>1, <2>4, <2>6, <2>7 DEF a, d, own, g
<1> QED BY <1>8, <1>9 DEF a, d, own, g

-----------------------------------------------------------------------------
(* The invariant: every label is one of a layout, which its segments list; *)
(* what one device alone can hold is in the table; a label that has been   *)
(* extended has left nothing better to find behind it; and labels are      *)
(* extended in the order of the layers.                                    *)
Lists(segments, f) ==
  /\ \A i \in DOMAIN segments : \A l \in segments[i].start .. segments[i].end :
       l \in DOMAIN f /\ f[l] = segments[i].device
  /\ \A l \in DOMAIN f : \E i \in DOMAIN segments : l \in segments[i].start .. segments[i].end

Explained(s, label) ==
  \E f \in Layouts(s.end) :
     /\ StateOf(f, s.end) = s /\ Cardinality(Used(f)) <= MaxDevices
     /\ label.score = LayoutScore(f)
     /\ Lists(label.segments, f)

CheckedInv ==
  /\ phase \notin {"validate", "refused"} => Checked
  /\ phase \in {"validate", "refused", "seed"} => DOMAIN dp = {} /\ expanded = {}

LabelInv == \A s \in DOMAIN dp : Explained(s, dp[s])

SeedInv ==
  phase = "search" =>
    \A s \in States :
      s.mask = {s.last} /\ Fits(s.last, 0, s.end - 1) =>
        s \in DOMAIN dp /\ dp[s].score <= SegmentScore(s.last, 0, s.end - 1)

StepInv ==
  \A s \in expanded : \A t \in Successors(s) :
    /\ t \in DOMAIN dp
    /\ dp[t].score <= Combined(dp[s].score, SegmentScore(t.last, s.end, t.end - 1))

OrderInv ==
  /\ expanded \subseteq Expandable
  /\ \A s \in expanded : \A u \in Expandable \ expanded : s.end <= u.end

TableInv == CheckedInv /\ LabelInv /\ SeedInv /\ StepInv /\ OrderInv

Inv == TypeOK /\ TableInv /\ PlanOptimal /\ GivesUpRightly

(* What speaks only of the profile stays, as the profile does.             *)
LEMMA Kept ==
  ASSUME profile' = profile
  PROVE  /\ Devices' = Devices /\ NumLayers' = NumLayers /\ MaxDevices' = MaxDevices
         /\ Layers' = Layers /\ States' = States /\ Checked' = Checked
         /\ \A d, a, b : /\ Fits(d, a, b)' = Fits(d, a, b)
                         /\ SegmentScore(d, a, b)' = SegmentScore(d, a, b)
         /\ \A x, y : Combined(x, y)' = Combined(x, y)
         /\ \A s : Successors(s)' = Successors(s)
         /\ \A d : Device(d)' = Device(d) /\ IsWorker(d)' = IsWorker(d)
         /\ \A end : Layouts(end)' = Layouts(end)
         /\ \A f : LayoutScore(f)' = LayoutScore(f)
         /\ \A s, label : Explained(s, label)' = Explained(s, label)
<1>1. Devices' = Devices /\ NumLayers' = NumLayers /\ \A d : Device(d)' = Device(d)
  BY DEF Devices, NumLayers, Device
<1>2. NumDevices' = NumDevices /\ \A d : IsWorker(d)' = IsWorker(d)
  BY <1>1 DEF NumDevices, IsWorker
<1>3. MaxDevices' = MaxDevices /\ Layers' = Layers /\ States' = States /\ KvContext' = KvContext
  BY <1>1, <1>2 DEF MaxDevices, Layers, States, KvContext
<1>4. \A d, a, b : Fits(d, a, b)' = Fits(d, a, b)
  BY <1>1, <1>3 DEF Fits, MemoryOf
<1>5. \A d, a, b : SegmentScore(d, a, b)' = SegmentScore(d, a, b)
  <2> TAKE d, a, b
  <2>1. \A x, y : PrefillNet(d, x, y)' = PrefillNet(d, x, y) /\ DecodeNet(d, x, y)' = DecodeNet(d, x, y)
    BY <1>2 DEF PrefillNet, DecodeNet
  <2>2. DialScore(d, a, b)' = DialScore(d, a, b)
    BY <1>1, <1>2, <2>1 DEF DialScore, MeanScore, TailScore, MeanTtft, LatencyScore, Ttft, Tpot,
                            RequestEnergy
  <2>3. RequestCompute(d, a, b)' = RequestCompute(d, a, b) /\ RequestNet(d)' = RequestNet(d)
    BY <1>1, <2>1 DEF RequestCompute, RequestNet
  <2> QED BY <2>2, <2>3 DEF SegmentScore
<1>6. \A x, y : Combined(x, y)' = Combined(x, y)
  BY DEF Combined
<1>7. \A s : Successors(s)' = Successors(s)
  BY <1>3, <1>4 DEF Successors
<1>8. \A end : Layouts(end)' = Layouts(end)
  BY <1>1, <1>4 DEF Layouts
<1>9. \A f : LayoutScore(f)' = LayoutScore(f)
  <2> TAKE f
  <2>1. Scores(f)' = Scores(f)
    BY <1>5 DEF Scores
  <2> QED BY <2>1 DEF LayoutScore
<1>10. \A s, label : Explained(s, label)' = Explained(s, label)
  BY <1>3, <1>8, <1>9 DEF Explained, StateOf
<1>11. Checked' = Checked
  <2>1. ValidObjective' = ValidObjective
    BY DEF ValidObjective
  <2>2. ValidCount' = ValidCount
    BY <1>1, <1>2 DEF ValidCount
  <2>3. \A d : ValidDevice(Device(d))' = ValidDevice(Device(d))
    BY <1>1, <1>3 DEF ValidDevice, NotBelow, PerLayer
  <2>4. DistinctNames' = DistinctNames /\ DistinctHosts' = DistinctHosts
    BY <1>1, <1>2 DEF DistinctNames, DistinctHosts
  <2> QED BY <1>1, <2>1, <2>2, <2>3, <2>4 DEF Checked, Valid
<1> QED BY <1>1, <1>2, <1>3, <1>4, <1>5, <1>6, <1>7, <1>8, <1>9, <1>10, <1>11

(* The score of a layout with one segment more is a number,                *)
LEMMA CombinedType ==
  ASSUME NEW x \in Nat, NEW z \in Nat
  PROVE  Combined(x, z) \in Nat
BY DEF Combined, Greater

(* and no less than that of a cheaper layout with the same segment.        *)
LEMMA CombinedGrows ==
  ASSUME NEW x \in Nat, NEW y \in Nat, NEW z \in Nat, x <= y
  PROVE  Combined(x, z) <= Combined(y, z)
BY DEF Combined, Greater

(* A label that is extended stands for the layout that has grown.          *)
LEMMA ExtendedExplained ==
  ASSUME Checked, NEW s \in States, NEW label, Explained(s, label),
         Cardinality(s.mask) < MaxDevices,
         label.segments \in Seq([device : Devices, start : Layers, end : Layers]),
         NEW t \in Successors(s)
  PROVE  Explained(t, Extended(label, t.last, s.end, t.end))
<1> DEFINE d == t.last
           a == s.end
           b == t.end
           more == Extended(label, d, a, b)
<1>1. /\ a \in 1 .. NumLayers /\ b \in a + 1 .. NumLayers /\ d \in Devices
      /\ a \in Nat /\ b \in Nat /\ a < b
      /\ d \notin s.mask /\ t.mask = s.mask \cup {d} /\ Fits(d, a, b - 1)
      /\ s.mask \subseteq Devices /\ t = State(b, t.mask, d) /\ s = State(a, s.mask, s.last)
  <2>1. t \in States
    BY DEF Successors
  <2>2. a \in 1 .. NumLayers /\ b \in 1 .. NumLayers /\ d \in Devices /\ b > a
    BY <2>1 DEF States, Successors
  <2>3. b \in a + 1 .. NumLayers /\ a \in Nat /\ b \in Nat
    BY <2>2, DevicesAre
  <2>4. t = State(b, t.mask, d) /\ s = State(a, s.mask, s.last) /\ s.mask \subseteq Devices
    BY <2>1 DEF States, State
  <2> QED BY <2>2, <2>3, <2>4 DEF Successors
<1>2. PICK g \in Layouts(a) : /\ StateOf(g, a) = s
                              /\ label.score = LayoutScore(g)
                              /\ Lists(label.segments, g)
  BY DEF Explained
<1> DEFINE f == Grown(g, a, d, b)
<1>3. Used(g) = s.mask /\ g \in [0 .. a - 1 -> Devices]
  BY <1>2 DEF StateOf, State, Layouts
<1>4. /\ f \in [0 .. b - 1 -> Devices] /\ Used(f) = t.mask /\ f[b - 1] = d
      /\ f \in Layouts(b)
      /\ LayoutScore(f) = Combined(LayoutScore(g), SegmentScore(d, a, b - 1))
  <2>1. Used(f) = Used(g) \cup {d} /\ f[b - 1] = d /\ f \in [0 .. b - 1 -> Devices]
    <3>1. d \notin Used(g)
      BY <1>1, <1>3
    <3> HIDE DEF a, b, d
    <3> QED BY <1>1, <1>3, <3>1, GrownLayers
  <2>2. /\ f \in Layouts(b)
        /\ LayoutScore(f) = Combined(LayoutScore(g), SegmentScore(d, a, b - 1))
    BY <1>1, <1>3, GrownLayout
  <2> QED BY <1>1, <1>3, <2>1, <2>2
<1>5. StateOf(f, b) = t
  BY <1>1, <1>4 DEF StateOf
<1>6. Cardinality(t.mask) <= MaxDevices
  <2>1. IsFiniteSet(s.mask)
    BY <1>1, DevicesAre, FS_Subset
  <2>2. Cardinality(t.mask) = Cardinality(s.mask) + 1 /\ Cardinality(s.mask) \in Nat
    BY <1>1, <2>1, FS_AddElement, FS_CardinalityType
  <2> QED BY <2>2, DevicesAre
<1>7. more.score = LayoutScore(f)
  BY <1>2, <1>4 DEF Extended
<1>8. Lists(more.segments, f)
  <2> DEFINE old == label.segments
             new == Append(old, Segment(d, a, b - 1))
  <2>1. more.segments = new
    BY DEF Extended
  <2>2. /\ Len(old) \in Nat /\ DOMAIN old = 1 .. Len(old)
        /\ DOMAIN new = 1 .. Len(old) + 1
        /\ \A i \in 1 .. Len(old) : new[i] = old[i]
        /\ new[Len(old) + 1] = Segment(d, a, b - 1)
    <3>1. a \in Layers /\ b - 1 \in Layers
      BY <1>1, DevicesAre DEF Layers
    <3>2. Segment(d, a, b - 1) \in [device : Devices, start : Layers, end : Layers]
      BY <1>1, <3>1 DEF Segment
    <3> DEFINE x == Segment(d, a, b - 1)
               X == [device : Devices, start : Layers, end : Layers]
    <3>3. old \in Seq(X) /\ x \in X
      BY <3>2
    <3> HIDE DEF old, x, X
    <3> QED BY <3>3
  <2>3. /\ DOMAIN f = 0 .. b - 1 /\ DOMAIN g = 0 .. a - 1
        /\ \A l \in 0 .. a - 1 : l \in 0 .. b - 1 /\ f[l] = g[l]
        /\ \A l \in a .. b - 1 : l \in 0 .. b - 1 /\ f[l] = d
        /\ \A l \in 0 .. b - 1 : l \in 0 .. a - 1 \/ l \in a .. b - 1
    BY <1>1, <1>3 DEF Grown
  <2>4. /\ Segment(d, a, b - 1).start = a /\ Segment(d, a, b - 1).end = b - 1
        /\ Segment(d, a, b - 1).device = d
    BY DEF Segment
  <2>5. Lists(old, g)
    BY <1>2
  <2> HIDE DEF old, new, f
  <2>6. ASSUME NEW i \in DOMAIN new, NEW l \in new[i].start .. new[i].end
        PROVE  l \in DOMAIN f /\ f[l] = new[i].device
    <3>1. CASE i \in 1 .. Len(old)
      <4>1. l \in DOMAIN g /\ g[l] = old[i].device
        BY <2>2, <2>5, <2>6, <3>1 DEF Lists
      <4> QED BY <2>2, <2>3, <3>1, <4>1
    <3>2. CASE i = Len(old) + 1
      BY <2>2, <2>3, <2>4, <2>6, <3>2
    <3> QED BY <2>2, <3>1, <3>2
  <2>7. ASSUME NEW l \in DOMAIN f
        PROVE  \E i \in DOMAIN new : l \in new[i].start .. new[i].end
    <3>1. CASE l \in 0 .. a - 1
      <4>1. PICK i \in DOMAIN old : l \in old[i].start .. old[i].end
        BY <2>3, <2>5, <3>1 DEF Lists
      <4>2. i \in DOMAIN new /\ new[i] = old[i]
        BY <2>2
      <4> QED BY <4>1, <4>2
    <3>2. CASE l \in a .. b - 1
      <4>1. Len(old) + 1 \in DOMAIN new
        BY <2>2
      <4> QED BY <2>2, <2>4, <3>2, <4>1
    <3> QED BY <2>3, <3>1, <3>2
  <2> QED BY <2>1, <2>6, <2>7 DEF Lists
<1> HIDE DEF f, more
<1>9. t.end = b
  OBVIOUS
<1> QED BY <1>4, <1>5, <1>6, <1>7, <1>8, <1>9 DEF Explained, more

(* The label of one device is one of the layout of that device alone.      *)
LEMMA SingleExplained ==
  ASSUME Checked, NEW s \in States, s.mask = {s.last}, Fits(s.last, 0, s.end - 1)
  PROVE  Explained(s, InitialLabel(s.last, s.end))
<1> DEFINE d == s.last
           end == s.end
           f == [l \in 0 .. end - 1 |-> d]
           label == InitialLabel(d, end)
<1>1. end \in 1 .. NumLayers /\ d \in Devices /\ s = State(end, {d}, d)
  BY DEF States, State
<1>2. f \in Layouts(end) /\ Used(f) = {d} /\ f[end - 1] = d /\ LayoutScore(f) = SegmentScore(d, 0, end - 1)
  BY <1>1, SingleLayout
<1>3. Cardinality({d}) <= MaxDevices
  <2>1. Cardinality({d}) = 1
    BY FS_Singleton
  <2> QED BY <2>1, DevicesAre
<1>4. label.score = LayoutScore(f)
  BY <1>2 DEF InitialLabel
<1>5. Lists(label.segments, f)
  <2>1. /\ DOMAIN label.segments = {1}
        /\ label.segments[1].start = 0 /\ label.segments[1].end = end - 1
        /\ label.segments[1].device = d
    BY DEF InitialLabel, Segment
  <2>2. DOMAIN f = 0 .. end - 1 /\ \A l \in 0 .. end - 1 : f[l] = d
    OBVIOUS
  <2> HIDE DEF f, label
  <2> QED BY <2>1, <2>2 DEF Lists
<1>6. StateOf(f, end) = s
  BY <1>1, <1>2 DEF StateOf
<1> HIDE DEF f, label
<1> QED BY <1>2, <1>3, <1>4, <1>5, <1>6 DEF Explained, label

-----------------------------------------------------------------------------
(* The empty table.                                                        *)
LEMMA InitTable ==
  ASSUME Init
  PROVE  TypeOK /\ TableInv
<1>1. DOMAIN dp = {} /\ expanded = {} /\ phase = "validate" /\ profile \in Profiles
  BY DEF Init
<1>2. TypeOK
  BY <1>1 DEF TypeOK
<1>3. CheckedInv /\ LabelInv /\ SeedInv /\ StepInv
  BY <1>1 DEF CheckedInv, LabelInv, SeedInv, StepInv
<1>4. OrderInv
  BY <1>1 DEF OrderInv
<1> QED BY <1>2, <1>3, <1>4 DEF TableInv

(* A step that leaves the table leaves what is said of it.                 *)
LEMMA TableKept ==
  ASSUME TypeOK, TableInv, profile' = profile, dp' = dp, expanded' = expanded,
         phase' \in {"validate", "seed", "search", "planned", "refused", "infeasible"},
         phase' # phase => phase \in {"validate", "search"} /\ phase' # "search",
         phase' = "seed" => Checked /\ DOMAIN dp = {} /\ expanded = {},
         phase' = "refused" => DOMAIN dp = {} /\ expanded = {},
         phase' \in {"planned", "infeasible"} => Checked,
         phase' = "validate" => phase = "validate"
  PROVE  TypeOK' /\ TableInv'
<1>1. TypeOK'
  BY Kept DEF TypeOK
<1>2. Expandable' = Expandable
  BY Kept DEF Expandable
<1>3. OrderInv'
  BY <1>2 DEF OrderInv, TableInv
<1>4. LabelInv'
  BY Kept DEF LabelInv, TableInv
<1>5. StepInv'
  BY Kept DEF StepInv, TableInv
<1>6. SeedInv'
  <2>1. phase' = "search" => phase = "search"
    OBVIOUS
  <2> QED BY <2>1, Kept DEF SeedInv, TableInv
<1>7. CheckedInv'
  BY Kept DEF CheckedInv, TableInv
<1> QED BY <1>1, <1>3, <1>4, <1>5, <1>6, <1>7 DEF TableInv

(* A profile is checked before the table is begun.                         *)
LEMMA ValidateTable ==
  ASSUME TypeOK, TableInv, Validate
  PROVE  TypeOK' /\ TableInv'
<1>1. /\ phase = "validate" /\ phase' \in {"seed", "refused"} /\ (phase' = "seed" => Valid)
      /\ profile' = profile /\ dp' = dp /\ expanded' = expanded
  BY DEF Validate
<1>2. DOMAIN dp = {} /\ expanded = {} /\ profile \in Profiles
  BY <1>1 DEF TableInv, CheckedInv, TypeOK
<1> QED BY <1>1, <1>2, TableKept DEF Checked

(* The table begins with the devices that hold the first layers alone.     *)
LEMMA SeedTable ==
  ASSUME TypeOK, TableInv, Seed
  PROVE  TypeOK' /\ TableInv'
<1> DEFINE S == {t \in States : t.mask = {t.last} /\ Fits(t.last, 0, t.end - 1)}
<1>1. /\ phase = "seed" /\ phase' = "search" /\ profile' = profile /\ expanded' = expanded
      /\ dp' = [s \in S |-> InitialLabel(s.last, s.end)]
  BY DEF Seed
<1>2. Checked /\ expanded' = {}
  BY <1>1 DEF TableInv, CheckedInv
<1>3. DOMAIN dp' = S /\ \A s \in S : dp'[s] = InitialLabel(s.last, s.end)
  <2> HIDE DEF S
  <2> QED BY <1>1
<1>4. \A s \in S : /\ s \in States /\ s.last \in Devices /\ s.end \in 1 .. NumLayers
                   /\ 0 \in Layers /\ s.end - 1 \in Layers
                   /\ SegmentScore(s.last, 0, s.end - 1) \in Nat
                   /\ MeanTtft(s.last, 0, s.end - 1) \in Nat
  <2> TAKE s \in S
  <2>1. s \in States /\ s.last \in Devices /\ s.end \in 1 .. NumLayers
    BY DEF States
  <2>2. 0 \in Layers /\ s.end - 1 \in Layers
    BY <1>2, <2>1, DevicesAre DEF Layers
  <2> QED BY <1>2, <2>1, <2>2, ScoreType
<1> HIDE DEF S
<1>5. TypeOK'
  <2>1. profile' \in Profiles
    BY <1>1 DEF TypeOK
  <2>2. ASSUME NEW s \in S
        PROVE  /\ s \in States
               /\ dp'[s].score \in Nat /\ dp'[s].ttft \in Nat
               /\ dp'[s].segments \in Seq([device : Devices, start : Layers, end : Layers])
    <3>1. Segment(s.last, 0, s.end - 1) \in [device : Devices, start : Layers, end : Layers]
      BY <1>4 DEF Segment
    <3>2. /\ dp'[s].score = SegmentScore(s.last, 0, s.end - 1)
          /\ dp'[s].ttft = MeanTtft(s.last, 0, s.end - 1)
          /\ dp'[s].segments = <<Segment(s.last, 0, s.end - 1)>>
      BY <1>3 DEF InitialLabel
    <3> QED BY <1>4, <3>1, <3>2
  <2> QED BY <1>1, <1>2, <1>3, <2>1, <2>2, Kept DEF TypeOK
<1>6. CheckedInv'
  BY <1>1, <1>2, Kept DEF CheckedInv
<1>7. LabelInv'
  <2>1. \A s \in S : Explained(s, dp'[s])
    BY <1>2, <1>3, SingleExplained DEF S
  <2> QED BY <1>1, <1>3, <2>1, Kept DEF LabelInv
<1>8. SeedInv'
  <2>1. \A s \in S : dp'[s].score = SegmentScore(s.last, 0, s.end - 1)
    BY <1>3 DEF InitialLabel
  <2>2. ASSUME NEW s \in States, s.mask = {s.last}, Fits(s.last, 0, s.end - 1)
        PROVE  s \in DOMAIN dp' /\ dp'[s].score <= SegmentScore(s.last, 0, s.end - 1)
    <3>1. s \in S
      BY <2>2 DEF S
    <3> QED BY <1>3, <1>4, <2>1, <3>1
  <2> QED BY <1>1, <2>2, Kept DEF SeedInv
<1>9. StepInv' /\ OrderInv'
  BY <1>2 DEF StepInv, OrderInv
<1> QED BY <1>5, <1>6, <1>7, <1>8, <1>9 DEF TableInv

(* Extending a label.                                                      *)
LEMMA ExtendTable ==
  ASSUME TypeOK, TableInv, Extend
  PROVE  TypeOK' /\ TableInv'
<1> DEFINE s == FirstOf(Expandable \ expanded)
           Candidate(t) == Extended(dp[s], t.last, s.end, t.end)
           replaced == {t \in Successors(s) : t \in DOMAIN dp => Replaces(Candidate(t), dp[t])}
<1>1. /\ phase = "search" /\ phase' = "search" /\ profile' = profile
      /\ Expandable \ expanded # {}
      /\ dp' = [t \in DOMAIN dp \cup replaced |->
                  IF t \in replaced THEN Candidate(t) ELSE dp[t]]
      /\ expanded' = expanded \cup {s}
  BY DEF Extend
<1>2. Checked /\ LabelInv /\ SeedInv /\ StepInv /\ OrderInv
  BY <1>1 DEF TableInv, CheckedInv
<1>3. \A t \in DOMAIN dp :
        /\ t \in States /\ t.end \in Nat
        /\ dp[t].score \in Nat /\ dp[t].ttft \in Nat
        /\ dp[t].segments \in Seq([device : Devices, start : Layers, end : Layers])
  <2>1. \A t \in States : t.end \in Nat
    BY <1>2, DevicesAre DEF States
  <2> QED BY <2>1 DEF TypeOK
<1>4. /\ s \in Expandable \ expanded
      /\ \A t \in Expandable \ expanded : t # s => Before(s, t)
  <2> HIDE DEF s
  <2>1. Expandable \ expanded \subseteq States
    BY <1>3 DEF Expandable
  <2> QED BY <1>1, <1>2, <2>1, FirstOfIs DEF s
<1> HIDE DEF s
<1>5. /\ s \in DOMAIN dp /\ s \in States /\ s.end \in Nat
      /\ s.end < NumLayers /\ Cardinality(s.mask) < MaxDevices
  BY <1>3, <1>4 DEF Expandable
<1>6. \A t \in Successors(s) : /\ t \in States /\ t.end \in Nat /\ t.last \in Devices
                               /\ t.end > s.end /\ t # s /\ t \notin expanded
                               /\ s.end \in Layers /\ t.end - 1 \in Layers
  <2> TAKE t \in Successors(s)
  <2>1. t \in States /\ t.end > s.end
    BY DEF Successors
  <2>2. t.end \in 1 .. NumLayers /\ t.last \in Devices /\ t.end \in Nat
    BY <1>2, <2>1, DevicesAre DEF States
  <2>3. s.end \in Layers /\ t.end - 1 \in Layers
    BY <1>2, <1>5, <2>1, <2>2, DevicesAre DEF Layers
  <2>4. t \notin expanded
    <3>1. t \in expanded => t.end <= s.end
      BY <1>2, <1>4 DEF OrderInv
    <3> QED BY <1>5, <2>1, <2>2, <3>1
  <2> QED BY <1>5, <2>1, <2>2, <2>3, <2>4
<1>7. \A t \in Successors(s) :
        /\ Candidate(t).score = Combined(dp[s].score, SegmentScore(t.last, s.end, t.end - 1))
        /\ Candidate(t).score \in Nat /\ Candidate(t).ttft \in Nat
        /\ Candidate(t).segments \in Seq([device : Devices, start : Layers, end : Layers])
        /\ Explained(t, Candidate(t))
  <2> TAKE t \in Successors(s)
  <2> DEFINE x == SegmentScore(t.last, s.end, t.end - 1)
             y == MeanTtft(t.last, s.end, t.end - 1)
             seg == Segment(t.last, s.end, t.end - 1)
  <2>1. x \in Nat /\ y \in Nat
    BY <1>2, <1>6, ScoreType
  <2>2. /\ Candidate(t).score = Combined(dp[s].score, x)
        /\ Candidate(t).ttft = dp[s].ttft + y
        /\ Candidate(t).segments = Append(dp[s].segments, seg)
    BY DEF Extended
  <2>3. seg \in [device : Devices, start : Layers, end : Layers]
    BY <1>6 DEF Segment
  <2>4. Explained(t, Candidate(t))
    <3>1. Explained(s, dp[s])
      BY <1>2, <1>5 DEF LabelInv
    <3> QED BY <1>2, <1>3, <1>5, <3>1, ExtendedExplained
  <2> HIDE DEF x, y, seg, Candidate, replaced
  <2>5. Combined(dp[s].score, x) \in Nat /\ dp[s].ttft + y \in Nat
    <3>1. dp[s].score \in Nat /\ dp[s].ttft \in Nat
      BY <1>3, <1>5
    <3>2. Combined(dp[s].score, x) \in Nat
      BY <2>1, <3>1, CombinedType
    <3>3. dp[s].ttft + y \in Nat
      BY <2>1, <3>1
    <3> QED BY <3>2, <3>3
  <2>6. Append(dp[s].segments, seg) \in Seq([device : Devices, start : Layers, end : Layers])
    <3> DEFINE X == [device : Devices, start : Layers, end : Layers]
               old == dp[s].segments
    <3>1. old \in Seq(X) /\ seg \in X
      BY <1>3, <1>5, <2>3
    <3> HIDE DEF X, old
    <3>2. Append(old, seg) \in Seq(X)
      BY <3>1
    <3> QED BY <3>2 DEF X, old
  <2> QED BY <2>2, <2>4, <2>5, <2>6 DEF x
<1> HIDE DEF Candidate
<1>8. replaced \subseteq Successors(s)
  OBVIOUS
<1>9. \A t \in Successors(s) : \/ t \in replaced
                               \/ t \in DOMAIN dp /\ dp[t].score <= Candidate(t).score
  <2> TAKE t \in Successors(s)
  <2>1. t \notin replaced => t \in DOMAIN dp /\ ~ Replaces(Candidate(t), dp[t])
    OBVIOUS
  <2> QED BY <1>3, <1>7, <2>1 DEF Replaces
<1>10. \A t \in replaced : t \in DOMAIN dp => Candidate(t).score <= dp[t].score
  <2> TAKE t \in replaced
  <2>1. t \in Successors(s) /\ (t \in DOMAIN dp => Replaces(Candidate(t), dp[t]))
    OBVIOUS
  <2> QED BY <1>3, <1>7, <2>1 DEF Replaces
<1> HIDE DEF replaced
<1>11. /\ DOMAIN dp' = DOMAIN dp \cup replaced
       /\ \A t \in replaced : dp'[t] = Candidate(t)
       /\ \A t \in DOMAIN dp : t \notin replaced => dp'[t] = dp[t]
  BY <1>1
<1>12. \A t \in DOMAIN dp : t \in DOMAIN dp' /\ dp'[t].score \in Nat /\ dp'[t].score <= dp[t].score
  BY <1>3, <1>7, <1>8, <1>10, <1>11
<1>13. TypeOK'
  <2>1. profile' \in Profiles
    BY <1>1 DEF TypeOK
  <2>2. \A t \in DOMAIN dp' :
          /\ t \in States
          /\ dp'[t].score \in Nat /\ dp'[t].ttft \in Nat
          /\ dp'[t].segments \in Seq([device : Devices, start : Layers, end : Layers])
    BY <1>3, <1>6, <1>7, <1>8, <1>11
  <2>3. expanded' \subseteq DOMAIN dp'
    BY <1>1, <1>5, <1>11 DEF TypeOK
  <2> QED BY <1>1, <2>1, <2>2, <2>3, Kept DEF TypeOK
<1>14. CheckedInv'
  BY <1>1, <1>2, Kept DEF CheckedInv
<1>15. LabelInv'
  <2>1. \A t \in DOMAIN dp' : Explained(t, dp'[t])
    BY <1>2, <1>7, <1>8, <1>11 DEF LabelInv
  <2> QED BY <1>1, <2>1, Kept DEF LabelInv
<1>16. SeedInv'
  <2>1. ASSUME NEW t \in States, t.mask = {t.last}, Fits(t.last, 0, t.end - 1)
        PROVE  t \in DOMAIN dp' /\ dp'[t].score <= SegmentScore(t.last, 0, t.end - 1)
    <3>1. t \in DOMAIN dp /\ dp[t].score <= SegmentScore(t.last, 0, t.end - 1)
      BY <1>1, <1>2, <2>1 DEF SeedInv
    <3>2. SegmentScore(t.last, 0, t.end - 1) \in Nat
      <4>1. t.end \in 1 .. NumLayers /\ t.last \in Devices
        BY DEF States
      <4>2. 0 \in Layers /\ t.end - 1 \in Layers
        BY <1>2, <4>1, DevicesAre DEF Layers
      <4> QED BY <1>2, <4>1, <4>2, ScoreType
    <3> QED BY <1>3, <1>12, <3>1, <3>2
  <2> QED BY <1>1, <2>1, Kept DEF SeedInv
<1>17. StepInv'
  <2>1. \A u \in expanded \cup {s} : dp'[u] = dp[u] /\ u \in DOMAIN dp
    BY <1>5, <1>6, <1>8, <1>11 DEF TypeOK
  <2>2. ASSUME NEW u \in expanded \cup {s}, NEW t \in Successors(u)
        PROVE  /\ t \in DOMAIN dp'
               /\ dp'[t].score <= Combined(dp'[u].score, SegmentScore(t.last, u.end, t.end - 1))
    <3> DEFINE c == Combined(dp[u].score, SegmentScore(t.last, u.end, t.end - 1))
    <3>1. c \in Nat
      <4>1. u \in States /\ dp[u].score \in Nat
        BY <1>3, <2>1
      <4>2. t \in States /\ t.end > u.end
        BY DEF Successors
      <4>3. u.end \in 1 .. NumLayers /\ t.end \in 1 .. NumLayers /\ t.last \in Devices
        BY <4>1, <4>2 DEF States
      <4>4. u.end \in Layers /\ t.end - 1 \in Layers
        BY <1>2, <4>2, <4>3, DevicesAre DEF Layers
      <4>5. SegmentScore(t.last, u.end, t.end - 1) \in Nat
        BY <1>2, <4>3, <4>4, ScoreType
      <4> QED BY <4>1, <4>5, CombinedType
    <3>2. t \in DOMAIN dp' /\ dp'[t].score <= c
      <4>1. CASE u \in expanded
        <5>1. t \in DOMAIN dp /\ dp[t].score <= c
          BY <1>2, <4>1 DEF StepInv
        <5> HIDE DEF c
        <5> QED BY <1>3, <1>12, <3>1, <5>1
      <4>2. CASE u = s
        <5>1. Candidate(t).score = c
          BY <1>7, <4>2
        <5> HIDE DEF c
        <5>2. CASE t \in replaced
          BY <1>11, <3>1, <5>1, <5>2
        <5>3. CASE t \in DOMAIN dp /\ dp[t].score <= Candidate(t).score
          BY <1>3, <1>12, <3>1, <5>1, <5>3
        <5> QED BY <1>9, <4>2, <5>2, <5>3
      <4> QED BY <4>1, <4>2
    <3> QED BY <2>1, <3>2
  <2> QED BY <1>1, <2>2, Kept DEF StepInv
<1>18. OrderInv'
  <2>1. Expandable' = {t \in DOMAIN dp' : t.end < NumLayers /\ Cardinality(t.mask) < MaxDevices}
    BY <1>1, Kept DEF Expandable
  <2>2. \A t \in DOMAIN dp : t \in Expandable <=> t \in Expandable'
    BY <1>11, <2>1 DEF Expandable
  <2>3. expanded' \subseteq Expandable'
    BY <1>1, <1>2, <1>4, <1>5, <2>2 DEF OrderInv, TypeOK
  <2>4. ASSUME NEW u \in expanded', NEW t \in Expandable' \ expanded'
        PROVE  u.end <= t.end
    <3>1. u.end <= s.end /\ u.end \in Nat
      BY <1>1, <1>2, <1>3, <1>4, <1>5 DEF OrderInv, TypeOK
    <3>2. CASE t \in DOMAIN dp
      <4>1. t \in Expandable \ expanded /\ t # s
        BY <1>1, <2>2, <3>2
      <4>2. s.end <= t.end
        BY <1>3, <1>4, <1>5, <3>2, <4>1 DEF Before
      <4> QED BY <1>3, <1>5, <3>1, <3>2, <4>2
    <3>3. CASE t \notin DOMAIN dp
      <4>1. t \in Successors(s)
        BY <1>8, <1>11, <2>1, <3>3
      <4> QED BY <1>5, <1>6, <3>1, <4>1
    <3> QED BY <3>2, <3>3
  <2> QED BY <2>3, <2>4 DEF OrderInv
<1> QED BY <1>13, <1>14, <1>15, <1>16, <1>17, <1>18 DEF TableInv

-----------------------------------------------------------------------------
(* How far the table is final: every label that ends before has been       *)
(* extended.                                                               *)
LEMMA ReadyIs ==
  ASSUME TypeOK, TableInv, phase = "search"
  PROVE  /\ Ready \in Nat /\ Ready <= NumLayers
         /\ \A s \in Expandable : s.end < Ready => s \in expanded
<1>1. Checked
  BY DEF TableInv, CheckedInv
<1>2. \A s \in Expandable : s \in States /\ s.end \in Nat /\ s.end < NumLayers
  <2>1. \A s \in States : s.end \in Nat
    BY <1>1, DevicesAre DEF States
  <2> QED BY <2>1 DEF TypeOK, Expandable
<1>3. CASE Expandable \subseteq expanded
  BY <1>1, <1>3, DevicesAre DEF Ready
<1>4. CASE ~ (Expandable \subseteq expanded)
  <2> DEFINE u == FirstOf(Expandable \ expanded)
  <2>1. u \in Expandable \ expanded /\ \A t \in (Expandable \ expanded) \ {u} : Before(u, t)
    <3>1. Expandable \ expanded # {} /\ Expandable \ expanded \subseteq States
      BY <1>2, <1>4
    <3> QED BY <1>1, <3>1, FirstOfIs
  <2>2. Ready = u.end
    BY <1>4 DEF Ready
  <2> HIDE DEF u
  <2>3. \A t \in Expandable \ expanded : t.end >= u.end
    <3> TAKE t \in Expandable \ expanded
    <3>1. t.end \in Nat /\ u.end \in Nat /\ (t = u \/ Before(u, t))
      BY <1>2, <2>1
    <3> QED BY <3>1 DEF Before
  <2>4. u.end \in Nat /\ u.end < NumLayers /\ NumLayers \in Nat
    BY <1>1, <1>2, <2>1, DevicesAre
  <2>5. ASSUME NEW s \in Expandable, s.end < Ready
        PROVE  s \in expanded
    <3>1. s \notin expanded => s.end >= u.end
      BY <2>3
    <3>2. s.end \in Nat
      BY <1>2
    <3> QED BY <2>2, <2>4, <2>5, <3>1, <3>2
  <2> QED BY <2>2, <2>4, <2>5
<1> QED BY <1>3, <1>4

(* Every layout that fits has a label of no greater score, as far as the   *)
(* table is final.                                                         *)
LEMMA Reached ==
  ASSUME TypeOK, TableInv, phase = "search",
         NEW end \in 1 .. Ready, NEW f \in Layouts(end), Cardinality(Used(f)) <= MaxDevices
  PROVE  StateOf(f, end) \in DOMAIN dp /\ dp[StateOf(f, end)].score <= LayoutScore(f)
<1> DEFINE Found(n) == \A k \in Layouts(n) :
                         Cardinality(Used(k)) <= MaxDevices =>
                           StateOf(k, n) \in DOMAIN dp /\ dp[StateOf(k, n)].score <= LayoutScore(k)
           T == {n \in Nat : \A m \in 1 .. n : m <= Ready => Found(m)}
<1>1. Checked /\ SeedInv /\ StepInv /\ NumLayers \in Nat
  BY DevicesAre DEF TableInv, CheckedInv
<1>2. Ready \in Nat /\ Ready <= NumLayers /\ \A s \in Expandable : s.end < Ready => s \in expanded
  BY ReadyIs
<1>3. 0 \in T
  OBVIOUS
<1>4. ASSUME NEW n \in Nat, n \in T
      PROVE  n + 1 \in T
  <2>1. \A m \in 1 .. n : m <= Ready => Found(m)
    BY <1>4
  <2>2. ASSUME NEW m \in 1 .. n + 1, m <= Ready
        PROVE  Found(m)
    <3> SUFFICES ASSUME NEW k \in Layouts(m), Cardinality(Used(k)) <= MaxDevices
                 PROVE  StateOf(k, m) \in DOMAIN dp /\ dp[StateOf(k, m)].score <= LayoutScore(k)
      OBVIOUS
    <3> DEFINE d == k[m - 1]
               a == Min(LayersOf(k, d))
               g == [l \in 0 .. a - 1 |-> k[l]]
               t == StateOf(k, m)
               s == StateOf(g, a)
    <3>1. m \in 1 .. NumLayers /\ m \in Nat /\ k \in [0 .. m - 1 -> Devices]
      BY <1>1, <1>2, <2>2 DEF Layouts
    <3>2. /\ d \in Devices /\ a \in 0 .. m - 1
          /\ Fits(d, a, m - 1)
          /\ a = 0 => k = [l \in 0 .. m - 1 |-> d]
          /\ a # 0 => /\ a \in 1 .. NumLayers /\ m \in a + 1 .. NumLayers
                      /\ g \in Layouts(a) /\ d \notin Used(g)
                      /\ k = Grown(g, a, d, m)
      BY <1>1, <3>1, CutLayout
    <3> HIDE DEF a
    <3>3. CASE a = 0
      <4>1. k = [l \in 0 .. m - 1 |-> d] /\ Fits(d, 0, m - 1)
        BY <3>2, <3>3
      <4> HIDE DEF d
      <4>2. Used(k) = {d} /\ k[m - 1] = d /\ LayoutScore(k) = SegmentScore(d, 0, m - 1)
        BY <1>1, <3>1, <3>2, <4>1, SingleLayout
      <4>3. t = State(m, {d}, d)
        BY <4>2 DEF StateOf
      <4> HIDE DEF t
      <4>4. t.mask = {d} /\ t.last = d /\ t.end = m /\ t \in States
        BY <3>1, <3>2, <4>3 DEF State, States
      <4>5. t \in DOMAIN dp /\ dp[t].score <= SegmentScore(d, 0, m - 1)
        BY <1>1, <4>1, <4>4 DEF SeedInv
      <4> QED BY <4>2, <4>5 DEF t
    <3>4. CASE a # 0
      <4>1. /\ a \in 1 .. NumLayers /\ m \in a + 1 .. NumLayers
            /\ g \in Layouts(a) /\ d \notin Used(g) /\ k = Grown(g, a, d, m)
            /\ a \in Nat /\ a < m /\ d \in Devices
        BY <1>1, <3>1, <3>2, <3>4
      <4> HIDE DEF g
      <4>2. g \in [0 .. a - 1 -> Devices]
        BY <4>1 DEF Layouts
      <4>3. Used(k) = Used(g) \cup {d}
        BY <1>1, <4>1, <4>2, GrownLayers
      <4>4. /\ Used(g) \subseteq Devices /\ Cardinality(Used(g)) \in Nat
            /\ Cardinality(Used(k)) = Cardinality(Used(g)) + 1 /\ g[a - 1] \in Devices
        <5>1. /\ Used(g) \subseteq Devices /\ IsFiniteSet(Used(g))
              /\ Cardinality(Used(g)) \in Nat /\ g[a - 1] \in Used(g)
          BY <1>1, <4>1, <4>2, UsedIs
        <5> DEFINE U == Used(g)
        <5> HIDE DEF U, d
        <5>2. IsFiniteSet(U) /\ d \notin U
          BY <4>1, <5>1 DEF U
        <5>3. Cardinality(U \cup {d}) = Cardinality(U) + 1
          BY <5>2, FS_AddElement
        <5> QED BY <4>3, <5>1, <5>3 DEF U
      <4>5. Cardinality(Used(g)) < MaxDevices
        BY <1>1, <4>4, DevicesAre
      <4>6. s \in DOMAIN dp /\ dp[s].score <= LayoutScore(g)
        <5>1. a \in 1 .. n /\ a <= Ready
          BY <1>2, <2>2, <3>1, <4>1
        <5>2. Cardinality(Used(g)) <= MaxDevices
          BY <1>1, <4>4, <4>5, DevicesAre
        <5> QED BY <2>1, <4>1, <5>1, <5>2
      <4>7. s.end = a /\ s.mask = Used(g)
        BY DEF StateOf, State
      <4>8. s \in expanded
        <5>1. s \in Expandable
          BY <1>1, <3>1, <4>1, <4>5, <4>6, <4>7 DEF Expandable
        <5>2. s.end < Ready
          BY <1>2, <2>2, <3>1, <4>1, <4>7
        <5> QED BY <1>2, <5>1, <5>2
      <4>9. t.end = m /\ t.mask = Used(g) \cup {d} /\ t.last = d
        BY <4>3 DEF StateOf, State
      <4>10. t \in Successors(s)
        <5>1. t \in States
          BY <3>1, <4>1, <4>3, <4>4 DEF StateOf, State, States
        <5>2. t.end > s.end
          BY <4>1, <4>7, <4>9
        <5> HIDE DEF s, t, d
        <5>3. Fits(t.last, s.end, t.end - 1)
          BY <3>2, <4>7, <4>9
        <5> QED BY <4>1, <4>7, <4>9, <5>1, <5>2, <5>3 DEF Successors
      <4> HIDE DEF s, t, d
      <4>11. /\ t \in DOMAIN dp
             /\ dp[t].score <= Combined(dp[s].score, SegmentScore(d, a, m - 1))
        BY <1>1, <4>7, <4>8, <4>9, <4>10 DEF StepInv
      <4>12. LayoutScore(k) = Combined(LayoutScore(g), SegmentScore(d, a, m - 1))
        BY <1>1, <4>1, GrownLayout
      <4> DEFINE x == dp[s].score
                 y == LayoutScore(g)
                 z == SegmentScore(d, a, m - 1)
      <4>13. x \in Nat /\ y \in Nat /\ z \in Nat /\ dp[t].score \in Nat
        <5>1. x \in Nat /\ dp[t].score \in Nat
          BY <4>6, <4>11 DEF TypeOK
        <5>2. y \in Nat
          BY <1>1, <4>1, <4>2, LayoutScoreType
        <5>3. a \in Layers /\ m - 1 \in Layers
          BY <1>1, <3>1, <4>1 DEF Layers
        <5>4. z \in Nat
          BY <1>1, <4>1, <5>3, ScoreType
        <5> QED BY <5>1, <5>2, <5>4
      <4>14. x <= y
        BY <4>6
      <4>15. dp[t].score <= Combined(x, z)
        BY <4>11
      <4>16. LayoutScore(k) = Combined(y, z)
        BY <4>12
      <4> HIDE DEF x, y, z
      <4>17. Combined(x, z) <= Combined(y, z) /\ Combined(x, z) \in Nat /\ Combined(y, z) \in Nat
        BY <4>13, <4>14, CombinedGrows, CombinedType
      <4>18. dp[t].score <= Combined(y, z)
        BY <4>13, <4>15, <4>17
      <4> QED BY <4>11, <4>16, <4>18 DEF t
    <3> QED BY <3>3, <3>4
  <2> QED BY <2>2
<1>5. Ready \in T
  BY <1>2, <1>3, <1>4, AllNumbers
<1>6. end \in 1 .. Ready /\ end <= Ready
  BY <1>2
<1>7. Found(end)
  BY <1>5, <1>6
<1> QED BY <1>7

(* The place of a layout in the table.                                     *)
LEMMA StateOfIs ==
  ASSUME NEW f, NEW end
  PROVE  /\ StateOf(f, end).end = end /\ StateOf(f, end).mask = Used(f)
         /\ StateOf(f, end).last = f[end - 1]
BY DEF StateOf, State

(* A layout of the devices a label's segments show is the label's own.     *)
LEMMA ListedLayout ==
  ASSUME NEW end, NEW f \in [0 .. end - 1 -> Devices], NEW g \in [0 .. end - 1 -> Devices],
         NEW segments, Lists(segments, g),
         \A l \in 0 .. end - 1 : \E i \in DOMAIN segments :
            segments[i].device = f[l] /\ l \in segments[i].start .. segments[i].end
  PROVE  f = g
<1>1. \A l \in 0 .. end - 1 : f[l] = g[l]
  BY DEF Lists
<1>2. f = [l \in 0 .. end - 1 |-> f[l]] /\ g = [l \in 0 .. end - 1 |-> g[l]]
  OBVIOUS
<1>3. [l \in 0 .. end - 1 |-> f[l]] = [l \in 0 .. end - 1 |-> g[l]]
  BY <1>1
<1> QED BY <1>2, <1>3

(* The table stores the best.                                              *)
LEMMA TableIsExact ==
  ASSUME TypeOK, TableInv
  PROVE  ExactBest
<1> SUFFICES ASSUME phase = "search", NEW end \in 1 .. Ready
             PROVE  LET layouts == {f \in Layouts(end) : Cardinality(Used(f)) <= MaxDevices}
                    IN  /\ {s \in DOMAIN dp : s.end = end} = {StateOf(f, end) : f \in layouts}
                        /\ \A f \in layouts :
                             LET label == dp[StateOf(f, end)]
                             IN  /\ label.score <= LayoutScore(f)
                                 /\ (\A l \in 0 .. end - 1 :
                                       \E i \in DOMAIN label.segments :
                                          /\ label.segments[i].device = f[l]
                                          /\ l \in label.segments[i].start .. label.segments[i].end)
                                    => label.score = LayoutScore(f)
  BY DEF ExactBest
<1> DEFINE layouts == {f \in Layouts(end) : Cardinality(Used(f)) <= MaxDevices}
<1>1. \A f \in layouts : StateOf(f, end) \in DOMAIN dp /\ dp[StateOf(f, end)].score <= LayoutScore(f)
  BY Reached
<1>2. \A s \in DOMAIN dp : Explained(s, dp[s])
  BY DEF TableInv, LabelInv
<1>3. \A f \in layouts : f \in Layouts(end) /\ Cardinality(Used(f)) <= MaxDevices
  OBVIOUS
<1>4. \A f \in Layouts(end) : Cardinality(Used(f)) <= MaxDevices => f \in layouts
  OBVIOUS
<1> HIDE DEF layouts
<1>5. {s \in DOMAIN dp : s.end = end} = {StateOf(f, end) : f \in layouts}
  <2>1. ASSUME NEW s \in DOMAIN dp, s.end = end
        PROVE  \E f \in layouts : s = StateOf(f, end)
    BY <1>2, <1>4, <2>1 DEF Explained
  <2>2. ASSUME NEW f \in layouts
        PROVE  StateOf(f, end) \in DOMAIN dp /\ StateOf(f, end).end = end
    BY <1>1, StateOfIs
  <2> QED BY <2>1, <2>2
<1>6. ASSUME NEW f \in layouts,
             \A l \in 0 .. end - 1 :
               \E i \in DOMAIN dp[StateOf(f, end)].segments :
                  /\ dp[StateOf(f, end)].segments[i].device = f[l]
                  /\ l \in dp[StateOf(f, end)].segments[i].start .. dp[StateOf(f, end)].segments[i].end
      PROVE  dp[StateOf(f, end)].score = LayoutScore(f)
  <2> DEFINE s == StateOf(f, end)
  <2>1. s.end = end /\ Explained(s, dp[s])
    BY <1>1, <1>2, StateOfIs
  <2>2. PICK g \in Layouts(end) : dp[s].score = LayoutScore(g) /\ Lists(dp[s].segments, g)
    BY <2>1 DEF Explained
  <2>3. f \in [0 .. end - 1 -> Devices] /\ g \in [0 .. end - 1 -> Devices]
    BY <1>3 DEF Layouts
  <2>4. f = g
    BY <1>6, <2>2, <2>3, ListedLayout
  <2> QED BY <2>2, <2>4
<1>7. /\ {s \in DOMAIN dp : s.end = end} = {StateOf(f, end) : f \in layouts}
      /\ \A f \in layouts :
           LET label == dp[StateOf(f, end)]
           IN  /\ label.score <= LayoutScore(f)
               /\ (\A l \in 0 .. end - 1 :
                     \E i \in DOMAIN label.segments :
                        /\ label.segments[i].device = f[l]
                        /\ l \in label.segments[i].start .. label.segments[i].end)
                  => label.score = LayoutScore(f)
  BY <1>1, <1>5, <1>6
<1> QED BY <1>7 DEF layouts

-----------------------------------------------------------------------------
(* The label that is picked: a cheapest one, with fewest devices.          *)
LEMMA BestIs ==
  ASSUME Checked, TypeOK, Complete # {}
  PROVE  /\ Best \in Complete
         /\ \A t \in Complete :
              \/ dp[Best].score < dp[t].score
              \/ /\ dp[Best].score = dp[t].score
                 /\ Cardinality(Best.mask) <= Cardinality(t.mask)
<1> DEFINE score == [s \in Complete |-> dp[s].score]
           size == [s \in Complete |-> Cardinality(s.mask)]
           V == {score[s] : s \in Complete}
           C == {s \in Complete : score[s] = Min(V)}
           W == {size[s] : s \in C}
           Good == {s \in Complete : \A t \in Complete :
                      \/ dp[s].score < dp[t].score
                      \/ /\ dp[s].score = dp[t].score
                         /\ Cardinality(s.mask) <= Cardinality(t.mask)}
<1>1. Complete \subseteq States /\ IsFiniteSet(Complete)
  <2>1. Complete \subseteq States
    BY DEF Complete, TypeOK
  <2> QED BY <2>1, StatesFinite, FS_Subset
<1>2. \A s \in Complete : score[s] = dp[s].score /\ score[s] \in Nat
  BY DEF Complete, TypeOK
<1>3. \A s \in Complete : size[s] = Cardinality(s.mask) /\ size[s] \in Nat
  <2> TAKE s \in Complete
  <2>1. s.mask \subseteq Devices
    BY <1>1 DEF States
  <2>2. IsFiniteSet(s.mask)
    BY <2>1, DevicesAre, FS_Subset
  <2> QED BY <2>2, FS_CardinalityType
<1> HIDE DEF score, size
<1>4. V \subseteq Nat /\ V # {} /\ IsFiniteSet(V)
  <2>1. IsFiniteSet(V)
    BY <1>1, ImageFinite
  <2> QED BY <1>2, <2>1
<1>5. Min(V) \in V /\ \A x \in V : Min(V) <= x
  <2> HIDE DEF V
  <2> QED BY <1>4, MinIs
<1>6. C \subseteq Complete /\ C # {} /\ IsFiniteSet(C)
  <2>1. C \subseteq Complete /\ C # {}
    BY <1>5
  <2> HIDE DEF C
  <2> QED BY <1>1, <2>1, FS_Subset
<1>7. W \subseteq Nat /\ W # {} /\ IsFiniteSet(W)
  <2> HIDE DEF C
  <2>1. IsFiniteSet(W)
    BY <1>6, ImageFinite
  <2> QED BY <1>3, <1>6, <2>1
<1>8. Min(W) \in W /\ \A x \in W : Min(W) <= x
  <2> HIDE DEF W
  <2> QED BY <1>7, MinIs
<1>9. PICK s \in C : \A t \in C : size[s] <= size[t]
  <2> HIDE DEF C
  <2> QED BY <1>8
<1>10. s \in Good
  <2>1. s \in Complete /\ score[s] = Min(V)
    BY <1>6
  <2>2. ASSUME NEW t \in Complete
        PROVE  \/ score[s] < score[t]
               \/ score[s] = score[t] /\ size[s] <= size[t]
    <3>1. score[s] <= score[t] /\ score[s] \in Nat /\ score[t] \in Nat
      BY <1>2, <1>5, <2>1
    <3>2. score[t] = score[s] => t \in C
      BY <2>1
    <3> QED BY <1>9, <3>1, <3>2
  <2> QED BY <1>2, <1>3, <2>1, <2>2
<1>11. Best = FirstOf(Good)
  BY DEF Best
<1>12. Good \subseteq States /\ Good # {} /\ Good \subseteq Complete
  BY <1>1, <1>10
<1>13. Best \in Good
  <2> HIDE DEF Good
  <2> QED BY <1>11, <1>12, FirstOfIs
<1> QED BY <1>13

(* The nodes of a plan say where each layer is.                            *)
LEMMA NodesAre ==
  ASSUME Checked, NEW f \in [Layers -> Devices], NEW segments, Lists(segments, f)
  PROVE  LET nodes == NodesOf(segments)
         IN  /\ \A l \in Layers : Cardinality(Planned(nodes, l)) <= 1
             /\ {nodes[n].host : n \in DOMAIN nodes}
                  = {Device(d).host : d \in {e \in Devices : IsWorker(e)}}
             /\ PlannedLayout(nodes) = f
<1> DEFINE nodes == NodesOf(segments)
           Workers == {e \in Devices : IsWorker(e)}
           OnDevice(d) == UNION {segments[i].start .. segments[i].end :
                                   i \in {j \in DOMAIN segments : segments[j].device = d}}
<1>1. \A c, d \in Devices : Device(c).name = Device(d).name => c = d
  BY DEF Checked, Valid, DistinctNames
<1>2. \A c, d \in Devices : ~ IsWorker(c) /\ ~ IsWorker(d) => c = d
  <2> DEFINE M == {d \in Devices : ~ IsWorker(d)}
  <2>1. Cardinality(M) = 1
    BY DEF Checked, Valid, ValidCount
  <2>2. IsFiniteSet(M)
    BY DevicesAre, FS_Subset
  <2>3. \A c, d \in M : c = d
    <3> HIDE DEF M
    <3>1. \E x : M = {x}
      BY <2>1, <2>2, FS_Singleton
    <3> QED BY <3>1
  <2> QED BY <2>3
<1>3. /\ DOMAIN nodes = {Device(d).name : d \in Workers}
      /\ \A d \in Workers : /\ nodes[Device(d).name].host = Device(d).host
                            /\ nodes[Device(d).name].layers = OnDevice(d)
  <2>1. DOMAIN nodes = {Device(d).name : d \in Workers}
    BY DEF NodesOf
  <2>2. ASSUME NEW d \in Workers
        PROVE  /\ nodes[Device(d).name].host = Device(d).host
               /\ nodes[Device(d).name].layers = OnDevice(d)
    <3> DEFINE name == Device(d).name
               e == CHOOSE c \in Devices : Device(c).name = name
    <3>1. e = d
      BY <1>1
    <3>2. nodes[name] = [host |-> Device(e).host, layers |-> OnDevice(e)]
      BY DEF NodesOf
    <3> HIDE DEF nodes, e, OnDevice
    <3> QED BY <3>1, <3>2
  <2> QED BY <2>1, <2>2
<1>4. \A d \in Devices, l \in Layers : l \in OnDevice(d) <=> f[l] = d
  <2> TAKE d \in Devices, l \in Layers
  <2>1. l \in OnDevice(d) <=> \E i \in DOMAIN segments : /\ segments[i].device = d
                                                        /\ l \in segments[i].start .. segments[i].end
    OBVIOUS
  <2> QED BY <2>1 DEF Lists
<1> HIDE DEF nodes, OnDevice
<1>5. {nodes[n].host : n \in DOMAIN nodes} = {Device(d).host : d \in Workers}
  <2>1. \A n \in DOMAIN nodes : \E d \in Workers : n = Device(d).name
    BY <1>3
  <2>2. \A d \in Workers : Device(d).name \in DOMAIN nodes
    BY <1>3
  <2> HIDE DEF Workers
  <2> QED BY <1>3, <2>1, <2>2
<1>6. ASSUME NEW l \in Layers
      PROVE  /\ f[l] \in Devices
             /\ IsWorker(f[l]) => Planned(nodes, l) = {Device(f[l]).name}
             /\ ~ IsWorker(f[l]) => Planned(nodes, l) = {}
  <2>1. Planned(nodes, l) = {Device(d).name : d \in {e \in Workers : f[l] = e}}
    <3>1. \A d \in Workers : l \in nodes[Device(d).name].layers <=> f[l] = d
      <4> TAKE d \in Workers
      <4>1. nodes[Device(d).name].layers = OnDevice(d) /\ d \in Devices
        BY <1>3
      <4> QED BY <1>4, <4>1
    <3> QED BY <1>3, <3>1 DEF Planned
  <2> QED BY <2>1
<1>7. \A l \in Layers : Cardinality(Planned(nodes, l)) <= 1
  <2> TAKE l \in Layers
  <2>1. Planned(nodes, l) = {} \/ Planned(nodes, l) = {Device(f[l]).name}
    BY <1>6
  <2>2. Cardinality({}) = 0 /\ Cardinality({Device(f[l]).name}) = 1
    BY FS_Singleton, FS_EmptySet
  <2> QED BY <2>1, <2>2
<1>8. PlannedLayout(nodes) = f
  <2>1. ASSUME NEW l \in Layers
        PROVE  (CHOOSE d \in Devices :
                  IF Planned(nodes, l) = {} THEN ~ IsWorker(d)
                  ELSE Device(d).name \in Planned(nodes, l)) = f[l]
    <3>1. CASE IsWorker(f[l])
      <4>1. \A d \in Devices : Device(d).name \in Planned(nodes, l) <=> d = f[l]
        BY <1>1, <1>6, <3>1
      <4> QED BY <1>6, <3>1, <4>1
    <3>2. CASE ~ IsWorker(f[l])
      <4>1. \A d \in Devices : ~ IsWorker(d) <=> d = f[l]
        BY <1>2, <1>6, <3>2
      <4> QED BY <1>6, <3>2, <4>1
    <3> QED BY <3>1, <3>2
  <2>2. PlannedLayout(nodes) = [l \in Layers |-> f[l]]
    BY <2>1 DEF PlannedLayout
  <2> QED BY <2>2
<1> QED BY <1>5, <1>7, <1>8 DEF nodes

(* Once all labels have been extended, every layout within the bounds has  *)
(* a complete label.                                                       *)
LEMMA AllComplete ==
  ASSUME TypeOK, TableInv, phase = "search", Expandable \subseteq expanded,
         NEW f \in Layouts(NumLayers), Allowed(f)
  PROVE  LET s == StateOf(f, NumLayers)
         IN  s \in Complete /\ s.mask = Used(f) /\ dp[s].score <= LayoutScore(f)
<1> DEFINE s == StateOf(f, NumLayers)
<1>1. Checked
  BY DEF TableInv, CheckedInv
<1>2. NumLayers \in Nat /\ NumLayers \in 1 .. NumLayers
  <2>1. NumLayers \in Nat
    BY <1>1, DevicesAre
  <2>2. CASE NumLayers = 0
    <3>1. f \in [0 .. -1 -> Devices]
      BY <2>2 DEF Layouts
    <3>2. Used(f) = {}
      BY <3>1 DEF Used
    <3>3. Cardinality(Used(f)) = 0
      BY <3>2, FS_EmptySet
    <3>4. profile.min_devices \in Nat \ {0} /\ MaxDevices \in Nat
      BY <1>1, DevicesAre
    <3> QED BY <3>3, <3>4 DEF Allowed
  <2> QED BY <2>1, <2>2
<1>3. Ready = NumLayers
  BY DEF Ready
<1>4. Cardinality(Used(f)) \in profile.min_devices .. MaxDevices
  BY DEF Allowed
<1>5. Cardinality(Used(f)) <= MaxDevices
  BY <1>1, <1>4, DevicesAre
<1>6. s \in DOMAIN dp /\ dp[s].score <= LayoutScore(f)
  BY <1>2, <1>3, <1>5, Reached
<1>7. s.end = NumLayers /\ s.mask = Used(f)
  BY StateOfIs
<1> HIDE DEF s
<1>8. s \in Complete
  BY <1>4, <1>6, <1>7 DEF Complete
<1> QED BY <1>6, <1>7, <1>8 DEF s

(* What is picked is a good plan.                                          *)
LEMMA BestPlan ==
  ASSUME TypeOK, TableInv, phase = "search", Expandable \subseteq expanded, Complete # {}
  PROVE  GoodPlan(NodesOf(dp[Best].segments))
<1> DEFINE s == Best
           nodes == NodesOf(dp[s].segments)
<1>1. Checked
  BY DEF TableInv, CheckedInv
<1>2. /\ s \in Complete
      /\ \A t \in Complete : \/ dp[s].score < dp[t].score
                             \/ /\ dp[s].score = dp[t].score
                                /\ Cardinality(s.mask) <= Cardinality(t.mask)
  BY <1>1, BestIs
<1> HIDE DEF s
<1>3. /\ s \in DOMAIN dp /\ s.end = NumLayers
      /\ Cardinality(s.mask) \in profile.min_devices .. MaxDevices
      /\ NumLayers \in 1 .. NumLayers
  <2>1. s \in DOMAIN dp /\ s.end = NumLayers
        /\ Cardinality(s.mask) \in profile.min_devices .. MaxDevices
    BY <1>2 DEF Complete
  <2>2. s.end \in 1 .. NumLayers
    BY <2>1 DEF TypeOK, States
  <2> QED BY <2>1, <2>2
<1>4. PICK f \in Layouts(NumLayers) : /\ StateOf(f, NumLayers) = s
                                      /\ dp[s].score = LayoutScore(f)
                                      /\ Lists(dp[s].segments, f)
  BY <1>3 DEF TableInv, LabelInv, Explained
<1>5. f \in [Layers -> Devices] /\ s.mask = Used(f)
  BY <1>4, StateOfIs DEF Layouts, Layers
<1>6. /\ \A l \in Layers : Cardinality(Planned(nodes, l)) <= 1
      /\ {nodes[n].host : n \in DOMAIN nodes}
           = {Device(d).host : d \in {e \in Devices : IsWorker(e)}}
      /\ PlannedLayout(nodes) = f
  BY <1>1, <1>4, <1>5, NodesAre
<1>7. Allowed(f)
  BY <1>3, <1>5 DEF Allowed
<1>8. Optimal(f)
  <2> SUFFICES ASSUME NEW k \in Layouts(NumLayers), Allowed(k)
               PROVE  \/ LayoutScore(f) < LayoutScore(k)
                      \/ /\ LayoutScore(f) = LayoutScore(k)
                         /\ Cardinality(Used(f)) <= Cardinality(Used(k))
    BY DEF Optimal
  <2> DEFINE t == StateOf(k, NumLayers)
  <2>1. t \in Complete /\ t.mask = Used(k) /\ dp[t].score <= LayoutScore(k)
    BY AllComplete
  <2> HIDE DEF t
  <2>2. LayoutScore(f) \in Nat /\ LayoutScore(k) \in Nat /\ dp[t].score \in Nat
    <3>1. f \in [0 .. NumLayers - 1 -> Devices] /\ k \in [0 .. NumLayers - 1 -> Devices]
      BY DEF Layouts
    <3>2. dp[t].score \in Nat
      BY <2>1 DEF Complete, TypeOK
    <3> QED BY <1>1, <1>3, <3>1, <3>2, LayoutScoreType
  <2> QED BY <1>2, <1>4, <1>5, <2>1, <2>2
<1> HIDE DEF nodes
<1>9. GoodPlan(nodes)
  BY <1>6, <1>7, <1>8 DEF GoodPlan
<1> QED BY <1>9 DEF nodes, s

-----------------------------------------------------------------------------
(* What makes a plan good is a matter of the profile.                      *)
LEMMA PlansKept ==
  ASSUME profile' = profile
  PROVE  /\ \A nodes : GoodPlan(nodes)' = GoodPlan(nodes)
         /\ \A f : Allowed(f)' = Allowed(f)
         /\ Layouts(NumLayers)' = Layouts(NumLayers)
<1>1. /\ Devices' = Devices /\ NumLayers' = NumLayers /\ MaxDevices' = MaxDevices
      /\ Layers' = Layers
      /\ \A d : Device(d)' = Device(d) /\ IsWorker(d)' = IsWorker(d)
      /\ \A end : Layouts(end)' = Layouts(end)
      /\ \A f : LayoutScore(f)' = LayoutScore(f)
  BY Kept
<1>2. \A f : Allowed(f)' = Allowed(f)
  BY <1>1 DEF Allowed
<1>3. \A f : Optimal(f)' = Optimal(f)
  BY <1>1, <1>2 DEF Optimal
<1>4. \A nodes : PlannedLayout(nodes)' = PlannedLayout(nodes)
  BY <1>1 DEF PlannedLayout
<1>5. \A nodes : GoodPlan(nodes)' = GoodPlan(nodes)
  BY <1>1, <1>2, <1>3, <1>4 DEF GoodPlan
<1> QED BY <1>1, <1>2, <1>5

(* Every step preserves the invariant.                                     *)
LEMMA InvInductive ==
  ASSUME Inv, [Next]_vars
  PROVE  Inv'
<1>1. TypeOK /\ TableInv /\ PlanOptimal /\ GivesUpRightly
  BY DEF Inv
<1>2. CASE Validate
  <2>1. TypeOK' /\ TableInv'
    BY <1>1, <1>2, ValidateTable
  <2>2. PlanOptimal' /\ GivesUpRightly'
    BY <1>2 DEF Validate, PlanOptimal, GivesUpRightly
  <2> QED BY <2>1, <2>2 DEF Inv
<1>3. CASE Seed
  <2>1. TypeOK' /\ TableInv'
    BY <1>1, <1>3, SeedTable
  <2>2. PlanOptimal' /\ GivesUpRightly'
    BY <1>3 DEF Seed, PlanOptimal, GivesUpRightly
  <2> QED BY <2>1, <2>2 DEF Inv
<1>4. CASE Extend
  <2>1. TypeOK' /\ TableInv'
    BY <1>1, <1>4, ExtendTable
  <2>2. PlanOptimal' /\ GivesUpRightly'
    BY <1>4 DEF Extend, PlanOptimal, GivesUpRightly
  <2> QED BY <2>1, <2>2 DEF Inv
<1>5. CASE Pick
  <2>1. /\ phase = "search" /\ phase' = "planned" /\ Expandable \subseteq expanded /\ Complete # {}
        /\ topology' = NodesOf(dp[Best].segments)
        /\ profile' = profile /\ dp' = dp /\ expanded' = expanded
    BY <1>5 DEF Pick
  <2>2. Checked
    BY <1>1, <2>1 DEF TableInv, CheckedInv
  <2>3. TypeOK' /\ TableInv'
    BY <1>1, <2>1, <2>2, TableKept
  <2>4. PlanOptimal'
    <3>1. GoodPlan(NodesOf(dp[Best].segments))
      BY <1>1, <2>1, BestPlan
    <3> QED BY <2>1, <3>1, PlansKept DEF PlanOptimal
  <2>5. GivesUpRightly'
    BY <2>1 DEF GivesUpRightly
  <2> QED BY <2>3, <2>4, <2>5 DEF Inv
<1>6. CASE NoPlacement
  <2>1. /\ phase = "search" /\ phase' = "infeasible" /\ Expandable \subseteq expanded
        /\ Complete = {}
        /\ profile' = profile /\ dp' = dp /\ expanded' = expanded
    BY <1>6 DEF NoPlacement
  <2>2. Checked
    BY <1>1, <2>1 DEF TableInv, CheckedInv
  <2>3. TypeOK' /\ TableInv'
    BY <1>1, <2>1, <2>2, TableKept
  <2>4. GivesUpRightly'
    <3>1. \A f \in Layouts(NumLayers) : ~ Allowed(f)
      BY <1>1, <2>1, AllComplete
    <3> QED BY <2>1, <3>1, PlansKept DEF GivesUpRightly
  <2>5. PlanOptimal'
    BY <2>1 DEF PlanOptimal
  <2> QED BY <2>3, <2>4, <2>5 DEF Inv
<1>7. CASE UNCHANGED vars
  <2>1. /\ profile' = profile /\ phase' = phase /\ dp' = dp /\ expanded' = expanded
        /\ topology' = topology
    BY <1>7 DEF vars
  <2>2. TypeOK' /\ TableInv'
    <3>1. /\ phase \in {"validate", "seed", "search", "planned", "refused", "infeasible"}
          /\ phase = "seed" => Checked /\ DOMAIN dp = {} /\ expanded = {}
          /\ phase = "refused" => DOMAIN dp = {} /\ expanded = {}
          /\ phase \in {"planned", "infeasible"} => Checked
      BY <1>1 DEF TypeOK, TableInv, CheckedInv
    <3> QED BY <1>1, <2>1, <3>1, TableKept
  <2>3. PlanOptimal' /\ GivesUpRightly'
    BY <1>1, <2>1, PlansKept DEF PlanOptimal, GivesUpRightly
  <2> QED BY <2>2, <2>3 DEF Inv
<1> QED BY <1>2, <1>3, <1>4, <1>5, <1>6, <1>7 DEF Next

(* The invariant.                                                          *)
THEOREM Invariance == Spec => []Inv
<1>1. Init => Inv
  <2> SUFFICES ASSUME Init
               PROVE  Inv
    OBVIOUS
  <2>1. TypeOK /\ TableInv
    BY InitTable
  <2>2. PlanOptimal /\ GivesUpRightly
    BY DEF Init, PlanOptimal, GivesUpRightly
  <2> QED BY <2>1, <2>2 DEF Inv
<1>2. Inv /\ [Next]_vars => Inv'
  BY InvInductive
<1> QED BY <1>1, <1>2, PTL DEF Spec

(* The labels of the table are about devices and layers of the profile.    *)
THEOREM TypeCorrect == Spec => []TypeOK
<1>1. Inv => TypeOK
  BY DEF Inv
<1> QED BY <1>1, Invariance, PTL

(* plan_with_algorithm: the table stores "the exact best scalar-cost       *)
(* layout" of every state.                                                 *)
THEOREM TableIsBest == Spec => []ExactBest
<1>1. Inv => ExactBest
  BY TableIsExact DEF Inv
<1> QED BY <1>1, Invariance, PTL

(* The plan fits, within the bounds on devices, and none scores less.      *)
THEOREM PlansAreOptimal == Spec => []PlanOptimal
<1>1. Inv => PlanOptimal
  BY DEF Inv
<1> QED BY <1>1, Invariance, PTL

(* The planner gives up only where nothing fits.                           *)
THEOREM GivingUpIsRight == Spec => []GivesUpRightly
<1>1. Inv => GivesUpRightly
  BY DEF Inv
<1> QED BY <1>1, Invariance, PTL
=============================================================================

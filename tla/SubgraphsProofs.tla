-------------------------- MODULE SubgraphsProofs --------------------------
(***************************************************************************)
(* Proofs about Subgraphs: a network that departs from the CPU's result    *)
(* never reaches what a layer hands on, a network that was given up stays  *)
(* given up and is given up for its own result, and the vision network has *)
(* the NPU to itself.  The inductive invariant says what a connection that *)
(* is in the middle of a step may still assume of locks it no longer       *)
(* holds.  The bytes of the Q8 copies are accounted for in an invariant of *)
(* their own, with the lemmas on sums.                                     *)
(***************************************************************************)
EXTENDS Subgraphs, FiniteSetTheorems, WellFoundedInduction, TLAPS

-----------------------------------------------------------------------------
(* Sums, as the folds of the community modules define them.                *)

(* The sum of the values of a function over a set of its arguments.        *)
SumOf(g, S) == MapThenSumSet(LAMBDA c : g[c], S)

(* The fold is a function on the subsets of a set: h computes it.          *)
AnyOf(s) == CHOOSE x \in s : TRUE
SumFold(h, g, U) ==
  h = [s \in SUBSET U |-> IF s = {} THEN 0 ELSE g[AnyOf(s)] + h[s \ {AnyOf(s)}]]

(* A set of numbers that holds 0 and with a number the next holds all.     *)
LEMMA AllNumbers ==
  ASSUME NEW T, 0 \in T, \A n \in Nat : n \in T => n + 1 \in T
  PROVE  Nat \subseteq T
<1> SUFFICES ASSUME ~ (Nat \subseteq T)
             PROVE  FALSE
  OBVIOUS
<1> DEFINE R == OpToRel(<, Nat)
           M == Nat \ T
<1>1. IsWellFoundedOn(R, Nat) /\ \A x, y \in Nat : x < y => <<x, y>> \in R
  BY NatLessThanWellFounded DEF OpToRel
<1>2. M \subseteq Nat /\ M # {}
  OBVIOUS
<1> HIDE DEF R, M
<1>3. PICK n \in M : \A m \in M : ~ (<<m, n>> \in R)
  BY <1>1, <1>2, WFMin, Zenon
<1> USE DEF M
<1>4. n - 1 \in Nat /\ n - 1 < n
  BY <1>3
<1>5. n - 1 \in T
  BY <1>1, <1>3, <1>4
<1>6. (n - 1) + 1 \in T
  BY <1>4, <1>5
<1> QED BY <1>3, <1>6

(* Some function computes the fold, for the sets of up to n elements and   *)
(* then for all.                                                           *)
LEMMA SumsExist ==
  ASSUME NEW g, NEW U, IsFiniteSet(U)
  PROVE  \E h : SumFold(h, g, U)
<1> DEFINE Small(n) == {s \in SUBSET U : Cardinality(s) <= n}
           Upto(h, n) == h = [s \in Small(n) |->
                                IF s = {} THEN 0 ELSE g[AnyOf(s)] + h[s \ {AnyOf(s)}]]
           T == {n \in Nat : \E h : Upto(h, n)}
<1>1. \A s \in SUBSET U : IsFiniteSet(s) /\ Cardinality(s) \in Nat
  BY FS_Subset, FS_CardinalityType
<1>2. \A s \in SUBSET U : s # {} => /\ AnyOf(s) \in s /\ s \ {AnyOf(s)} \in SUBSET U
                                    /\ Cardinality(s \ {AnyOf(s)}) = Cardinality(s) - 1
  BY <1>1, FS_RemoveElement DEF AnyOf
<1>3. 0 \in T
  <2>1. Small(0) = {{}}
    <3>1. \A s \in SUBSET U : Cardinality(s) <= 0 <=> s = {}
      BY <1>1, FS_EmptySet
    <3> QED BY <3>1
  <2> DEFINE h == [s \in {{}} |-> 0]
  <2>2. \A s \in Small(0) : s = {}
    BY <2>1
  <2>3. Upto(h, 0)
    BY <2>1, <2>2
  <2> QED BY <2>3
<1>4. ASSUME NEW n \in Nat, n \in T
      PROVE  n + 1 \in T
  <2>1. PICK h : Upto(h, n)
    BY <1>4
  <2> DEFINE k == [s \in Small(n + 1) |->
                     IF s = {} THEN 0 ELSE g[AnyOf(s)] + h[s \ {AnyOf(s)}]]
  <2>2. \A s \in Small(n) : s \in Small(n + 1)
    BY <1>1
  <2>3. \A s \in Small(n) : h[s] = IF s = {} THEN 0 ELSE g[AnyOf(s)] + h[s \ {AnyOf(s)}]
    BY <2>1
  <2>4. \A s \in Small(n) : k[s] = h[s]
    BY <2>2, <2>3
  <2>5. \A s \in Small(n + 1) : s # {} => s \ {AnyOf(s)} \in Small(n)
    BY <1>1, <1>2
  <2>6. \A s \in Small(n + 1) :
          (IF s = {} THEN 0 ELSE g[AnyOf(s)] + h[s \ {AnyOf(s)}])
            = (IF s = {} THEN 0 ELSE g[AnyOf(s)] + k[s \ {AnyOf(s)}])
    BY <2>4, <2>5
  <2> HIDE DEF Small
  <2>7. k = [s \in Small(n + 1) |-> IF s = {} THEN 0 ELSE g[AnyOf(s)] + k[s \ {AnyOf(s)}]]
    BY <2>6, Zenon
  <2>8. Upto(k, n + 1)
    BY <2>7, Zenon
  <2> HIDE DEF Upto
  <2> QED BY <2>8
<1>5. Cardinality(U) \in T
  BY <1>1, <1>3, <1>4, AllNumbers
<1>6. PICK h : Upto(h, Cardinality(U))
  BY <1>5
<1>7. Small(Cardinality(U)) = SUBSET U
  BY FS_Subset
<1> HIDE DEF Small
<1> QED BY <1>6, <1>7 DEF SumFold

(* The functions that compute the fold agree where both are defined.       *)
LEMMA SumsAgree ==
  ASSUME NEW g, NEW U, NEW V, IsFiniteSet(U), NEW h, NEW k, SumFold(h, g, U), SumFold(k, g, V),
         NEW S, S \subseteq U, S \subseteq V
  PROVE  h[S] = k[S]
<1> DEFINE T == {n \in Nat : \A s \in SUBSET (U \cap V) : Cardinality(s) = n => h[s] = k[s]}
<1>1. \A s \in SUBSET (U \cap V) : IsFiniteSet(s) /\ Cardinality(s) \in Nat
  BY FS_Subset, FS_CardinalityType
<1>2. \A s \in SUBSET U : h[s] = IF s = {} THEN 0 ELSE g[AnyOf(s)] + h[s \ {AnyOf(s)}]
  BY DEF SumFold
<1>3. \A s \in SUBSET V : k[s] = IF s = {} THEN 0 ELSE g[AnyOf(s)] + k[s \ {AnyOf(s)}]
  BY DEF SumFold
<1>4. 0 \in T
  <2>1. \A s \in SUBSET (U \cap V) : Cardinality(s) = 0 => s = {}
    BY <1>1, FS_EmptySet
  <2>2. h[{}] = 0 /\ k[{}] = 0
    BY <1>2, <1>3
  <2> QED BY <2>1, <2>2
<1>5. ASSUME NEW n \in Nat, n \in T
      PROVE  n + 1 \in T
  <2> SUFFICES ASSUME NEW s \in SUBSET (U \cap V), Cardinality(s) = n + 1
               PROVE  h[s] = k[s]
    OBVIOUS
  <2>1. s # {}
    BY FS_EmptySet
  <2>2. AnyOf(s) \in s
    BY <2>1 DEF AnyOf
  <2>3. Cardinality(s \ {AnyOf(s)}) = n /\ s \ {AnyOf(s)} \in SUBSET (U \cap V)
    <3>1. IsFiniteSet(s)
      BY <1>1
    <3>2. Cardinality(s \ {AnyOf(s)}) = Cardinality(s) - 1
      BY <2>2, <3>1, FS_RemoveElement
    <3> QED BY <3>2
  <2>4. h[s \ {AnyOf(s)}] = k[s \ {AnyOf(s)}]
    BY <1>5, <2>3
  <2>5. s \in SUBSET U /\ s \in SUBSET V
    OBVIOUS
  <2> QED BY <1>2, <1>3, <2>1, <2>4, <2>5
<1>6. Cardinality(S) \in T
  <2>1. Cardinality(S) \in Nat
    BY <1>1
  <2> QED BY <1>4, <1>5, <2>1, AllNumbers
<1> QED BY <1>6

(* The sum is what any function that computes the fold says.               *)
LEMMA SumIs ==
  ASSUME NEW g, NEW U, IsFiniteSet(U), NEW S \in SUBSET U, NEW h, SumFold(h, g, U)
  PROVE  SumOf(g, S) = h[S]
<1> DEFINE k == CHOOSE k : SumFold(k, g, S)
<1>1. SumOf(g, S) = k[S]
  BY DEF SumOf, MapThenSumSet, MapThenFoldSet, SumFold, AnyOf
<1>2. IsFiniteSet(S)
  BY FS_Subset
<1>3. SumFold(k, g, S)
  BY <1>2, SumsExist
<1> HIDE DEF k
<1>4. k[S] = h[S]
  <2>1. S \subseteq S /\ S \subseteq U
    OBVIOUS
  <2> QED BY <1>2, <1>3, <2>1, SumsAgree
<1> QED BY <1>1, <1>4

(* The sum over nothing.                                                   *)
LEMMA SumEmpty ==
  ASSUME NEW g
  PROVE  SumOf(g, {}) = 0
<1>1. IsFiniteSet({})
  BY FS_EmptySet
<1>2. PICK h : SumFold(h, g, {})
  BY <1>1, SumsExist
<1>3. h[{}] = 0
  BY <1>2 DEF SumFold
<1> QED BY <1>1, <1>2, <1>3, SumIs

(* A sum of natural numbers is one, and grows by the value of a new        *)
(* element.                                                                *)
LEMMA SumAdd ==
  ASSUME NEW g, NEW S, IsFiniteSet(S), NEW x, x \notin S,
         \A c \in S \cup {x} : g[c] \in Nat
  PROVE  /\ SumOf(g, S) \in Nat
         /\ SumOf(g, S \cup {x}) = SumOf(g, S) + g[x]
<1> DEFINE U == S \cup {x}
<1>1. IsFiniteSet(U)
  BY FS_AddElement
<1>2. PICK h : SumFold(h, g, U)
  BY <1>1, SumsExist
<1>3. \A c \in U : g[c] \in Nat
  OBVIOUS
<1>4. \A s \in SUBSET U : h[s] = IF s = {} THEN 0 ELSE g[AnyOf(s)] + h[s \ {AnyOf(s)}]
  BY <1>2 DEF SumFold
<1>5. \A s \in SUBSET U : IsFiniteSet(s) /\ Cardinality(s) \in Nat
  BY <1>1, FS_Subset, FS_CardinalityType
<1> HIDE DEF U
<1> DEFINE T == {n \in Nat : \A s \in SUBSET U : Cardinality(s) = n =>
                    h[s] \in Nat /\ \A y \in U \ s : h[s \cup {y}] = h[s] + g[y]}
<1>6. 0 \in T
  <2>1. \A s \in SUBSET U : Cardinality(s) = 0 => s = {}
    BY <1>5, FS_EmptySet
  <2>2. h[{}] = 0
    BY <1>4
  <2>3. ASSUME NEW y \in U
        PROVE  h[{y}] = g[y]
    <3>1. AnyOf({y}) = y /\ {y} \ {AnyOf({y})} = {} /\ {y} \in SUBSET U /\ {y} # {}
      BY DEF AnyOf
    <3>2. h[{y}] = g[y] + 0
      BY <1>4, <2>2, <3>1
    <3> QED BY <1>3, <3>2
  <2>4. ASSUME NEW y \in U
        PROVE  h[{} \cup {y}] = h[{}] + g[y]
    <3>1. {} \cup {y} = {y}
      OBVIOUS
    <3>2. h[{y}] = g[y] /\ g[y] \in Nat
      BY <1>3, <2>3
    <3> QED BY <2>2, <3>1, <3>2
  <2>5. \A y \in U \ {} : h[{} \cup {y}] = h[{}] + g[y]
    BY <2>4
  <2> HIDE DEF T
  <2>6. \A s \in SUBSET U : Cardinality(s) = 0 =>
          h[s] \in Nat /\ \A y \in U \ s : h[s \cup {y}] = h[s] + g[y]
    <3> SUFFICES ASSUME NEW s \in SUBSET U, Cardinality(s) = 0
                 PROVE  h[s] \in Nat /\ \A y \in U \ s : h[s \cup {y}] = h[s] + g[y]
      OBVIOUS
    <3>1. s = {}
      BY <2>1
    <3> QED BY <2>2, <2>5, <3>1
  <2> QED BY <2>6 DEF T
<1>7. ASSUME NEW n \in Nat, n \in T
      PROVE  n + 1 \in T
  <2> SUFFICES ASSUME NEW s \in SUBSET U, Cardinality(s) = n + 1
               PROVE  h[s] \in Nat /\ \A y \in U \ s : h[s \cup {y}] = h[s] + g[y]
    OBVIOUS
  <2>1. s # {}
    BY FS_EmptySet
  <2>2. ASSUME NEW z \in s
        PROVE  /\ s \ {z} \in SUBSET U /\ Cardinality(s \ {z}) = n
               /\ h[s \ {z}] \in Nat /\ \A y \in U \ (s \ {z}) : h[(s \ {z}) \cup {y}] = h[s \ {z}] + g[y]
    <3>1. s \ {z} \in SUBSET U /\ Cardinality(s \ {z}) = n
      BY <1>5, FS_RemoveElement
    <3> QED BY <1>7, <3>1
  <2>3. ASSUME NEW z \in s
        PROVE  h[s] = h[s \ {z}] + g[z] /\ h[s] \in Nat
    <3>1. (s \ {z}) \cup {z} = s /\ z \in U \ (s \ {z})
      OBVIOUS
    <3>2. h[(s \ {z}) \cup {z}] = h[s \ {z}] + g[z]
      BY <2>2, <3>1
    <3>3. g[z] \in Nat /\ h[s \ {z}] \in Nat
      BY <1>3, <2>2
    <3>4. h[s] = h[s \ {z}] + g[z]
      BY <3>1, <3>2
    <3> QED BY <3>3, <3>4
  <2>4. ASSUME NEW y \in U \ s
        PROVE  h[s \cup {y}] = h[s] + g[y]
    <3> DEFINE t == s \cup {y}
               p == AnyOf(t)
    <3>1. t \in SUBSET U /\ t # {} /\ p \in t
      BY DEF AnyOf
    <3>2. h[t] = g[p] + h[t \ {p}]
      BY <1>4, <3>1
    <3>3. g[y] \in Nat /\ g[p] \in Nat
      BY <1>3, <3>1
    <3>4. h[s] \in Nat
      BY <2>1, <2>3
    <3> HIDE DEF p
    <3>5. CASE p = y
      <4>1. t \ {p} = s
        BY <3>5
      <4>2. h[t] = g[y] + h[s]
        BY <3>2, <3>5, <4>1
      <4> HIDE DEF t
      <4>3. h[t] = h[s] + g[y]
        BY <3>3, <3>4, <4>2
      <4> QED BY <4>3 DEF t
    <3>6. CASE p # y
      <4>1. p \in s
        BY <3>1, <3>6
      <4>2. t \ {p} = (s \ {p}) \cup {y} /\ y \in U \ (s \ {p})
        BY <3>6
      <4>3. h[t \ {p}] = h[s \ {p}] + g[y]
        BY <2>2, <4>1, <4>2
      <4>4. h[s] = h[s \ {p}] + g[p] /\ h[s \ {p}] \in Nat
        BY <2>2, <2>3, <4>1
      <4> HIDE DEF t
      <4>5. h[t] = h[s] + g[y]
        BY <3>2, <3>3, <4>3, <4>4
      <4> QED BY <4>5 DEF t
    <3> QED BY <3>5, <3>6
  <2> QED BY <2>1, <2>3, <2>4
<1>8. S \in SUBSET U /\ x \in U \ S
  BY DEF U
<1>9. Cardinality(S) \in T
  <2>1. Cardinality(S) \in Nat
    BY <1>5, <1>8
  <2> QED BY <1>6, <1>7, <2>1, AllNumbers
<1>10. h[S] \in Nat /\ h[S \cup {x}] = h[S] + g[x]
  BY <1>8, <1>9
<1>11. SumOf(g, S) = h[S] /\ SumOf(g, U) = h[U]
  BY <1>1, <1>2, <1>8, SumIs
<1> QED BY <1>10, <1>11 DEF U

(* A sum of natural numbers is a natural number.                           *)
LEMMA SumType ==
  ASSUME NEW g, NEW S, IsFiniteSet(S), \A c \in S : g[c] \in Nat
  PROVE  SumOf(g, S) \in Nat
<1>1. CASE S = {}
  BY <1>1, SumEmpty
<1>2. CASE S # {}
  <2>1. PICK x \in S : TRUE
    BY <1>2
  <2> DEFINE R == S \ {x}
  <2>2. IsFiniteSet(R) /\ x \notin R /\ \A c \in R \cup {x} : g[c] \in Nat
    BY FS_Subset
  <2>3. R \cup {x} = S
    OBVIOUS
  <2> HIDE DEF R
  <2>4. SumOf(g, R) \in Nat /\ SumOf(g, R \cup {x}) = SumOf(g, R) + g[x]
    BY <2>2, SumAdd
  <2>5. SumOf(g, R) + g[x] \in Nat
    BY <2>2, <2>4
  <2>6. SumOf(g, R \cup {x}) \in Nat
    BY <2>4, <2>5
  <2> QED BY <2>3, <2>6
<1> QED BY <1>1, <1>2

-----------------------------------------------------------------------------
(* The inductive invariant, in named parts.                                *)

PCs == {"idle", "full", "active", "flag", "gateUp", "down", "final"}
Uses == Parts \cup {"qkvQ8", "oQ8", "gateUpQ8", "downQ8"}

ThreadState ==
  [pc : PCs, layer : Layers \cup {0}, check : BOOLEAN, used : SUBSET Uses, barred : SUBSET Parts]

(* What is left of the stages of a layer's loading.                        *)
Rests ==
  {Stages, <<"qkvQ8", "oQ8", "full", "gateUp", "down", "gateUpQ8", "downQ8">>,
   <<"oQ8", "full", "gateUp", "down", "gateUpQ8", "downQ8">>,
   <<"full", "gateUp", "down", "gateUpQ8", "downQ8">>,
   <<"gateUp", "down", "gateUpQ8", "downQ8">>, <<"down", "gateUpQ8", "downQ8">>,
   <<"gateUpQ8", "downQ8">>, <<"downQ8">>, <<>>}
Late == {<<"downQ8">>, <<>>}

Types ==
  /\ TypeOK
  /\ setup \in Setups
  /\ todo \in [Layers -> Rests]
  /\ prompt = [images |-> prompt.images, state |-> prompt.state]
  /\ thread \in [Threads -> ThreadState]

(* Loading: the bytes held are part of those reserved, for the one stage   *)
(* that is under way, and a gate/up copy excludes its network.             *)
LoadInv ==
  /\ holding <= reserved
  /\ holding > 0 => \E l \in Layers, j \in Projections :
                      Loading(l, Q8Stage[j]) /\ (j = "gateUp" => ~net[l]["gateUp"].present)
  /\ \A l \in Layers :
       "gateUp" \in q8[l] => todo[l] \in Late /\ ~net[l]["gateUp"].present
  /\ ~Serving => /\ given_up = {} /\ \A l \in Layers : ~split[l]
                 /\ \A t \in Threads : thread[t].pc = "idle"

(* Only a gate/up network can pass its own comparison and fail the MLP's;  *)
(* what was validated is right for one position; what was given up is      *)
(* disabled, for a cause.                                                  *)
NetInv ==
  /\ \A l \in Layers, p \in Parts :
       /\ index[l][p] = "loose" => p = "gateUp"
       /\ net[l][p].validated => index[l][p] \notin {"off", "long"}
       /\ <<l, p>> \in given_up => net[l][p].disabled
  /\ GivenUpForCause

Gone(l) == ~net[l]["gateUp"].present \/ net[l]["gateUp"].disabled

(* The flag of a whole MLP is only up where its gate/up network is sound   *)
(* behind the down projection, or out of use.                              *)
SplitInv == \A l \in Layers : split[l] => Gone(l) \/ index[l]["gateUp"] # "loose"

(* What connection t may assume at each place of a step.                   *)
OwnResult(t) ==
  LET l == thread[t].layer
      used == thread[t].used
  IN /\ \A p \in used \cap Parts : index[l][p] \notin {"off", "long"}
     /\ "downQ8" \in used => "down" \in q8[l]
     /\ \A p \in thread[t].barred : <<l, p>> \in given_up
     /\ used \cap thread[t].barred = {}

BeforeMlp(t) ==
  thread[t].pc \in {"full", "active", "flag"} =>
    /\ ~thread[t].check
    /\ thread[t].pc = "flag" => net[thread[t].layer]["gateUp"].present

BeforeGateUp(t) ==
  /\ thread[t].pc \in {"full", "active", "flag", "gateUp"} =>
       {"gateUp", "gateUpQ8", "downQ8"} \cap thread[t].used = {}
  /\ thread[t].pc = "gateUp" /\ ~thread[t].check =>
       split[thread[t].layer] \/ Gone(thread[t].layer)

Checked(t) ==
  /\ thread[t].check /\ thread[t].pc # "idle" => net[thread[t].layer]["gateUp"].present
  /\ thread[t].check /\ thread[t].pc \in {"down", "final"} =>
       /\ "gateUpQ8" \notin thread[t].used
       /\ "gateUp" \in thread[t].used \/ Gone(thread[t].layer)
  /\ thread[t].pc = "final" => thread[t].check
  /\ thread[t].pc = "down" /\ ~thread[t].check => Wrong(thread[t].layer, thread[t].used) = {}
  /\ thread[t].pc = "idle" => Wrong(thread[t].layer, thread[t].used) = {}

ThreadInv(t) ==
  /\ thread[t].pc # "idle" =>
       /\ thread[t].layer \in Layers
       /\ setup.master => prompt.state = "ready"
  /\ thread[t].used # {} => thread[t].layer \in Layers
  /\ OwnResult(t) /\ BeforeMlp(t) /\ BeforeGateUp(t) /\ Checked(t)

VisionInv ==
  /\ prompt.images # <<>> => prompt.state = "encoding"
  /\ vision /\ ~setup.keep =>
       /\ Serving /\ setup.master /\ prompt.state # "ready"
       /\ \A l \in Layers, p \in MlpParts : ~net[l][p].loaded
       /\ \A t \in Threads : thread[t].pc = "idle"

IInv ==
  /\ Types /\ LoadInv /\ NetInv /\ SplitInv /\ VisionInv
  /\ \A t \in Threads : ThreadInv(t)

-----------------------------------------------------------------------------
(* The stages of the loading.                                              *)

(* The stages are taken one by one, the copies of the halves last.         *)
LEMMA RestTail ==
  ASSUME NEW r \in Rests, r # <<>>
  PROVE  /\ Tail(r) \in Rests
         /\ r \in Late => Tail(r) \in Late /\ Head(r) # "gateUp"
         /\ Head(r) = "gateUpQ8" => Tail(r) \in Late
<1>1. CASE r = <<"qkv", "qkvQ8", "oQ8", "full", "gateUp", "down", "gateUpQ8", "downQ8">>
  <2>1. Tail(r) = <<"qkvQ8", "oQ8", "full", "gateUp", "down", "gateUpQ8", "downQ8">> /\ Head(r) = "qkv"
    BY <1>1
  <2> QED
    BY <2>1, <1>1 DEF Rests, Late, Stages
<1>2. CASE r = <<"qkvQ8", "oQ8", "full", "gateUp", "down", "gateUpQ8", "downQ8">>
  <2>1. Tail(r) = <<"oQ8", "full", "gateUp", "down", "gateUpQ8", "downQ8">> /\ Head(r) = "qkvQ8"
    BY <1>2
  <2> QED
    BY <2>1, <1>2 DEF Rests, Late, Stages
<1>3. CASE r = <<"oQ8", "full", "gateUp", "down", "gateUpQ8", "downQ8">>
  <2>1. Tail(r) = <<"full", "gateUp", "down", "gateUpQ8", "downQ8">> /\ Head(r) = "oQ8"
    BY <1>3
  <2> QED
    BY <2>1, <1>3 DEF Rests, Late, Stages
<1>4. CASE r = <<"full", "gateUp", "down", "gateUpQ8", "downQ8">>
  <2>1. Tail(r) = <<"gateUp", "down", "gateUpQ8", "downQ8">> /\ Head(r) = "full"
    BY <1>4
  <2> QED
    BY <2>1, <1>4 DEF Rests, Late, Stages
<1>5. CASE r = <<"gateUp", "down", "gateUpQ8", "downQ8">>
  <2>1. Tail(r) = <<"down", "gateUpQ8", "downQ8">> /\ Head(r) = "gateUp"
    BY <1>5
  <2> QED
    BY <2>1, <1>5 DEF Rests, Late, Stages
<1>6. CASE r = <<"down", "gateUpQ8", "downQ8">>
  <2>1. Tail(r) = <<"gateUpQ8", "downQ8">> /\ Head(r) = "down"
    BY <1>6
  <2> QED
    BY <2>1, <1>6 DEF Rests, Late, Stages
<1>7. CASE r = <<"gateUpQ8", "downQ8">>
  <2>1. Tail(r) = <<"downQ8">> /\ Head(r) = "gateUpQ8"
    BY <1>7
  <2> QED
    BY <2>1, <1>7 DEF Rests, Late, Stages
<1>8. CASE r = <<"downQ8">>
  <2>1. Tail(r) = <<>> /\ Head(r) = "downQ8"
    BY <1>8
  <2> QED
    BY <2>1, <1>8 DEF Rests, Late, Stages
<1> QED
  BY <1>1, <1>2, <1>3, <1>4, <1>5, <1>6, <1>7, <1>8 DEF Rests, Stages

(* The stage under way belongs to one layer.                               *)
LEMMA OneLoading ==
  ASSUME NEW k \in Layers, NEW l \in Layers, NEW a, NEW b,
         Loading(k, a), Loading(l, b)
  PROVE  k = l /\ a = b
<1>1. k \in Nat /\ l \in Nat
  BY SubgraphsAssumption
<1>2. ~(k < l) /\ ~(l < k)
  BY DEF Loading
<1>3. k = l
  BY <1>1, <1>2
<1> QED
  BY <1>3 DEF Loading

(* Nothing is loaded once every layer is.                                  *)
LEMMA LoadingIsNotServing ==
  ASSUME NEW l \in Layers, NEW stage, Loading(l, stage)
  PROVE  ~Serving
  BY DEF Loading, Serving

-----------------------------------------------------------------------------
(* Trying a network.                                                       *)

(* What an attempt returns: a disabled network is left alone, the output   *)
(* is used only of one that is right for one position, and a network is    *)
(* disabled for its result or for a failure.                               *)
LEMMA AttemptFacts ==
  ASSUME NEW l \in Layers, NEW p \in Parts, net[l][p] \in Network,
         net[l][p].validated => index[l][p] \notin {"off", "long"},
         NEW o \in Attempt(l, p)
  PROVE  /\ o.state \in Network
         /\ o.state.present = net[l][p].present
         /\ net[l][p].disabled => o.state = net[l][p] /\ o.how = "fallback"
         /\ o.how = "npu" => /\ net[l][p].present /\ ~net[l][p].disabled
                             /\ ~o.state.disabled
                             /\ index[l][p] \notin {"off", "long"}
         /\ o.how # "npu" => ~net[l][p].present \/ o.state.disabled
         /\ o.state.validated => index[l][p] \notin {"off", "long"}
         /\ o.state.disabled => net[l][p].disabled \/ index[l][p] # "good" \/ o.fault
<1> DEFINE n == net[l][p]
<1>1. n \in Network
  OBVIOUS
<1>2. CASE ~n.present \/ n.disabled
  <2>1. o = [state |-> n, how |-> "fallback", fault |-> FALSE]
    BY <1>2 DEF Attempt
  <2> QED
    BY <2>1, <1>1, <1>2
<1>3. CASE n.present /\ ~n.disabled
  <2> DEFINE ready == [n EXCEPT !.loaded = TRUE]
             instead == IF n.validated THEN "fallback" ELSE "reference"
  <2>1. \/ o = [state |-> Stopped(ready), how |-> instead, fault |-> TRUE]
        \/ o = [state |-> Stopped(n), how |-> instead, fault |-> TRUE]
        \/ index[l][p] = "long" /\ o = [state |-> Stopped(ready), how |-> instead, fault |-> FALSE]
        \/ index[l][p] = "off" /\ o = [state |-> Stopped(ready), how |-> "reference", fault |-> FALSE]
        \/ /\ index[l][p] # "long" /\ (index[l][p] = "off" => n.validated)
           /\ o = [state |-> [ready EXCEPT !.validated = TRUE], how |-> "npu", fault |-> FALSE]
    BY <1>3 DEF Attempt
  <2>2. ready \in Network /\ ready.present = n.present /\ ~ready.disabled /\ ready.validated = n.validated
    BY <1>1, <1>3 DEF Network
  <2>3. /\ Stopped(ready) \in Network /\ Stopped(ready).disabled
        /\ Stopped(ready).present = n.present /\ Stopped(ready).validated = n.validated
    BY <2>2 DEF Network, Stopped
  <2>4. /\ Stopped(n) \in Network /\ Stopped(n).disabled
        /\ Stopped(n).present = n.present /\ Stopped(n).validated = n.validated
    BY <1>1 DEF Network, Stopped
  <2>5. /\ [ready EXCEPT !.validated = TRUE] \in Network
        /\ ~[ready EXCEPT !.validated = TRUE].disabled
        /\ [ready EXCEPT !.validated = TRUE].present = n.present
    BY <2>2 DEF Network
  <2>6. instead # "npu"
    OBVIOUS
  <2> HIDE DEF ready, instead
  <2>7. CASE o = [state |-> Stopped(ready), how |-> instead, fault |-> TRUE]
    BY <2>7, <2>3, <2>6, <1>3
  <2>8. CASE o = [state |-> Stopped(n), how |-> instead, fault |-> TRUE]
    BY <2>8, <2>4, <2>6, <1>3
  <2>9. CASE index[l][p] = "long" /\ o = [state |-> Stopped(ready), how |-> instead, fault |-> FALSE]
    BY <2>9, <2>3, <2>6, <1>3
  <2>10. CASE index[l][p] = "off" /\ o = [state |-> Stopped(ready), how |-> "reference", fault |-> FALSE]
    BY <2>10, <2>3, <1>3
  <2>11. CASE /\ index[l][p] # "long" /\ (index[l][p] = "off" => n.validated)
              /\ o = [state |-> [ready EXCEPT !.validated = TRUE], how |-> "npu", fault |-> FALSE]
    BY <2>11, <2>5, <1>3
  <2> QED
    BY <2>1, <2>7, <2>8, <2>9, <2>10, <2>11
<1> QED
  BY <1>1, <1>2, <1>3 DEF Network

(* A part contributes its own output, or its Q8 copy where one was made.   *)
LEMMA MadeFacts ==
  ASSUME NEW l \in Layers, NEW p \in Parts, q8[l] \in SUBSET Projections, NEW o
  PROVE  /\ Made(l, p, o) \in SUBSET Uses
         /\ \A x \in Made(l, p, o) \cap Parts : x = p /\ o.how = "npu"
         /\ "gateUpQ8" \in Made(l, p, o) => p = "gateUp" /\ "gateUp" \in q8[l]
         /\ "downQ8" \in Made(l, p, o) => p = "down" /\ "down" \in q8[l]
         /\ o.how = "npu" => p \in Made(l, p, o)
         /\ o.how = "reference" => Made(l, p, o) = {}
  BY DEF Made, Parts, MlpParts, Uses, Projections, Q8Stage

-----------------------------------------------------------------------------
(* What a step leaves true of the connections it does not move.            *)

(* While a connection is in a step, the networks it may use only wear out. *)
WearsOnly(u) ==
  /\ index' = index /\ setup' = setup
  /\ \A l \in Layers : q8[l] \subseteq q8'[l]
  /\ given_up \subseteq given_up'
  /\ thread[u].pc # "idle" =>
       /\ prompt'.state = prompt.state
       /\ \A l \in Layers :
            /\ net'[l]["gateUp"].present = net[l]["gateUp"].present
            /\ net[l]["gateUp"].disabled => net'[l]["gateUp"].disabled
            /\ split[l] => split'[l]

(* A connection that does not move keeps what it assumes.                  *)
LEMMA Others ==
  ASSUME NEW u \in Threads, ThreadInv(u), thread \in [Threads -> ThreadState],
         thread'[u] = thread[u], WearsOnly(u)
  PROVE  ThreadInv(u)'
<1>1. thread[u] \in ThreadState
  OBVIOUS
<1>2. OwnResult(u)'
  BY <1>1 DEF ThreadInv, OwnResult, WearsOnly, ThreadState
<1>3. CASE thread[u].pc = "idle"
  <2>1. Wrong(thread[u].layer, thread[u].used)' = Wrong(thread[u].layer, thread[u].used)
    BY DEF Wrong, WearsOnly
  <2> QED
    BY <1>2, <1>3, <2>1 DEF ThreadInv, BeforeMlp, BeforeGateUp, Checked, WearsOnly
<1>4. CASE thread[u].pc # "idle"
  <2> DEFINE l == thread[u].layer
  <2>1. l \in Layers /\ (setup.master => prompt.state = "ready")
    BY <1>4 DEF ThreadInv
  <2>2. /\ net'[l]["gateUp"].present = net[l]["gateUp"].present
        /\ Gone(l) => Gone(l)'
        /\ split[l] => split'[l]
        /\ setup' = setup /\ prompt'.state = prompt.state
    BY <1>4, <2>1 DEF WearsOnly, Gone
  <2>3. Wrong(thread[u].layer, thread[u].used)' = Wrong(thread[u].layer, thread[u].used)
    BY DEF Wrong, WearsOnly
  <2>4. BeforeMlp(u)'
    BY <2>2 DEF ThreadInv, BeforeMlp
  <2>5. BeforeGateUp(u)'
    <3>1. thread'[u].pc = "gateUp" /\ ~thread'[u].check => split[l] \/ Gone(l)
      BY DEF ThreadInv, BeforeGateUp
    <3>2. thread'[u].pc = "gateUp" /\ ~thread'[u].check => split'[l] \/ Gone(l)'
      BY <3>1, <2>2
    <3> QED
      BY <3>2 DEF ThreadInv, BeforeGateUp
  <2>6. Checked(u)'
    <3>1. /\ thread[u].check => net'[l]["gateUp"].present
          /\ thread[u].check /\ thread[u].pc \in {"down", "final"} =>
               "gateUp" \in thread[u].used \/ Gone(l)'
      BY <1>4, <2>2 DEF ThreadInv, Checked
    <3> QED
      BY <3>1, <1>4, <2>3 DEF ThreadInv, Checked
  <2> QED
    BY <1>2, <1>4, <2>1, <2>2, <2>4, <2>5, <2>6 DEF ThreadInv
<1> QED
  BY <1>3, <1>4

-----------------------------------------------------------------------------
(* Trying a network in a decode step.                                      *)

Tries(l, p, o) ==
  /\ Take(l, p, o)
  /\ UNCHANGED <<setup, index, split, loadVars, visionVars>>

(* The facts about a network that hold before it is tried.                 *)
LEMMA AttemptIn ==
  ASSUME IInv, NEW l \in Layers, NEW p \in Parts, NEW o \in Attempt(l, p)
  PROVE  /\ o.state \in Network
         /\ o.state.present = net[l][p].present
         /\ net[l][p].disabled => o.state = net[l][p] /\ o.how = "fallback"
         /\ o.how = "npu" => /\ net[l][p].present /\ ~net[l][p].disabled
                             /\ ~o.state.disabled
                             /\ index[l][p] \notin {"off", "long"}
         /\ o.how # "npu" => ~net[l][p].present \/ o.state.disabled
         /\ o.state.validated => index[l][p] \notin {"off", "long"}
         /\ o.state.disabled => net[l][p].disabled \/ index[l][p] # "good" \/ o.fault
<1>1. net[l][p] \in Network /\ (net[l][p].validated => index[l][p] \notin {"off", "long"})
  BY DEF IInv, Types, TypeOK, NetInv
<1> QED
  BY <1>1, AttemptFacts

(* One network changes, and only by wearing out.                           *)
LEMMA TriedNet ==
  ASSUME IInv, NEW l \in Layers, NEW p \in Parts, NEW o \in Attempt(l, p), Tries(l, p, o)
  PROVE  /\ net' \in [Layers -> [Parts -> Network]]
         /\ net'[l][p] = o.state
         /\ \A k \in Layers, q \in Parts : <<k, q>> # <<l, p>> => net'[k][q] = net[k][q]
         /\ \A k \in Layers, q \in Parts :
              /\ net'[k][q].present = net[k][q].present
              /\ net[k][q].disabled => net'[k][q].disabled
<1>1. net \in [Layers -> [Parts -> Network]] /\ o.state \in Network
  BY AttemptIn DEF IInv, Types, TypeOK
<1>2. net' = [net EXCEPT ![l][p] = o.state]
  BY DEF Tries, Take
<1>3. /\ net' \in [Layers -> [Parts -> Network]]
      /\ net'[l][p] = o.state
      /\ \A k \in Layers, q \in Parts : <<k, q>> # <<l, p>> => net'[k][q] = net[k][q]
  BY <1>1, <1>2
<1>4. o.state.present = net[l][p].present /\ (net[l][p].disabled => o.state.disabled)
  BY AttemptIn
<1> QED
  BY <1>3, <1>4

(* An attempt keeps everything but the connection's own place in the step. *)
LEMMA Tried ==
  ASSUME IInv, NEW l \in Layers, NEW p \in Parts, NEW o \in Attempt(l, p), Tries(l, p, o),
         thread' \in [Threads -> ThreadState], Serving, ~(vision /\ ~setup.keep)
  PROVE  /\ Types' /\ LoadInv' /\ NetInv' /\ SplitInv' /\ VisionInv'
         /\ \A u \in Threads : WearsOnly(u)
<1>1. /\ net' \in [Layers -> [Parts -> Network]]
      /\ net'[l][p] = o.state
      /\ \A k \in Layers, q \in Parts : <<k, q>> # <<l, p>> => net'[k][q] = net[k][q]
      /\ \A k \in Layers, q \in Parts :
           /\ net'[k][q].present = net[k][q].present
           /\ net[k][q].disabled => net'[k][q].disabled
  BY TriedNet
<1>2. /\ setup' = setup /\ index' = index /\ split' = split /\ todo' = todo /\ q8' = q8
      /\ reserved' = reserved /\ holding' = holding
      /\ vision' = vision /\ cache' = cache /\ prompt' = prompt
  BY DEF Tries, loadVars, visionVars
<1>3. given_up \subseteq given_up' /\ faulted \subseteq faulted'
  BY DEF Tries, Take
<1>4. "gateUp" \in Parts
  BY DEF Parts, MlpParts
<1>5. Types'
  <2>1. \A t \in Threads : thread'[t].pc \in PCs
    BY DEF ThreadState
  <2> QED
    BY <1>1, <1>2, <2>1 DEF IInv, Types, TypeOK, PCs
<1>6. Serving'
  BY <1>2 DEF Serving
<1>7. LoadInv'
  <2>1. ~(holding > 0)
    BY LoadingIsNotServing DEF IInv, LoadInv
  <2> QED
    BY <1>1, <1>2, <1>4, <1>6, <2>1 DEF IInv, LoadInv
<1>8. NetInv'
  <2>1. ASSUME NEW k \in Layers, NEW q \in Parts
        PROVE  /\ index'[k][q] = "loose" => q = "gateUp"
               /\ net'[k][q].validated => index'[k][q] \notin {"off", "long"}
               /\ <<k, q>> \in given_up' => net'[k][q].disabled
    <3>1. CASE <<k, q>> = <<l, p>>
      <4>1. k = l /\ q = p
        BY <3>1
      <4>2. <<l, p>> \in given_up' => o.state.disabled
        <5>1. <<l, p>> \in given_up => o.state.disabled
          BY <1>1 DEF IInv, NetInv
        <5> QED
          BY <5>1 DEF Tries, Take
      <4> QED
        BY <4>1, <4>2, <1>1, <1>2, AttemptIn DEF IInv, NetInv
    <3>2. CASE <<k, q>> # <<l, p>>
      <4>1. <<k, q>> \in given_up' => <<k, q>> \in given_up
        BY <3>2 DEF Tries, Take
      <4> QED
        BY <3>2, <4>1, <1>1, <1>2 DEF IInv, NetInv
    <3> QED
      BY <3>1, <3>2
  <2>2. GivenUpForCause'
    <3> SUFFICES ASSUME NEW k \in Layers, NEW q \in Parts, net'[k][q].disabled
                 PROVE  \/ index'[k][q] # "good" \/ <<k, q>> \in faulted'
                        \/ q = "gateUp" /\ "down" \in q8'[k]
      BY DEF GivenUpForCause
    <3>1. CASE net[k][q].disabled
      BY <3>1, <1>2, <1>3 DEF IInv, NetInv, GivenUpForCause
    <3>2. CASE ~net[k][q].disabled
      <4>1. k = l /\ q = p
        BY <3>2, <1>1
      <4>2. index[l][p] # "good" \/ o.fault
        BY <3>2, <4>1, <1>1, AttemptIn
      <4>3. o.fault => <<l, p>> \in faulted'
        BY DEF Tries, Take
      <4> QED
        BY <4>1, <4>2, <4>3, <1>2
    <3> QED
      BY <3>1, <3>2
  <2> QED
    BY <2>1, <2>2 DEF NetInv
<1>9. SplitInv'
  BY <1>1, <1>2, <1>4 DEF IInv, SplitInv, Gone
<1>10. VisionInv'
  BY <1>2 DEF IInv, VisionInv
<1>11. \A u \in Threads : WearsOnly(u)
  BY <1>1, <1>2, <1>3, <1>4 DEF WearsOnly
<1> QED
  BY <1>5, <1>7, <1>8, <1>9, <1>10, <1>11

-----------------------------------------------------------------------------
(* The decode step, one lemma per action.                                  *)

(* A connection in a step has the process to itself but for its like.      *)
LEMMA Busy ==
  ASSUME IInv, NEW t \in Threads, thread[t].pc # "idle"
  PROVE  /\ Serving /\ ~(vision /\ ~setup.keep) /\ thread[t].layer \in Layers
         /\ ThreadInv(t) /\ thread[t] \in ThreadState
  BY DEF IInv, Types, LoadInv, VisionInv, ThreadInv

(* Goto moves one connection.                                              *)
LEMMA Moved ==
  ASSUME thread \in [Threads -> ThreadState], NEW t \in Threads, NEW pc \in PCs,
         NEW used \in SUBSET Uses, Goto(t, pc, used)
  PROVE  /\ thread' \in [Threads -> ThreadState]
         /\ thread'[t].pc = pc /\ thread'[t].used = used
         /\ thread'[t].layer = thread[t].layer /\ thread'[t].check = thread[t].check
         /\ thread'[t].barred = thread[t].barred
         /\ \A u \in Threads : u # t => thread'[u] = thread[u]
<1>1. thread[t] \in ThreadState
  OBVIOUS
<1>2. [thread[t] EXCEPT !.pc = pc, !.used = used] \in ThreadState
  BY <1>1 DEF ThreadState
<1>3. thread' = [thread EXCEPT ![t] = [thread[t] EXCEPT !.pc = pc, !.used = used]]
  BY DEF Goto
<1>4. /\ thread' \in [Threads -> ThreadState]
      /\ thread'[t] = [thread[t] EXCEPT !.pc = pc, !.used = used]
      /\ \A u \in Threads : u # t => thread'[u] = thread[u]
  BY <1>2, <1>3
<1> QED
  BY <1>1, <1>4 DEF ThreadState

(* The other connections keep their assumptions.                           *)
LEMMA OthersKeep ==
  ASSUME IInv, NEW t \in Threads, \A u \in Threads : WearsOnly(u),
         \A u \in Threads : u # t => thread'[u] = thread[u], ThreadInv(t)'
  PROVE  \A u \in Threads : ThreadInv(u)'
<1>1. ASSUME NEW u \in Threads, u # t
      PROVE  ThreadInv(u)'
  BY <1>1, Others DEF IInv, Types
<1> QED
  BY <1>1

UsedWith(t, p, o) == thread[t].used \cup Made(thread[t].layer, p, o)

(* What the attempt adds to the result is the connection's to use.         *)
LEMMA MadeOwn ==
  ASSUME IInv, NEW t \in Threads, thread[t].pc # "idle", NEW p \in Parts,
         NEW o \in Attempt(thread[t].layer, p), Tries(thread[t].layer, p, o)
  PROVE  /\ UsedWith(t, p, o) \in SUBSET Uses
         /\ \A q \in UsedWith(t, p, o) \cap Parts :
              index[thread[t].layer][q] \notin {"off", "long"}
         /\ "downQ8" \in UsedWith(t, p, o) => "down" \in q8[thread[t].layer]
         /\ \A q \in thread[t].barred : <<thread[t].layer, q>> \in given_up'
         /\ UsedWith(t, p, o) \cap thread[t].barred = {}
<1> DEFINE l == thread[t].layer
           used == UsedWith(t, p, o)
<1>1. l \in Layers /\ OwnResult(t) /\ thread[t] \in ThreadState
  BY Busy DEF ThreadInv
<1>2. thread[t].used \in SUBSET Uses /\ thread[t].barred \in SUBSET Parts
  BY <1>1 DEF ThreadState
<1>3. q8[l] \in SUBSET Projections
  BY <1>1 DEF IInv, Types, TypeOK
<1>4. /\ Made(l, p, o) \in SUBSET Uses
      /\ \A x \in Made(l, p, o) \cap Parts : x = p /\ o.how = "npu"
      /\ "downQ8" \in Made(l, p, o) => "down" \in q8[l]
  BY <1>1, <1>3, MadeFacts
<1>5. o.how = "npu" => ~net[l][p].disabled /\ index[l][p] \notin {"off", "long"}
  BY <1>1, AttemptIn
<1>6. given_up \subseteq given_up'
  BY DEF Tries, Take
<1>7. ASSUME NEW x \in used \cap thread[t].barred
      PROVE  FALSE
  <2>1. x \in Parts /\ <<l, x>> \in given_up
    BY <1>1, <1>2 DEF OwnResult
  <2>2. net[l][x].disabled
    BY <1>1, <2>1 DEF IInv, NetInv
  <2>3. x \notin Made(l, p, o)
    BY <2>1, <2>2, <1>4, <1>5
  <2> QED
    BY <1>1, <2>3 DEF OwnResult, UsedWith
<1>8. ASSUME NEW q \in used \cap Parts
      PROVE  index[l][q] \notin {"off", "long"}
  BY <1>1, <1>4, <1>5 DEF OwnResult, UsedWith
<1> QED
  BY <1>1, <1>2, <1>4, <1>6, <1>7, <1>8 DEF OwnResult, UsedWith

(* Attend: a connection begins a step.                                     *)
LEMMA AttendStep ==
  ASSUME IInv, NEW t \in Threads, NEW l \in Layers, Attend(t, l)
  PROVE  IInv'
<1>1. PICK o \in Attempt(l, "qkv") :
        /\ Take(l, "qkv", o)
        /\ thread' = [thread EXCEPT ![t] =
             [pc |-> "full", layer |-> l, check |-> FALSE,
              used |-> Made(l, "qkv", o) \cup (IF "o" \in q8[l] THEN {"oQ8"} ELSE {}),
              barred |-> {p \in Parts : <<l, p>> \in given_up}]]
  BY DEF Attend
<1> DEFINE used == Made(l, "qkv", o) \cup (IF "o" \in q8[l] THEN {"oQ8"} ELSE {})
           barred == {p \in Parts : <<l, p>> \in given_up}
<1>2. Tries(l, "qkv", o)
  BY <1>1 DEF Attend, Tries
<1>3. "qkv" \in Parts /\ "oQ8" \in Uses /\ "oQ8" \notin Parts
  BY DEF Parts, MlpParts, Uses
<1>4. Serving /\ (setup.master => prompt.state = "ready") /\ ~(vision /\ ~setup.keep)
  BY DEF Attend, Runs, IInv, VisionInv
<1>5. q8[l] \in SUBSET Projections
  BY DEF IInv, Types, TypeOK
<1>6. /\ Made(l, "qkv", o) \in SUBSET Uses
      /\ \A x \in Made(l, "qkv", o) \cap Parts : x = "qkv" /\ o.how = "npu"
      /\ "gateUpQ8" \notin Made(l, "qkv", o) /\ "downQ8" \notin Made(l, "qkv", o)
  BY <1>3, <1>5, MadeFacts
<1>7. /\ used \in SUBSET Uses
      /\ \A x \in used \cap Parts : x = "qkv" /\ o.how = "npu"
      /\ {"gateUp", "gateUpQ8", "downQ8"} \cap used = {}
  BY <1>3, <1>6 DEF Parts, MlpParts
<1>8. thread' \in [Threads -> ThreadState]
  <2>1. [pc |-> "full", layer |-> l, check |-> FALSE, used |-> used, barred |-> barred] \in ThreadState
    BY <1>7 DEF ThreadState, PCs
  <2> QED
    BY <1>1, <2>1 DEF IInv, Types
<1>9. /\ thread'[t].pc = "full" /\ thread'[t].layer = l /\ ~thread'[t].check
      /\ thread'[t].used = used /\ thread'[t].barred = barred
      /\ \A u \in Threads : u # t => thread'[u] = thread[u]
  BY <1>1 DEF IInv, Types
<1>10. /\ Types' /\ LoadInv' /\ NetInv' /\ SplitInv' /\ VisionInv'
       /\ \A u \in Threads : WearsOnly(u)
  BY <1>2, <1>3, <1>4, <1>8, Tried
<1>11. OwnResult(t)'
  <2>1. o.how = "npu" => ~net[l]["qkv"].disabled /\ index[l]["qkv"] \notin {"off", "long"}
    BY <1>3, AttemptIn
  <2>2. ASSUME NEW x \in used \cap barred
        PROVE  FALSE
    BY <1>7, <2>1 DEF IInv, NetInv
  <2>3. index' = index /\ given_up \subseteq given_up'
    BY <1>2 DEF Tries, Take
  <2> QED
    BY <1>7, <1>9, <2>1, <2>2, <2>3 DEF OwnResult
<1>12. setup' = setup /\ prompt' = prompt
  BY <1>2 DEF Tries, visionVars
<1>13. ThreadInv(t)'
  <2> HIDE DEF used, barred
  <2> QED
    BY <1>4, <1>7, <1>9, <1>11, <1>12 DEF ThreadInv, BeforeMlp, BeforeGateUp, Checked
<1> QED
  BY <1>9, <1>10, <1>13, OthersKeep DEF IInv

(* Full: the whole-MLP network, which is never a loose one.                *)
LEMMA FullStep ==
  ASSUME IInv, NEW t \in Threads, Full(t)
  PROVE  IInv'
<1> DEFINE l == thread[t].layer
<1>1. PICK o \in Attempt(l, "full") :
        /\ Take(l, "full", o)
        /\ IF o.how = "fallback" THEN Goto(t, "active", thread[t].used)
           ELSE Goto(t, "idle", thread[t].used \cup Made(l, "full", o))
  BY DEF Full
<1>2. Tries(l, "full", o) /\ thread[t].pc = "full" /\ "full" \in Parts
  BY <1>1 DEF Full, Tries, Parts, MlpParts
<1>3. /\ Serving /\ ~(vision /\ ~setup.keep) /\ l \in Layers
      /\ ThreadInv(t) /\ thread[t] \in ThreadState /\ thread \in [Threads -> ThreadState]
  BY <1>2, Busy DEF IInv, Types
<1> DEFINE used == UsedWith(t, "full", o)
<1>4. /\ used \in SUBSET Uses
      /\ \A q \in used \cap Parts : index[l][q] \notin {"off", "long"}
      /\ "downQ8" \in used => "down" \in q8[l]
      /\ \A q \in thread[t].barred : <<l, q>> \in given_up'
      /\ used \cap thread[t].barred = {}
  BY <1>2, <1>3, MadeOwn
<1>5. /\ index' = index /\ q8' = q8 /\ setup' = setup /\ prompt' = prompt
  BY <1>2 DEF Tries, loadVars, visionVars
<1>6. Made(l, "full", o) \cap Parts \subseteq {"full"}
  BY <1>2, <1>3, MadeFacts, ZenonT(60) DEF IInv, Types, TypeOK
<1>7. Wrong(l, used) = {}
  <2>1. ASSUME NEW q \in used \cap Parts
        PROVE  index[l][q] \notin {"loose", "off", "long"}
    <3>1. q # "gateUp"
      BY <1>2, <1>3, <1>6 DEF ThreadInv, BeforeGateUp, UsedWith
    <3>2. index[l][q] # "loose"
      BY <1>3, <3>1 DEF IInv, NetInv
    <3> QED
      BY <1>4, <3>2
  <2> QED
    BY <2>1 DEF Wrong
<1> HIDE DEF used
<1>8. CASE Goto(t, "idle", used)
  <2>1. /\ thread' \in [Threads -> ThreadState]
        /\ thread'[t].pc = "idle" /\ thread'[t].used = used
        /\ thread'[t].layer = l /\ thread'[t].barred = thread[t].barred
        /\ \A u \in Threads : u # t => thread'[u] = thread[u]
    BY <1>3, <1>4, <1>8, Moved DEF PCs
  <2>2. /\ Types' /\ LoadInv' /\ NetInv' /\ SplitInv' /\ VisionInv'
        /\ \A u \in Threads : WearsOnly(u)
    BY <1>2, <1>3, <2>1, Tried
  <2>3. OwnResult(t)'
    BY <1>4, <1>5, <2>1 DEF OwnResult
  <2>4. Wrong(thread[t].layer, thread[t].used)' = {}
    BY <1>5, <1>7, <2>1 DEF Wrong
  <2>5. ThreadInv(t)'
    BY <1>3, <2>1, <2>3, <2>4 DEF ThreadInv, BeforeMlp, BeforeGateUp, Checked
  <2> QED
    BY <2>1, <2>2, <2>5, OthersKeep DEF IInv
<1>9. CASE Goto(t, "active", thread[t].used)
  <2>1. /\ thread' \in [Threads -> ThreadState]
        /\ thread'[t].pc = "active" /\ thread'[t].used = thread[t].used
        /\ thread'[t].layer = l /\ thread'[t].check = thread[t].check
        /\ thread'[t].barred = thread[t].barred
        /\ \A u \in Threads : u # t => thread'[u] = thread[u]
    BY <1>3, <1>9, Moved DEF PCs, ThreadState
  <2>2. /\ Types' /\ LoadInv' /\ NetInv' /\ SplitInv' /\ VisionInv'
        /\ \A u \in Threads : WearsOnly(u)
    BY <1>2, <1>3, <2>1, Tried
  <2>3. OwnResult(t)'
    BY <1>3, <1>4, <1>5, <2>1 DEF OwnResult, ThreadInv
  <2>4. ThreadInv(t)'
    BY <1>2, <1>3, <1>5, <2>1, <2>3 DEF ThreadInv, BeforeMlp, BeforeGateUp, Checked
  <2> QED
    BY <2>1, <2>2, <2>4, OthersKeep DEF IInv
<1> QED
  BY <1>1, <1>8, <1>9 DEF used, UsedWith

(* A step that changes no network keeps everything but the connection's    *)
(* own place; a flag may go up.                                            *)
LEMMA Quiet ==
  ASSUME IInv, UNCHANGED <<setup, index, net, loadVars, visionVars, history>>,
         thread' \in [Threads -> ThreadState], Serving, ~(vision /\ ~setup.keep),
         split' \in [Layers -> BOOLEAN], \A l \in Layers : split[l] => split'[l]
  PROVE  /\ Types' /\ LoadInv' /\ NetInv' /\ VisionInv'
         /\ \A u \in Threads : WearsOnly(u)
<1>1. /\ setup' = setup /\ index' = index /\ net' = net /\ todo' = todo /\ q8' = q8
      /\ reserved' = reserved /\ holding' = holding /\ vision' = vision /\ cache' = cache
      /\ prompt' = prompt /\ faulted' = faulted /\ given_up' = given_up
  BY DEF loadVars, visionVars, history
<1>2. Serving'
  BY <1>1 DEF Serving
<1>3. Types'
  <2>1. \A t \in Threads : thread'[t].pc \in PCs
    BY DEF ThreadState
  <2> QED
    BY <1>1, <2>1 DEF IInv, Types, TypeOK, PCs
<1>4. LoadInv'
  <2>1. ~(holding > 0)
    BY LoadingIsNotServing DEF IInv, LoadInv
  <2> QED
    BY <1>1, <1>2, <2>1 DEF IInv, LoadInv
<1>5. NetInv'
  BY <1>1 DEF IInv, NetInv, GivenUpForCause
<1>6. VisionInv'
  BY <1>1 DEF IInv, VisionInv
<1> QED
  BY <1>1, <1>3, <1>4, <1>5, <1>6 DEF WearsOnly

(* Active: the first of the two locks of split_rknn_validation_needed.     *)
LEMMA ActiveStep ==
  ASSUME IInv, NEW t \in Threads, Active(t)
  PROVE  IInv'
<1> DEFINE l == thread[t].layer
           pc == IF net[l]["gateUp"].present /\ ~net[l]["gateUp"].disabled THEN "flag" ELSE "gateUp"
<1>1. thread[t].pc = "active" /\ Goto(t, pc, thread[t].used)
  BY DEF Active
<1>2. /\ Serving /\ ~(vision /\ ~setup.keep) /\ l \in Layers
      /\ ThreadInv(t) /\ thread[t] \in ThreadState /\ thread \in [Threads -> ThreadState]
  BY <1>1, Busy DEF IInv, Types
<1>3. /\ thread' \in [Threads -> ThreadState]
      /\ thread'[t].pc = pc /\ thread'[t].used = thread[t].used
      /\ thread'[t].layer = l /\ thread'[t].check = thread[t].check
      /\ thread'[t].barred = thread[t].barred
      /\ \A u \in Threads : u # t => thread'[u] = thread[u]
  <2>1. pc \in PCs /\ thread[t].used \in SUBSET Uses
    BY <1>2 DEF PCs, ThreadState, pc
  <2> HIDE DEF pc
  <2> QED BY <1>1, <1>2, <2>1, Moved
<1>4. UNCHANGED <<setup, index, net, split, loadVars, visionVars, history>>
  BY DEF Active
<1>5. /\ Types' /\ LoadInv' /\ NetInv' /\ VisionInv'
      /\ \A u \in Threads : WearsOnly(u)
  BY <1>2, <1>3, <1>4, Quiet DEF IInv, Types, TypeOK
<1>6. SplitInv'
  BY <1>4 DEF IInv, SplitInv, Gone
<1>7. OwnResult(t)'
  BY <1>2, <1>3, <1>4 DEF OwnResult, ThreadInv, history, loadVars
<1>8. /\ setup' = setup /\ prompt' = prompt /\ net' = net /\ split' = split
  BY <1>4 DEF visionVars
<1>9. BeforeMlp(t)' /\ BeforeGateUp(t)' /\ Checked(t)'
  BY <1>1, <1>2, <1>3, <1>8 DEF ThreadInv, BeforeMlp, BeforeGateUp, Checked, Gone
<1>10. ThreadInv(t)'
  BY <1>1, <1>2, <1>3, <1>7, <1>8, <1>9 DEF ThreadInv
<1> QED
  BY <1>3, <1>5, <1>6, <1>10, OthersKeep DEF IInv

(* Flag: the second lock, taken after the first was let go.                *)
LEMMA FlagStep ==
  ASSUME IInv, NEW t \in Threads, Flag(t)
  PROVE  IInv'
<1> DEFINE l == thread[t].layer
<1>1. /\ thread[t].pc = "flag"
      /\ thread' = [thread EXCEPT ![t].pc = "gateUp", ![t].check = ~split[l]]
      /\ UNCHANGED <<setup, index, net, split, loadVars, visionVars, history>>
  BY DEF Flag
<1>2. /\ Serving /\ ~(vision /\ ~setup.keep) /\ l \in Layers
      /\ ThreadInv(t) /\ thread[t] \in ThreadState /\ thread \in [Threads -> ThreadState]
  BY <1>1, Busy DEF IInv, Types
<1>3. [thread[t] EXCEPT !.pc = "gateUp", !.check = ~split[l]] \in ThreadState
  BY <1>2 DEF ThreadState, PCs
<1>4. /\ thread' \in [Threads -> ThreadState]
      /\ thread'[t] = [thread[t] EXCEPT !.pc = "gateUp", !.check = ~split[l]]
      /\ \A u \in Threads : u # t => thread'[u] = thread[u]
  BY <1>1, <1>2, <1>3
<1>5. /\ thread'[t].pc = "gateUp" /\ thread'[t].used = thread[t].used
      /\ thread'[t].layer = l /\ thread'[t].check = ~split[l]
      /\ thread'[t].barred = thread[t].barred
  BY <1>2, <1>4 DEF ThreadState
<1>6. /\ Types' /\ LoadInv' /\ NetInv' /\ VisionInv'
      /\ \A u \in Threads : WearsOnly(u)
  BY <1>1, <1>2, <1>4, Quiet DEF IInv, Types, TypeOK
<1>7. SplitInv'
  BY <1>1 DEF IInv, SplitInv, Gone
<1>8. OwnResult(t)'
  BY <1>1, <1>2, <1>5 DEF OwnResult, ThreadInv, history, loadVars
<1>9. /\ setup' = setup /\ prompt' = prompt /\ net' = net /\ split' = split
  BY <1>1 DEF visionVars
<1>10. BeforeMlp(t)' /\ BeforeGateUp(t)' /\ Checked(t)'
  BY <1>1, <1>2, <1>5, <1>9 DEF ThreadInv, BeforeMlp, BeforeGateUp, Checked, Gone
<1>11. ThreadInv(t)'
  BY <1>1, <1>2, <1>5, <1>8, <1>9, <1>10 DEF ThreadInv
<1> QED
  BY <1>4, <1>6, <1>7, <1>11, OthersKeep DEF IInv

(* GateUp: what the check was decided on is still true, or the network is  *)
(* out of use by now.                                                      *)
LEMMA GateUpStep ==
  ASSUME IInv, NEW t \in Threads, GateUp(t)
  PROVE  IInv'
<1> DEFINE l == thread[t].layer
<1>1. PICK o \in Attempt(l, "gateUp") :
        Take(l, "gateUp", o) /\ Goto(t, "down", thread[t].used \cup Made(l, "gateUp", o))
  BY DEF GateUp
<1>2. Tries(l, "gateUp", o) /\ thread[t].pc = "gateUp" /\ "gateUp" \in Parts
  BY <1>1 DEF GateUp, Tries, Parts, MlpParts
<1>3. /\ Serving /\ ~(vision /\ ~setup.keep) /\ l \in Layers
      /\ ThreadInv(t) /\ thread[t] \in ThreadState /\ thread \in [Threads -> ThreadState]
  BY <1>2, Busy DEF IInv, Types
<1> DEFINE used == UsedWith(t, "gateUp", o)
<1>4. /\ used \in SUBSET Uses
      /\ \A q \in used \cap Parts : index[l][q] \notin {"off", "long"}
      /\ "downQ8" \in used => "down" \in q8[l]
      /\ \A q \in thread[t].barred : <<l, q>> \in given_up'
      /\ used \cap thread[t].barred = {}
  BY <1>2, <1>3, MadeOwn
<1>5. /\ thread' \in [Threads -> ThreadState]
      /\ thread'[t].pc = "down" /\ thread'[t].used = used
      /\ thread'[t].layer = l /\ thread'[t].check = thread[t].check
      /\ thread'[t].barred = thread[t].barred
      /\ \A u \in Threads : u # t => thread'[u] = thread[u]
  BY <1>1, <1>3, <1>4, Moved DEF PCs, UsedWith
<1>6. /\ Types' /\ LoadInv' /\ NetInv' /\ SplitInv' /\ VisionInv'
      /\ \A u \in Threads : WearsOnly(u)
  BY <1>2, <1>3, <1>5, Tried
<1>7. /\ index' = index /\ q8' = q8 /\ setup' = setup /\ prompt' = prompt
  BY <1>2 DEF Tries, loadVars, visionVars
<1>8. OwnResult(t)'
  BY <1>4, <1>5, <1>7 DEF OwnResult
<1>9. /\ net'[l]["gateUp"] = o.state
      /\ o.state.present = net[l]["gateUp"].present
      /\ net[l]["gateUp"].disabled => o.state.disabled
      /\ o.how = "npu" => ~Gone(l)
      /\ o.how # "npu" => ~net[l]["gateUp"].present \/ o.state.disabled
  BY <1>2, <1>3, AttemptIn, TriedNet DEF Gone
<1>10. /\ \A x \in Made(l, "gateUp", o) \cap Parts : x = "gateUp" /\ o.how = "npu"
       /\ "gateUpQ8" \in Made(l, "gateUp", o) => "gateUp" \in q8[l]
       /\ o.how = "npu" => "gateUp" \in Made(l, "gateUp", o)
  BY <1>2, <1>3, MadeFacts DEF IInv, Types, TypeOK
<1>11. {"gateUp", "gateUpQ8", "downQ8"} \cap thread[t].used = {}
  BY <1>2, <1>3 DEF ThreadInv, BeforeGateUp
<1>12. thread[t].check => /\ net'[l]["gateUp"].present
                          /\ "gateUpQ8" \notin used
                          /\ "gateUp" \in used \/ Gone(l)'
  <2>1. thread[t].check => net[l]["gateUp"].present
    BY <1>2, <1>3 DEF ThreadInv, Checked
  <2>2. "gateUp" \in q8[l] => ~net[l]["gateUp"].present
    BY <1>3 DEF IInv, LoadInv
  <2>3. o.how = "npu" \/ Gone(l)'
    BY <1>5, <1>9 DEF Gone
  <2> QED
    BY <1>9, <1>10, <1>11, <2>1, <2>2, <2>3 DEF UsedWith
<1>13. ~thread[t].check => Wrong(l, used) = {}
  <2> SUFFICES ASSUME ~thread[t].check, NEW q \in used \cap Parts
               PROVE  index[l][q] \notin {"loose", "off", "long"}
    BY DEF Wrong
  <2>1. CASE q = "gateUp"
    <3>1. o.how = "npu"
      BY <2>1, <1>10, <1>11 DEF UsedWith
    <3>2. ~Gone(l)
      BY <3>1, <1>9
    <3>3. split[l]
      BY <3>2, <1>2, <1>3 DEF ThreadInv, BeforeGateUp
    <3> QED
      BY <2>1, <3>2, <3>3, <1>3, <1>4 DEF IInv, SplitInv
  <2>2. CASE q # "gateUp"
    BY <2>2, <1>3, <1>4 DEF IInv, NetInv
  <2> QED
    BY <2>1, <2>2
<1> HIDE DEF used
<1>14. ~thread[t].check => Wrong(thread[t].layer, thread[t].used)' = {}
  BY <1>5, <1>7, <1>13 DEF Wrong
<1>15. BeforeMlp(t)' /\ BeforeGateUp(t)' /\ Checked(t)'
  BY <1>5, <1>12, <1>14 DEF BeforeMlp, BeforeGateUp, Checked
<1>16. ThreadInv(t)'
  BY <1>2, <1>3, <1>5, <1>7, <1>8, <1>15 DEF ThreadInv
<1> QED
  BY <1>5, <1>6, <1>16, OthersKeep DEF IInv

(* Down: the last half, before the comparison of the whole if there is one.*)
LEMMA DownStep ==
  ASSUME IInv, NEW t \in Threads, Down(t)
  PROVE  IInv'
<1> DEFINE l == thread[t].layer
           pc == IF thread[t].check THEN "final" ELSE "idle"
<1>1. PICK o \in Attempt(l, "down") :
        Take(l, "down", o) /\ Goto(t, pc, thread[t].used \cup Made(l, "down", o))
  BY DEF Down
<1>2. Tries(l, "down", o) /\ thread[t].pc = "down" /\ "down" \in Parts /\ "gateUp" \in Parts
  BY <1>1 DEF Down, Tries, Parts, MlpParts
<1>3. /\ Serving /\ ~(vision /\ ~setup.keep) /\ l \in Layers
      /\ ThreadInv(t) /\ thread[t] \in ThreadState /\ thread \in [Threads -> ThreadState]
  BY <1>2, Busy DEF IInv, Types
<1> DEFINE used == UsedWith(t, "down", o)
<1>4. /\ used \in SUBSET Uses
      /\ \A q \in used \cap Parts : index[l][q] \notin {"off", "long"}
      /\ "downQ8" \in used => "down" \in q8[l]
      /\ \A q \in thread[t].barred : <<l, q>> \in given_up'
      /\ used \cap thread[t].barred = {}
  BY <1>2, <1>3, MadeOwn
<1>5. /\ thread' \in [Threads -> ThreadState]
      /\ thread'[t].pc = pc /\ thread'[t].used = used
      /\ thread'[t].layer = l /\ thread'[t].check = thread[t].check
      /\ thread'[t].barred = thread[t].barred
      /\ \A u \in Threads : u # t => thread'[u] = thread[u]
  BY <1>1, <1>3, <1>4, Moved DEF PCs, UsedWith
<1>6. /\ Types' /\ LoadInv' /\ NetInv' /\ SplitInv' /\ VisionInv'
      /\ \A u \in Threads : WearsOnly(u)
  BY <1>2, <1>3, <1>5, Tried
<1>7. /\ index' = index /\ q8' = q8 /\ setup' = setup /\ prompt' = prompt
  BY <1>2 DEF Tries, loadVars, visionVars
<1>8. OwnResult(t)'
  BY <1>4, <1>5, <1>7 DEF OwnResult
<1>9. net'[l]["gateUp"] = net[l]["gateUp"]
  BY <1>2, <1>3, TriedNet
<1>10. /\ \A x \in Made(l, "down", o) \cap Parts : x = "down"
       /\ "gateUpQ8" \notin Made(l, "down", o)
  BY <1>2, <1>3, MadeFacts DEF IInv, Types, TypeOK
<1>11. thread[t].check => /\ net'[l]["gateUp"].present
                          /\ "gateUpQ8" \notin used
                          /\ "gateUp" \in used \/ Gone(l)'
  BY <1>2, <1>3, <1>5, <1>9, <1>10 DEF ThreadInv, Checked, UsedWith, Gone
<1>12. ~thread[t].check => Wrong(l, used) = {}
  <2> SUFFICES ASSUME ~thread[t].check, NEW q \in used \cap Parts
               PROVE  index[l][q] \notin {"loose", "off", "long"}
    BY DEF Wrong
  <2>1. CASE q \in thread[t].used
    BY <2>1, <1>2, <1>3 DEF ThreadInv, Checked, Wrong
  <2>2. CASE q \notin thread[t].used
    <3>1. q = "down"
      BY <2>2, <1>10 DEF UsedWith
    <3> QED
      BY <3>1, <1>3, <1>4 DEF IInv, NetInv
  <2> QED
    BY <2>1, <2>2
<1> HIDE DEF used
<1>13. ~thread[t].check => Wrong(thread[t].layer, thread[t].used)' = {}
  BY <1>5, <1>7, <1>12 DEF Wrong
<1>14. BeforeMlp(t)' /\ BeforeGateUp(t)' /\ Checked(t)'
  BY <1>5, <1>11, <1>13 DEF BeforeMlp, BeforeGateUp, Checked
<1>15. ThreadInv(t)'
  BY <1>2, <1>3, <1>5, <1>7, <1>8, <1>14 DEF ThreadInv
<1> QED
  BY <1>5, <1>6, <1>15, OthersKeep DEF IInv

(* Accept: the whole MLP's result is within the thresholds, so nothing in  *)
(* it is off, and the flag may go up.                                      *)
LEMMA AcceptStep ==
  ASSUME IInv, NEW t \in Threads, Accept(t)
  PROVE  IInv'
<1> DEFINE l == thread[t].layer
           used == thread[t].used
<1>1. /\ thread[t].pc = "final" /\ TRUE \in Within(l, used)
      /\ split' = [split EXCEPT ![l] = TRUE]
      /\ Goto(t, "idle", used)
      /\ UNCHANGED <<setup, index, net, loadVars, visionVars, history>>
  BY DEF Accept
<1>2. /\ Serving /\ ~(vision /\ ~setup.keep) /\ l \in Layers
      /\ ThreadInv(t) /\ thread[t] \in ThreadState /\ thread \in [Threads -> ThreadState]
  BY <1>1, Busy DEF IInv, Types
<1>3. /\ thread' \in [Threads -> ThreadState]
      /\ thread'[t].pc = "idle" /\ thread'[t].used = used
      /\ thread'[t].layer = l /\ thread'[t].check = thread[t].check
      /\ thread'[t].barred = thread[t].barred
      /\ \A u \in Threads : u # t => thread'[u] = thread[u]
  BY <1>1, <1>2, Moved DEF PCs, ThreadState
<1>4. /\ split' \in [Layers -> BOOLEAN]
      /\ \A k \in Layers : split'[k] = (split[k] \/ k = l)
  BY <1>1, <1>2 DEF IInv, Types, TypeOK
<1>5. /\ Types' /\ LoadInv' /\ NetInv' /\ VisionInv'
      /\ \A u \in Threads : WearsOnly(u)
  BY <1>1, <1>2, <1>3, <1>4, Quiet
<1>6. Wrong(l, used \ AttentionParts) = {}
  BY <1>1 DEF Within
<1>7. /\ setup' = setup /\ index' = index /\ net' = net /\ q8' = q8 /\ given_up' = given_up
      /\ prompt' = prompt
  BY <1>1 DEF loadVars, visionVars, history
<1>8. Gone(l) \/ index[l]["gateUp"] # "loose"
  <2>1. "gateUp" \in used \/ Gone(l)
    BY <1>1, <1>2 DEF ThreadInv, Checked
  <2>2. "gateUp" \in Parts /\ "gateUp" \notin AttentionParts
    BY DEF Parts, MlpParts, AttentionParts
  <2> QED
    BY <2>1, <2>2, <1>6 DEF Wrong
<1>9. SplitInv'
  <2> SUFFICES ASSUME NEW k \in Layers, split'[k]
               PROVE  Gone(k)' \/ index'[k]["gateUp"] # "loose"
    BY DEF SplitInv
  <2>1. Gone(k) \/ index[k]["gateUp"] # "loose"
    BY <1>4, <1>8 DEF IInv, SplitInv
  <2> QED
    BY <2>1, <1>7 DEF Gone
<1>10. Wrong(l, used) = {}
  <2> SUFFICES ASSUME NEW p \in used \cap Parts
               PROVE  index[l][p] \notin {"loose", "off", "long"}
    BY DEF Wrong
  <2>1. index[l][p] \notin {"off", "long"}
    BY <1>2 DEF ThreadInv, OwnResult
  <2>2. index[l][p] = "loose" => p = "gateUp"
    BY <1>2 DEF IInv, NetInv
  <2>3. "gateUp" \notin AttentionParts
    BY DEF AttentionParts
  <2> QED
    BY <2>1, <2>2, <2>3, <1>6 DEF Wrong
<1>11. OwnResult(t)'
  BY <1>2, <1>3, <1>7 DEF OwnResult, ThreadInv
<1> HIDE DEF used
<1>12. Wrong(thread[t].layer, thread[t].used)' = {}
  BY <1>3, <1>7, <1>10 DEF Wrong
<1>13. ThreadInv(t)'
  BY <1>2, <1>3, <1>11, <1>12 DEF ThreadInv, BeforeMlp, BeforeGateUp, Checked
<1> QED
  BY <1>3, <1>5, <1>9, <1>13, OthersKeep DEF IInv

(* Reject: the gate/up network goes, for its own error or beside a Q8 half.*)
LEMMA RejectStep ==
  ASSUME IInv, NEW t \in Threads, Reject(t)
  PROVE  IInv'
<1> DEFINE l == thread[t].layer
           used == thread[t].used
           stopped == [net[l]["gateUp"] EXCEPT !.disabled = TRUE, !.loaded = FALSE]
<1>1. /\ thread[t].pc = "final" /\ FALSE \in Within(l, used)
      /\ net' = [net EXCEPT ![l]["gateUp"].disabled = TRUE, ![l]["gateUp"].loaded = FALSE]
      /\ given_up' = given_up \cup {<<l, "gateUp">>}
      /\ Goto(t, "idle", used \cap AttentionParts)
      /\ UNCHANGED <<setup, index, split, loadVars, visionVars, faulted>>
  BY DEF Reject
<1>2. /\ Serving /\ ~(vision /\ ~setup.keep) /\ l \in Layers
      /\ ThreadInv(t) /\ thread[t] \in ThreadState /\ thread \in [Threads -> ThreadState]
  BY <1>1, Busy DEF IInv, Types
<1>3. "gateUp" \in Parts /\ net \in [Layers -> [Parts -> Network]]
  BY DEF IInv, Types, TypeOK, Parts, MlpParts
<1>4. /\ stopped \in Network /\ stopped.disabled
      /\ stopped.present = net[l]["gateUp"].present
      /\ stopped.validated = net[l]["gateUp"].validated
      /\ stopped.loaded = FALSE
  <2>1. net[l]["gateUp"] \in Network
    BY <1>2, <1>3
  <2> QED
    BY <2>1 DEF Network
<1>5. net' = [net EXCEPT ![l]["gateUp"] = stopped]
  BY <1>1, <1>2, <1>3
<1> HIDE DEF stopped
<1>6. /\ net' \in [Layers -> [Parts -> Network]]
      /\ net'[l]["gateUp"] = stopped
      /\ \A k \in Layers, q \in Parts : <<k, q>> # <<l, "gateUp">> => net'[k][q] = net[k][q]
  BY <1>2, <1>3, <1>4, <1>5
<1>7. \A k \in Layers, q \in Parts :
        /\ net'[k][q].present = net[k][q].present
        /\ net'[k][q].validated = net[k][q].validated
        /\ net[k][q].disabled => net'[k][q].disabled
        /\ net'[k][q].disabled => net[k][q].disabled \/ <<k, q>> = <<l, "gateUp">>
        /\ ~net[k][q].loaded => ~net'[k][q].loaded
  BY <1>4, <1>6
<1>8. /\ thread' \in [Threads -> ThreadState]
      /\ thread'[t].pc = "idle" /\ thread'[t].used = used \cap AttentionParts
      /\ thread'[t].layer = l /\ thread'[t].check = thread[t].check
      /\ thread'[t].barred = thread[t].barred
      /\ \A u \in Threads : u # t => thread'[u] = thread[u]
  <2>1. used \cap AttentionParts \in SUBSET Uses
    BY <1>2 DEF ThreadState
  <2> QED
    BY <1>1, <1>2, <2>1, Moved DEF PCs
<1>9. /\ setup' = setup /\ index' = index /\ split' = split /\ todo' = todo /\ q8' = q8
      /\ reserved' = reserved /\ holding' = holding /\ vision' = vision
      /\ prompt' = prompt /\ faulted' = faulted /\ given_up \subseteq given_up'
  BY <1>1 DEF loadVars, visionVars
<1>10. Types'
  <2>1. \A u \in Threads : thread'[u].pc \in PCs
    BY <1>8 DEF ThreadState
  <2> QED
    BY <1>6, <1>8, <1>9, <2>1 DEF IInv, Types, TypeOK, PCs
<1>11. LoadInv'
  <2>1. Serving' /\ ~(holding > 0)
    BY <1>2, <1>9, LoadingIsNotServing DEF IInv, LoadInv, Serving
  <2> QED
    BY <1>3, <1>7, <1>9, <2>1 DEF IInv, LoadInv
<1>12. index[l]["gateUp"] # "good" \/ "down" \in q8[l]
  <2>1. Wrong(l, used \ AttentionParts) # {} \/ {"gateUpQ8", "downQ8"} \cap used # {}
    BY <1>1 DEF Within
  <2>2. CASE Wrong(l, used \ AttentionParts) # {}
    <3>1. PICK p \in used \cap Parts : index[l][p] \in {"loose", "off", "long"}
      BY <2>2 DEF Wrong
    <3>2. p = "gateUp"
      BY <3>1, <1>2 DEF ThreadInv, OwnResult, IInv, NetInv
    <3> QED
      BY <3>1, <3>2
  <2>3. CASE {"gateUpQ8", "downQ8"} \cap used # {}
    <3>1. "gateUpQ8" \notin used
      BY <1>1, <1>2 DEF ThreadInv, Checked
    <3> QED
      BY <2>3, <3>1, <1>2 DEF ThreadInv, OwnResult
  <2> QED
    BY <2>1, <2>2, <2>3
<1>13. NetInv'
  <2>1. ASSUME NEW k \in Layers, NEW q \in Parts
        PROVE  /\ index'[k][q] = "loose" => q = "gateUp"
               /\ net'[k][q].validated => index'[k][q] \notin {"off", "long"}
               /\ <<k, q>> \in given_up' => net'[k][q].disabled
    <3>1. <<k, q>> \in given_up' => net'[k][q].disabled
      <4>1. CASE <<k, q>> = <<l, "gateUp">>
        <5>1. k = l /\ q = "gateUp"
          BY <4>1
        <5> QED
          BY <5>1, <1>4, <1>6
      <4>2. CASE <<k, q>> # <<l, "gateUp">>
        BY <4>2, <1>1, <1>7 DEF IInv, NetInv
      <4> QED
        BY <4>1, <4>2
    <3> QED
      BY <3>1, <1>7, <1>9 DEF IInv, NetInv
  <2>2. ASSUME NEW k \in Layers, NEW q \in Parts, net'[k][q].disabled
        PROVE  \/ index'[k][q] # "good" \/ <<k, q>> \in faulted'
               \/ q = "gateUp" /\ "down" \in q8'[k]
    <3>1. CASE net[k][q].disabled
      BY <3>1, <1>9 DEF IInv, NetInv, GivenUpForCause
    <3>2. CASE <<k, q>> = <<l, "gateUp">>
      BY <3>2, <1>9, <1>12
    <3> QED
      BY <2>2, <3>1, <3>2, <1>7
  <2> QED
    BY <2>1, <2>2 DEF NetInv, GivenUpForCause
<1>14. SplitInv'
  BY <1>3, <1>7, <1>9 DEF IInv, SplitInv, Gone
<1>15. VisionInv'
  BY <1>2, <1>9 DEF IInv, VisionInv
<1>16. \A u \in Threads : WearsOnly(u)
  BY <1>3, <1>7, <1>9 DEF WearsOnly
<1>17. \A p \in used \cap AttentionParts \cap Parts : p = "qkv" /\ index[l][p] \notin {"loose", "off", "long"}
  BY <1>2 DEF ThreadInv, OwnResult, IInv, NetInv, AttentionParts, Parts, MlpParts
<1>18. OwnResult(t)'
  BY <1>2, <1>8, <1>9 DEF OwnResult, ThreadInv
<1> HIDE DEF used
<1>19. Wrong(thread[t].layer, thread[t].used)' = {}
  BY <1>8, <1>9, <1>17 DEF Wrong
<1>20. ThreadInv(t)'
  BY <1>2, <1>8, <1>18, <1>19 DEF ThreadInv, BeforeMlp, BeforeGateUp, Checked
<1> QED
  BY <1>8, <1>10, <1>11, <1>13, <1>14, <1>15, <1>16, <1>20, OthersKeep DEF IInv

-----------------------------------------------------------------------------
(* Loading.                                                                *)

(* A loading step moves no connection, and none is in a step.              *)
LEMMA LoadingQuiet ==
  ASSUME IInv, NEW l \in Layers, NEW stage, Loading(l, stage)
  PROVE  /\ ~Serving /\ given_up = {} /\ ~(vision /\ ~setup.keep)
         /\ \A k \in Layers : ~split[k]
         /\ \A t \in Threads : thread[t].pc = "idle"
  BY LoadingIsNotServing DEF IInv, LoadInv, VisionInv

(* The layer's list moves on, and the stages that are past stay past.      *)
LEMMA LoadedTodo ==
  ASSUME IInv, NEW l \in Layers, NEW stage, Loading(l, stage), Loaded(l)
  PROVE  /\ todo' \in [Layers -> Rests]
         /\ todo'[l] = Tail(todo[l]) /\ \A k \in Layers : k # l => todo'[k] = todo[k]
         /\ \A k \in Layers : todo[k] \in Late => todo'[k] \in Late
         /\ stage = "gateUpQ8" => todo'[l] \in Late
         /\ stage = "gateUp" => todo[l] \notin Late
         /\ holding = 0 \/ stage \in {"qkvQ8", "oQ8", "gateUpQ8", "downQ8"}
<1>1. todo \in [Layers -> Rests] /\ todo[l] # <<>> /\ Head(todo[l]) = stage
  BY DEF IInv, Types, Loading
<1>2. /\ Tail(todo[l]) \in Rests
      /\ todo[l] \in Late => Tail(todo[l]) \in Late /\ Head(todo[l]) # "gateUp"
      /\ Head(todo[l]) = "gateUpQ8" => Tail(todo[l]) \in Late
  BY <1>1, RestTail
<1>3. todo' = [todo EXCEPT ![l] = Tail(todo[l])]
  BY DEF Loaded
<1>4. holding > 0 => stage \in {"qkvQ8", "oQ8", "gateUpQ8", "downQ8"}
  <2> SUFFICES ASSUME holding > 0
               PROVE  stage \in {"qkvQ8", "oQ8", "gateUpQ8", "downQ8"}
    OBVIOUS
  <2>1. PICK k \in Layers, j \in Projections : Loading(k, Q8Stage[j])
    BY DEF IInv, LoadInv
  <2>2. stage = Q8Stage[j]
    BY <2>1, OneLoading
  <2> QED
    BY <2>2 DEF Q8Stage, Projections
<1>5. holding \in Nat
  BY DEF IInv, Types, TypeOK
<1> QED
  BY <1>1, <1>2, <1>3, <1>4, <1>5

(* What every loading step leaves true of the connections and the flags.   *)
LEMMA LoadingOthers ==
  ASSUME IInv, NEW l \in Layers, NEW stage, Loading(l, stage),
         UNCHANGED <<setup, index, split, visionVars, thread, given_up>>,
         \A k \in Layers : q8[k] \subseteq q8'[k]
  PROVE  \A t \in Threads : ThreadInv(t)'
<1> SUFFICES ASSUME NEW t \in Threads
             PROVE  ThreadInv(t)'
  OBVIOUS
<1>1. thread[t].pc = "idle" /\ ThreadInv(t) /\ thread \in [Threads -> ThreadState]
  BY LoadingQuiet DEF IInv, Types
<1>2. WearsOnly(t)
  BY <1>1 DEF WearsOnly
<1> QED
  BY <1>1, <1>2, Others

(* LoadNet: a network is present before any copy of a half is made.        *)
LEMMA LoadNetStep ==
  ASSUME IInv, NEW l \in Layers, NEW p \in Parts, LoadNet(l, p)
  PROVE  IInv'
<1>1. /\ Loading(l, p) /\ Loaded(l)
      /\ UNCHANGED <<setup, index, split, q8, reserved, holding, visionVars, thread, given_up>>
      /\ net' = net \/ net' = [net EXCEPT ![l][p] = Fresh(~setup.lazy \/ p = "qkv")]
      /\ faulted \subseteq faulted'
  BY DEF LoadNet
<1>2. /\ setup' = setup /\ index' = index /\ split' = split /\ q8' = q8 /\ reserved' = reserved
      /\ holding' = holding /\ vision' = vision /\ prompt' = prompt /\ thread' = thread
      /\ given_up' = given_up
  BY <1>1 DEF visionVars
<1>3. /\ todo' \in [Layers -> Rests]
      /\ \A k \in Layers : todo[k] \in Late => todo'[k] \in Late
      /\ p = "gateUp" => todo[l] \notin Late
      /\ holding = 0
  <2>1. p \notin {"qkvQ8", "oQ8", "gateUpQ8", "downQ8"}
    BY DEF Parts, MlpParts
  <2> QED
    BY <1>1, <2>1, LoadedTodo
<1>4. /\ ~Serving /\ given_up = {} /\ ~(vision /\ ~setup.keep)
      /\ \A k \in Layers : ~split[k]
      /\ \A t \in Threads : thread[t].pc = "idle"
  BY <1>1, LoadingQuiet
<1>5. net \in [Layers -> [Parts -> Network]] /\ split \in [Layers -> BOOLEAN]
  BY DEF IInv, Types, TypeOK
<1>6. PICK n \in Network :
        /\ n = net[l][p] \/ (~n.disabled /\ ~n.validated)
        /\ net' = [net EXCEPT ![l][p] = n]
  <2>1. CASE net' = net
    <3>1. net[l][p] \in Network /\ net' = [net EXCEPT ![l][p] = net[l][p]]
      BY <2>1, <1>5
    <3> QED
      BY <3>1
  <2>2. CASE net' = [net EXCEPT ![l][p] = Fresh(~setup.lazy \/ p = "qkv")]
    <3>1. ASSUME NEW b \in BOOLEAN
          PROVE  Fresh(b) \in Network /\ ~Fresh(b).disabled /\ ~Fresh(b).validated
      BY DEF Fresh, Network
    <3>2. (~setup.lazy \/ p = "qkv") \in BOOLEAN
      OBVIOUS
    <3> QED
      BY <2>2, <3>1, <3>2
  <2> QED
    BY <1>1, <2>1, <2>2
<1>7. /\ net' \in [Layers -> [Parts -> Network]]
      /\ net'[l][p] = n
      /\ \A k \in Layers, q \in Parts : <<k, q>> # <<l, p>> => net'[k][q] = net[k][q]
  BY <1>5, <1>6
<1>8. \A k \in Layers, q \in Parts :
        \/ net'[k][q] = net[k][q]
        \/ <<k, q>> = <<l, p>> /\ ~net'[k][q].disabled /\ ~net'[k][q].validated
  BY <1>6, <1>7
<1>9. Types'
  BY <1>2, <1>3, <1>7 DEF IInv, Types, TypeOK
<1>10. LoadInv'
  <2>1. ASSUME NEW k \in Layers, "gateUp" \in q8'[k]
        PROVE  todo'[k] \in Late /\ ~net'[k]["gateUp"].present
    <3>1. todo[k] \in Late /\ ~net[k]["gateUp"].present
      BY <1>2, <2>1 DEF IInv, LoadInv
    <3>2. <<k, "gateUp">> # <<l, p>> /\ "gateUp" \in Parts
      BY <3>1, <1>3 DEF Parts, MlpParts
    <3> QED
      BY <1>3, <1>7, <3>1, <3>2
  <2>2. given_up' = {} /\ (\A k \in Layers : ~split'[k]) /\ \A t \in Threads : thread'[t].pc = "idle"
    BY <1>2, <1>4
  <2> QED
    BY <1>2, <1>3, <2>1, <2>2 DEF IInv, LoadInv
<1>11. NetInv'
  BY <1>1, <1>2, <1>4, <1>8 DEF IInv, NetInv, GivenUpForCause
<1>12. SplitInv'
  BY <1>2, <1>4 DEF SplitInv
<1>13. VisionInv'
  BY <1>2, <1>4 DEF IInv, VisionInv
<1>14. \A t \in Threads : ThreadInv(t)'
  BY <1>1, LoadingOthers
<1> QED
  BY <1>9, <1>10, <1>11, <1>12, <1>13, <1>14 DEF IInv

(* What the four steps of a Q8 copy share: nothing but the copies, the     *)
(* bytes and the list of stages changes.                                   *)
LEMMA Q8Step ==
  ASSUME IInv, NEW l \in Layers, NEW j \in Projections, Loading(l, Q8Stage[j]),
         UNCHANGED <<setup, index, net, split, visionVars, thread, history>>,
         todo' \in [Layers -> Rests],
         \A k \in Layers : todo[k] \in Late => todo'[k] \in Late,
         \A k \in Layers : q8[k] \subseteq q8'[k],
         q8' \in [Layers -> SUBSET Projections],
         \A k \in Layers : "gateUp" \in q8'[k] /\ "gateUp" \notin q8[k] =>
                             todo'[k] \in Late /\ ~net[k]["gateUp"].present,
         reserved' \in Nat, holding' \in Nat, holding' <= reserved',
         holding' > 0 => /\ Loading(l, Q8Stage[j])'
                         /\ j = "gateUp" => ~net[l]["gateUp"].present
  PROVE  IInv'
<1>1. /\ setup' = setup /\ index' = index /\ net' = net /\ split' = split /\ vision' = vision
      /\ prompt' = prompt /\ thread' = thread /\ faulted' = faulted /\ given_up' = given_up
  BY DEF visionVars, history
<1>2. /\ ~Serving /\ given_up = {} /\ ~(vision /\ ~setup.keep)
      /\ \A k \in Layers : ~split[k]
      /\ \A t \in Threads : thread[t].pc = "idle"
  BY LoadingQuiet
<1>3. Types'
  BY <1>1 DEF IInv, Types, TypeOK
<1>4. LoadInv'
  <2>1. ASSUME NEW k \in Layers, "gateUp" \in q8'[k]
        PROVE  todo'[k] \in Late /\ ~net'[k]["gateUp"].present
    BY <1>1, <2>1 DEF IInv, LoadInv
  <2>2. given_up' = {} /\ (\A k \in Layers : ~split'[k]) /\ \A t \in Threads : thread'[t].pc = "idle"
    BY <1>1, <1>2
  <2>3. holding' > 0 => \E k \in Layers, i \in Projections :
                          Loading(k, Q8Stage[i])' /\ (i = "gateUp" => ~net'[k]["gateUp"].present)
    <3> SUFFICES ASSUME holding' > 0
                 PROVE  Loading(l, Q8Stage[j])' /\ (j = "gateUp" => ~net'[l]["gateUp"].present)
      OBVIOUS
    <3> QED
      BY <1>1
  <2> QED
    BY <2>1, <2>2, <2>3 DEF LoadInv
<1>5. NetInv'
  BY <1>1 DEF IInv, NetInv, GivenUpForCause
<1>6. SplitInv' /\ VisionInv'
  BY <1>1, <1>2 DEF SplitInv, VisionInv, IInv
<1>7. \A t \in Threads : ThreadInv(t)'
  BY LoadingOthers DEF history
<1> QED
  BY <1>3, <1>4, <1>5, <1>6, <1>7 DEF IInv

(* Reserve: the bytes are held for the stage that is under way.            *)
LEMMA ReserveStep ==
  ASSUME IInv, NEW l \in Layers, NEW j \in Projections, Reserve(l, j)
  PROVE  IInv'
<1>1. /\ Loading(l, Q8Stage[j]) /\ Q8Wanted(l, j)
      /\ reserved' = reserved + Bytes[j] /\ holding' = Bytes[j]
      /\ UNCHANGED <<setup, index, todo, net, split, q8, visionVars, thread, history>>
  BY DEF Reserve
<1>2. /\ reserved \in Nat /\ todo \in [Layers -> Rests] /\ q8 \in [Layers -> SUBSET Projections]
      /\ Bytes[j] \in Nat
  BY SubgraphsAssumption DEF IInv, Types, TypeOK
<1>3. Loading(l, Q8Stage[j])' /\ (j = "gateUp" => ~net[l]["gateUp"].present)
  BY <1>1 DEF Loading, Q8Wanted
<1>4. todo' = todo /\ q8' = q8
  BY <1>1
<1>5. reserved' \in Nat /\ holding' \in Nat /\ holding' <= reserved'
  BY <1>1, <1>2
<1> QED
  BY <1>1, <1>2, <1>3, <1>4, <1>5, Q8Step

(* The stage of a reservation is the one the bytes are held for.           *)
LEMMA Held ==
  ASSUME IInv, NEW l \in Layers, NEW j \in Projections, Loading(l, Q8Stage[j]), holding > 0
  PROVE  j = "gateUp" => ~net[l]["gateUp"].present
<1>1. PICK k \in Layers, i \in Projections :
        Loading(k, Q8Stage[i]) /\ (i = "gateUp" => ~net[k]["gateUp"].present)
  BY DEF IInv, LoadInv
<1>2. k = l /\ Q8Stage[i] = Q8Stage[j]
  BY <1>1, OneLoading
<1>3. i = j
  BY <1>2 DEF Q8Stage, Projections
<1> QED
  BY <1>1, <1>2, <1>3

(* Commit: the copy exists, and the network of its place does not.         *)
LEMMA CommitStep ==
  ASSUME IInv, NEW l \in Layers, NEW j \in Projections, Commit(l, j)
  PROVE  IInv'
<1>1. /\ Loading(l, Q8Stage[j]) /\ holding > 0 /\ Loaded(l)
      /\ q8' = [q8 EXCEPT ![l] = @ \cup {j}] /\ holding' = 0 /\ reserved' = reserved
      /\ UNCHANGED <<setup, index, net, split, visionVars, thread, history>>
  BY DEF Commit
<1>2. reserved \in Nat /\ q8 \in [Layers -> SUBSET Projections]
  BY DEF IInv, Types, TypeOK
<1>3. /\ q8' \in [Layers -> SUBSET Projections]
      /\ \A k \in Layers : q8'[k] = IF k = l THEN q8[k] \cup {j} ELSE q8[k]
  BY <1>1, <1>2
<1>4. /\ todo' \in [Layers -> Rests]
      /\ \A k \in Layers : todo[k] \in Late => todo'[k] \in Late
      /\ j = "gateUp" => todo'[l] \in Late
  BY <1>1, LoadedTodo DEF Q8Stage
<1>5. \A k \in Layers : "gateUp" \in q8'[k] /\ "gateUp" \notin q8[k] =>
                          todo'[k] \in Late /\ ~net[k]["gateUp"].present
  <2> SUFFICES ASSUME NEW k \in Layers, "gateUp" \in q8'[k], "gateUp" \notin q8[k]
               PROVE  todo'[k] \in Late /\ ~net[k]["gateUp"].present
    OBVIOUS
  <2>1. k = l /\ j = "gateUp"
    BY <1>3
  <2> QED
    BY <2>1, <1>1, <1>4, Held
<1>6. \A k \in Layers : q8[k] \subseteq q8'[k]
  BY <1>3
<1>7. reserved' \in Nat /\ holding' \in Nat /\ holding' <= reserved' /\ ~(holding' > 0)
  BY <1>1, <1>2
<1> QED
  BY <1>1, <1>3, <1>4, <1>5, <1>6, <1>7, Q8Step

(* GiveBack: a copy that failed gives its bytes back, once.                *)
LEMMA GiveBackStep ==
  ASSUME IInv, NEW l \in Layers, NEW j \in Projections, GiveBack(l, j)
  PROVE  IInv'
<1>1. /\ Loading(l, Q8Stage[j]) /\ Loaded(l)
      /\ reserved' = reserved - holding /\ holding' = 0 /\ q8' = q8
      /\ UNCHANGED <<setup, index, net, split, visionVars, thread, history>>
  BY DEF GiveBack
<1>2. /\ reserved \in Nat /\ holding \in Nat /\ holding <= reserved
      /\ q8 \in [Layers -> SUBSET Projections]
  BY DEF IInv, Types, TypeOK, LoadInv
<1>3. /\ todo' \in [Layers -> Rests]
      /\ \A k \in Layers : todo[k] \in Late => todo'[k] \in Late
  BY <1>1, LoadedTodo
<1>4. reserved' \in Nat /\ holding' \in Nat /\ holding' <= reserved' /\ ~(holding' > 0)
  BY <1>1, <1>2
<1> QED
  BY <1>1, <1>2, <1>3, <1>4, Q8Step

(* SkipQ8: no copy is wanted, or none fits.                                *)
LEMMA SkipQ8Step ==
  ASSUME IInv, NEW l \in Layers, NEW j \in Projections, SkipQ8(l, j)
  PROVE  IInv'
<1>1. /\ Loading(l, Q8Stage[j]) /\ Loaded(l) /\ holding = 0
      /\ reserved' = reserved /\ holding' = holding /\ q8' = q8
      /\ UNCHANGED <<setup, index, net, split, visionVars, thread, history>>
  BY DEF SkipQ8
<1>2. /\ reserved \in Nat /\ holding \in Nat /\ holding <= reserved
      /\ q8 \in [Layers -> SUBSET Projections]
  BY DEF IInv, Types, TypeOK, LoadInv
<1>3. /\ todo' \in [Layers -> Rests]
      /\ \A k \in Layers : todo[k] \in Late => todo'[k] \in Late
  BY <1>1, LoadedTodo
<1>4. reserved' \in Nat /\ holding' \in Nat /\ holding' <= reserved' /\ ~(holding' > 0)
  BY <1>1, <1>2
<1> QED
  BY <1>1, <1>2, <1>3, <1>4, Q8Step

-----------------------------------------------------------------------------
(* The prompt, between decode steps.                                       *)

(* Nothing a prompt does gives a network back its use: contexts are        *)
(* released, the verdicts stay.                                            *)
LEMMA PromptStep ==
  ASSUME IInv, Between,
         UNCHANGED <<setup, index, split, loadVars, thread, history>>,
         net' \in [Layers -> [Parts -> Network]],
         \A l \in Layers, p \in Parts : /\ net'[l][p].present = net[l][p].present
                                        /\ net'[l][p].validated = net[l][p].validated
                                        /\ net'[l][p].disabled = net[l][p].disabled,
         prompt' = [images |-> prompt'.images, state |-> prompt'.state],
         prompt'.state \in {"none", "encoding", "ready"},
         prompt'.images # <<>> => prompt'.state = "encoding",
         vision' \in BOOLEAN,
         vision' /\ ~setup.keep => /\ prompt'.state # "ready"
                                   /\ \A l \in Layers, p \in MlpParts : ~net'[l][p].loaded
  PROVE  IInv'
<1>1. /\ setup' = setup /\ index' = index /\ split' = split /\ thread' = thread /\ todo' = todo
      /\ q8' = q8 /\ reserved' = reserved /\ holding' = holding
      /\ faulted' = faulted /\ given_up' = given_up
  BY DEF loadVars, history
<1>2. Serving /\ setup.master /\ \A t \in Threads : thread[t].pc = "idle"
  BY DEF Between
<1>3. Serving'
  BY <1>1, <1>2 DEF Serving
<1>4. "gateUp" \in Parts
  BY DEF Parts, MlpParts
<1>5. Types'
  BY <1>1 DEF IInv, Types, TypeOK
<1>6. LoadInv'
  <2>1. ~(holding > 0)
    BY <1>2, LoadingIsNotServing DEF IInv, LoadInv
  <2> QED
    BY <1>1, <1>3, <1>4, <2>1 DEF IInv, LoadInv
<1>7. NetInv'
  BY <1>1 DEF IInv, NetInv, GivenUpForCause
<1>8. SplitInv'
  BY <1>1, <1>4 DEF IInv, SplitInv, Gone
<1>9. VisionInv'
  BY <1>1, <1>2, <1>3 DEF VisionInv
<1>10. ASSUME NEW t \in Threads
       PROVE  ThreadInv(t)'
  <2>1. thread[t].pc = "idle" /\ ThreadInv(t) /\ thread \in [Threads -> ThreadState]
    BY <1>2 DEF IInv, Types
  <2>2. WearsOnly(t)
    BY <1>1, <2>1 DEF WearsOnly
  <2> QED
    BY <1>1, <2>1, <2>2, Others
<1> QED
  BY <1>5, <1>6, <1>7, <1>8, <1>9, <1>10 DEF IInv

(* StartPrompt.                                                            *)
LEMMA StartPromptStep ==
  ASSUME IInv, NEW images, StartPrompt(images)
  PROVE  IInv'
<1>1. /\ Between /\ prompt' = [images |-> images, state |-> "encoding"]
      /\ net' = net /\ vision' = vision
      /\ UNCHANGED <<setup, index, split, loadVars, thread, history>>
  BY DEF StartPrompt
<1>2. prompt'.images = images /\ prompt'.state = "encoding"
  BY <1>1
<1> QED
  BY <1>1, <1>2, PromptStep DEF IInv, Types, TypeOK, VisionInv

(* Encoded and Refused keep the prompt's shape.                            *)
LEMMA PromptShape ==
  ASSUME IInv, prompt.images # <<>>, Encoded \/ Refused
  PROVE  /\ prompt' = [images |-> prompt'.images, state |-> prompt'.state]
         /\ prompt'.state \in {"none", "encoding"}
         /\ prompt'.images # <<>> => prompt'.state = "encoding"
<1>1. prompt = [images |-> prompt.images, state |-> prompt.state] /\ prompt.state = "encoding"
  BY DEF IInv, Types, VisionInv
<1>2. CASE Encoded
  <2> DEFINE rest == Tail(prompt.images)
             state == prompt.state
  <2>1. prompt' = [[images |-> prompt.images, state |-> state] EXCEPT !.images = rest]
    BY <1>1, <1>2 DEF Encoded
  <2> HIDE DEF rest
  <2>2. prompt' = [images |-> rest, state |-> state]
    BY <2>1
  <2> QED
    BY <1>1, <2>2
<1>3. CASE Refused
  <2>1. prompt' = [images |-> <<>>, state |-> "none"]
    BY <1>3 DEF Refused
  <2> QED
    BY <2>1
<1> QED
  BY <1>2, <1>3

(* CachedImage.                                                            *)
LEMMA CachedImageStep ==
  ASSUME IInv, CachedImage
  PROVE  IInv'
<1>1. /\ Between /\ prompt.images # <<>> /\ Encoded
      /\ net' = net /\ vision' = vision
      /\ UNCHANGED <<setup, index, split, loadVars, thread, history>>
  BY DEF CachedImage
<1> QED
  BY <1>1, PromptShape, PromptStep DEF IInv, Types, TypeOK, VisionInv

(* UnreadableImage.                                                        *)
LEMMA UnreadableImageStep ==
  ASSUME IInv, UnreadableImage
  PROVE  IInv'
<1>1. /\ Between /\ prompt.images # <<>> /\ Refused
      /\ net' = net /\ vision' = vision
      /\ UNCHANGED <<setup, index, split, loadVars, thread, history>>
  BY DEF UnreadableImage
<1> QED
  BY <1>1, PromptShape, PromptStep DEF IInv, Types, TypeOK, VisionInv

(* Releasing the MLP networks takes their contexts and nothing else.       *)
LEMMA WithoutMlpFacts ==
  ASSUME net \in [Layers -> [Parts -> Network]]
  PROVE  /\ WithoutMlp \in [Layers -> [Parts -> Network]]
         /\ \A l \in Layers, p \in Parts : /\ WithoutMlp[l][p].present = net[l][p].present
                                           /\ WithoutMlp[l][p].validated = net[l][p].validated
                                           /\ WithoutMlp[l][p].disabled = net[l][p].disabled
         /\ \A l \in Layers, p \in MlpParts : ~WithoutMlp[l][p].loaded
<1>1. ASSUME NEW n \in Network
      PROVE  /\ Released(n) \in Network /\ Released(n).present = n.present
             /\ Released(n).validated = n.validated /\ Released(n).disabled = n.disabled
             /\ ~Released(n).loaded
  BY DEF Released, Network
<1>2. \A l \in Layers, p \in Parts :
        WithoutMlp[l][p] = IF p \in MlpParts THEN Released(net[l][p]) ELSE net[l][p]
  BY DEF WithoutMlp
<1>3. \A l \in Layers, p \in Parts : net[l][p] \in Network
  OBVIOUS
<1>4. \A l \in Layers, p \in Parts : WithoutMlp[l][p] \in Network
  BY <1>1, <1>2, <1>3
<1>5. WithoutMlp \in [Layers -> [Parts -> Network]]
  <2>1. WithoutMlp = [l \in Layers |-> [p \in Parts |-> WithoutMlp[l][p]]]
    BY DEF WithoutMlp
  <2> QED
    BY <1>4, <2>1
<1>6. MlpParts \subseteq Parts
  BY DEF Parts
<1> QED
  BY <1>1, <1>2, <1>3, <1>5, <1>6

(* EncodeImage: the vision network is loaded only after the MLP networks   *)
(* made room for it.                                                       *)
LEMMA EncodeImageStep ==
  ASSUME IInv, EncodeImage
  PROVE  IInv'
<1>1. /\ Between /\ prompt.images # <<>>
      /\ net' = IF setup.vision /\ ~vision THEN WithoutMlp ELSE net
      /\ Encoded \/ Refused
      /\ vision' = vision \/ vision' = setup.vision
      /\ UNCHANGED <<setup, index, split, loadVars, thread, history>>
  BY DEF EncodeImage
<1>2. /\ net \in [Layers -> [Parts -> Network]] /\ vision \in BOOLEAN
      /\ setup.vision \in BOOLEAN /\ VisionInv
  BY SetupsAssumption DEF IInv, Types, TypeOK
<1>3. /\ prompt' = [images |-> prompt'.images, state |-> prompt'.state]
      /\ prompt'.state \in {"none", "encoding"}
      /\ prompt'.images # <<>> => prompt'.state = "encoding"
  BY <1>1, PromptShape
<1>4. /\ net' \in [Layers -> [Parts -> Network]]
      /\ \A l \in Layers, p \in Parts : /\ net'[l][p].present = net[l][p].present
                                        /\ net'[l][p].validated = net[l][p].validated
                                        /\ net'[l][p].disabled = net[l][p].disabled
  <2>1. CASE net' = WithoutMlp
    BY <1>2, <2>1, WithoutMlpFacts
  <2>2. CASE net' = net
    BY <1>2, <2>2
  <2> QED
    BY <1>1, <2>1, <2>2
<1>5. vision' /\ ~setup.keep => \A l \in Layers, p \in MlpParts : ~net'[l][p].loaded
  <2>1. CASE setup.vision /\ ~vision
    BY <1>1, <1>2, <2>1, WithoutMlpFacts
  <2>2. CASE ~(setup.vision /\ ~vision)
    <3>1. net' = net /\ (vision' => vision)
      BY <1>1, <1>2, <2>2
    <3> QED
      BY <1>2, <3>1 DEF VisionInv
  <2> QED
    BY <2>1, <2>2
<1>6. vision' \in BOOLEAN
  BY <1>1, <1>2
<1> QED
  BY <1>1, <1>3, <1>4, <1>5, <1>6, PromptStep

(* CompletePrompt: the vision network leaves before a token is decoded.    *)
LEMMA CompletePromptStep ==
  ASSUME IInv, CompletePrompt
  PROVE  IInv'
<1>1. PICK state \in {"ready", "none"} : prompt' = [prompt EXCEPT !.state = state]
  BY DEF CompletePrompt
<1>2. /\ Between /\ prompt.images = <<>> /\ vision' = (vision /\ setup.keep) /\ net' = net
      /\ UNCHANGED <<setup, index, split, loadVars, thread, history>>
  BY DEF CompletePrompt
<1>3. prompt = [images |-> prompt.images, state |-> prompt.state]
  BY DEF IInv, Types
<1>4. prompt' = [images |-> prompt.images, state |-> state]
  <2> DEFINE images == prompt.images
             s == prompt.state
  <2>1. prompt' = [[images |-> images, state |-> s] EXCEPT !.state = state]
    BY <1>1, <1>3
  <2> HIDE DEF images, s
  <2>2. prompt' = [images |-> images, state |-> state]
    BY <2>1
  <2> QED
    BY <2>2 DEF images
<1>5. prompt'.images = <<>> /\ prompt'.state = state
  BY <1>2, <1>4
<1>6. vision' \in BOOLEAN /\ ~(vision' /\ ~setup.keep)
  BY <1>2 DEF IInv, Types, TypeOK
<1> QED
  BY <1>2, <1>4, <1>5, <1>6, PromptStep DEF IInv, Types, TypeOK

-----------------------------------------------------------------------------
(* The invariant and what follows from it.                                 *)

(* A directory's listing files only gate/up networks as loose.             *)
LEMMA LooseIsGateUp ==
  ASSUME NEW s \in Setups, NEW kept \in Listings(s.dir), NEW l \in Layers, NEW p \in Parts,
         Index(kept)[l][p] = "loose"
  PROVE  p = "gateUp"
<1> DEFINE found == {f \in kept : f.part = p /\ f.first = l}
           file == CHOOSE f \in found : TRUE
<1>1. Index(kept)[l][p] = IF found = {} THEN "none" ELSE Quality(file)
  BY DEF Index
<1>2. found # {} /\ Quality(file) = "loose"
  BY <1>1
<1>3. file \in kept /\ file.part = p
  BY <1>2
<1>4. file.quality = "loose"
  BY <1>2 DEF Quality
<1>5. file \in s.dir
  BY <1>3 DEF Listings
<1> QED
  BY <1>3, <1>4, <1>5, SetupsAssumption

(* The initial states.                                                     *)
LEMMA InitIInv == Init => IInv
<1> SUFFICES ASSUME Init
             PROVE  IInv
  OBVIOUS
<1>1. /\ setup \in Setups
      /\ todo = [l \in Layers |-> Stages]
      /\ net = [l \in Layers |-> [p \in Parts |-> Absent]]
      /\ split = [l \in Layers |-> FALSE]
      /\ q8 = [l \in Layers |-> {}]
      /\ reserved = 0 /\ holding = 0
      /\ vision = (setup.vision /\ setup.keep)
      /\ prompt = [images |-> <<>>, state |-> "none"]
      /\ thread = [t \in Threads |-> Idle]
      /\ faulted = {} /\ given_up = {}
  BY DEF Init
<1>2. setup.keep \in BOOLEAN
  BY <1>1, SetupsAssumption
<1>3. Absent \in Network /\ ~Absent.validated /\ ~Absent.disabled
  BY DEF Absent, Network
<1>4. Idle \in ThreadState
  BY DEF Idle, ThreadState, PCs
<1>5. \A t \in Threads : thread[t] = Idle
  BY <1>1
<1>6. \A l \in Layers, p \in Parts : net[l][p] = Absent
  BY <1>1
<1>7. Types
  <2>1. TypeOK
    BY <1>1, <1>2, <1>3, <1>5 DEF TypeOK, Idle
  <2>2. todo \in [Layers -> Rests]
    BY <1>1 DEF Rests
  <2> QED
    BY <1>1, <1>4, <2>1, <2>2 DEF Types
<1>8. LoadInv
  BY <1>1, <1>5 DEF LoadInv, Idle
<1>9. NetInv
  <2>1. ASSUME NEW l \in Layers, NEW p \in Parts
        PROVE  index[l][p] = "loose" => p = "gateUp"
    BY <1>1, LooseIsGateUp DEF Init
  <2> QED
    BY <1>1, <1>3, <1>6, <2>1 DEF NetInv, GivenUpForCause
<1>10. SplitInv /\ VisionInv
  BY <1>1, <1>2 DEF SplitInv, VisionInv
<1>11. \A t \in Threads : ThreadInv(t)
  BY <1>5 DEF ThreadInv, OwnResult, BeforeMlp, BeforeGateUp, Checked, Wrong, Idle
<1> QED
  BY <1>7, <1>8, <1>9, <1>10, <1>11 DEF IInv

(* The invariant is inductive.                                             *)
LEMMA NextIInv == IInv /\ [Next]_vars => IInv'
<1> SUFFICES ASSUME IInv, [Next]_vars
             PROVE  IInv'
  OBVIOUS
<1>1. ASSUME NEW l \in Layers, NEW p \in Parts, LoadNet(l, p)
      PROVE  IInv'
  BY <1>1, LoadNetStep
<1>2. ASSUME NEW l \in Layers, NEW j \in Projections,
             Reserve(l, j) \/ Commit(l, j) \/ GiveBack(l, j) \/ SkipQ8(l, j)
      PROVE  IInv'
  BY <1>2, ReserveStep, CommitStep, GiveBackStep, SkipQ8Step
<1>3. ASSUME NEW t \in Threads, NEW l \in Layers, Attend(t, l)
      PROVE  IInv'
  BY <1>3, AttendStep
<1>4. ASSUME NEW t \in Threads,
             \/ Full(t) \/ Active(t) \/ Flag(t) \/ GateUp(t) \/ Down(t) \/ Accept(t) \/ Reject(t)
      PROVE  IInv'
  BY <1>4, FullStep, ActiveStep, FlagStep, GateUpStep, DownStep, AcceptStep, RejectStep
<1>5. ASSUME NEW images \in Prompts, StartPrompt(images)
      PROVE  IInv'
  BY <1>5, StartPromptStep
<1>6. CASE CachedImage \/ EncodeImage \/ UnreadableImage \/ CompletePrompt
  BY <1>6, CachedImageStep, EncodeImageStep, UnreadableImageStep, CompletePromptStep
<1>7. CASE UNCHANGED vars
  <2>1. /\ setup' = setup /\ index' = index /\ todo' = todo /\ net' = net /\ split' = split
        /\ q8' = q8 /\ reserved' = reserved /\ holding' = holding /\ vision' = vision
        /\ prompt' = prompt /\ thread' = thread /\ faulted' = faulted /\ given_up' = given_up
    BY <1>7 DEF vars
  <2>2. Types' /\ NetInv' /\ SplitInv' /\ Serving' = Serving
    BY <2>1 DEF IInv, Types, TypeOK, NetInv, GivenUpForCause, SplitInv, Gone, Serving
  <2>3. LoadInv' /\ VisionInv'
    BY <2>1, <2>2 DEF IInv, LoadInv, Loading, VisionInv
  <2>4. ASSUME NEW t \in Threads
        PROVE  ThreadInv(t)'
    BY <2>1, Others DEF WearsOnly, IInv, Types
  <2> QED
    BY <2>2, <2>3, <2>4 DEF IInv
<1> QED
  BY <1>1, <1>2, <1>3, <1>4, <1>5, <1>6, <1>7 DEF Next

(* The invariant holds of every behaviour.                                 *)
THEOREM Invariance == Spec => []IInv
<1> QED
  BY InitIInv, NextIInv, PTL DEF Spec

(* TypeOK, for any process: the state stays what the types say.            *)
THEOREM TypeCorrect == Spec => []TypeOK
<1>1. IInv => TypeOK
  BY DEF IInv, Types
<1> QED
  BY <1>1, Invariance, PTL

(* HandedOnExact, for any number of layers and connections: no network     *)
(* that departs from the CPU's result has its output in what a layer hands *)
(* on.                                                                     *)
THEOREM ExactHandedOn == Spec => []HandedOnExact
<1>1. IInv => HandedOnExact
  BY DEF IInv, ThreadInv, Checked, HandedOnExact
<1> QED
  BY <1>1, Invariance, PTL

(* StaysGivenUp: a network given up is in no result of a step begun later. *)
THEOREM GivenUpStays == Spec => []StaysGivenUp
<1>1. IInv => StaysGivenUp
  BY DEF IInv, ThreadInv, OwnResult, StaysGivenUp
<1> QED
  BY <1>1, Invariance, PTL

(* GivenUpForCause: no network is given up for what another part did, but  *)
(* a gate/up network beside a Q8 half.                                     *)
THEOREM CauseToGiveUp == Spec => []GivenUpForCause
<1>1. IInv => GivenUpForCause
  BY DEF IInv, NetInv
<1> QED
  BY <1>1, Invariance, PTL

(* NpuRoom: without QWEN3VL_KEEP_VISION_RKNN the vision network never      *)
(* shares the NPU with an MLP network.                                     *)
THEOREM RoomForVision == Spec => []NpuRoom
<1>1. IInv => NpuRoom
  BY DEF IInv, VisionInv, NpuRoom
<1> QED
  BY <1>1, Invariance, PTL

-----------------------------------------------------------------------------
(* The bytes of the Q8 copies.                                             *)

(* How many stages of a layer are left once a copy's own is past.          *)
Left == [qkv |-> 6, o |-> 5, gateUp |-> 1, down |-> 0]

(* A copy is made in its stage, and what is held is the size of the copy   *)
(* that is being made.                                                     *)
Q8Inv ==
  /\ Q8Accounted
  /\ \A l \in Layers, j \in Projections :
       /\ j \in q8[l] => Len(todo[l]) <= Left[j]
       /\ holding > 0 /\ Loading(l, Q8Stage[j]) => holding = Bytes[j]

(* The stages of the copies, by the number of stages left.                 *)
LEMMA RestLength ==
  ASSUME NEW r \in Rests, r # <<>>
  PROVE  /\ Len(r) \in Nat /\ Len(Tail(r)) = Len(r) - 1
         /\ \A j \in Projections : Head(r) = Q8Stage[j] => Len(r) = Left[j] + 1
<1>1. CASE r = <<"qkv", "qkvQ8", "oQ8", "full", "gateUp", "down", "gateUpQ8", "downQ8">>
  BY <1>1 DEF Projections, Q8Stage, Left
<1>2. CASE r = <<"qkvQ8", "oQ8", "full", "gateUp", "down", "gateUpQ8", "downQ8">>
  BY <1>2 DEF Projections, Q8Stage, Left
<1>3. CASE r = <<"oQ8", "full", "gateUp", "down", "gateUpQ8", "downQ8">>
  BY <1>3 DEF Projections, Q8Stage, Left
<1>4. CASE r = <<"full", "gateUp", "down", "gateUpQ8", "downQ8">>
  BY <1>4 DEF Projections, Q8Stage, Left
<1>5. CASE r = <<"gateUp", "down", "gateUpQ8", "downQ8">>
  BY <1>5 DEF Projections, Q8Stage, Left
<1>6. CASE r = <<"down", "gateUpQ8", "downQ8">>
  BY <1>6 DEF Projections, Q8Stage, Left
<1>7. CASE r = <<"gateUpQ8", "downQ8">>
  BY <1>7 DEF Projections, Q8Stage, Left
<1>8. CASE r = <<"downQ8">>
  BY <1>8 DEF Projections, Q8Stage, Left
<1> QED
  BY <1>1, <1>2, <1>3, <1>4, <1>5, <1>6, <1>7, <1>8 DEF Rests, Stages

(* The places a copy can be made for are finitely many.                    *)
LEMMA CopiesFinite == IsFiniteSet(Layers \X Projections)
<1>1. IsFiniteSet(Layers)
  BY SubgraphsAssumption
<1>2. IsFiniteSet(Projections)
  <2>1. IsFiniteSet({"qkv"}) /\ IsFiniteSet({"o"}) /\ IsFiniteSet({"gateUp"}) /\ IsFiniteSet({"down"})
    BY FS_Singleton
  <2>2. IsFiniteSet({"qkv"} \cup {"o"}) /\ IsFiniteSet({"gateUp"} \cup {"down"})
    BY <2>1, FS_Union
  <2>3. Projections = ({"qkv"} \cup {"o"}) \cup ({"gateUp"} \cup {"down"})
    BY DEF Projections
  <2> QED
    BY <2>2, <2>3, FS_Union
<1> QED
  BY <1>1, <1>2, FS_Product

(* The bytes of some copies are a sum.                                     *)
LEMMA BytesSummed ==
  ASSUME NEW copies
  PROVE  BytesOf(copies) = SumOf(Cost, copies)
  BY DEF BytesOf, SumOf

(* What one more copy adds to the bytes of all.                            *)
LEMMA OneCopyMore ==
  ASSUME NEW l \in Layers, NEW j \in Projections, j \notin q8[l],
         Copies' = Copies \cup {<<l, j>>}
  PROVE  BytesOf(Copies)' = BytesOf(Copies) + Bytes[j]
<1>1. Copies \subseteq Layers \X Projections
  BY DEF Copies
<1>2. IsFiniteSet(Copies)
  BY <1>1, CopiesFinite, FS_Subset
<1>3. <<l, j>> \notin Copies /\ <<l, j>> \in Layers \X Projections
  BY DEF Copies
<1>4. Cost[<<l, j>>] = Bytes[j]
  BY <1>3 DEF Cost
<1>5. \A c \in Copies \cup {<<l, j>>} : Cost[c] \in Nat
  BY <1>1, <1>3, SubgraphsAssumption DEF Cost
<1>6. /\ SumOf(Cost, Copies) \in Nat
      /\ SumOf(Cost, Copies \cup {<<l, j>>}) = SumOf(Cost, Copies) + Cost[<<l, j>>]
  BY <1>2, <1>3, <1>5, SumAdd
<1>7. \A copies : BytesOf(copies) = SumOf(Cost, copies)
  BY BytesSummed
<1> QED
  BY <1>4, <1>6, <1>7

(* The bytes of all copies are a number.                                   *)
LEMMA BytesType == BytesOf(Copies) \in Nat
<1>1. Copies \subseteq Layers \X Projections
  BY DEF Copies
<1>2. IsFiniteSet(Copies)
  BY <1>1, CopiesFinite, FS_Subset
<1>3. \A c \in Copies : Cost[c] \in Nat
  BY <1>1, SubgraphsAssumption DEF Cost
<1>4. SumOf(Cost, Copies) \in Nat
  BY <1>2, <1>3, SumType
<1> QED
  BY <1>4, BytesSummed

(* The accounts while the stages move on and no bytes are held.            *)
LEMMA Q8Kept ==
  ASSUME Types, Q8Inv, Types',
         \A k \in Layers : todo'[k] = todo[k] \/ (todo[k] # <<>> /\ todo'[k] = Tail(todo[k])),
         q8' = q8, holding' = 0, reserved' = reserved - holding
  PROVE  Q8Inv'
<1>1. BytesOf(Copies)' = BytesOf(Copies)
  BY DEF Copies
<1>2. /\ reserved \in Nat /\ holding \in Nat /\ Budget \in Nat /\ BytesOf(Copies) \in Nat
      /\ reserved = holding + BytesOf(Copies) /\ reserved <= Budget
  BY BytesType, SubgraphsAssumption DEF Q8Inv, Q8Accounted, Types, TypeOK
<1>3. reserved' <= Budget /\ reserved' = 0 + BytesOf(Copies)'
  BY <1>1, <1>2
<1>5. Q8Accounted'
  BY <1>3 DEF Q8Accounted
<1>6. ASSUME NEW k \in Layers, NEW j \in Projections, j \in q8'[k]
      PROVE  Len(todo'[k]) <= Left[j]
  <2>1. Len(todo[k]) <= Left[j] /\ todo[k] \in Rests /\ Left[j] \in Nat
    BY <1>6 DEF Q8Inv, Types, Left, Projections
  <2>2. CASE todo'[k] = todo[k]
    BY <2>1, <2>2
  <2>3. CASE todo[k] # <<>> /\ todo'[k] = Tail(todo[k])
    <3>1. Len(todo[k]) \in Nat /\ Len(todo'[k]) = Len(todo[k]) - 1
      BY <2>1, <2>3, RestLength
    <3> QED
      BY <2>1, <3>1
  <2> QED
    BY <2>2, <2>3
<1> QED
  BY <1>5, <1>6 DEF Q8Inv

(* Commit: the bytes held become those of the copy, which is a new one.    *)
LEMMA Q8Commit ==
  ASSUME Types, Q8Inv, NEW l \in Layers, NEW j \in Projections, Commit(l, j)
  PROVE  Q8Inv'
<1>1. /\ Loading(l, Q8Stage[j]) /\ holding > 0 /\ todo' = [todo EXCEPT ![l] = Tail(todo[l])]
      /\ q8' = [q8 EXCEPT ![l] = q8[l] \cup {j}] /\ holding' = 0 /\ reserved' = reserved
  BY DEF Commit, Loaded
<1>2. todo \in [Layers -> Rests] /\ q8 \in [Layers -> SUBSET Projections] /\ todo[l] # <<>>
  BY <1>1 DEF Types, TypeOK, Loading
<1>3. /\ Len(todo[l]) = Left[j] + 1 /\ Len(Tail(todo[l])) = Left[j] /\ Left[j] \in Nat
  <2>1. Head(todo[l]) = Q8Stage[j] /\ todo[l] \in Rests
    BY <1>1, <1>2 DEF Loading
  <2>2. Left[j] \in Nat
    BY DEF Left, Projections
  <2> QED
    BY <1>2, <2>1, <2>2, RestLength
<1>4. j \notin q8[l]
  BY <1>3 DEF Q8Inv
<1>5. \A k \in Layers : q8'[k] = IF k = l THEN q8[k] \cup {j} ELSE q8[k]
  BY <1>1, <1>2
<1>6. Copies' = Copies \cup {<<l, j>>}
  <2>1. Copies' = {c \in Layers \X Projections : c[2] \in q8'[c[1]]}
    BY DEF Copies
  <2>2. ASSUME NEW c \in Layers \X Projections
        PROVE  c[2] \in q8'[c[1]] <=> c[2] \in q8[c[1]] \/ c = <<l, j>>
    <3>1. PICK k \in Layers, i \in Projections : c = <<k, i>>
      OBVIOUS
    <3>2. c[1] = k /\ c[2] = i /\ (c = <<l, j>> <=> k = l /\ i = j)
      BY <3>1
    <3>3. i \in q8'[k] <=> i \in q8[k] \/ (k = l /\ i = j)
      BY <1>5
    <3> QED
      BY <3>2, <3>3
  <2> QED
    BY <2>1, <2>2 DEF Copies
<1>7. BytesOf(Copies)' = BytesOf(Copies) + Bytes[j]
  BY <1>4, <1>6, OneCopyMore
<1>8. /\ reserved \in Nat /\ holding = Bytes[j] /\ Bytes[j] \in Nat
      /\ BytesOf(Copies) \in Nat /\ reserved = holding + BytesOf(Copies) /\ reserved <= Budget
  BY <1>1, BytesType, SubgraphsAssumption DEF Q8Inv, Q8Accounted, Types, TypeOK
<1>9. reserved' = holding' + BytesOf(Copies)'
  BY <1>1, <1>7, <1>8
<1>10. Q8Accounted'
  BY <1>1, <1>8, <1>9 DEF Q8Accounted
<1>11. ASSUME NEW k \in Layers, NEW i \in Projections, i \in q8'[k]
       PROVE  Len(todo'[k]) <= Left[i]
  <2>1. Left[i] \in Nat
    BY DEF Left, Projections
  <2>2. i \in q8[k] => Len(todo[k]) <= Left[i]
    BY DEF Q8Inv
  <2>3. CASE k = l
    <3>1. Len(todo'[l]) = Left[j]
      BY <1>1, <1>2, <1>3
    <3>2. i = j \/ i \in q8[l]
      BY <1>5, <1>11, <2>3
    <3> QED
      BY <1>3, <2>1, <2>2, <2>3, <3>1, <3>2
  <2>4. CASE k # l
    BY <1>1, <1>2, <1>5, <1>11, <2>2, <2>4
  <2> QED
    BY <2>3, <2>4
<1> QED
  BY <1>1, <1>10, <1>11 DEF Q8Inv

(* Reserve: the bytes held are within the budget.                          *)
LEMMA Q8Reserve ==
  ASSUME Types, Q8Inv, NEW l \in Layers, NEW j \in Projections, Reserve(l, j)
  PROVE  Q8Inv'
<1>1. /\ Loading(l, Q8Stage[j]) /\ holding = 0 /\ reserved + Bytes[j] <= Budget
      /\ reserved' = reserved + Bytes[j] /\ holding' = Bytes[j] /\ todo' = todo /\ q8' = q8
  BY DEF Reserve
<1>2. BytesOf(Copies)' = BytesOf(Copies)
  BY <1>1 DEF Copies
<1>3. reserved \in Nat /\ Bytes[j] \in Nat /\ BytesOf(Copies) \in Nat /\ reserved = holding + BytesOf(Copies)
  BY BytesType, SubgraphsAssumption DEF Q8Inv, Q8Accounted, Types, TypeOK
<1>4. reserved' = holding' + BytesOf(Copies)' /\ reserved' <= Budget
  BY <1>1, <1>2, <1>3
<1>5. Q8Accounted'
  BY <1>4 DEF Q8Accounted
<1>6. ASSUME NEW k \in Layers, NEW i \in Projections, Loading(k, Q8Stage[i])'
      PROVE  holding' = Bytes[i]
  <2>1. Loading(k, Q8Stage[i])
    BY <1>1, <1>6 DEF Loading
  <2>2. Q8Stage[i] = Q8Stage[j]
    BY <1>1, <2>1, OneLoading
  <2>3. i = j
    BY <2>2 DEF Q8Stage, Projections
  <2> QED
    BY <1>1, <2>3
<1> QED
  BY <1>1, <1>5, <1>6 DEF Q8Inv

(* Every step keeps the accounts: those of the loading one by one.         *)
LEMMA NextQ8 == IInv /\ Q8Inv /\ [Next]_vars => Q8Inv'
<1> SUFFICES ASSUME IInv, Q8Inv, [Next]_vars
             PROVE  Q8Inv'
  OBVIOUS
<1>1. Types /\ Types'
  BY NextIInv DEF IInv
<1>2. ASSUME NEW l \in Layers, Loaded(l), todo[l] # <<>>
      PROVE  \A k \in Layers : todo'[k] = todo[k] \/ (todo[k] # <<>> /\ todo'[k] = Tail(todo[k]))
  BY <1>1, <1>2 DEF Loaded, Types
<1>3. reserved \in Nat /\ holding \in Nat
  BY <1>1 DEF Types, TypeOK
<1>4. ASSUME NEW l \in Layers, NEW p \in Parts, LoadNet(l, p)
      PROVE  Q8Inv'
  <2>1. /\ Loading(l, p) /\ Loaded(l) /\ todo[l] # <<>>
        /\ q8' = q8 /\ reserved' = reserved /\ holding' = holding
    BY <1>4 DEF LoadNet, Loading
  <2>2. p \notin {"qkvQ8", "oQ8", "gateUpQ8", "downQ8"}
    BY DEF Parts, MlpParts
  <2>3. holding = 0
    BY <2>1, <2>2, LoadedTodo
  <2> QED
    BY <1>1, <1>2, <1>3, <2>1, <2>3, Q8Kept
<1>5. ASSUME NEW l \in Layers, NEW j \in Projections, GiveBack(l, j) \/ SkipQ8(l, j)
      PROVE  Q8Inv'
  <2>1. /\ Loaded(l) /\ todo[l] # <<>> /\ q8' = q8
        /\ reserved' = reserved - holding /\ holding' = 0
    BY <1>3, <1>5 DEF GiveBack, SkipQ8, Loading
  <2> QED
    BY <1>1, <1>2, <2>1, Q8Kept
<1>6. ASSUME NEW l \in Layers, NEW j \in Projections, Reserve(l, j) \/ Commit(l, j)
      PROVE  Q8Inv'
  BY <1>1, <1>6, Q8Reserve, Q8Commit
<1>7. ASSUME UNCHANGED loadVars
      PROVE  Q8Inv'
  <2>1. todo' = todo /\ q8' = q8 /\ reserved' = reserved /\ holding' = holding
    BY <1>7 DEF loadVars
  <2> QED
    BY <2>1 DEF Q8Inv, Q8Accounted, Copies, Loading
<1>8. ASSUME NEW t \in Threads,
             \/ \E l \in Layers : Attend(t, l)
             \/ Full(t) \/ Active(t) \/ Flag(t) \/ GateUp(t) \/ Down(t) \/ Accept(t) \/ Reject(t)
      PROVE  UNCHANGED loadVars
  BY <1>8 DEF Attend, Full, Active, Flag, GateUp, Down, Accept, Reject
<1>9. ASSUME \/ \E images \in Prompts : StartPrompt(images)
             \/ CachedImage \/ EncodeImage \/ UnreadableImage \/ CompletePrompt
      PROVE  UNCHANGED loadVars
  BY <1>9 DEF StartPrompt, CachedImage, EncodeImage, UnreadableImage, CompletePrompt
<1>10. CASE UNCHANGED vars
  BY <1>7, <1>10 DEF vars, loadVars
<1> QED
  BY <1>4, <1>5, <1>6, <1>7, <1>8, <1>9, <1>10 DEF Next

(* Before the first layer is loaded nothing is reserved.                   *)
LEMMA InitQ8 == Init => Q8Inv
<1> SUFFICES ASSUME Init
             PROVE  Q8Inv
  OBVIOUS
<1>1. q8 = [l \in Layers |-> {}] /\ reserved = 0 /\ holding = 0
  BY DEF Init
<1>2. Copies = {}
  BY <1>1 DEF Copies
<1>3. BytesOf(Copies) = 0
  BY <1>2, SumEmpty, BytesSummed
<1>4. Q8Accounted
  BY <1>1, <1>3, SubgraphsAssumption DEF Q8Accounted
<1> QED
  BY <1>1, <1>4 DEF Q8Inv

(* Q8Accounted, for any sizes, number of layers and budget: the counter is *)
(* the bytes of the copies there are, with the one being made, and stays   *)
(* within the budget.                                                      *)
THEOREM BytesAccounted == Spec => []Q8Accounted
<1>1. Q8Inv => Q8Accounted
  BY DEF Q8Inv
<1>2. Init => IInv /\ Q8Inv
  BY InitIInv, InitQ8
<1>3. (IInv /\ Q8Inv) /\ [Next]_vars => (IInv /\ Q8Inv)'
  BY NextIInv, NextQ8
<1> QED
  BY <1>1, <1>2, <1>3, PTL DEF Spec
=============================================================================

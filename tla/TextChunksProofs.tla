-------------------------- MODULE TextChunksProofs --------------------------
(***************************************************************************)
(* What holds of the text runner for every directory, every number of      *)
(* layers, heads and dimensions and every length of dialog (TextChunks).   *)
(*                                                                         *)
(* The first half is about data: a flat buffer is determined by its cells, *)
(* a cell's place determines the cell, and from that what padding, a       *)
(* change of layout, a delta and a full output make of the positions of a  *)
(* dialog.  The second is about steps.  The invariant IInv says more than  *)
(* the properties: chunks are the chain that loading takes from the        *)
(* directory (LoadInv), a shape that the runner remembers is the one its   *)
(* context has (ShapeInv), the runner takes its entries for current only   *)
(* when they are those of the cache or ahead of it (DialogInv), and then   *)
(* each of them is one of two values, the dialog's positions without and   *)
(* with the buffers of a shape (KvInv).                                    *)
(*                                                                         *)
(* What is said of entries and inputs has a premise, Gapless.  The code    *)
(* takes the first positions of an output that holds all of them, which    *)
(* are those of the dialog only if the output is as long as the dialog.    *)
(***************************************************************************)
EXTENDS TextChunks, FiniteSetTheorems, SequenceTheorems, WellFoundedInduction, TLAPS

-----------------------------------------------------------------------------
(* Numbers.  A product of natural numbers is one.                          *)
LEMMA ProductNat ==
  ASSUME NEW x \in Nat, NEW y \in Nat
  PROVE  x * y \in Nat
OBVIOUS

(* Quotient and remainder.                                                 *)
LEMMA DivMod ==
  ASSUME NEW n \in Nat \ {0}, NEW x \in Nat
  PROVE  /\ x \div n \in Nat /\ x % n \in 0 .. n - 1
         /\ x = (x \div n) * n + (x % n)
OBVIOUS

(* They are unique.                                                        *)
LEMMA DivIs ==
  ASSUME NEW n \in Nat \ {0}, NEW a \in Nat, NEW b \in 0 .. n - 1
  PROVE  (a * n + b) \div n = a /\ (a * n + b) % n = b
OBVIOUS

(* A row below the last one ends before it does.                           *)
LEMMA RowBound ==
  ASSUME NEW n \in Nat, NEW m \in Nat, NEW a \in 0 .. m - 1, NEW b \in 0 .. n - 1
  PROVE  a * n + b \in 0 .. m * n - 1
<1>1. m - 1 - a \in Nat /\ n \in Nat
  OBVIOUS
<1>2. (m - 1 - a) * n \in Nat
  BY <1>1
<1>3. m * n = (m - 1 - a) * n + a * n + n
  BY <1>1
<1>4. a * n \in Nat /\ m * n \in Nat
  BY ProductNat
<1> QED BY <1>2, <1>3, <1>4

(* The place of a cell in a flat buffer of three dimensions.               *)
Place(n2, n3, a, b, c) == a * n2 * n3 + b * n3 + c + 1

(* What Flat computes from a place.                                        *)
First(n2, n3, i) == (i - 1) \div (n2 * n3)
Second(n2, n3, i) == ((i - 1) \div n3) % n2
Third(n3, i) == (i - 1) % n3

(* The coordinates of a cell give its place, which is in the buffer, and   *)
(* the place gives them back.                                              *)
LEMMA PlaceIs ==
  ASSUME NEW n1 \in Nat, NEW n2 \in Nat, NEW n3 \in Nat,
         NEW a \in 0 .. n1 - 1, NEW b \in 0 .. n2 - 1, NEW c \in 0 .. n3 - 1
  PROVE  /\ Place(n2, n3, a, b, c) \in 1 .. n1 * n2 * n3
         /\ First(n2, n3, Place(n2, n3, a, b, c)) = a
         /\ Second(n2, n3, Place(n2, n3, a, b, c)) = b
         /\ Third(n3, Place(n2, n3, a, b, c)) = c
<1> DEFINE q == a * n2 + b
           r == b * n3 + c
           x == q * n3 + c
<1>1. n2 \in Nat \ {0} /\ n3 \in Nat \ {0} /\ a \in Nat
  OBVIOUS
<1>2. q \in 0 .. n1 * n2 - 1 /\ r \in 0 .. n2 * n3 - 1
  BY RowBound
<1>3. n2 * n3 \in Nat \ {0} /\ n1 * n2 \in Nat
  BY <1>1
<1>4. q \in Nat
  BY <1>2
<1>5. x = a * (n2 * n3) + r /\ x = Place(n2, n3, a, b, c) - 1 /\ Place(n2, n3, a, b, c) = x + 1
  BY <1>1 DEF Place
<1>6. x \in 0 .. (n1 * n2) * n3 - 1
  BY <1>2, <1>3, RowBound
<1>7. x \div n3 = q /\ x % n3 = c
  BY <1>1, <1>4, DivIs
<1>8. q % n2 = b
  BY <1>1, DivIs
<1>9. x \div (n2 * n3) = a
  <2> HIDE DEF r, x
  <2>1. (a * (n2 * n3) + r) \div (n2 * n3) = a
    BY <1>1, <1>2, <1>3, DivIs
  <2> QED BY <2>1, <1>5
<1> HIDE DEF x, q, r
<1>10. Place(n2, n3, a, b, c) \in 1 .. n1 * n2 * n3
  BY <1>3, <1>5, <1>6
<1> QED BY <1>5, <1>7, <1>8, <1>9, <1>10 DEF First, Second, Third

(* Every place is that of the coordinates it gives.                        *)
LEMMA PlaceOnto ==
  ASSUME NEW n1 \in Nat, NEW n2 \in Nat, NEW n3 \in Nat, NEW i \in 1 .. n1 * n2 * n3
  PROVE  /\ First(n2, n3, i) \in 0 .. n1 - 1
         /\ Second(n2, n3, i) \in 0 .. n2 - 1
         /\ Third(n3, i) \in 0 .. n3 - 1
         /\ i = Place(n2, n3, First(n2, n3, i), Second(n2, n3, i), Third(n3, i))
<1> DEFINE x == i - 1
           q == x \div n3
           c == x % n3
           b == q % n2
           a == q \div n2
<1>1. n2 # 0 /\ n3 # 0 /\ n1 # 0
  <2>1. n1 * n2 * n3 \in Nat \ {0}
    BY ProductNat
  <2> QED BY <2>1
<1>2. x \in Nat /\ x < n1 * n2 * n3 /\ i = x + 1
  BY ProductNat
<1>3. q \in Nat /\ c \in 0 .. n3 - 1 /\ x = q * n3 + c
  BY <1>1, <1>2, DivMod
<1>4. a \in Nat /\ b \in 0 .. n2 - 1 /\ q = a * n2 + b
  BY <1>1, <1>3, DivMod
<1> HIDE DEF x, q, c, b, a
<1>5. q < n1 * n2
  <2> SUFFICES ASSUME q >= n1 * n2
               PROVE  FALSE
    BY <1>3, ProductNat
  <2>1. q - n1 * n2 \in Nat
    BY <1>3, ProductNat
  <2>2. (q - n1 * n2) * n3 \in Nat
    BY <2>1
  <2>3. q * n3 = (q - n1 * n2) * n3 + n1 * n2 * n3
    BY <1>3
  <2> QED BY <1>2, <1>3, <2>2, <2>3, ProductNat
<1>6. a < n1
  <2> SUFFICES ASSUME a >= n1
               PROVE  FALSE
    BY <1>4
  <2>1. (a - n1) * n2 \in Nat
    BY <1>4
  <2>2. a * n2 = (a - n1) * n2 + n1 * n2
    BY <1>4
  <2> QED BY <1>4, <1>5, <2>1, <2>2, ProductNat
<1>7. i = Place(n2, n3, a, b, c)
  BY <1>2, <1>3, <1>4 DEF Place
<1>8. First(n2, n3, i) = a /\ Second(n2, n3, i) = b /\ Third(n3, i) = c
  <2>1. a \in 0 .. n1 - 1
    BY <1>4, <1>6
  <2>2. b \in 0 .. n2 - 1 /\ c \in 0 .. n3 - 1
    BY <1>3, <1>4
  <2>3. /\ First(n2, n3, Place(n2, n3, a, b, c)) = a
        /\ Second(n2, n3, Place(n2, n3, a, b, c)) = b
        /\ Third(n3, Place(n2, n3, a, b, c)) = c
    BY <2>1, <2>2, PlaceIs
  <2> QED BY <1>7, <2>3
<1> QED BY <1>3, <1>4, <1>6, <1>7, <1>8

(* Whatever the first dimension.                                           *)
LEMMA PlaceGives ==
  ASSUME NEW n2 \in Nat, NEW n3 \in Nat,
         NEW a \in Nat, NEW b \in 0 .. n2 - 1, NEW c \in 0 .. n3 - 1
  PROVE  /\ First(n2, n3, Place(n2, n3, a, b, c)) = a
         /\ Second(n2, n3, Place(n2, n3, a, b, c)) = b
         /\ Third(n3, Place(n2, n3, a, b, c)) = c
<1>1. PICK n1 \in Nat : a \in 0 .. n1 - 1
  <2>1. a + 1 \in Nat /\ a \in 0 .. (a + 1) - 1
    OBVIOUS
  <2> QED BY <2>1
<1>2. /\ Place(n2, n3, a, b, c) \in 1 .. n1 * n2 * n3
      /\ First(n2, n3, Place(n2, n3, a, b, c)) = a
      /\ Second(n2, n3, Place(n2, n3, a, b, c)) = b
      /\ Third(n3, Place(n2, n3, a, b, c)) = c
  BY <1>1, PlaceIs
<1> QED BY <1>2

-----------------------------------------------------------------------------
(* A buffer of n cells.                                                    *)
IsBuffer(f, n) == f = [i \in 1 .. n |-> f[i]]

(* Buffers over three dimensions are equal when their cells are.           *)
LEMMA SameCells ==
  ASSUME NEW n1 \in Nat, NEW n2 \in Nat, NEW n3 \in Nat, NEW f, NEW g,
         IsBuffer(f, n1 * n2 * n3), IsBuffer(g, n1 * n2 * n3),
         \A a \in 0 .. n1 - 1, b \in 0 .. n2 - 1, c \in 0 .. n3 - 1 :
           f[Place(n2, n3, a, b, c)] = g[Place(n2, n3, a, b, c)]
  PROVE  f = g
<1>1. \A i \in 1 .. n1 * n2 * n3 : f[i] = g[i]
  <2> TAKE i \in 1 .. n1 * n2 * n3
  <2> DEFINE a == First(n2, n3, i)
             b == Second(n2, n3, i)
             c == Third(n3, i)
  <2>1. a \in 0 .. n1 - 1 /\ b \in 0 .. n2 - 1 /\ c \in 0 .. n3 - 1
        /\ i = Place(n2, n3, a, b, c)
    BY PlaceOnto
  <2> HIDE DEF a, b, c
  <2> QED BY <2>1
<1> QED BY <1>1 DEF IsBuffer

(* The coordinates, and what Flat makes of a function's values on them.    *)
Cube(n1, n2, n3) == (0 .. n1 - 1) \X (0 .. n2 - 1) \X (0 .. n3 - 1)

FlatOf(n1, n2, n3, F) ==
  [i \in 1 .. n1 * n2 * n3 |-> F[<<First(n2, n3, i), Second(n2, n3, i), Third(n3, i)>>]]

(* It has every value at the place of its coordinates.                     *)
LEMMA FlatAt ==
  ASSUME NEW n1 \in Nat, NEW n2 \in Nat, NEW n3 \in Nat, NEW F
  PROVE  /\ IsBuffer(FlatOf(n1, n2, n3, F), n1 * n2 * n3)
         /\ \A a \in 0 .. n1 - 1, b \in 0 .. n2 - 1, c \in 0 .. n3 - 1 :
              FlatOf(n1, n2, n3, F)[Place(n2, n3, a, b, c)] = F[<<a, b, c>>]
<1>1. IsBuffer(FlatOf(n1, n2, n3, F), n1 * n2 * n3)
  BY DEF IsBuffer, FlatOf
<1>2. ASSUME NEW a \in 0 .. n1 - 1, NEW b \in 0 .. n2 - 1, NEW c \in 0 .. n3 - 1
      PROVE  FlatOf(n1, n2, n3, F)[Place(n2, n3, a, b, c)] = F[<<a, b, c>>]
  <2> DEFINE p == Place(n2, n3, a, b, c)
  <2>1. p \in 1 .. n1 * n2 * n3 /\ First(n2, n3, p) = a /\ Second(n2, n3, p) = b
        /\ Third(n3, p) = c
    BY PlaceIs
  <2> HIDE DEF p
  <2>2. FlatOf(n1, n2, n3, F)[p] = F[<<First(n2, n3, p), Second(n2, n3, p), Third(n3, p)>>]
    BY <2>1 DEF FlatOf
  <2> QED BY <2>1, <2>2 DEF p
<1> QED BY <1>1, <1>2

(* The positions of a dialog, by its number.                               *)
PositionsOf(number, n) ==
  FlatOf(Heads, n, HeadDim,
         [p \in Cube(Heads, n, HeadDim) |-> <<number, p[1], p[2], p[3]>>])

(* Where s is the position of the cell.                                    *)
HeadSet == 0 .. Heads - 1
DimSet == 0 .. HeadDim - 1
Spot(n, h, s, d) == Place(n, HeadDim, h, s, d)

(* The coordinates of a cell give its place and the place gives them back. *)
LEMMA SpotIs ==
  ASSUME NEW n \in Nat, NEW h \in HeadSet, NEW s \in 0 .. n - 1, NEW d \in DimSet
  PROVE  /\ Spot(n, h, s, d) \in 1 .. Heads * n * HeadDim
         /\ First(n, HeadDim, Spot(n, h, s, d)) = h
         /\ Second(n, HeadDim, Spot(n, h, s, d)) = s
         /\ Third(HeadDim, Spot(n, h, s, d)) = d
<1>1. Heads \in Nat /\ HeadDim \in Nat /\ h \in 0 .. Heads - 1 /\ d \in 0 .. HeadDim - 1
  BY SizeAssumption DEF HeadSet, DimSet
<1>2. /\ Place(n, HeadDim, h, s, d) \in 1 .. Heads * n * HeadDim
      /\ First(n, HeadDim, Place(n, HeadDim, h, s, d)) = h
      /\ Second(n, HeadDim, Place(n, HeadDim, h, s, d)) = s
      /\ Third(HeadDim, Place(n, HeadDim, h, s, d)) = d
  BY <1>1, PlaceIs
<1> QED BY <1>2 DEF Spot

(* The place of a cell of n positions in the layout with the sequence       *)
(* first, which does not depend on n.                                       *)
SeqSpot(n, h, s, d) == Place(HeadDim, Heads, s, d, h)

(* The coordinates of a cell give that place and it gives them back.        *)
LEMMA SeqSpotIs ==
  ASSUME NEW n \in Nat, NEW h \in HeadSet, NEW s \in 0 .. n - 1, NEW d \in DimSet
  PROVE  /\ SeqSpot(n, h, s, d) \in 1 .. n * HeadDim * Heads
         /\ First(HeadDim, Heads, SeqSpot(n, h, s, d)) = s
         /\ Second(HeadDim, Heads, SeqSpot(n, h, s, d)) = d
         /\ Third(Heads, SeqSpot(n, h, s, d)) = h
<1>1. Heads \in Nat /\ HeadDim \in Nat /\ h \in 0 .. Heads - 1 /\ d \in 0 .. HeadDim - 1
  BY SizeAssumption DEF HeadSet, DimSet
<1>2. /\ Place(HeadDim, Heads, s, d, h) \in 1 .. n * HeadDim * Heads
      /\ First(HeadDim, Heads, Place(HeadDim, Heads, s, d, h)) = s
      /\ Second(HeadDim, Heads, Place(HeadDim, Heads, s, d, h)) = d
      /\ Third(Heads, Place(HeadDim, Heads, s, d, h)) = h
  BY <1>1, PlaceIs
<1> QED BY <1>2 DEF SeqSpot

(* They are a buffer of these cells.                                       *)
LEMMA PositionsAt ==
  ASSUME NEW number, NEW n \in Nat
  PROVE  /\ IsBuffer(PositionsOf(number, n), Heads * n * HeadDim)
         /\ \A h \in HeadSet, s \in 0 .. n - 1, d \in DimSet :
              PositionsOf(number, n)[Spot(n, h, s, d)] = <<number, h, s, d>>
<1> DEFINE F == [p \in Cube(Heads, n, HeadDim) |-> <<number, p[1], p[2], p[3]>>]
<1>1. \A h \in HeadSet, s \in 0 .. n - 1, d \in DimSet : F[<<h, s, d>>] = <<number, h, s, d>>
  BY DEF Cube, HeadSet, DimSet
<1>2. PositionsOf(number, n) = FlatOf(Heads, n, HeadDim, F)
  BY DEF PositionsOf
<1> HIDE DEF F
<1>3. Heads \in Nat /\ HeadDim \in Nat
  BY SizeAssumption
<1>4. /\ IsBuffer(FlatOf(Heads, n, HeadDim, F), Heads * n * HeadDim)
      /\ \A h \in 0 .. Heads - 1, s \in 0 .. n - 1, d \in 0 .. HeadDim - 1 :
           FlatOf(Heads, n, HeadDim, F)[Place(n, HeadDim, h, s, d)] = F[<<h, s, d>>]
  BY <1>3, FlatAt
<1> QED BY <1>1, <1>2, <1>4 DEF HeadSet, DimSet, Spot

(* A buffer with the cells of the positions.                               *)
HasPositions(f, number, n) ==
  /\ IsBuffer(f, Heads * n * HeadDim)
  /\ \A h \in HeadSet, s \in 0 .. n - 1, d \in DimSet :
       f[Spot(n, h, s, d)] = <<number, h, s, d>>

(* It is the positions.                                                    *)
LEMMA ArePositions ==
  ASSUME NEW number, NEW n \in Nat, NEW f, HasPositions(f, number, n)
  PROVE  f = PositionsOf(number, n)
<1> DEFINE g == PositionsOf(number, n)
<1>0. /\ IsBuffer(f, Heads * n * HeadDim)
      /\ \A h \in HeadSet, s \in 0 .. n - 1, d \in DimSet :
           f[Spot(n, h, s, d)] = <<number, h, s, d>>
  BY DEF HasPositions
<1>1. Heads \in Nat /\ HeadDim \in Nat
  BY SizeAssumption
<1>2. /\ IsBuffer(g, Heads * n * HeadDim)
      /\ \A h \in HeadSet, s \in 0 .. n - 1, d \in DimSet :
           g[Spot(n, h, s, d)] = <<number, h, s, d>>
  BY PositionsAt
<1> HIDE DEF g
<1>3. \A h \in 0 .. Heads - 1, s \in 0 .. n - 1, d \in 0 .. HeadDim - 1 :
        f[Place(n, HeadDim, h, s, d)] = g[Place(n, HeadDim, h, s, d)]
  BY <1>0, <1>2 DEF HeadSet, DimSet, Spot
<1>4. f = g
  BY <1>0, <1>1, <1>2, <1>3, SameCells
<1> QED BY <1>4 DEF g

(* Positions, which the model makes with Flat.                             *)
LEMMA PositionsNow ==
  ASSUME NEW n \in Nat
  PROVE  Positions(n) = PositionsOf(dialog.number, n)
<1>1. Heads \in Nat /\ HeadDim \in Nat
  BY SizeAssumption
<1> DEFINE p == Positions(n)
           g == PositionsOf(dialog.number, n)
           size == Heads * n * HeadDim
<1>2. IsBuffer(p, size) /\ IsBuffer(g, size)
  BY <1>1, PositionsAt DEF IsBuffer, Positions, Flat
<1>3. \A i \in 1 .. size : p[i] = g[i]
  <2> TAKE i \in 1 .. size
  <2>1. p[i] = <<dialog.number, First(n, HeadDim, i), Second(n, HeadDim, i), Third(HeadDim, i)>>
    BY DEF Positions, Flat, Cell, First, Second, Third
  <2>2. <<First(n, HeadDim, i), Second(n, HeadDim, i), Third(HeadDim, i)>> \in Cube(Heads, n, HeadDim)
    BY <1>1, PlaceOnto DEF Cube
  <2>3. g[i] = <<dialog.number, First(n, HeadDim, i), Second(n, HeadDim, i), Third(HeadDim, i)>>
    BY <2>2 DEF PositionsOf, FlatOf
  <2> QED BY <2>1, <2>3
<1> HIDE DEF p, g, size
<1>4. p = g
  BY <1>2, <1>3 DEF IsBuffer
<1> QED BY <1>4 DEF p, g

-----------------------------------------------------------------------------
(* A bucket that is not longer takes a buffer as it is.                    *)
LEMMA PaddedShort ==
  ASSUME NEW k, NEW past \in Nat, NEW bucket \in Nat, bucket <= past
  PROVE  Padded(k, past, bucket) = k
BY Zenon DEF Padded

(* A buffer padded to a bucket: its positions, then zeros.                 *)
LEMMA PaddedAt ==
  ASSUME NEW k, NEW past \in Nat, NEW bucket \in Nat, bucket > past
  PROVE  /\ IsBuffer(Padded(k, past, bucket), Heads * bucket * HeadDim)
         /\ \A h \in HeadSet, s \in 0 .. bucket - 1, d \in DimSet :
              Padded(k, past, bucket)[Spot(bucket, h, s, d)] =
                IF s < past THEN k[Spot(past, h, s, d)] ELSE Zero
<1> DEFINE F == [q \in Cube(Heads, bucket, HeadDim) |->
                   IF q[2] < past THEN k[Spot(past, q[1], q[2], q[3])] ELSE Zero]
           p == Padded(k, past, bucket)
           g == FlatOf(Heads, bucket, HeadDim, F)
           size == Heads * bucket * HeadDim
<1>1. Heads \in Nat /\ HeadDim \in Nat
  BY SizeAssumption
<1>2. /\ IsBuffer(g, size)
      /\ \A h \in 0 .. Heads - 1, s \in 0 .. bucket - 1, d \in 0 .. HeadDim - 1 :
           g[Place(bucket, HeadDim, h, s, d)] = F[<<h, s, d>>]
  <2> HIDE DEF F
  <2> QED BY <1>1, FlatAt
<1>3. \A i \in 1 .. size : p[i] = g[i]
  <2> TAKE i \in 1 .. size
  <2> DEFINE t == <<First(bucket, HeadDim, i), Second(bucket, HeadDim, i), Third(HeadDim, i)>>
  <2>1. p[i] = IF Second(bucket, HeadDim, i) < past
               THEN k[Spot(past, First(bucket, HeadDim, i), Second(bucket, HeadDim, i),
                           Third(HeadDim, i))]
               ELSE Zero
    BY DEF Padded, Flat, CacheCell, First, Second, Third, Spot, Place
  <2>2. t \in Cube(Heads, bucket, HeadDim)
    BY <1>1, PlaceOnto DEF Cube
  <2>3. g[i] = F[t]
    BY DEF FlatOf
  <2> QED BY <2>1, <2>2, <2>3
<1>4. IsBuffer(p, size)
  <2>1. p = [i \in 1 .. size |->
               IF Second(bucket, HeadDim, i) < past
               THEN CacheCell(k, past, First(bucket, HeadDim, i), Second(bucket, HeadDim, i),
                              Third(HeadDim, i))
               ELSE Zero]
    BY DEF Padded, Flat, First, Second, Third
  <2> HIDE DEF p, size
  <2> QED BY <2>1 DEF IsBuffer
<1>5. p = g
  <2> HIDE DEF p, g, size
  <2> QED BY <1>2, <1>3, <1>4 DEF IsBuffer
<1>6. \A h \in HeadSet, s \in 0 .. bucket - 1, d \in DimSet :
        F[<<h, s, d>>] = IF s < past THEN k[Spot(past, h, s, d)] ELSE Zero
  BY DEF Cube, HeadSet, DimSet
<1> HIDE DEF F, g, p
<1>7. ASSUME NEW h \in HeadSet, NEW s \in 0 .. bucket - 1, NEW d \in DimSet
      PROVE  p[Spot(bucket, h, s, d)] = IF s < past THEN k[Spot(past, h, s, d)] ELSE Zero
  <2>1. p[Spot(bucket, h, s, d)] = F[<<h, s, d>>]
    BY <1>2, <1>5 DEF HeadSet, DimSet, Spot
  <2> QED BY <1>6, <2>1
<1> QED BY <1>4, <1>7 DEF p

(* The positions of a dialog, padded.                                      *)
PaddedOf(number, past, bucket) == Padded(PositionsOf(number, past), past, bucket)

(* Behind the positions so far there is padding, in every head.            *)
LEMMA PaddedOfAt ==
  ASSUME NEW number, NEW past \in Nat, NEW bucket \in Nat, bucket >= past
  PROVE  /\ IsBuffer(PaddedOf(number, past, bucket), Heads * bucket * HeadDim)
         /\ \A h \in HeadSet, s \in 0 .. bucket - 1, d \in DimSet :
              PaddedOf(number, past, bucket)[Spot(bucket, h, s, d)] =
                IF s < past THEN <<number, h, s, d>> ELSE Zero
<1> DEFINE k == PositionsOf(number, past)
<1>1. /\ IsBuffer(k, Heads * past * HeadDim)
      /\ \A h \in HeadSet, s \in 0 .. past - 1, d \in DimSet : k[Spot(past, h, s, d)] = <<number, h, s, d>>
  BY PositionsAt
<1>2. PaddedOf(number, past, bucket) = Padded(k, past, bucket)
  BY DEF PaddedOf
<1> HIDE DEF k
<1>3. CASE bucket = past
  <2>1. Padded(k, past, bucket) = k
    BY <1>3 DEF Padded
  <2> QED BY <1>1, <1>2, <1>3, <2>1
<1>4. CASE bucket > past
  <2>1. /\ IsBuffer(Padded(k, past, bucket), Heads * bucket * HeadDim)
        /\ \A h \in HeadSet, s \in 0 .. bucket - 1, d \in DimSet :
             Padded(k, past, bucket)[Spot(bucket, h, s, d)] =
               IF s < past THEN k[Spot(past, h, s, d)] ELSE Zero
    BY <1>4, PaddedAt
  <2>2. \A s \in 0 .. bucket - 1 : s < past => s \in 0 .. past - 1
    OBVIOUS
  <2> QED BY <1>1, <1>2, <2>1, <2>2
<1> QED BY <1>3, <1>4

-----------------------------------------------------------------------------
(* A buffer is a sequence of its cells.                                    *)
LEMMA BufferIsSeq ==
  ASSUME NEW f, NEW n \in Nat, IsBuffer(f, n), NEW S, \A i \in 1 .. n : f[i] \in S
  PROVE  f \in Seq(S) /\ Len(f) = n /\ DOMAIN f = 1 .. n
<1>1. f \in [1 .. n -> S]
  BY DEF IsBuffer
<1>2. f \in Seq(S)
  BY <1>1
<1> QED BY <1>1, <1>2

(* Whatever its cells are.                                                 *)
LEMMA BufferIsSequence ==
  ASSUME NEW f, NEW n \in Nat, IsBuffer(f, n)
  PROVE  Len(f) = n /\ DOMAIN f = 1 .. n /\ \E S : f \in Seq(S)
<1> DEFINE S == {f[i] : i \in 1 .. n}
<1>1. \A i \in 1 .. n : f[i] \in S
  OBVIOUS
<1> HIDE DEF S
<1>2. f \in Seq(S) /\ Len(f) = n /\ DOMAIN f = 1 .. n
  BY <1>1, BufferIsSeq
<1> QED BY <1>2

(* The place of a cell in the layout that a chunk reads.                   *)
LEMMA IndexIs ==
  ASSUME NEW bucket \in Nat, NEW format, NEW h \in HeadSet, NEW s \in 0 .. bucket - 1, NEW d \in DimSet
  PROVE  Index(h, s, d, bucket, format) =
           IF format = "NHWC" THEN Place(HeadDim, Heads, s, d, h) ELSE Spot(bucket, h, s, d)
<1>1. Heads \in Nat /\ HeadDim \in Nat /\ h \in Int /\ s \in Int /\ d \in Int
  BY SizeAssumption DEF HeadSet, DimSet
<1>2. CASE format = "NHWC"
  <2>1. Index(h, s, d, bucket, format) = 1 + (s * HeadDim * Heads + d * Heads + h)
    BY <1>2 DEF Index
  <2>2. s * HeadDim * Heads \in Int /\ d * Heads \in Int
    BY <1>1
  <2>3. Place(HeadDim, Heads, s, d, h) = s * HeadDim * Heads + d * Heads + h + 1
    BY DEF Place
  <2> QED BY <1>1, <1>2, <2>1, <2>2, <2>3
<1>3. CASE format # "NHWC"
  <2>1. Index(h, s, d, bucket, format) = 1 + (h * bucket * HeadDim + s * HeadDim + d)
    BY <1>3 DEF Index
  <2>2. h * bucket * HeadDim \in Int /\ s * HeadDim \in Int
    BY <1>1
  <2>3. Spot(bucket, h, s, d) = h * bucket * HeadDim + s * HeadDim + d + 1
    BY DEF Place, Spot
  <2> QED BY <1>1, <1>3, <2>1, <2>2, <2>3
<1> QED BY <1>2, <1>3

(* Each cell has one, and each place is that of a cell.                    *)
LEMMA IndexIn ==
  ASSUME NEW bucket \in Nat, NEW format, NEW h \in HeadSet, NEW s \in 0 .. bucket - 1, NEW d \in DimSet
  PROVE  Index(h, s, d, bucket, format) \in 1 .. Heads * bucket * HeadDim
<1>1. Heads \in Nat /\ HeadDim \in Nat
  BY SizeAssumption
<1>2. bucket * HeadDim * Heads = Heads * bucket * HeadDim
  BY <1>1
<1>3. Place(HeadDim, Heads, s, d, h) \in 1 .. bucket * HeadDim * Heads
  BY <1>1, PlaceIs DEF HeadSet, DimSet
<1>4. Spot(bucket, h, s, d) \in 1 .. Heads * bucket * HeadDim
  BY <1>1, PlaceIs DEF HeadSet, DimSet, Spot
<1> QED BY <1>2, <1>3, <1>4, IndexIs

(* Every place of the NPU's buffer is that of a cell.                      *)
LEMMA IndexOnto ==
  ASSUME NEW bucket \in Nat, NEW format, NEW i \in 1 .. Heads * bucket * HeadDim
  PROVE  \E h \in HeadSet, s \in 0 .. bucket - 1, d \in DimSet : i = Index(h, s, d, bucket, format)
<1>1. Heads \in Nat /\ HeadDim \in Nat
  BY SizeAssumption
<1>2. bucket * HeadDim * Heads = Heads * bucket * HeadDim
  BY <1>1
<1>3. CASE format = "NHWC"
  <2> DEFINE s == First(HeadDim, Heads, i)
             d == Second(HeadDim, Heads, i)
             h == Third(Heads, i)
  <2>1. i \in 1 .. bucket * HeadDim * Heads
    BY <1>2
  <2>2. s \in 0 .. bucket - 1 /\ d \in 0 .. HeadDim - 1 /\ h \in 0 .. Heads - 1
        /\ i = Place(HeadDim, Heads, s, d, h)
    BY <1>1, <2>1, PlaceOnto
  <2> HIDE DEF s, d, h
  <2>3. h \in HeadSet /\ d \in DimSet
    BY <2>2 DEF HeadSet, DimSet
  <2>4. i = Index(h, s, d, bucket, format)
    BY <1>3, <2>2, <2>3, IndexIs
  <2> QED BY <2>2, <2>3, <2>4
<1>4. CASE format # "NHWC"
  <2> DEFINE h == First(bucket, HeadDim, i)
             s == Second(bucket, HeadDim, i)
             d == Third(HeadDim, i)
  <2>2. h \in 0 .. Heads - 1 /\ s \in 0 .. bucket - 1 /\ d \in 0 .. HeadDim - 1
        /\ i = Place(bucket, HeadDim, h, s, d)
    BY <1>1, PlaceOnto
  <2> HIDE DEF s, d, h
  <2>3. h \in HeadSet /\ d \in DimSet
    BY <2>2 DEF HeadSet, DimSet
  <2>4. i = Index(h, s, d, bucket, format)
    BY <1>4, <2>2, <2>3, IndexIs DEF Spot
  <2> QED BY <2>2, <2>3, <2>4
<1> QED BY <1>3, <1>4

(* No two cells share one.                                                 *)
LEMMA IndexOne ==
  ASSUME NEW bucket \in Nat, NEW format,
         NEW h \in HeadSet, NEW s \in 0 .. bucket - 1, NEW d \in DimSet,
         NEW h2 \in HeadSet, NEW s2 \in 0 .. bucket - 1, NEW d2 \in DimSet,
         Index(h, s, d, bucket, format) = Index(h2, s2, d2, bucket, format)
  PROVE  h = h2 /\ s = s2 /\ d = d2
<1>1. Heads \in Nat /\ HeadDim \in Nat
  BY SizeAssumption
<1>2. /\ h \in 0 .. Heads - 1 /\ h2 \in 0 .. Heads - 1
      /\ d \in 0 .. HeadDim - 1 /\ d2 \in 0 .. HeadDim - 1
  BY DEF HeadSet, DimSet
<1>3. CASE format = "NHWC"
  <2>1. Place(HeadDim, Heads, s, d, h) = Place(HeadDim, Heads, s2, d2, h2)
    BY <1>3, IndexIs
  <2>2. /\ First(HeadDim, Heads, Place(HeadDim, Heads, s, d, h)) = s
        /\ Second(HeadDim, Heads, Place(HeadDim, Heads, s, d, h)) = d
        /\ Third(Heads, Place(HeadDim, Heads, s, d, h)) = h
    BY <1>1, <1>2, PlaceGives
  <2>3. /\ First(HeadDim, Heads, Place(HeadDim, Heads, s2, d2, h2)) = s2
        /\ Second(HeadDim, Heads, Place(HeadDim, Heads, s2, d2, h2)) = d2
        /\ Third(Heads, Place(HeadDim, Heads, s2, d2, h2)) = h2
    BY <1>1, <1>2, PlaceGives
  <2> QED BY <2>1, <2>2, <2>3
<1>4. CASE format # "NHWC"
  <2>1. Spot(bucket, h, s, d) = Spot(bucket, h2, s2, d2)
    BY <1>4, IndexIs
  <2>2. /\ First(bucket, HeadDim, Spot(bucket, h, s, d)) = h
        /\ Second(bucket, HeadDim, Spot(bucket, h, s, d)) = s
        /\ Third(HeadDim, Spot(bucket, h, s, d)) = d
    BY <1>1, <1>2, PlaceGives DEF Spot
  <2>3. /\ First(bucket, HeadDim, Spot(bucket, h2, s2, d2)) = h2
        /\ Second(bucket, HeadDim, Spot(bucket, h2, s2, d2)) = s2
        /\ Third(HeadDim, Spot(bucket, h2, s2, d2)) = d2
    BY <1>1, <1>2, PlaceGives DEF Spot
  <2> QED BY <2>1, <2>2, <2>3
<1> QED BY <1>3, <1>4

-----------------------------------------------------------------------------
(* What a context is given for a layer: its positions, padded, in the      *)
(* layout of the chunk.                                                    *)
NativeK(number, past, bucket, format) ==
  RknnLayout(PaddedOf(number, past, bucket), bucket, format)

(* A change of layout loses no cell.                                       *)
LEMMA LayoutAt ==
  ASSUME NEW k, NEW bucket \in Nat, NEW format, IsBuffer(k, Heads * bucket * HeadDim)
  PROVE  /\ IsBuffer(RknnLayout(k, bucket, format), Heads * bucket * HeadDim)
         /\ \A h \in HeadSet, s \in 0 .. bucket - 1, d \in DimSet :
              RknnLayout(k, bucket, format)[Index(h, s, d, bucket, format)] = k[Spot(bucket, h, s, d)]
<1>1. Heads \in Nat /\ HeadDim \in Nat
  BY SizeAssumption
<1>2. CASE format # "NHWC"
  <2>1. RknnLayout(k, bucket, format) = k
    BY <1>2 DEF RknnLayout
  <2>2. \A h \in HeadSet, s \in 0 .. bucket - 1, d \in DimSet :
          Index(h, s, d, bucket, format) = Spot(bucket, h, s, d)
    BY <1>2, IndexIs
  <2> QED BY <2>1, <2>2
<1>3. CASE format = "NHWC"
  <2> DEFINE size == Heads * bucket * HeadDim
             F == [q \in Cube(bucket, HeadDim, Heads) |-> k[Spot(bucket, q[3], q[1], q[2])]]
             g == FlatOf(bucket, HeadDim, Heads, F)
             head == Flat(bucket, HeadDim, Heads, LAMBDA s, d, h : CacheCell(k, bucket, h, s, d))
  <2>1. bucket * HeadDim * Heads = size /\ size \in Nat
    BY <1>1
  <2>2. /\ IsBuffer(g, bucket * HeadDim * Heads)
        /\ \A s \in 0 .. bucket - 1, d \in 0 .. HeadDim - 1, h \in 0 .. Heads - 1 :
             g[Place(HeadDim, Heads, s, d, h)] = F[<<s, d, h>>]
    <3> HIDE DEF F
    <3> QED BY <1>1, FlatAt
  <2>3. head = g
    <3>1. \A i \in 1 .. bucket * HeadDim * Heads : head[i] = g[i]
      <4> TAKE i \in 1 .. bucket * HeadDim * Heads
      <4> DEFINE t == <<First(HeadDim, Heads, i), Second(HeadDim, Heads, i), Third(Heads, i)>>
      <4>1. head[i] = k[Spot(bucket, t[3], t[1], t[2])]
        BY DEF Flat, CacheCell, First, Second, Third, Spot, Place
      <4>2. t \in Cube(bucket, HeadDim, Heads)
        BY <1>1, PlaceOnto DEF Cube
      <4>3. g[i] = F[t]
        BY DEF FlatOf
      <4> QED BY <4>1, <4>2, <4>3
    <3>2. IsBuffer(head, bucket * HeadDim * Heads)
      BY DEF IsBuffer, Flat
    <3> HIDE DEF head, g
    <3> QED BY <2>2, <3>1, <3>2 DEF IsBuffer
  <2>4. RknnLayout(k, bucket, format) = head \o [i \in 1 .. Len(k) - Len(head) |-> Zero]
    BY <1>3 DEF RknnLayout
  <2> HIDE DEF head, g, F, size
  <2>5. Len(k) = size /\ Len(head) = size /\ \E S : head \in Seq(S)
    <3>1. IsBuffer(k, size) /\ IsBuffer(head, size)
      BY <2>1, <2>2, <2>3 DEF size
    <3> QED BY <2>1, <3>1, BufferIsSequence
  <2>6. [i \in 1 .. Len(k) - Len(head) |-> Zero] = <<>>
    BY <2>1, <2>5
  <2>7. RknnLayout(k, bucket, format) = g
    BY <2>3, <2>4, <2>5, <2>6, ConcatEmptySeq
  <2>8. IsBuffer(RknnLayout(k, bucket, format), Heads * bucket * HeadDim)
    BY <2>1, <2>2, <2>7 DEF size
  <2>9. ASSUME NEW h \in HeadSet, NEW s \in 0 .. bucket - 1, NEW d \in DimSet
        PROVE  RknnLayout(k, bucket, format)[Index(h, s, d, bucket, format)] = k[Spot(bucket, h, s, d)]
    <3>1. Index(h, s, d, bucket, format) = Place(HeadDim, Heads, s, d, h)
      BY <1>3, IndexIs
    <3>2. g[Place(HeadDim, Heads, s, d, h)] = F[<<s, d, h>>]
      BY <2>2 DEF HeadSet, DimSet
    <3>3. F[<<s, d, h>>] = k[Spot(bucket, h, s, d)]
      BY DEF F, Cube, HeadSet, DimSet
    <3> QED BY <2>7, <3>1, <3>2, <3>3
  <2> QED BY <2>8, <2>9
<1> QED BY <1>2, <1>3

(* The positions, then zeros, each at its index.                           *)
LEMMA NativeAt ==
  ASSUME NEW number, NEW past \in Nat, NEW bucket \in Nat, bucket >= past, NEW format
  PROVE  /\ IsBuffer(NativeK(number, past, bucket, format), Heads * bucket * HeadDim)
         /\ \A h \in HeadSet, s \in 0 .. bucket - 1, d \in DimSet :
              NativeK(number, past, bucket, format)[Index(h, s, d, bucket, format)] =
                IF s < past THEN <<number, h, s, d>> ELSE Zero
<1> DEFINE k == PaddedOf(number, past, bucket)
<1>1. /\ IsBuffer(k, Heads * bucket * HeadDim)
      /\ \A h \in HeadSet, s \in 0 .. bucket - 1, d \in DimSet :
           k[Spot(bucket, h, s, d)] = IF s < past THEN <<number, h, s, d>> ELSE Zero
  BY PaddedOfAt
<1>2. NativeK(number, past, bucket, format) = RknnLayout(k, bucket, format)
  BY DEF NativeK
<1> HIDE DEF k
<1>3. /\ IsBuffer(RknnLayout(k, bucket, format), Heads * bucket * HeadDim)
      /\ \A h \in HeadSet, s \in 0 .. bucket - 1, d \in DimSet :
           RknnLayout(k, bucket, format)[Index(h, s, d, bucket, format)] = k[Spot(bucket, h, s, d)]
  BY <1>1, LayoutAt
<1> QED BY <1>1, <1>2, <1>3

(* The entries of one position.                                            *)
IsDelta(delta, number, past) ==
  \A h \in HeadSet, d \in DimSet : delta[h * HeadDim + d + 1] = <<number, h, past, d>>

(* The new position, written in place, makes the buffer of one more.       *)
LEMMA WrittenIsNative ==
  ASSUME NEW number, NEW past \in Nat, NEW bucket \in Nat, past < bucket, NEW format,
         NEW delta, IsDelta(delta, number, past)
  PROVE  WrittenAt(NativeK(number, past, bucket, format), delta, past, bucket, format) =
           NativeK(number, past + 1, bucket, format)
<1> DEFINE k == NativeK(number, past, bucket, format)
           w == WrittenAt(k, delta, past, bucket, format)
           g == NativeK(number, past + 1, bucket, format)
           size == Heads * bucket * HeadDim
           Is(h, d, i) == Index(h, past, d, bucket, format) = i
<1>a. bucket >= past
  OBVIOUS
<1>b. bucket >= past + 1 /\ past + 1 \in Nat
  OBVIOUS
<1>1. /\ IsBuffer(k, size)
      /\ \A h \in HeadSet, s \in 0 .. bucket - 1, d \in DimSet :
           k[Index(h, s, d, bucket, format)] = IF s < past THEN <<number, h, s, d>> ELSE Zero
  BY <1>a, NativeAt
<1>2. /\ IsBuffer(g, size)
      /\ \A h \in HeadSet, s \in 0 .. bucket - 1, d \in DimSet :
           g[Index(h, s, d, bucket, format)] = IF s < past + 1 THEN <<number, h, s, d>> ELSE Zero
  <2> DEFINE n == past + 1
  <2>1. n \in Nat /\ bucket >= n
    BY <1>b
  <2> HIDE DEF n
  <2>2. /\ IsBuffer(NativeK(number, n, bucket, format), Heads * bucket * HeadDim)
        /\ \A h \in HeadSet, s \in 0 .. bucket - 1, d \in DimSet :
             NativeK(number, n, bucket, format)[Index(h, s, d, bucket, format)] =
               IF s < n THEN <<number, h, s, d>> ELSE Zero
    BY <2>1, NativeAt
  <2> QED BY <2>2 DEF n
<1>3. past \in 0 .. bucket - 1
  OBVIOUS
<1> HIDE DEF k, g
<1>4. DOMAIN k = 1 .. size
  BY <1>1 DEF IsBuffer
<1>5. w = [i \in 1 .. size |->
             IF \E h \in 0 .. Heads - 1, d \in 0 .. HeadDim - 1 : Is(h, d, i)
             THEN LET p == CHOOSE p \in (0 .. Heads - 1) \X (0 .. HeadDim - 1) : Is(p[1], p[2], i)
                  IN  delta[p[1] * HeadDim + p[2] + 1]
             ELSE k[i]]
  BY <1>4 DEF WrittenAt
<1>6. IsBuffer(w, size)
  <2> HIDE DEF w
  <2> QED BY <1>5 DEF IsBuffer
<1>7. ASSUME NEW i \in 1 .. size
      PROVE  w[i] = g[i]
  <2>1. PICK h \in HeadSet, s \in 0 .. bucket - 1, d \in DimSet : i = Index(h, s, d, bucket, format)
    BY IndexOnto
  <2>2. CASE s = past
    <3> DEFINE p == CHOOSE p \in (0 .. Heads - 1) \X (0 .. HeadDim - 1) : Is(p[1], p[2], i)
    <3>1. \E q \in (0 .. Heads - 1) \X (0 .. HeadDim - 1) : Is(q[1], q[2], i)
      <4>1. <<h, d>> \in (0 .. Heads - 1) \X (0 .. HeadDim - 1) /\ Is(<<h, d>>[1], <<h, d>>[2], i)
        BY <2>1, <2>2 DEF HeadSet, DimSet
      <4> QED BY <4>1
    <3>2. p \in (0 .. Heads - 1) \X (0 .. HeadDim - 1) /\ Is(p[1], p[2], i)
      BY <3>1
    <3>3. p[1] \in HeadSet /\ p[2] \in DimSet
      BY <3>2 DEF HeadSet, DimSet
    <3>4. p[1] = h /\ p[2] = d
      <4> HIDE DEF p
      <4> QED BY <1>3, <2>1, <2>2, <3>2, <3>3, IndexOne
    <3>5. \E h2 \in 0 .. Heads - 1, d2 \in 0 .. HeadDim - 1 : Is(h2, d2, i)
      BY <2>1, <2>2 DEF HeadSet, DimSet
    <3>6. w[i] = delta[p[1] * HeadDim + p[2] + 1]
      <4> HIDE DEF w, Is
      <4> QED BY <1>5, <3>5
    <3>7. w[i] = <<number, h, past, d>>
      <4> HIDE DEF p, w
      <4>1. delta[h * HeadDim + d + 1] = <<number, h, past, d>>
        BY DEF IsDelta
      <4> QED BY <3>4, <3>6, <4>1
    <3>8. g[i] = <<number, h, past, d>>
      <4>1. s < past + 1
        BY <2>2
      <4> HIDE DEF size
      <4> QED BY <1>2, <2>1, <2>2, <4>1
    <3> QED BY <3>7, <3>8
  <2>3. CASE s # past
    <3>1. ~ \E h2 \in 0 .. Heads - 1, d2 \in 0 .. HeadDim - 1 : Is(h2, d2, i)
      <4> SUFFICES ASSUME NEW h2 \in HeadSet, NEW d2 \in DimSet, Is(h2, d2, i)
                   PROVE  FALSE
        BY DEF HeadSet, DimSet
      <4> QED BY <1>3, <2>1, <2>3, IndexOne
    <3>2. w[i] = k[i]
      <4> HIDE DEF w, Is
      <4> QED BY <1>5, <3>1
    <3>3. s < past <=> s < past + 1
      BY <2>3
    <3> QED BY <1>1, <1>2, <2>1, <3>2, <3>3
  <2> QED BY <2>2, <2>3
<1> HIDE DEF w, size
<1>8. w = g
  BY <1>2, <1>6, <1>7 DEF IsBuffer
<1> QED BY <1>8 DEF w, k, g

-----------------------------------------------------------------------------
(* A buffer whose cell at each place is that of its coordinates holds the  *)
(* positions.                                                              *)
LEMMA AllPositions ==
  ASSUME NEW number, NEW n \in Nat, NEW f, IsBuffer(f, Heads * n * HeadDim),
         \A i \in 1 .. Heads * n * HeadDim :
           f[i] = <<number, First(n, HeadDim, i), Second(n, HeadDim, i), Third(HeadDim, i)>>
  PROVE  f = PositionsOf(number, n)
<1>1. Heads \in Nat /\ HeadDim \in Nat
  BY SizeAssumption
<1>2. ASSUME NEW h \in HeadSet, NEW s \in 0 .. n - 1, NEW d \in DimSet
      PROVE  f[Spot(n, h, s, d)] = <<number, h, s, d>>
  <2> DEFINE i == Spot(n, h, s, d)
  <2>1. i \in 1 .. Heads * n * HeadDim /\ First(n, HeadDim, i) = h
        /\ Second(n, HeadDim, i) = s /\ Third(HeadDim, i) = d
    BY SpotIs
  <2> HIDE DEF i
  <2> QED BY <2>1 DEF i
<1> QED BY <1>2, ArePositions DEF HasPositions

(* One position more.                                                      *)
LEMMA AppendedIs ==
  ASSUME NEW number, NEW old \in Nat, NEW delta, IsDelta(delta, number, old)
  PROVE  Appended(PositionsOf(number, old), delta, old) = PositionsOf(number, old + 1)
<1> DEFINE k == PositionsOf(number, old)
           f == Appended(k, delta, old)
           size == Heads * (old + 1) * HeadDim
<1>1. Heads \in Nat /\ HeadDim \in Nat /\ old + 1 \in Nat
  BY SizeAssumption
<1>2. \A h \in HeadSet, s \in 0 .. old - 1, d \in DimSet : k[Spot(old, h, s, d)] = <<number, h, s, d>>
  BY PositionsAt
<1> HIDE DEF k
<1>3. IsBuffer(f, size)
  BY DEF IsBuffer, Appended, Flat
<1>4. ASSUME NEW i \in 1 .. size
      PROVE  f[i] = <<number, First(old + 1, HeadDim, i), Second(old + 1, HeadDim, i), Third(HeadDim, i)>>
  <2> DEFINE h == First(old + 1, HeadDim, i)
             s == Second(old + 1, HeadDim, i)
             d == Third(HeadDim, i)
  <2>1. f[i] = IF s < old THEN k[Spot(old, h, s, d)] ELSE delta[h * HeadDim + d + 1]
    BY DEF Appended, Flat, CacheCell, First, Second, Third, Spot, Place
  <2>2. h \in HeadSet /\ s \in 0 .. (old + 1) - 1 /\ d \in DimSet
    BY <1>1, PlaceOnto DEF HeadSet, DimSet
  <2> HIDE DEF f, h, s, d
  <2>3. CASE s < old
    <3>1. s \in 0 .. old - 1
      BY <2>2, <2>3
    <3> QED BY <1>2, <2>1, <2>2, <2>3, <3>1 DEF h, s, d
  <2>4. CASE ~ (s < old)
    <3>1. s = old
      BY <2>2, <2>4
    <3>2. delta[h * HeadDim + d + 1] = <<number, h, old, d>>
      BY <2>2 DEF IsDelta
    <3> QED BY <2>1, <2>4, <3>1, <3>2 DEF h, s, d
  <2> QED BY <2>3, <2>4
<1> HIDE DEF f
<1>5. f = PositionsOf(number, old + 1)
  BY <1>1, <1>3, <1>4, AllPositions
<1> QED BY <1>5 DEF f, k

(* All of them.                                                            *)
LEMMA TruncatedIs ==
  ASSUME NEW number, NEW n \in Nat
  PROVE  Truncated(PositionsOf(number, n), n, n) = PositionsOf(number, n)
<1> DEFINE k == PositionsOf(number, n)
           f == Truncated(k, n, n)
           size == Heads * n * HeadDim
<1>1. Heads \in Nat /\ HeadDim \in Nat
  BY SizeAssumption
<1>2. \A h \in HeadSet, s \in 0 .. n - 1, d \in DimSet : k[Spot(n, h, s, d)] = <<number, h, s, d>>
  BY PositionsAt
<1> HIDE DEF k
<1>3. IsBuffer(f, size)
  BY DEF IsBuffer, Truncated, Flat
<1>4. ASSUME NEW i \in 1 .. size
      PROVE  f[i] = <<number, First(n, HeadDim, i), Second(n, HeadDim, i), Third(HeadDim, i)>>
  <2>1. f[i] = k[Spot(n, First(n, HeadDim, i), Second(n, HeadDim, i), Third(HeadDim, i))]
    BY DEF Truncated, Flat, CacheCell, First, Second, Third, Spot, Place
  <2>2. First(n, HeadDim, i) \in HeadSet /\ Second(n, HeadDim, i) \in 0 .. n - 1
        /\ Third(HeadDim, i) \in DimSet
    BY <1>1, PlaceOnto DEF HeadSet, DimSet
  <2> QED BY <1>2, <2>1, <2>2
<1> HIDE DEF f
<1>5. f = PositionsOf(number, n)
  BY <1>3, <1>4, AllPositions
<1> QED BY <1>5 DEF f, k

-----------------------------------------------------------------------------
(* Where an output has a cell.                                             *)
OutPlace(seq, layout, h, s, d) ==
  IF layout = "SeqDimHead" THEN Place(HeadDim, Heads, s, d, h) ELSE Spot(seq, h, s, d)

(* The cache layout of an output has its cells.                            *)
LEMMA CacheLayoutAt ==
  ASSUME NEW out, NEW seq \in Nat, NEW layout, IsBuffer(out, Heads * seq * HeadDim)
  PROVE  /\ IsBuffer(CacheLayout(out, seq, layout), Heads * seq * HeadDim)
         /\ \A h \in HeadSet, s \in 0 .. seq - 1, d \in DimSet :
              CacheLayout(out, seq, layout)[Spot(seq, h, s, d)] = out[OutPlace(seq, layout, h, s, d)]
<1>1. Heads \in Nat /\ HeadDim \in Nat
  BY SizeAssumption
<1>2. CASE layout # "SeqDimHead"
  BY <1>2 DEF CacheLayout, OutPlace
<1>3. CASE layout = "SeqDimHead"
  <2> DEFINE f == CacheLayout(out, seq, layout)
             size == Heads * seq * HeadDim
  <2>1. IsBuffer(f, size)
    BY <1>3 DEF IsBuffer, CacheLayout, Flat
  <2>2. ASSUME NEW h \in HeadSet, NEW s \in 0 .. seq - 1, NEW d \in DimSet
        PROVE  f[Spot(seq, h, s, d)] = out[OutPlace(seq, layout, h, s, d)]
    <3> DEFINE i == Spot(seq, h, s, d)
    <3>1. i \in 1 .. size /\ First(seq, HeadDim, i) = h
          /\ Second(seq, HeadDim, i) = s /\ Third(HeadDim, i) = d
      BY SpotIs
    <3> HIDE DEF i
    <3>2. f[i] = out[Place(HeadDim, Heads, Second(seq, HeadDim, i), Third(HeadDim, i), First(seq, HeadDim, i))]
      BY <1>3, <3>1 DEF CacheLayout, Flat, First, Second, Third, Place
    <3> HIDE DEF f
    <3> QED BY <1>3, <3>1, <3>2 DEF i, OutPlace
  <2> QED BY <2>1, <2>2
<1> QED BY <1>2, <1>3

(* The output of a prefill chunk.                                          *)
PrefillOut(number, n, layout) ==
  RknnOut(LAMBDA h, s, d : IF s < n THEN <<number, h, s, d>> ELSE Zero, n, layout)

(* It has the positions of the prompt, and padding behind them.            *)
LEMMA PrefillOutAt ==
  ASSUME NEW number, NEW n \in Nat, NEW layout
  PROVE  /\ IsBuffer(PrefillOut(number, n, layout), Heads * n * HeadDim)
         /\ \A h \in HeadSet, s \in 0 .. n - 1, d \in DimSet :
              PrefillOut(number, n, layout)[OutPlace(n, layout, h, s, d)] =
                IF s < n THEN <<number, h, s, d>> ELSE Zero
<1> DEFINE f == PrefillOut(number, n, layout)
           seq == n
<1>1. Heads \in Nat /\ HeadDim \in Nat /\ seq \in Nat
  BY SizeAssumption
<1>2. seq * HeadDim * Heads = Heads * seq * HeadDim
  <2> HIDE DEF seq
  <2> QED BY <1>1
<1>3. IsBuffer(f, Heads * seq * HeadDim)
  <2>1. CASE layout = "SeqDimHead"
    <3>1. IsBuffer(f, seq * HeadDim * Heads)
      BY <2>1 DEF IsBuffer, RknnOut, Flat, PrefillOut
    <3> HIDE DEF f, seq
    <3> QED BY <1>2, <3>1
  <2>2. CASE layout # "SeqDimHead"
    BY <2>2 DEF IsBuffer, RknnOut, Flat, PrefillOut
  <2> QED BY <2>1, <2>2
<1>4. ASSUME NEW h \in HeadSet, NEW s \in 0 .. seq - 1, NEW d \in DimSet
      PROVE  f[OutPlace(seq, layout, h, s, d)] = IF s < n THEN <<number, h, s, d>> ELSE Zero
  <2>1. CASE layout = "SeqDimHead"
    <3> DEFINE i == SeqSpot(seq, h, s, d)
    <3>1. i \in 1 .. seq * HeadDim * Heads /\ First(HeadDim, Heads, i) = s
          /\ Second(HeadDim, Heads, i) = d /\ Third(Heads, i) = h
      <4> HIDE DEF seq
      <4> QED BY <1>1, SeqSpotIs
    <3> HIDE DEF i
    <3> DEFINE s2 == First(HeadDim, Heads, i)
               d2 == Second(HeadDim, Heads, i)
               h2 == Third(Heads, i)
    <3>2. f[i] = IF s2 < n THEN <<number, h2, s2, d2>> ELSE Zero
      BY <2>1, <3>1 DEF PrefillOut, RknnOut, Flat, First, Second, Third
    <3>3. OutPlace(seq, layout, h, s, d) = i
      BY <2>1 DEF OutPlace, SeqSpot, i
    <3> HIDE DEF f, seq
    <3> QED BY <3>1, <3>2, <3>3
  <2>2. CASE layout # "SeqDimHead"
    <3> DEFINE i == Spot(seq, h, s, d)
    <3>1. i \in 1 .. Heads * seq * HeadDim /\ First(seq, HeadDim, i) = h
          /\ Second(seq, HeadDim, i) = s /\ Third(HeadDim, i) = d
      <4> HIDE DEF seq
      <4> QED BY <1>1, SpotIs
    <3> HIDE DEF i
    <3> DEFINE h2 == First(seq, HeadDim, i)
               s2 == Second(seq, HeadDim, i)
               d2 == Third(HeadDim, i)
    <3>2. f[i] = IF s2 < n THEN <<number, h2, s2, d2>> ELSE Zero
      BY <2>2, <3>1 DEF PrefillOut, RknnOut, Flat, First, Second, Third
    <3>3. OutPlace(seq, layout, h, s, d) = i
      BY <2>2 DEF OutPlace, i
    <3> HIDE DEF f, seq
    <3> QED BY <3>1, <3>2, <3>3
  <2> QED BY <2>1, <2>2
<1> QED BY <1>3, <1>4

(* The output of a decode chunk with all positions.                        *)
FullOut(number, past, native, layout) ==
  RknnOut(LAMBDA h, s, d : IF s < native.bucket THEN Read(native, h, s, d)
                            ELSE <<number, h, past, d>>, native.bucket + 1, layout)

(* The positions of the input come first, then the new one.                *)
LEMMA FullOutAt ==
  ASSUME NEW number, NEW past, NEW native, native.bucket \in Nat, NEW layout
  PROVE  /\ IsBuffer(FullOut(number, past, native, layout), Heads * (native.bucket + 1) * HeadDim)
         /\ \A h \in HeadSet, s \in 0 .. (native.bucket + 1) - 1, d \in DimSet :
              FullOut(number, past, native, layout)[OutPlace(native.bucket + 1, layout, h, s, d)] =
                IF s < native.bucket THEN Read(native, h, s, d) ELSE <<number, h, past, d>>
<1> DEFINE f == FullOut(number, past, native, layout)
           seq == native.bucket + 1
<1>1. Heads \in Nat /\ HeadDim \in Nat /\ seq \in Nat
  BY SizeAssumption
<1>2. seq * HeadDim * Heads = Heads * seq * HeadDim
  <2> HIDE DEF seq
  <2> QED BY <1>1
<1>3. IsBuffer(f, Heads * seq * HeadDim)
  <2>1. CASE layout = "SeqDimHead"
    <3>1. IsBuffer(f, seq * HeadDim * Heads)
      BY <2>1 DEF IsBuffer, RknnOut, Flat, FullOut
    <3> HIDE DEF f, seq
    <3> QED BY <1>2, <3>1
  <2>2. CASE layout # "SeqDimHead"
    BY <2>2 DEF IsBuffer, RknnOut, Flat, FullOut
  <2> QED BY <2>1, <2>2
<1>4. ASSUME NEW h \in HeadSet, NEW s \in 0 .. seq - 1, NEW d \in DimSet
      PROVE  f[OutPlace(seq, layout, h, s, d)] = IF s < native.bucket THEN Read(native, h, s, d) ELSE <<number, h, past, d>>
  <2>1. CASE layout = "SeqDimHead"
    <3> DEFINE i == SeqSpot(seq, h, s, d)
    <3>1. i \in 1 .. seq * HeadDim * Heads /\ First(HeadDim, Heads, i) = s
          /\ Second(HeadDim, Heads, i) = d /\ Third(Heads, i) = h
      <4> HIDE DEF seq
      <4> QED BY <1>1, SeqSpotIs
    <3> HIDE DEF i
    <3> DEFINE s2 == First(HeadDim, Heads, i)
               d2 == Second(HeadDim, Heads, i)
               h2 == Third(Heads, i)
    <3>2. f[i] = IF s2 < native.bucket THEN Read(native, h2, s2, d2) ELSE <<number, h2, past, d2>>
      BY <2>1, <3>1 DEF FullOut, RknnOut, Flat, First, Second, Third
    <3>3. OutPlace(seq, layout, h, s, d) = i
      BY <2>1 DEF OutPlace, SeqSpot, i
    <3> HIDE DEF f, seq
    <3> QED BY <3>1, <3>2, <3>3
  <2>2. CASE layout # "SeqDimHead"
    <3> DEFINE i == Spot(seq, h, s, d)
    <3>1. i \in 1 .. Heads * seq * HeadDim /\ First(seq, HeadDim, i) = h
          /\ Second(seq, HeadDim, i) = s /\ Third(HeadDim, i) = d
      <4> HIDE DEF seq
      <4> QED BY <1>1, SpotIs
    <3> HIDE DEF i
    <3> DEFINE h2 == First(seq, HeadDim, i)
               s2 == Second(seq, HeadDim, i)
               d2 == Third(HeadDim, i)
    <3>2. f[i] = IF s2 < native.bucket THEN Read(native, h2, s2, d2) ELSE <<number, h2, past, d2>>
      BY <2>2, <3>1 DEF FullOut, RknnOut, Flat, First, Second, Third
    <3>3. OutPlace(seq, layout, h, s, d) = i
      BY <2>2 DEF OutPlace, i
    <3> HIDE DEF f, seq
    <3> QED BY <3>1, <3>2, <3>3
  <2> QED BY <2>1, <2>2
<1> QED BY <1>3, <1>4

(* The output of a decode chunk with the new position only.                *)
DeltaOut(number, past, layout) ==
  RknnOut(LAMBDA h, s, d : <<number, h, past, d>>, 1, layout)

(* It has that position of every head.                                     *)
LEMMA DeltaOutAt ==
  ASSUME NEW number, NEW past, NEW layout
  PROVE  /\ IsBuffer(DeltaOut(number, past, layout), Heads * 1 * HeadDim)
         /\ \A h \in HeadSet, s \in 0 .. 1 - 1, d \in DimSet :
              DeltaOut(number, past, layout)[OutPlace(1, layout, h, s, d)] =
                <<number, h, past, d>>
<1> DEFINE f == DeltaOut(number, past, layout)
           seq == 1
<1>1. Heads \in Nat /\ HeadDim \in Nat /\ seq \in Nat
  BY SizeAssumption
<1>2. seq * HeadDim * Heads = Heads * seq * HeadDim
  <2> HIDE DEF seq
  <2> QED BY <1>1
<1>3. IsBuffer(f, Heads * seq * HeadDim)
  <2>1. CASE layout = "SeqDimHead"
    <3>1. IsBuffer(f, seq * HeadDim * Heads)
      BY <2>1 DEF IsBuffer, RknnOut, Flat, DeltaOut
    <3> HIDE DEF f, seq
    <3> QED BY <1>2, <3>1
  <2>2. CASE layout # "SeqDimHead"
    BY <2>2 DEF IsBuffer, RknnOut, Flat, DeltaOut
  <2> QED BY <2>1, <2>2
<1>4. ASSUME NEW h \in HeadSet, NEW s \in 0 .. seq - 1, NEW d \in DimSet
      PROVE  f[OutPlace(seq, layout, h, s, d)] = <<number, h, past, d>>
  <2>1. CASE layout = "SeqDimHead"
    <3> DEFINE i == SeqSpot(seq, h, s, d)
    <3>1. i \in 1 .. seq * HeadDim * Heads /\ First(HeadDim, Heads, i) = s
          /\ Second(HeadDim, Heads, i) = d /\ Third(Heads, i) = h
      <4> HIDE DEF seq
      <4> QED BY <1>1, SeqSpotIs
    <3> HIDE DEF i
    <3> DEFINE s2 == First(HeadDim, Heads, i)
               d2 == Second(HeadDim, Heads, i)
               h2 == Third(Heads, i)
    <3>2. f[i] = <<number, h2, past, d2>>
      BY <2>1, <3>1 DEF DeltaOut, RknnOut, Flat, First, Second, Third
    <3>3. OutPlace(seq, layout, h, s, d) = i
      BY <2>1 DEF OutPlace, SeqSpot, i
    <3> HIDE DEF f, seq
    <3> QED BY <3>1, <3>2, <3>3
  <2>2. CASE layout # "SeqDimHead"
    <3> DEFINE i == Spot(seq, h, s, d)
    <3>1. i \in 1 .. Heads * seq * HeadDim /\ First(seq, HeadDim, i) = h
          /\ Second(seq, HeadDim, i) = s /\ Third(HeadDim, i) = d
      <4> HIDE DEF seq
      <4> QED BY <1>1, SpotIs
    <3> HIDE DEF i
    <3> DEFINE h2 == First(seq, HeadDim, i)
               s2 == Second(seq, HeadDim, i)
               d2 == Third(HeadDim, i)
    <3>2. f[i] = <<number, h2, past, d2>>
      BY <2>2, <3>1 DEF DeltaOut, RknnOut, Flat, First, Second, Third
    <3>3. OutPlace(seq, layout, h, s, d) = i
      BY <2>2 DEF OutPlace, i
    <3> HIDE DEF f, seq
    <3> QED BY <3>1, <3>2, <3>3
  <2> QED BY <2>1, <2>2
<1> QED BY <1>3, <1>4

-----------------------------------------------------------------------------
(* Entries.  Positions are cells.                                          *)
LEMMA PositionsSeq ==
  ASSUME NEW number \in Nat, NEW n \in Nat
  PROVE  /\ PositionsOf(number, n) \in Seq(Cells)
         /\ Len(PositionsOf(number, n)) = Heads * n * HeadDim
         /\ \A i \in 1 .. Heads * n * HeadDim : PositionsOf(number, n)[i] \in Cells
<1> DEFINE f == PositionsOf(number, n)
           size == Heads * n * HeadDim
<1>1. Heads \in Nat /\ HeadDim \in Nat /\ size \in Nat
  BY SizeAssumption, ProductNat
<1>2. IsBuffer(f, size) /\ \A h \in HeadSet, s \in 0 .. n - 1, d \in DimSet :
                             f[Spot(n, h, s, d)] = <<number, h, s, d>>
  BY PositionsAt
<1>3. ASSUME NEW i \in 1 .. size
      PROVE  f[i] \in Cells
  <2>1. PICK h \in HeadSet, s \in 0 .. n - 1, d \in DimSet : i = Index(h, s, d, n, "NCHW")
    BY IndexOnto
  <2>2. i = Spot(n, h, s, d)
    BY <2>1, IndexIs
  <2> HIDE DEF f
  <2>3. f[i] = <<number, h, s, d>>
    BY <1>2, <2>2
  <2>4. h \in Nat /\ s \in Nat /\ d \in Nat
    BY <1>1 DEF HeadSet, DimSet
  <2> QED BY <2>3, <2>4 DEF Cells
<1> HIDE DEF f, size
<1>4. f \in Seq(Cells) /\ Len(f) = size
  BY <1>1, <1>2, <1>3, BufferIsSeq
<1> QED BY <1>3, <1>4 DEF f, size

(* So is what a context is given, also from a bucket that is too short,    *)
(* where a change of layout keeps the length.                              *)
LEMMA NativeSeq ==
  ASSUME NEW number \in Nat, NEW past \in Nat, NEW bucket \in Nat, NEW format
  PROVE  NativeK(number, past, bucket, format) \in Seq(Cells)
<1> DEFINE size == Heads * bucket * HeadDim
<1>1. Heads \in Nat /\ HeadDim \in Nat /\ size \in Nat
  BY SizeAssumption, ProductNat
<1>2. CASE bucket >= past
  <2> DEFINE f == NativeK(number, past, bucket, format)
  <2>1. IsBuffer(f, size) /\ \A h \in HeadSet, s \in 0 .. bucket - 1, d \in DimSet :
          f[Index(h, s, d, bucket, format)] = IF s < past THEN <<number, h, s, d>> ELSE Zero
    BY <1>2, NativeAt
  <2>2. ASSUME NEW i \in 1 .. size
        PROVE  f[i] \in Cells
    <3>1. PICK h \in HeadSet, s \in 0 .. bucket - 1, d \in DimSet : i = Index(h, s, d, bucket, format)
      BY IndexOnto
    <3> HIDE DEF f
    <3>2. f[i] = IF s < past THEN <<number, h, s, d>> ELSE Zero
      BY <2>1, <3>1
    <3>3. h \in Nat /\ s \in Nat /\ d \in Nat
      BY <1>1 DEF HeadSet, DimSet
    <3> QED BY <3>2, <3>3 DEF Cells
  <2> HIDE DEF f, size
  <2>3. f \in Seq(Cells)
    BY <1>1, <2>1, <2>2, BufferIsSeq
  <2> QED BY <2>3 DEF f
<1>3. CASE bucket < past
  <2> DEFINE k == PositionsOf(number, past)
             head == Flat(bucket, HeadDim, Heads, LAMBDA s, d, h : CacheCell(k, bucket, h, s, d))
             whole == Heads * past * HeadDim
  <2>1. k \in Seq(Cells) /\ Len(k) = whole /\ whole \in Nat
        /\ \A i \in 1 .. whole : k[i] \in Cells
    BY <1>1, PositionsSeq, ProductNat
  <2>2. NativeK(number, past, bucket, format) = RknnLayout(k, bucket, format)
    <3>1. PaddedOf(number, past, bucket) = k
      BY <1>3, PaddedShort DEF PaddedOf
    <3> QED BY <3>1 DEF NativeK
  <2>3. CASE format # "NHWC"
    BY <2>1, <2>2, <2>3 DEF RknnLayout
  <2>4. CASE format = "NHWC"
    <3> HIDE DEF k
    <3>1. bucket * HeadDim * Heads = size
      BY <1>1
    <3>2. size <= whole
      <4>1. past - bucket \in Nat
        BY <1>3
      <4>2. Heads * (past - bucket) * HeadDim \in Nat
        BY <1>1, <4>1, ProductNat
      <4>3. whole = size + Heads * (past - bucket) * HeadDim
        BY <1>1
      <4> QED BY <1>1, <2>1, <4>2, <4>3
    <3>3. IsBuffer(head, bucket * HeadDim * Heads)
      BY DEF IsBuffer, Flat
    <3>4. ASSUME NEW i \in 1 .. bucket * HeadDim * Heads
          PROVE  head[i] \in Cells
      <4> DEFINE s == First(HeadDim, Heads, i)
                 d == Second(HeadDim, Heads, i)
                 h == Third(Heads, i)
      <4>1. head[i] = k[Spot(bucket, h, s, d)]
        BY DEF Flat, CacheCell, First, Second, Third, Spot, Place
      <4>2. s \in 0 .. bucket - 1 /\ d \in DimSet /\ h \in HeadSet
        BY <1>1, PlaceOnto DEF HeadSet, DimSet
      <4> HIDE DEF head, h, s, d
      <4>3. Spot(bucket, h, s, d) \in 1 .. size
        BY <4>2, SpotIs
      <4> HIDE DEF size, whole
      <4>4. Spot(bucket, h, s, d) \in 1 .. whole
        BY <1>1, <2>1, <3>2, <4>3
      <4> QED BY <2>1, <4>1, <4>4
    <3> HIDE DEF head, size, whole
    <3>5. head \in Seq(Cells) /\ Len(head) = size
      <4>1. IsBuffer(head, size) /\ \A i \in 1 .. size : head[i] \in Cells
        BY <3>1, <3>3, <3>4
      <4> QED BY <1>1, <4>1, BufferIsSeq
    <3>6. [i \in 1 .. Len(k) - Len(head) |-> Zero] \in Seq(Cells)
      <4>1. Len(k) - Len(head) \in Nat
        BY <1>1, <2>1, <3>2, <3>5
      <4> QED BY <4>1 DEF Cells
    <3>7. RknnLayout(k, bucket, format) = head \o [i \in 1 .. Len(k) - Len(head) |-> Zero]
      BY <2>4 DEF RknnLayout, head
    <3> QED BY <2>2, <3>5, <3>6, <3>7
  <2> QED BY <2>3, <2>4
<1> QED BY <1>1, <1>2, <1>3

(* An entry with the positions of a dialog, and with the buffers that a    *)
(* context was given.                                                      *)
Bare(number, past) == Entry(past, PositionsOf(number, past))

WithNative(number, past, bucket, format) ==
  [past |-> past, k |-> PositionsOf(number, past),
   native |-> [bucket |-> bucket, format |-> format,
               k |-> NativeK(number, past, bucket, format)]]

(* Such buffers are always those of the entry's own positions.             *)
EntryRight(entry, number, past) ==
  \/ entry = Bare(number, past)
  \/ \E bucket \in Nat, format \in {"NHWC", "NCHW"} :
       entry = WithNative(number, past, bucket, format)

(* What the rest of the code reads from one.                               *)
LEMMA EntryIs ==
  ASSUME NEW number \in Nat, NEW past \in Nat, NEW entry, EntryRight(entry, number, past)
  PROVE  entry # None /\ entry.past = past /\ entry.k = PositionsOf(number, past)
<1>1. PositionsOf(number, past) \in Seq(Cells)
  BY PositionsSeq
<1>2. CASE entry = Bare(number, past)
  BY <1>1, <1>2, NoneAssumption DEF Bare, Entry
<1>3. CASE \E bucket \in Nat, format \in {"NHWC", "NCHW"} : entry = WithNative(number, past, bucket, format)
  <2>1. PICK bucket \in Nat, format \in {"NHWC", "NCHW"} : entry = WithNative(number, past, bucket, format)
    BY <1>3
  <2>2. NativeK(number, past, bucket, format) \in Seq(Cells)
    BY NativeSeq
  <2> QED BY <1>1, <2>1, <2>2, NoneAssumption DEF WithNative
<1> QED BY <1>2, <1>3 DEF EntryRight

(* The buffers a chunk asks for are made, or those that are there are the  *)
(* same.                                                                   *)
LEMMA EnsuredIs ==
  ASSUME NEW number \in Nat, NEW past \in Nat, NEW entry, EntryRight(entry, number, past),
         NEW bucket, NEW format
  PROVE  Ensured(entry, bucket, format) = WithNative(number, past, bucket, format)
<1> DEFINE native == [bucket |-> bucket, format |-> format,
                      k |-> NativeK(number, past, bucket, format)]
<1>1. CASE entry = Bare(number, past)
  <2>1. entry = [past |-> past, k |-> PositionsOf(number, past), native |-> None]
    BY <1>1 DEF Bare, Entry
  <2>2. Ensured(entry, bucket, format) = [entry EXCEPT !.native = Native(entry, bucket, format)]
    BY <2>1 DEF Ensured
  <2>3. Native(entry, bucket, format) = native
    BY <2>1 DEF Native, NativeK, PaddedOf
  <2> HIDE DEF native
  <2>4. Ensured(entry, bucket, format) = [past |-> past, k |-> PositionsOf(number, past), native |-> native]
    BY <2>1, <2>2, <2>3
  <2> QED BY <2>4 DEF WithNative, native
<1>2. CASE \E b \in Nat, f \in {"NHWC", "NCHW"} : entry = WithNative(number, past, b, f)
  <2>1. PICK b \in Nat, f \in {"NHWC", "NCHW"} : entry = WithNative(number, past, b, f)
    BY <1>2
  <2>2. entry = [past |-> past, k |-> PositionsOf(number, past),
                 native |-> [bucket |-> b, format |-> f, k |-> NativeK(number, past, b, f)]]
    BY <2>1 DEF WithNative
  <2>3. CASE entry.native # None /\ entry.native.bucket = bucket /\ entry.native.format = format
    <3>1. b = bucket /\ f = format
      BY <2>2, <2>3
    <3> QED BY <2>1, <2>3, <3>1 DEF Ensured
  <2>4. CASE ~ (entry.native # None /\ entry.native.bucket = bucket /\ entry.native.format = format)
    <3>1. Ensured(entry, bucket, format) = [entry EXCEPT !.native = Native(entry, bucket, format)]
      BY <2>4 DEF Ensured
    <3>2. Native(entry, bucket, format) = native
      BY <2>2 DEF Native, NativeK, PaddedOf
    <3> HIDE DEF native
    <3>3. Ensured(entry, bucket, format) = [past |-> past, k |-> PositionsOf(number, past), native |-> native]
      BY <2>2, <3>1, <3>2
    <3> QED BY <3>3 DEF WithNative, native
  <2> QED BY <2>3, <2>4
<1> QED BY <1>1, <1>2 DEF EntryRight

(* A run behind which only the new position came out.                      *)
LEMMA DeltaUpdates ==
  ASSUME NEW number \in Nat, NEW past \in Nat, NEW bucket \in Nat, bucket >= past,
         NEW format \in {"NHWC", "NCHW"}, NEW layout
  PROVE  EntryRight(AppendedDelta(WithNative(number, past, bucket, format),
                                  CacheLayout(DeltaOut(number, past, layout), 1, layout)),
                    number, past + 1)
<1> DEFINE out == DeltaOut(number, past, layout)
           delta == CacheLayout(out, 1, layout)
           k == NativeK(number, past, bucket, format)
           new == AppendedDelta(WithNative(number, past, bucket, format), delta)
<1>1. Heads \in Nat /\ HeadDim \in Nat
  BY SizeAssumption
<1>2. IsDelta(delta, number, past)
  <2>1. /\ IsBuffer(out, Heads * 1 * HeadDim)
        /\ \A h \in HeadSet, s \in 0 .. 1 - 1, d \in DimSet :
             out[OutPlace(1, layout, h, s, d)] = <<number, h, past, d>>
    BY DeltaOutAt
  <2> HIDE DEF out
  <2> DEFINE one == 1
  <2>0. one \in Nat /\ one = 1
    OBVIOUS
  <2> HIDE DEF one
  <2>a. IsBuffer(out, Heads * one * HeadDim)
    BY <2>0, <2>1
  <2>b. /\ IsBuffer(CacheLayout(out, one, layout), Heads * one * HeadDim)
        /\ \A h \in HeadSet, s \in 0 .. one - 1, d \in DimSet :
             CacheLayout(out, one, layout)[Spot(one, h, s, d)] = out[OutPlace(one, layout, h, s, d)]
    BY <2>0, <2>a, CacheLayoutAt
  <2>2. \A h \in HeadSet, s \in 0 .. 1 - 1, d \in DimSet :
          delta[Spot(1, h, s, d)] = out[OutPlace(1, layout, h, s, d)]
    BY <2>0, <2>b
  <2> HIDE DEF delta
  <2> SUFFICES ASSUME NEW h \in HeadSet, NEW d \in DimSet
               PROVE  delta[h * HeadDim + d + 1] = <<number, h, past, d>>
    BY DEF IsDelta
  <2>3. 0 \in 0 .. 1 - 1
    OBVIOUS
  <2>4. delta[Spot(1, h, 0, d)] = <<number, h, past, d>>
    BY <2>1, <2>2, <2>3
  <2>5. Spot(1, h, 0, d) = h * HeadDim + d + 1
    <3>1. h \in Nat /\ d \in Nat
      BY <1>1 DEF HeadSet, DimSet
    <3> QED BY <1>1, <3>1 DEF Spot, Place
  <2> QED BY <2>4, <2>5
<1> HIDE DEF out, delta
<1>3. Appended(PositionsOf(number, past), delta, past) = PositionsOf(number, past + 1)
  BY <1>2, AppendedIs
<1>4. new = [past |-> past + 1, k |-> PositionsOf(number, past + 1),
             native |-> IF [bucket |-> bucket, format |-> format, k |-> k] # None /\ past < bucket
                        THEN [bucket |-> bucket, format |-> format,
                              k |-> WrittenAt(k, delta, past, bucket, format)]
                        ELSE None]
  <2> HIDE DEF k
  <2>1. WithNative(number, past, bucket, format) =
          [past |-> past, k |-> PositionsOf(number, past),
           native |-> [bucket |-> bucket, format |-> format, k |-> k]]
    BY DEF WithNative, k
  <2> QED BY <1>3, <2>1 DEF AppendedDelta
<1>5. CASE [bucket |-> bucket, format |-> format, k |-> k] # None /\ past < bucket
  <2>1. WrittenAt(k, delta, past, bucket, format) = NativeK(number, past + 1, bucket, format)
    BY <1>2, <1>5, WrittenIsNative
  <2> HIDE DEF new, k
  <2>2. new = WithNative(number, past + 1, bucket, format)
    BY <1>4, <1>5, <2>1 DEF WithNative
  <2> QED BY <2>2 DEF EntryRight, new, delta, out
<1>6. CASE ~ ([bucket |-> bucket, format |-> format, k |-> k] # None /\ past < bucket)
  <2> HIDE DEF new, k
  <2>1. new = Bare(number, past + 1)
    BY <1>4, <1>6 DEF Bare, Entry
  <2> QED BY <2>1 DEF EntryRight, new, delta, out
<1> QED BY <1>5, <1>6

(* A run behind which all positions came out, of a bucket without padding. *)
LEMMA FullUpdates ==
  ASSUME NEW number \in Nat, NEW past \in Nat, NEW format \in {"NHWC", "NCHW"}, NEW layout,
         NEW entry, entry = WithNative(number, past, past, format)
  PROVE  EntryRight(ReplacedFull(entry,
                                 CacheLayout(FullOut(number, past, entry.native, layout), past + 1, layout),
                                 past + 1),
                    number, past + 1)
<1> DEFINE out == FullOut(number, past, entry.native, layout)
           full == CacheLayout(out, past + 1, layout)
           n == past + 1
           k == NativeK(number, past, past, format)
           next == [past |-> n, k |-> PositionsOf(number, n), native |-> entry.native]
<1>1. Heads \in Nat /\ HeadDim \in Nat /\ n \in Nat
  BY SizeAssumption
<1>2. entry.native = [bucket |-> past, format |-> format, k |-> k]
      /\ entry = [past |-> past, k |-> PositionsOf(number, past), native |-> entry.native]
  BY DEF WithNative
<1> HIDE DEF k
<1>3. entry.native.bucket = past /\ entry.native.format = format /\ entry.native.k = k
  BY <1>2
<1>4. full = PositionsOf(number, n)
  <2>1. /\ IsBuffer(out, Heads * (entry.native.bucket + 1) * HeadDim)
        /\ \A h \in HeadSet, s \in 0 .. (entry.native.bucket + 1) - 1, d \in DimSet :
             out[OutPlace(entry.native.bucket + 1, layout, h, s, d)] =
               IF s < entry.native.bucket THEN Read(entry.native, h, s, d) ELSE <<number, h, past, d>>
    <3> DEFINE native == entry.native
    <3>1. native.bucket \in Nat
      BY <1>3
    <3> HIDE DEF native
    <3>2. /\ IsBuffer(FullOut(number, past, native, layout), Heads * (native.bucket + 1) * HeadDim)
          /\ \A h \in HeadSet, s \in 0 .. (native.bucket + 1) - 1, d \in DimSet :
               FullOut(number, past, native, layout)[OutPlace(native.bucket + 1, layout, h, s, d)] =
                 IF s < native.bucket THEN Read(native, h, s, d) ELSE <<number, h, past, d>>
      BY <3>1, FullOutAt
    <3> QED BY <3>2 DEF native
  <2> HIDE DEF out
  <2>2. /\ IsBuffer(out, Heads * n * HeadDim)
        /\ \A h \in HeadSet, s \in 0 .. n - 1, d \in DimSet :
             out[OutPlace(n, layout, h, s, d)] =
               IF s < past THEN Read(entry.native, h, s, d) ELSE <<number, h, past, d>>
    BY <1>3, <2>1
  <2> HIDE DEF n
  <2>3. /\ IsBuffer(CacheLayout(out, n, layout), Heads * n * HeadDim)
        /\ \A h \in HeadSet, s \in 0 .. n - 1, d \in DimSet :
             CacheLayout(out, n, layout)[Spot(n, h, s, d)] = out[OutPlace(n, layout, h, s, d)]
    BY <1>1, <2>2, CacheLayoutAt
  <2>4. full = CacheLayout(out, n, layout)
    BY DEF n
  <2> HIDE DEF full
  <2>5. ASSUME NEW h \in HeadSet, NEW s \in 0 .. n - 1, NEW d \in DimSet
        PROVE  full[Spot(n, h, s, d)] = <<number, h, s, d>>
    <3>1. full[Spot(n, h, s, d)] = IF s < past THEN Read(entry.native, h, s, d)
                                   ELSE <<number, h, past, d>>
      BY <2>2, <2>3, <2>4
    <3>2. CASE s < past
      <4>1. s \in 0 .. past - 1
        BY <3>2 DEF n
      <4>2. Read(entry.native, h, s, d) = k[Index(h, s, d, past, format)]
        BY <1>3 DEF Read
      <4>3. k[Index(h, s, d, past, format)] = IF s < past THEN <<number, h, s, d>> ELSE Zero
        <5>1. past >= past
          OBVIOUS
        <5> QED BY <4>1, <5>1, NativeAt DEF k
      <4> QED BY <3>1, <3>2, <4>2, <4>3
    <3>3. CASE ~ (s < past)
      <4>1. s = past
        BY <3>3 DEF n
      <4> QED BY <3>1, <3>3, <4>1
    <3> QED BY <3>2, <3>3
  <2>6. IsBuffer(full, Heads * n * HeadDim)
    BY <2>3, <2>4
  <2>7. \A h \in HeadSet, s \in 0 .. n - 1, d \in DimSet : full[Spot(n, h, s, d)] = <<number, h, s, d>>
    BY <2>5
  <2>8. HasPositions(full, number, n)
    BY <2>6, <2>7 DEF HasPositions
  <2> HIDE DEF n
  <2> QED BY <1>1, <2>8, ArePositions
<1>5. SubSeq(full, 1, Heads * n * HeadDim) = full
  <2>1. PositionsOf(number, n) \in Seq(Cells) /\ Len(PositionsOf(number, n)) = Heads * n * HeadDim
    BY <1>1, PositionsSeq
  <2> HIDE DEF full, n
  <2> QED BY <1>4, <2>1, SubSeqFull
<1> HIDE DEF out, full
<1>6. [entry EXCEPT !.past = n, !.k = SubSeq(full, 1, Heads * n * HeadDim)] = next
  <2> DEFINE native == [bucket |-> past, format |-> format, k |-> k]
             p == PositionsOf(number, past)
  <2>1. entry = [past |-> past, k |-> p, native |-> native] /\ entry.native = native
    BY <1>2
  <2>2. SubSeq(full, 1, Heads * n * HeadDim) = PositionsOf(number, n)
    BY <1>4, <1>5
  <2> HIDE DEF native, p, n
  <2>3. [entry EXCEPT !.past = n, !.k = PositionsOf(number, n)] =
          [past |-> n, k |-> PositionsOf(number, n), native |-> native]
    <3> DEFINE one == [entry EXCEPT !.past = n]
    <3>1. one = [past |-> n, k |-> p, native |-> native]
      BY <2>1
    <3> HIDE DEF one
    <3>2. [one EXCEPT !.k = PositionsOf(number, n)] =
            [past |-> n, k |-> PositionsOf(number, n), native |-> native]
      BY <3>1
    <3> QED BY <3>2 DEF one
  <2> QED BY <2>1, <2>2, <2>3
<1>7. ReplacedFull(entry, full, n) =
        IF entry.native = None THEN next
        ELSE [next EXCEPT !.native = Native(next, entry.native.bucket, entry.native.format)]
  BY <1>6 DEF ReplacedFull
<1>8. CASE entry.native = None
  <2>1. ReplacedFull(entry, full, n) = Bare(number, n)
    BY <1>7, <1>8 DEF Bare, Entry
  <2> QED BY <2>1 DEF EntryRight, full, out
<1>9. CASE entry.native # None
  <2>1. Native(next, past, format) =
          [bucket |-> past, format |-> format, k |-> NativeK(number, n, past, format)]
    BY DEF Native, NativeK, PaddedOf
  <2>2. ReplacedFull(entry, full, n) = WithNative(number, n, past, format)
    BY <1>3, <1>7, <1>9, <2>1 DEF WithNative
  <2> QED BY <2>2 DEF EntryRight, full, out
<1> QED BY <1>8, <1>9

(* The loop over the layers leaves the positions with this pass's.         *)
LEMMA UpdatedIs ==
  ASSUME NEW chunk, dialog.number \in Nat, dialog.past \in Nat \ {0}, NEW bucket \in Nat,
         bucket >= dialog.past, NEW format \in {"NHWC", "NCHW"},
         chunk.full => bucket = dialog.past
  PROVE  EntryRight(Updated(chunk, WithNative(dialog.number, dialog.past, bucket, format)),
                    dialog.number, dialog.past + 1)
<1> DEFINE entry == WithNative(dialog.number, dialog.past, bucket, format)
<1>1. entry.native.bucket = bucket /\ entry.past = dialog.past
  BY DEF WithNative
<1> HIDE DEF entry
<1>2. CASE chunk.full
  <2> DEFINE out == FullOut(dialog.number, dialog.past, entry.native, chunk.layout)
             present == CacheLayout(out, dialog.past + 1, chunk.layout)
  <2>1. PresentSeq(chunk, entry) = dialog.past + 1
    BY <1>1, <1>2 DEF PresentSeq
  <2>2. Present(chunk, entry) = out
    BY <1>2 DEF Present, FullOut, Cell
  <2> HIDE DEF out
  <2>3. Updated(chunk, entry) = ReplacedFull(entry, present, dialog.past + 1)
    BY <1>1, <2>1, <2>2 DEF Updated
  <2>4. EntryRight(ReplacedFull(entry, present, dialog.past + 1), dialog.number, dialog.past + 1)
    BY <1>2, FullUpdates DEF entry, out
  <2> QED BY <2>3, <2>4 DEF entry
<1>3. CASE ~ chunk.full
  <2> DEFINE out == DeltaOut(dialog.number, dialog.past, chunk.layout)
             present == CacheLayout(out, 1, chunk.layout)
  <2>1. PresentSeq(chunk, entry) = 1
    BY <1>3 DEF PresentSeq
  <2>2. Present(chunk, entry) = out
    BY <1>3 DEF Present, DeltaOut, Cell
  <2> HIDE DEF out
  <2>3. Updated(chunk, entry) = AppendedDelta(entry, present)
    BY <2>1, <2>2 DEF Updated
  <2>4. EntryRight(AppendedDelta(entry, present), dialog.number, dialog.past + 1)
    BY DeltaUpdates DEF entry, out
  <2> QED BY <2>3, <2>4 DEF entry
<1> QED BY <1>2, <1>3

(* What a prefill chunk leaves for a layer.                                *)
LEMMA PrefilledIs ==
  ASSUME NEW chunk, NEW n \in Nat
  PROVE  PrefilledEntry(chunk, n) = Bare(dialog.number, n)
<1> DEFINE out == PrefillOut(dialog.number, n, chunk.layout)
           k == CacheLayout(out, n, chunk.layout)
<1>1. PrefilledEntry(chunk, n) = Entry(n, Truncated(k, n, n))
  BY DEF PrefilledEntry, PrefillOut, Cell
<1>2. k = PositionsOf(dialog.number, n)
  <2>1. /\ IsBuffer(out, Heads * n * HeadDim)
        /\ \A h \in HeadSet, s \in 0 .. n - 1, d \in DimSet :
             out[OutPlace(n, chunk.layout, h, s, d)] =
               IF s < n THEN <<dialog.number, h, s, d>> ELSE Zero
    BY PrefillOutAt
  <2> HIDE DEF out
  <2>2. /\ IsBuffer(k, Heads * n * HeadDim)
        /\ \A h \in HeadSet, s \in 0 .. n - 1, d \in DimSet :
             k[Spot(n, h, s, d)] = out[OutPlace(n, chunk.layout, h, s, d)]
    BY <2>1, CacheLayoutAt
  <2> HIDE DEF k
  <2>3. ASSUME NEW h \in HeadSet, NEW s \in 0 .. n - 1, NEW d \in DimSet
        PROVE  k[Spot(n, h, s, d)] = <<dialog.number, h, s, d>>
    <3>1. k[Spot(n, h, s, d)] = out[OutPlace(n, chunk.layout, h, s, d)]
      BY <2>2
    <3>2. out[OutPlace(n, chunk.layout, h, s, d)] = IF s < n THEN <<dialog.number, h, s, d>> ELSE Zero
      BY <2>1
    <3>3. s < n
      OBVIOUS
    <3> QED BY <3>1, <3>2, <3>3
  <2>4. IsBuffer(k, Heads * n * HeadDim)
    BY <2>2
  <2>5. \A h \in HeadSet, s \in 0 .. n - 1, d \in DimSet : k[Spot(n, h, s, d)] = <<dialog.number, h, s, d>>
    BY <2>3
  <2>6. HasPositions(k, dialog.number, n)
    BY <2>4, <2>5 DEF HasPositions
  <2> QED BY <2>6, ArePositions
<1> HIDE DEF k
<1>3. Truncated(k, n, n) = PositionsOf(dialog.number, n)
  BY <1>2, TruncatedIs
<1> QED BY <1>1, <1>3 DEF Bare

-----------------------------------------------------------------------------
(* Finite sets.                                                            *)
(* A set of numbers that holds 0 and with a number the next holds all.     *)
LEMMA AllNumbers ==
  ASSUME NEW T, 0 \in T, \A n \in Nat : n \in T => n + 1 \in T
  PROVE  Nat \subseteq T
<1> SUFFICES ASSUME ~ (Nat \subseteq T)
             PROVE  FALSE
  OBVIOUS
<1> DEFINE R == OpToRel(<, Nat)
           M == Nat \ T
<1>1. IsWellFoundedOn(R, Nat) /\ \A x, y \in Nat : x < y => <<x, y>> \in R
  BY NatLessThanWellFounded DEF OpToRel
<1>2. M \subseteq Nat /\ M # {}
  OBVIOUS
<1> HIDE DEF R, M
<1>3. PICK n \in M : \A m \in M : ~ (<<m, n>> \in R)
  BY <1>1, <1>2, WFMin, Zenon
<1> USE DEF M
<1>4. n - 1 \in Nat /\ n - 1 < n
  BY <1>3
<1>5. n - 1 \in T
  BY <1>1, <1>3, <1>4
<1>6. (n - 1) + 1 \in T
  BY <1>4, <1>5
<1> QED BY <1>3, <1>6

(* R orders the elements of S.                                             *)
Orders(R, S) ==
  /\ \A x, y \in S : x # y => <<x, y>> \in R \/ <<y, x>> \in R
  /\ \A x, y, z \in S : <<x, y>> \in R /\ <<y, z>> \in R => <<x, z>> \in R

(* A finite set has a first element in every total order of its elements.  *)
LEMMA FirstExists ==
  ASSUME NEW R, NEW S, IsFiniteSet(S), S # {}, Orders(R, S)
  PROVE  \E x \in S : \A y \in S \ {x} : <<x, y>> \in R
<1> DEFINE Has(s) == \E x \in s : \A y \in s \ {x} : <<x, y>> \in R
           T == {n \in Nat : \A s \in SUBSET S : Cardinality(s) = n + 1 => Has(s)}
<1>1. \A s \in SUBSET S : IsFiniteSet(s) /\ Cardinality(s) \in Nat
  BY FS_Subset, FS_CardinalityType
<1>2. \A s \in SUBSET S : \A z \in s : /\ s \ {z} \in SUBSET S
                                       /\ Cardinality(s \ {z}) = Cardinality(s) - 1
  BY <1>1, FS_RemoveElement
<1>3. \A s \in SUBSET S : Cardinality(s) = 0 <=> s = {}
  BY <1>1, FS_EmptySet
<1>4. 0 \in T
  <2> SUFFICES ASSUME NEW s \in SUBSET S, Cardinality(s) = 0 + 1
               PROVE  Has(s)
    OBVIOUS
  <2>1. PICK z \in s : TRUE
    BY <1>3
  <2>2. Cardinality(s \ {z}) = 0
    BY <1>2
  <2>3. s \ {z} = {}
    BY <1>2, <1>3, <2>2
  <2> QED BY <2>3
<1>5. ASSUME NEW n \in Nat, n \in T
      PROVE  n + 1 \in T
  <2> SUFFICES ASSUME NEW s \in SUBSET S, Cardinality(s) = (n + 1) + 1
               PROVE  Has(s)
    OBVIOUS
  <2>1. s # {}
    BY <1>3
  <2>2. PICK z \in s : TRUE
    BY <2>1
  <2>3. Cardinality(s \ {z}) = n + 1 /\ s \ {z} \in SUBSET S
    BY <1>2
  <2>4. Has(s \ {z})
    BY <1>5, <2>3
  <2>5. PICK x \in s \ {z} : \A y \in (s \ {z}) \ {x} : <<x, y>> \in R
    BY <2>4
  <2>6. x \in S /\ z \in S /\ x # z
    OBVIOUS
  <2>7. CASE <<x, z>> \in R
    BY <2>5, <2>7
  <2>8. CASE <<z, x>> \in R
    <3>1. \A y \in s \ {z} : <<z, y>> \in R
      BY <2>5, <2>6, <2>8 DEF Orders
    <3> QED BY <3>1
  <2> QED BY <2>6, <2>7, <2>8 DEF Orders
<1>6. PICK n \in Nat : Cardinality(S) = n + 1
  <2>1. Cardinality(S) \in Nat /\ Cardinality(S) # 0
    BY <1>1, <1>3
  <2> QED BY <2>1
<1>7. n \in T
  BY <1>4, <1>5, AllNumbers
<1> QED BY <1>6, <1>7

(* The least of a finite set of numbers.                                   *)
LEMMA MinIs ==
  ASSUME NEW S, S \subseteq Nat, IsFiniteSet(S), S # {}
  PROVE  Min(S) \in S /\ \A x \in S : Min(S) <= x
<1> DEFINE R == {p \in S \X S : p[1] < p[2]}
<1>1. \A x, y \in S : <<x, y>> \in R <=> x < y
  OBVIOUS
<1> HIDE DEF R
<1>2. Orders(R, S)
  BY <1>1 DEF Orders
<1>3. \E x \in S : \A y \in S \ {x} : <<x, y>> \in R
  BY <1>2, FirstExists
<1>4. PICK x \in S : \A y \in S \ {x} : <<x, y>> \in R
  BY <1>3
<1>5. \A y \in S : x <= y
  <2> TAKE y \in S
  <2>1. x \in Nat /\ y \in Nat /\ (x # y => <<x, y>> \in R)
    BY <1>4
  <2>2. x # y => x < y
    BY <1>1, <2>1
  <2> QED BY <2>1, <2>2
<1> QED BY <1>4, <1>5 DEF Min

(* And the greatest.                                                       *)
LEMMA MaxIs ==
  ASSUME NEW S, S \subseteq Nat, IsFiniteSet(S), S # {}
  PROVE  Max(S) \in S /\ \A x \in S : x <= Max(S)
<1> DEFINE R == {p \in S \X S : p[2] < p[1]}
<1>1. \A x, y \in S : <<x, y>> \in R <=> y < x
  OBVIOUS
<1> HIDE DEF R
<1>2. Orders(R, S)
  BY <1>1 DEF Orders
<1>3. \E x \in S : \A y \in S \ {x} : <<x, y>> \in R
  BY <1>2, FirstExists
<1>4. PICK x \in S : \A y \in S \ {x} : <<x, y>> \in R
  BY <1>3
<1>5. \A y \in S : x >= y
  <2> TAKE y \in S
  <2>1. x \in Nat /\ y \in Nat /\ (x # y => <<x, y>> \in R)
    BY <1>4
  <2>2. x # y => y < x
    BY <1>1, <2>1
  <2> QED BY <2>1, <2>2
<1> QED BY <1>4, <1>5 DEF Max

(* The values of a function on a finite set.                               *)
LEMMA ImageFinite ==
  ASSUME NEW f, NEW S, IsFiniteSet(S)
  PROVE  IsFiniteSet({f[x] : x \in S})
<1> DEFINE T == {f[x] : x \in S}
           g == [x \in S |-> f[x]]
<1>1. g \in [S -> T] /\ \A t \in T : \E x \in S : g[x] = t
  OBVIOUS
<1> HIDE DEF T, g
<1>2. g \in Surjection(S, T)
  BY <1>1 DEF Surjection
<1>3. IsFiniteSet(T)
  BY <1>2, FS_Surjection
<1> QED BY <1>3 DEF T

-----------------------------------------------------------------------------
(* The files of a directory.                                               *)
GoodFiles(D) ==
  /\ D \subseteq Files /\ IsFiniteSet(D)
  /\ \A f, g \in D : f.name = g.name => f = g
  /\ \A f \in D :
       /\ f.buckets # {} /\ IsFiniteSet(f.buckets)
       /\ f.class # "dynamic" => \E b \in f.buckets : f.buckets = {b}

(* What a file is.                                                         *)
LEMMA FileIs ==
  ASSUME NEW D, GoodFiles(D), NEW f \in D
  PROVE  /\ f \in Files /\ f.name \in Nat /\ f.first \in Nat /\ f.last \in Nat
         /\ f.class \in {"static", "dynamic", "plain"} /\ f.format \in {"NHWC", "NCHW"}
         /\ f.buckets \subseteq Nat /\ f.buckets # {} /\ IsFiniteSet(f.buckets)
         /\ Max(f.buckets) \in f.buckets /\ Max(f.buckets) \in Nat
<1>1. f \in Files /\ f.buckets # {} /\ IsFiniteSet(f.buckets)
  BY DEF GoodFiles
<1>2. /\ f.name \in Nat /\ f.first \in Nat /\ f.last \in Nat
      /\ f.class \in {"static", "dynamic", "plain"} /\ f.format \in {"NHWC", "NCHW"}
      /\ f.buckets \subseteq Nat
  BY <1>1 DEF Files
<1>3. Max(f.buckets) \in f.buckets
  BY <1>1, <1>2, MaxIs
<1> QED BY <1>1, <1>2, <1>3

(* The order of files, in the words of a dictionary.                       *)
Before(k, l) ==
  \/ k[1] < l[1]
  \/ k[1] = l[1] /\ k[2] < l[2]
  \/ k[1] = l[1] /\ k[2] = l[2] /\ k[3] < l[3]
  \/ k[1] = l[1] /\ k[2] = l[2] /\ k[3] = l[3] /\ k[4] < l[4]

(* It is that of the model.                                                *)
LEMMA PrecedesIs ==
  ASSUME NEW f, NEW g
  PROVE  Precedes(f, g) <=> Before(Key(f), Key(g))
<1> DEFINE k == Key(f)
           l == Key(g)
           At(i) == k[i] < l[i] /\ \A j \in 1 .. i - 1 : k[j] = l[j]
<1>1. Precedes(f, g) <=> \E i \in 1 .. 4 : At(i)
  BY DEF Precedes
<1>2. \A i \in 1 .. 4 : i = 1 \/ i = 2 \/ i = 3 \/ i = 4
  OBVIOUS
<1>3. 1 \in 1 .. 4 /\ 2 \in 1 .. 4 /\ 3 \in 1 .. 4 /\ 4 \in 1 .. 4
  OBVIOUS
<1> HIDE DEF k, l
<1>4. At(1) <=> k[1] < l[1]
  OBVIOUS
<1>5. At(2) <=> k[1] = l[1] /\ k[2] < l[2]
  <2>1. \A j \in 1 .. 2 - 1 : j = 1
    OBVIOUS
  <2> QED BY <2>1
<1>6. At(3) <=> k[1] = l[1] /\ k[2] = l[2] /\ k[3] < l[3]
  <2>1. \A j \in 1 .. 3 - 1 : j = 1 \/ j = 2
    OBVIOUS
  <2> QED BY <2>1
<1>7. At(4) <=> k[1] = l[1] /\ k[2] = l[2] /\ k[3] = l[3] /\ k[4] < l[4]
  <2>1. \A j \in 1 .. 4 - 1 : j = 1 \/ j = 2 \/ j = 3
    OBVIOUS
  <2> QED BY <2>1
<1> HIDE DEF At
<1>8. (\E i \in 1 .. 4 : At(i)) <=> At(1) \/ At(2) \/ At(3) \/ At(4)
  BY <1>2, <1>3
<1> QED BY <1>1, <1>4, <1>5, <1>6, <1>7, <1>8 DEF Before, k, l

(* Keys of files are numbers, and those of two files are not the same.     *)
LEMMA KeyIs ==
  ASSUME NEW D, GoodFiles(D), NEW f \in D
  PROVE  /\ Key(f)[1] \in Int /\ Key(f)[2] \in Int /\ Key(f)[3] \in Int
         /\ Key(f)[4] = f.name /\ f.name \in Int
<1>1. /\ f.name \in Nat /\ f.first \in Nat /\ f.last \in Nat
      /\ f.class \in {"static", "dynamic", "plain"} /\ Max(f.buckets) \in Nat
  BY FileIs
<1>2. Rank(f) \in Int
  BY <1>1 DEF Rank
<1>3. Span(f) \in Int
  BY <1>1 DEF Span
<1>4. (IF f.class = "static" THEN -Max(f.buckets) ELSE 0) \in Int
  BY <1>1
<1> QED BY <1>1, <1>2, <1>3, <1>4 DEF Key

(* The first of some files of a directory is one of them.                  *)
LEMMA FirstOfIn ==
  ASSUME NEW D, GoodFiles(D), NEW S, S \subseteq D, S # {}
  PROVE  FirstOf(S) \in S
<1> DEFINE R == {p \in S \X S : Precedes(p[1], p[2])}
<1>1. \A x, y \in S : <<x, y>> \in R <=> Before(Key(x), Key(y))
  <2>1. \A x, y \in S : <<x, y>> \in R <=> Precedes(x, y)
    OBVIOUS
  <2> HIDE DEF R
  <2> QED BY <2>1, PrecedesIs
<1> HIDE DEF R
<1>2. \A x \in S : /\ Key(x)[1] \in Int /\ Key(x)[2] \in Int /\ Key(x)[3] \in Int
                   /\ Key(x)[4] = x.name /\ x.name \in Int
  BY KeyIs
<1>3. \A x, y \in S : x # y => x.name # y.name
  BY DEF GoodFiles
<1>4. \A x, y \in S : x # y => <<x, y>> \in R \/ <<y, x>> \in R
  BY <1>1, <1>2, <1>3 DEF Before
<1>5. \A x, y, z \in S : <<x, y>> \in R /\ <<y, z>> \in R => <<x, z>> \in R
  BY <1>1, <1>2 DEF Before
<1>6. IsFiniteSet(S)
  BY FS_Subset DEF GoodFiles
<1>7. \E x \in S : \A y \in S \ {x} : <<x, y>> \in R
  BY <1>4, <1>5, <1>6, FirstExists DEF Orders
<1>8. \E x \in S : \A y \in S \ {x} : Precedes(x, y)
  BY <1>1, <1>7, PrecedesIs
<1> QED BY <1>8 DEF FirstOf

(* The files tried at a layer, and the chunks that loading has so far.     *)
TaggedIn(D, tag) == {f \in D : f.tag = tag}

Candidates(D) ==
  IF TaggedIn(D, "decode") # {} THEN TaggedIn(D, "decode") ELSE TaggedIn(D, "none")

StartingAt(D, e) == {f \in Candidates(D) : f.first = e /\ f.last >= f.first}

FilesAt(D, e) ==
  IF e >= NumLayers \/ StartingAt(D, e) = {} THEN {}
  ELSE Loadable(SameRange(FirstOf(StartingAt(D, e)), Candidates(D)))

Start(c, i) == IF i = 1 THEN 0 ELSE c[i - 1].last + 1

Chain(D, c) ==
  /\ c \in Seq(D)
  /\ \A i \in 1 .. Len(c) :
       FilesAt(D, Start(c, i)) # {} /\ c[i] = FirstOf(FilesAt(D, Start(c, i)))

(* They are those of the model.                                            *)
LEMMA NextFilesIs == NextFiles = FilesAt(directory.files, expected)
BY DEF NextFiles, FilesAt, Starting, StartingAt, DecodeCandidates, Candidates, Tagged, TaggedIn

(* A file that loads at a layer starts there.                              *)
LEMMA FilesAtIs ==
  ASSUME NEW D, GoodFiles(D), NEW e, FilesAt(D, e) # {}
  PROVE  /\ e < NumLayers /\ FirstOf(FilesAt(D, e)) \in FilesAt(D, e)
         /\ \A f \in FilesAt(D, e) : f \in D /\ f.first = e /\ f.last >= e
<1> DEFINE C == Candidates(D)
           S == StartingAt(D, e)
           g == FirstOf(S)
<1>1. ~ (e >= NumLayers) /\ S # {} /\ FilesAt(D, e) = Loadable(SameRange(g, C))
  BY DEF FilesAt
<1>2. C \subseteq D /\ S \subseteq C /\ \A f \in S : f.first = e /\ f.last >= f.first
  BY DEF Candidates, TaggedIn, StartingAt
<1> HIDE DEF C, S
<1>3. g \in S
  BY <1>1, <1>2, FirstOfIn
<1>4. g.first = e /\ g.last >= e
  BY <1>2, <1>3
<1> HIDE DEF g
<1>5. \A f \in FilesAt(D, e) : f \in C /\ f.first = g.first /\ f.last = g.last
  BY <1>1 DEF Loadable, SameRange
<1>6. \A f \in FilesAt(D, e) : f \in D /\ f.first = e /\ f.last >= e
  BY <1>2, <1>4, <1>5
<1>7. FilesAt(D, e) \subseteq D
  BY <1>6
<1>8. FirstOf(FilesAt(D, e)) \in FilesAt(D, e)
  BY <1>7, FirstOfIn
<1>9. e < NumLayers
  <2>1. e \in Nat /\ NumLayers \in Nat
    BY <1>2, <1>3, <1>4, FileIs, SizeAssumption
  <2> QED BY <1>1, <2>1
<1> QED BY <1>6, <1>8, <1>9

(* Each chunk starts behind the one in front of it.                        *)
LEMMA ChainAt ==
  ASSUME NEW D, GoodFiles(D), NEW c, Chain(D, c), NEW i \in 1 .. Len(c)
  PROVE  /\ c[i] \in D /\ c[i].first \in Nat /\ c[i].last \in Nat
         /\ c[i].first = Start(c, i) /\ c[i].last >= c[i].first /\ c[i].first < NumLayers
<1>1. FilesAt(D, Start(c, i)) # {} /\ c[i] = FirstOf(FilesAt(D, Start(c, i)))
  BY DEF Chain
<1>2. c[i] \in FilesAt(D, Start(c, i)) /\ Start(c, i) < NumLayers
  BY <1>1, FilesAtIs
<1>3. c[i] \in D /\ c[i].first = Start(c, i) /\ c[i].last >= Start(c, i)
  BY <1>1, <1>2, FilesAtIs
<1>4. c[i].first \in Nat /\ c[i].last \in Nat
  BY <1>3, FileIs
<1> QED BY <1>2, <1>3, <1>4

(* So the layers of a later chunk are behind those of an earlier one.      *)
LEMMA ChainOrder ==
  ASSUME NEW D, GoodFiles(D), NEW c, Chain(D, c),
         NEW i \in 1 .. Len(c), NEW j \in 1 .. Len(c), i < j
  PROVE  c[i].last < c[j].first
<1> DEFINE T == {n \in Nat : i + n + 1 <= Len(c) => c[i].last < c[i + n + 1].first}
<1>1. \A k \in 1 .. Len(c) : /\ c[k].first \in Nat /\ c[k].last \in Nat
                             /\ c[k].last >= c[k].first /\ c[k].first = Start(c, k)
  BY ChainAt
<1>2. \A k \in 1 .. Len(c) : k > 1 => c[k].first = c[k - 1].last + 1
  BY <1>1 DEF Start
<1>3. Len(c) \in Nat
  BY DEF Chain
<1>4. 0 \in T
  <2> SUFFICES ASSUME i + 0 + 1 <= Len(c)
               PROVE  c[i].last < c[i + 0 + 1].first
    OBVIOUS
  <2>1. i + 1 \in 1 .. Len(c) /\ i + 1 > 1 /\ (i + 1) - 1 = i /\ i + 0 + 1 = i + 1
    BY <1>3
  <2>2. c[i + 1].first = c[i].last + 1
    BY <1>2, <2>1
  <2> QED BY <1>1, <2>1, <2>2
<1>5. ASSUME NEW n \in Nat, n \in T
      PROVE  n + 1 \in T
  <2> SUFFICES ASSUME i + (n + 1) + 1 <= Len(c)
               PROVE  c[i].last < c[i + (n + 1) + 1].first
    OBVIOUS
  <2> DEFINE k == i + n + 1
  <2>1. k \in 1 .. Len(c) /\ k + 1 \in 1 .. Len(c) /\ k + 1 > 1 /\ (k + 1) - 1 = k
        /\ i + (n + 1) + 1 = k + 1
    BY <1>3
  <2>2. c[i].last < c[k].first
    BY <1>5, <2>1
  <2> HIDE DEF k
  <2>3. c[k + 1].first = c[k].last + 1
    BY <1>2, <2>1
  <2>4. c[k].first \in Nat /\ c[k].last \in Nat /\ c[k].last >= c[k].first /\ c[i].last \in Nat
    BY <1>1, <2>1
  <2> QED BY <2>1, <2>2, <2>3, <2>4
<1>6. j - i - 1 \in T
  <2>1. j - i - 1 \in Nat
    OBVIOUS
  <2> HIDE DEF T
  <2> QED BY <1>4, <1>5, <2>1, AllNumbers
<1>7. i + (j - i - 1) + 1 = j
  OBVIOUS
<1> QED BY <1>3, <1>6, <1>7

(* And no layer up to its last is left out.                                *)
LEMMA ChainCovers ==
  ASSUME NEW D, GoodFiles(D), NEW c, Chain(D, c), NEW n \in 1 .. Len(c), NEW l \in 0 .. c[n].last
  PROVE  \E i \in 1 .. Len(c) : l \in ChunkLayers(c[i])
<1> DEFINE T == {m \in Nat : m + 1 <= Len(c) =>
                   \A k \in 0 .. c[m + 1].last : \E i \in 1 .. Len(c) : k \in ChunkLayers(c[i])}
<1>1. \A k \in 1 .. Len(c) : /\ c[k].first \in Nat /\ c[k].last \in Nat
                             /\ c[k].last >= c[k].first /\ c[k].first = Start(c, k)
  BY ChainAt
<1>2. Len(c) \in Nat
  BY DEF Chain
<1>3. 0 \in T
  <2> SUFFICES ASSUME 1 <= Len(c), NEW k \in 0 .. c[1].last
               PROVE  \E i \in 1 .. Len(c) : k \in ChunkLayers(c[i])
    OBVIOUS
  <2>1. 1 \in 1 .. Len(c) /\ c[1].first = 0
    BY <1>1, <1>2 DEF Start
  <2> QED BY <2>1 DEF ChunkLayers
<1>4. ASSUME NEW m \in Nat, m \in T
      PROVE  m + 1 \in T
  <2> SUFFICES ASSUME (m + 1) + 1 <= Len(c), NEW k \in 0 .. c[(m + 1) + 1].last
               PROVE  \E i \in 1 .. Len(c) : k \in ChunkLayers(c[i])
    OBVIOUS
  <2> DEFINE p == m + 1
  <2>1. p \in 1 .. Len(c) /\ p + 1 \in 1 .. Len(c) /\ p + 1 # 1 /\ (p + 1) - 1 = p /\ p + 1 = (m + 1) + 1
    BY <1>2
  <2>2. \A q \in 0 .. c[p].last : \E i \in 1 .. Len(c) : q \in ChunkLayers(c[i])
    BY <1>4, <2>1
  <2> HIDE DEF p
  <2>3. c[p + 1].first = c[p].last + 1 /\ c[p].last \in Nat /\ c[p + 1].last \in Nat
    BY <1>1, <2>1 DEF Start
  <2>4. k \in 0 .. c[p + 1].last
    BY <2>1
  <2>5. CASE k <= c[p].last
    <3>1. k \in 0 .. c[p].last
      BY <2>3, <2>4, <2>5
    <3> QED BY <2>2, <3>1
  <2>6. CASE k > c[p].last
    <3>1. k \in ChunkLayers(c[p + 1])
      BY <2>3, <2>4, <2>6 DEF ChunkLayers
    <3> QED BY <2>1, <3>1
  <2> QED BY <2>3, <2>4, <2>5, <2>6
<1>5. n - 1 \in T
  <2>1. n - 1 \in Nat
    OBVIOUS
  <2> HIDE DEF T
  <2> QED BY <1>3, <1>4, <2>1, AllNumbers
<1>6. (n - 1) + 1 = n /\ n <= Len(c)
  BY <1>2
<1> QED BY <1>5, <1>6

(* Chunks share no layer.                                                  *)
LEMMA ChainOne ==
  ASSUME NEW D, GoodFiles(D), NEW c, Chain(D, c),
         NEW i \in 1 .. Len(c), NEW j \in 1 .. Len(c),
         NEW l, l \in ChunkLayers(c[i]), l \in ChunkLayers(c[j])
  PROVE  i = j
<1>1. /\ c[i].first \in Nat /\ c[i].last \in Nat /\ c[j].first \in Nat /\ c[j].last \in Nat
  BY ChainAt
<1>2. l \in c[i].first .. c[i].last /\ l \in c[j].first .. c[j].last
  BY DEF ChunkLayers
<1>3. ~ (i < j)
  <2> SUFFICES ASSUME i < j
               PROVE  FALSE
    OBVIOUS
  <2>1. c[i].last < c[j].first
    BY ChainOrder
  <2> QED BY <1>1, <1>2, <2>1
<1>4. ~ (j < i)
  <2> SUFFICES ASSUME j < i
               PROVE  FALSE
    OBVIOUS
  <2>1. c[j].last < c[i].first
    BY ChainOrder
  <2> QED BY <1>1, <1>2, <2>1
<1> QED BY <1>3, <1>4

(* The first chunks of a chain are one, and with the next file it is one.  *)
LEMMA ChainPrefix ==
  ASSUME NEW D, NEW c, Chain(D, c), NEW n \in 0 .. Len(c)
  PROVE  /\ Chain(D, SubSeq(c, 1, n)) /\ Len(SubSeq(c, 1, n)) = n
         /\ \A i \in 1 .. n : SubSeq(c, 1, n)[i] = c[i]
<1> DEFINE d == SubSeq(c, 1, n)
<1>1. c \in Seq(D)
  BY DEF Chain
<1>2. d \in Seq(D) /\ Len(d) = n /\ \A i \in 1 .. n : d[i] = c[i]
  BY <1>1
<1> HIDE DEF d
<1>3. \A i \in 1 .. Len(d) : Start(d, i) = Start(c, i)
  BY <1>2 DEF Start
<1>4. Chain(D, d)
  BY <1>1, <1>2, <1>3 DEF Chain
<1> QED BY <1>2, <1>4 DEF d

(* The next file that loads lengthens it.                                  *)
LEMMA ChainAppend ==
  ASSUME NEW D, GoodFiles(D), NEW c, Chain(D, c), NEW e, e = Start(c, Len(c) + 1),
         FilesAt(D, e) # {}
  PROVE  /\ Chain(D, Append(c, FirstOf(FilesAt(D, e))))
         /\ FirstOf(FilesAt(D, e)).last + 1 = Start(Append(c, FirstOf(FilesAt(D, e))), Len(c) + 2)
<1> DEFINE f == FirstOf(FilesAt(D, e))
           d == Append(c, f)
<1>1. c \in Seq(D) /\ f \in D
  BY FilesAtIs DEF Chain
<1> HIDE DEF f
<1>2. d \in Seq(D) /\ Len(d) = Len(c) + 1 /\ d[Len(c) + 1] = f /\ \A i \in 1 .. Len(c) : d[i] = c[i]
  BY <1>1
<1> HIDE DEF d
<1>3. Len(c) \in Nat
  BY <1>1
<1>4. \A i \in 1 .. Len(c) + 1 : Start(d, i) = Start(c, i)
  BY <1>2, <1>3 DEF Start
<1>5. Chain(D, d)
  <2> SUFFICES ASSUME NEW i \in 1 .. Len(c) + 1
               PROVE  FilesAt(D, Start(d, i)) # {} /\ d[i] = FirstOf(FilesAt(D, Start(d, i)))
    BY <1>2 DEF Chain
  <2>1. CASE i \in 1 .. Len(c)
    BY <1>2, <1>4, <2>1 DEF Chain
  <2>2. CASE i = Len(c) + 1
    BY <1>2, <1>4, <2>2 DEF f
  <2> QED BY <1>3, <2>1, <2>2
<1>6. f.last + 1 = Start(d, Len(c) + 2)
  <2>1. Len(c) + 2 # 1 /\ (Len(c) + 2) - 1 = Len(c) + 1
    BY <1>3
  <2> QED BY <1>2, <2>1 DEF Start
<1> QED BY <1>5, <1>6 DEF d, f

(* Every layer up to the last one is in one chunk.                         *)
LEMMA ChainCoveredOnce ==
  ASSUME NEW D, GoodFiles(D), NEW c, Chain(D, c), c # <<>>, NEW l \in 0 .. Last(c).last
  PROVE  Cardinality({i \in DOMAIN c : l \in ChunkLayers(c[i])}) = 1
<1>1. c \in Seq(D) /\ DOMAIN c = 1 .. Len(c) /\ Len(c) \in 1 .. Len(c) /\ Last(c) = c[Len(c)]
  BY DEF Chain, Last
<1>2. PICK i \in 1 .. Len(c) : l \in ChunkLayers(c[i])
  BY <1>1, ChainCovers
<1>3. {j \in DOMAIN c : l \in ChunkLayers(c[j])} = {i}
  <2>1. \A j \in 1 .. Len(c) : l \in ChunkLayers(c[j]) => j = i
    BY <1>2, ChainOne
  <2> QED BY <1>1, <1>2, <2>1
<1> QED BY <1>3, FS_Singleton

-----------------------------------------------------------------------------
(* The prefill chunks of a directory.                                      *)
RangesIn(D) == {<<f.first, f.last>> : f \in TaggedIn(D, "prefill")}

PickFor(D, f) == FirstOf(Loadable(SameRange(f, TaggedIn(D, "prefill"))))

PrefillLoadsIn(D) ==
  /\ RangesIn(D) # {}
  /\ Tiles(RangesIn(D))
  /\ \A r \in RangesIn(D) : r[2] >= r[1] /\ r[2] \in Layers
  /\ \A f \in TaggedIn(D, "prefill") : Loadable(SameRange(f, TaggedIn(D, "prefill"))) # {}

PrefillOf(D) ==
  IF PrefillLoadsIn(D) THEN {PickFor(D, f) : f \in TaggedIn(D, "prefill")} ELSE None

(* They are those of the model.                                            *)
LEMMA PrefillNow == PrefillChunks = PrefillOf(directory.files)
BY DEF PrefillChunks, PrefillOf, PrefillLoads, PrefillLoadsIn, PrefillRanges, RangesIn, PickFor,
       Tagged, TaggedIn

(* They are files of the directory, and every layer is in one of them: its *)
(* range is one, and of a range one file is picked.                        *)
LEMMA PrefillIs ==
  ASSUME NEW D, GoodFiles(D), PrefillOf(D) # None
  PROVE  /\ PrefillOf(D) \subseteq D
         /\ \A l \in Layers : Cardinality({f \in PrefillOf(D) : l \in ChunkLayers(f)}) = 1
<1> DEFINE T == TaggedIn(D, "prefill")
           P == {PickFor(D, f) : f \in T}
           R == RangesIn(D)
<1>1. PrefillOf(D) = P /\ Tiles(R) /\ \A f \in T : Loadable(SameRange(f, T)) # {}
  BY DEF PrefillOf, PrefillLoadsIn
<1>2. T \subseteq D /\ IsFiniteSet(T)
  BY FS_Subset DEF TaggedIn, GoodFiles
<1>3. ASSUME NEW f \in T
      PROVE  PickFor(D, f) \in D /\ PickFor(D, f).first = f.first /\ PickFor(D, f).last = f.last
  <2> DEFINE S == Loadable(SameRange(f, T))
  <2>1. S # {} /\ S \subseteq D /\ \A g \in S : g.first = f.first /\ g.last = f.last
    BY <1>1, <1>2 DEF Loadable, SameRange
  <2>2. PickFor(D, f) = FirstOf(S)
    BY DEF PickFor
  <2> HIDE DEF S
  <2>3. FirstOf(S) \in S
    BY <2>1, FirstOfIn
  <2> QED BY <2>1, <2>2, <2>3
<1>4. IsFiniteSet(R)
  <2> DEFINE g == [f \in T |-> <<f.first, f.last>>]
  <2>1. R = {g[f] : f \in T}
    BY DEF RangesIn
  <2> HIDE DEF g, T
  <2> QED BY <1>2, <2>1, ImageFinite
<1>5. ASSUME NEW l \in Layers
      PROVE  Cardinality({f \in P : l \in ChunkLayers(f)}) = 1
  <2> DEFINE H == {r \in R : l \in r[1] .. r[2]}
  <2>1. IsFiniteSet(H) /\ Cardinality(H) = 1
    BY <1>1, <1>4, FS_Subset DEF Tiles
  <2>2. PICK r : H = {r}
    BY <2>1, FS_Singleton
  <2>3. \A f \in T : l \in ChunkLayers(f) <=> <<f.first, f.last>> \in H
    BY DEF RangesIn, ChunkLayers
  <2>4. PICK g \in T : r = <<g.first, g.last>> /\ l \in ChunkLayers(g)
    <3>1. r \in R
      BY <2>2
    <3>2. PICK g \in T : r = <<g.first, g.last>>
      BY <3>1 DEF RangesIn
    <3>3. <<g.first, g.last>> \in H
      BY <2>2, <3>2
    <3> HIDE DEF H
    <3> QED BY <2>3, <3>2, <3>3
  <2> HIDE DEF H
  <2>5. ASSUME NEW f \in T, l \in ChunkLayers(f)
        PROVE  PickFor(D, f) = PickFor(D, g)
    <3>1. <<f.first, f.last>> = <<g.first, g.last>>
      BY <2>2, <2>3, <2>4, <2>5
    <3>2. f.first = g.first /\ f.last = g.last
      BY <3>1
    <3>3. SameRange(f, T) = SameRange(g, T)
      BY <3>2 DEF SameRange
    <3> QED BY <3>3 DEF PickFor
  <2>6. \A f \in T : l \in ChunkLayers(PickFor(D, f)) <=> l \in ChunkLayers(f)
    BY <1>3 DEF ChunkLayers
  <2>7. {f \in P : l \in ChunkLayers(f)} = {PickFor(D, g)}
    <3>1. PickFor(D, g) \in P /\ l \in ChunkLayers(PickFor(D, g))
      BY <2>4, <2>6
    <3>2. \A q \in P : l \in ChunkLayers(q) => q = PickFor(D, g)
      BY <2>5, <2>6
    <3> HIDE DEF P
    <3> QED BY <3>1, <3>2
  <2> HIDE DEF P
  <2> QED BY <2>7, FS_Singleton
<1>6. P \subseteq D
  BY <1>3
<1> HIDE DEF P
<1> QED BY <1>1, <1>5, <1>6

-----------------------------------------------------------------------------
(* Files whose outputs have all positions take every length up to theirs:  *)
(* the code takes the positions so far and one more from the front of such *)
(* an output, which for a longer bucket holds padding there.               *)
Gapless(dir) == \A f \in dir.files : f.full => \A b \in f.buckets : 1 .. b \subseteq f.buckets

(* The bucket of a chunk is one of its own, and without a gap that of the  *)
(* positions so far.                                                       *)
LEMMA SelectIs ==
  ASSUME NEW D, GoodFiles(D), NEW chunk \in D, NEW past
  PROVE  /\ SelectBucket(chunk, past) \in chunk.buckets /\ SelectBucket(chunk, past) \in Nat
         /\ (/\ past \in Nat \ {0} /\ \A b \in chunk.buckets : 1 .. b \subseteq chunk.buckets
             /\ SelectBucket(chunk, past) >= past)
              => SelectBucket(chunk, past) = past
<1> DEFINE required == Max({past, 1})
           longer == {b \in chunk.buckets : b >= required}
           bucket == SelectBucket(chunk, past)
<1>1. /\ chunk.buckets \subseteq Nat /\ IsFiniteSet(chunk.buckets) /\ Max(chunk.buckets) \in chunk.buckets
  BY FileIs
<1>2. bucket = IF longer # {} THEN Min(longer) ELSE Max(chunk.buckets)
  BY DEF SelectBucket
<1>3. longer \subseteq chunk.buckets /\ longer \subseteq Nat /\ IsFiniteSet(longer)
  BY <1>1, FS_Subset
<1>4. longer # {} => Min(longer) \in longer /\ \A x \in longer : Min(longer) <= x
  <2> HIDE DEF longer
  <2> QED BY <1>3, MinIs
<1>5. bucket \in chunk.buckets /\ bucket \in Nat
  <2> HIDE DEF longer, bucket
  <2> QED BY <1>1, <1>2, <1>3, <1>4
<1>6. ASSUME past \in Nat \ {0}, \A b \in chunk.buckets : 1 .. b \subseteq chunk.buckets, bucket >= past
      PROVE  bucket = past
  <2>1. required = past
    <3>1. {past, 1} \subseteq Nat /\ IsFiniteSet({past, 1}) /\ {past, 1} # {}
      <4>1. IsFiniteSet({past} \cup {1}) /\ {past, 1} = {past} \cup {1}
        BY FS_AddElement, FS_Singleton
      <4> QED BY <1>6, <4>1
    <3>2. Max({past, 1}) \in {past, 1} /\ \A x \in {past, 1} : x <= Max({past, 1})
      BY <3>1, MaxIs
    <3>3. past <= Max({past, 1}) /\ 1 <= Max({past, 1})
      BY <3>2
    <3> QED BY <1>6, <3>2, <3>3
  <2>2. past \in 1 .. bucket
    BY <1>5, <1>6
  <2>3. past \in chunk.buckets
    BY <1>5, <1>6, <2>2
  <2>4. past \in longer
    BY <1>6, <2>1, <2>3
  <2>5. bucket <= past
    <3> HIDE DEF longer, bucket
    <3> QED BY <1>2, <1>4, <2>4
  <2> HIDE DEF bucket
  <2> QED BY <1>5, <1>6, <2>5
<1> QED BY <1>5, <1>6

(* The first chunk of a directory ends no later than layer l.              *)
Reaches(D, l) == FilesAt(D, 0) # {} /\ FirstOf(FilesAt(D, 0)).last <= l

(* What validation leaves of the chunks: all of them before it took place, *)
(* and behind it those it accepted, at least the first.                    *)
LEMMA AcceptedIs ==
  ASSUME NEW D, GoodFiles(D), Chain(D, runner.chunks), runner.chunks # <<>>,
         dialog.validated # None => dialog.validated \in Nat /\ Reaches(D, dialog.validated)
  PROVE  /\ Chain(D, Accepted) /\ Accepted # <<>> /\ Len(Accepted) <= Len(runner.chunks)
         /\ dialog.validated # None => Last(Accepted).last <= dialog.validated
<1> DEFINE c == runner.chunks
           S == {0} \cup {i \in DOMAIN c : Accepts(c[i])}
           m == Max(S)
<1>1. c \in Seq(D) /\ DOMAIN c = 1 .. Len(c) /\ Len(c) \in Nat /\ 1 \in 1 .. Len(c)
  BY DEF Chain
<1>2. S \subseteq 0 .. Len(c) /\ S # {} /\ S \subseteq Nat
  BY <1>1
<1>3. IsFiniteSet(S)
  <2>1. IsFiniteSet(0 .. Len(c))
    BY <1>1, FS_Interval
  <2> HIDE DEF S
  <2> QED BY <1>2, <2>1, FS_Subset
<1>4. m \in S /\ \A x \in S : x <= m
  <2> HIDE DEF S
  <2> QED BY <1>2, <1>3, MaxIs
<1>5. 1 \in S
  <2>1. Accepts(c[1])
    <3>1. FilesAt(D, Start(c, 1)) # {} /\ c[1] = FirstOf(FilesAt(D, Start(c, 1)))
      BY <1>1 DEF Chain
    <3>2. c[1] = FirstOf(FilesAt(D, 0))
      BY <3>1 DEF Start
    <3> QED BY <3>2 DEF Accepts, Reaches
  <2> QED BY <1>1, <2>1
<1>6. m \in 1 .. Len(c) /\ Accepts(c[m])
  <2> HIDE DEF m
  <2> QED BY <1>1, <1>2, <1>4, <1>5
<1>7. Accepted = SubSeq(c, 1, m)
  BY DEF Accepted
<1> HIDE DEF m, S
<1>8. m \in 0 .. Len(c) /\ Chain(D, c)
  BY <1>6
<1>9. Chain(D, SubSeq(c, 1, m)) /\ Len(SubSeq(c, 1, m)) = m /\ \A i \in 1 .. m : SubSeq(c, 1, m)[i] = c[i]
  BY <1>8, ChainPrefix
<1>10. SubSeq(c, 1, m) # <<>> /\ Last(SubSeq(c, 1, m)) = c[m]
  BY <1>6, <1>9 DEF Last
<1> QED BY <1>1, <1>6, <1>7, <1>9, <1>10 DEF Accepts

-----------------------------------------------------------------------------
(* The inductive invariant, in named parts.                                *)
RunnerType(r) ==
  r \in [chunks : Seq(Files), prefill : {r.prefill}, kv : {r.kv},
         selected : Seq(Nat \cup {None}), synced : BOOLEAN]

NpuType(n) == n \in [decode : Seq(Nat), prefill : {n.prefill}]

DialogType(d) ==
  d \in [number : 1 .. MaxDialogs, past : 0 .. MaxPast, cached : 0 .. MaxPast,
         validated : Nat \cup {None}, pass : {"idle", "decode", "failed"}, next : Nat,
         refused : BOOLEAN]

Typed ==
  /\ directory \in Directories
  /\ phase \in Phases /\ expected \in Nat
  /\ RunnerType(runner) /\ NpuType(npu) /\ DialogType(dialog)

(* The chunks are what loading takes from the directory, those of a runner *)
(* in use as far as validation accepted them.                              *)
LoadInv ==
  /\ Chain(directory.files, runner.chunks)
  /\ Len(runner.selected) = Len(runner.chunks)
  /\ phase = "decode" => expected = Start(runner.chunks, Len(runner.chunks) + 1)
  /\ phase \in {"prefill", "ready"} => runner.chunks # <<>>
  /\ phase = "ready" /\ dialog.validated # None => Last(runner.chunks).last <= dialog.validated
  /\ dialog.validated # None => Reaches(directory.files, dialog.validated)
  /\ runner.prefill = None \/ (phase = "ready" /\ runner.prefill = PrefillOf(directory.files))

(* The cache is behind the dialog only once the runner has been validated, *)
(* and then the runner is not told to read it again.                       *)
DialogInv ==
  /\ dialog.pass = "decode" =>
       /\ phase = "ready" /\ runner.synced
       /\ dialog.past \in 1 .. MaxPast - 1 /\ dialog.next \in 1 .. Len(runner.chunks) + 1
  /\ runner.synced => phase = "ready" /\ dialog.past >= 1
  /\ phase \in {"decode", "prefill", "ready"} =>
       \/ dialog.cached \in {0, dialog.past}
       \/ dialog.validated # None /\ phase = "ready" /\ runner.synced

(* A shape that the runner remembers is the one its context has.           *)
ShapeInv ==
  /\ phase # "ready" => \A i \in 1 .. Len(runner.chunks) : runner.selected[i] = None
  /\ phase = "ready" =>
       /\ Len(npu.decode) = Len(runner.chunks)
       /\ \A i \in 1 .. Len(runner.chunks) :
            /\ runner.selected[i] # None => npu.decode[i] = runner.selected[i]
            /\ runner.chunks[i].class # "dynamic" => npu.decode[i] = Max(runner.chunks[i].buckets)

(* The positions of layers of chunk i: this pass has been there or not.    *)
PastAt(i) == dialog.past + (IF dialog.pass = "decode" /\ i < dialog.next THEN 1 ELSE 0)

KvInv ==
  phase = "ready" /\ runner.synced =>
    \A i \in 1 .. Len(runner.chunks) : \A l \in ChunkLayers(runner.chunks[i]) \cap Layers :
      EntryRight(runner.kv[l], dialog.number, PastAt(i))

InputRight(in, number) ==
  /\ in.shape = in.bucket /\ in.bucket >= in.past /\ in.past = in.at /\ in.at \in Nat
  /\ \A l \in DOMAIN in.native : in.native[l] = NativeK(number, in.at, in.bucket, in.format)

InputInv == input # NoInput => InputRight(input, dialog.number)

IInv ==
  /\ Typed /\ LoadInv /\ DialogInv /\ ShapeInv
  /\ Gapless(directory) => KvInv /\ InputInv

-----------------------------------------------------------------------------
(* The directory is one of the constants.                                  *)
LEMMA GoodNow ==
  ASSUME Typed
  PROVE  GoodFiles(directory.files)
BY DirectoriesAssumption DEF Typed, GoodFiles

(* What the parts say of the runner in use.                                *)
LEMMA ChunksNow ==
  ASSUME Typed, LoadInv
  PROVE  /\ runner.chunks \in Seq(directory.files) /\ Len(runner.chunks) \in Nat
         /\ DOMAIN runner.chunks = 1 .. Len(runner.chunks)
         /\ runner.selected \in Seq(Nat \cup {None}) /\ Len(runner.selected) = Len(runner.chunks)
         /\ \A i \in 1 .. Len(runner.chunks) :
              /\ runner.chunks[i] \in directory.files
              /\ runner.chunks[i].first \in Nat /\ runner.chunks[i].last \in Nat
              /\ runner.chunks[i].first <= runner.chunks[i].last
<1>1. runner.chunks \in Seq(directory.files)
  BY DEF LoadInv, Chain
<1>2. runner.selected \in Seq(Nat \cup {None}) /\ Len(runner.selected) = Len(runner.chunks)
  BY DEF LoadInv, Typed, RunnerType
<1>3. GoodFiles(directory.files)
  BY GoodNow
<1>4. \A i \in 1 .. Len(runner.chunks) :
        /\ runner.chunks[i] \in directory.files
        /\ runner.chunks[i].first \in Nat /\ runner.chunks[i].last \in Nat
        /\ runner.chunks[i].first <= runner.chunks[i].last
  BY <1>1, <1>3, FileIs, ChainAt DEF LoadInv
<1> QED BY <1>1, <1>2, <1>4

(* A directory is a set of files, of which there are chunks.               *)
LEMMA ChunksAreFiles ==
  ASSUME NEW D, GoodFiles(D), NEW c \in Seq(D)
  PROVE  c \in Seq(Files)
BY DEF GoodFiles

(* The empty chain.                                                        *)
LEMMA UnloadedIs ==
  /\ RunnerType(Unloaded)
  /\ Unloaded.chunks = <<>> /\ Unloaded.prefill = None /\ Unloaded.selected = <<>>
  /\ Unloaded.synced = FALSE /\ Len(Unloaded.chunks) = 0
  /\ \A D : Chain(D, <<>>)
  /\ Start(<<>>, 1) = 0
<1>1. \A D : Chain(D, <<>>)
  BY DEF Chain
<1>2. RunnerType(Unloaded)
  BY DEF RunnerType, Unloaded
<1> QED BY <1>1, <1>2 DEF Unloaded, Start

(* Shrinking.                                                              *)
LEMMA ShrunkIs ==
  ASSUME RunnerType(runner), NEW c \in Seq(Files), Len(c) <= Len(runner.selected)
  PROVE  /\ RunnerType(Shrunk(c))
         /\ Shrunk(c).chunks = c /\ Shrunk(c).prefill = runner.prefill /\ Shrunk(c).synced = FALSE
         /\ Len(Shrunk(c).selected) = Len(c)
         /\ \A i \in 1 .. Len(c) : Shrunk(c).selected[i] = runner.selected[i]
<1> DEFINE s == SubSeq(runner.selected, 1, Len(c))
           kv == Shrunk(c).kv
<1>1. runner.selected \in Seq(Nat \cup {None})
  BY DEF RunnerType
<1>2. s \in Seq(Nat \cup {None}) /\ Len(s) = Len(c) /\ \A i \in 1 .. Len(c) : s[i] = runner.selected[i]
  BY <1>1
<1> HIDE DEF s
<1>3. /\ Shrunk(c).chunks = c /\ Shrunk(c).prefill = runner.prefill /\ Shrunk(c).synced = FALSE
      /\ Shrunk(c).selected = s
      /\ Shrunk(c) \in [chunks : {c}, prefill : {runner.prefill}, kv : {kv}, selected : {s},
                        synced : {FALSE}]
  BY DEF RunnerType, Shrunk, s
<1> HIDE DEF kv
<1>4. RunnerType(Shrunk(c))
  BY <1>2, <1>3 DEF RunnerType, kv
<1> QED BY <1>2, <1>3, <1>4

(* The invariant holds at first.                                           *)
LEMMA InitIInv ==
  ASSUME Init
  PROVE  IInv
<1>1. /\ phase = "decode" /\ expected = 0 /\ runner = Unloaded /\ dialog = NewDialog(1)
      /\ input = NoInput /\ directory \in Directories /\ npu = [decode |-> <<>>, prefill |-> <<>>]
  BY DEF Init
<1>2. DialogType(dialog) /\ dialog.validated = None /\ dialog.pass = "idle" /\ dialog.cached = 0
  BY <1>1, BoundsAssumption DEF DialogType, NewDialog
<1>3. NpuType(npu)
  BY <1>1 DEF NpuType
<1>4. Typed
  BY <1>1, <1>2, <1>3, UnloadedIs DEF Typed, Phases
<1>5. LoadInv
  BY <1>1, <1>2, UnloadedIs DEF LoadInv
<1>6. DialogInv
  BY <1>1, <1>2, UnloadedIs DEF DialogInv
<1>7. ShapeInv /\ KvInv /\ InputInv
  BY <1>1, UnloadedIs DEF ShapeInv, KvInv, InputInv
<1> QED BY <1>4, <1>5, <1>6, <1>7 DEF IInv

-----------------------------------------------------------------------------
(* The runner is given up, for good or to be loaded again.                 *)
LEMMA GoneStep ==
  ASSUME IInv, directory' = directory, npu' = npu, runner' = Unloaded,
         (phase' \in {"released", "aborted"} /\ expected' = expected) \/ (phase' = "decode" /\ expected' = 0),
         DialogType(dialog'), dialog'.pass # "decode", dialog'.number = dialog.number,
         dialog'.validated # None => Reaches(directory.files, dialog'.validated),
         phase' = "decode" => dialog'.cached \in {0, dialog'.past},
         input' = input
  PROVE  IInv'
<1>1. Typed'
  BY UnloadedIs DEF IInv, Typed, Phases, RunnerType, NpuType, DialogType
<1>2. LoadInv'
  BY UnloadedIs DEF LoadInv
<1>3. DialogInv'
  BY UnloadedIs DEF DialogInv
<1>4. ShapeInv' /\ KvInv'
  BY UnloadedIs DEF ShapeInv, KvInv
<1>5. Gapless(directory)' => InputInv'
  BY DEF IInv, InputInv, Gapless
<1> QED BY <1>1, <1>2, <1>3, <1>4, <1>5 DEF IInv

(* One more chunk.                                                         *)
LEMMA LoadChunkStep ==
  ASSUME IInv, LoadChunk
  PROVE  IInv'
<1> DEFINE D == directory.files
           f == FirstOf(FilesAt(D, expected))
           c == runner.chunks
<1>1. Typed /\ LoadInv /\ DialogInv
  BY DEF IInv
<1>2. GoodFiles(D)
  BY <1>1, GoodNow
<1>3. /\ phase = "decode" /\ FilesAt(D, expected) # {}
      /\ runner' = [runner EXCEPT !.chunks = Append(@, f), !.selected = Append(@, None)]
      /\ expected' = f.last + 1
      /\ directory' = directory /\ phase' = phase /\ npu' = npu /\ dialog' = dialog /\ input' = input
  BY NextFilesIs DEF LoadChunk
<1>4. f \in D /\ f \in Files /\ f.last \in Nat
  BY <1>2, <1>3, FilesAtIs, FileIs
<1>5. expected = Start(c, Len(c) + 1) /\ Chain(D, c)
  BY <1>1, <1>3 DEF LoadInv
<1>6. Chain(D, Append(c, f)) /\ f.last + 1 = Start(Append(c, f), Len(c) + 2)
  BY <1>2, <1>3, <1>5, ChainAppend
<1>7. c \in Seq(Files) /\ runner.selected \in Seq(Nat \cup {None}) /\ Len(runner.selected) = Len(c)
  BY <1>1 DEF Typed, RunnerType, LoadInv
<1> HIDE DEF f
<1>8. /\ runner'.chunks = Append(c, f) /\ runner'.selected = Append(runner.selected, None)
      /\ runner'.prefill = runner.prefill /\ runner'.synced = runner.synced
      /\ runner' \in [chunks : {Append(c, f)}, prefill : {runner.prefill}, kv : {runner.kv},
                      selected : {Append(runner.selected, None)}, synced : BOOLEAN]
  BY <1>1, <1>3 DEF Typed, RunnerType
<1>9. /\ Append(c, f) \in Seq(Files) /\ Len(Append(c, f)) = Len(c) + 1 /\ Append(c, f) # <<>>
      /\ Append(runner.selected, None) \in Seq(Nat \cup {None})
      /\ Len(Append(runner.selected, None)) = Len(c) + 1
      /\ Len(c) \in Nat
  BY <1>4, <1>7
<1>10. RunnerType(runner')
  BY <1>8, <1>9 DEF RunnerType
<1>11. Typed'
  BY <1>1, <1>3, <1>4, <1>10 DEF Typed, NpuType, DialogType, RunnerType
<1>12. LoadInv'
  <2>1. Len(c) + 2 = (Len(c) + 1) + 1
    BY <1>9
  <2>2. expected' = Start(Append(c, f), Len(Append(c, f)) + 1)
    BY <1>3, <1>6, <1>9, <2>1
  <2>3. runner.prefill = None
    BY <1>1, <1>3 DEF LoadInv
  <2> HIDE DEF c
  <2> QED BY <1>1, <1>3, <1>6, <1>8, <1>9, <2>2, <2>3 DEF LoadInv
<1>13. DialogInv'
  BY <1>1, <1>3, <1>8 DEF DialogInv
<1>14. ShapeInv' /\ KvInv'
  <2>1. \A i \in 1 .. Len(c) : runner.selected[i] = None
    BY <1>3 DEF IInv, ShapeInv
  <2>2. \A i \in 1 .. Len(c) + 1 : Append(runner.selected, None)[i] = None
    BY <1>7, <2>1
  <2> HIDE DEF c
  <2> QED BY <1>3, <1>8, <1>9, <2>2 DEF ShapeInv, KvInv
<1>15. Gapless(directory)' => InputInv'
  BY <1>3 DEF IInv, InputInv, Gapless
<1> QED BY <1>11, <1>12, <1>13, <1>14, <1>15 DEF IInv

(* No more chunks.                                                         *)
LEMMA StopLoadingStep ==
  ASSUME IInv, StopLoading
  PROVE  IInv'
<1>1. Typed /\ LoadInv /\ DialogInv
  BY DEF IInv
<1>2. /\ phase = "decode"
      /\ directory' = directory /\ expected' = expected /\ runner' = runner /\ npu' = npu
      /\ dialog' = dialog /\ input' = input
      /\ phase' = IF runner.chunks = <<>> THEN "refused" ELSE "prefill"
  BY DEF StopLoading
<1>3. Typed'
  BY <1>1, <1>2 DEF Typed, Phases, RunnerType, NpuType, DialogType
<1>4. LoadInv'
  BY <1>1, <1>2 DEF LoadInv
<1>5. DialogInv'
  BY <1>1, <1>2 DEF DialogInv
<1>6. ShapeInv' /\ KvInv'
  BY <1>2 DEF IInv, ShapeInv, KvInv
<1>7. Gapless(directory)' => InputInv'
  BY <1>2 DEF IInv, InputInv, Gapless
<1> QED BY <1>3, <1>4, <1>5, <1>6, <1>7 DEF IInv

(* The chunks that validation left, each in the shape of its longest.      *)
LEMMA LoadPrefillStep ==
  ASSUME IInv, LoadPrefill
  PROVE  IInv'
<1> DEFINE D == directory.files
           a == Accepted
           p == PrefillOf(D)
           shapes == [i \in DOMAIN a |-> Max(a[i].buckets)]
<1>1. Typed /\ LoadInv /\ DialogInv
  BY DEF IInv
<1>2. GoodFiles(D)
  BY <1>1, GoodNow
<1>3. /\ phase = "prefill" /\ phase' = "ready"
      /\ runner' = [Shrunk(a) EXCEPT !.prefill = p]
      /\ npu' = [decode |-> shapes,
                 prefill |-> IF p = None THEN <<>> ELSE [f \in p |-> Max(f.buckets)]]
      /\ directory' = directory /\ expected' = expected /\ dialog' = dialog /\ input' = input
  BY PrefillNow DEF LoadPrefill
<1> HIDE DEF p
<1>4. Chain(D, runner.chunks) /\ runner.chunks # <<>> /\ Len(runner.selected) = Len(runner.chunks)
      /\ (dialog.validated # None => dialog.validated \in Nat /\ Reaches(D, dialog.validated))
  BY <1>1, <1>3 DEF LoadInv, Typed, DialogType
<1>5. /\ Chain(D, a) /\ a # <<>> /\ Len(a) <= Len(runner.chunks)
      /\ dialog.validated # None => Last(a).last <= dialog.validated
  BY <1>2, <1>4, AcceptedIs
<1> HIDE DEF a
<1>6. a \in Seq(D) /\ a \in Seq(Files) /\ DOMAIN a = 1 .. Len(a) /\ Len(a) \in Nat
      /\ \A i \in 1 .. Len(a) : a[i] \in D
  <2>1. a \in Seq(D)
    BY <1>5 DEF Chain
  <2> QED BY <1>2, <2>1, ChunksAreFiles
<1>7. /\ RunnerType(Shrunk(a)) /\ Shrunk(a).chunks = a /\ Shrunk(a).synced = FALSE
      /\ Len(Shrunk(a).selected) = Len(a)
      /\ \A i \in 1 .. Len(a) : Shrunk(a).selected[i] = runner.selected[i]
  BY <1>1, <1>4, <1>5, <1>6, ShrunkIs DEF Typed
<1>8. /\ RunnerType(runner') /\ runner'.chunks = a /\ runner'.prefill = p /\ runner'.synced = FALSE
      /\ runner'.selected = Shrunk(a).selected
  <2> DEFINE s == Shrunk(a)
  <2>1. runner' = [s EXCEPT !.prefill = p] /\ RunnerType(s) /\ s.chunks = a /\ s.synced = FALSE
    BY <1>3, <1>7
  <2> HIDE DEF s
  <2>2. /\ runner' \in [chunks : Seq(Files), prefill : {p}, kv : {s.kv},
                       selected : Seq(Nat \cup {None}), synced : BOOLEAN]
        /\ runner'.chunks = a /\ runner'.prefill = p /\ runner'.synced = FALSE
        /\ runner'.selected = s.selected /\ runner'.kv = s.kv
    BY <2>1 DEF RunnerType
  <2> QED BY <2>2 DEF RunnerType, s
<1>9. shapes \in Seq(Nat) /\ Len(shapes) = Len(a) /\ \A i \in 1 .. Len(a) : shapes[i] = Max(a[i].buckets)
  <2>1. \A i \in 1 .. Len(a) : Max(a[i].buckets) \in Nat
    BY <1>2, <1>6, FileIs
  <2>2. shapes \in [1 .. Len(a) -> Nat]
    BY <1>6, <2>1
  <2>3. shapes \in Seq(Nat)
    BY <1>6, <2>2
  <2> QED BY <1>6, <2>3
<1>10. npu'.decode = shapes /\ NpuType(npu')
  <2> HIDE DEF shapes
  <2> QED BY <1>3, <1>9 DEF NpuType
<1> HIDE DEF shapes
<1>11. Typed'
  BY <1>1, <1>3, <1>8, <1>10 DEF Typed, Phases, RunnerType, NpuType, DialogType
<1>12. LoadInv'
  BY <1>1, <1>3, <1>5, <1>7, <1>8 DEF LoadInv, p
<1>13. DialogInv'
  BY <1>1, <1>3, <1>8 DEF DialogInv
<1>14. ShapeInv'
  <2>1. \A i \in 1 .. Len(a) : runner.selected[i] = None
    BY <1>3, <1>5, <1>6 DEF IInv, ShapeInv
  <2>2. \A i \in 1 .. Len(a) : runner'.selected[i] = None
    BY <1>7, <1>8, <2>1
  <2> QED BY <1>3, <1>8, <1>9, <1>10, <2>2 DEF ShapeInv
<1>15. KvInv'
  BY <1>8 DEF KvInv
<1>16. Gapless(directory)' => InputInv'
  BY <1>3 DEF IInv, InputInv, Gapless
<1> QED BY <1>11, <1>12, <1>13, <1>14, <1>15, <1>16 DEF IInv

-----------------------------------------------------------------------------
(* Nothing of what loading left changes.                                   *)
LEMMA LoadSame ==
  ASSUME LoadInv, directory' = directory, phase' = phase, expected' = expected,
         runner'.chunks = runner.chunks, Len(runner'.selected) = Len(runner.selected),
         runner'.prefill = runner.prefill, dialog'.validated = dialog.validated
  PROVE  LoadInv'
BY DEF LoadInv

(* A new dialog.                                                           *)
LEMMA ResetStep ==
  ASSUME IInv, Reset
  PROVE  IInv'
<1> DEFINE n == Len(runner.chunks)
           d == NewDialog(dialog.number + 1)
<1>1. Typed /\ LoadInv /\ ShapeInv
  BY DEF IInv
<1>2. /\ phase = "ready" /\ dialog.number < MaxDialogs
      /\ dialog' = d /\ runner' = Cleared /\ input' = NoInput
      /\ directory' = directory /\ phase' = phase /\ expected' = expected /\ npu' = npu
  BY DEF Reset
<1>3. n \in Nat
  BY <1>1, ChunksNow
<1>4. Unselected(n) \in Seq(Nat \cup {None}) /\ Len(Unselected(n)) = n
      /\ \A i \in 1 .. n : Unselected(n)[i] = None
  BY <1>3 DEF Unselected
<1>5. /\ runner'.chunks = runner.chunks /\ runner'.prefill = runner.prefill
      /\ runner'.selected = Unselected(n) /\ runner'.synced = FALSE
      /\ runner' \in [chunks : {runner.chunks}, prefill : {runner.prefill}, kv : {NoKv},
                      selected : {Unselected(n)}, synced : {FALSE}]
  BY <1>1, <1>2 DEF Typed, RunnerType, Cleared
<1>6. RunnerType(runner')
  BY <1>1, <1>4, <1>5 DEF Typed, RunnerType
<1>7. /\ DialogType(dialog') /\ dialog'.validated = None /\ dialog'.pass = "idle"
      /\ dialog'.cached = 0 /\ dialog'.past = 0
  <2>1. dialog.number + 1 \in 1 .. MaxDialogs
    BY <1>1, <1>2, BoundsAssumption DEF Typed, DialogType
  <2> QED BY <1>2, <2>1, BoundsAssumption DEF DialogType, NewDialog
<1>8. Typed'
  BY <1>1, <1>2, <1>6, <1>7 DEF Typed, RunnerType, NpuType, DialogType
<1>9. LoadInv'
  BY <1>1, <1>2, <1>4, <1>5, <1>7 DEF LoadInv
<1>10. DialogInv'
  BY <1>5, <1>7 DEF DialogInv
<1>11. ShapeInv'
  BY <1>1, <1>2, <1>4, <1>5 DEF ShapeInv
<1>12. KvInv' /\ InputInv'
  BY <1>2, <1>5 DEF KvInv, InputInv
<1> QED BY <1>8, <1>9, <1>10, <1>11, <1>12 DEF IInv

(* The prompt of a dialog is the first pass: the runner has nothing of it. *)
LEMMA SoftwarePromptStep ==
  ASSUME IInv, NEW n \in 1 .. MaxPast - 1, SoftwarePrompt(n)
  PROVE  IInv'
<1>1. Typed /\ LoadInv /\ DialogInv /\ ShapeInv
  BY DEF IInv
<1>2. /\ phase = "ready" /\ dialog.pass = "idle" /\ dialog.past = 0
      /\ dialog' = [dialog EXCEPT !.past = n, !.cached = n]
      /\ directory' = directory /\ phase' = phase /\ expected' = expected /\ runner' = runner
      /\ npu' = npu /\ input' = input
  BY DEF SoftwarePrompt
<1>3. /\ DialogType(dialog') /\ dialog'.validated = dialog.validated /\ dialog'.pass = "idle"
      /\ dialog'.cached = n /\ dialog'.past = n /\ dialog'.number = dialog.number
  <2>1. n \in 0 .. MaxPast
    BY BoundsAssumption
  <2> QED BY <1>1, <1>2, <2>1 DEF Typed, DialogType
<1>4. runner.synced = FALSE
  BY <1>1, <1>2 DEF DialogInv, Typed, RunnerType
<1>5. Typed'
  BY <1>1, <1>2, <1>3 DEF Typed, RunnerType, NpuType, DialogType
<1>6. LoadInv'
  BY <1>1, <1>2, <1>3, LoadSame
<1>7. DialogInv'
  BY <1>2, <1>3, <1>4 DEF DialogInv
<1>8. ShapeInv'
  BY <1>1, <1>2 DEF ShapeInv
<1>9. KvInv'
  BY <1>2, <1>4 DEF KvInv
<1>10. Gapless(directory)' => InputInv'
  BY <1>2, <1>3 DEF IInv, InputInv, Gapless
<1> QED BY <1>5, <1>6, <1>7, <1>8, <1>9, <1>10 DEF IInv

(* Behind the prefill chunks every layer has an entry.                     *)
LEMMA PrefillPassStep ==
  ASSUME IInv, NEW n \in 1 .. MaxPast - 1, NEW adds, PrefillPass(n, adds)
  PROVE  IInv'
<1> DEFINE m == Len(runner.chunks)
           kv == [l \in Layers |-> PrefilledEntry(ChunkOf(l), n)]
           cached == IF LastLayer + 1 = NumLayers THEN 0 ELSE n
           shapes == [f \in DOMAIN npu.prefill |-> n]
<1>1. Typed /\ LoadInv /\ DialogInv /\ ShapeInv
  BY DEF IInv
<1>2. /\ phase = "ready" /\ dialog.pass = "idle" /\ dialog.past = 0
      /\ dialog' = [dialog EXCEPT !.past = n, !.cached = cached]
      /\ runner' = [runner EXCEPT !.kv = kv, !.synced = TRUE, !.selected = Unselected(m)]
      /\ npu' = [npu EXCEPT !.prefill = shapes]
      /\ directory' = directory /\ phase' = phase /\ expected' = expected /\ input' = input
  BY DEF PrefillPass
<1> HIDE DEF shapes
<1>3. cached \in {0, n}
  OBVIOUS
<1> HIDE DEF cached
<1>4. /\ DialogType(dialog') /\ dialog'.validated = dialog.validated /\ dialog'.pass = "idle"
      /\ dialog'.cached \in {0, n} /\ dialog'.past = n /\ dialog'.number = dialog.number
  <2>1. n \in 0 .. MaxPast /\ 0 \in 0 .. MaxPast
    BY BoundsAssumption
  <2> QED BY <1>1, <1>2, <1>3, <2>1 DEF Typed, DialogType
<1>5. m \in Nat
  BY <1>1, ChunksNow
<1>6. Unselected(m) \in Seq(Nat \cup {None}) /\ Len(Unselected(m)) = m
      /\ \A i \in 1 .. m : Unselected(m)[i] = None
  BY <1>5 DEF Unselected
<1>7. \A l \in Layers : kv[l] = Bare(dialog.number, n)
  BY PrefilledIs
<1> HIDE DEF kv
<1>8. /\ runner'.chunks = runner.chunks /\ runner'.prefill = runner.prefill
      /\ runner'.selected = Unselected(m) /\ runner'.synced = TRUE /\ runner'.kv = kv
      /\ runner' \in [chunks : {runner.chunks}, prefill : {runner.prefill}, kv : {kv},
                      selected : {Unselected(m)}, synced : {TRUE}]
  BY <1>1, <1>2 DEF Typed, RunnerType
<1>9. RunnerType(runner')
  BY <1>1, <1>6, <1>8 DEF Typed, RunnerType
<1>10. NpuType(npu') /\ npu'.decode = npu.decode
  BY <1>1, <1>2 DEF Typed, NpuType
<1>11. Typed'
  BY <1>1, <1>2, <1>4, <1>9, <1>10 DEF Typed, RunnerType, NpuType, DialogType
<1>12. LoadInv'
  <2>1. Len(runner.selected) = m
    BY <1>1 DEF LoadInv
  <2> QED BY <1>1, <1>2, <1>4, <1>6, <1>8, <2>1, LoadSame
<1>13. DialogInv'
  BY <1>2, <1>4, <1>8 DEF DialogInv
<1>14. ShapeInv'
  BY <1>1, <1>2, <1>6, <1>8, <1>10 DEF ShapeInv
<1>15. KvInv'
  <2>1. \A i : PastAt(i)' = n
    BY <1>4 DEF PastAt
  <2>2. \A l \in Layers : EntryRight(runner'.kv[l], dialog'.number, n)
    BY <1>4, <1>7, <1>8 DEF EntryRight
  <2> QED BY <2>1, <2>2 DEF KvInv
<1>16. Gapless(directory)' => InputInv'
  BY <1>2, <1>4 DEF IInv, InputInv, Gapless
<1> QED BY <1>11, <1>12, <1>13, <1>14, <1>15, <1>16 DEF IInv

(* A prefill chunk failed.                                                 *)
LEMMA PrefillFailsStep ==
  ASSUME IInv, NEW n \in 1 .. MaxPast - 1, NEW adds, PrefillFails(n, adds)
  PROVE  IInv'
<1> DEFINE refused == \E f \in runner.prefill : ~AddsTaken(f, adds)
<1>1. Typed /\ LoadInv
  BY DEF IInv
<1>2. /\ dialog.pass = "idle" /\ phase' = "released" /\ runner' = Unloaded /\ expected' = expected
      /\ dialog' = [dialog EXCEPT !.past = n, !.cached = n, !.refused = refused]
      /\ directory' = directory /\ npu' = npu /\ input' = input
  BY DEF PrefillFails, Release
<1>3. refused \in BOOLEAN
  OBVIOUS
<1> HIDE DEF refused
<1>4. /\ DialogType(dialog') /\ dialog'.validated = dialog.validated /\ dialog'.pass = "idle"
      /\ dialog'.number = dialog.number
  <2>1. n \in 0 .. MaxPast
    BY BoundsAssumption
  <2> QED BY <1>1, <1>2, <1>3, <2>1 DEF Typed, DialogType
<1>5. dialog'.validated # None => Reaches(directory.files, dialog'.validated)
  BY <1>1, <1>4 DEF LoadInv
<1> QED BY <1>2, <1>4, <1>5, GoneStep

(* A pass starts, from the runner's own entries or from the cache: from    *)
(* the cache only while that is as far as the dialog.                      *)
LEMMA StartDecodeStep ==
  ASSUME IInv, StartDecode
  PROVE  IInv'
<1> DEFINE kv == [l \in Layers |-> IF l <= LastLayer
                                   THEN Entry(dialog.cached, Positions(dialog.cached))
                                   ELSE runner.kv[l]]
<1>1. Typed /\ LoadInv /\ DialogInv /\ ShapeInv
  BY DEF IInv
<1>2. /\ phase = "ready" /\ dialog.pass = "idle" /\ dialog.past \in 1 .. MaxPast - 1
      /\ runner.synced \/ CanSync
      /\ runner' = IF runner.synced THEN runner ELSE FromCache
      /\ dialog' = [dialog EXCEPT !.pass = "decode", !.next = 1]
      /\ directory' = directory /\ phase' = phase /\ expected' = expected /\ npu' = npu
      /\ input' = input
  BY DEF StartDecode
<1>3. /\ DialogType(dialog') /\ dialog'.validated = dialog.validated /\ dialog'.pass = "decode"
      /\ dialog'.cached = dialog.cached /\ dialog'.past = dialog.past
      /\ dialog'.number = dialog.number /\ dialog'.next = 1
  BY <1>1, <1>2 DEF Typed, DialogType
<1>4. CASE runner.synced
  <2>1. runner' = runner
    BY <1>2, <1>4
  <2>2. Typed'
    BY <1>1, <1>2, <1>3, <2>1 DEF Typed, RunnerType, NpuType, DialogType
  <2>3. LoadInv'
    BY <1>1, <1>2, <1>3, <2>1, LoadSame
  <2>4. DialogInv'
    <3>1. 1 \in 1 .. Len(runner.chunks) + 1
      BY <1>1, ChunksNow
    <3> QED BY <1>1, <1>2, <1>3, <1>4, <2>1, <3>1 DEF DialogInv
  <2>5. ShapeInv'
    BY <1>1, <1>2, <2>1 DEF ShapeInv
  <2>6. KvInv => KvInv'
    <3>1. \A i \in 1 .. Len(runner.chunks) : PastAt(i)' = PastAt(i)
      BY <1>2, <1>3 DEF PastAt
    <3> QED BY <1>2, <1>3, <2>1, <3>1 DEF KvInv
  <2>7. Gapless(directory)' => KvInv' /\ InputInv'
    BY <1>2, <1>3, <2>6 DEF IInv, InputInv, Gapless
  <2> QED BY <2>2, <2>3, <2>4, <2>5, <2>7 DEF IInv
<1>5. CASE ~ runner.synced
  <2>1. runner' = [runner EXCEPT !.synced = TRUE, !.kv = kv]
    BY <1>2, <1>5 DEF FromCache
  <2>2. dialog.cached = dialog.past /\ dialog.past \in Nat
    BY <1>1, <1>2, <1>5 DEF CanSync, DialogInv, Typed, DialogType
  <2>3. \A l \in Layers : l <= LastLayer => kv[l] = Bare(dialog.number, dialog.past)
    BY <2>2, PositionsNow DEF Bare
  <2> HIDE DEF kv
  <2>4. /\ runner'.chunks = runner.chunks /\ runner'.prefill = runner.prefill
        /\ runner'.selected = runner.selected /\ runner'.synced = TRUE /\ runner'.kv = kv
        /\ RunnerType(runner')
    BY <1>1, <2>1 DEF Typed, RunnerType
  <2>5. Typed'
    BY <1>1, <1>2, <1>3, <2>4 DEF Typed, RunnerType, NpuType, DialogType
  <2>6. LoadInv'
    BY <1>1, <1>2, <1>3, <2>4, LoadSame
  <2>7. DialogInv'
    <3>1. 1 \in 1 .. Len(runner.chunks) + 1
      BY <1>1, ChunksNow
    <3> QED BY <1>2, <1>3, <2>2, <2>4, <3>1 DEF DialogInv
  <2>8. ShapeInv'
    BY <1>1, <1>2, <2>4 DEF ShapeInv
  <2>9. KvInv'
    <3> SUFFICES ASSUME NEW i \in 1 .. Len(runner.chunks),
                        NEW l \in ChunkLayers(runner.chunks[i]) \cap Layers
                 PROVE  EntryRight(kv[l], dialog.number, PastAt(i)')
      BY <1>3, <2>4 DEF KvInv
    <3>1. PastAt(i)' = dialog.past
      BY <1>3, <2>2 DEF PastAt
    <3>2. l <= LastLayer
      <4>1. GoodFiles(directory.files) /\ Chain(directory.files, runner.chunks)
        BY <1>1, GoodNow DEF LoadInv
      <4>2. /\ Len(runner.chunks) \in 1 .. Len(runner.chunks) /\ i <= Len(runner.chunks)
            /\ runner.chunks[i].last \in Nat /\ LastLayer = runner.chunks[Len(runner.chunks)].last
            /\ runner.chunks[i].first \in Nat
            /\ LastLayer \in Nat
            /\ runner.chunks[Len(runner.chunks)].first \in Nat
            /\ runner.chunks[Len(runner.chunks)].first <= runner.chunks[Len(runner.chunks)].last
        BY <1>1, ChunksNow DEF LastLayer, Last
      <4>3. l \in Int /\ l <= runner.chunks[i].last
        BY <4>2 DEF ChunkLayers
      <4>4. CASE i = Len(runner.chunks)
        BY <4>2, <4>3, <4>4
      <4>5. CASE i < Len(runner.chunks)
        <5>1. runner.chunks[i].last < runner.chunks[Len(runner.chunks)].first
          BY <4>1, <4>2, <4>5, ChainOrder
        <5> QED BY <4>2, <4>3, <5>1
      <4> QED BY <4>2, <4>4, <4>5
    <3> QED BY <2>3, <3>1, <3>2 DEF EntryRight
  <2>10. Gapless(directory)' => InputInv'
    BY <1>2, <1>3 DEF IInv, InputInv, Gapless
  <2> QED BY <2>5, <2>6, <2>7, <2>8, <2>9, <2>10 DEF IInv
<1> QED BY <1>4, <1>5

(* A decode step failed, or has nothing to start from.                     *)
LEMMA DecodeFailsStep ==
  ASSUME IInv, DecodeFails
  PROVE  IInv'
<1>1. Typed /\ LoadInv
  BY DEF IInv
<1>2. /\ phase' = "released" /\ runner' = Unloaded /\ expected' = expected
      /\ dialog' = [dialog EXCEPT !.pass = "failed"]
      /\ directory' = directory /\ npu' = npu /\ input' = input
  BY DEF DecodeFails, Release
<1>3. /\ DialogType(dialog') /\ dialog'.validated = dialog.validated /\ dialog'.pass = "failed"
      /\ dialog'.number = dialog.number
  BY <1>1, <1>2 DEF Typed, DialogType
<1>4. dialog'.validated # None => Reaches(directory.files, dialog'.validated)
  BY <1>1, <1>3 DEF LoadInv
<1> QED BY <1>2, <1>3, <1>4, GoneStep

(* The process is gone.                                                    *)
LEMMA DecodePanicsStep ==
  ASSUME IInv, DecodePanics
  PROVE  IInv'
<1>1. Typed /\ LoadInv
  BY DEF IInv
<1>2. /\ phase' = "aborted" /\ runner' = Unloaded /\ expected' = expected
      /\ dialog' = [dialog EXCEPT !.pass = "failed"]
      /\ directory' = directory /\ npu' = npu /\ input' = input
  BY DEF DecodePanics
<1>3. /\ DialogType(dialog') /\ dialog'.validated = dialog.validated /\ dialog'.pass = "failed"
      /\ dialog'.number = dialog.number
  BY <1>1, <1>2 DEF Typed, DialogType
<1>4. dialog'.validated # None => Reaches(directory.files, dialog'.validated)
  BY <1>1, <1>3 DEF LoadInv
<1> QED BY <1>2, <1>3, <1>4, GoneStep

(* What holds when all chunks have run.                                    *)
LEMMA DoneIs ==
  ASSUME IInv, Done
  PROVE  /\ phase = "ready" /\ runner.synced /\ dialog.past \in 1 .. MaxPast - 1
         /\ runner.chunks # <<>> /\ LastLayer = Last(runner.chunks).last /\ LastLayer \in Nat
         /\ Reaches(directory.files, LastLayer)
         /\ \A i \in 1 .. Len(runner.chunks) : i < dialog.next
<1> DEFINE c == runner.chunks
           D == directory.files
<1>1. Typed /\ LoadInv /\ DialogInv
  BY DEF IInv
<1>2. phase = "ready" /\ dialog.pass = "decode" /\ dialog.next > Len(c)
  BY DEF Done
<1>3. c # <<>> /\ Chain(D, c) /\ runner.synced /\ dialog.past \in 1 .. MaxPast - 1
      /\ dialog.next \in Nat
  BY <1>1, <1>2 DEF LoadInv, DialogInv, Typed, DialogType
<1>4. /\ Len(c) \in Nat /\ c \in Seq(D)
      /\ \A i \in 1 .. Len(c) : c[i].first \in Nat /\ c[i].last \in Nat /\ c[i].first <= c[i].last
  BY <1>1, ChunksNow
<1>5. 1 \in 1 .. Len(c) /\ Len(c) \in 1 .. Len(c)
  BY <1>3, <1>4
<1>6. GoodFiles(D)
  BY <1>1, GoodNow
<1> HIDE DEF c, D
<1>7. c[1].last <= c[Len(c)].last
  <2>1. CASE Len(c) = 1
    BY <1>4, <1>5, <2>1
  <2>2. CASE 1 < Len(c)
    <3>1. c[1].last < c[Len(c)].first
      BY <1>3, <1>5, <1>6, <2>2, ChainOrder
    <3>2. /\ c[1].last \in Nat /\ c[Len(c)].first \in Nat /\ c[Len(c)].last \in Nat
          /\ c[Len(c)].first <= c[Len(c)].last
      BY <1>4, <1>5
    <3> QED BY <3>1, <3>2
  <2> QED BY <1>4, <1>5, <2>1, <2>2
<1>8. FilesAt(D, 0) # {} /\ c[1] = FirstOf(FilesAt(D, 0))
  <2>1. FilesAt(D, Start(c, 1)) # {} /\ c[1] = FirstOf(FilesAt(D, Start(c, 1)))
    BY <1>3, <1>5 DEF Chain
  <2>2. Start(c, 1) = 0
    BY DEF Start
  <2> QED BY <2>1, <2>2
<1>9. LastLayer = c[Len(c)].last /\ LastLayer = Last(c).last /\ LastLayer \in Nat
  BY <1>4, <1>5 DEF LastLayer, Last, c
<1>10. Reaches(D, LastLayer)
  BY <1>7, <1>8, <1>9 DEF Reaches
<1>11. \A i \in 1 .. Len(c) : i < dialog.next
  BY <1>2, <1>3, <1>4 DEF c
<1> QED BY <1>2, <1>3, <1>9, <1>10, <1>11 DEF c, D

(* The pass ends.                                                          *)
LEMMA EndDecodeStep ==
  ASSUME IInv, EndDecode
  PROVE  IInv'
<1>1. Typed /\ LoadInv /\ DialogInv /\ ShapeInv
  BY DEF IInv
<1>2. /\ Done /\ dialog.validated # None
      /\ dialog' = [dialog EXCEPT !.pass = "idle", !.next = 0, !.past = @ + 1]
      /\ directory' = directory /\ phase' = phase /\ expected' = expected /\ runner' = runner
      /\ npu' = npu /\ input' = input
  BY DEF EndDecode
<1>3. /\ phase = "ready" /\ runner.synced /\ dialog.past \in 1 .. MaxPast - 1
      /\ \A i \in 1 .. Len(runner.chunks) : i < dialog.next
  BY <1>2, DoneIs
<1>4. /\ DialogType(dialog') /\ dialog'.validated = dialog.validated /\ dialog'.pass = "idle"
      /\ dialog'.cached = dialog.cached /\ dialog'.past = dialog.past + 1
      /\ dialog'.number = dialog.number
  <2>1. dialog.past + 1 \in 0 .. MaxPast
    BY <1>3, BoundsAssumption
  <2> QED BY <1>1, <1>2, <2>1 DEF Typed, DialogType
<1>5. Typed'
  BY <1>1, <1>2, <1>4 DEF Typed, RunnerType, NpuType, DialogType
<1>6. LoadInv'
  BY <1>1, <1>2, <1>4, LoadSame
<1>7. DialogInv'
  BY <1>2, <1>3, <1>4 DEF DialogInv
<1>8. ShapeInv'
  BY <1>1, <1>2 DEF ShapeInv
<1>9. KvInv => KvInv'
  <2>1. dialog.pass = "decode"
    BY <1>2 DEF Done
  <2>2. \A i \in 1 .. Len(runner.chunks) : PastAt(i)' = PastAt(i)
    BY <1>3, <1>4, <2>1 DEF PastAt
  <2> QED BY <1>2, <1>4, <2>2 DEF KvInv
<1>10. Gapless(directory)' => KvInv' /\ InputInv'
  BY <1>2, <1>4, <1>9 DEF IInv, InputInv, Gapless
<1> QED BY <1>5, <1>6, <1>7, <1>8, <1>10 DEF IInv

(* The comparison with software held: the runner is loaded again.          *)
LEMMA ValidatedStep ==
  ASSUME IInv, Validated
  PROVE  IInv'
<1>1. Typed /\ LoadInv
  BY DEF IInv
<1>2. /\ Done /\ dialog.cached = dialog.past
      /\ dialog' = [dialog EXCEPT !.pass = "idle", !.next = 0, !.validated = LastLayer]
      /\ phase' = "decode" /\ expected' = 0 /\ runner' = Unloaded
      /\ directory' = directory /\ npu' = npu /\ input' = input
  BY DEF Validated, Reload
<1>3. LastLayer \in Nat /\ Reaches(directory.files, LastLayer)
  BY <1>2, DoneIs
<1>4. /\ DialogType(dialog') /\ dialog'.validated = LastLayer /\ dialog'.pass = "idle"
      /\ dialog'.number = dialog.number /\ dialog'.cached = dialog'.past
  BY <1>1, <1>2, <1>3 DEF Typed, DialogType
<1> QED BY <1>2, <1>3, <1>4, GoneStep

(* It did not, and there are no chunks to spare.                           *)
LEMMA RejectedStep ==
  ASSUME IInv, Rejected
  PROVE  IInv'
<1>1. Typed /\ LoadInv
  BY DEF IInv
<1>2. /\ dialog' = [dialog EXCEPT !.pass = "idle", !.next = 0]
      /\ phase' = "released" /\ runner' = Unloaded /\ expected' = expected
      /\ directory' = directory /\ npu' = npu /\ input' = input
  BY DEF Rejected, Release, Again
<1>3. /\ DialogType(dialog') /\ dialog'.validated = dialog.validated /\ dialog'.pass = "idle"
      /\ dialog'.number = dialog.number
  BY <1>1, <1>2 DEF Typed, DialogType
<1>4. dialog'.validated # None => Reaches(directory.files, dialog'.validated)
  BY <1>1, <1>3 DEF LoadInv
<1> QED BY <1>2, <1>3, <1>4, GoneStep

(* Or there are.                                                           *)
LEMMA ShrinkStep ==
  ASSUME IInv, ShrinkLastChunk
  PROVE  IInv'
<1> DEFINE D == directory.files
           c == runner.chunks
           n == Len(c) - 1
           a == Front(c)
           shapes == Front(npu.decode)
<1>1. Typed /\ LoadInv /\ DialogInv /\ ShapeInv
  BY DEF IInv
<1>2. /\ Done /\ dialog.validated = None /\ Len(c) > 1
      /\ dialog' = [dialog EXCEPT !.pass = "idle", !.next = 0]
      /\ runner' = Shrunk(a) /\ npu' = [npu EXCEPT !.decode = shapes]
      /\ directory' = directory /\ phase' = phase /\ expected' = expected /\ input' = input
  BY DEF ShrinkLastChunk, Again
<1>3. phase = "ready"
  BY <1>2 DEF Done
<1>4. GoodFiles(D) /\ Chain(D, c) /\ c \in Seq(D) /\ Len(c) \in Nat /\ Len(runner.selected) = Len(c)
  BY <1>1, GoodNow, ChunksNow DEF LoadInv
<1>5. n \in 0 .. Len(c) /\ n >= 1 /\ n \in Nat
  BY <1>2, <1>4
<1>6. a = SubSeq(c, 1, n)
  BY DEF Front
<1>7. Chain(D, a) /\ Len(a) = n /\ \A i \in 1 .. n : a[i] = c[i]
  <2> HIDE DEF a, n
  <2> QED BY <1>4, <1>5, <1>6, ChainPrefix
<1>8. npu.decode \in Seq(Nat) /\ Len(npu.decode) = Len(c)
  BY <1>1, <1>3 DEF Typed, NpuType, ShapeInv
<1>9. shapes \in Seq(Nat) /\ Len(shapes) = n /\ \A i \in 1 .. n : shapes[i] = npu.decode[i]
  <2> DEFINE d == npu.decode
  <2>1. d \in Seq(Nat) /\ n \in 0 .. Len(d) /\ n \in Nat /\ shapes = SubSeq(d, 1, n)
    BY <1>5, <1>8 DEF Front
  <2> HIDE DEF d, n, shapes
  <2>2. shapes \in Seq(Nat) /\ Len(shapes) = n /\ \A i \in 1 .. n : shapes[i] = d[i]
    BY <2>1
  <2> QED BY <2>2 DEF d
<1> HIDE DEF a, shapes
<1>10. a \in Seq(Files) /\ a # <<>>
  BY <1>4, <1>5, <1>7, ChunksAreFiles DEF Chain
<1>11. /\ RunnerType(runner') /\ runner'.chunks = a /\ runner'.prefill = runner.prefill
       /\ runner'.synced = FALSE /\ Len(runner'.selected) = n
       /\ \A i \in 1 .. n : runner'.selected[i] = runner.selected[i]
  <2>1. RunnerType(runner) /\ Len(a) <= Len(runner.selected)
    BY <1>1, <1>4, <1>5, <1>7 DEF Typed
  <2> QED BY <1>2, <1>7, <1>10, <2>1, ShrunkIs
<1>12. NpuType(npu') /\ npu'.decode = shapes
  BY <1>1, <1>2, <1>9 DEF Typed, NpuType
<1>13. /\ DialogType(dialog') /\ dialog'.validated = None /\ dialog'.pass = "idle"
       /\ dialog'.number = dialog.number /\ dialog'.cached = dialog.cached /\ dialog'.past = dialog.past
  BY <1>1, <1>2 DEF Typed, DialogType
<1>14. Typed'
  BY <1>1, <1>2, <1>11, <1>12, <1>13 DEF Typed, RunnerType, NpuType, DialogType
<1>15. LoadInv'
  BY <1>1, <1>2, <1>3, <1>7, <1>10, <1>11, <1>13 DEF LoadInv
<1>16. DialogInv'
  BY <1>1, <1>2, <1>3, <1>11, <1>13 DEF DialogInv
<1>17. ShapeInv'
  <2>1. \A i \in 1 .. n : i \in 1 .. Len(c)
    BY <1>5
  <2>2. ASSUME NEW i \in 1 .. n
        PROVE  /\ runner'.selected[i] # None => npu'.decode[i] = runner'.selected[i]
               /\ a[i].class # "dynamic" => npu'.decode[i] = Max(a[i].buckets)
    <3>1. /\ runner.selected[i] # None => npu.decode[i] = runner.selected[i]
          /\ c[i].class # "dynamic" => npu.decode[i] = Max(c[i].buckets)
      BY <1>1, <1>3, <2>1 DEF ShapeInv
    <3>2. /\ npu'.decode[i] = npu.decode[i] /\ runner'.selected[i] = runner.selected[i]
          /\ a[i] = c[i]
      BY <1>7, <1>9, <1>11, <1>12
    <3> HIDE DEF c
    <3> QED BY <3>1, <3>2
  <2>3. Len(npu'.decode) = n /\ Len(runner'.chunks) = n /\ runner'.chunks = a /\ phase' = "ready"
    BY <1>2, <1>3, <1>7, <1>9, <1>11, <1>12
  <2> HIDE DEF n
  <2> QED BY <2>2, <2>3 DEF ShapeInv
<1>18. KvInv'
  BY <1>11 DEF KvInv
<1>19. Gapless(directory)' => InputInv'
  BY <1>2, <1>13 DEF IInv, InputInv, Gapless
<1> QED BY <1>14, <1>15, <1>16, <1>17, <1>18, <1>19 DEF IInv

(* Where a pass is when its next chunk runs.                               *)
LEMMA DecodingIs ==
  ASSUME IInv, Decoding, NEW chunk, chunk = runner.chunks[dialog.next]
  PROVE  /\ phase = "ready" /\ dialog.pass = "decode" /\ dialog.next \in 1 .. Len(runner.chunks)
         /\ runner.synced /\ dialog.past \in Nat \ {0} /\ dialog.number \in Nat
         /\ chunk \in directory.files /\ chunk.first \in ChunkLayers(chunk)
<1>1. Typed /\ LoadInv /\ DialogInv
  BY DEF IInv
<1>2. phase = "ready" /\ dialog.pass = "decode" /\ dialog.next \in DOMAIN runner.chunks
  BY DEF Decoding
<1>3. /\ dialog.next \in 1 .. Len(runner.chunks) /\ chunk \in directory.files
      /\ chunk.first \in Nat /\ chunk.last \in Nat /\ chunk.first <= chunk.last
  BY <1>1, <1>2, ChunksNow
<1>4. chunk.first \in ChunkLayers(chunk)
  <2>1. \A a, b \in Nat : a <= b => a \in a .. b
    OBVIOUS
  <2> QED BY <1>3, <2>1 DEF ChunkLayers
<1>5. runner.synced /\ dialog.past \in 1 .. MaxPast - 1
  BY <1>1, <1>2 DEF DialogInv
<1>6. dialog.number \in 1 .. MaxDialogs
  BY <1>1 DEF Typed, DialogType
<1>7. dialog.past \in Nat \ {0} /\ dialog.number \in Nat
  BY <1>5, <1>6, BoundsAssumption
<1> QED BY <1>2, <1>3, <1>4, <1>5, <1>7

(* What a step of chunk i reads and does.                                  *)
LEMMA RunChunkIs ==
  ASSUME IInv, RunChunk,
         NEW i, i = dialog.next, NEW chunk, chunk = runner.chunks[i],
         NEW past, past = runner.kv[chunk.first].past,
         NEW bucket, bucket = SelectBucket(chunk, past)
  PROVE  /\ phase = "ready" /\ dialog.pass = "decode" /\ i \in 1 .. Len(runner.chunks)
         /\ runner.synced /\ dialog.past \in Nat \ {0} /\ dialog.number \in Nat
         /\ chunk \in directory.files /\ HasEntries(chunk) /\ chunk.first \in ChunkLayers(chunk)
         /\ bucket >= past /\ bucket \in Nat /\ bucket \in chunk.buckets
         /\ npu' = (IF MustSet(i, bucket) THEN [npu EXCEPT !.decode[i] = bucket] ELSE npu)
         /\ input' = [at |-> dialog.past, bucket |-> bucket, shape |-> npu'.decode[i],
                      past |-> past, format |-> chunk.format,
                      native |-> [l \in ChunkLayers(chunk) |->
                                    EnsuredKv(chunk, bucket)[l].native.k]]
         /\ runner' = [runner EXCEPT
              !.selected[i] = IF chunk.class = "dynamic" THEN bucket ELSE @,
              !.kv = [l \in Layers |-> IF l \in ChunkLayers(chunk)
                                       THEN Updated(chunk, EnsuredKv(chunk, bucket)[l])
                                       ELSE EnsuredKv(chunk, bucket)[l]]]
         /\ dialog' = [dialog EXCEPT !.next = @ + 1]
         /\ directory' = directory /\ phase' = phase /\ expected' = expected
<1>1. Typed
  BY DEF IInv
<1>2. /\ phase = "ready" /\ dialog.pass = "decode" /\ i \in 1 .. Len(runner.chunks)
      /\ runner.synced /\ dialog.past \in Nat \ {0} /\ dialog.number \in Nat
      /\ chunk \in directory.files /\ chunk.first \in ChunkLayers(chunk)
  <2>1. Decoding /\ chunk = runner.chunks[dialog.next]
    BY DEF RunChunk
  <2> QED BY <2>1, DecodingIs
<1>3. bucket \in chunk.buckets /\ bucket \in Nat
  BY <1>1, <1>2, GoodNow, SelectIs
<1> QED BY <1>2, <1>3 DEF RunChunk

(* The contexts' shapes behind the step.                                   *)
NextNpu(i, bucket) == IF MustSet(i, bucket) THEN [npu EXCEPT !.decode[i] = bucket] ELSE npu

ShapedFor(new, i, bucket) ==
  /\ NpuType(new) /\ Len(new.decode) = Len(runner.chunks) /\ new.decode[i] = bucket
  /\ \A j \in 1 .. Len(runner.chunks) : j # i => new.decode[j] = npu.decode[j]

(* Other chunks keep their shapes, and this one has that of its buffers:   *)
(* it is set now, or it was when the runner remembered it, or no other can *)
(* be.                                                                     *)
LEMMA ShapeSet ==
  ASSUME Typed, LoadInv, ShapeInv, phase = "ready",
         NEW i \in 1 .. Len(runner.chunks), NEW bucket \in Nat, bucket \in runner.chunks[i].buckets
  PROVE  ShapedFor(NextNpu(i, bucket), i, bucket)
<1> DEFINE shapes == npu.decode
           chunk == runner.chunks[i]
           new == NextNpu(i, bucket)
<1>1. shapes \in Seq(Nat) /\ Len(shapes) = Len(runner.chunks) /\ Len(runner.chunks) \in Nat
  BY ChunksNow DEF Typed, NpuType, ShapeInv
<1>2. CASE MustSet(i, bucket)
  <2> DEFINE set == [shapes EXCEPT ![i] = bucket]
  <2>1. /\ set \in Seq(Nat) /\ Len(set) = Len(runner.chunks) /\ set[i] = bucket
        /\ \A j \in 1 .. Len(runner.chunks) : j # i => set[j] = shapes[j]
    BY <1>1
  <2>2. new = [npu EXCEPT !.decode = set]
    BY <1>2 DEF NextNpu
  <2> HIDE DEF set, new
  <2>3. new.decode = set /\ NpuType(new)
    BY <2>1, <2>2 DEF Typed, NpuType
  <2> QED BY <2>1, <2>3 DEF ShapedFor, new
<1>3. CASE ~ MustSet(i, bucket)
  <2>1. new = npu
    BY <1>3 DEF NextNpu
  <2>2. chunk.class # "dynamic" \/ runner.selected[i] = bucket
    BY <1>3 DEF MustSet
  <2>3. CASE runner.selected[i] = bucket
    <3>1. npu.decode[i] = bucket
      BY <2>3, NoneAssumption DEF ShapeInv
    <3> QED BY <1>1, <2>1, <3>1 DEF Typed, ShapedFor
  <2>4. CASE chunk.class # "dynamic"
    <3>1. GoodFiles(directory.files) /\ chunk \in directory.files
      BY GoodNow, ChunksNow
    <3>2. \E b \in chunk.buckets : chunk.buckets = {b}
      BY <2>4, <3>1 DEF GoodFiles
    <3>3. Max(chunk.buckets) \in chunk.buckets
      BY <3>1, FileIs
    <3>4. Max(chunk.buckets) = bucket
      BY <3>2, <3>3
    <3>5. npu.decode[i] = Max(chunk.buckets)
      BY <2>4 DEF ShapeInv
    <3> QED BY <1>1, <2>1, <3>4, <3>5 DEF Typed, ShapedFor
  <2> QED BY <2>2, <2>3, <2>4
<1> QED BY <1>2, <1>3

(* A chunk runs.                                                           *)
LEMMA RunChunkStep ==
  ASSUME IInv, RunChunk
  PROVE  IInv'
<1> DEFINE i == dialog.next
           chunk == runner.chunks[i]
           past == runner.kv[chunk.first].past
           bucket == SelectBucket(chunk, past)
           ensured == EnsuredKv(chunk, bucket)
           native == [l \in ChunkLayers(chunk) |-> ensured[l].native.k]
           kv == [l \in Layers |-> IF l \in ChunkLayers(chunk) THEN Updated(chunk, ensured[l])
                                   ELSE ensured[l]]
           n == Len(runner.chunks)
<1>1. Typed /\ LoadInv /\ DialogInv /\ ShapeInv
  BY DEF IInv
<1>2. /\ phase = "ready" /\ dialog.pass = "decode" /\ i \in 1 .. n
      /\ runner.synced /\ dialog.past \in Nat \ {0} /\ dialog.number \in Nat
      /\ chunk \in directory.files /\ HasEntries(chunk) /\ chunk.first \in ChunkLayers(chunk)
      /\ bucket >= past /\ bucket \in Nat /\ bucket \in chunk.buckets
      /\ npu' = NextNpu(i, bucket)
      /\ input' = [at |-> dialog.past, bucket |-> bucket, shape |-> npu'.decode[i],
                   past |-> past, format |-> chunk.format, native |-> native]
      /\ runner' = [runner EXCEPT !.selected[i] = IF chunk.class = "dynamic" THEN bucket ELSE @,
                                  !.kv = kv]
      /\ dialog' = [dialog EXCEPT !.next = @ + 1]
      /\ directory' = directory /\ phase' = phase /\ expected' = expected
  BY RunChunkIs DEF NextNpu
<1> HIDE DEF kv, native, ensured, bucket, past, chunk, i
<1>3. n \in Nat /\ runner.selected \in Seq(Nat \cup {None}) /\ Len(runner.selected) = n
  BY <1>1, ChunksNow
<1>4. /\ NpuType(npu') /\ Len(npu'.decode) = n /\ npu'.decode[i] = bucket
      /\ \A j \in 1 .. n : j # i => npu'.decode[j] = npu.decode[j]
  <2>1. phase = "ready" /\ i \in 1 .. Len(runner.chunks) /\ bucket \in Nat
        /\ bucket \in runner.chunks[i].buckets
    BY <1>2 DEF chunk
  <2>2. ShapedFor(NextNpu(i, bucket), i, bucket)
    BY <1>1, <2>1, ShapeSet
  <2> QED BY <1>2, <2>2 DEF ShapedFor
<1> DEFINE selected == [runner.selected EXCEPT ![i] = IF chunk.class = "dynamic" THEN bucket ELSE @]
<1>5. /\ selected \in Seq(Nat \cup {None}) /\ Len(selected) = n
      /\ selected[i] = IF chunk.class = "dynamic" THEN bucket ELSE runner.selected[i]
      /\ \A j \in 1 .. n : j # i => selected[j] = runner.selected[j]
  BY <1>2, <1>3
<1>6. runner' = [runner EXCEPT !.selected = selected, !.kv = kv]
  BY <1>2
<1> HIDE DEF selected
<1>7. /\ RunnerType(runner') /\ runner'.chunks = runner.chunks /\ runner'.prefill = runner.prefill
      /\ runner'.selected = selected /\ runner'.kv = kv /\ runner'.synced = runner.synced
  BY <1>1, <1>5, <1>6 DEF Typed, RunnerType
<1>8. /\ DialogType(dialog') /\ dialog'.validated = dialog.validated /\ dialog'.pass = "decode"
      /\ dialog'.number = dialog.number /\ dialog'.past = dialog.past
      /\ dialog'.cached = dialog.cached /\ dialog'.next = i + 1
  BY <1>1, <1>2 DEF Typed, DialogType, i
<1>9. Typed'
  BY <1>1, <1>2, <1>4, <1>7, <1>8 DEF Typed, RunnerType, NpuType, DialogType
<1>10. LoadInv'
  BY <1>1, <1>2, <1>3, <1>5, <1>7, <1>8, LoadSame
<1>11. DialogInv'
  <2>1. i + 1 \in 1 .. n + 1
    BY <1>2, <1>3
  <2> QED BY <1>1, <1>2, <1>7, <1>8, <2>1 DEF DialogInv
<1>12. ShapeInv'
  <2>1. ASSUME NEW j \in 1 .. n
        PROVE  /\ selected[j] # None => npu'.decode[j] = selected[j]
               /\ runner.chunks[j].class # "dynamic" => npu'.decode[j] = Max(runner.chunks[j].buckets)
    <3>1. /\ runner.selected[j] # None => npu.decode[j] = runner.selected[j]
          /\ runner.chunks[j].class # "dynamic" => npu.decode[j] = Max(runner.chunks[j].buckets)
      BY <1>1, <1>2 DEF ShapeInv
    <3>2. CASE j # i
      BY <1>4, <1>5, <3>1, <3>2
    <3>3. CASE j = i /\ chunk.class = "dynamic"
      BY <1>4, <1>5, <3>3 DEF chunk
    <3>4. CASE j = i /\ chunk.class # "dynamic"
      <4>1. npu' = npu
        BY <1>2, <3>4 DEF NextNpu, MustSet, chunk
      <4>2. selected[j] = runner.selected[j]
        BY <1>5, <3>4
      <4> QED BY <3>1, <4>1, <4>2
    <3> QED BY <3>2, <3>3, <3>4
  <2>2. Len(npu'.decode) = n /\ Len(runner'.chunks) = n /\ runner'.chunks = runner.chunks
        /\ runner'.selected = selected /\ phase' = "ready"
    BY <1>2, <1>4, <1>7
  <2> HIDE DEF n
  <2>3. \A j \in 1 .. n :
          /\ runner'.selected[j] # None => npu'.decode[j] = runner'.selected[j]
          /\ runner'.chunks[j].class # "dynamic" => npu'.decode[j] = Max(runner'.chunks[j].buckets)
    BY <2>1, <2>2
  <2> QED BY <2>2, <2>3 DEF ShapeInv
<1>13. ASSUME Gapless(directory)
       PROVE  KvInv' /\ InputInv'
  <2>1. /\ KvInv
        /\ chunk.full => \A b \in chunk.buckets : 1 .. b \subseteq chunk.buckets
    BY <1>2, <1>13 DEF IInv, Gapless
  <2>2. GoodFiles(directory.files) /\ Chain(directory.files, runner.chunks)
    BY <1>1, GoodNow DEF LoadInv
  <2>3. \A l \in ChunkLayers(chunk) : l \in Layers /\ EntryRight(runner.kv[l], dialog.number, dialog.past)
    <3>1. PastAt(i) = dialog.past
      <4>1. ~ (i < dialog.next)
        BY <1>2 DEF i
      <4> QED BY <1>2, <4>1 DEF PastAt
    <3>2. \A l \in ChunkLayers(chunk) : l \in Layers
      BY <1>2 DEF HasEntries
    <3> QED BY <1>2, <2>1, <3>1, <3>2 DEF KvInv, chunk
  <2>4. past = dialog.past
    BY <1>2, <2>3, EntryIs DEF past
  <2>5. chunk.full => bucket = dialog.past
    BY <1>2, <2>1, <2>2, <2>4, SelectIs DEF bucket
  <2>6. chunk.format \in {"NHWC", "NCHW"}
    BY <1>2, <2>2, FileIs
  <2>7. \A l \in ChunkLayers(chunk) :
          ensured[l] = WithNative(dialog.number, dialog.past, bucket, chunk.format)
    <3> SUFFICES ASSUME NEW l \in ChunkLayers(chunk)
                 PROVE  ensured[l] = WithNative(dialog.number, dialog.past, bucket, chunk.format)
      OBVIOUS
    <3>1. ensured[l] = Ensured(runner.kv[l], bucket, chunk.format)
      BY <2>3 DEF ensured, EnsuredKv
    <3> QED BY <1>2, <2>3, <3>1, EnsuredIs
  <2>8. \A l \in ChunkLayers(chunk) : EntryRight(kv[l], dialog.number, dialog.past + 1)
    <3> DEFINE e == WithNative(dialog.number, dialog.past, bucket, chunk.format)
    <3>1. EntryRight(Updated(chunk, e), dialog.number, dialog.past + 1)
      BY <1>2, <2>4, <2>5, <2>6, UpdatedIs
    <3>2. \A l \in ChunkLayers(chunk) : kv[l] = Updated(chunk, e)
      BY <2>3, <2>7 DEF kv
    <3> QED BY <3>1, <3>2
  <2>9. \A l \in Layers : l \notin ChunkLayers(chunk) => kv[l] = runner.kv[l]
    BY DEF kv, ensured, EnsuredKv
  <2>10. KvInv'
    <3> SUFFICES ASSUME NEW j \in 1 .. n, NEW l \in ChunkLayers(runner.chunks[j]) \cap Layers
                 PROVE  EntryRight(kv[l], dialog.number, PastAt(j)')
      BY <1>7, <1>8 DEF KvInv
    <3>1. j \in Int /\ i \in Int
      BY <1>2, <1>3
    <3>2. PastAt(j)' = dialog.past + (IF j < i + 1 THEN 1 ELSE 0)
      BY <1>8 DEF PastAt
    <3>3. CASE j = i
      <4>1. PastAt(j)' = dialog.past + 1
        BY <3>1, <3>2, <3>3
      <4> QED BY <2>8, <3>3, <4>1 DEF chunk
    <3>4. CASE j # i
      <4>1. l \notin ChunkLayers(chunk)
        BY <1>2, <2>2, <3>4, ChainOne DEF chunk
      <4>2. kv[l] = runner.kv[l]
        BY <2>9, <4>1
      <4>3. PastAt(j)' = PastAt(j)
        <5>1. j < i + 1 <=> j < i
          BY <3>1, <3>4
        <5> QED BY <1>2, <3>2, <5>1 DEF PastAt, i
      <4>4. EntryRight(runner.kv[l], dialog.number, PastAt(j))
        BY <1>2, <2>1 DEF KvInv
      <4> QED BY <4>2, <4>3, <4>4
    <3> QED BY <3>3, <3>4
  <2>11. InputInv'
    <3>1. \A l \in ChunkLayers(chunk) :
            native[l] = NativeK(dialog.number, dialog.past, bucket, chunk.format)
      BY <2>7 DEF native, WithNative
    <3>2. DOMAIN native = ChunkLayers(chunk)
      BY DEF native
    <3>3. /\ input'.at = dialog.past /\ input'.bucket = bucket /\ input'.shape = bucket
          /\ input'.past = past /\ input'.format = chunk.format /\ input'.native = native
      BY <1>2, <1>4
    <3>4. InputRight(input', dialog.number)
      BY <1>2, <2>4, <3>1, <3>2, <3>3 DEF InputRight
    <3> QED BY <1>8, <3>4 DEF InputInv
  <2> QED BY <2>10, <2>11
<1>14. Gapless(directory)' => KvInv' /\ InputInv'
  BY <1>2, <1>13 DEF Gapless
<1> QED BY <1>9, <1>10, <1>11, <1>12, <1>14 DEF IInv


-----------------------------------------------------------------------------
(* Every step keeps the invariant.                                         *)
LEMMA NextStep ==
  ASSUME IInv, Next
  PROVE  IInv'
<1>1. CASE LoadChunk
  BY <1>1, LoadChunkStep
<1>2. CASE StopLoading
  BY <1>2, StopLoadingStep
<1>3. CASE LoadPrefill
  BY <1>3, LoadPrefillStep
<1>4. CASE Reset
  BY <1>4, ResetStep
<1>5. ASSUME NEW n \in 1 .. MaxPast - 1, SoftwarePrompt(n)
      PROVE  IInv'
  BY <1>5, SoftwarePromptStep
<1>6. ASSUME NEW n \in 1 .. MaxPast - 1, NEW adds \in Additions, PrefillPass(n, adds)
      PROVE  IInv'
  BY <1>6, PrefillPassStep
<1>7. ASSUME NEW n \in 1 .. MaxPast - 1, NEW adds \in Additions, PrefillFails(n, adds)
      PROVE  IInv'
  BY <1>7, PrefillFailsStep
<1>8. CASE StartDecode
  BY <1>8, StartDecodeStep
<1>9. CASE RunChunk
  BY <1>9, RunChunkStep
<1>10. CASE DecodeFails
  BY <1>10, DecodeFailsStep
<1>11. CASE DecodePanics
  BY <1>11, DecodePanicsStep
<1>12. CASE EndDecode
  BY <1>12, EndDecodeStep
<1>13. CASE Validated
  BY <1>13, ValidatedStep
<1>14. CASE ShrinkLastChunk
  BY <1>14, ShrinkStep
<1>15. CASE Rejected
  BY <1>15, RejectedStep
<1> QED
  BY <1>1, <1>2, <1>3, <1>4, <1>5, <1>6, <1>7, <1>8, <1>9, <1>10, <1>11, <1>12, <1>13, <1>14,
     <1>15 DEF Next

(* And so does a step that changes nothing.                                *)
LEMMA StutterStep ==
  ASSUME IInv, UNCHANGED vars
  PROVE  IInv'
<1>1. /\ directory' = directory /\ phase' = phase /\ expected' = expected /\ runner' = runner
      /\ npu' = npu /\ dialog' = dialog /\ input' = input
  BY DEF vars
<1>2. Typed'
  BY <1>1 DEF IInv, Typed, RunnerType, NpuType, DialogType
<1>3. LoadInv'
  BY <1>1 DEF IInv, LoadInv
<1>4. DialogInv' /\ ShapeInv'
  BY <1>1 DEF IInv, DialogInv, ShapeInv
<1>5. Gapless(directory)' => KvInv' /\ InputInv'
  BY <1>1 DEF IInv, KvInv, PastAt, InputInv, Gapless
<1> QED BY <1>2, <1>3, <1>4, <1>5 DEF IInv

(* In every behaviour of the runner the invariant holds in every state.    *)
THEOREM Invariance == Spec => []IInv
<1>1. Init => IInv
  BY InitIInv
<1>2. IInv /\ [Next]_vars => IInv'
  BY NextStep, StutterStep
<1> QED BY <1>1, <1>2, PTL DEF Spec

(* The runner's chunks are files of its directory, with one selection and, *)
(* when loaded, one context each, whatever is loaded, shrunk or released.  *)
THEOREM TypeCorrect == Spec => []TypeOK
<1>1. ASSUME IInv
      PROVE  TypeOK
  <2>1. Typed /\ LoadInv /\ ShapeInv
    BY <1>1 DEF IInv
  <2>2. runner.prefill = None \/ runner.prefill \subseteq directory.files
    BY <2>1, GoodNow, PrefillIs DEF LoadInv
  <2>3. runner.chunks \in Seq(directory.files) /\ Len(runner.selected) = Len(runner.chunks)
    BY <2>1, ChunksNow
  <2>4. runner.synced \in BOOLEAN
    BY <2>1 DEF Typed, RunnerType
  <2> QED BY <2>1, <2>2, <2>3, <2>4 DEF TypeOK, Typed, DialogType, ShapeInv
<1> QED BY <1>1, Invariance, PTL

(* The chunks that load leaves cover a prefix of the layers, every layer   *)
(* of it once, and no more than validation accepted; the prefill chunks    *)
(* cover all layers once, or there are none: for every directory.          *)
THEOREM LayersCoveredOnce == Spec => []CoveredOnce
<1>1. ASSUME IInv
      PROVE  CoveredOnce
  <2> SUFFICES ASSUME phase = "ready"
               PROVE  /\ \A l \in 0 .. LastLayer :
                           Cardinality({i \in DOMAIN runner.chunks :
                                          l \in ChunkLayers(runner.chunks[i])}) = 1
                      /\ dialog.validated # None => LastLayer <= dialog.validated
                      /\ runner.prefill # None =>
                           \A l \in Layers :
                             Cardinality({f \in runner.prefill : l \in ChunkLayers(f)}) = 1
    BY DEF CoveredOnce
  <2>1. LoadInv /\ GoodFiles(directory.files)
    BY <1>1, GoodNow DEF IInv
  <2>2. runner.chunks # <<>> /\ Chain(directory.files, runner.chunks)
    BY <2>1 DEF LoadInv
  <2>3. \A l \in 0 .. LastLayer :
          Cardinality({i \in DOMAIN runner.chunks : l \in ChunkLayers(runner.chunks[i])}) = 1
    BY <2>1, <2>2, ChainCoveredOnce DEF LastLayer
  <2>4. dialog.validated # None => LastLayer <= dialog.validated
    BY <2>1 DEF LoadInv, LastLayer
  <2>5. runner.prefill # None =>
          \A l \in Layers : Cardinality({f \in runner.prefill : l \in ChunkLayers(f)}) = 1
    BY <2>1, PrefillIs DEF LoadInv
  <2> QED BY <2>3, <2>4, <2>5
<1> QED BY <1>1, Invariance, PTL

(* A chunk's context has the shape of the buffers it is given, they hold   *)
(* all positions of this dialog so far, in the order of the layout it      *)
(* reads, padded to the shape: for every sequence of loads, dialogs,       *)
(* passes and failures, unless a file with full outputs leaves out a       *)
(* length of past (Gapless).                                               *)
THEOREM InputsAreExact == Spec => [](Gapless(directory) => InputExact)
<1>1. ASSUME IInv, Gapless(directory)
      PROVE  InputExact
  <2> SUFFICES ASSUME input # NoInput
               PROVE  /\ input.shape = input.bucket
                      /\ input.bucket >= input.past
                      /\ input.past = input.at
                      /\ \A l \in DOMAIN input.native :
                           input.native[l] =
                             RknnLayout(Padded(Positions(input.at), input.at, input.bucket),
                                        input.bucket, input.format)
    BY DEF InputExact
  <2>1. InputRight(input, dialog.number)
    BY <1>1 DEF IInv, InputInv
  <2>2. Positions(input.at) = PositionsOf(dialog.number, input.at)
    BY <2>1, PositionsNow DEF InputRight
  <2> QED BY <2>1, <2>2 DEF InputRight, NativeK, PaddedOf
<1> QED BY <1>1, Invariance, PTL

(* The entries that a runner goes on from are the positions of this        *)
(* dialog, in front of every pass and between any two chunks of one, with  *)
(* the same exception.                                                     *)
THEOREM EntriesAreExact == Spec => [](Gapless(directory) => EntriesExact)
<1>1. ASSUME IInv, Gapless(directory)
      PROVE  EntriesExact
  <2> SUFFICES ASSUME phase = "ready", runner.synced,
                      NEW i \in DOMAIN runner.chunks,
                      NEW l \in ChunkLayers(runner.chunks[i]) \cap Layers
               PROVE  /\ runner.kv[l] # None
                      /\ runner.kv[l].past = PastAt(i)
                      /\ runner.kv[l].k = Positions(PastAt(i))
    BY DEF EntriesExact, PastAt
  <2>1. Typed /\ LoadInv /\ KvInv
    BY <1>1 DEF IInv
  <2>2. i \in 1 .. Len(runner.chunks)
    BY <2>1, ChunksNow
  <2>3. EntryRight(runner.kv[l], dialog.number, PastAt(i))
    BY <2>1, <2>2 DEF KvInv
  <2>4. PastAt(i) \in Nat /\ dialog.number \in Nat
    BY <2>1, BoundsAssumption DEF Typed, DialogType, PastAt
  <2>5. Positions(PastAt(i)) = PositionsOf(dialog.number, PastAt(i))
    BY <2>4, PositionsNow
  <2> QED BY <2>3, <2>4, <2>5, EntryIs
<1> QED BY <1>1, Invariance, PTL
=============================================================================

--------------------------- MODULE AwqLoopsProofs ---------------------------
(***************************************************************************)
(* Proofs about AwqLoops, for every size, tile and split: which blocks of  *)
(* K the loops load, and under which asserts each row of the weights is    *)
(* loaded once, with the scales of its own group.                          *)
(*                                                                         *)
(* All of K lies in blocks of BK rows; trip i of part z loads the block    *)
(* Index(l, z, i), and the rest is division.                               *)
(***************************************************************************)
EXTENDS AwqLoops, SweepGrid, FiniteSetTheorems, FunctionTheorems, TLAPS

-----------------------------------------------------------------------------
(* Division.                                                               *)

LEMMA DivMod ==
  ASSUME NEW a \in Nat, NEW b \in Nat \ {0}
  PROVE  /\ a \div b \in Nat /\ a % b \in 0 .. b - 1
         /\ a = b * (a \div b) + (a % b)
OBVIOUS

LEMMA DivUnique ==
  ASSUME NEW a \in Nat, NEW b \in Nat \ {0}, NEW q \in Nat, NEW r \in 0 .. b - 1,
         a = q * b + r
  PROVE  a \div b = q /\ a % b = r
OBVIOUS

LEMMA DivSmall ==
  ASSUME NEW b \in Nat \ {0}, NEW r \in 0 .. b - 1
  PROVE  r \div b = 0
OBVIOUS

LEMMA BlockStart ==
  ASSUME NEW k \in Nat, NEW b \in Nat \ {0}
  PROVE  (k \div b) * b \in Nat /\ (k \div b) * b <= k
BY DivMod

\* k lies in block q exactly when k \div b is q.
LEMMA BlockNumber ==
  ASSUME NEW k \in Nat, NEW b \in Nat \ {0}, NEW q \in Nat
  PROVE  k \in q * b .. q * b + b - 1 <=> k \div b = q
<1>1. k = b * (k \div b) + (k % b) /\ k \div b \in Nat /\ k % b \in 0 .. b - 1
  BY DivMod
<1>2. ASSUME k \in q * b .. q * b + b - 1
      PROVE  k \div b = q
  <2>1. k - q * b \in 0 .. b - 1 /\ q * b \in Nat
    BY <1>2
  <2>2. k = q * b + (k - q * b)
    BY <2>1
  <2>3. QED
    BY <2>1, <2>2, DivUnique
<1>3. ASSUME k \div b = q
      PROVE  k \in q * b .. q * b + b - 1
  BY <1>1, <1>3
<1>4. QED
  BY <1>2, <1>3

\* cdiv(a, b) blocks of b cover a rows, and one less does not.
LEMMA CdivFacts ==
  ASSUME NEW a \in Nat \ {0}, NEW b \in Nat \ {0}
  PROVE  /\ Cdiv(a, b) \in Nat \ {0}
         /\ a <= Cdiv(a, b) * b
         /\ (Cdiv(a, b) - 1) * b < a
         /\ a % b = 0 => Cdiv(a, b) * b = a /\ Cdiv(a, b) = a \div b
<1> DEFINE n == a + b - 1
           q == n \div b
<1>1. n \in Nat /\ q \in Nat /\ n % b \in 0 .. b - 1 /\ n = b * q + (n % b)
  <2>1. n \in Nat
    OBVIOUS
  <2>2. QED
    BY <2>1, DivMod
<1>2. b * q = q * b /\ q * b \in Nat
  BY <1>1
<1>3. a <= q * b /\ q * b < a + b
  BY <1>1, <1>2
<1>4. q # 0 /\ (q - 1) * b < a
  BY <1>1, <1>2, <1>3
<1>5. ASSUME a % b = 0
      PROVE  q * b = a /\ q = a \div b
  <2>1. a = b * (a \div b) /\ a \div b \in Nat
    BY <1>5, DivMod
  <2>2. n = (a \div b) * b + (b - 1) /\ b - 1 \in 0 .. b - 1
    BY <2>1
  <2>3. q = a \div b
    BY <1>1, <2>1, <2>2, DivUnique
  <2>4. QED
    BY <2>1, <2>3
<1>6. QED
  BY <1>1, <1>3, <1>4, <1>5 DEF Cdiv

\* Within a block that fits the groups all rows have one group.
LEMMA GroupOfBlock ==
  ASSUME NEW k \in Nat, NEW b \in Nat \ {0}, NEW g \in Nat \ {0}, g % b = 0
  PROVE  ((k \div b) * b) \div g = k \div g
<1> DEFINE q == k \div b
           h == g \div b
           j == k \div g
<1>1. q \in Nat /\ k % b \in 0 .. b - 1 /\ k = b * q + (k % b)
  BY DivMod
<1>2. h \in Nat /\ g = b * h
  BY DivMod
<1>3. j \in Nat /\ k % g \in 0 .. g - 1 /\ k = g * j + (k % g)
  BY DivMod
<1> HIDE DEF q, h, j
<1>4. q * b \in Nat /\ q * b <= k /\ k < q * b + b
  BY <1>1
<1>5. j * g \in Nat /\ j * g <= k /\ k < j * g + g
  BY <1>3
<1>6. j * g = (j * h) * b /\ j * h \in Nat
  <2>1. j * (b * h) = (j * h) * b
    BY <1>2, <1>3
  <2>2. QED
    BY <1>2, <1>3, <2>1
\* The group begins with a block, which is not after the block of k.
<1>7. j * h <= q
  <2>1. ASSUME q + 1 <= j * h
        PROVE  FALSE
    <3>1. (q + 1) * b <= (j * h) * b
      BY <1>1, <1>6, <2>1
    <3>2. QED
      BY <1>1, <1>4, <1>5, <1>6, <3>1
  <2>2. QED
    BY <1>1, <1>6, <2>1
<1>8. j * g <= q * b
  BY <1>1, <1>6, <1>7
<1>9. PICK r \in 0 .. g - 1 : q * b = j * g + r
  <2>1. q * b - j * g \in 0 .. g - 1 /\ q * b = j * g + (q * b - j * g)
    BY <1>4, <1>5, <1>8
  <2>2. QED
    BY <2>1
<1>10. (q * b) \div g = j
  BY <1>3, <1>4, <1>9, DivUnique
<1>11. QED
  BY <1>10 DEF q, j

-----------------------------------------------------------------------------
(* The blocks of a launch.                                                 *)

\* The sizes of a launch.
Sizes(l) ==
  /\ l.K \in Nat \ {0} /\ l.G \in Nat \ {0}
  /\ l.BK \in Nat \ {0} /\ l.SK \in Nat \ {0}

\* The block of K that trip i of part z loads.
Index(l, z, i) == IF Sliced(l) THEN z * SlicedTrips(l) + i ELSE i * l.SK + z

\* What an assert must achieve: whole blocks in each slice, or a mask.
Regular(l) ==
  Sizes(l) /\ (Sliced(l) => l.K % l.SK = 0 /\ (l.K \div l.SK) % l.BK = 0)

LEMMA SliceFacts ==
  ASSUME NEW l, Regular(l), Sliced(l)
  PROVE  /\ SlicedTrips(l) \in Nat \ {0}
         /\ SliceWidth(l) = SlicedTrips(l) * l.BK
         /\ l.K = (l.SK * SlicedTrips(l)) * l.BK
<1> DEFINE w == l.K \div l.SK
<1>1. /\ l.K \in Nat \ {0} /\ l.BK \in Nat \ {0} /\ l.SK \in Nat \ {0}
      /\ l.K % l.SK = 0 /\ w % l.BK = 0
  BY DEF Regular, Sizes
<1>2. w \in Nat /\ l.K = l.SK * w
  <2>1. l.K \in Nat /\ l.K = l.SK * w + (l.K % l.SK) /\ w \in Nat
    BY <1>1, DivMod
  <2>2. QED
    BY <1>1, <2>1
<1>3. w # 0
  BY <1>1, <1>2
<1>4. /\ Cdiv(w, l.BK) \in Nat \ {0} /\ Cdiv(w, l.BK) * l.BK = w
  BY <1>1, <1>2, <1>3, CdivFacts
<1>5. l.K = (l.SK * Cdiv(w, l.BK)) * l.BK
  BY <1>1, <1>2, <1>4
<1>6. QED
  BY <1>4, <1>5 DEF SliceWidth, SlicedTrips

LEMMA TripFacts ==
  ASSUME NEW l, Regular(l)
  PROVE  Trips(l) \in Nat \ {0}
<1>1. CASE Sliced(l)
  BY <1>1, SliceFacts DEF Trips
<1>2. CASE ~ Sliced(l)
  <2>1. l.BK * l.SK \in Nat \ {0} /\ l.K \in Nat \ {0}
    BY DEF Regular, Sizes
  <2>2. QED
    BY <1>2, <2>1, CdivFacts DEF Trips, StridedTrips
<1>3. QED
  BY <1>1, <1>2

\* Where trip i of part z begins.
LEMMA FirstRow ==
  ASSUME NEW l, Regular(l), NEW z \in Parts(l), NEW i \in Nat
  PROVE  /\ Index(l, z, i) \in Nat
         /\ FirstK(l, z) + i * StepK(l) = Index(l, z, i) * l.BK
         /\ ScaleRow(l, z, i) = (Index(l, z, i) * l.BK) \div l.G
<1>1. z \in Nat /\ l.BK \in Nat \ {0} /\ l.SK \in Nat \ {0}
  BY DEF Parts, Regular, Sizes
<1>2. CASE Sliced(l)
  <2>1. /\ SlicedTrips(l) \in Nat
        /\ SliceWidth(l) = SlicedTrips(l) * l.BK
    BY <1>2, SliceFacts
  <2>2. z * (SlicedTrips(l) * l.BK) + i * l.BK = (z * SlicedTrips(l) + i) * l.BK
    BY <1>1, <2>1
  <2>3. QED
    BY <1>1, <1>2, <2>1, <2>2
       DEF Index, FirstK, SlicedFirst, StepK, SlicedStep, ScaleRow, SlicedRow
<1>3. CASE ~ Sliced(l)
  <2>1. /\ z * l.BK + i * (l.BK * l.SK) = (i * l.SK + z) * l.BK
        /\ l.BK * l.SK * i + z * l.BK = (i * l.SK + z) * l.BK
    BY <1>1
  <2>2. QED
    BY <1>1, <1>3, <2>1
       DEF Index, FirstK, StridedFirst, StepK, StridedStep, ScaleRow, StridedRow
<1>4. QED
  BY <1>2, <1>3

\* A trip loads the rows of its block that exist; the loop without a mask has
\* only blocks that exist.
LEMMA BlockRows ==
  ASSUME NEW l, Regular(l), NEW z \in Parts(l), NEW i \in 0 .. Trips(l) - 1
  PROVE  BlockOf(l, <<z, i>>) = {k \in 0 .. l.K - 1 : k \div l.BK = Index(l, z, i)}
<1> DEFINE q == Index(l, z, i)
<1>1. /\ l.BK \in Nat \ {0} /\ l.K \in Nat \ {0} /\ l.SK \in Nat \ {0}
      /\ Trips(l) \in Nat /\ i \in Nat /\ z \in Nat /\ z < l.SK /\ i < Trips(l)
  BY TripFacts DEF Regular, Sizes, Parts
<1>2. q \in Nat /\ FirstK(l, z) + i * StepK(l) = q * l.BK
  BY <1>1, FirstRow
<1>3. BlockOf(l, <<z, i>>) = {k \in q * l.BK .. q * l.BK + l.BK - 1 : Sliced(l) \/ k < l.K}
  BY <1>2 DEF BlockOf, Loaded
<1>4. Sliced(l) => q * l.BK + l.BK <= l.K
  <2> SUFFICES ASSUME Sliced(l)
               PROVE  q * l.BK + l.BK <= l.K
    OBVIOUS
  <2> DEFINE t == SlicedTrips(l)
  <2>1. t \in Nat \ {0} /\ l.K = (l.SK * t) * l.BK /\ i < t /\ q = z * t + i
    BY <1>1, SliceFacts DEF Trips, Index
  <2>2. (z + 1) * t <= l.SK * t
    BY <1>1, <2>1
  <2>3. q + 1 <= l.SK * t
    BY <1>1, <2>1, <2>2
  <2>4. (q + 1) * l.BK <= (l.SK * t) * l.BK
    BY <1>1, <1>2, <2>1, <2>3
  <2>5. QED
    BY <1>1, <1>2, <2>1, <2>4
<1>5. q * l.BK \in Nat
  BY <1>1, <1>2
<1>6. ASSUME NEW k \in Nat
      PROVE  k \in BlockOf(l, <<z, i>>) <=> k \in 0 .. l.K - 1 /\ k \div l.BK = q
  <2>1. k \in q * l.BK .. q * l.BK + l.BK - 1 <=> k \div l.BK = q
    BY <1>1, <1>2, BlockNumber
  <2>2. QED
    BY <1>1, <1>3, <1>4, <1>5, <2>1
<1>7. BlockOf(l, <<z, i>>) \subseteq Nat
  BY <1>1, <1>3, <1>5
<1>8. QED
  BY <1>6, <1>7

\* Each block of K is loaded by one part on one trip.
LEMMA IndexBijective ==
  ASSUME NEW l, Regular(l), NEW k \in 0 .. l.K - 1
  PROVE  /\ \E z \in Parts(l), i \in 0 .. Trips(l) - 1 : k \div l.BK = Index(l, z, i)
         /\ \A y, z \in Parts(l) : \A h, i \in 0 .. Trips(l) - 1 :
              Index(l, y, h) = Index(l, z, i) => y = z /\ h = i
<1> DEFINE q == k \div l.BK
           t == Trips(l)
<1>1. /\ l.BK \in Nat \ {0} /\ l.K \in Nat \ {0} /\ l.SK \in Nat \ {0} /\ k \in Nat /\ k < l.K
      /\ t \in Nat \ {0}
  BY TripFacts DEF Regular, Sizes
<1>2. q \in Nat /\ q * l.BK <= k
  <2>1. q \in Nat /\ k = l.BK * q + (k % l.BK) /\ k % l.BK \in 0 .. l.BK - 1
    BY <1>1, DivMod
  <2>2. QED
    BY <1>1, <2>1
<1>3. CASE Sliced(l)
  <2>1. t = SlicedTrips(l) /\ l.K = (l.SK * t) * l.BK
    BY <1>3, SliceFacts DEF Trips
  <2>2. q < l.SK * t
    <3>1. ASSUME l.SK * t <= q
          PROVE  (l.SK * t) * l.BK <= q * l.BK
      BY <1>1, <1>2, <3>1
    <3>2. QED
      BY <1>1, <1>2, <2>1, <3>1
  <2>3. q \div t \in Nat /\ q % t \in 0 .. t - 1 /\ q = t * (q \div t) + (q % t)
    BY <1>1, <1>2, DivMod
  <2>4. q \div t < l.SK
    <3>1. ASSUME l.SK <= q \div t
          PROVE  l.SK * t <= (q \div t) * t
      BY <1>1, <2>3, <3>1
    <3>2. QED
      BY <1>1, <2>2, <2>3, <3>1
  <2>5. q = Index(l, q \div t, q % t)
    <3>1. t * (q \div t) = (q \div t) * t
      BY <1>1, <2>3
    <3>2. Index(l, q \div t, q % t) = (q \div t) * t + (q % t)
      BY <1>3, <2>1 DEF Index
    <3>3. QED
      BY <2>3, <3>1, <3>2
  <2>6. ASSUME NEW y \in Parts(l), NEW z \in Parts(l), NEW h \in 0 .. t - 1, NEW i \in 0 .. t - 1,
               Index(l, y, h) = Index(l, z, i)
        PROVE  y = z /\ h = i
    <3>1. y \in Nat /\ z \in Nat /\ y * t + h = z * t + i
      BY <1>1, <1>3, <2>1, <2>6 DEF Index, Parts
    <3>2. y * t + h \in Nat
      BY <1>1, <3>1
    <3>3. (y * t + h) \div t = y /\ (y * t + h) % t = h
      BY <1>1, <3>1, <3>2, DivUnique
    <3>4. (y * t + h) \div t = z /\ (y * t + h) % t = i
      BY <1>1, <3>1, <3>2, DivUnique
    <3>5. QED
      BY <3>3, <3>4
  <2>7. QED
    BY <1>1, <2>3, <2>4, <2>5, <2>6 DEF Parts
<1>4. CASE ~ Sliced(l)
  <2>1. t = Cdiv(l.K, l.BK * l.SK)
    BY <1>4 DEF Trips, StridedTrips
  <2>2. l.K <= t * (l.BK * l.SK)
    <3>1. l.BK * l.SK \in Nat \ {0}
      BY <1>1
    <3>2. QED
      BY <1>1, <2>1, <3>1, CdivFacts
  <2>3. q < t * l.SK
    <3>1. ASSUME t * l.SK <= q
          PROVE  (t * l.SK) * l.BK <= q * l.BK
      BY <1>1, <1>2, <3>1
    <3>2. (t * l.SK) * l.BK = t * (l.BK * l.SK)
      BY <1>1
    <3>3. QED
      BY <1>1, <1>2, <2>2, <3>1, <3>2
  <2>4. /\ q \div l.SK \in Nat /\ q % l.SK \in 0 .. l.SK - 1
        /\ q = l.SK * (q \div l.SK) + (q % l.SK)
    BY <1>1, <1>2, DivMod
  <2>5. q \div l.SK < t
    <3>1. ASSUME t <= q \div l.SK
          PROVE  t * l.SK <= (q \div l.SK) * l.SK
      BY <1>1, <2>4, <3>1
    <3>2. QED
      BY <1>1, <2>3, <2>4, <3>1
  <2>6. q = Index(l, q % l.SK, q \div l.SK)
    BY <1>1, <1>4, <2>4 DEF Index
  <2>7. ASSUME NEW y \in Parts(l), NEW z \in Parts(l), NEW h \in 0 .. t - 1, NEW i \in 0 .. t - 1,
               Index(l, y, h) = Index(l, z, i)
        PROVE  y = z /\ h = i
    <3>1. /\ h \in Nat /\ i \in Nat /\ y \in 0 .. l.SK - 1 /\ z \in 0 .. l.SK - 1
          /\ h * l.SK + y = i * l.SK + z
      BY <1>1, <1>4, <2>7 DEF Index, Parts
    <3>2. h * l.SK + y \in Nat
      BY <1>1, <3>1
    <3>3. (h * l.SK + y) \div l.SK = h /\ (h * l.SK + y) % l.SK = y
      BY <1>1, <3>1, <3>2, DivUnique
    <3>4. (h * l.SK + y) \div l.SK = i /\ (h * l.SK + y) % l.SK = z
      BY <1>1, <3>1, <3>2, DivUnique
    <3>5. QED
      BY <3>3, <3>4
  <2>8. QED
    BY <1>1, <2>4, <2>5, <2>6, <2>7 DEF Parts
<1>5. QED
  BY <1>3, <1>4

\* Each trip finds the scales of its own rows.
LEMMA RowsOwnGroup ==
  ASSUME NEW l, Regular(l), BlocksInGroup(l),
         NEW z \in Parts(l), NEW i \in 0 .. Trips(l) - 1, NEW k \in BlockOf(l, <<z, i>>)
  PROVE  ScaleRow(l, z, i) = k \div l.G
<1>1. /\ l.BK \in Nat \ {0} /\ l.K \in Nat \ {0} /\ l.G \in Nat \ {0}
      /\ Trips(l) \in Nat /\ i \in Nat
  BY TripFacts DEF Regular, Sizes
<1>2. k \in 0 .. l.K - 1 /\ k \div l.BK = Index(l, z, i)
  BY BlockRows
<1>3. ScaleRow(l, z, i) = ((k \div l.BK) * l.BK) \div l.G
  BY <1>1, <1>2, FirstRow
<1>4. CASE l.G % l.BK = 0
  <2>1. k \in Nat
    BY <1>1, <1>2
  <2>2. QED
    BY <1>1, <1>3, <1>4, <2>1, GroupOfBlock
<1>5. CASE l.G = l.K
  <2> DEFINE first == (k \div l.BK) * l.BK
  <2>1. k \in Nat
    BY <1>1, <1>2
  <2>2. first \in Nat /\ first <= k
    BY <1>1, <2>1, BlockStart
  <2>3. k \in 0 .. l.G - 1 /\ first \in 0 .. l.G - 1
    BY <1>1, <1>2, <1>5, <2>1, <2>2
  <2>4. k \div l.G = 0
    BY <1>1, <2>3, DivSmall
  <2>5. first \div l.G = 0
    BY <1>1, <2>3, DivSmall
  <2>6. QED
    BY <1>3, <2>4, <2>5
<1>6. QED
  BY <1>4, <1>5 DEF BlocksInGroup

\* The loads of a launch are as many as the rows of the weights.
LEMMA LoadsCount ==
  ASSUME NEW l, Regular(l)
  PROVE  IsFiniteSet(Loads(l)) /\ Cardinality(Loads(l)) = l.K
<1> DEFINE rows == 0 .. l.K - 1
           f == [p \in Loads(l) |-> p[1]]
<1>1. l.K \in Nat \ {0} /\ Trips(l) \in Nat
  BY TripFacts DEF Regular, Sizes
<1>2. ASSUME NEW p \in Loads(l)
      PROVE  \E z \in Parts(l), i \in 0 .. Trips(l) - 1 :
               /\ p = <<p[1], <<z, i>>>> /\ p[1] \in rows
               /\ p[1] \div l.BK = Index(l, z, i)
  <2>1. PICK b \in Begins(l) : p \in BlockOf(l, b) \X {b}
    BY DEF Loads
  <2>2. PICK z \in Parts(l), i \in 0 .. Trips(l) - 1 : b = <<z, i>>
    BY <2>1 DEF Begins
  <2>3. p = <<p[1], b>> /\ p[1] \in BlockOf(l, b)
    BY <2>1
  <2>4. QED
    BY <2>2, <2>3, BlockRows
<1>3. f \in Injection(Loads(l), rows)
  <2>1. f \in [Loads(l) -> rows]
    BY <1>2
  <2>2. ASSUME NEW p \in Loads(l), NEW r \in Loads(l), f[p] = f[r]
        PROVE  p = r
    <3>1. p[1] = r[1] /\ p[1] \in rows
      BY <1>2, <2>2
    <3>2. PICK y \in Parts(l), h \in 0 .. Trips(l) - 1 :
            p = <<p[1], <<y, h>>>> /\ p[1] \div l.BK = Index(l, y, h)
      BY <1>2
    <3>3. PICK z \in Parts(l), i \in 0 .. Trips(l) - 1 :
            r = <<r[1], <<z, i>>>> /\ r[1] \div l.BK = Index(l, z, i)
      BY <1>2
    <3>4. y = z /\ h = i
      BY <3>1, <3>2, <3>3, IndexBijective
    <3>5. QED
      BY <3>1, <3>2, <3>3, <3>4
  <2>3. QED
    BY <2>1, <2>2 DEF Injection, IsInjective
<1>4. f \in Surjection(Loads(l), rows)
  <2>1. ASSUME NEW k \in rows
        PROVE  \E p \in Loads(l) : f[p] = k
    <3>1. PICK z \in Parts(l), i \in 0 .. Trips(l) - 1 : k \div l.BK = Index(l, z, i)
      BY IndexBijective
    <3>2. k \in BlockOf(l, <<z, i>>)
      BY <3>1, BlockRows
    <3>3. <<k, <<z, i>>>> \in Loads(l)
      BY <3>2 DEF Loads, Begins
    <3>4. QED
      BY <3>3
  <2>2. QED
    BY <1>3, <2>1 DEF Injection, Surjection
<1>5. IsFiniteSet(rows) /\ Cardinality(rows) = l.K
  <2>1. 0 \in Int /\ l.K - 1 \in Int /\ ~ (0 > l.K - 1) /\ l.K - 1 - 0 + 1 = l.K
    BY <1>1
  <2>2. QED
    BY <2>1, FS_Interval
<1>6. QED
  BY <1>3, <1>4, <1>5, FS_Injection

-----------------------------------------------------------------------------
(* What the asserts of the wrappers are for.                               *)

LEMMA RegularIsExact ==
  ASSUME NEW l, Regular(l), BlocksInGroup(l)
  PROVE  OnceInOwnGroup(l)
<1>1. UNION {BlockOf(l, b) : b \in Begins(l)} = 0 .. l.K - 1
  <2>1. ASSUME NEW b \in Begins(l)
        PROVE  BlockOf(l, b) \subseteq 0 .. l.K - 1
    <3>1. PICK z \in Parts(l), i \in 0 .. Trips(l) - 1 : b = <<z, i>>
      BY DEF Begins
    <3>2. QED
      BY <3>1, BlockRows
  <2>2. ASSUME NEW k \in 0 .. l.K - 1
        PROVE  \E b \in Begins(l) : k \in BlockOf(l, b)
    <3>1. PICK z \in Parts(l), i \in 0 .. Trips(l) - 1 : k \div l.BK = Index(l, z, i)
      BY IndexBijective
    <3>2. <<z, i>> \in Begins(l) /\ k \in BlockOf(l, <<z, i>>)
      BY <3>1, BlockRows DEF Begins
    <3>3. QED
      BY <3>2
  <2>3. QED
    BY <2>1, <2>2
<1>2. ASSUME NEW b \in Begins(l), NEW k \in BlockOf(l, b)
      PROVE  ScaleRow(l, b[1], b[2]) = k \div l.G
  <2>1. PICK z \in Parts(l), i \in 0 .. Trips(l) - 1 : b = <<z, i>>
    BY DEF Begins
  <2>2. QED
    BY <1>2, <2>1, RowsOwnGroup
<1>3. QED
  BY <1>1, <1>2, LoadsCount DEF OnceInOwnGroup

\* The three asserts of awq_gemv_splitk_triton are what its kernel needs to go
\* without a mask: with them each row of the weights is loaded once, in a slice
\* of its own, and multiplied with the scales of its own group.
THEOREM SplitkAssertsSuffice ==
  ASSUME NEW l, Sizes(l), Sliced(l), SplitkAsserts(l)
  PROVE  OnceInOwnGroup(l)
BY RegularIsExact DEF Regular, SplitkAsserts, BlocksInGroup

\* The masked loops of awq_gemm_kernel and awq_gemv_kernel do the same for any
\* K and any split, when their blocks lie in the groups.
THEOREM StridedLoopsExact ==
  ASSUME NEW l, Sizes(l), ~ Sliced(l), BlocksInGroup(l)
  PROVE  OnceInOwnGroup(l)
BY RegularIsExact DEF Regular

-----------------------------------------------------------------------------
(* The grids of the sweeps.                                                *)

LEMMA Blocks128 ==
  /\ 128 % 32 = 0 /\ 128 % 64 = 0 /\ 128 % 128 = 0
OBVIOUS

\* On a model with groups of 128 rows every candidate of the two sweeps of the GEMM
\* computes the product, on any shape: sweep_m16_r18.py, which compares its winners
\* only (216-232), cannot have one that does not pass, and sweep_m128_r16.py passes over
\* none for being wrong (194-197).  Rounding is left out of the model.
THEOREM TiledGridsExact ==
  ASSUME NEW K \in Nat \ {0}, NEW N, NEW M, NEW m, NEW c, TriedM128(c, K) \/ TriedM16(c, m, K)
  PROVE  OnceInOwnGroup([kernel |-> "gemm", M |-> M, N |-> N, K |-> K, G |-> 128,
                         BM |-> c.BM, BN |-> c.BN, BK |-> c.BK, SK |-> c.SK])
<1> DEFINE l == [kernel |-> "gemm", M |-> M, N |-> N, K |-> K, G |-> 128,
                 BM |-> c.BM, BN |-> c.BN, BK |-> c.BK, SK |-> c.SK]
<1>1. c.BK \in {32, 64, 128} /\ c.SK \in {1, 2, 4, 8}
  BY DEF TriedM128, TriedM16, GridM128, GridM16
<1>2. Sizes(l) /\ ~ Sliced(l)
  BY <1>1 DEF Sizes, Sliced
<1>3. BlocksInGroup(l)
  BY <1>1, Blocks128 DEF BlocksInGroup
<1> HIDE DEF l
<1>4. OnceInOwnGroup(l)
  BY <1>2, <1>3, StridedLoopsExact
<1>5. QED
  BY <1>4 DEF l

\* Whatever the groups, probe_sk2.py tries only splits that meet the asserts of the
\* K-split wrapper (awq_triton.py:537-539), so its unmasked kernel loads each row once.
THEOREM SplitGridExact ==
  ASSUME NEW K \in Nat \ {0}, NEW G \in Nat \ {0}, NEW N, NEW M, NEW c, TriedSk2(c, K, G)
  PROVE  OnceInOwnGroup([kernel |-> "splitk", M |-> M, N |-> N, K |-> K, G |-> G,
                         BM |-> c.BM, BN |-> c.BN, BK |-> c.BK, SK |-> c.SK])
<1> DEFINE l == [kernel |-> "splitk", M |-> M, N |-> N, K |-> K, G |-> G,
                 BM |-> c.BM, BN |-> c.BN, BK |-> c.BK, SK |-> c.SK]
<1>1. /\ c.BK \in {32, 64, 128} /\ c.SK \in {2, 4, 8, 16, 32}
      /\ K % c.SK = 0 /\ (K \div c.SK) % c.BK = 0 /\ G % c.BK = 0
  BY DEF TriedSk2, GridSk2
<1>2. Sizes(l) /\ Sliced(l)
  BY <1>1 DEF Sizes, Sliced
<1>3. SplitkAsserts(l)
  BY <1>1 DEF SplitkAsserts
<1> HIDE DEF l
<1>4. OnceInOwnGroup(l)
  BY <1>2, <1>3, SplitkAssertsSuffice
<1>5. QED
  BY <1>4 DEF l

-----------------------------------------------------------------------------
(* Sums.                                                                   *)

LEMMA MinimalSubset ==
  ASSUME NEW S, IsFiniteSet(S), NEW B, B \subseteq SUBSET S, B # {}
  PROVE  \E T \in B : \A U \in SUBSET T : U # T => U \notin B
<1> DEFINE R == StrictSubsetOrdering(S)
           F == FiniteSubsetsOf(S)
<1>1. IsWellFoundedOn(R, F)
  BY FS_StrictSubsetOrderingWellFounded
<1>2. B \subseteq F
  BY FS_Subset DEF FiniteSubsetsOf
<1> HIDE DEF R, F
<1>3. PICK T \in B : \A U \in B : ~ (<<U, T>> \in R)
  BY <1>1, <1>2, WFMin
<1>4. ASSUME NEW U \in SUBSET T, U # T, U \in B PROVE FALSE
  <2>1. <<U, T>> \in R
    BY <1>4 DEF R, StrictSubsetOrdering
  <2> QED BY <2>1, <1>3, <1>4
<1> QED BY <1>4

Picked(s) == CHOOSE x \in s : TRUE
IsSum(g, f, S) ==
  g = [s \in SUBSET S |-> IF s = {} THEN 0 ELSE f[Picked(s)] + g[s \ {Picked(s)}]]

LEMMA SumByPicks ==
  ASSUME NEW f, NEW S
  PROVE  SumFunctionOnSet(f, S) = (CHOOSE g : IsSum(g, f, S))[S]
BY DEF SumFunctionOnSet, FoldFunctionOnSet, MapThenFoldSet, IsSum, Picked

LEMMA SumUnique ==
  ASSUME NEW f, NEW S, IsFiniteSet(S), NEW T \in SUBSET S,
         NEW g, IsSum(g, f, S), NEW h, IsSum(h, f, T)
  PROVE  \A s \in SUBSET T : g[s] = h[s]
<1> DEFINE B == {s \in SUBSET T : g[s] # h[s]}
<1> SUFFICES ASSUME B # {} PROVE FALSE
  OBVIOUS
<1>0. IsFiniteSet(T)
  BY FS_Subset
<1>a. B \subseteq SUBSET T /\ \A s \in SUBSET T : s \notin B => g[s] = h[s]
  OBVIOUS
<1>b. \A s \in B : g[s] # h[s]
  OBVIOUS
<1> HIDE DEF B
<1>1. PICK s \in B : \A u \in SUBSET s : u # s => u \notin B
  BY <1>0, <1>a, MinimalSubset
<1>2. g[{}] = 0 /\ h[{}] = 0
  BY DEF IsSum
<1>3. s # {}
  BY <1>b, <1>2
<1> DEFINE x == Picked(s)
<1>4. x \in s
  BY <1>3 DEF Picked
<1>5. g[s] = f[x] + g[s \ {x}]
  BY <1>3, <1>a DEF IsSum
<1>6. h[s] = f[x] + h[s \ {x}]
  BY <1>3, <1>a DEF IsSum
<1> HIDE DEF x
<1>7. g[s \ {x}] = h[s \ {x}]
  BY <1>1, <1>4, <1>a
<1> QED BY <1>5, <1>6, <1>7, <1>b

LEMMA SumExists ==
  ASSUME NEW f, NEW S, IsFiniteSet(S)
  PROVE  \E g : IsSum(g, f, S)
<1> DEFINE B == {s \in SUBSET S : ~ \E g : IsSum(g, f, s)}
<1> SUFFICES ASSUME B # {} PROVE FALSE
  OBVIOUS
<1>a. B \subseteq SUBSET S /\ \A s \in SUBSET S : s \notin B => \E g : IsSum(g, f, s)
  OBVIOUS
<1>b. \A s \in B : ~ \E g : IsSum(g, f, s)
  OBVIOUS
<1> HIDE DEF B
<1>1. PICK T \in B : \A u \in SUBSET T : u # T => u \notin B
  BY <1>a, MinimalSubset
<1>c. T \in SUBSET S
  BY <1>a
<1> DEFINE G(s) == CHOOSE g : IsSum(g, f, s)
           V == [s \in SUBSET T |-> IF s = {} THEN 0
                                    ELSE f[Picked(s)] + G(s \ {Picked(s)})[s \ {Picked(s)}]]
<1>2. ASSUME NEW s \in SUBSET T, s # T PROVE IsSum(G(s), f, s)
  <2>1. \E g : IsSum(g, f, s)
    BY <1>1, <1>2, <1>a, <1>c
  <2> QED BY <2>1
<1> HIDE DEF G
<1>3. ASSUME NEW s \in SUBSET T, s # T PROVE V[s] = G(s)[s]
  <2>1. CASE s = {}
    BY <2>1, <1>2, <1>3 DEF IsSum
  <2>2. CASE s # {}
    <3> DEFINE x == Picked(s)
    <3>1. x \in s
      BY <2>2 DEF Picked
    <3>2. IsSum(G(s), f, s)
      BY <1>2, <1>3
    <3>3. G(s)[s] = f[x] + G(s)[s \ {x}]
      BY <3>2, <2>2 DEF IsSum
    <3>4. V[s] = f[x] + G(s \ {x})[s \ {x}]
      BY <2>2
    <3> HIDE DEF x, V
    <3>5. s \ {x} # T /\ s \ {x} \in SUBSET T
      BY <3>1
    <3>6. IsSum(G(s \ {x}), f, s \ {x})
      BY <1>2, <3>5
    <3>7. IsFiniteSet(s)
      BY <1>c, FS_Subset
    <3>8. G(s)[s \ {x}] = G(s \ {x})[s \ {x}]
      BY <3>2, <3>6, <3>7, SumUnique
    <3> QED BY <3>3, <3>4, <3>8
  <2> QED BY <2>1, <2>2
<1>4. IsSum(V, f, T)
  <2>1. ASSUME NEW s \in SUBSET T, s # {}
        PROVE  V[s] = f[Picked(s)] + V[s \ {Picked(s)}]
    <3>1. Picked(s) \in s
      BY <2>1 DEF Picked
    <3>2. V[s] = f[Picked(s)] + G(s \ {Picked(s)})[s \ {Picked(s)}]
      BY <2>1
    <3>3. V[s \ {Picked(s)}] = G(s \ {Picked(s)})[s \ {Picked(s)}]
      <4>1. s \ {Picked(s)} \in SUBSET T /\ s \ {Picked(s)} # T
        BY <3>1
      <4> QED BY <4>1, <1>3
    <3> QED BY <3>2, <3>3
  <2>2. V[{}] = 0
    OBVIOUS
  <2>3. V = [s \in SUBSET T |-> V[s]]
    OBVIOUS
  <2> HIDE DEF V
  <2> QED BY <2>1, <2>2, <2>3 DEF IsSum
<1> QED BY <1>b, <1>4

\* The sum of a function over a set, taken apart at the element picked first.
LEMMA SumPick ==
  ASSUME NEW f, NEW S, IsFiniteSet(S)
  PROVE  /\ SumFunctionOnSet(f, {}) = 0
         /\ S # {} => SumFunctionOnSet(f, S)
                        = f[Picked(S)] + SumFunctionOnSet(f, S \ {Picked(S)})
<1> DEFINE G(s) == CHOOSE g : IsSum(g, f, s)
<1>1. ASSUME NEW s \in SUBSET S PROVE IsSum(G(s), f, s)
  <2>1. \E g : IsSum(g, f, s)
    BY FS_Subset, SumExists
  <2> QED BY <2>1
<1>2. \A s : SumFunctionOnSet(f, s) = G(s)[s]
  BY SumByPicks
<1> HIDE DEF G
<1>3. SumFunctionOnSet(f, {}) = 0
  BY <1>1, <1>2 DEF IsSum
<1>4. ASSUME S # {}
      PROVE  SumFunctionOnSet(f, S) = f[Picked(S)] + SumFunctionOnSet(f, S \ {Picked(S)})
  <2> DEFINE T == S \ {Picked(S)}
  <2>1. G(S)[S] = f[Picked(S)] + G(S)[T]
    BY <1>1, <1>4 DEF IsSum
  <2>2. T \in SUBSET S
    OBVIOUS
  <2> HIDE DEF T
  <2>3. IsSum(G(S), f, S) /\ IsSum(G(T), f, T)
    BY <1>1, <2>2
  <2>4. G(S)[T] = G(T)[T]
    BY <2>2, <2>3, SumUnique
  <2> QED BY <1>2, <2>1, <2>4 DEF T
<1> QED BY <1>3, <1>4

LEMMA SumType ==
  ASSUME NEW f, NEW S, IsFiniteSet(S), \A x \in S : f[x] \in Int
  PROVE  SumFunctionOnSet(f, S) \in Int
<1> DEFINE B == {s \in SUBSET S : SumFunctionOnSet(f, s) \notin Int}
<1>a. B \subseteq SUBSET S /\ \A s \in SUBSET S : s \notin B => SumFunctionOnSet(f, s) \in Int
  OBVIOUS
<1>b. \A s \in B : SumFunctionOnSet(f, s) \notin Int
  OBVIOUS
<1> HIDE DEF B
<1> SUFFICES ASSUME B # {} PROVE FALSE
  BY <1>a
<1>1. PICK s \in B : \A u \in SUBSET s : u # s => u \notin B
  BY <1>a, MinimalSubset
<1>2. s \in SUBSET S /\ IsFiniteSet(s)
  BY <1>a, FS_Subset
<1>3. s # {}
  <2>1. SumFunctionOnSet(f, {}) = 0
    BY SumPick
  <2> QED BY <2>1, <1>b
<1>4. Picked(s) \in s
  BY <1>3 DEF Picked
<1>5. SumFunctionOnSet(f, s) = f[Picked(s)] + SumFunctionOnSet(f, s \ {Picked(s)})
  BY <1>2, <1>3, SumPick
<1>6. SumFunctionOnSet(f, s \ {Picked(s)}) \in Int
  BY <1>1, <1>2, <1>4, <1>a
<1> QED BY <1>2, <1>4, <1>5, <1>6, <1>b

LEMMA SumTakeOut ==
  ASSUME NEW f, NEW S, IsFiniteSet(S), \A x \in S : f[x] \in Int, NEW a \in S
  PROVE  SumFunctionOnSet(f, S) = f[a] + SumFunctionOnSet(f, S \ {a})
<1> DEFINE Out(s) == \A x \in s : SumFunctionOnSet(f, s) = f[x] + SumFunctionOnSet(f, s \ {x})
           B == {s \in SUBSET S : ~ Out(s)}
<1>a. B \subseteq SUBSET S /\ \A s \in SUBSET S : s \notin B => Out(s)
  OBVIOUS
<1>b. \A s \in B : ~ Out(s)
  OBVIOUS
<1> HIDE DEF B
<1> SUFFICES ASSUME B # {} PROVE FALSE
  BY <1>a
<1>1. PICK s \in B : \A u \in SUBSET s : u # s => u \notin B
  BY <1>a, MinimalSubset
<1>2. s \in SUBSET S /\ IsFiniteSet(s)
  BY <1>a, FS_Subset
<1>3. ASSUME NEW x \in s
      PROVE  SumFunctionOnSet(f, s) = f[x] + SumFunctionOnSet(f, s \ {x})
  <2> DEFINE c == Picked(s)
  <2>1. c \in s
    BY <1>3 DEF Picked
  <2>2. SumFunctionOnSet(f, s) = f[c] + SumFunctionOnSet(f, s \ {c})
    BY <1>2, <1>3, SumPick
  <2> HIDE DEF c
  <2>3. CASE c = x
    BY <2>2, <2>3
  <2>4. CASE c # x
    <3>1. Out(s \ {c}) /\ Out(s \ {x})
      <4>1. s \ {c} \in SUBSET s /\ s \ {c} # s /\ s \ {x} \in SUBSET s /\ s \ {x} # s
        BY <1>3, <2>1
      <4>2. s \ {c} \notin B /\ s \ {x} \notin B
        BY <4>1, <1>1
      <4> QED BY <4>1, <4>2, <1>2, <1>a
    <3>2. SumFunctionOnSet(f, s \ {c}) = f[x] + SumFunctionOnSet(f, (s \ {c}) \ {x})
      BY <3>1, <1>3, <2>4
    <3>3. SumFunctionOnSet(f, s \ {x}) = f[c] + SumFunctionOnSet(f, (s \ {x}) \ {c})
      BY <3>1, <2>1, <2>4
    <3>4. (s \ {c}) \ {x} = (s \ {x}) \ {c}
      OBVIOUS
    <3> DEFINE r == SumFunctionOnSet(f, (s \ {x}) \ {c})
    <3>5. f[c] \in Int /\ f[x] \in Int /\ r \in Int
      <4>1. IsFiniteSet((s \ {x}) \ {c}) /\ \A y \in (s \ {x}) \ {c} : f[y] \in Int
        BY <1>2, FS_Subset
      <4>2. r \in Int
        BY <4>1, SumType
      <4> QED BY <4>2, <1>2, <1>3, <2>1
    <3> HIDE DEF r
    <3>6. SumFunctionOnSet(f, s \ {x}) = f[c] + r /\ SumFunctionOnSet(f, s \ {c}) = f[x] + r
      BY <3>2, <3>3, <3>4 DEF r
    <3> QED BY <3>5, <3>6, <2>2
  <2> QED BY <2>3, <2>4
<1> QED BY <1>3, <1>b


LEMMA SumAdd ==
  ASSUME NEW f, NEW S, IsFiniteSet(S), NEW a, a \notin S, \A x \in S \cup {a} : f[x] \in Int
  PROVE  SumFunctionOnSet(f, S \cup {a}) = SumFunctionOnSet(f, S) + f[a]
<1> DEFINE T == S \cup {a}
<1>1. IsFiniteSet(T) /\ a \in T /\ T \ {a} = S
  BY FS_AddElement
<1>2. \A x \in T : f[x] \in Int
  OBVIOUS
<1>3. SumFunctionOnSet(f, S) \in Int
  BY SumType
<1> HIDE DEF T
<1>4. SumFunctionOnSet(f, T) = f[a] + SumFunctionOnSet(f, T \ {a})
  BY <1>1, <1>2, SumTakeOut
<1>5. SumFunctionOnSet(f, T) = f[a] + SumFunctionOnSet(f, S)
  BY <1>1, <1>4
<1>6. f[a] \in Int
  BY <1>1, <1>2
<1> QED BY <1>3, <1>5, <1>6 DEF T

LEMMA SumEqual ==
  ASSUME NEW f, NEW g, NEW S, IsFiniteSet(S), \A x \in S : f[x] \in Int /\ g[x] = f[x]
  PROVE  SumFunctionOnSet(g, S) = SumFunctionOnSet(f, S)
<1> DEFINE Same(s) == SumFunctionOnSet(g, s) = SumFunctionOnSet(f, s)
           B == {s \in SUBSET S : ~ Same(s)}
<1>a. B \subseteq SUBSET S /\ \A s \in SUBSET S : s \notin B => Same(s)
  OBVIOUS
<1>b. \A s \in B : ~ Same(s)
  OBVIOUS
<1> HIDE DEF B
<1> SUFFICES ASSUME B # {} PROVE FALSE
  BY <1>a
<1>1. PICK s \in B : \A u \in SUBSET s : u # s => u \notin B
  BY <1>a, MinimalSubset
<1>2. s \in SUBSET S /\ IsFiniteSet(s)
  BY <1>a, FS_Subset
<1>3. s # {}
  <2>1. SumFunctionOnSet(f, {}) = 0
    BY SumPick
  <2>2. SumFunctionOnSet(g, {}) = 0
    BY SumPick
  <2> QED BY <2>1, <2>2, <1>b
<1>4. PICK a \in s : TRUE
  BY <1>3
<1>5. SumFunctionOnSet(f, s) = f[a] + SumFunctionOnSet(f, s \ {a})
  BY <1>2, SumTakeOut
<1>6. SumFunctionOnSet(g, s) = g[a] + SumFunctionOnSet(g, s \ {a})
  BY <1>2, SumTakeOut
<1>7. Same(s \ {a})
  BY <1>1, <1>2, <1>a
<1> QED BY <1>2, <1>5, <1>6, <1>7, <1>b

LEMMA SumUnion ==
  ASSUME NEW f, NEW S, IsFiniteSet(S), NEW R, IsFiniteSet(R), S \cap R = {},
         \A x \in S \cup R : f[x] \in Int
  PROVE  SumFunctionOnSet(f, S \cup R) = SumFunctionOnSet(f, S) + SumFunctionOnSet(f, R)
<1> DEFINE Adds(s) == SumFunctionOnSet(f, s \cup R) = SumFunctionOnSet(f, s) + SumFunctionOnSet(f, R)
           B == {s \in SUBSET S : ~ Adds(s)}
<1>a. B \subseteq SUBSET S /\ \A s \in SUBSET S : s \notin B => Adds(s)
  OBVIOUS
<1>b. \A s \in B : ~ Adds(s)
  OBVIOUS
<1>0. SumFunctionOnSet(f, R) \in Int
  BY SumType
<1> HIDE DEF B
<1> SUFFICES ASSUME B # {} PROVE FALSE
  BY <1>a
<1>1. PICK s \in B : \A u \in SUBSET s : u # s => u \notin B
  BY <1>a, MinimalSubset
<1>2. s \in SUBSET S /\ IsFiniteSet(s)
  BY <1>a, FS_Subset
<1>3. s # {}
  <2>1. SumFunctionOnSet(f, {}) = 0
    BY SumPick
  <2>2. {} \cup R = R
    OBVIOUS
  <2>3. Adds({})
    BY <2>1, <2>2, <1>0
  <2> QED BY <2>3, <1>b
<1>4. PICK a \in s : TRUE
  BY <1>3
<1>5. SumFunctionOnSet(f, s) = f[a] + SumFunctionOnSet(f, s \ {a})
  BY <1>2, SumTakeOut
<1>6. SumFunctionOnSet(f, s \cup R) = f[a] + SumFunctionOnSet(f, (s \cup R) \ {a})
  <2>1. IsFiniteSet(s \cup R)
    BY <1>2, FS_Union
  <2>2. a \in s \cup R /\ \A x \in s \cup R : f[x] \in Int
    BY <1>2
  <2> HIDE DEF Adds
  <2> QED BY <2>1, <2>2, SumTakeOut
<1>7. Adds(s \ {a})
  BY <1>1, <1>2, <1>a
<1>8. (s \cup R) \ {a} = (s \ {a}) \cup R
  BY <1>2
<1>9. SumFunctionOnSet(f, s \ {a}) \in Int /\ f[a] \in Int
  <2>1. IsFiniteSet(s \ {a}) /\ \A x \in s \ {a} : f[x] \in Int
    BY <1>2, FS_Subset
  <2> QED BY <2>1, <1>2, SumType
<1>10. SumFunctionOnSet(f, s \cup R) = f[a] + SumFunctionOnSet(f, (s \ {a}) \cup R)
  BY <1>6, <1>8
<1>11. Adds(s)
  BY <1>0, <1>5, <1>7, <1>9, <1>10
<1> QED BY <1>11, <1>b

\* A sum of naturals is one.
LEMMA SumNat ==
  ASSUME NEW f, NEW S, IsFiniteSet(S), \A x \in S : f[x] \in Nat
  PROVE  SumFunctionOnSet(f, S) \in Nat
<1> DEFINE B == {s \in SUBSET S : SumFunctionOnSet(f, s) \notin Nat}
<1>1. B \subseteq SUBSET S /\ \A s \in SUBSET S : s \in B <=> SumFunctionOnSet(f, s) \notin Nat
  OBVIOUS
<1> HIDE DEF B
<1> SUFFICES ASSUME B # {} PROVE FALSE
  BY <1>1
<1>2. PICK s \in B : \A u \in SUBSET s : u # s => u \notin B
  BY <1>1, MinimalSubset
<1>3. s \in SUBSET S /\ IsFiniteSet(s)
  BY <1>1, FS_Subset
<1>4. s # {}
  <2>1. SumFunctionOnSet(f, {}) = 0
    BY SumPick
  <2>2. {} \notin B
    BY <2>1, <1>1
  <2> QED BY <2>2
<1>5. PICK a \in s : TRUE
  BY <1>4
<1>6. SumFunctionOnSet(f, s) = f[a] + SumFunctionOnSet(f, s \ {a})
  BY <1>3, SumTakeOut
<1>7. SumFunctionOnSet(f, s \ {a}) \in Nat
  BY <1>1, <1>2, <1>3
<1>8. f[a] \in Nat
  BY <1>3
<1> QED BY <1>1, <1>6, <1>7, <1>8

\* A part of a sum of naturals is at most the sum.
LEMMA SumPart ==
  ASSUME NEW f, NEW S, IsFiniteSet(S), \A x \in S : f[x] \in Nat, NEW R, R \subseteq S
  PROVE  SumFunctionOnSet(f, R) <= SumFunctionOnSet(f, S)
<1> DEFINE rest == S \ R
<1>1. IsFiniteSet(R) /\ IsFiniteSet(rest)
  BY FS_Subset
<1>2. rest \cap R = {} /\ R \cup rest = S /\ rest \subseteq S
  OBVIOUS
<1> HIDE DEF rest
<1>3. SumFunctionOnSet(f, R \cup rest) = SumFunctionOnSet(f, R) + SumFunctionOnSet(f, rest)
  BY <1>1, <1>2, SumUnion
<1>4. SumFunctionOnSet(f, R) \in Nat /\ SumFunctionOnSet(f, rest) \in Nat
  BY <1>1, <1>2, SumNat
<1>5. SumFunctionOnSet(f, S) = SumFunctionOnSet(f, R) + SumFunctionOnSet(f, rest)
  BY <1>2, <1>3
<1> QED BY <1>4, <1>5

\* U is cut in the blocks B[i], and g[i] is the sum over B[i].
Blocked(U, B, I) ==
  /\ \A i \in I : IsFiniteSet(B[i]) /\ B[i] \subseteq U
  /\ \A i \in I, j \in I : \A x \in B[i] : x \in B[j] => i = j
  /\ \A x \in U : \E i \in I : x \in B[i]

SumsOver(f, B, g, I) ==
  \A i \in I : g[i] = SumFunctionOnSet(f, B[i]) /\ \A x \in B[i] : f[x] \in Int

\* The sum over disjoint blocks is the sum of the sums over each.
LEMMA SumBlocks ==
  ASSUME NEW f, NEW I, IsFiniteSet(I), NEW B, NEW U, Blocked(U, B, I),
         NEW g, SumsOver(f, B, g, I)
  PROVE  SumFunctionOnSet(f, U) = SumFunctionOnSet(g, I)
<1> DEFINE All(s) == UNION {B[i] : i \in s}
           Whole(s) == IsFiniteSet(All(s)) /\ SumFunctionOnSet(f, All(s)) = SumFunctionOnSet(g, s)
           C == {s \in SUBSET I : ~ Whole(s)}
<1>0. /\ \A i \in I : IsFiniteSet(B[i]) /\ \A x \in B[i] : f[x] \in Int
      /\ \A i \in I, j \in I : i # j => B[i] \cap B[j] = {}
      /\ \A i \in I : g[i] = SumFunctionOnSet(f, B[i])
  BY DEF Blocked, SumsOver
<1>U. All(I) = U
  BY DEF Blocked
<1>a. C \subseteq SUBSET I /\ \A s \in SUBSET I : s \notin C => Whole(s)
  OBVIOUS
<1>b. \A s \in C : ~ Whole(s)
  OBVIOUS
<1>c. \A i \in I : g[i] \in Int
  BY <1>0, SumType
<1> HIDE DEF C
<1>d. ASSUME C = {} PROVE SumFunctionOnSet(f, U) = SumFunctionOnSet(g, I)
  <2>1. Whole(I)
    BY <1>a, <1>d
  <2>2. SumFunctionOnSet(f, All(I)) = SumFunctionOnSet(g, I)
    BY <2>1
  <2> HIDE DEF All
  <2> QED BY <2>2, <1>U
<1> SUFFICES ASSUME C # {} PROVE FALSE
  BY <1>d
<1>1. PICK s \in C : \A u \in SUBSET s : u # s => u \notin C
  BY <1>a, MinimalSubset
<1>2. s \in SUBSET I /\ IsFiniteSet(s)
  BY <1>a, FS_Subset
<1>3. s # {}
  <2>1. SumFunctionOnSet(f, {}) = 0
    BY SumPick
  <2>2. SumFunctionOnSet(g, {}) = 0
    BY SumPick
  <2>3. All({}) = {} /\ IsFiniteSet({})
    BY FS_EmptySet
  <2>4. Whole({})
    BY <2>1, <2>2, <2>3
  <2> QED BY <2>4, <1>b
<1>4. PICK a \in s : TRUE
  BY <1>3
<1>5. SumFunctionOnSet(g, s) = g[a] + SumFunctionOnSet(g, s \ {a})
  BY <1>2, <1>c, SumTakeOut
<1>6. Whole(s \ {a})
  BY <1>1, <1>2, <1>a
<1>7. All(s) = All(s \ {a}) \cup B[a]
  BY <1>2
<1>8. All(s \ {a}) \cap B[a] = {}
  BY <1>0, <1>2
<1>9. \A x \in All(s \ {a}) \cup B[a] : f[x] \in Int
  BY <1>0, <1>2
<1> DEFINE R == All(s \ {a})
<1>10. IsFiniteSet(R) /\ IsFiniteSet(B[a]) /\ SumFunctionOnSet(f, R) = SumFunctionOnSet(g, s \ {a})
  BY <1>0, <1>2, <1>6
<1>11. SumFunctionOnSet(g, s \ {a}) \in Int
  <2>1. IsFiniteSet(s \ {a}) /\ \A x \in s \ {a} : g[x] \in Int
    BY <1>2, <1>c, FS_Subset
  <2> QED BY <2>1, SumType
<1>12. All(s) = R \cup B[a] /\ R \cap B[a] = {} /\ \A x \in R \cup B[a] : f[x] \in Int
  BY <1>7, <1>8, <1>9
<1> HIDE DEF R
<1>13. SumFunctionOnSet(f, R \cup B[a]) = SumFunctionOnSet(f, R) + SumFunctionOnSet(f, B[a])
  BY <1>10, <1>12, SumUnion
<1>14. IsFiniteSet(R \cup B[a])
  BY <1>10, FS_Union
<1>15. g[a] = SumFunctionOnSet(f, B[a]) /\ g[a] \in Int
  BY <1>0, <1>2, <1>c
<1> DEFINE V == All(s)
<1>16. V = R \cup B[a]
  BY <1>12
<1> HIDE DEF V
<1>17. SumFunctionOnSet(f, V) = SumFunctionOnSet(g, s \ {a}) + g[a]
  BY <1>10, <1>13, <1>15, <1>16
<1>18. SumFunctionOnSet(f, V) = SumFunctionOnSet(g, s)
  BY <1>5, <1>11, <1>15, <1>17
<1>19. Whole(s)
  BY <1>14, <1>16, <1>18 DEF V
<1> QED BY <1>19, <1>b

\* What is added up trip by trip and part by part is the sum over the rows of K.
LEMMA SumOfLoops ==
  ASSUME NEW l, Regular(l), NEW f, \A k \in 0 .. l.K - 1 : f[k] \in Int,
         NEW g, \A z \in Parts(l) : \A i \in 0 .. Trips(l) - 1 :
                  g[z][i] = SumFunctionOnSet(f, BlockOf(l, <<z, i>>)),
         NEW h, \A z \in Parts(l) : h[z] = SumFunctionOnSet(g[z], 0 .. Trips(l) - 1)
  PROVE  /\ IsFiniteSet(Parts(l)) /\ \A z \in Parts(l) : h[z] \in Int
         /\ SumFunctionOnSet(f, 0 .. l.K - 1) = SumFunctionOnSet(h, Parts(l))
<1> DEFINE T == 0 .. Trips(l) - 1
           Row == 0 .. l.K - 1
           Blocks == [z \in Parts(l) |-> [i \in T |-> BlockOf(l, <<z, i>>)]]
           Slices == [z \in Parts(l) |-> {k \in Row : \E i \in T : k \in Blocks[z][i]}]
<1>1. IsFiniteSet(T) /\ IsFiniteSet(Parts(l)) /\ IsFiniteSet(Row)
  <2>1. Trips(l) - 1 \in Int /\ l.SK - 1 \in Int /\ l.K - 1 \in Int /\ 0 \in Int
    BY TripFacts DEF Regular, Sizes
  <2> QED BY <2>1, FS_Interval DEF Parts
<1>2. \A z \in Parts(l) : \A i \in T : Blocks[z][i] = BlockOf(l, <<z, i>>)
  OBVIOUS
<1>3. ASSUME NEW z \in Parts(l), NEW i \in T
      PROVE  Blocks[z][i] = {k \in Row : k \div l.BK = Index(l, z, i)}
  BY BlockRows
<1>4. \A k \in Row : f[k] \in Int
  OBVIOUS
<1>5. \A z \in Parts(l) : \A i \in T : g[z][i] = SumFunctionOnSet(f, Blocks[z][i])
  BY <1>2
<1>6. \A z \in Parts(l) : h[z] = SumFunctionOnSet(g[z], T)
  OBVIOUS
<1>7. ASSUME NEW k \in Row PROVE \E z \in Parts(l), i \in T : k \in Blocks[z][i]
  BY <1>3, IndexBijective
<1>8. ASSUME NEW k \in Row, NEW y \in Parts(l), NEW z \in Parts(l), NEW j \in T, NEW i \in T,
             k \in Blocks[y][j], k \in Blocks[z][i]
      PROVE  y = z /\ j = i
  <2>1. Index(l, y, j) = Index(l, z, i)
    BY <1>3, <1>8
  <2> QED BY <2>1, IndexBijective
<1>9. \A z \in Parts(l) : \A i \in T : Blocks[z][i] \subseteq Row
  BY <1>3
<1>10. \A z \in Parts(l) : \A k \in Row : k \in Slices[z] <=> \E i \in T : k \in Blocks[z][i]
  OBVIOUS
<1>11. \A z \in Parts(l) : Slices[z] \subseteq Row
  OBVIOUS
<1> HIDE DEF Blocks, Row, T, Slices
<1>12. \A z \in Parts(l) : \A i \in T : IsFiniteSet(Blocks[z][i])
  BY <1>1, <1>9, FS_Subset
<1>13. ASSUME NEW z \in Parts(l)
       PROVE  SumFunctionOnSet(f, Slices[z]) = h[z] /\ h[z] \in Int
  <2> DEFINE b == Blocks[z]
  <2>1. \A i \in T : IsFiniteSet(b[i]) /\ \A x \in b[i] : f[x] \in Int
    BY <1>4, <1>9, <1>12
  <2>2. \A i \in T, j \in T : \A x \in b[i] : x \in b[j] => i = j
    BY <1>8, <1>9
  <2>3. \A i \in T : g[z][i] = SumFunctionOnSet(f, b[i])
    BY <1>5
  <2>4. \A x \in Slices[z] : \E i \in T : x \in b[i]
    BY <1>10, <1>11
  <2>5. \A i \in T : b[i] \subseteq Slices[z]
    BY <1>9, <1>10
  <2> HIDE DEF b
  <2>a. Blocked(Slices[z], b, T)
    BY <2>1, <2>2, <2>4, <2>5 DEF Blocked
  <2>b. SumsOver(f, b, g[z], T)
    BY <2>1, <2>3 DEF SumsOver
  <2>6. SumFunctionOnSet(f, Slices[z]) = SumFunctionOnSet(g[z], T)
    BY <1>1, <2>a, <2>b, SumBlocks
  <2>7. \A i \in T : g[z][i] \in Int
    BY <2>1, <2>3, SumType
  <2>8. SumFunctionOnSet(g[z], T) \in Int
    BY <1>1, <2>7, SumType
  <2> QED BY <1>6, <2>6, <2>8
<1>14. \A z \in Parts(l) : IsFiniteSet(Slices[z]) /\ \A x \in Slices[z] : f[x] \in Int
  BY <1>1, <1>4, <1>11, FS_Subset
<1>15. \A y \in Parts(l), z \in Parts(l) : \A x \in Slices[y] : x \in Slices[z] => y = z
  BY <1>8, <1>10, <1>11
<1>16. \A x \in Row : \E z \in Parts(l) : x \in Slices[z]
  BY <1>7, <1>10
<1>17. \A z \in Parts(l) : h[z] = SumFunctionOnSet(f, Slices[z])
  BY <1>13
<1>18. SumFunctionOnSet(f, Row) = SumFunctionOnSet(h, Parts(l))
  <2>1. Blocked(Row, Slices, Parts(l))
    BY <1>11, <1>14, <1>15, <1>16 DEF Blocked
  <2>2. SumsOver(f, Slices, h, Parts(l))
    BY <1>14, <1>17 DEF SumsOver
  <2> QED BY <1>1, <2>1, <2>2, SumBlocks
<1> QED BY <1>1, <1>13, <1>18 DEF Row

=============================================================================

-------------------------- MODULE AwqKernelsProofs --------------------------
(***************************************************************************)
(* Proofs about AwqKernels, for every launch of the three product kernels: *)
(* any sizes, tiles, splits and groups, and any order of the programs.     *)
(*                                                                         *)
(* A tile is known by two quotients and an address by three digits, so     *)
(* that division says which program owns an element and which cell it has. *)
(* What the loops load is the subject of AwqLoopsProofs.                   *)
(***************************************************************************)
EXTENDS AwqKernels, AwqDequantize, FusedSplitK, AwqLoopsProofs

-----------------------------------------------------------------------------
(* The launch.                                                             *)

LEMMA LaunchFacts ==
  ASSUME launch \in Launches
  PROVE  /\ launch.kernel \in Kernels
         /\ launch.M \in Nat \ {0} /\ launch.N \in Nat \ {0} /\ launch.K \in Nat \ {0}
         /\ launch.G \in Nat \ {0} /\ launch.K % launch.G = 0
         /\ launch.BM \in Nat \ {0} /\ launch.BN \in Nat \ {0}
         /\ launch.BK \in Nat \ {0} /\ launch.SK \in Nat \ {0}
BY AwqKernelsAssumption DEF Positive

LEMMA GridFacts ==
  ASSUME launch \in Launches
  PROVE  /\ NumPidN \in Nat \ {0} /\ Cdiv(launch.M, launch.BM) \in Nat \ {0}
         /\ launch.M <= Cdiv(launch.M, launch.BM) * launch.BM
         /\ launch.N <= NumPidN * launch.BN
BY LaunchFacts, CdivFacts DEF NumPidN

LEMMA LoopFacts ==
  ASSUME launch \in Launches, NEW z \in Parts(launch)
  PROVE  /\ z \in Nat /\ FirstK(launch, z) \in Nat /\ StepK(launch) \in Nat
         /\ Trips(launch) \in Nat
<1>1. /\ z \in Nat /\ launch.K \in Nat /\ launch.SK \in Nat \ {0} /\ launch.BK \in Nat \ {0}
  BY LaunchFacts DEF Parts
<1>2. launch.K \div launch.SK \in Nat
  BY <1>1, DivMod
<1>3. FirstK(launch, z) \in Nat /\ StepK(launch) \in Nat
  BY <1>1, <1>2 DEF FirstK, StepK, SlicedFirst, StridedFirst, SlicedStep, StridedStep, SliceWidth
<1>4. (launch.K + launch.BK * launch.SK - 1) \div (launch.BK * launch.SK) \in Nat
  <2>1. launch.BK * launch.SK \in Nat \ {0}
    BY <1>1
  <2>2. launch.K + launch.BK * launch.SK - 1 \in Nat
    BY <1>1, <2>1
  <2>3. QED
    BY <2>1, <2>2, DivMod
<1>5. ((launch.K \div launch.SK) + launch.BK - 1) \div launch.BK \in Nat
  <2>1. (launch.K \div launch.SK) + launch.BK - 1 \in Nat
    BY <1>1, <1>2
  <2>2. QED
    BY <1>1, <2>1, DivMod
<1>6. QED
  BY <1>1, <1>3, <1>4, <1>5 DEF Trips, SlicedTrips, StridedTrips, SliceWidth, Cdiv

-----------------------------------------------------------------------------
(* Tiles.                                                                  *)

\* What is below c blocks has a quotient below c.
LEMMA QuotientBelow ==
  ASSUME NEW a \in Nat, NEW b \in Nat \ {0}, NEW c \in Nat, a < c * b
  PROVE  a \div b < c
<1> DEFINE q == a \div b
<1>1. q \in Nat /\ q * b <= a
  BY DivMod, BlockStart
<1> HIDE DEF q
<1>2. ASSUME c <= q
      PROVE  c * b <= q * b
  BY <1>1, <1>2
<1>3. c * b \in Nat /\ q * b \in Nat
  BY <1>1
<1>4. q < c
  BY <1>1, <1>2, <1>3
<1>5. QED
  BY <1>4 DEF q

LEMMA InTile ==
  ASSUME launch \in Launches, NEW p \in Programs, NEW e \in Elements
  PROVE  e \in Tile(p) <=> /\ e[1] \div launch.BM = p[1] \div NumPidN
                           /\ e[2] \div launch.BN = p[1] % NumPidN
<1>1. /\ e[1] \in Nat /\ e[2] \in Nat
      /\ launch.BM \in Nat \ {0} /\ launch.BN \in Nat \ {0} /\ NumPidN \in Nat \ {0}
  BY LaunchFacts, GridFacts DEF Elements
<1>2. p[1] \in Nat
  BY DEF Programs
<1> DEFINE q == p[1] \div NumPidN
           r == p[1] % NumPidN
<1>3. q \in Nat /\ r \in Nat
  <2>1. q \in Nat /\ r \in 0 .. NumPidN - 1
    BY <1>1, <1>2, DivMod
  <2>2. QED
    BY <1>1, <2>1
<1> HIDE DEF q, r
<1>4. e[1] \in q * launch.BM .. q * launch.BM + launch.BM - 1 <=> e[1] \div launch.BM = q
  BY <1>1, <1>3, BlockNumber
<1>5. e[2] \in r * launch.BN .. r * launch.BN + launch.BN - 1 <=> e[2] \div launch.BN = r
  BY <1>1, <1>3, BlockNumber
<1>6. QED
  BY <1>4, <1>5 DEF Tile, q, r

\* Each element is in the tile of one program of each part.
LEMMA OwnerFacts ==
  ASSUME launch \in Launches, NEW e \in Elements, NEW z \in Parts(launch)
  PROVE  /\ <<Owner(e), z>> \in Programs
         /\ \A p \in Programs : e \in Tile(p) <=> p[1] = Owner(e)
<1> DEFINE x == e[1] \div launch.BM
           y == e[2] \div launch.BN
           n == NumPidN
           c == Cdiv(launch.M, launch.BM)
<1>1. /\ e[1] \in Nat /\ e[2] \in Nat /\ e[1] < launch.M /\ e[2] < launch.N
      /\ launch.M \in Nat /\ launch.N \in Nat
      /\ launch.BM \in Nat \ {0} /\ launch.BN \in Nat \ {0}
  BY LaunchFacts DEF Elements
<1>2. /\ n \in Nat \ {0} /\ c \in Nat \ {0}
      /\ launch.M <= c * launch.BM /\ launch.N <= n * launch.BN
  BY GridFacts
<1>3. x \in Nat /\ y \in Nat
  BY <1>1, DivMod
<1>4. x < c /\ y < n
  <2>1. e[1] < c * launch.BM /\ e[2] < n * launch.BN
    <3>1. c * launch.BM \in Nat /\ n * launch.BN \in Nat
      BY <1>1, <1>2
    <3>2. QED
      BY <1>1, <1>2, <3>1
  <2>2. c \in Nat /\ n \in Nat
    BY <1>2
  <2> HIDE DEF n, c
  <2>3. x < c
    BY <1>1, <2>1, <2>2, QuotientBelow
  <2>4. y < n
    BY <1>1, <2>1, <2>2, QuotientBelow
  <2>5. QED
    BY <2>3, <2>4
<1> HIDE DEF x, y, n, c
<1>5. x * n + y \in Nat /\ (x * n + y) \div n = x /\ (x * n + y) % n = y
  <2>1. y \in 0 .. n - 1 /\ x * n + y \in Nat
    BY <1>2, <1>3, <1>4
  <2>2. QED
    BY <1>2, <1>3, <2>1, DivUnique
<1>6. x * n + y \in 0 .. c * n - 1
  <2>1. (x + 1) * n <= c * n
    BY <1>2, <1>3, <1>4
  <2>2. (x + 1) * n = x * n + n /\ x * n \in Nat /\ c * n \in Nat
    BY <1>2, <1>3
  <2>3. QED
    BY <1>2, <1>3, <1>4, <2>1, <2>2
<1>7. <<Owner(e), z>> \in Programs
  BY <1>6 DEF Owner, Programs, x, y, n, c
<1>8. ASSUME NEW p \in Programs
      PROVE  e \in Tile(p) <=> p[1] = Owner(e)
  <2>1. p[1] \in Nat
    BY DEF Programs
  <2>2. p[1] = n * (p[1] \div n) + (p[1] % n) /\ p[1] \div n \in Nat
    BY <1>2, <2>1, DivMod
  <2>3. e \in Tile(p) <=> x = p[1] \div n /\ y = p[1] % n
    BY InTile DEF x, y, n
  <2>4. Owner(e) = x * n + y
    BY DEF Owner, x, y, n
  <2>5. n * x = x * n
    BY <1>2, <1>3
  <2>6. QED
    BY <1>5, <2>2, <2>3, <2>4, <2>5
<1>9. QED
  BY <1>7, <1>8

-----------------------------------------------------------------------------
(* Addresses.                                                              *)

\* A cell of a plane.
Cell(e) == launch.N * e[1] + e[2]

LEMMA CellFacts ==
  ASSUME launch \in Launches, NEW e \in Elements
  PROVE  /\ Cell(e) \in 0 .. launch.N * launch.M - 1 /\ launch.N * launch.M \in Nat \ {0}
         /\ Cell(e) \div launch.N = e[1] /\ Cell(e) % launch.N = e[2]
<1> DEFINE n == launch.N
           m == launch.M
           x == e[1]
           y == e[2]
<1>1. n \in Nat \ {0} /\ m \in Nat \ {0} /\ x \in 0 .. m - 1 /\ y \in 0 .. n - 1
  BY LaunchFacts DEF Elements
<1> HIDE DEF n, m, x, y
<1>2. n * m \in Nat \ {0} /\ n * x \in Nat /\ x \in Nat /\ y \in Nat
  BY <1>1
<1>3. n * x + n <= n * m
  <2>1. n * (x + 1) <= n * m
    BY <1>1
  <2>2. n * (x + 1) = n * x + n
    BY <1>1
  <2>3. QED
    BY <2>1, <2>2
<1>4. n * x + y \in 0 .. n * m - 1
  BY <1>1, <1>2, <1>3
<1>5. n * x + y = x * n + y
  BY <1>1
<1>6. (n * x + y) \div n = x /\ (n * x + y) % n = y
  <2>1. n * x + y \in Nat
    BY <1>2
  <2>2. QED
    BY <1>1, <1>2, <1>5, <2>1, DivUnique
<1>7. QED
  BY <1>2, <1>4, <1>6 DEF Cell, n, m, x, y

\* No two elements, of one plane or of two, have the same address, and all lie
\* in the tensor.
LEMMA AddressFacts ==
  ASSUME launch \in Launches, NEW z \in Parts(launch), NEW e \in Elements
  PROVE  /\ Address(z, e) \in 0 .. launch.SK * launch.M * launch.N - 1
         /\ \A y \in Parts(launch), f \in Elements : Address(y, f) = Address(z, e) => y = z /\ f = e
<1> DEFINE n == launch.N
           m == launch.M
           k == launch.SK
           s == n * m
<1>1. n \in Nat \ {0} /\ m \in Nat \ {0} /\ k \in Nat \ {0} /\ z \in 0 .. k - 1
  BY LaunchFacts DEF Parts
<1>2. s \in Nat \ {0}
  BY <1>1
<1>3. ASSUME NEW y \in Parts(launch), NEW f \in Elements
      PROVE  /\ Address(y, f) = y * s + Cell(f) /\ y \in Nat
             /\ Cell(f) \in 0 .. s - 1 /\ Cell(f) \in Nat /\ Address(y, f) \in Nat
             /\ Address(y, f) \div s = y /\ Address(y, f) % s = Cell(f)
  <2>1. Cell(f) \in 0 .. s - 1 /\ y \in Nat
    BY CellFacts, <1>1 DEF Parts
  <2>2. y * n * m = y * s /\ y * s \in Nat
    BY <1>1, <2>1
  <2>3. Address(y, f) = y * s + Cell(f)
    <3>1. Address(y, f) = y * n * m + n * f[1] + f[2]
      BY DEF Address
    <3>2. f[1] \in Nat /\ f[2] \in Nat /\ n * f[1] \in Nat
      BY LaunchFacts DEF Elements
    <3>3. QED
      BY <2>2, <3>1, <3>2 DEF Cell
  <2>4. Address(y, f) \in Nat
    BY <1>2, <2>1, <2>2, <2>3
  <2> HIDE DEF s
  <2>5. Address(y, f) \div s = y /\ Address(y, f) % s = Cell(f)
    BY <1>2, <2>1, <2>3, <2>4, DivUnique
  <2>6. QED
    BY <1>2, <2>1, <2>3, <2>4, <2>5
<1>4. ASSUME NEW y \in Parts(launch), NEW f \in Elements, Address(y, f) = Address(z, e)
      PROVE  y = z /\ f = e
  <2>1. y = z /\ Cell(f) = Cell(e)
    <3> HIDE DEF s
    <3>1. QED
      BY <1>3, <1>4
  <2>2. f[1] = e[1] /\ f[2] = e[2]
    BY <2>1, CellFacts
  <2>3. QED
    BY <2>1, <2>2 DEF Elements
<1>5. Address(z, e) < k * m * n
  <2>1. Address(z, e) < z * s + s /\ Address(z, e) \in Nat
    <3> HIDE DEF s
    <3>1. z * s \in Nat
      BY <1>1, <1>2
    <3>2. QED
      BY <1>2, <1>3, <3>1
  <2>2. (z + 1) * s <= k * s /\ (z + 1) * s = z * s + s
    <3> HIDE DEF s
    <3>1. QED
      BY <1>1, <1>2
  <2>3. k * s = k * m * n /\ k * s \in Nat /\ z * s \in Nat
    BY <1>1
  <2>4. QED
    BY <1>1, <1>2, <2>1, <2>2, <2>3
<1>6. QED
  BY <1>3, <1>4, <1>5, <1>1

-----------------------------------------------------------------------------
(* The inductive invariant.                                                *)

\* What only depends on the launch.
LEMMA SameLaunch ==
  ASSUME launch' = launch
  PROVE  /\ Programs' = Programs /\ Elements' = Elements /\ NumPidN' = NumPidN
         /\ Asserts' = Asserts
         /\ \A e : Owner(e)' = Owner(e)
         /\ \A z, e : Address(z, e)' = Address(z, e)
         /\ \A z, i : Added(z, i)' = Added(z, i)
BY DEF Programs, Elements, NumPidN, Asserts, Owner, Address, Added

LEMMA ProgramFacts ==
  ASSUME NEW p \in Programs
  PROVE  p = <<p[1], p[2]>> /\ p[1] \in Nat /\ p[2] \in Parts(launch)
BY DEF Programs

LEMMA InitInv == Init => IInv
<1> SUFFICES ASSUME Init PROVE IInv
  OBVIOUS
<1>1. launch \in Launches /\ Entered
  BY DEF Init
<1>2. Guarded
  BY <1>1 DEF Entered, Guarded
<1>3. GoneRound
  <2>1. trip \in [Programs -> Nat] /\ DOMAIN acc = Programs
    BY <1>1 DEF Entered
  <2>2. offs \in [Programs -> Nat]
    BY <1>1, ProgramFacts, LoopFacts DEF Entered
  <2>3. ASSUME NEW p \in Programs
        PROVE  /\ trip[p] <= Trips(launch) + 1
               /\ offs[p] = FirstK(launch, p[2]) + trip[p] * StepK(launch)
               /\ acc[p] = UNION {Added(p[2], i) : i \in Behind(p)}
    <3>1. /\ Trips(launch) \in Nat /\ FirstK(launch, p[2]) \in Nat /\ StepK(launch) \in Nat
      BY <1>1, ProgramFacts, LoopFacts
    <3>2. trip[p] = 0 /\ offs[p] = FirstK(launch, p[2]) /\ acc[p] = {}
      BY <1>1 DEF Entered
    <3>3. Behind(p) = {}
      BY <3>1, <3>2 DEF Behind
    <3>4. QED
      BY <3>1, <3>2, <3>3
  <2>4. QED
    BY <2>1, <2>2, <2>3 DEF GoneRound
<1>4. StoredByOwner
  <2>1. DOMAIN result = 0 .. launch.SK * launch.M * launch.N - 1
    BY <1>1 DEF Entered
  <2>2. ASSUME NEW z \in Parts(launch), NEW e \in Elements
        PROVE  /\ result[Address(z, e)] = Unwritten
               /\ trip[<<Owner(e), z>>] # Trips(launch) + 1
    <3>1. <<Owner(e), z>> \in Programs /\ Trips(launch) \in Nat
      BY <1>1, OwnerFacts, LoopFacts
    <3>2. Address(z, e) \in 0 .. launch.SK * launch.M * launch.N - 1
      BY <1>1, AddressFacts
    <3>3. QED
      BY <1>1, <3>1, <3>2 DEF Entered
  <2>3. QED
    BY <2>1, <2>2 DEF StoredByOwner
<1>5. Returned
  BY <1>1 DEF Entered, Returned
<1>6. QED
  BY <1>2, <1>3, <1>4, <1>5 DEF IInv

\* A trip of p adds what that trip loads, and nothing else happens.
LEMMA GoRoundInv ==
  ASSUME IInv, NEW p \in Programs, GoRound(p)
  PROVE  IInv'
<1> DEFINE n == Trips(launch)
           z == p[2]
           row == ScaleRow(launch, z, trip[p])
<1>1. /\ launch' = launch /\ pc' = pc /\ result' = result /\ out' = out
      /\ pc = "running" /\ trip[p] < n
      /\ trip' = [trip EXCEPT ![p] = @ + 1]
      /\ offs' = [offs EXCEPT ![p] = @ + StepK(launch)]
      /\ acc' = [acc EXCEPT ![p] = @ \cup
                   {[k |-> k, row |-> row, by |-> <<z, trip[p]>>] :
                      k \in {k \in Loaded(launch, offs[p]) : row < launch.K \div launch.G}}]
  BY DEF GoRound
<1>2. /\ launch \in Launches /\ GoneRound /\ StoredByOwner /\ Asserts
  BY <1>1 DEF IInv, Guarded
<1>3. z \in Parts(launch) /\ n \in Nat /\ StepK(launch) \in Nat /\ FirstK(launch, z) \in Nat
  BY <1>2, ProgramFacts, LoopFacts
<1>4. trip[p] \in Nat /\ trip \in [Programs -> Nat] /\ offs \in [Programs -> Nat]
  BY <1>2 DEF GoneRound
<1>5. Programs' = Programs /\ Elements' = Elements /\ Trips(launch)' = n
  BY <1>1, SameLaunch
<1>6. Guarded'
  BY <1>1, <1>2, SameLaunch DEF Guarded
<1>7. acc'[p] = acc[p] \cup Added(z, trip[p])
  <2>1. offs[p] = FirstK(launch, z) + trip[p] * StepK(launch)
    BY <1>1, <1>2, <1>3, <1>4 DEF GoneRound
  <2>2. Loaded(launch, offs[p]) = BlockOf(launch, <<z, trip[p]>>)
    BY <2>1 DEF BlockOf
  <2>3. p \in DOMAIN acc
    BY <1>2 DEF GoneRound
  <2>4. QED
    BY <1>1, <2>2, <2>3 DEF Added
<1>8. Behind(p)' = Behind(p) \cup {trip[p]}
  <2>1. trip'[p] = trip[p] + 1
    BY <1>1, <1>4
  <2>2. \A i \in 0 .. n - 1 : i < trip[p] + 1 <=> (i < trip[p] \/ i = trip[p])
    BY <1>3, <1>4
  <2>3. trip[p] \in 0 .. n - 1
    BY <1>1, <1>3, <1>4
  <2>4. QED
    BY <1>5, <2>1, <2>2, <2>3 DEF Behind
<1>9. GoneRound'
  <2>1. trip' \in [Programs -> Nat] /\ offs' \in [Programs -> Nat] /\ DOMAIN acc' = Programs
    <3>1. DOMAIN acc = Programs
      BY <1>2 DEF GoneRound
    <3>2. QED
      BY <1>1, <1>3, <1>4, <3>1
  <2>2. ASSUME NEW q \in Programs
        PROVE  /\ trip'[q] <= n + 1
               /\ trip'[q] <= n => offs'[q] = FirstK(launch, q[2]) + trip'[q] * StepK(launch)
               /\ acc'[q] = UNION {Added(q[2], i) : i \in Behind(q)'}
    <3>1. CASE q # p
      <4>1. trip'[q] = trip[q] /\ offs'[q] = offs[q] /\ acc'[q] = acc[q]
        BY <1>1, <1>2, <3>1 DEF GoneRound
      <4>2. Behind(q)' = Behind(q)
        BY <1>5, <4>1 DEF Behind
      <4>3. QED
        BY <1>2, <4>1, <4>2 DEF GoneRound
    <3>2. CASE q = p
      <4>1. trip'[p] = trip[p] + 1 /\ offs'[p] = offs[p] + StepK(launch)
        BY <1>1, <1>4
      <4>2. offs[p] = FirstK(launch, z) + trip[p] * StepK(launch)
        BY <1>1, <1>2, <1>3, <1>4 DEF GoneRound
      <4>3. (trip[p] + 1) * StepK(launch) = trip[p] * StepK(launch) + StepK(launch)
        BY <1>3, <1>4
      <4>4. trip[p] * StepK(launch) \in Nat
        BY <1>3, <1>4
      <4>5. offs'[p] = FirstK(launch, z) + trip'[p] * StepK(launch)
        BY <1>3, <4>1, <4>2, <4>3, <4>4
      <4>6. acc[p] = UNION {Added(z, i) : i \in Behind(p)}
        BY <1>2 DEF GoneRound
      <4>7. acc'[p] = UNION {Added(z, i) : i \in Behind(p)'}
        BY <1>7, <1>8, <4>6
      <4>8. QED
        BY <1>1, <1>3, <1>4, <3>2, <4>1, <4>5, <4>7
    <3>3. QED
      BY <3>1, <3>2
  <2>3. QED
    BY <1>1, <1>5, <2>1, <2>2, SameLaunch DEF GoneRound
<1>10. StoredByOwner'
  <2>1. ASSUME NEW y \in Parts(launch), NEW e \in Elements
        PROVE  result[Address(y, e)] =
                 IF trip'[<<Owner(e), y>>] = n + 1
                 THEN [at |-> e, sum |-> acc'[<<Owner(e), y>>]]
                 ELSE Unwritten
    <3> DEFINE q == <<Owner(e), y>>
    <3>1. q \in Programs
      BY <1>2, OwnerFacts
    <3>2. result[Address(y, e)] =
            IF trip[q] = n + 1 THEN [at |-> e, sum |-> acc[q]] ELSE Unwritten
      BY <1>2 DEF StoredByOwner
    <3> HIDE DEF q
    <3>3. CASE q = p
      <4>1. trip[q] # n + 1 /\ trip'[q] # n + 1
        BY <1>1, <1>3, <1>4, <3>3
      <4>2. QED
        BY <3>2, <4>1 DEF q
    <3>4. CASE q # p
      <4>1. trip'[q] = trip[q] /\ acc'[q] = acc[q]
        BY <1>1, <1>2, <1>4, <3>1, <3>4 DEF GoneRound
      <4>2. QED
        BY <3>2, <4>1 DEF q
    <3>5. QED
      BY <3>3, <3>4
  <2>2. QED
    BY <1>1, <1>2, <1>5, <2>1, SameLaunch DEF StoredByOwner
<1>11. Returned'
  BY <1>1 DEF Returned
<1>12. QED
  BY <1>6, <1>9, <1>10, <1>11 DEF IInv

\* What a store does to the cell of e in plane z.
LEMMA StoredCell ==
  ASSUME IInv, NEW p \in Programs, Store(p), NEW z \in Parts(launch), NEW e \in Elements
  PROVE  result'[Address(z, e)] = IF p = <<Owner(e), z>> THEN [at |-> e, sum |-> acc[p]]
                                  ELSE result[Address(z, e)]
<1> DEFINE a == Address(z, e)
<1>1. launch \in Launches /\ DOMAIN result = 0 .. launch.SK * launch.M * launch.N - 1
  BY DEF IInv, Guarded, StoredByOwner
<1>2. p = <<p[1], p[2]>> /\ p[2] \in Parts(launch)
  BY ProgramFacts
<1>3. Tile(p) \subseteq Elements
  BY DEF Tile
<1>4. \A f \in Tile(p) : Address(p[2], f) = a => p[2] = z /\ f = e
  BY <1>1, <1>2, <1>3, AddressFacts
<1>5. e \in Tile(p) <=> p[1] = Owner(e)
  BY <1>1, OwnerFacts
<1>6. a \in DOMAIN result
  BY <1>1, AddressFacts
<1>7. result'[a] = IF \E f \in Tile(p) : Address(p[2], f) = a
                   THEN [at |-> CHOOSE f \in Tile(p) : Address(p[2], f) = a, sum |-> acc[p]]
                   ELSE result[a]
  BY <1>6 DEF Store
<1>8. CASE p = <<Owner(e), z>>
  <2>1. e \in Tile(p) /\ p[2] = z
    BY <1>5, <1>8
  <2>2. \E f \in Tile(p) : Address(p[2], f) = a
    BY <2>1
  <2>3. (CHOOSE f \in Tile(p) : Address(p[2], f) = a) = e
    BY <1>4, <2>2
  <2>4. QED
    BY <1>7, <1>8, <2>2, <2>3
<1>9. CASE p # <<Owner(e), z>>
  <2>1. ~ \E f \in Tile(p) : Address(p[2], f) = a
    BY <1>2, <1>4, <1>5, <1>9
  <2>2. QED
    BY <1>7, <1>9, <2>1
<1>10. QED
  BY <1>8, <1>9

\* A store fills the cells that are p's own, in its plane.
LEMMA StoreInv ==
  ASSUME IInv, NEW p \in Programs, Store(p)
  PROVE  IInv'
<1> DEFINE n == Trips(launch)
<1>1. /\ launch' = launch /\ pc' = pc /\ offs' = offs /\ acc' = acc /\ out' = out
      /\ pc = "running" /\ trip[p] = n
      /\ trip' = [trip EXCEPT ![p] = @ + 1]
      /\ DOMAIN result' = DOMAIN result
  BY DEF Store
<1>2. /\ launch \in Launches /\ GoneRound /\ StoredByOwner /\ Asserts
  BY <1>1 DEF IInv, Guarded
<1>3. n \in Nat
  BY <1>2, ProgramFacts, LoopFacts
<1>4. trip \in [Programs -> Nat] /\ trip'[p] = n + 1
  BY <1>1, <1>2 DEF GoneRound
<1>5. Programs' = Programs /\ Elements' = Elements
  BY <1>1, SameLaunch
<1>6. Guarded'
  BY <1>1, <1>2, SameLaunch DEF Guarded
<1>7. \A q \in Programs : q # p => trip'[q] = trip[q]
  BY <1>1, <1>4
<1>8. \A q \in Programs : Behind(q)' = Behind(q)
  <2>1. Behind(p)' = Behind(p)
    <3>1. \A i \in 0 .. n - 1 : i < n /\ i < n + 1
      BY <1>3
    <3>2. QED
      BY <1>1, <1>4, <3>1 DEF Behind
  <2>2. QED
    BY <1>1, <1>7, <2>1 DEF Behind
<1>9. GoneRound'
  <2>1. trip' \in [Programs -> Nat]
    BY <1>1, <1>3, <1>4
  <2>2. ASSUME NEW q \in Programs
        PROVE  /\ trip'[q] <= n + 1
               /\ trip'[q] <= n => offs[q] = FirstK(launch, q[2]) + trip'[q] * StepK(launch)
               /\ acc[q] = UNION {Added(q[2], i) : i \in Behind(q)'}
    <3>1. CASE q = p
      BY <1>2, <1>3, <1>4, <1>8, <3>1 DEF GoneRound
    <3>2. CASE q # p
      BY <1>2, <1>7, <1>8, <3>2 DEF GoneRound
    <3>3. QED
      BY <3>1, <3>2
  <2>3. QED
    BY <1>1, <1>2, <1>5, <2>1, <2>2, SameLaunch DEF GoneRound
<1>10. StoredByOwner'
  <2>1. ASSUME NEW z \in Parts(launch), NEW e \in Elements
        PROVE  result'[Address(z, e)] =
                 IF trip'[<<Owner(e), z>>] = n + 1
                 THEN [at |-> e, sum |-> acc[<<Owner(e), z>>]]
                 ELSE Unwritten
    <3> DEFINE q == <<Owner(e), z>>
    <3>1. q \in Programs
      BY <1>2, OwnerFacts
    <3>2. result[Address(z, e)] =
            IF trip[q] = n + 1 THEN [at |-> e, sum |-> acc[q]] ELSE Unwritten
      BY <1>2 DEF StoredByOwner
    <3>3. result'[Address(z, e)] = IF p = q THEN [at |-> e, sum |-> acc[p]]
                                   ELSE result[Address(z, e)]
      BY StoredCell
    <3> HIDE DEF q
    <3>4. CASE p = q
      BY <1>4, <3>3, <3>4 DEF q
    <3>5. CASE p # q
      <4>1. trip'[q] = trip[q]
        BY <1>7, <3>1, <3>5
      <4>2. QED
        BY <3>2, <3>3, <3>5, <4>1 DEF q
    <3>6. QED
      BY <3>4, <3>5
  <2>2. QED
    BY <1>1, <1>2, <1>5, <2>1, SameLaunch DEF StoredByOwner
<1>11. Returned'
  BY <1>1 DEF Returned
<1>12. QED
  BY <1>6, <1>9, <1>10, <1>11 DEF IInv

\* Steps that leave the programs and the planes alone.
LEMMA OtherInv ==
  ASSUME IInv, Launch \/ Raise \/ Finish \/ UNCHANGED vars
  PROVE  IInv'
<1>1. /\ launch' = launch /\ trip' = trip /\ offs' = offs /\ acc' = acc /\ result' = result
  BY DEF Launch, Raise, Finish, vars
<1>2. GoneRound'
  <2>1. \A q : Behind(q)' = Behind(q)
    BY <1>1 DEF Behind
  <2>2. QED
    BY <1>1, <2>1, SameLaunch DEF IInv, GoneRound
<1>3. StoredByOwner'
  BY <1>1, SameLaunch DEF IInv, StoredByOwner
<1>4. Guarded'
  BY <1>1, SameLaunch DEF IInv, Guarded, Launch, Raise, Finish, vars
<1>5. Returned'
  <2>1. CASE Launch \/ Raise
    BY <2>1 DEF Launch, Raise, Returned
  <2>2. CASE Finish
    <3>1. /\ \A p \in Programs : trip[p] = Trips(launch) + 1
          /\ out' = [e \in Elements |-> [z \in Parts(launch) |-> result[Address(z, e)]]]
      BY <2>2 DEF Finish
    <3>2. QED
      BY <1>1, <3>1, SameLaunch DEF Returned
  <2>3. CASE UNCHANGED vars
    BY <1>1, <2>3, SameLaunch DEF IInv, Returned, vars
  <2>4. QED
    BY <2>1, <2>2, <2>3
<1>6. QED
  BY <1>2, <1>3, <1>4, <1>5 DEF IInv

\* In every order of the programs: what each of them has added up and stored.
THEOREM ProgramsInvariant == Spec => []IInv
<1>1. IInv /\ [Next]_vars => IInv'
  BY GoRoundInv, StoreInv, OtherInv DEF Next
<1>2. QED
  BY <1>1, InitInv, PTL DEF Spec

-----------------------------------------------------------------------------
(* The properties.                                                         *)

\* What the asserts give to the loops.
LEMMA GuardedLoops ==
  ASSUME launch \in Launches, Asserts
  PROVE  /\ Regular(launch)
         /\ (launch.kernel = "gemm" => BlocksInGroup(launch)) => BlocksInGroup(launch)
<1>1. Sizes(launch)
  BY LaunchFacts DEF Sizes
<1>2. QED
  BY <1>1 DEF Asserts, Regular, Sliced, SplitkAsserts, GemvAsserts, BlocksInGroup

\* No program loads weights outside the tensor, though the K-split kernel loads
\* without a mask: its wrapper's asserts are enough, whatever the sizes.
THEOREM LoadsInsideHolds == Spec => []LoadsInside
<1>1. IInv => LoadsInside
  <2> SUFFICES ASSUME IInv, NEW p \in Programs, NEW t \in acc[p]
               PROVE  t.k < launch.K
    BY DEF LoadsInside
  <2>1. PICK i \in Behind(p) : t \in Added(p[2], i)
    BY DEF IInv, GoneRound
  <2>2. /\ launch \in Launches /\ p[2] \in Parts(launch)
        /\ i \in 0 .. Trips(launch) - 1 /\ i < trip[p]
    BY <2>1, ProgramFacts DEF IInv, Guarded, Behind
  <2>3. trip[p] # 0
    BY <2>2
  <2>4. Asserts
    BY <2>3 DEF IInv, Guarded
  <2>5. t.k \in BlockOf(launch, <<p[2], i>>)
    BY <2>1 DEF Added
  <2>6. t.k \in 0 .. launch.K - 1
    BY <2>2, <2>4, <2>5, GuardedLoops, BlockRows
  <2>7. QED
    BY <2>2, <2>6, LaunchFacts
<1>2. QED
  BY <1>1, ProgramsInvariant, PTL

\* No step overwrites what a program has stored.
THEOREM StoredOnceHolds == Spec => StoredOnce
<1> DEFINE Kept == \A a \in DOMAIN result : result[a] # Unwritten => result'[a] = result[a]
<1>1. IInv /\ [Next]_vars => [Kept]_vars
  <2> SUFFICES ASSUME IInv, [Next]_vars PROVE Kept
    OBVIOUS
  <2>1. ASSUME NEW p \in Programs, Store(p)
        PROVE  Kept
    <3> SUFFICES ASSUME NEW a \in DOMAIN result, result[a] # Unwritten
                 PROVE  result'[a] = result[a]
      OBVIOUS
    <3>1. launch \in Launches /\ p[2] \in Parts(launch) /\ p = <<p[1], p[2]>> /\ Trips(launch) \in Nat
      BY ProgramFacts, LoopFacts DEF IInv, Guarded
    <3>2. ASSUME NEW e \in Tile(p), Address(p[2], e) = a
          PROVE  FALSE
      <4>1. e \in Elements /\ p = <<Owner(e), p[2]>>
        BY <3>1, OwnerFacts DEF Tile
      <4>2. trip[p] = Trips(launch)
        BY <2>1 DEF Store
      <4>3. trip[<<Owner(e), p[2]>>] # Trips(launch) + 1
        BY <3>1, <4>1, <4>2
      <4>4. result[Address(p[2], e)] = Unwritten
        BY <3>1, <4>1, <4>3 DEF IInv, StoredByOwner
      <4>5. QED
        BY <3>2, <4>4
    <3>3. QED
      BY <2>1, <3>2 DEF Store
  <2>2. CASE result' = result
    BY <2>2
  <2>3. QED
    BY <2>1, <2>2 DEF Next, Launch, Raise, GoRound, Finish, vars
<1>2. QED
  BY <1>1, ProgramsInvariant, PTL DEF Spec, StoredOnce

\* The tensor that is returned is the product, for every launch whose blocks lie
\* in groups: each row of the weights once, with its own group's scales.
THEOREM ExactHolds == Spec => []Exact
<1>1. IInv => Exact
  <2> SUFFICES ASSUME IInv, pc = "returned", launch.kernel = "gemm" => BlocksInGroup(launch),
                      NEW e \in Elements
               PROVE  /\ \A z \in Parts(launch) : out[e][z] # Unwritten /\ out[e][z].at = e
                      /\ \A k \in 0 .. launch.K - 1 :
                           \E t \in Products(e) : t.k = k /\ t.row = k \div launch.G
                      /\ Cardinality(Products(e)) = launch.K
    BY DEF Exact
  <2> DEFINE n == Trips(launch)
             term == [x \in Loads(launch) |->
                        [k |-> x[1], row |-> ScaleRow(launch, x[2][1], x[2][2]), by |-> x[2]]]
  <2>1. launch \in Launches /\ Asserts
    BY DEF IInv, Guarded
  <2>2. Regular(launch) /\ BlocksInGroup(launch)
    BY <2>1, GuardedLoops
  <2>3. /\ UNION {BlockOf(launch, b) : b \in Begins(launch)} = 0 .. launch.K - 1
        /\ \A b \in Begins(launch) : \A k \in BlockOf(launch, b) :
             ScaleRow(launch, b[1], b[2]) = k \div launch.G
        /\ IsFiniteSet(Loads(launch)) /\ Cardinality(Loads(launch)) = launch.K
    BY <2>2, RegularIsExact, LoadsCount DEF OnceInOwnGroup
  <2>4. n \in Nat \ {0}
    BY <2>2, TripFacts
  \* A program has all its trips behind it.
  <2>5. ASSUME NEW z \in Parts(launch)
        PROVE  /\ out[e][z] = [at |-> e, sum |-> acc[<<Owner(e), z>>]]
               /\ acc[<<Owner(e), z>>] = UNION {Added(z, i) : i \in 0 .. n - 1}
               /\ out[e][z].sum = UNION {Added(z, i) : i \in 0 .. n - 1}
    <3> DEFINE p == <<Owner(e), z>>
    <3>1. p \in Programs
      BY <2>1, OwnerFacts
    <3>2. trip[p] = n + 1
      BY <3>1 DEF IInv, Returned
    <3>3. out[e][z] = [at |-> e, sum |-> acc[p]]
      BY <3>2 DEF IInv, Returned, StoredByOwner
    <3>4. Behind(p) = 0 .. n - 1
      <4>1. \A i \in 0 .. n - 1 : i < n + 1
        BY <2>4
      <4>2. QED
        BY <3>2, <4>1 DEF Behind
    <3>5. acc[p] = UNION {Added(p[2], i) : i \in Behind(p)}
      BY <3>1 DEF IInv, GoneRound
    <3>6. out[e][z].sum = acc[p]
      BY <3>3
    <3> HIDE DEF n
    <3>7. QED
      BY <3>3, <3>4, <3>5, <3>6
  \* No row of the scales is masked.
  <2>6. ASSUME NEW b \in Begins(launch), NEW k \in BlockOf(launch, b)
        PROVE  /\ ScaleRow(launch, b[1], b[2]) = k \div launch.G
               /\ k \div launch.G < launch.K \div launch.G /\ k \div launch.G \in Nat
               /\ k \in 0 .. launch.K - 1
    <3>1. k \in 0 .. launch.K - 1
      BY <2>3
    <3>2. /\ launch.K \in Nat \ {0} /\ launch.G \in Nat \ {0}
          /\ launch.K % launch.G = 0
      BY <2>1, LaunchFacts
    <3>3. launch.K = (launch.K \div launch.G) * launch.G /\ launch.K \div launch.G \in Nat
      <4>1. /\ launch.K = launch.G * (launch.K \div launch.G) + (launch.K % launch.G)
            /\ launch.K \div launch.G \in Nat
        BY <3>2, DivMod
      <4>2. QED
        BY <3>2, <4>1
    <3>4. k \in Nat /\ k < (launch.K \div launch.G) * launch.G
      BY <3>1, <3>2, <3>3
    <3>5. k \div launch.G < launch.K \div launch.G
      BY <3>2, <3>3, <3>4, QuotientBelow
    <3>6. QED
      BY <2>3, <3>1, <3>2, <3>4, <3>5, DivMod
  <2>7. ASSUME NEW z \in Parts(launch), NEW i \in 0 .. n - 1
        PROVE  Added(z, i) = {term[<<k, <<z, i>>>>] : k \in BlockOf(launch, <<z, i>>)}
    <3>1. <<z, i>> \in Begins(launch)
      BY DEF Begins
    <3>2. \A k \in BlockOf(launch, <<z, i>>) : <<k, <<z, i>>>> \in Loads(launch)
      BY <3>1 DEF Loads
    <3>3. \A k \in BlockOf(launch, <<z, i>>) :
            ScaleRow(launch, z, i) < launch.K \div launch.G
      BY <2>6, <3>1
    <3>4. QED
      BY <3>2, <3>3 DEF Added
  <2>8. Products(e) = {term[x] : x \in Loads(launch)}
    <3> HIDE DEF term
    <3>1. ASSUME NEW t \in Products(e)
          PROVE  \E x \in Loads(launch) : t = term[x]
      <4>1. PICK z \in Parts(launch) : t \in out[e][z].sum
        BY DEF Products
      <4>2. PICK i \in 0 .. n - 1 : t \in Added(z, i)
        <5>1. t \in UNION {Added(z, i) : i \in 0 .. n - 1}
          BY <2>5, <4>1
        <5>2. QED
          BY <5>1
      <4>3. PICK k \in BlockOf(launch, <<z, i>>) : t = term[<<k, <<z, i>>>>]
        BY <2>7, <4>2
      <4>4. <<k, <<z, i>>>> \in Loads(launch)
        BY DEF Loads, Begins
      <4>5. QED
        BY <4>3, <4>4
    <3>2. ASSUME NEW x \in Loads(launch)
          PROVE  term[x] \in Products(e)
      <4>1. PICK b \in Begins(launch) : x \in BlockOf(launch, b) \X {b}
        BY DEF Loads
      <4>2. PICK z \in Parts(launch), i \in 0 .. n - 1 : b = <<z, i>>
        BY DEF Begins
      <4>3. x = <<x[1], <<z, i>>>> /\ x[1] \in BlockOf(launch, <<z, i>>)
        BY <4>1, <4>2
      <4>4. term[x] \in Added(z, i)
        BY <2>7, <4>3
      <4>5. term[x] \in out[e][z].sum
        <5>1. term[x] \in UNION {Added(z, h) : h \in 0 .. n - 1}
          BY <4>4
        <5>2. QED
          BY <2>5, <5>1
      <4>6. QED
        BY <4>5 DEF Products
    <3>3. QED
      BY <3>1, <3>2
  <2>9. ASSUME NEW z \in Parts(launch)
        PROVE  out[e][z] # Unwritten /\ out[e][z].at = e
    <3>1. acc[<<Owner(e), z>>] \subseteq Terms
      <4>1. ASSUME NEW t \in acc[<<Owner(e), z>>]
            PROVE  t \in Terms
        <5>1. PICK i \in 0 .. n - 1 : t \in Added(z, i)
          <6>1. t \in UNION {Added(z, i) : i \in 0 .. n - 1}
            BY <2>5, <4>1
          <6>2. QED
            BY <6>1
        <5>2. PICK k \in BlockOf(launch, <<z, i>>) :
                t = [k |-> k, row |-> ScaleRow(launch, z, i), by |-> <<z, i>>]
          BY <5>1 DEF Added
        <5>3. <<z, i>> \in Begins(launch) /\ z \in Nat /\ i \in Nat
          BY <2>1, LoopFacts DEF Begins
        <5>4. k \in Nat /\ ScaleRow(launch, z, i) \in Nat
          BY <2>6, <5>3
        <5>5. QED
          BY <5>2, <5>3, <5>4 DEF Terms
      <4>2. QED
        BY <4>1
    <3>2. e \in Nat \X Nat
      BY <2>1, LaunchFacts DEF Elements
    <3>3. [at |-> e, sum |-> acc[<<Owner(e), z>>]] \in Sums
      BY <3>1, <3>2 DEF Sums
    <3>4. QED
      BY <2>5, <3>3, AwqKernelsAssumption
  <2>10. ASSUME NEW k \in 0 .. launch.K - 1
         PROVE  \E t \in Products(e) : t.k = k /\ t.row = k \div launch.G
    <3>1. PICK b \in Begins(launch) : k \in BlockOf(launch, b)
      BY <2>3
    <3>2. <<k, b>> \in Loads(launch)
      BY <3>1 DEF Loads
    <3>3. term[<<k, b>>] \in Products(e)
      BY <2>8, <3>2
    <3>4. term[<<k, b>>].k = k /\ term[<<k, b>>].row = k \div launch.G
      BY <2>6, <3>1, <3>2
    <3>5. QED
      BY <3>3, <3>4
  <2>11. Cardinality(Products(e)) = launch.K
    <3> DEFINE S == Loads(launch)
               T == Products(e)
    <3>1. term \in Surjection(S, T)
      BY <2>8 DEF Surjection
    <3>2. term \in Injection(S, T)
      <4>1. ASSUME NEW x \in S, NEW y \in S, term[x] = term[y]
            PROVE  x = y
        <5>1. term[x].k = x[1] /\ term[x].by = x[2] /\ term[y].k = y[1] /\ term[y].by = y[2]
          OBVIOUS
        <5>2. x = <<x[1], x[2]>> /\ y = <<y[1], y[2]>>
          BY DEF Loads
        <5>3. QED
          BY <4>1, <5>1, <5>2
      <4>2. QED
        BY <2>8, <4>1 DEF Injection, IsInjective
    <3>3. term \in Bijection(S, T)
      BY <3>1, <3>2 DEF Bijection
    <3>4. QED
      BY <2>3, <3>3, FS_Bijection DEF ExistsBijection
  <2>12. QED
    BY <2>9, <2>10, <2>11
<1>2. QED
  BY <1>1, ProgramsInvariant, PTL

-----------------------------------------------------------------------------
(* Packing.                                                                *)

LEMMA LowBits ==
  ASSUME NEW v \in 0 .. 15, NEW b \in Int, NEW q, q = v + 16 * b
  PROVE  q % 16 = v
OBVIOUS

LEMMA HighBits ==
  ASSUME NEW p \in Nat \ {0}, NEW low \in Nat, low < p, NEW q \in Int, NEW w, w = low + p * q
  PROVE  w \div p = q
OBVIOUS

\* The eight values of a word, in the order of their bits.
WordOf(a, b, c, d, e, f, g, h) ==
  a * 1 + b * 16 + c * 256 + d * 4096 + e * 65536 + f * 1048576 + g * 16777216
    + (IF h >= 8 THEN h - 16 ELSE h) * 268435456

\* Those eight values, four bits each from the lowest on.
Holds(w, a, b, c, d, e, f, g, h) ==
  /\ (w \div 1) % 16 = a /\ (w \div 16) % 16 = b /\ (w \div 256) % 16 = c
  /\ (w \div 4096) % 16 = d /\ (w \div 65536) % 16 = e /\ (w \div 1048576) % 16 = f
  /\ (w \div 16777216) % 16 = g /\ (w \div 268435456) % 16 = h

LEMMA UnpackWord ==
  ASSUME NEW a \in 0 .. 15, NEW b \in 0 .. 15, NEW c \in 0 .. 15, NEW d \in 0 .. 15,
         NEW e \in 0 .. 15, NEW f \in 0 .. 15, NEW g \in 0 .. 15, NEW h \in 0 .. 15
  PROVE  Holds(WordOf(a, b, c, d, e, f, g, h), a, b, c, d, e, f, g, h)
<1> DEFINE w == WordOf(a, b, c, d, e, f, g, h)
           t == IF h >= 8 THEN h - 16 ELSE h
           w7 == h + 16 * (IF h >= 8 THEN -1 ELSE 0)
           w6 == g + 16 * w7
           w5 == f + 16 * w6
           w4 == e + 16 * w5
           w3 == d + 16 * w4
           w2 == c + 16 * w3
           w1 == b + 16 * w2
           w0 == a + 16 * w1
<1>1. w7 = t /\ w7 \in Int
  OBVIOUS
<1>2. w6 \in Int /\ w5 \in Int /\ w4 \in Int /\ w3 \in Int /\ w2 \in Int /\ w1 \in Int /\ w0 \in Int
  OBVIOUS
<1>3. w = w0
  BY <1>1 DEF WordOf
<1>4. /\ w = a + 16 * w1
      /\ w = (a + 16 * b) + 256 * w2
      /\ w = (a + 16 * b + 256 * c) + 4096 * w3
      /\ w = (a + 16 * b + 256 * c + 4096 * d) + 65536 * w4
      /\ w = (a + 16 * b + 256 * c + 4096 * d + 65536 * e) + 1048576 * w5
      /\ w = (a + 16 * b + 256 * c + 4096 * d + 65536 * e + 1048576 * f) + 16777216 * w6
      /\ w = (a + 16 * b + 256 * c + 4096 * d + 65536 * e + 1048576 * f + 16777216 * g)
               + 268435456 * w7
  BY <1>3
<1>a. w7 = h + 16 * (IF h >= 8 THEN -1 ELSE 0) /\ (IF h >= 8 THEN -1 ELSE 0) \in Int
  OBVIOUS
<1>b. w7 \in Int
  BY <1>1
<1> HIDE DEF w, t, w1, w2, w3, w4, w5, w6, w7
<1>5. w \div 1 = a + 16 * w1
  <2>1. w \in Int
    BY <1>2, <1>4
  <2>2. w \div 1 = w
    BY <2>1
  <2> QED BY <2>2, <1>4
<1>6. (w \div 1) % 16 = a
  BY <1>2, <1>5, LowBits
<1>7. (w \div 16) % 16 = b
  <2>1. w \div 16 = w1
    BY <1>2, <1>4
  <2> QED BY <1>2, <2>1, LowBits DEF w1
<1>8. (w \div 256) % 16 = c
  <2> DEFINE p == 256
             low == a + 16 * b
  <2>1. low \in Nat /\ low < p /\ p \in Nat \ {0}
    OBVIOUS
  <2>2. w = low + p * w2
    BY <1>4
  <2> HIDE DEF low, p
  <2>3. w \div p = w2
    BY <1>2, <1>b, <2>1, <2>2, HighBits
  <2> QED BY <1>2, <1>a, <2>3, LowBits DEF p, w2
<1>9. (w \div 4096) % 16 = d
  <2> DEFINE p == 4096
             low == a + 16 * b + 256 * c
  <2>1. low \in Nat /\ low < p /\ p \in Nat \ {0}
    OBVIOUS
  <2>2. w = low + p * w3
    BY <1>4
  <2> HIDE DEF low, p
  <2>3. w \div p = w3
    BY <1>2, <1>b, <2>1, <2>2, HighBits
  <2> QED BY <1>2, <1>a, <2>3, LowBits DEF p, w3
<1>10. (w \div 65536) % 16 = e
  <2> DEFINE p == 65536
             low == a + 16 * b + 256 * c + 4096 * d
  <2>1. low \in Nat /\ low < p /\ p \in Nat \ {0}
    OBVIOUS
  <2>2. w = low + p * w4
    BY <1>4
  <2> HIDE DEF low, p
  <2>3. w \div p = w4
    BY <1>2, <1>b, <2>1, <2>2, HighBits
  <2> QED BY <1>2, <1>a, <2>3, LowBits DEF p, w4
<1>11. (w \div 1048576) % 16 = f
  <2> DEFINE p == 1048576
             low == a + 16 * b + 256 * c + 4096 * d + 65536 * e
  <2>1. low \in Nat /\ low < p /\ p \in Nat \ {0}
    OBVIOUS
  <2>2. w = low + p * w5
    BY <1>4
  <2> HIDE DEF low, p
  <2>3. w \div p = w5
    BY <1>2, <1>b, <2>1, <2>2, HighBits
  <2> QED BY <1>2, <1>a, <2>3, LowBits DEF p, w5
<1>12. (w \div 16777216) % 16 = g
  <2> DEFINE p == 16777216
             low == a + 16 * b + 256 * c + 4096 * d + 65536 * e + 1048576 * f
  <2>1. low \in Nat /\ low < p /\ p \in Nat \ {0}
    OBVIOUS
  <2>2. w = low + p * w6
    BY <1>4
  <2> HIDE DEF low, p
  <2>3. w \div p = w6
    BY <1>2, <1>b, <2>1, <2>2, HighBits
  <2> QED BY <1>2, <1>a, <2>3, LowBits DEF p, w6
<1>13. (w \div 268435456) % 16 = h
  <2> DEFINE p == 268435456
             low == a + 16 * b + 256 * c + 4096 * d + 65536 * e + 1048576 * f + 16777216 * g
  <2>1. low \in Nat /\ low < p /\ p \in Nat \ {0}
    OBVIOUS
  <2>2. w = low + p * w7
    BY <1>4
  <2> HIDE DEF low, p
  <2>3. w \div p = w7
    BY <1>2, <1>b, <2>1, <2>2, HighBits
  <2> QED BY <1>2, <1>a, <2>3, LowBits DEF p
<1> QED BY <1>6, <1>7, <1>8, <1>9, <1>10, <1>11, <1>12, <1>13 DEF Holds, w

\* The shifts of the kernel undo the order that AWQ packs in, the sign included.
LEMMA UnpackPack ==
  ASSUME NEW row, NEW x \in Nat, NEW c \in 0 .. 7,
         \A j \in 0 .. 7 : row[8 * x + j] \in 0 .. 15
  PROVE  Unpack(Pack(row, x), c) = row[8 * x + c]
<1> DEFINE v(j) == row[8 * x + j]
           w == WordOf(v(0), v(2), v(4), v(6), v(1), v(3), v(5), v(7))
<1>1. /\ AwqOrder[0 + 1] = 0 /\ AwqOrder[1 + 1] = 2 /\ AwqOrder[2 + 1] = 4 /\ AwqOrder[3 + 1] = 6
      /\ AwqOrder[4 + 1] = 1 /\ AwqOrder[5 + 1] = 3 /\ AwqOrder[6 + 1] = 5 /\ AwqOrder[7 + 1] = 7
  BY DEF AwqOrder
<1>2. /\ Place[0 + 1] = 1 /\ Place[1 + 1] = 16 /\ Place[2 + 1] = 256 /\ Place[3 + 1] = 4096
      /\ Place[4 + 1] = 65536 /\ Place[5 + 1] = 1048576 /\ Place[6 + 1] = 16777216
      /\ Place[8] = 268435456
  BY DEF Place
<1>3. Pack(row, x) = w
  BY <1>1, <1>2 DEF Pack, WordOf
<1>4. /\ v(0) \in 0 .. 15 /\ v(1) \in 0 .. 15 /\ v(2) \in 0 .. 15 /\ v(3) \in 0 .. 15
      /\ v(4) \in 0 .. 15 /\ v(5) \in 0 .. 15 /\ v(6) \in 0 .. 15 /\ v(7) \in 0 .. 15
  OBVIOUS
<1> DEFINE a0 == v(0)
           a1 == v(1)
           a2 == v(2)
           a3 == v(3)
           a4 == v(4)
           a5 == v(5)
           a6 == v(6)
           a7 == v(7)
<1>5. /\ a0 \in 0 .. 15 /\ a1 \in 0 .. 15 /\ a2 \in 0 .. 15 /\ a3 \in 0 .. 15
      /\ a4 \in 0 .. 15 /\ a5 \in 0 .. 15 /\ a6 \in 0 .. 15 /\ a7 \in 0 .. 15
      /\ w = WordOf(a0, a2, a4, a6, a1, a3, a5, a7)
  BY <1>4
<1> HIDE DEF a0, a1, a2, a3, a4, a5, a6, a7, w
<1>6. /\ (w \div 1) % 16 = a0 /\ (w \div 16) % 16 = a2 /\ (w \div 256) % 16 = a4
      /\ (w \div 4096) % 16 = a6 /\ (w \div 65536) % 16 = a1 /\ (w \div 1048576) % 16 = a3
      /\ (w \div 16777216) % 16 = a5 /\ (w \div 268435456) % 16 = a7
  <2>1. Holds(WordOf(a0, a2, a4, a6, a1, a3, a5, a7), a0, a2, a4, a6, a1, a3, a5, a7)
    BY <1>5, UnpackWord, Zenon
  <2>2. Holds(w, a0, a2, a4, a6, a1, a3, a5, a7)
    BY <1>5, <2>1, Zenon
  <2> QED BY <2>2 DEF Holds
<1>7. Unpack(w, c) = (w \div Place[(c % 2) * 4 + c \div 2 + 1]) % 16
  BY DEF Unpack, ReverseOrder
<1>8. /\ Place[1] = 1 /\ Place[2] = 16 /\ Place[3] = 256 /\ Place[4] = 4096 /\ Place[5] = 65536
      /\ Place[6] = 1048576 /\ Place[7] = 16777216 /\ Place[8] = 268435456
  BY DEF Place
<1>9. Unpack(w, c) = v(c)
  <2>0. CASE c = 0
    <3>1. (c % 2) * 4 + c \div 2 + 1 = 1
      BY <2>0
    <3> QED BY <1>6, <1>7, <1>8, <2>0, <3>1 DEF a0
  <2>1. CASE c = 1
    <3>1. (c % 2) * 4 + c \div 2 + 1 = 5
      BY <2>1
    <3> QED BY <1>6, <1>7, <1>8, <2>1, <3>1 DEF a1
  <2>2. CASE c = 2
    <3>1. (c % 2) * 4 + c \div 2 + 1 = 2
      BY <2>2
    <3> QED BY <1>6, <1>7, <1>8, <2>2, <3>1 DEF a2
  <2>3. CASE c = 3
    <3>1. (c % 2) * 4 + c \div 2 + 1 = 6
      BY <2>3
    <3> QED BY <1>6, <1>7, <1>8, <2>3, <3>1 DEF a3
  <2>4. CASE c = 4
    <3>1. (c % 2) * 4 + c \div 2 + 1 = 3
      BY <2>4
    <3> QED BY <1>6, <1>7, <1>8, <2>4, <3>1 DEF a4
  <2>5. CASE c = 5
    <3>1. (c % 2) * 4 + c \div 2 + 1 = 7
      BY <2>5
    <3> QED BY <1>6, <1>7, <1>8, <2>5, <3>1 DEF a5
  <2>6. CASE c = 6
    <3>1. (c % 2) * 4 + c \div 2 + 1 = 4
      BY <2>6
    <3> QED BY <1>6, <1>7, <1>8, <2>6, <3>1 DEF a6
  <2>7. CASE c = 7
    <3>1. (c % 2) * 4 + c \div 2 + 1 = 8
      BY <2>7
    <3> QED BY <1>6, <1>7, <1>8, <2>7, <3>1 DEF a7
  <2> QED BY <2>0, <2>1, <2>2, <2>3, <2>4, <2>5, <2>6, <2>7
<1> QED BY <1>3, <1>9

-----------------------------------------------------------------------------
(* Dequantizing.                                                           *)

\* A table has a 4-bit value for every row and column.
LEMMA TableValues ==
  ASSUME NEW n \in Nat \ {0}, NEW m, NEW t \in Tables(n, m), NEW k \in 0 .. n - 1,
         NEW j \in 0 .. m - 1
  PROVE  t[k][j] \in 0 .. 15
<1>1. t \in Nibbles /\ DOMAIN t = 0 .. n - 1 /\ DOMAIN t[0] = 0 .. m - 1
  BY DEF Tables
<1>2. DOMAIN t[k] = DOMAIN t[0] /\ \A i \in DOMAIN t[k] : t[k][i] \in 0 .. 15
  BY <1>1, DequantizeAssumption
<1> QED BY <1>1, <1>2

\* What Unpack finds in a table.
LEMMA TableUnpack ==
  ASSUME NEW n \in Nat \ {0}, NEW X \in Nat \ {0}, NEW t \in Tables(n, 8 * X),
         NEW k \in 0 .. n - 1, NEW j \in 0 .. 8 * X - 1
  PROVE  Unpack(Pack(t[k], j \div 8), j % 8) = t[k][j]
<1> DEFINE x == j \div 8
           c == j % 8
<1>1. /\ x \in Nat /\ c \in 0 .. 7 /\ j = 8 * x + c /\ j \in Nat /\ j < 8 * X
  OBVIOUS
<1>2. x < X
  BY <1>1
<1> HIDE DEF x, c
<1>3. ASSUME NEW i \in 0 .. 7
      PROVE  8 * x + i \in 0 .. 8 * X - 1
  BY <1>1, <1>2
<1>4. 8 * X \in Nat
  OBVIOUS
<1>5. \A i \in 0 .. 7 : t[k][8 * x + i] \in 0 .. 15
  BY <1>3, TableValues
<1>6. Unpack(Pack(t[k], x), c) = t[k][8 * x + c]
  BY <1>1, <1>5, UnpackPack
<1> QED BY <1>1, <1>6 DEF x, c

LEMMA MatrixFacts ==
  ASSUME matrix \in Matrices
  PROVE  /\ matrix.K \in Nat \ {0} /\ matrix.X \in Nat \ {0} /\ matrix.G \in Nat \ {0}
         /\ matrix.TX \in Nat \ {0} /\ matrix.TY \in Nat \ {0} /\ matrix.K % matrix.G = 0
         /\ \A g \in SupportedGroups : g % matrix.TY = 0
BY DequantizeAssumption

\* The row of zeros and scales of a tile is the one of each of its rows.
LEMMA TileInGroup ==
  ASSUME matrix \in Matrices, DeqAsserts, NEW p, NEW k \in 0 .. matrix.K - 1,
         k \div matrix.TY = p[2]
  PROVE  /\ GroupRow(p) = k \div matrix.G
         /\ k \div matrix.G \in 0 .. Groups - 1 /\ Groups \in Nat \ {0}
<1> DEFINE K == matrix.K
           G == matrix.G
           Y == matrix.TY
           c == K \div G
<1>1. K \in Nat \ {0} /\ G \in Nat \ {0} /\ Y \in Nat \ {0} /\ K % G = 0 /\ k \in 0 .. K - 1
  BY MatrixFacts
<1>2. G % Y = 0 \/ G = K
  BY MatrixFacts DEF DeqAsserts
<1>3. GroupRow(p) = ((k \div Y) * Y) \div G
  BY DEF GroupRow
<1>4. Groups = c
  BY DEF Groups
<1> HIDE DEF K, G, Y
<1>5. c \in Nat /\ K = c * G
  <2>1. c \in Nat /\ K = G * c + (K % G)
    BY <1>1, DivMod
  <2> HIDE DEF c
  <2> QED BY <1>1, <2>1
<1> HIDE DEF c
<1>6. k \in Nat /\ k < c * G /\ k \div G \in Nat
  <2>1. k \in Nat /\ k < c * G
    BY <1>1, <1>5
  <2> QED BY <1>1, <2>1, DivMod
<1>7. k \div G < c
  BY <1>1, <1>5, <1>6, QuotientBelow
<1>8. ((k \div Y) * Y) \div G = k \div G
  <2>1. CASE G % Y = 0
    BY <1>1, <1>6, <2>1, GroupOfBlock
  <2>2. CASE G = K
    <3> DEFINE first == (k \div Y) * Y
    <3>1. first \in Nat /\ first <= k
      BY <1>1, <1>6, BlockStart
    <3> HIDE DEF first
    <3>2. first \in 0 .. G - 1 /\ k \in 0 .. G - 1
      BY <1>1, <2>2, <3>1
    <3>3. first \div G = 0 /\ k \div G = 0
      BY <1>1, <3>2, DivSmall
    <3> QED BY <3>3 DEF first
  <2> QED BY <1>2, <2>1, <2>2
<1> QED BY <1>3, <1>4, <1>5, <1>6, <1>7, <1>8 DEF G

LEMMA ValueStored ==
  ASSUME DeqInv, DeqAsserts, NEW p, NEW e \in ValuesOf(p)
  PROVE  Dequantized(p, e) = ValueAt(e)
<1> DEFINE g == GroupRow(p)
           k == e[1]
           n == e[2]
<1>1. /\ e \in Values /\ k \div matrix.TY = p[2]
      /\ k \in 0 .. matrix.K - 1 /\ n \in 0 .. 8 * matrix.X - 1
  BY DEF ValuesOf, Values
<1>2. /\ matrix \in Matrices /\ matrix.K \in Nat \ {0} /\ matrix.X \in Nat \ {0}
      /\ weights \in Tables(matrix.K, 8 * matrix.X) /\ zeros \in Tables(Groups, 8 * matrix.X)
  BY MatrixFacts DEF DeqInv
<1>3. g = k \div matrix.G /\ g \in 0 .. Groups - 1 /\ Groups \in Nat \ {0}
  BY <1>1, <1>2, TileInGroup
<1>4. Unpack(Pack(weights[k], n \div 8), n % 8) = weights[k][n]
  BY <1>1, <1>2, TableUnpack
<1>5. Unpack(Pack(zeros[g], n \div 8), n % 8) = zeros[g][n]
  BY <1>1, <1>2, <1>3, TableUnpack
<1>6. g < Groups
  BY <1>3
<1>7. Dequantized(p, e)
        = (Unpack(Pack(weights[k], n \div 8), n % 8) - Unpack(Pack(zeros[g], n \div 8), n % 8))
            * Scale(g, n)
  BY <1>6 DEF Dequantized
<1>8. ValueAt(e) = (weights[k][n] - zeros[g][n]) * Scale(g, n)
  BY <1>3 DEF ValueAt
<1> QED BY <1>4, <1>5, <1>7, <1>8

\* Every value lies in the tile of a program of the grid.
LEMMA TileInGrid ==
  ASSUME matrix \in Matrices, NEW e \in Values
  PROVE  TileOf(e) \in DeqPrograms
<1>1. /\ matrix.K \in Nat \ {0} /\ matrix.X \in Nat \ {0}
      /\ matrix.TX \in Nat \ {0} /\ matrix.TY \in Nat \ {0}
  BY MatrixFacts
<1> DEFINE cx == Cdiv(matrix.X, matrix.TX)
           cy == Cdiv(matrix.K, matrix.TY)
<1>2. /\ cx \in Nat \ {0} /\ matrix.X <= cx * matrix.TX
      /\ cy \in Nat \ {0} /\ matrix.K <= cy * matrix.TY
  BY <1>1, CdivFacts
<1>3. e[1] \in 0 .. matrix.K - 1 /\ e[2] \in 0 .. 8 * matrix.X - 1
  BY DEF Values
<1> HIDE DEF cx, cy
<1>4. e[1] \in Nat /\ e[1] < cy * matrix.TY
  BY <1>1, <1>2, <1>3
<1>5. e[2] \in Nat /\ e[2] < cx * (8 * matrix.TX)
  <2>1. e[2] < 8 * matrix.X /\ 8 * matrix.X <= 8 * (cx * matrix.TX) /\ e[2] \in Nat
    BY <1>1, <1>2, <1>3
  <2>2. 8 * (cx * matrix.TX) = cx * (8 * matrix.TX) /\ cx * matrix.TX \in Nat
    BY <1>1, <1>2
  <2> QED BY <1>1, <2>1, <2>2
<1>6. e[1] \div matrix.TY \in 0 .. cy - 1
  <2>1. e[1] \div matrix.TY < cy
    BY <1>1, <1>2, <1>4, QuotientBelow
  <2>2. e[1] \div matrix.TY \in Nat
    BY <1>1, <1>4, DivMod
  <2> QED BY <1>2, <2>1, <2>2
<1>7. e[2] \div (8 * matrix.TX) \in 0 .. cx - 1
  <2>0. 8 * matrix.TX \in Nat \ {0}
    BY <1>1
  <2>1. e[2] \div (8 * matrix.TX) < cx
    BY <1>2, <1>5, <2>0, QuotientBelow
  <2>2. e[2] \div (8 * matrix.TX) \in Nat
    BY <1>5, <2>0, DivMod
  <2> QED BY <1>2, <2>1, <2>2
<1> QED BY <1>6, <1>7 DEF TileOf, DeqPrograms, cx, cy

LEMMA SameMatrix ==
  ASSUME UNCHANGED deqOperands
  PROVE  /\ matrix' = matrix /\ weights' = weights /\ zeros' = zeros
         /\ Values' = Values /\ DeqAsserts' = DeqAsserts /\ Groups' = Groups
         /\ \A e : ValueAt(e)' = ValueAt(e) /\ TileOf(e)' = TileOf(e)
BY DEF deqOperands, Values, DeqAsserts, Groups, ValueAt, TileOf, Scale

LEMMA DequantizeStep ==
  ASSUME DeqInv, NEW p \in tiles, Dequantize(p)
  PROVE  DeqInv'
<1>1. /\ step = "running" /\ step' = step /\ tiles' = tiles \ {p} /\ UNCHANGED deqOperands
      /\ dequantized' = [e \in Values |-> IF e \in ValuesOf(p) THEN Dequantized(p, e)
                                          ELSE dequantized[e]]
  BY DEF DeqInv, Dequantize
<1>2. DeqAsserts
  BY <1>1 DEF DeqInv
<1>3. ASSUME NEW e \in Values, TileOf(e) \notin tiles \ {p}
      PROVE  dequantized'[e] = ValueAt(e)
  <2>1. CASE e \in ValuesOf(p)
    BY <1>1, <1>2, <2>1, ValueStored
  <2>2. CASE e \notin ValuesOf(p)
    <3>1. TileOf(e) # p
      BY <2>2 DEF TileOf, ValuesOf
    <3>2. TileOf(e) \notin tiles
      BY <1>3, <3>1
    <3>3. dequantized[e] = ValueAt(e)
      BY <1>1, <3>2 DEF DeqInv
    <3> QED BY <1>1, <2>2, <3>3
  <2> QED BY <2>1, <2>2
<1> QED BY <1>1, <1>2, <1>3, SameMatrix DEF DeqInv

\* The dequantize kernel: what the programs that are done have stored, whatever the
\* order of the programs.
THEOREM DequantizeInvariant == DeqSpec => []DeqInv
<1>1. DeqInit => DeqInv
  BY DEF DeqInit, DeqInv
<1>2. ASSUME DeqInv, [DeqNext]_deqVars
      PROVE  DeqInv'
  <2>1. CASE DeqLaunch
    <3>1. /\ step' = "running" /\ DeqAsserts /\ tiles' = DeqPrograms /\ UNCHANGED deqOperands
      BY <2>1 DEF DeqLaunch
    <3>2. matrix \in Matrices
      BY <1>2 DEF DeqInv
    <3>3. \A e \in Values : TileOf(e) \in tiles'
      BY <3>1, <3>2, TileInGrid
    <3> QED BY <1>2, <3>1, <3>3, SameMatrix DEF DeqInv
  <2>2. CASE DeqRaise
    <3>1. step' = "raised" /\ step = "entered" /\ UNCHANGED deqOperands /\ tiles' = tiles
      BY <2>2 DEF DeqRaise
    <3> QED BY <1>2, <3>1, SameMatrix DEF DeqInv
  <2>3. ASSUME NEW p \in tiles, Dequantize(p)
        PROVE  DeqInv'
    BY <1>2, <2>3, DequantizeStep
  <2>4. CASE DeqReturn
    <3>1. /\ step = "running" /\ step' = "returned" /\ tiles = {} /\ tiles' = tiles
          /\ dequantized' = dequantized /\ UNCHANGED deqOperands
      BY <2>4 DEF DeqReturn
    <3> QED BY <1>2, <3>1, SameMatrix DEF DeqInv
  <2>5. CASE UNCHANGED deqVars
    <3>1. /\ step' = step /\ tiles' = tiles /\ dequantized' = dequantized
          /\ UNCHANGED deqOperands
      BY <2>5 DEF deqVars
    <3> QED BY <1>2, <3>1, SameMatrix DEF DeqInv
  <2> QED BY <1>2, <2>1, <2>2, <2>3, <2>4, <2>5 DEF DeqNext
<1> QED BY <1>1, <1>2, PTL DEF DeqSpec

\* What awq_dequantize_triton returns is the dequantised matrix.
THEOREM DequantizeExactHolds == DeqSpec => []DequantizeExact
<1>1. DeqInv => DequantizeExact
  BY DEF DeqInv, DequantizeExact
<1> QED BY <1>1, DequantizeInvariant, PTL

-----------------------------------------------------------------------------
(* The rounding.                                                           *)

LEMMA DivModInt ==
  ASSUME NEW x \in Int, NEW u \in Nat \ {0}
  PROVE  /\ x \div u \in Int /\ x % u \in 0 .. u - 1
         /\ x = u * (x \div u) + (x % u)
OBVIOUS

LEMMA MagnitudeFacts ==
  ASSUME NEW x \in Int
  PROVE  Magnitude(x) \in Nat /\ (Magnitude(x) = x \/ Magnitude(x) = -x)
BY DEF Magnitude

LEMMA LeastUnit ==
  ASSUME NEW T, T \subseteq Units, T # {}
  PROVE  Min(T) \in T /\ \A u \in T : Min(T) <= u
<1>1. T \subseteq Nat
  BY FusedAssumption
<1>2. PICK x \in T : \A y \in T : ~ (<<y, x>> \in OpToRel(<, Nat))
  BY <1>1, NatLessThanWellFounded, WFMin
<1>3. ASSUME NEW y \in T PROVE x <= y
  <2>1. ASSUME y < x PROVE FALSE
    <3>1. <<y, x>> \in {ss \in Nat \X Nat : ss[1] < ss[2]}
      BY <1>1, <2>1
    <3> QED BY <3>1, <1>2 DEF OpToRel
  <2> QED BY <2>1, <1>1
<1> QED BY <1>3 DEF Min

\* The units are finitely many.
LEMMA GreatestUnit ==
  Max(Units) \in Units /\ \A u \in Units : u <= Max(Units)
<1> DEFINE Bounded(s) == \E x \in s : \A y \in s : y <= x
           B == {s \in SUBSET Units : s # {} /\ ~ Bounded(s)}
<1>0. Units \subseteq Nat \ {0} /\ IsFiniteSet(Units) /\ Units # {}
  BY FusedAssumption
<1>1. B \subseteq SUBSET Units /\ \A s \in SUBSET Units : s # {} /\ s \notin B => Bounded(s)
  OBVIOUS
<1>2. \A s \in B : s # {} /\ ~ Bounded(s)
  OBVIOUS
<1> HIDE DEF B
<1>3. ASSUME B # {} PROVE FALSE
  <2>1. PICK s \in B : \A u \in SUBSET s : u # s => u \notin B
    BY <1>0, <1>1, <1>3, MinimalSubset
  <2>2. s \in SUBSET Units /\ s # {}
    BY <1>1, <1>2
  <2>3. PICK a \in s : TRUE
    BY <2>2
  <2>4. CASE s \ {a} = {}
    <3>1. \A y \in s : y <= a
      BY <1>0, <2>2, <2>4
    <3> QED BY <3>1, <1>2
  <2>5. CASE s \ {a} # {}
    <3>0. s \ {a} \in SUBSET Units /\ s \ {a} \notin B
      BY <2>1, <2>2
    <3>1. Bounded(s \ {a})
      BY <1>1, <2>5, <3>0
    <3>2. PICK b \in s \ {a} : \A y \in s \ {a} : y <= b
      BY <3>1
    <3>3. a \in Nat /\ b \in Nat
      BY <1>0, <2>2
    <3>4. CASE a <= b
      <4>1. \A y \in s : y <= b
        BY <3>2, <3>4
      <4> QED BY <4>1, <1>2
    <3>5. CASE b <= a
      <4>1. \A y \in s : y <= a
        BY <3>2, <3>3, <3>5, <1>0, <2>2
      <4> QED BY <4>1, <1>2
    <3> QED BY <3>3, <3>4, <3>5
  <2> QED BY <2>4, <2>5
<1>4. \E x \in Units : \A y \in Units : y <= x
  BY <1>0, <1>1, <1>3
<1>5. \E x \in Units : \A y \in Units : x >= y
  BY <1>0, <1>4
<1>6. Max(Units) \in Units /\ \A y \in Units : Max(Units) >= y
  BY <1>5 DEF Max
<1> QED BY <1>0, <1>6

LEMMA UlpFacts ==
  ASSUME NEW x \in Int
  PROVE  /\ Ulp(x) \in Nat \ {0}
         /\ Ulp(x) # 1 => Ulp(x) * Significand <= 2 * Magnitude(x)
         /\ \A u \in Units : Magnitude(x) < u * Significand => Ulp(x) <= u
<1>0. /\ Significand \in Nat \ {0, 1} /\ Units \subseteq Nat \ {0}
      /\ \A u \in Units : u = 1 \/ \E v \in Units : u = 2 * v
      /\ Magnitude(x) \in Nat
  BY FusedAssumption, MagnitudeFacts
<1>1. UnitsAt(x) \subseteq Units
  BY DEF UnitsAt
<1>2. CASE InRange(x)
  <2> DEFINE u == Min(UnitsAt(x))
  <2>1. u \in UnitsAt(x) /\ (\A v \in UnitsAt(x) : u <= v) /\ Ulp(x) = u
    BY <1>1, <1>2, LeastUnit DEF InRange, Ulp
  <2>2. u \in Nat \ {0} /\ u \in Units
    BY <1>0, <1>1, <2>1
  <2>3. ASSUME u # 1 PROVE u * Significand <= 2 * Magnitude(x)
    <3>1. PICK v \in Units : u = 2 * v
      BY <1>0, <2>2, <2>3
    <3>2. v \in Nat \ {0} /\ v < u
      BY <1>0, <3>1
    <3>3. v \notin UnitsAt(x)
      BY <2>1, <2>2, <3>2
    <3>4. ~ (Magnitude(x) < v * Significand)
      BY <3>3 DEF UnitsAt
    <3>5. v * Significand <= Magnitude(x) /\ v * Significand \in Nat
      BY <1>0, <3>2, <3>4
    <3>6. u * Significand = 2 * (v * Significand)
      BY <1>0, <3>1, <3>2
    <3> QED BY <1>0, <3>5, <3>6
  <2>4. \A v \in Units : Magnitude(x) < v * Significand => u <= v
    BY <2>1 DEF UnitsAt
  <2> QED BY <2>1, <2>2, <2>3, <2>4
<1>3. CASE ~ InRange(x)
  <2>1. Ulp(x) = Max(Units) /\ UnitsAt(x) = {}
    BY <1>3 DEF InRange, Ulp
  <2>2. Ulp(x) \in Nat \ {0} /\ Ulp(x) \in Units
    BY <1>0, <2>1, GreatestUnit
  <2>3. \A v \in Units : ~ (Magnitude(x) < v * Significand)
    BY <2>1 DEF UnitsAt
  <2>4. Ulp(x) * Significand <= Magnitude(x)
    <3> DEFINE m == Ulp(x) * Significand
    <3>1. m \in Nat /\ ~ (Magnitude(x) < m)
      BY <1>0, <2>2, <2>3
    <3> QED BY <1>0, <3>1
  <2>5. Ulp(x) * Significand <= 2 * Magnitude(x)
    <3> DEFINE m == Ulp(x) * Significand
    <3>1. m \in Nat /\ m <= Magnitude(x)
      BY <1>0, <2>2, <2>4
    <3> HIDE DEF m
    <3>2. m <= 2 * Magnitude(x)
      BY <1>0, <3>1
    <3> QED BY <3>2 DEF m
  <2> QED BY <2>2, <2>3, <2>5
<1> QED BY <1>2, <1>3

\* Rounding changes a number by at most half a unit, and one with unit 1 not at all.
LEMMA HalfNear ==
  ASSUME NEW x \in Int
  PROVE  /\ Half(x) \in Int
         /\ 2 * Magnitude(Half(x) - x) <= Ulp(x)
         /\ Ulp(x) = 1 => Half(x) = x
         /\ Magnitude(x) <= 2 * Magnitude(Half(x))
<1> DEFINE u == Ulp(x)
           q == x \div u
           r == x % u
           p == q * u
           h == IF 2 * r < u \/ (2 * r = u /\ q % 2 = 0) THEN p ELSE p + u
<1>1. /\ u \in Nat \ {0} /\ Significand \in Nat \ {0, 1}
      /\ u # 1 => u * Significand <= 2 * Magnitude(x)
  BY UlpFacts, FusedAssumption
<1>2. q \in Int /\ r \in 0 .. u - 1 /\ x = u * q + r
  BY <1>1, DivModInt
<1>4. Half(x) = h
  <2>1. (q + 1) * u = p + u
    BY <1>1, <1>2
  <2> QED BY <2>1 DEF Half
<1>5. u # 1 => 2 * u <= 2 * Magnitude(x)
  <2>1. 2 * u <= u * Significand
    BY <1>1
  <2>2. Magnitude(x) \in Nat /\ u * Significand \in Nat
    BY <1>1, MagnitudeFacts
  <2> HIDE DEF u
  <2> QED BY <1>1, <2>1, <2>2
<1>6. u = 1 => r = 0
  BY <1>2
<1> HIDE DEF u, q, r
<1>3. p \in Int /\ x = p + r
  BY <1>1, <1>2
<1> HIDE DEF p
<1>7. h \in Int /\ ((2 * r <= u /\ h = p) \/ (u <= 2 * r /\ h = p + u))
  BY <1>1, <1>2, <1>3
<1>8. 2 * Magnitude(h - x) <= u
  BY <1>1, <1>2, <1>3, <1>7 DEF Magnitude
<1>9. u = 1 => h = x
  BY <1>1, <1>3, <1>6
<1>10. Magnitude(x) <= 2 * Magnitude(h)
  BY <1>1, <1>3, <1>5, <1>7, <1>8, <1>9 DEF Magnitude
<1> HIDE DEF h
<1> QED BY <1>4, <1>7, <1>8, <1>9, <1>10 DEF u

-----------------------------------------------------------------------------
(* The sums of a launch.                                                   *)

LEMMA FusedSizes ==
  ASSUME FusedLaunched
  PROVE  /\ Sizes(fused) /\ Sliced(fused)
         /\ fused.N \in Nat \ {0} /\ fused.BN \in Nat \ {0} /\ fused.SK \in Nat \ {0}
         /\ fused.K \in Nat \ {0} /\ fused.G \in Nat \ {0} /\ fused.K % fused.G = 0
         /\ fused.K \div fused.G \in Nat
         /\ \A k \in 0 .. fused.K - 1 : weight[k] \in Int
         /\ \A j \in 0 .. (fused.K \div fused.G) - 1 : scale[j] \in Int
<1>1. /\ fused.kernel = "splitk" /\ fused.K % fused.G = 0
      /\ fused.N \in Nat \ {0} /\ fused.BN \in Nat \ {0} /\ fused.SK \in Nat \ {0}
      /\ fused.K \in Nat \ {0} /\ fused.G \in Nat \ {0} /\ fused.BK \in Nat \ {0}
  BY FusedAssumption DEF FusedLaunched
<1>2. /\ weight \in Weights /\ DOMAIN weight = 0 .. fused.K - 1
      /\ scale \in Scales /\ DOMAIN scale = 0 .. (fused.K \div fused.G) - 1
  BY DEF FusedLaunched
<1>3. \A f \in Weights \cup Scales : \A i \in DOMAIN f : f[i] \in Int
  BY FusedAssumption
<1>4. /\ \A k \in 0 .. fused.K - 1 : weight[k] \in Int
      /\ \A j \in 0 .. (fused.K \div fused.G) - 1 : scale[j] \in Int
  BY <1>2, <1>3
<1>5. fused.K \div fused.G \in Nat
  BY <1>1, DivMod
<1> QED BY <1>1, <1>4, <1>5 DEF Sizes, Sliced

LEMMA FusedRegular ==
  ASSUME FusedLaunched, SplitkAsserts(fused)
  PROVE  Regular(fused) /\ BlocksInGroup(fused)
BY FusedSizes DEF Regular, SplitkAsserts, BlocksInGroup

\* The row of the group that a row of K belongs to.
LEMMA FusedGroup ==
  ASSUME FusedLaunched, NEW k \in 0 .. fused.K - 1
  PROVE  k \div fused.G \in 0 .. (fused.K \div fused.G) - 1
<1> DEFINE c == fused.K \div fused.G
<1>1. fused.K \in Nat \ {0} /\ fused.G \in Nat \ {0} /\ fused.K % fused.G = 0 /\ c \in Nat
  BY FusedSizes
<1>2. fused.K = fused.G * c + (fused.K % fused.G)
  BY <1>1, DivMod
<1> HIDE DEF c
<1>3. fused.K = c * fused.G
  BY <1>1, <1>2
<1>4. k \in Nat /\ k < c * fused.G
  BY <1>1, <1>3
<1>5. k \div fused.G < c
  BY <1>1, <1>4, QuotientBelow
<1>6. k \div fused.G \in Nat
  BY <1>1, <1>4, DivMod
<1> QED BY <1>1, <1>5, <1>6 DEF c

\* A trip adds each row of its block with the scale of the row's own group.
LEMMA BlockSum ==
  ASSUME FusedLaunched, SplitkAsserts(fused),
         NEW z \in Parts(fused), NEW i \in 0 .. Trips(fused) - 1,
         NEW f, \A k \in 0 .. fused.K - 1 :
                  f[k] \in Int /\ f[k] = weight[k] * scale[k \div fused.G]
  PROVE  Block(z, i) = SumFunctionOnSet(f, BlockOf(fused, <<z, i>>))
<1> DEFINE S == BlockOf(fused, <<z, i>>)
           row == ScaleRow(fused, z, i)
           terms == [k \in S |-> weight[k] * scale[row]]
<1>1. Regular(fused) /\ BlocksInGroup(fused)
  BY FusedRegular
<1>2. S \subseteq 0 .. fused.K - 1
  BY <1>1, BlockRows
<1>3. \A k \in S : row = k \div fused.G
  BY <1>1, RowsOwnGroup
<1>4. IsFiniteSet(S)
  <2>1. 0 \in Int /\ fused.K - 1 \in Int
    BY FusedSizes
  <2>2. IsFiniteSet(0 .. fused.K - 1)
    BY <2>1, FS_Interval
  <2> HIDE DEF S
  <2> QED BY <1>2, <2>2, FS_Subset
<1>5. Block(z, i) = IF row < fused.K \div fused.G THEN SumFunction(terms) ELSE 0
  BY DEF Block
<1>6. DOMAIN terms = S
  OBVIOUS
<1>7. \A k \in S : terms[k] = weight[k] * scale[row]
  OBVIOUS
<1>8. SumFunction(terms) = SumFunctionOnSet(terms, DOMAIN terms)
  BY DEF SumFunction
<1> HIDE DEF S, row, terms
<1>9. \A k \in S : f[k] \in Int /\ terms[k] = f[k]
  BY <1>2, <1>3, <1>7
<1>10. SumFunctionOnSet(terms, S) = SumFunctionOnSet(f, S)
  BY <1>4, <1>9, SumEqual
<1>11. CASE row < fused.K \div fused.G
  BY <1>5, <1>6, <1>8, <1>10, <1>11 DEF S
<1>12. CASE ~ (row < fused.K \div fused.G)
  <2>1. \A k \in S : row \in 0 .. (fused.K \div fused.G) - 1
    BY <1>2, <1>3, FusedGroup
  <2>2. fused.K \div fused.G \in Nat
    BY FusedSizes
  <2>3. S = {}
    BY <1>12, <2>1, <2>2
  <2>4. SumFunctionOnSet(f, {}) = 0
    BY SumPick, FS_EmptySet
  <2> QED BY <1>5, <1>12, <2>3, <2>4 DEF S
<1> QED BY <1>11, <1>12

\* The partials are integers, and the product is their sum.
LEMMA ProductOfPartials ==
  ASSUME FusedLaunched, SplitkAsserts(fused)
  PROVE  /\ IsFiniteSet(Parts(fused))
         /\ \A z \in Parts(fused) : Partials[z] = Partial(z) /\ Partials[z] \in Int
         /\ Product = SumFunctionOnSet(Partials, Parts(fused))
<1> DEFINE Row == 0 .. fused.K - 1
           T == 0 .. Trips(fused) - 1
           f == [k \in Row |-> weight[k] * scale[k \div fused.G]]
           g == [z \in Parts(fused) |-> [i \in T |-> Block(z, i)]]
<1>1. \A k \in Row : f[k] \in Int /\ f[k] = weight[k] * scale[k \div fused.G]
  <2>1. ASSUME NEW k \in Row PROVE weight[k] \in Int /\ scale[k \div fused.G] \in Int
    BY FusedSizes, FusedGroup
  <2>2. ASSUME NEW k \in Row PROVE weight[k] * scale[k \div fused.G] \in Int
    BY <2>1
  <2> QED BY <2>2
<1>2. DOMAIN f = Row /\ Product = SumFunction(f)
  BY DEF Product
<1>3. SumFunction(f) = SumFunctionOnSet(f, DOMAIN f)
  BY DEF SumFunction
<1>4. ASSUME NEW z \in Parts(fused)
      PROVE  Partial(z) = SumFunctionOnSet(g[z], T)
  <2> DEFINE b == [i \in T |-> Block(z, i)]
  <2>1. DOMAIN b = T /\ g[z] = b /\ Partial(z) = SumFunction(b)
    BY DEF Partial
  <2>2. SumFunction(b) = SumFunctionOnSet(b, DOMAIN b)
    BY DEF SumFunction
  <2> HIDE DEF b, g, T
  <2> QED BY <2>1, <2>2
<1>5. \A z \in Parts(fused) : \A i \in T : g[z][i] = Block(z, i)
  OBVIOUS
<1> HIDE DEF f, g
<1>6. ASSUME NEW z \in Parts(fused), NEW i \in T
      PROVE  g[z][i] = SumFunctionOnSet(f, BlockOf(fused, <<z, i>>))
  BY <1>1, <1>5, BlockSum
<1>7. \A z \in Parts(fused) : Partials[z] = Partial(z)
  BY DEF Partials
<1>8. Regular(fused)
  BY FusedRegular
<1>9. \A z \in Parts(fused) : Partials[z] = SumFunctionOnSet(g[z], T)
  BY <1>4, <1>7
<1> DEFINE h == Partials
<1> HIDE DEF h
<1>10. /\ IsFiniteSet(Parts(fused)) /\ \A z \in Parts(fused) : h[z] \in Int
       /\ SumFunctionOnSet(f, Row) = SumFunctionOnSet(h, Parts(fused))
  <2>1. \A z \in Parts(fused) : h[z] = SumFunctionOnSet(g[z], 0 .. Trips(fused) - 1)
    BY <1>9 DEF h
  <2>2. \A z \in Parts(fused) : \A i \in 0 .. Trips(fused) - 1 :
           g[z][i] = SumFunctionOnSet(f, BlockOf(fused, <<z, i>>))
    BY <1>6
  <2>3. \A k \in 0 .. fused.K - 1 : f[k] \in Int
    BY <1>1
  <2> QED BY <1>8, <2>1, <2>2, <2>3, SumOfLoops
<1> QED BY <1>2, <1>3, <1>7, <1>10 DEF h

-----------------------------------------------------------------------------
(* The programs.                                                           *)

\* The sums depend on the operands only.
LEMMA SameOperands ==
  ASSUME UNCHANGED operands
  PROVE  /\ Partials' = Partials /\ Product' = Product /\ Largest' = Largest
         /\ Representable' = Representable /\ Columns' = Columns /\ Adders' = Adders
         /\ Magnitudes' = Magnitudes /\ Slack' = Slack /\ Ulp(2 * Largest)' = Ulp(2 * Largest)
         /\ InRange(2 * Largest)' = InRange(2 * Largest)
         /\ SplitkAsserts(fused)' = SplitkAsserts(fused)
         /\ Parts(fused)' = Parts(fused)
<1>1. Partials' = Partials
  BY DEF operands, Partials, Partial, Block
<1>2. Product' = Product /\ Columns' = Columns /\ Adders' = Adders
  BY DEF operands, Product, Columns, Adders
<1>0. Magnitudes' = Magnitudes
  BY DEF operands, Magnitudes, Partial, Block
<1>3. Largest' = Largest
  BY <1>0 DEF Largest
<1>4. Parts(fused)' = Parts(fused) /\ SplitkAsserts(fused)' = SplitkAsserts(fused)
  BY DEF operands
<1>5. Representable' = Representable
  BY <1>1, <1>4 DEF Representable
<1>6. Ulp(2 * Largest)' = Ulp(2 * Largest) /\ InRange(2 * Largest)' = InRange(2 * Largest)
  BY <1>3
<1>7. Slack' = Slack
  BY <1>6 DEF Slack
<1> QED BY <1>0, <1>1, <1>2, <1>3, <1>4, <1>5, <1>6, <1>7

LEMMA EndedFacts ==
  ASSUME FusedLaunched, NEW n \in Columns
  PROVE  /\ Ended(n) \subseteq Parts(fused)
         /\ n \div fused.BN \in 0 .. Cdiv(fused.N, fused.BN) - 1
<1>1. fused.N \in Nat \ {0} /\ fused.BN \in Nat \ {0} /\ n \in 0 .. fused.N - 1
  BY FusedSizes DEF Columns
<1>2. /\ Cdiv(fused.N, fused.BN) \in Nat \ {0}
      /\ fused.N <= Cdiv(fused.N, fused.BN) * fused.BN
  BY <1>1, CdivFacts
<1>3. n \in Nat /\ n < Cdiv(fused.N, fused.BN) * fused.BN
  BY <1>1, <1>2
<1>4. n \div fused.BN < Cdiv(fused.N, fused.BN)
  BY <1>1, <1>2, <1>3, QuotientBelow
<1>5. n \div fused.BN \in Nat
  BY <1>1, <1>3, DivMod
<1> QED BY <1>2, <1>4, <1>5 DEF Ended

\* What one add does to one column.
LEMMA AddStep ==
  ASSUME FusedLaunched, NEW p \in adding, AddPartial(p)
  PROVE  /\ stage = "running" /\ SplitkAsserts(fused) /\ p[2] \in Parts(fused)
         /\ \A n \in Columns :
              \/ /\ p[2] \notin Ended(n) /\ Ended(n)' = Ended(n) \cup {p[2]}
                 /\ total'[n] = Half(total[n] + Half(Partial(p[2])))
              \/ /\ Ended(n)' = Ended(n)
                 /\ total'[n] = total[n]
<1>1. stage = "running" /\ SplitkAsserts(fused) /\ adding \subseteq Adders
  BY DEF FusedLaunched
<1>2. p \in (0 .. Cdiv(fused.N, fused.BN) - 1) \X Parts(fused)
  BY <1>1 DEF Adders
<1>3. p[2] \in Parts(fused) /\ p = <<p[1], p[2]>>
  BY <1>2
<1>4. /\ adding' = adding \ {p} /\ fused' = fused
      /\ total' = [n \in Columns |-> IF n \in ColumnsOf(p)
                                     THEN Half(total[n] + Half(Partial(p[2]))) ELSE total[n]]
  BY DEF AddPartial, operands
<1>5. ASSUME NEW n \in Columns, n \in ColumnsOf(p)
      PROVE  /\ p[2] \notin Ended(n) /\ Ended(n)' = Ended(n) \cup {p[2]}
             /\ total'[n] = Half(total[n] + Half(Partial(p[2])))
  <2>1. n \div fused.BN = p[1]
    BY <1>5 DEF ColumnsOf
  <2>2. Ended(n) = {z \in Parts(fused) : <<p[1], z>> \notin adding}
    BY <2>1 DEF Ended
  <2>3. Ended(n)' = {z \in Parts(fused) : <<p[1], z>> \notin adding \ {p}}
    BY <1>4, <2>1 DEF Ended
  <2>4. \A z \in Parts(fused) : <<p[1], z>> = p <=> z = p[2]
    BY <1>3
  <2>5. p[2] \notin Ended(n) /\ Ended(n)' = Ended(n) \cup {p[2]}
    BY <1>3, <2>2, <2>3, <2>4
  <2> QED BY <1>4, <1>5, <2>5
<1>6. ASSUME NEW n \in Columns, n \notin ColumnsOf(p)
      PROVE  Ended(n)' = Ended(n) /\ total'[n] = total[n]
  <2>1. n \div fused.BN # p[1]
    BY <1>6 DEF ColumnsOf
  <2>2. \A z \in Parts(fused) : <<n \div fused.BN, z>> # p
    BY <1>3, <2>1
  <2>3. Ended(n)' = {z \in Parts(fused) : <<n \div fused.BN, z>> \notin adding \ {p}}
    BY <1>4 DEF Ended
  <2>4. Ended(n)' = Ended(n)
    BY <2>2, <2>3 DEF Ended
  <2> QED BY <1>4, <1>6, <2>4
<1> QED BY <1>1, <1>3, <1>5, <1>6

LEMMA FusedLaunchedStep ==
  ASSUME FusedLaunched, [FusedNext]_fusedVars
  PROVE  FusedLaunched'
<1>1. CASE FusedLaunch
  BY <1>1 DEF FusedLaunched, FusedLaunch, operands, Adders
<1>2. CASE FusedRaise
  BY <1>2 DEF FusedLaunched, FusedRaise, operands
<1>3. ASSUME NEW p \in adding, AddPartial(p)
      PROVE  FusedLaunched'
  <2>1. stage = "running" /\ SplitkAsserts(fused) /\ adding \subseteq Adders
    BY DEF FusedLaunched
  <2> QED BY <1>3, <2>1 DEF FusedLaunched, AddPartial, operands, Adders
<1>4. CASE FusedReturn
  BY <1>4 DEF FusedLaunched, FusedReturn, operands, Adders
<1>5. CASE UNCHANGED fusedVars
  BY <1>5 DEF FusedLaunched, fusedVars, operands, Adders
<1> QED BY <1>1, <1>2, <1>3, <1>4, <1>5 DEF FusedNext

\* At the launch no part has ended, at the return every part has.
LEMMA LaunchedColumns ==
  ASSUME FusedLaunched, FusedLaunch
  PROVE  /\ SplitkAsserts(fused) /\ UNCHANGED operands
         /\ \A n \in Columns : Ended(n)' = {} /\ total'[n] = 0
<1>1. /\ adding' = Adders /\ fused' = fused /\ total' = [n \in Columns |-> 0]
      /\ SplitkAsserts(fused) /\ UNCHANGED operands
  BY DEF FusedLaunch, operands
<1>2. ASSUME NEW n \in Columns PROVE Ended(n)' = {}
  <2>1. Ended(n)' = {z \in Parts(fused) : <<n \div fused.BN, z>> \notin Adders}
    BY <1>1 DEF Ended
  <2> QED BY <2>1, EndedFacts DEF Adders
<1> QED BY <1>1, <1>2

LEMMA SumOfEndedStep ==
  ASSUME FusedLaunched, SumOfEnded, [FusedNext]_fusedVars
  PROVE  SumOfEnded'
<1> DEFINE F == Partials
<1>1. CASE FusedLaunch
  <2>1. /\ \A n \in Columns : Ended(n)' = {} /\ total'[n] = 0
        /\ Columns' = Columns /\ Partials' = Partials
    BY <1>1, LaunchedColumns, SameOperands
  <2>2. SumFunctionOnSet(Partials, {}) = 0
    BY SumPick, FS_EmptySet
  <2>3. ASSUME NEW n \in Columns
        PROVE  total'[n] = SumFunctionOnSet(Partials', Ended(n)')
    BY <2>1, <2>2
  <2> QED BY <2>1, <2>3 DEF SumOfEnded
<1>2. CASE FusedRaise
  BY <1>2 DEF SumOfEnded, FusedRaise
<1>3. ASSUME NEW p \in adding, AddPartial(p)
      PROVE  SumOfEnded'
  <2>1. UNCHANGED operands /\ UNCHANGED stage
    BY <1>3 DEF AddPartial
  <2>2. /\ Partials' = Partials /\ Representable' = Representable /\ Columns' = Columns
    BY <2>1, SameOperands
  <2>3. /\ stage = "running" /\ SplitkAsserts(fused) /\ p[2] \in Parts(fused)
        /\ \A n \in Columns :
              \/ /\ p[2] \notin Ended(n) /\ Ended(n)' = Ended(n) \cup {p[2]}
                 /\ total'[n] = Half(total[n] + Half(Partial(p[2])))
              \/ /\ Ended(n)' = Ended(n)
                 /\ total'[n] = total[n]
    BY <1>3, AddStep
  <2>4. /\ IsFiniteSet(Parts(fused)) /\ \A z \in Parts(fused) : F[z] = Partial(z) /\ F[z] \in Int
    BY <2>3, ProductOfPartials
  <2>5. ASSUME Representable, NEW n \in Columns
        PROVE  total'[n] = SumFunctionOnSet(F, Ended(n)')
    <3> DEFINE E == Ended(n)
               z == p[2]
    <3>1. total[n] = SumFunctionOnSet(F, E)
      BY <2>3, <2>5 DEF SumOfEnded
    <3>2. CASE Ended(n)' = E /\ total'[n] = total[n]
      BY <3>1, <3>2
    <3>3. CASE /\ z \notin E /\ Ended(n)' = E \cup {z}
               /\ total'[n] = Half(total[n] + Half(Partial(z)))
      <4>1. E \subseteq Parts(fused) /\ z \in Parts(fused)
        BY <2>3, EndedFacts
      <4> HIDE DEF E, z, F
      <4>2. IsFiniteSet(E)
        BY <2>4, <4>1, FS_Subset
      <4>3. \A x \in E \cup {z} : F[x] \in Int
        BY <2>4, <4>1
      <4>4. SumFunctionOnSet(F, E \cup {z}) = SumFunctionOnSet(F, E) + F[z]
        BY <3>3, <4>2, <4>3, SumAdd
      <4>5. \A zs \in SUBSET Parts(fused) : Half(SumFunctionOnSet(F, zs)) = SumFunctionOnSet(F, zs)
        BY <2>5 DEF Representable, F
      <4>6. Half(SumFunctionOnSet(F, E \cup {z})) = SumFunctionOnSet(F, E \cup {z})
        <5>1. E \cup {z} \in SUBSET Parts(fused)
          BY <4>1
        <5> QED BY <4>5, <5>1
      <4>7. Half(F[z]) = F[z]
        <5>1. {z} \in SUBSET Parts(fused) /\ z \notin {} /\ IsFiniteSet({})
          BY <4>1, FS_EmptySet
        <5>2. SumFunctionOnSet(F, {} \cup {z}) = SumFunctionOnSet(F, {}) + F[z]
          <6>1. \A x \in {} \cup {z} : F[x] \in Int
            BY <4>3
          <6> QED BY <5>1, <6>1, SumAdd
        <5>3. {} \cup {z} = {z}
          OBVIOUS
        <5>4. SumFunctionOnSet(F, {}) = 0 /\ F[z] \in Int
          BY <4>3, SumPick, FS_EmptySet
        <5>5. SumFunctionOnSet(F, {z}) = F[z]
          BY <5>2, <5>3, <5>4
        <5> QED BY <4>5, <5>1, <5>5
      <4>8. Partial(z) = F[z]
        BY <2>4, <4>1
      <4>9. total'[n] = SumFunctionOnSet(F, E \cup {z})
        BY <3>1, <3>3, <4>4, <4>6, <4>7, <4>8
      <4> QED BY <3>3, <4>9
    <3> QED BY <2>3, <3>2, <3>3
  <2> HIDE DEF F
  <2>6. ASSUME Representable, NEW n \in Columns
        PROVE  total'[n] = SumFunctionOnSet(Partials', Ended(n)')
    BY <2>2, <2>5, <2>6 DEF F
  <2> QED BY <2>2, <2>6 DEF SumOfEnded
<1>4. CASE FusedReturn
  <2>1. UNCHANGED operands /\ total' = total /\ adding' = adding /\ stage = "running"
    BY <1>4 DEF FusedReturn
  <2>2. /\ Partials' = Partials /\ Representable' = Representable /\ Columns' = Columns
    BY <2>1, SameOperands
  <2>3. \A n \in Columns : Ended(n)' = Ended(n)
    BY <2>1 DEF Ended, operands
  <2> QED BY <2>1, <2>2, <2>3 DEF SumOfEnded
<1>5. CASE UNCHANGED fusedVars
  <2>1. UNCHANGED operands /\ total' = total /\ adding' = adding /\ stage' = stage
    BY <1>5 DEF fusedVars
  <2>2. /\ Partials' = Partials /\ Representable' = Representable /\ Columns' = Columns
    BY <2>1, SameOperands
  <2>3. \A n \in Columns : Ended(n)' = Ended(n)
    BY <2>1 DEF Ended, operands
  <2> QED BY <2>1, <2>2, <2>3 DEF SumOfEnded
<1> QED BY <1>1, <1>2, <1>3, <1>4, <1>5 DEF FusedNext

-----------------------------------------------------------------------------
(* The roundings.                                                          *)

LEMMA LargestFacts ==
  ASSUME FusedLaunched, SplitkAsserts(fused)
  PROVE  /\ \A z \in Parts(fused) : /\ Magnitudes[z] = Magnitude(Half(Partial(z)))
                                    /\ Magnitudes[z] \in Nat /\ Magnitudes[z] <= Largest
         /\ Largest = SumFunctionOnSet(Magnitudes, Parts(fused)) /\ Largest \in Nat
<1> DEFINE M == Magnitudes
<1>1. IsFiniteSet(Parts(fused)) /\ \A z \in Parts(fused) : Partial(z) \in Int
  BY ProductOfPartials
<1>2. DOMAIN M = Parts(fused) /\ \A z \in Parts(fused) : M[z] = Magnitude(Half(Partial(z)))
  BY DEF Magnitudes
<1>3. Largest = SumFunctionOnSet(M, DOMAIN M)
  BY DEF Largest, SumFunction
<1> HIDE DEF M
<1>4. \A z \in Parts(fused) : M[z] \in Nat
  BY <1>1, <1>2, HalfNear, MagnitudeFacts
<1>5. SumFunctionOnSet(M, Parts(fused)) \in Nat
  BY <1>1, <1>4, SumNat
<1>6. ASSUME NEW z \in Parts(fused) PROVE M[z] <= SumFunctionOnSet(M, Parts(fused))
  <2>1. z \in Parts(fused) /\ IsFiniteSet(Parts(fused) \ {z})
    BY <1>1, FS_Subset
  <2>2. SumFunctionOnSet(M, Parts(fused)) = M[z] + SumFunctionOnSet(M, Parts(fused) \ {z})
    <3>1. \A x \in Parts(fused) : M[x] \in Int
      BY <1>4
    <3> QED BY <1>1, <3>1, SumTakeOut
  <2>3. SumFunctionOnSet(M, Parts(fused) \ {z}) \in Nat
    <3>1. \A x \in Parts(fused) \ {z} : M[x] \in Nat
      BY <1>4
    <3> QED BY <2>1, <3>1, SumNat
  <2> QED BY <1>4, <2>2, <2>3
<1>7. Largest = SumFunctionOnSet(M, Parts(fused))
  BY <1>2, <1>3
<1> QED BY <1>2, <1>4, <1>5, <1>6, <1>7 DEF M

\* A number of at most twice the largest sum is rounded by at most half of Slack.
LEMMA RoundingSlack ==
  ASSUME NEW m \in Nat, Largest = m, InRange(2 * Largest),
         NEW x \in Int, Magnitude(x) <= 2 * m
  PROVE  Slack \in Nat /\ 2 * Magnitude(Half(x) - x) <= Slack
<1> DEFINE u == Ulp(2 * Largest)
<1>1. 2 * m \in Int /\ 2 * m \in Nat /\ Magnitude(2 * m) = 2 * m
  BY DEF Magnitude
<1>2. u \in UnitsAt(2 * Largest)
  <2>1. UnitsAt(2 * Largest) # {} /\ UnitsAt(2 * Largest) \subseteq Units
    BY DEF InRange, UnitsAt
  <2>2. u = Min(UnitsAt(2 * Largest))
    BY DEF Ulp
  <2>3. Min(UnitsAt(2 * Largest)) \in UnitsAt(2 * Largest)
    BY <2>1, LeastUnit
  <2> QED BY <2>2, <2>3
<1>3. u \in Units /\ 2 * m < u * Significand
  BY <1>1, <1>2 DEF UnitsAt
<1>4. u \in Nat \ {0} /\ Significand \in Nat
  BY <1>3, FusedAssumption
<1>5. Magnitude(x) < u * Significand
  <2>1. u * Significand \in Nat /\ Magnitude(x) \in Nat
    BY <1>4, MagnitudeFacts
  <2> HIDE DEF u
  <2> QED BY <1>3, <2>1
<1>6. Ulp(x) <= u /\ Ulp(x) \in Nat \ {0}
  BY <1>3, <1>5, UlpFacts
<1>7. Slack = IF u = 1 THEN 0 ELSE u
  BY DEF Slack
<1>8. Half(x) \in Int /\ 2 * Magnitude(Half(x) - x) <= Ulp(x) /\ (Ulp(x) = 1 => Half(x) = x)
  BY HalfNear
<1> HIDE DEF u
<1>9. Half(x) - x \in Int /\ Magnitude(Half(x) - x) \in Nat
  BY <1>8, MagnitudeFacts
<1>10. CASE u = 1
  <2>1. Half(x) = x
    BY <1>6, <1>8, <1>10
  <2>2. Magnitude(Half(x) - x) = 0
    BY <2>1 DEF Magnitude
  <2> QED BY <1>7, <1>10, <2>2
<1>11. CASE u # 1
  BY <1>4, <1>6, <1>7, <1>8, <1>9, <1>11
<1> QED BY <1>10, <1>11

\* With few enough parts their roundings cannot double the sum.
LEMMA SlackSmall ==
  ASSUME NEW m \in Nat, Largest = m,
         NEW k \in Nat, 2 * k <= Significand
  PROVE  Slack \in Nat /\ k * Slack <= 2 * m
<1> DEFINE u == Ulp(2 * Largest)
<1>1. 2 * m \in Int /\ Magnitude(2 * m) = 2 * m /\ Significand \in Nat
  BY FusedAssumption DEF Magnitude
<1>2. u \in Nat \ {0} /\ (u # 1 => u * Significand <= 2 * (2 * m))
  BY <1>1, UlpFacts
<1>3. Slack = IF u = 1 THEN 0 ELSE u
  BY DEF Slack
<1> HIDE DEF u
<1>4. CASE u = 1
  BY <1>3, <1>4
<1>5. CASE u # 1
  <2>1. u * (2 * k) <= u * Significand
    BY <1>1, <1>2
  <2>2. u * (2 * k) = 2 * (k * u) /\ k * u \in Nat /\ u * Significand \in Nat
    BY <1>1, <1>2
  <2>3. 2 * (k * u) <= 2 * (2 * m)
    BY <1>2, <1>5, <2>1, <2>2
  <2>4. k * u <= 2 * m
    BY <2>2, <2>3
  <2> QED BY <1>2, <1>3, <1>5, <2>4
<1> QED BY <1>4, <1>5

LEMMA EndedSize ==
  ASSUME FusedLaunched, SplitkAsserts(fused), NEW E, E \subseteq Parts(fused)
  PROVE  IsFiniteSet(E) /\ Cardinality(E) \in 0 .. fused.SK
<1>1. fused.SK \in Nat \ {0} /\ 0 \in Int /\ fused.SK - 1 \in Int
  BY FusedSizes
<1>2. IsFiniteSet(0 .. fused.SK - 1) /\ Cardinality(0 .. fused.SK - 1) = fused.SK
  <2>1. /\ IsFiniteSet(0 .. fused.SK - 1)
        /\ Cardinality(0 .. fused.SK - 1)
             = IF 0 > fused.SK - 1 THEN 0 ELSE (fused.SK - 1) - 0 + 1
    BY <1>1, FS_Interval
  <2> QED BY <1>1, <2>1
<1>3. IsFiniteSet(E) /\ Cardinality(E) <= Cardinality(0 .. fused.SK - 1)
  BY <1>2, FS_Subset DEF Parts
<1>4. Cardinality(E) \in Nat
  BY <1>3, FS_CardinalityType
<1> QED BY <1>1, <1>2, <1>3, <1>4

\* One add: with c the parts that have ended, s their sum, a the sum of their
\* magnitudes, t the column, p the partial, h its rounding, y the rounded sum.
LEMMA NearStep ==
  ASSUME NEW c \in Nat, NEW d \in Nat, NEW e \in Nat, e = c * d,
         NEW s \in Int, NEW a \in Nat, NEW t \in Int, NEW p \in Int, NEW h \in Int, NEW y \in Int,
         Magnitude(t - s) <= e, 2 * Magnitude(t) <= 2 * a + e,
         2 * Magnitude(h - p) <= d, 2 * Magnitude(y - (t + h)) <= d
  PROVE  /\ Magnitude(y - (s + p)) <= (c + 1) * d
         /\ 2 * Magnitude(y) <= 2 * (a + Magnitude(h)) + (c + 1) * d
<1>1. (c + 1) * d = e + d
  OBVIOUS
<1>2. Magnitude(y - (s + p)) <= e + d
  BY DEF Magnitude
<1>3. 2 * Magnitude(y) <= 2 * (a + Magnitude(h)) + (e + d)
  BY DEF Magnitude
<1> QED BY <1>1, <1>2, <1>3

\* NearEnded of one column.
Near(E, t) ==
  /\ t \in Int
  /\ Magnitude(t - SumFunctionOnSet(Partials, E)) <= Cardinality(E) * Slack
  /\ 2 * Magnitude(t) <= 2 * SumFunctionOnSet(Magnitudes, E) + Cardinality(E) * Slack

LEMMA NearAdd ==
  ASSUME FusedLaunched, SplitkAsserts(fused), InRange(2 * Largest), 2 * fused.SK <= Significand,
         NEW E, E \subseteq Parts(fused), NEW z \in Parts(fused), z \notin E,
         NEW t, Near(E, t)
  PROVE  Near(E \cup {z}, Half(t + Half(Partial(z))))
<1> DEFINE m == Largest
           p == Partial(z)
           h == Half(p)
           y == Half(t + h)
           c == Cardinality(E)
           s == SumFunctionOnSet(Partials, E)
           a == SumFunctionOnSet(Magnitudes, E)
<1>1. /\ IsFiniteSet(E) /\ c \in Nat /\ c + 1 \in Nat /\ c + 1 <= fused.SK
      /\ Cardinality(E \cup {z}) = c + 1 /\ fused.SK \in Nat
  <2>1. IsFiniteSet(E) /\ c \in Nat
    BY EndedSize
  <2>2. Cardinality(E \cup {z}) = c + 1
    BY <2>1, FS_AddElement
  <2>3. E \cup {z} \subseteq Parts(fused)
    OBVIOUS
  <2>4. Cardinality(E \cup {z}) \in 0 .. fused.SK
    BY <2>3, EndedSize
  <2> QED BY <2>1, <2>2, <2>4, FusedSizes
<1>2. /\ \A x \in Parts(fused) : Partials[x] \in Int /\ Magnitudes[x] \in Nat
      /\ Partials[z] = p /\ p \in Int /\ Magnitudes[z] = Magnitude(h) /\ Magnitude(h) <= m
      /\ m \in Nat /\ m = SumFunctionOnSet(Magnitudes, Parts(fused)) /\ IsFiniteSet(Parts(fused))
  BY ProductOfPartials, LargestFacts
<1>3. SumFunctionOnSet(Partials, E \cup {z}) = s + p /\ s \in Int
  <2>1. \A x \in E \cup {z} : Partials[x] \in Int
    BY <1>2
  <2>2. SumFunctionOnSet(Partials, E \cup {z}) = s + Partials[z]
    BY <1>1, <2>1, SumAdd
  <2>3. \A x \in E : Partials[x] \in Int
    BY <1>2
  <2>4. s \in Int
    BY <1>1, <2>3, SumType
  <2> QED BY <1>2, <2>2, <2>4
<1>4. /\ SumFunctionOnSet(Magnitudes, E \cup {z}) = a + Magnitude(h)
      /\ a \in Nat /\ a + Magnitude(h) <= m
  <2>1. \A x \in E \cup {z} : Magnitudes[x] \in Nat /\ Magnitudes[x] \in Int
    BY <1>2
  <2>2. SumFunctionOnSet(Magnitudes, E \cup {z}) = a + Magnitudes[z]
    BY <1>1, <2>1, SumAdd
  <2>3. \A x \in E : Magnitudes[x] \in Nat
    BY <1>2
  <2>4. a \in Nat
    BY <1>1, <2>3, SumNat
  <2>5. E \cup {z} \subseteq Parts(fused)
    OBVIOUS
  <2>6. SumFunctionOnSet(Magnitudes, E \cup {z}) <= SumFunctionOnSet(Magnitudes, Parts(fused))
    <3>1. \A x \in Parts(fused) : Magnitudes[x] \in Nat
      BY <1>2
    <3> QED BY <1>2, <2>5, <3>1, SumPart
  <2> QED BY <1>2, <2>2, <2>4, <2>6
<1>5. Slack \in Nat /\ c * Slack <= 2 * m
  <2>1. 2 * c <= Significand
    BY <1>1, FusedAssumption
  <2> QED BY <1>1, <1>2, <2>1, SlackSmall
<1>6. Magnitude(p) <= 2 * m /\ h \in Int /\ Magnitude(h) \in Nat /\ Magnitude(p) \in Nat
  <2>1. h \in Int /\ Magnitude(p) <= 2 * Magnitude(h)
    BY <1>2, HalfNear
  <2>2. Magnitude(p) \in Nat /\ Magnitude(h) \in Nat
    BY <1>2, <2>1, MagnitudeFacts
  <2> HIDE DEF h, p, m
  <2> QED BY <1>2, <2>1, <2>2
<1>7. 2 * Magnitude(h - p) <= Slack
  BY <1>2, <1>6, RoundingSlack
<1>8. t \in Int /\ Magnitude(t - s) <= c * Slack /\ 2 * Magnitude(t) <= 2 * a + c * Slack
  BY DEF Near
<1> DEFINE d == Slack
           e == c * d
<1>9. e \in Nat
  BY <1>1, <1>5
<1>10. t + h \in Int /\ Magnitude(t + h) <= 2 * m
  <2> HIDE DEF m, h, a, e
  <2>1. e <= 2 * m /\ 2 * Magnitude(t) <= 2 * a + e
    BY <1>5, <1>8 DEF e
  <2>2. Magnitude(t + h) <= Magnitude(t) + Magnitude(h)
    BY <1>6, <1>8 DEF Magnitude
  <2>3. Magnitude(t) \in Nat /\ Magnitude(t + h) \in Nat
    BY <1>6, <1>8, MagnitudeFacts
  <2>4. 2 * Magnitude(t + h) <= 2 * (a + Magnitude(h)) + e
    BY <1>4, <1>6, <1>9, <2>1, <2>2, <2>3
  <2> QED BY <1>2, <1>4, <1>6, <1>8, <1>9, <2>1, <2>3, <2>4
<1>11. y \in Int /\ 2 * Magnitude(y - (t + h)) <= Slack
  BY <1>2, <1>10, RoundingSlack, HalfNear
<1>12. /\ Magnitude(y - (s + p)) <= (c + 1) * d
       /\ 2 * Magnitude(y) <= 2 * (a + Magnitude(h)) + (c + 1) * d
  <2>1. d \in Nat /\ e = c * d /\ 2 * Magnitude(h - p) <= d /\ 2 * Magnitude(y - (t + h)) <= d
        /\ Magnitude(t - s) <= e /\ 2 * Magnitude(t) <= 2 * a + e
    BY <1>5, <1>7, <1>8, <1>11
  <2> HIDE DEF c, d, e, s, a, p, h, y
  <2> QED BY <1>1, <1>2, <1>3, <1>4, <1>6, <1>8, <1>9, <1>11, <2>1, NearStep
<1> HIDE DEF c, s, a, p, h, y
<1> QED BY <1>1, <1>3, <1>4, <1>11, <1>12 DEF Near, y, h, p

LEMMA NearEndedStep ==
  ASSUME FusedLaunched, NearEnded, [FusedNext]_fusedVars
  PROVE  NearEnded'
<1> DEFINE Few == InRange(2 * Largest) /\ 2 * fused.SK <= Significand
           M == Magnitudes
           F == Partials
<1>0. NearEnded <=> (stage \in {"running", "returned"} /\ Few
                       => \A n \in Columns : Near(Ended(n), total[n]))
  BY DEF NearEnded, Near
<1>1. ASSUME UNCHANGED operands
      PROVE  NearEnded' <=> (stage' \in {"running", "returned"} /\ Few
                               => \A n \in Columns : Near(Ended(n)', total'[n]))
  <2>1. /\ Partials' = Partials /\ Magnitudes' = Magnitudes /\ Columns' = Columns
        /\ Slack' = Slack /\ InRange(2 * Largest)' = InRange(2 * Largest) /\ fused' = fused
    BY <1>1, SameOperands DEF operands
  <2> QED BY <2>1 DEF NearEnded, Near
<1> HIDE DEF Few
<1>2. CASE FusedLaunch
  <2>1. /\ SplitkAsserts(fused) /\ UNCHANGED operands
        /\ \A n \in Columns : Ended(n)' = {} /\ total'[n] = 0
    BY <1>2, LaunchedColumns
  <2>2. Near({}, 0)
    <3>1. SumFunctionOnSet(F, {}) = 0 /\ SumFunctionOnSet(M, {}) = 0 /\ Cardinality({}) = 0
      BY SumPick, FS_EmptySet
    <3>2. Slack \in Nat
      <4>1. Largest \in Nat
        BY <2>1, LargestFacts
      <4>2. 2 * Largest \in Int
        BY <4>1
      <4> QED BY <4>2, UlpFacts DEF Slack
    <3>3. Magnitude(0) = 0
      BY DEF Magnitude
    <3> QED BY <3>1, <3>2, <3>3 DEF Near
  <2>3. ASSUME NEW n \in Columns PROVE Near(Ended(n)', total'[n])
    BY <2>1, <2>2
  <2> QED BY <1>1, <2>1, <2>3
<1>3. CASE FusedRaise
  BY <1>3 DEF NearEnded, FusedRaise
<1>4. ASSUME NEW p \in adding, AddPartial(p)
      PROVE  NearEnded'
  <2>1. UNCHANGED operands
    BY <1>4 DEF AddPartial
  <2>2. /\ stage = "running" /\ SplitkAsserts(fused) /\ p[2] \in Parts(fused)
        /\ \A n \in Columns :
              \/ /\ p[2] \notin Ended(n) /\ Ended(n)' = Ended(n) \cup {p[2]}
                 /\ total'[n] = Half(total[n] + Half(Partial(p[2])))
              \/ /\ Ended(n)' = Ended(n)
                 /\ total'[n] = total[n]
    BY <1>4, AddStep
  <2>3. ASSUME Few, NEW n \in Columns
        PROVE  Near(Ended(n)', total'[n])
    <3>1. Near(Ended(n), total[n])
      BY <1>0, <2>2, <2>3
    <3>2. Ended(n) \subseteq Parts(fused)
      BY EndedFacts
    <3>3. CASE /\ p[2] \notin Ended(n) /\ Ended(n)' = Ended(n) \cup {p[2]}
               /\ total'[n] = Half(total[n] + Half(Partial(p[2])))
      <4>1. Near(Ended(n) \cup {p[2]}, Half(total[n] + Half(Partial(p[2]))))
        BY <2>2, <2>3, <3>1, <3>2, <3>3, NearAdd DEF Few
      <4> QED BY <3>3, <4>1
    <3>4. CASE Ended(n)' = Ended(n) /\ total'[n] = total[n]
      BY <3>1, <3>4
    <3> QED BY <2>2, <3>3, <3>4
  <2> QED BY <1>1, <2>1, <2>3
<1>5. CASE FusedReturn \/ UNCHANGED fusedVars
  <2>1. /\ UNCHANGED operands /\ total' = total /\ adding' = adding
        /\ stage' \in {"running", "returned"} => stage \in {"running", "returned"}
    BY <1>5 DEF FusedReturn, fusedVars
  <2>2. \A n \in Columns : Ended(n)' = Ended(n)
    BY <2>1 DEF Ended, operands
  <2> QED BY <1>0, <1>1, <2>1, <2>2
<1> QED BY <1>2, <1>3, <1>4, <1>5 DEF FusedNext

\* The fused kernel: the launch, and what a column holds and how near it is to the
\* sum of the parts that have ended, in whichever order the programs add.
THEOREM FusedInvariant == FusedSpec => []FusedInv
<1>1. FusedInit => FusedInv
  BY DEF FusedInit, FusedInv, FusedLaunched, SumOfEnded, NearEnded
<1>2. FusedInv /\ [FusedNext]_fusedVars => FusedInv'
  BY FusedLaunchedStep, SumOfEndedStep, NearEndedStep DEF FusedInv
<1> QED BY <1>1, <1>2, PTL DEF FusedSpec

LEMMA AllEnded ==
  ASSUME FusedInv, stage = "returned", NEW n \in Columns
  PROVE  Ended(n) = Parts(fused) /\ SplitkAsserts(fused) /\ FusedLaunched
BY DEF FusedInv, FusedLaunched, Ended

\* When every sum that can come up is an fp16 number the result is the product.
THEOREM FusedExactHolds == FusedSpec => []FusedExact
<1>1. FusedInv => FusedExact
  <2> SUFFICES ASSUME FusedInv, stage = "returned", Representable, NEW n \in Columns
               PROVE  total[n] = Product
    BY DEF FusedExact
  <2>1. Ended(n) = Parts(fused) /\ SplitkAsserts(fused) /\ FusedLaunched
    BY AllEnded
  <2>2. total[n] = SumFunctionOnSet(Partials, Ended(n))
    BY DEF FusedInv, SumOfEnded
  <2> QED BY <2>1, <2>2, ProductOfPartials
<1> QED BY <1>1, FusedInvariant, PTL

\* In any case it is as near as one unit of the largest sum for each part.
THEOREM FusedNearHolds == FusedSpec => []FusedNear
<1>1. FusedInv => FusedNear
  <2> SUFFICES ASSUME FusedInv, stage = "returned", InRange(2 * Largest),
                      2 * fused.SK <= Significand, NEW n \in Columns
               PROVE  Magnitude(total[n] - Product) <= fused.SK * Ulp(2 * Largest)
    BY DEF FusedNear
  <2> DEFINE u == Ulp(2 * Largest)
  <2>1. Ended(n) = Parts(fused) /\ SplitkAsserts(fused) /\ FusedLaunched
    BY AllEnded
  <2>2. /\ total[n] \in Int
        /\ Magnitude(total[n] - SumFunctionOnSet(Partials, Ended(n))) <= Cardinality(Ended(n)) * Slack
    BY DEF FusedInv, NearEnded
  <2>3. Magnitude(total[n] - Product) <= Cardinality(Parts(fused)) * Slack /\ Product \in Int
    <3>1. /\ IsFiniteSet(Parts(fused)) /\ \A z \in Parts(fused) : Partials[z] \in Int
          /\ Product = SumFunctionOnSet(Partials, Parts(fused))
      BY <2>1, ProductOfPartials
    <3>2. SumFunctionOnSet(Partials, Parts(fused)) \in Int
      BY <3>1, SumType
    <3> DEFINE E == Ended(n)
    <3>3. Magnitude(total[n] - SumFunctionOnSet(Partials, E)) <= Cardinality(E) * Slack
          /\ E = Parts(fused)
      BY <2>1, <2>2
    <3> HIDE DEF E
    <3> QED BY <3>1, <3>2, <3>3
  <2>4. Cardinality(Parts(fused)) \in 0 .. fused.SK /\ fused.SK \in Nat
    BY <2>1, EndedSize, FusedSizes
  <2>5. u \in Nat \ {0}
    <3>1. Largest \in Nat
      BY <2>1, LargestFacts
    <3>2. 2 * Largest \in Int
      BY <3>1
    <3> QED BY <3>2, UlpFacts
  <2>6. Slack \in Nat /\ Slack <= u
    BY <2>5 DEF Slack
  <2> DEFINE c == Cardinality(Parts(fused))
             k == fused.SK
             d == Slack
             x == Magnitude(total[n] - Product)
  <2>7. x \in Nat
    <3>1. total[n] - Product \in Int
      BY <2>2, <2>3
    <3> QED BY <3>1, MagnitudeFacts
  <2>8. c \in Nat /\ k \in Nat /\ d \in Nat /\ u \in Nat /\ c <= k /\ d <= u /\ x <= c * d
    BY <2>3, <2>4, <2>5, <2>6
  <2> HIDE DEF c, k, d, x, u
  <2>9. c * d <= k * u
    <3>1. c * d <= k * d
      BY <2>8
    <3>2. k * d <= k * u
      BY <2>8
    <3>3. c * d \in Nat /\ k * d \in Nat /\ k * u \in Nat
      BY <2>8
    <3> QED BY <3>1, <3>2, <3>3
  <2>10. c * d \in Nat /\ k * u \in Nat
    BY <2>8
  <2>11. x <= k * u
    BY <2>7, <2>8, <2>9, <2>10
  <2> QED BY <2>11 DEF x, k, u
<1> QED BY <1>1, FusedInvariant, PTL
=============================================================================

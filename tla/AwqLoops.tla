------------------------------ MODULE AwqLoops ------------------------------
(***************************************************************************)
(* The K loops of the AWQ kernels of patches/awq_triton.py.                *)
(*                                                                         *)
(* A launch is a record: the kernel, the sizes M, N, K and the group size  *)
(* G of the quantisation, the tile BM x BN x BK and the number SK of parts *)
(* that K is split in.  Part z of the grid goes round its loop Trips(l)    *)
(* times; on trip i it loads the BK rows of the weights from FirstK on,    *)
(* and one single row of the scales and zeros for all of them.  Row k of   *)
(* the weights was quantised with row k \div G of the scales, so a loop is *)
(* right when each k is loaded once, together with that row.               *)
(***************************************************************************)
EXTENDS Integers, FiniteSets

CONSTANT SupportedGroups   \* AWQ_TRITON_SUPPORTED_GROUP_SIZES

\* A row of the scales may serve a block of BK rows when the block lies in one
\* group; with one group for all of K (G = K) every block does.
BlocksInGroup(l) == l.G % l.BK = 0 \/ l.G = l.K

\* triton.cdiv
Cdiv(a, b) == (a + b - 1) \div b

Parts(l) == 0 .. l.SK - 1

-----------------------------------------------------------------------------
\* awq_gemm_kernel takes every SK-th block of K, beginning with block z;
\* awq_gemv_kernel is the same loop with SK = 1.
StridedTrips(l) == Cdiv(l.K, l.BK * l.SK)
StridedFirst(l, z) == z * l.BK
StridedStep(l) == l.BK * l.SK

\* Mutant of StridedRow: the blocks of the other parts are not counted.
StridedRowUnsplit(l, z, i) == (l.BK * i + z * l.BK) \div l.G

StridedRow(l, z, i) == (l.BK * l.SK * i + z * l.BK) \div l.G

\* awq_gemv_splitk_kernel takes the z-th of SK slices, and masks nothing.
SliceWidth(l) == l.K \div l.SK
SlicedTrips(l) == Cdiv(SliceWidth(l), l.BK)
SlicedFirst(l, z) == z * SliceWidth(l)
SlicedStep(l) == l.BK
SlicedRow(l, z, i) == (SlicedFirst(l, z) + i * l.BK) \div l.G

Sliced(l) == l.kernel = "splitk"
Trips(l) == IF Sliced(l) THEN SlicedTrips(l) ELSE StridedTrips(l)
FirstK(l, z) == IF Sliced(l) THEN SlicedFirst(l, z) ELSE StridedFirst(l, z)
StepK(l) == IF Sliced(l) THEN SlicedStep(l) ELSE StridedStep(l)
ScaleRow(l, z, i) == IF Sliced(l) THEN SlicedRow(l, z, i) ELSE StridedRow(l, z, i)

\* The rows of the weights that are loaded when offsets_k begins at first.
Loaded(l, first) ==
  {k \in first .. first + l.BK - 1 : Sliced(l) \/ k < l.K}

-----------------------------------------------------------------------------
\* The asserts of the wrappers that choose between returning and raising; the
\* shapes of the tensors agree with M, N, K and G by construction of a call.

SplitkAsserts(l) ==
  /\ l.G % l.BK = 0
  /\ l.K % l.SK = 0
  /\ (l.K \div l.SK) % l.BK = 0

GemvAsserts(l) == l.G % l.BK = 0

GemmAsserts(l) ==
  /\ l.SK \in {1, 2, 4, 8, 16, 32}
  /\ l.G <= l.K
  /\ l.G \in SupportedGroups \/ l.G = l.K

-----------------------------------------------------------------------------
\* Where the parts and trips of a launch begin.
Begins(l) == {<<z, i>> : z \in Parts(l), i \in 0 .. Trips(l) - 1}
BlockOf(l, b) == Loaded(l, FirstK(l, b[1]) + b[2] * StepK(l))

\* The rows that a launch loads, each with the part and the trip that load it.
Loads(l) == UNION {BlockOf(l, b) \X {b} : b \in Begins(l)}

\* What a launch has to do with K: each row of the weights is in one block, and
\* that block is scaled with the row's own group; there are K loads in all, so
\* that no row is in two blocks.
OnceInOwnGroup(l) ==
  /\ UNION {BlockOf(l, b) : b \in Begins(l)} = 0 .. l.K - 1
  /\ \A b \in Begins(l) : \A k \in BlockOf(l, b) : ScaleRow(l, b[1], b[2]) = k \div l.G
  /\ Cardinality(Loads(l)) = l.K
=============================================================================

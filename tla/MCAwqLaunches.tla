--------------------------- MODULE MCAwqLaunches ---------------------------
(* Small instances for TLC of the kernels of patches/awq_triton.py: in a   *)
(* behaviour one launch of one of them runs.                               *)
EXTENDS AwqKernels, AwqDequantize, FusedSplitK

CONSTANTS MaxPrograms, MaxTrips   \* bounds on the grid and on the loop

VARIABLE kind   \* which kernel: "product", "dequantize" or "fused"

-----------------------------------------------------------------------------
(* The product kernels.                                                    *)

\* Sizes with whole and with masked tiles, whole and cut-off blocks of K, one
\* group and several, and every split.
Sizes ==
  [kernel : Kernels, M : {1, 2, 3}, N : {1, 2, 3}, K : {4, 5, 6, 8}, G : {2, 4, 5, 6, 8},
   BM : {1, 2}, BN : {1, 2}, BK : {1, 2, 4}, SK : {1, 2, 4}]

\* What the wrappers are called with: whole groups; one row and one part where
\* the kernel has no other.
SmallLaunches ==
  {l \in Sizes :
     /\ l.K % l.G = 0
     /\ l.kernel # "gemm" => l.M = 1 /\ l.BM = 1
     /\ l.kernel = "gemv" => l.SK = 1
     /\ Cdiv(l.M, l.BM) * Cdiv(l.N, l.BN) * l.SK <= MaxPrograms
     /\ Trips(l) <= MaxTrips}

-----------------------------------------------------------------------------
(* The dequantize kernel.                                                  *)

\* Tiles of 2 rows for the code's 32, groups of 2 and 4 for its 32, 64 and 128
\* (all of them whole tiles), and one group for all rows, cut into tiles
\* anyhow; groups of 3 are refused.
SmallTiles ==
  {l \in [K : 1 .. 6, X : {1, 2, 3}, G : 1 .. 6, TX : {1, 2}, TY : {2}] : l.K % l.G = 0}

\* Tables in which neighbours differ in every direction.
SmallNibbles ==
  {[k \in 0 .. rows - 1 |-> [n \in 0 .. 8 * words - 1 |-> (a * k + 5 * n + b) % 16]] :
     rows \in 1 .. 6, words \in {1, 2, 3}, a \in {3}, b \in {0, 9}}

-----------------------------------------------------------------------------
(* The fused kernel.                                                       *)

\* Whole and cut-off tiles, one block a slice and two, groups of one block and
\* of several, and launches that the asserts refuse.
SmallFused ==
  {l \in [kernel : {"splitk"}, N : {1, 3}, K : {4, 6}, G : {2, 3, 4, 6},
          BN : {2}, BK : {1, 2}, SK : {1, 2, 3}] : l.K % l.G = 0}

\* Rows that add up to more than the significand, and that cancel.
SmallWeights ==
  {[k \in 0 .. n - 1 |-> (k + a) * (IF k % 2 = 0 THEN 1 ELSE b)] :
     n \in {4, 6}, a \in {0, 1, 5}, b \in {1, -1}}

SmallScales == UNION {[0 .. g - 1 -> {1, 3}] : g \in {1, 2, 3}}

-----------------------------------------------------------------------------
(* One of them.                                                            *)

allVars == <<kind, vars, deqVars, fusedVars>>

None == <<>>

\* The kernels that do not run stay as they began.
ProductIdle == launch = (CHOOSE l \in Launches : TRUE) /\ Entered

DequantizeIdle ==
  matrix = None /\ weights = None /\ zeros = None /\ step = "idle" /\ tiles = {} /\ dequantized = None

FusedIdle ==
  fused = None /\ weight = None /\ scale = None /\ stage = "idle" /\ adding = {} /\ total = None

KindInit ==
  \/ kind = "product" /\ Init /\ DequantizeIdle /\ FusedIdle
  \/ kind = "dequantize" /\ DeqInit /\ ProductIdle /\ FusedIdle
  \/ kind = "fused" /\ FusedInit /\ ProductIdle /\ DequantizeIdle

KindNext ==
  \/ kind = "product" /\ Next /\ UNCHANGED <<kind, deqVars, fusedVars>>
  \/ kind = "dequantize" /\ DeqNext /\ UNCHANGED <<kind, vars, fusedVars>>
  \/ kind = "fused" /\ FusedNext /\ UNCHANGED <<kind, vars, deqVars>>

KindSpec == KindInit /\ [][KindNext]_allVars
=============================================================================

---------------------------- MODULE AwqDispatch ----------------------------
(***************************************************************************)
(* awq_gemm_triton of patches/awq_triton.py: which kernel, tile and split  *)
(* a call gets, by the number of rows M and by tables tuned for the (N, K) *)
(* shapes of one model, and the asserts that stand between that choice and *)
(* the launch.  num_warps and num_stages do not touch what is computed and *)
(* are left out.                                                           *)
(***************************************************************************)
EXTENDS AwqLoops, SweepGrid

CONSTANTS
  RowCounts,   \* values of M
  Shapes,      \* pairs <<N, K>>
  Groups       \* group sizes; 0 stands for one group for all of K

ASSUME AwqDispatchAssumption ==
  /\ RowCounts \subseteq Nat \ {0}
  /\ Shapes \subseteq (Nat \ {0}) \X (Nat \ {0})
  /\ Groups \subseteq Nat
  /\ SupportedGroups = {32, 64, 128}   \* and -1, one group: 0 of Groups

VARIABLES
  call,        \* the arguments: M, N, K and the group size G
  plan,        \* the launch that was chosen, or NoPlan
  pc           \* "entered", "chosen", "launched" or "raised"

vars == <<call, plan, pc>>

NoPlan == [kernel |-> "none"]

\* Calls with whole groups: what the loader of a quantised model lets through.
Calls ==
  {c \in {[M |-> m, N |-> s[1], K |-> s[2], G |-> IF g = 0 THEN s[2] ELSE g] :
            m \in RowCounts, s \in Shapes, g \in Groups} : c.K % c.G = 0}

Launch(kernel, bm, bn, bk, sk) ==
  [kernel |-> kernel, M |-> call.M, N |-> call.N, K |-> call.K, G |-> call.G,
   BM |-> bm, BN |-> bn, BK |-> bk, SK |-> sk]

Shape == <<call.N, call.K>>

\* The entries of a table for the shape of the call; dict.get.
Entries(table) == {e \in table : e[1] = Shape}
Get(table, default) ==
  IF Entries(table) # {} THEN (CHOOSE e \in Entries(table) : TRUE)[2] ELSE default

-----------------------------------------------------------------------------
(* The tables, as sets of entries.                                         *)

\* (N, K) -> block_n, block_k, split of the K-split GEMV.
SplitkTable ==
  { <<<<18432, 2560>>, <<128, 32, 4>>>>,
    <<<<12288, 2560>>, <<128, 32, 4>>>>,
    <<<<10240, 2560>>, <<128, 32, 4>>>>,
    <<<<2560, 9216>>, <<128, 64, 16>>>> }

\* (N, K) -> block_n, block_k of the plain GEMV.
GemvTable ==
  { <<<<9216, 2560>>, <<128, 128>>>>,
    <<<<8192, 2560>>, <<128, 64>>>>,
    <<<<4096, 2560>>, <<128, 128>>>>,
    <<<<2560, 9216>>, <<16, 128>>>>,
    <<<<2560, 4096>>, <<16, 128>>>>,
    <<<<1024, 2560>>, <<16, 128>>>> }

GemvUnseen == IF call.N >= 4096 THEN <<128, 64>> ELSE <<32, 128>>

\* (N, K), band -> block_size_k and split of the GEMM for M <= 32; the band is
\* the block_size_m it was tested with, and block_size_n is always 128.
BandTable ==
  { <<<<18432, 2560>>, 8, 32, 1>>, <<<<18432, 2560>>, 16, 64, 1>>, <<<<18432, 2560>>, 32, 64, 1>>,
    <<<<12288, 2560>>, 8, 32, 1>>, <<<<12288, 2560>>, 16, 32, 1>>, <<<<12288, 2560>>, 32, 32, 1>>,
    <<<<10240, 2560>>, 8, 32, 1>>, <<<<10240, 2560>>, 16, 32, 4>>, <<<<10240, 2560>>, 32, 32, 1>>,
    <<<<2560, 9216>>, 8, 32, 4>>, <<<<2560, 9216>>, 16, 32, 8>>, <<<<2560, 9216>>, 32, 32, 8>>,
    <<<<2560, 4096>>, 8, 32, 4>>, <<<<2560, 4096>>, 16, 32, 4>>, <<<<2560, 4096>>, 32, 32, 8>> }

\* Mutant: the split of two shapes halved, which the sweep did not try.
LargeTableHalved ==
  { <<<<18432, 2560>>, 1>>, <<<<12288, 2560>>, 2>>, <<<<10240, 2560>>, 2>>,
    <<<<2560, 9216>>, 8>>, <<<<2560, 4096>>, 8>> }

\* (N, K) -> split of the GEMM for M > 32.
LargeTable ==
  { <<<<18432, 2560>>, 1>>, <<<<12288, 2560>>, 4>>, <<<<10240, 2560>>, 4>>,
    <<<<2560, 9216>>, 8>>, <<<<2560, 4096>>, 8>> }

-----------------------------------------------------------------------------
(* The choice.                                                             *)

\* Mutant: no test of the slices.
GateWithoutSlices == call.K % 16 = 0 /\ call.G % 32 = 0

Gate ==
  /\ call.K % 16 = 0
  /\ (call.K \div 16) % 32 = 0
  /\ call.G % 32 = 0

ChooseSplitK ==
  /\ pc = "entered" /\ call.M = 1
  /\ Gate
  /\ LET t == Get(SplitkTable, <<64, 32, 16>>) IN
     plan' = Launch("splitk", 1, t[1], t[2], t[3])
  /\ pc' = "chosen"
  /\ UNCHANGED call

ChooseGemv ==
  /\ pc = "entered" /\ call.M = 1
  /\ ~ Gate
  /\ LET t == Get(GemvTable, GemvUnseen) IN
     plan' = Launch("gemv", 1, t[1], t[2], 1)
  /\ pc' = "chosen"
  /\ UNCHANGED call

\* Mutant: the largest band at or below M.
BandBelow(entries) ==
  LET le == {e \in entries : e[2] <= call.M} IN
  IF le # {} THEN CHOOSE e \in le : \A f \in le : f[2] <= e[2]
  ELSE CHOOSE e \in entries : \A f \in entries : e[2] <= f[2]

\* The entry of the smallest band at or above M, else of the largest.
Band(entries) ==
  LET ge == {e \in entries : e[2] >= call.M} IN
  IF ge # {} THEN CHOOSE e \in ge : \A f \in ge : e[2] <= f[2]
  ELSE CHOOSE e \in entries : \A f \in entries : f[2] <= e[2]

Tuned == Entries(BandTable) # {}

ChooseBand ==
  /\ pc = "entered" /\ call.M \in 2 .. 32
  /\ Tuned
  /\ LET e == Band(Entries(BandTable)) IN
     plan' = Launch("gemm", e[2], 128, e[3], e[4])
  /\ pc' = "chosen"
  /\ UNCHANGED call

ChooseUnseen ==
  /\ pc = "entered" /\ call.M \in 2 .. 32
  /\ ~ Tuned
  /\ plan' = Launch("gemm", 16, 128, 64, IF call.K <= 4096 THEN 1 ELSE 8)
  /\ pc' = "chosen"
  /\ UNCHANGED call

\* Mutant: a deeper tile for the large batches, as a sweep at one group size
\* would not mind.
ChooseLargeDeep ==
  /\ pc = "entered" /\ call.M > 32
  /\ plan' = Launch("gemm", 64, 128, 256, Get(LargeTable, 8))
  /\ pc' = "chosen"
  /\ UNCHANGED call

ChooseLarge ==
  /\ pc = "entered" /\ call.M > 32
  /\ plan' = Launch("gemm", 64, 128, 32, Get(LargeTable, 8))
  /\ pc' = "chosen"
  /\ UNCHANGED call

Asserts ==
  \/ plan.kernel = "splitk" /\ SplitkAsserts(plan)
  \/ plan.kernel = "gemv" /\ GemvAsserts(plan)
  \/ plan.kernel = "gemm" /\ GemmAsserts(plan)

LaunchKernel ==
  /\ pc = "chosen"
  /\ Asserts
  /\ pc' = "launched"
  /\ UNCHANGED <<call, plan>>

Raise ==
  /\ pc = "chosen"
  /\ ~ Asserts
  /\ pc' = "raised"
  /\ UNCHANGED <<call, plan>>

Init ==
  /\ call \in Calls
  /\ plan = NoPlan
  /\ pc = "entered"

Next ==
  \/ ChooseSplitK
  \/ ChooseGemv
  \/ ChooseBand
  \/ ChooseUnseen
  \/ ChooseLarge
  \/ LaunchKernel
  \/ Raise

Spec == Init /\ [][Next]_vars

-----------------------------------------------------------------------------
(* Properties.                                                             *)

\* Groups of 128 rows, as the deployed model has, or one group for all of K.
Deployed == call.G \in {128, call.K}

\* A call with a group size of AWQ_TRITON_SUPPORTED_GROUP_SIZES, or one group, is
\* refused by the wrapper that was chosen for it in one case only: it has a single
\* row, and the block of its table or fallback is deeper than its groups, or does
\* not divide the K of its one group.  Calls of the deployed model, where K is a
\* multiple of 128, are never refused.
RefusedOnlyTooDeep ==
  pc = "raised" /\ call.G \in SupportedGroups \cup {call.K} =>
    /\ call.M = 1
    /\ call.G < plan.BK \/ (call.G = call.K /\ call.K % plan.BK # 0)
    /\ Deployed => call.K % 128 # 0

\* Whatever the tables choose, what is launched multiplies each row of the weights
\* once and with the scales of its own group: for the deployed groups always, for
\* any other group size a caller may come with where a matrix-vector wrapper asserts
\* that blocks fit groups or where the tile is 32 rows deep.
LaunchExact ==
  pc = "launched" /\ (Deployed \/ call.M = 1 \/ plan.BK = 32) => OnceInOwnGroup(plan)

\* A batch of at most 32 rows of a tuned shape is one tile of rows, no larger
\* than the next tested band: the weights are read once, not once per tile.
OneTileOfRows ==
  pc = "launched" /\ call.M \in 2 .. 32 /\ Tuned =>
    /\ plan.BM >= call.M
    /\ plan.BM > 8 => call.M > plan.BM \div 2

\* What the assert on group_size admits (awq_triton.py:883) is multiplied with the
\* scales of its own groups.
SupportedIsExact ==
  pc = "launched" /\ call.G \in SupportedGroups => OnceInOwnGroup(plan)

\* Whether one of the sweeps tried the tile and split of the plan, with some number
\* of warps and stages.  The sweep for M <= 32 has the rows of the band.
Swept ==
  \E w \in {2, 4, 8, 16}, s \in {2, 3, 4} :
    LET c == [BM |-> plan.BM, BN |-> plan.BN, BK |-> plan.BK, W |-> w, S |-> s, SK |-> plan.SK]
    IN CASE call.M = 1 -> TriedSk2(c, call.K, call.G)
         [] call.M \in 2 .. 32 -> TriedM16(c, plan.BM, call.K)
         [] OTHER -> TriedM128(c, call.K)

\* What the deployed model is served with on a shape of its census, for any number of
\* rows, is a candidate of the sweep for those rows: none of the three tables, which
\* were copied by hand from its output, holds a tile or split that was never
\* measured (awq_triton.py:762-874).
TunedWasSwept ==
  pc = "launched" /\ call.G = 128 /\ Shape \in DOMAIN Counts => Swept

-----------------------------------------------------------------------------
(* The inductive invariant.                                                *)

CallOK == call.M \in Nat \ {0} /\ call.N \in Nat \ {0} /\ call.K \in Nat \ {0}
          /\ call.G \in Nat \ {0} /\ call.K % call.G = 0

\* What the tables and fallbacks can hand to each wrapper.
PlannedSplitK ==
  /\ plan.kernel = "splitk" /\ call.M = 1 /\ Gate
  /\ plan.BK \in {32, 64} /\ plan.SK \in {4, 16}
  /\ plan.BK = 64 => call.K = 9216 /\ plan.SK = 16

PlannedGemv ==
  /\ plan.kernel = "gemv" /\ call.M = 1 /\ plan.BK \in {64, 128} /\ plan.SK = 1

PlannedGemm ==
  /\ plan.kernel = "gemm" /\ call.M > 1
  /\ plan.BK \in {32, 64} /\ plan.SK \in {1, 4, 8}
  /\ call.M \in 2 .. 32 /\ Tuned =>
       /\ plan.BM \in {8, 16, 32} /\ plan.BM >= call.M
       /\ plan.BM > 8 => call.M > plan.BM \div 2

DispatchInv ==
  /\ CallOK
  /\ pc \in {"entered", "chosen", "launched", "raised"}
  /\ pc # "entered" =>
       /\ plan.K = call.K /\ plan.G = call.G
       /\ PlannedSplitK \/ PlannedGemv \/ PlannedGemm
  /\ pc = "launched" => Asserts
  /\ pc = "raised" => ~ Asserts

\* The choice as TunedWasSwept has it, already before the launch.
SweptInv ==
  pc # "entered" /\ call.G = 128 /\ Shape \in DOMAIN Counts => Swept
=============================================================================

------------------------------ MODULE RocmGemm ------------------------------
(***************************************************************************)
(* rocm_unquantized_gemm_impl of patches/utils.py: which of seven ways an  *)
(* unquantised product takes on a ROCm machine, and the answer about the   *)
(* device that is found once and kept.                                     *)
(*                                                                         *)
(* A machine gives the architecture of each device, the environment        *)
(* switches and the number of compute units.  vLLM's own tests (on_gfx9,   *)
(* on_gfx1x, on_gfx950, is_fp8_fnuz) are external: they are taken once,    *)
(* from device 0, when vLLM's platform module is imported.                 *)
(***************************************************************************)
EXTENDS Integers, FiniteSets, FiniteSetsExt

CONSTANTS
  Machines,   \* [arch : device -> architecture, skinny, aiter, tgemm : BOOLEAN, cus : Nat]
  Products,   \* [n, m, k : Nat, bias : BOOLEAN, dtype, dim, contiguous, device]
  Unknown     \* _ON_GFX1030 before the first call

ASSUME RocmGemmAssumption ==
  /\ Unknown \notin BOOLEAN
  /\ \A p \in Products : p.n \in Nat /\ p.m \in Nat /\ p.k \in Nat

VARIABLES
  machine,
  known,      \* _ON_GFX1030
  last        \* the call that is running: the product and the way it takes

gemmVars == <<machine, known, last>>

Half == {"float16", "bfloat16"}
OnGfx9(mc) == mc.arch[0] \in {"gfx90a", "gfx942", "gfx950"}
OnGfx1x(mc) == mc.arch[0] \in {"gfx1100", "gfx1201"}
OnGfx950(mc) == mc.arch[0] = "gfx950"
Fp8Fnuz(mc) == mc.arch[0] = "gfx942"

CdivBy(a, b) == (a + b - 1) \div b
Smaller(a, b) == IF a < b THEN a ELSE b

\* N_p2 == 1 << (n - 1).bit_length(); bit_length ignores the sign, so that an
\* empty batch counts as 2.
NextPow2(n) == IF n = 0 THEN 2 ELSE Min({2^e : e \in {e \in 0 .. 16 : 2^e >= n}})

-----------------------------------------------------------------------------
(* The conditions, in the order in which the code asks them.               *)

\* fits_wvsplitkrc: the partial results fit, and so do the compute units.
FitsWvSplitKrc(mc, p) ==
  LET shards == CdivBy(p.k, 512)
      groups == Smaller(NextPow2(p.n) \div 16, 4) IN
  /\ NextPow2(p.n) * p.m * shards <= 128 * 1024 * 12
  /\ CdivBy(p.m, 64) * shards * groups <= mc.cus

UseSkinnyReduceCounting(mc, p) ==
  /\ mc.skinny /\ OnGfx950(mc)
  /\ p.dtype \in Half /\ p.dim = 2
  /\ 10 <= p.n /\ p.n <= 128
  /\ p.k % 8 = 0 /\ p.k > 512 /\ p.m % 16 = 0
  /\ FitsWvSplitKrc(mc, p)
  /\ p.contiguous

UseAiterTritonGemm(mc, p) ==
  /\ mc.aiter /\ ~ Fp8Fnuz(mc) /\ p.dtype \in Half
  /\ ~ (p.n > 2048 /\ p.m > 512)
  /\ <<p.m, p.k>> \in {<<5120, 2880>>, <<2880, 4096>>, <<128, 2880>>, <<640, 2880>>, <<2880, 512>>}

\* _on_gfx1030(): device 0 is asked, whatever device the product is on.
OnG1030(mc) == IF known = Unknown THEN mc.arch[0] = "gfx1030" ELSE known

UseSkinny(mc, p) ==
  /\ mc.skinny
  /\ OnGfx9(mc) \/ OnGfx1x(mc) \/ OnG1030(mc)
  /\ p.dtype \in Half
  /\ p.k % 8 = 0

TakesWvSplitK(mc, p) == p.m > 8 /\ 0 < p.n /\ p.n <= 5 /\ ~ OnG1030(mc)

TakesLLMM1(p) == p.m % 4 = 0 /\ p.n = 1 /\ p.k <= 8192 /\ ~ p.bias

\* Mutant: the test for longer products is strict on both sides.
TakesTritonGemvStrict(mc, p) == OnG1030(mc) /\ p.n = 1 /\ ~ p.bias /\ p.k > 9216

TakesTritonGemv(mc, p) == OnG1030(mc) /\ p.n = 1 /\ ~ p.bias /\ p.k > 8192

SkinnyWay(mc, p) ==
  IF TakesWvSplitK(mc, p) THEN "wvSplitK"
  ELSE IF TakesLLMM1(p) THEN "LLMM1"
  ELSE IF TakesTritonGemv(mc, p) THEN "gemv"
  ELSE "library"

\* tgemm and linear are libraries that take every product.
Library(mc) == IF mc.tgemm THEN "tgemm" ELSE "linear"

Way(mc, p) ==
  IF UseSkinnyReduceCounting(mc, p) THEN "wvSplitKrc"
  ELSE IF UseAiterTritonGemm(mc, p) THEN "aiter"
  ELSE IF UseSkinny(mc, p) /\ SkinnyWay(mc, p) # "library" THEN SkinnyWay(mc, p)
  ELSE Library(mc)

-----------------------------------------------------------------------------

(* _gfx1030_fp16_gemv: a grid over the m rows of the weight, and in each      *)
(* program a loop over k.  Both the last program and the last trip are masked. *)

\* Mutant: the tail of a dimension that is no whole number of blocks is lost.
BlocksFloor(size, block) == size \div block

\* tl.cdiv and triton.cdiv
Blocks(size, block) == CdivBy(size, block)

\* offs_m or offs_k of block i, under its mask.
Block(size, block, i) == (i * block .. (i + 1) * block - 1) \cap (0 .. size - 1)

GemvTile(p, pid) == Block(p.m, 32, pid)
GemvTrip(p, k0) == Block(p.k, 128, k0)

-----------------------------------------------------------------------------

NoCall == [way |-> "none"]

GemmInit ==
  /\ machine \in Machines
  /\ known = Unknown
  /\ last = NoCall

\* The cache is not filled by a call that leaves before _on_gfx1030 is asked.
Call(p) ==
  LET way == Way(machine, p) IN
  /\ last = NoCall
  /\ p.device \in DOMAIN machine.arch
  /\ last' = [way |-> way, product |-> p]
  /\ known' = IF way \in {"wvSplitKrc", "aiter"} THEN known ELSE OnG1030(machine)
  /\ UNCHANGED machine

Return ==
  /\ last # NoCall
  /\ last' = NoCall
  /\ UNCHANGED <<machine, known>>

GemmNext == Return \/ \E p \in Products : Call(p)

GemmSpec == GemmInit /\ [][GemmNext]_gemmVars

-----------------------------------------------------------------------------
(* Properties.                                                             *)

\* What the patch is for: with the skinny kernels on, no decode product of a
\* gfx1030 in whole vectors goes to a library, on either side of the limit on k,
\* except a shape that LLMM1 cannot tile.
DecodeIsSkinny ==
  last.way \in {"tgemm", "linear"} /\ machine.arch[0] = "gfx1030" /\ machine.skinny =>
    LET p == last.product IN
    \/ p.n # 1 \/ p.bias \/ p.dtype \notin Half \/ p.k % 8 # 0
    \/ p.m % 4 # 0 /\ p.k <= 8192

\* Blocks taken together are all of 0 .. size - 1, nothing of it twice.
Partitioned(size, blocks) ==
  /\ UNION {blocks[i] : i \in DOMAIN blocks} = 0 .. size - 1
  /\ \A i, j \in DOMAIN blocks : i # j => blocks[i] \cap blocks[j] = {}

\* The fp16 GEMV stores each element of the result once and adds up each column of
\* the weight once, also where the blocks of 32 and 128 do not divide m and k.
GemvWhole ==
  last.way = "gemv" =>
    LET p == last.product IN
    /\ Partitioned(p.m, [pid \in 0 .. Blocks(p.m, 32) - 1 |-> GemvTile(p, pid)])
    /\ Partitioned(p.k, [k0 \in 0 .. Blocks(p.k, 128) - 1 |-> GemvTrip(p, k0)])

-----------------------------------------------------------------------------
(* The inductive invariant.                                                *)

\* What is kept about device 0 is true, and the running call goes the way that
\* the conditions give for it.
GemmInv ==
  /\ known \in {Unknown, machine.arch[0] = "gfx1030"}
  /\ last # NoCall =>
       /\ last.product \in Products
       /\ last.way = Way(machine, last.product)
=============================================================================

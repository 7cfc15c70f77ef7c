----------------------------- MODULE SweepGrid -----------------------------
(***************************************************************************)
(* What the three sweeps of gates/ try on a shape: sweep_m128_r16.py and   *)
(* sweep_m16_r18.py the tiles of awq_gemm_kernel, probe_sk2.py those of    *)
(* the K-split GEMV.  A candidate is a record: the tile BM x BN x BK, the  *)
(* warps W, the stages S and the split SK of K.                            *)
(***************************************************************************)
EXTENDS Integers

\* Calls per token of each shape <<N, K>>, by which the sweeps weight their times.
Counts ==
  [s \in {<<18432, 2560>>, <<12288, 2560>>, <<10240, 2560>>,
          <<2560, 9216>>, <<2560, 4096>>} |->
     CASE s = <<12288, 2560>> -> 22
       [] s = <<10240, 2560>> -> 8
       [] OTHER -> 30]

GridM128 ==
  [BM : {32, 64, 128}, BN : {32, 64, 128, 256}, BK : {32, 64, 128},
   W : {4, 8, 16}, S : {2, 3, 4}, SK : {1, 4, 8}]

TriedM128(c, K) == c \in GridM128 /\ c.BK <= K /\ c.BN * c.BK * c.W <= 131072

RowsM16 == [m \in {8, 16, 32} |-> IF m = 8 THEN {8, 16} ELSE {16, 32}]

GridM16(m) ==
  [BM : RowsM16[m], BN : {128}, BK : {32, 64}, W : {8}, S : {2, 3}, SK : {1, 2, 4, 8}]

TriedM16(c, m, K) ==
  /\ c \in GridM16(m)
  /\ c.BK <= K /\ c.SK * c.BK <= K
  /\ c.BK * m * 2 <= 65536
  /\ (c.BM * c.BK + c.BN * c.BK) * 2 * c.S <= 128 * 1024

GridSk2 ==
  [BM : {1}, BN : {16, 32, 64, 128}, BK : {32, 64, 128},
   W : {2, 4, 8}, S : {3}, SK : {2, 4, 8, 16, 32}]

TriedSk2(c, K, G) ==
  /\ c \in GridSk2
  /\ K % c.SK = 0 /\ (K \div c.SK) % c.BK = 0 /\ G % c.BK = 0
=============================================================================

---------------------------- MODULE LinearProofs ----------------------------
(***************************************************************************)
(* Proofs about the two linear methods of the server, AwqDispatch and      *)
(* RocmGemm, for every shape, number of rows, group size, machine and      *)
(* product, and about the measurements that they rest on: the sweeps that  *)
(* the tables of the first come from, ConfigSweep, for every grid, clock   *)
(* and list of shapes, and the census and the traces of the decode step,   *)
(* DecodeCensus, for every prompt, stall and length of the trace.          *)
(***************************************************************************)
EXTENDS AwqDispatch, RocmGemm, ConfigSweep, DecodeCensus, SequenceTheorems,
        AwqLoopsProofs

-----------------------------------------------------------------------------
(* awq_gemm_triton: the tables.                                            *)

\* dict.get returns a value of the table or the default.
LEMMA GetFacts ==
  ASSUME NEW table, NEW default
  PROVE  \/ \E e \in table : e[1] = Shape /\ Get(table, default) = e[2]
         \/ Get(table, default) = default
<1> DEFINE e == CHOOSE e \in Entries(table) : TRUE
<1>1. CASE Entries(table) # {}
  <2>1. e \in Entries(table)
    BY <1>1
  <2>2. e \in table /\ e[1] = Shape /\ Get(table, default) = e[2]
    BY <1>1, <2>1 DEF Entries, Get
  <2>3. QED
    BY <2>2
<1>2. CASE Entries(table) = {}
  BY <1>2 DEF Get
<1>3. QED
  BY <1>1, <1>2

LEMMA SplitkValues ==
  ASSUME CallOK, NEW t, t = Get(SplitkTable, <<64, 32, 16>>)
  PROVE  t[2] \in {32, 64} /\ t[3] \in {4, 16} /\ (t[2] = 64 => call.K = 9216 /\ t[3] = 16)
<1>1. CASE t = <<64, 32, 16>>
  BY <1>1
<1>2. ASSUME NEW e \in SplitkTable, e[1] = Shape, t = e[2]
      PROVE  t[2] \in {32, 64} /\ t[3] \in {4, 16} /\ (t[2] = 64 => call.K = 9216 /\ t[3] = 16)
  BY <1>2 DEF SplitkTable, Shape, CallOK
<1>3. QED
  BY <1>1, <1>2, GetFacts

LEMMA GemvValues ==
  ASSUME NEW t, t = Get(GemvTable, GemvUnseen)
  PROVE  t[2] \in {64, 128}
<1>1. CASE t = GemvUnseen
  BY <1>1 DEF GemvUnseen
<1>2. ASSUME NEW e \in GemvTable, t = e[2]
      PROVE  t[2] \in {64, 128}
  BY <1>2 DEF GemvTable
<1>3. QED
  BY <1>1, <1>2, GetFacts

LEMMA LargeValues == Get(LargeTable, 8) \in {1, 4, 8}
<1>1. ASSUME NEW e \in LargeTable
      PROVE  e[2] \in {1, 4, 8}
  BY <1>1 DEF LargeTable
<1>2. QED
  BY <1>1, GetFacts

\* The band of a tuned shape has all the rows, and none to spare for half.
LEMMA BandValues ==
  ASSUME CallOK, call.M \in 2 .. 32, Tuned, NEW e, e = Band(Entries(BandTable))
  PROVE  /\ e[2] \in {8, 16, 32} /\ e[3] \in {32, 64} /\ e[4] \in {1, 4, 8}
         /\ e[2] >= call.M
         /\ e[2] > 8 => call.M > e[2] \div 2
<1> DEFINE entries == Entries(BandTable)
           ge == {f \in entries : f[2] >= call.M}
<1>1. \A f \in entries : f[2] \in {8, 16, 32} /\ f[3] \in {32, 64} /\ f[4] \in {1, 4, 8}
  BY DEF Entries, BandTable
\* Every tuned shape was tuned for each band.
<1>2. \A b \in {8, 16, 32} : \E f \in entries : f[2] = b
  <2>1. PICK s : s \in entries
    BY DEF Tuned
  <2>2. Shape \in {<<18432, 2560>>, <<12288, 2560>>, <<10240, 2560>>, <<2560, 9216>>, <<2560, 4096>>}
    BY <2>1 DEF Entries, BandTable
  <2>3. ASSUME NEW b \in {8, 16, 32}
        PROVE  \E bk, sk : <<Shape, b, bk, sk>> \in BandTable
    BY <2>2 DEF BandTable
  <2>4. ASSUME NEW b \in {8, 16, 32}
        PROVE  \E f \in entries : f[2] = b
    <3>1. PICK bk, sk : <<Shape, b, bk, sk>> \in BandTable
      BY <2>3
    <3>2. <<Shape, b, bk, sk>> \in entries
      BY <3>1 DEF Entries
    <3>3. QED
      BY <3>2
  <2>5. QED
    BY <2>4
<1>3. \E f \in ge : \A g \in ge : f[2] <= g[2]
  <2>1. CASE call.M <= 8
    <3>1. PICK f \in entries : f[2] = 8
      BY <1>2
    <3>2. f \in ge /\ \A g \in ge : f[2] <= g[2]
      BY <1>1, <2>1, <3>1 DEF CallOK
    <3>3. QED
      BY <3>2
  <2>2. CASE call.M > 8 /\ call.M <= 16
    <3>1. PICK f \in entries : f[2] = 16
      BY <1>2
    <3>2. f \in ge /\ \A g \in ge : f[2] <= g[2]
      BY <1>1, <2>2, <3>1 DEF CallOK
    <3>3. QED
      BY <3>2
  <2>3. CASE call.M > 16
    <3>1. PICK f \in entries : f[2] = 32
      BY <1>2
    <3>2. f \in ge /\ \A g \in ge : f[2] <= g[2]
      BY <1>1, <2>3, <3>1 DEF CallOK
    <3>3. QED
      BY <3>2
  <2>4. QED
    BY <2>1, <2>2, <2>3 DEF CallOK
<1>4. e \in ge /\ \A g \in ge : e[2] <= g[2]
  <2>1. ge # {}
    BY <1>3
  <2>2. e = CHOOSE f \in ge : \A g \in ge : f[2] <= g[2]
    BY <2>1 DEF Band
  <2>3. QED
    BY <1>3, <2>2
<1>5. e[2] = 16 => call.M > 8
  <2>1. PICK f \in entries : f[2] = 8
    BY <1>2
  <2>2. QED
    BY <1>4, <2>1 DEF CallOK
<1>6. e[2] = 32 => call.M > 16
  <2>1. PICK f \in entries : f[2] = 16
    BY <1>2
  <2>2. QED
    BY <1>4, <2>1 DEF CallOK
<1>7. e \in entries
  BY <1>4
<1>8. QED
  BY <1>1, <1>4, <1>5, <1>6, <1>7

-----------------------------------------------------------------------------
(* awq_gemm_triton: the choice.                                            *)

LEMMA DispatchInit == Init => DispatchInv
<1> SUFFICES ASSUME Init PROVE DispatchInv
  OBVIOUS
<1>1. PICK m \in RowCounts, s \in Shapes, g \in Groups :
        /\ call = [M |-> m, N |-> s[1], K |-> s[2], G |-> IF g = 0 THEN s[2] ELSE g]
        /\ call.K % call.G = 0
  BY DEF Init, Calls
<1>2. /\ m \in Nat \ {0} /\ g \in Nat
      /\ s[1] \in Nat \ {0} /\ s[2] \in Nat \ {0}
  BY AwqDispatchAssumption
<1>3. CallOK
  BY <1>1, <1>2 DEF CallOK
<1>4. QED
  BY <1>3 DEF Init, DispatchInv

LEMMA DispatchStep ==
  ASSUME DispatchInv, [Next]_vars
  PROVE  DispatchInv'
<1>1. CallOK
  BY DEF DispatchInv
<1>2. CASE ChooseSplitK
  <2> DEFINE t == Get(SplitkTable, <<64, 32, 16>>)
  <2>1. /\ call.M = 1 /\ Gate /\ pc' = "chosen" /\ call' = call
        /\ plan' = Launch("splitk", 1, t[1], t[2], t[3])
    BY <1>2 DEF ChooseSplitK
  <2>2. t[2] \in {32, 64} /\ t[3] \in {4, 16} /\ (t[2] = 64 => call.K = 9216 /\ t[3] = 16)
    BY <1>1, SplitkValues
  <2>3. /\ plan'.kernel = "splitk" /\ plan'.K = call.K /\ plan'.G = call.G
        /\ plan'.BK = t[2] /\ plan'.SK = t[3]
    BY <2>1 DEF Launch
  <2> HIDE DEF t
  <2>4. PlannedSplitK'
    BY <2>1, <2>2, <2>3 DEF PlannedSplitK, Gate
  <2>5. QED
    BY <1>1, <2>1, <2>3, <2>4 DEF DispatchInv, CallOK
<1>3. CASE ChooseGemv
  <2> DEFINE t == Get(GemvTable, GemvUnseen)
  <2>1. /\ call.M = 1 /\ pc' = "chosen" /\ call' = call
        /\ plan' = Launch("gemv", 1, t[1], t[2], 1)
    BY <1>3 DEF ChooseGemv
  <2>2. t[2] \in {64, 128}
    BY GemvValues
  <2>3. /\ plan'.kernel = "gemv" /\ plan'.K = call.K /\ plan'.G = call.G
        /\ plan'.BK = t[2] /\ plan'.SK = 1
    BY <2>1 DEF Launch
  <2> HIDE DEF t
  <2>4. PlannedGemv'
    BY <2>1, <2>2, <2>3 DEF PlannedGemv
  <2>5. QED
    BY <1>1, <2>1, <2>3, <2>4 DEF DispatchInv, CallOK
<1>4. CASE ChooseBand
  <2> DEFINE e == Band(Entries(BandTable))
  <2>1. /\ call.M \in 2 .. 32 /\ Tuned /\ pc' = "chosen" /\ call' = call
        /\ plan' = Launch("gemm", e[2], 128, e[3], e[4])
    BY <1>4 DEF ChooseBand
  <2>2. /\ e[2] \in {8, 16, 32} /\ e[3] \in {32, 64} /\ e[4] \in {1, 4, 8}
        /\ e[2] >= call.M /\ (e[2] > 8 => call.M > e[2] \div 2)
    BY <1>1, <2>1, BandValues
  <2>3. /\ plan'.kernel = "gemm" /\ plan'.K = call.K /\ plan'.G = call.G
        /\ plan'.BM = e[2] /\ plan'.BK = e[3] /\ plan'.SK = e[4]
    BY <2>1 DEF Launch
  <2> HIDE DEF e
  <2>4. PlannedGemm'
    BY <2>1, <2>2, <2>3 DEF PlannedGemm, Tuned, Entries, Shape
  <2>5. QED
    BY <1>1, <2>1, <2>3, <2>4 DEF DispatchInv, CallOK
<1>5. CASE ChooseUnseen
  <2>1. /\ call.M \in 2 .. 32 /\ ~ Tuned /\ pc' = "chosen" /\ call' = call
        /\ plan' = Launch("gemm", 16, 128, 64, IF call.K <= 4096 THEN 1 ELSE 8)
    BY <1>5 DEF ChooseUnseen
  <2>2. /\ plan'.kernel = "gemm" /\ plan'.K = call.K /\ plan'.G = call.G
        /\ plan'.BK = 64 /\ plan'.SK \in {1, 8}
    BY <2>1 DEF Launch
  <2>3. PlannedGemm'
    BY <2>1, <2>2 DEF PlannedGemm, Tuned, Entries, Shape
  <2>4. QED
    BY <1>1, <2>1, <2>2, <2>3 DEF DispatchInv, CallOK
<1>6. CASE ChooseLarge
  <2>1. /\ call.M > 32 /\ pc' = "chosen" /\ call' = call
        /\ plan' = Launch("gemm", 64, 128, 32, Get(LargeTable, 8))
    BY <1>6 DEF ChooseLarge
  <2>2. /\ plan'.kernel = "gemm" /\ plan'.K = call.K /\ plan'.G = call.G
        /\ plan'.BK = 32 /\ plan'.SK \in {1, 4, 8}
    BY <2>1, LargeValues DEF Launch
  <2>3. PlannedGemm'
    BY <1>1, <2>1, <2>2 DEF PlannedGemm, CallOK
  <2>4. QED
    BY <1>1, <2>1, <2>2, <2>3 DEF DispatchInv, CallOK
<1>7. CASE LaunchKernel \/ Raise
  BY <1>7 DEF LaunchKernel, Raise, DispatchInv, CallOK, PlannedSplitK, Gate, PlannedGemv,
              PlannedGemm, Tuned, Entries, Shape, Asserts
<1>8. CASE UNCHANGED vars
  BY <1>8 DEF vars, DispatchInv, CallOK, PlannedSplitK, Gate, PlannedGemv,
              PlannedGemm, Tuned, Entries, Shape, Asserts
<1>9. QED
  BY <1>2, <1>3, <1>4, <1>5, <1>6, <1>7, <1>8 DEF Next

\* What the tables choose is what DispatchInv says, for every call.
THEOREM DispatchInvariant == Spec => []DispatchInv
<1>1. DispatchInv /\ [Next]_vars => DispatchInv'
  BY DispatchStep
<1>2. QED
  BY <1>1, DispatchInit, PTL DEF Spec

\* What the gate lets through meets the asserts on the slices.
LEMMA GateMeetsSliceAsserts ==
  ASSUME CallOK, PlannedSplitK, plan.K = call.K
  PROVE  plan.K % plan.SK = 0 /\ (plan.K \div plan.SK) % plan.BK = 0
<1> DEFINE j == (call.K \div 16) \div 32
<1>1. call.K \in Nat /\ call.K % 16 = 0 /\ (call.K \div 16) % 32 = 0
  BY DEF CallOK, PlannedSplitK, Gate
<1>2. j \in Nat /\ call.K = 512 * j
  BY <1>1
<1> HIDE DEF j
<1>3. CASE plan.BK = 64
  BY <1>3 DEF PlannedSplitK
<1>4. CASE plan.BK = 32
  <2>1. CASE plan.SK = 4
    BY <1>2, <1>4, <2>1
  <2>2. CASE plan.SK = 16
    BY <1>2, <1>4, <2>2
  <2>3. QED
    BY <2>1, <2>2 DEF PlannedSplitK
<1>5. QED
  BY <1>3, <1>4 DEF PlannedSplitK

\* A launched product is exact, whatever the tables choose: by the asserts of
\* the matrix-vector wrappers, by the depth of the tiles of the GEMM.
THEOREM LaunchExactHolds == Spec => []LaunchExact
<1>1. DispatchInv => LaunchExact
  <2> SUFFICES ASSUME DispatchInv, pc = "launched",
                      Deployed \/ call.M = 1 \/ plan.BK = 32
               PROVE  OnceInOwnGroup(plan)
    BY DEF LaunchExact
  <2>1. /\ CallOK /\ Asserts
        /\ plan.K = call.K /\ plan.G = call.G
        /\ PlannedSplitK \/ PlannedGemv \/ PlannedGemm
    BY DEF DispatchInv
  <2>2. Sizes(plan)
    BY <2>1 DEF Sizes, CallOK, PlannedSplitK, PlannedGemv, PlannedGemm
  <2>3. CASE PlannedSplitK
    <3>1. Sliced(plan) /\ SplitkAsserts(plan)
      BY <2>1, <2>3 DEF PlannedSplitK, Asserts, Sliced
    <3>2. QED
      BY <2>2, <3>1, SplitkAssertsSuffice
  <2>4. CASE PlannedGemv
    <3>1. ~ Sliced(plan) /\ BlocksInGroup(plan)
      BY <2>1, <2>4 DEF PlannedGemv, Asserts, Sliced, GemvAsserts, BlocksInGroup
    <3>2. QED
      BY <2>2, <3>1, StridedLoopsExact
  <2>5. CASE PlannedGemm
    <3>1. ~ Sliced(plan) /\ GemmAsserts(plan)
      BY <2>1, <2>5 DEF PlannedGemm, Asserts, Sliced
    <3>2. call.G \in {32, 64, 128} \/ call.G = call.K
      BY <2>1, <3>1, AwqDispatchAssumption DEF GemmAsserts
    <3>3. plan.BK = 32 \/ (plan.BK = 64 /\ Deployed)
      BY <2>5 DEF PlannedGemm
    <3>4. BlocksInGroup(plan)
      BY <2>1, <3>2, <3>3 DEF BlocksInGroup, Deployed
    <3>5. QED
      BY <2>2, <3>1, <3>4, StridedLoopsExact
  <2>6. QED
    BY <2>1, <2>3, <2>4, <2>5
<1>2. QED
  BY <1>1, DispatchInvariant, PTL

\* No call with a supported group size is refused but one of a single row whose
\* block does not fit its groups, and none of the deployed model.
THEOREM RefusedOnlyTooDeepHolds == Spec => []RefusedOnlyTooDeep
<1>1. DispatchInv => RefusedOnlyTooDeep
  <2> SUFFICES ASSUME DispatchInv, pc = "raised", call.G \in SupportedGroups \cup {call.K}
               PROVE  /\ call.M = 1
                      /\ call.G < plan.BK \/ (call.G = call.K /\ call.K % plan.BK # 0)
                      /\ Deployed => call.K % 128 # 0
    BY DEF RefusedOnlyTooDeep
  <2>1. /\ CallOK /\ ~ Asserts
        /\ plan.K = call.K /\ plan.G = call.G
        /\ PlannedSplitK \/ PlannedGemv \/ PlannedGemm
    BY DEF DispatchInv
  <2>2. call.G \in {32, 64, 128} \/ call.G = call.K
    BY AwqDispatchAssumption
  <2>3. call.K \in Nat \ {0} /\ call.G \in Nat \ {0} /\ call.K % call.G = 0
    BY <2>1 DEF CallOK
  <2>4. CASE PlannedSplitK
    <3>1. call.G % plan.BK # 0
      BY <2>1, <2>4, GateMeetsSliceAsserts DEF PlannedSplitK, Asserts, SplitkAsserts
    <3>2. plan.BK = 64 /\ call.K = 9216 /\ call.G % 32 = 0
      BY <2>4, <3>1 DEF PlannedSplitK, Gate
    <3>3. call.G = 32
      BY <2>2, <3>1, <3>2
    <3>4. QED
      BY <2>4, <3>2, <3>3 DEF PlannedSplitK, Deployed
  <2>5. CASE PlannedGemv
    <3>1. call.G % plan.BK # 0 /\ plan.BK \in {64, 128} /\ call.M = 1
      BY <2>1, <2>5 DEF PlannedGemv, Asserts, GemvAsserts
    <3>2. call.G \in {32, 64} \/ (call.G = call.K /\ call.K % plan.BK # 0)
      BY <2>2, <3>1
    <3>3. call.G \in {32, 64, 128} => call.G < plan.BK
      BY <3>1
    <3>4. call.K % 128 = 0 => call.K % 64 = 0
      BY <2>3
    <3>5. Deployed => call.K % 128 # 0
      BY <3>1, <3>4 DEF Deployed
    <3>6. QED
      BY <3>1, <3>2, <3>3, <3>5
  <2>6. CASE PlannedGemm
    <3>1. plan.G <= plan.K
      BY <2>1, <2>3
    <3>2. GemmAsserts(plan)
      BY <2>1, <2>6, <3>1 DEF GemmAsserts, PlannedGemm
    <3>3. QED
      BY <2>1, <2>6, <3>2 DEF PlannedGemm, Asserts
  <2>7. QED
    BY <2>1, <2>4, <2>5, <2>6
<1>2. QED
  BY <1>1, DispatchInvariant, PTL

\* A small batch of a tuned shape reads the weights once, for any table entry.
THEOREM OneTileOfRowsHolds == Spec => []OneTileOfRows
<1>1. DispatchInv => OneTileOfRows
  <2> SUFFICES ASSUME DispatchInv, pc = "launched", call.M \in 2 .. 32, Tuned
               PROVE  plan.BM >= call.M /\ (plan.BM > 8 => call.M > plan.BM \div 2)
    BY DEF OneTileOfRows
  <2>1. PlannedGemm
    BY DEF DispatchInv, PlannedSplitK, PlannedGemv
  <2>2. QED
    BY <2>1 DEF PlannedGemm
<1>2. QED
  BY <1>1, DispatchInvariant, PTL

-----------------------------------------------------------------------------
(* awq_gemm_triton: the tables and the sweeps.                             *)

\* The shapes of the census, which every band is tuned for.
LEMMA CensusShapes ==
  ASSUME Shape \in DOMAIN Counts
  PROVE  call.K \in {2560, 4096, 9216} /\ Tuned
<1>1. Shape \in {<<18432, 2560>>, <<12288, 2560>>, <<10240, 2560>>, <<2560, 9216>>, <<2560, 4096>>}
  BY DEF Counts
<1>2. \E bk, sk : <<Shape, 8, bk, sk>> \in BandTable
  BY <1>1 DEF BandTable
<1>3. Tuned
  BY <1>2 DEF Tuned, Entries
<1> QED BY <1>1, <1>3 DEF Shape

\* The splits of the GEMV are in the grid of probe_sk2.py, the fallback too.
LEMMA SplitkSwept ==
  ASSUME call.K \in {2560, 4096, 9216}, NEW t, t = Get(SplitkTable, <<64, 32, 16>>)
  PROVE  TriedSk2([BM |-> 1, BN |-> t[1], BK |-> t[2], W |-> 2, S |-> 3, SK |-> t[3]],
                  call.K, 128)
<1>1. CASE t = <<64, 32, 16>>
  <2>1. t[1] = 64 /\ t[2] = 32 /\ t[3] = 16
    BY <1>1
  <2>2. call.K % 16 = 0 /\ (call.K \div 16) % 32 = 0 /\ 128 % 32 = 0
    OBVIOUS
  <2> QED BY <2>1, <2>2 DEF TriedSk2, GridSk2
<1>2. ASSUME NEW e \in SplitkTable, e[1] = Shape, t = e[2]
      PROVE  \/ t[1] = 128 /\ t[2] = 32 /\ t[3] = 4 /\ call.K = 2560
             \/ t[1] = 128 /\ t[2] = 64 /\ t[3] = 16 /\ call.K = 9216
  BY <1>2 DEF SplitkTable, Shape
<1>3. CASE t[1] = 128 /\ t[2] = 32 /\ t[3] = 4 /\ call.K = 2560
  <2>1. 2560 % 4 = 0 /\ (2560 \div 4) % 32 = 0 /\ 128 % 32 = 0
    OBVIOUS
  <2> QED BY <1>3, <2>1 DEF TriedSk2, GridSk2
<1>4. CASE t[1] = 128 /\ t[2] = 64 /\ t[3] = 16 /\ call.K = 9216
  <2>1. 9216 % 16 = 0 /\ (9216 \div 16) % 64 = 0 /\ 128 % 64 = 0
    OBVIOUS
  <2> QED BY <1>4, <2>1 DEF TriedSk2, GridSk2
<1> QED BY <1>1, <1>2, <1>3, <1>4, GetFacts

\* The entries of the bands are in the grid of sweep_m16_r18.py for their rows.
LEMMA BandSwept ==
  ASSUME call.K \in {2560, 4096, 9216}, NEW m \in {8, 16, 32}, NEW bk \in {32, 64}, NEW sk \in {1, 4, 8}
  PROVE  TriedM16([BM |-> m, BN |-> 128, BK |-> bk, W |-> 8, S |-> 2, SK |-> sk], m, call.K)
<1>1. m \in RowsM16[m]
  BY DEF RowsM16
<1>2. bk <= call.K /\ sk * bk <= call.K /\ bk * m * 2 <= 65536
  OBVIOUS
<1>3. (m * bk + 128 * bk) * 2 * 2 <= 128 * 1024
  OBVIOUS
<1> QED BY <1>1, <1>2, <1>3 DEF TriedM16, GridM16

LEMMA LargeSwept ==
  ASSUME call.K \in {2560, 4096, 9216}, NEW sk \in {1, 4, 8}
  PROVE  TriedM128([BM |-> 64, BN |-> 128, BK |-> 32, W |-> 4, S |-> 2, SK |-> sk], call.K)
BY DEF TriedM128, GridM128

LEMMA SweptStep ==
  ASSUME DispatchInv, SweptInv, [Next]_vars
  PROVE  SweptInv'
<1> SUFFICES ASSUME pc' # "entered", call'.G = 128, Shape' \in DOMAIN Counts
             PROVE  Swept'
  BY DEF SweptInv
<1>0. call' = call /\ Shape' = Shape /\ CallOK
  BY DEF Next, vars, ChooseSplitK, ChooseGemv, ChooseBand, ChooseUnseen, ChooseLarge,
         LaunchKernel, Raise, Shape, DispatchInv
<1>1. call.K \in {2560, 4096, 9216} /\ Tuned /\ call.G = 128
  BY <1>0, CensusShapes
<1>2. CASE ChooseSplitK
  <2> DEFINE t == Get(SplitkTable, <<64, 32, 16>>)
  <2>1. call.M = 1 /\ plan' = Launch("splitk", 1, t[1], t[2], t[3])
    BY <1>2 DEF ChooseSplitK
  <2>2. /\ plan'.BM = 1 /\ plan'.BN = t[1]
        /\ plan'.BK = t[2] /\ plan'.SK = t[3]
    BY <2>1 DEF Launch
  <2>3. TriedSk2([BM |-> 1, BN |-> t[1], BK |-> t[2], W |-> 2, S |-> 3, SK |-> t[3]],
                 call.K, 128)
    BY <1>1, SplitkSwept
  <2> HIDE DEF t
  <2> QED BY <1>0, <1>1, <2>1, <2>2, <2>3 DEF Swept
<1>3. CASE ChooseGemv
  <2>1. call.K % 16 = 0 /\ (call.K \div 16) % 32 = 0 /\ call.G % 32 = 0
    BY <1>1
  <2> QED BY <1>3, <2>1 DEF ChooseGemv, Gate
<1>4. CASE ChooseBand
  <2> DEFINE e == Band(Entries(BandTable))
  <2>1. call.M \in 2 .. 32 /\ plan' = Launch("gemm", e[2], 128, e[3], e[4])
    BY <1>4 DEF ChooseBand
  <2>2. /\ plan'.BM = e[2] /\ plan'.BN = 128
        /\ plan'.BK = e[3] /\ plan'.SK = e[4]
    BY <2>1 DEF Launch
  <2>3. e[2] \in {8, 16, 32} /\ e[3] \in {32, 64} /\ e[4] \in {1, 4, 8}
    BY <1>0, <1>1, <2>1, BandValues
  <2> HIDE DEF e
  <2>4. TriedM16([BM |-> e[2], BN |-> 128, BK |-> e[3], W |-> 8, S |-> 2, SK |-> e[4]],
                 e[2], call.K)
    BY <1>1, <2>3, BandSwept
  <2>5. call.M # 1
    BY <2>1
  <2> QED BY <1>0, <2>1, <2>2, <2>4, <2>5 DEF Swept
<1>5. CASE ChooseUnseen
  BY <1>1, <1>5 DEF ChooseUnseen
<1>6. CASE ChooseLarge
  <2> DEFINE sk == Get(LargeTable, 8)
  <2>1. call.M > 32 /\ plan' = Launch("gemm", 64, 128, 32, sk)
    BY <1>6 DEF ChooseLarge
  <2>2. /\ plan'.BM = 64 /\ plan'.BN = 128
        /\ plan'.BK = 32 /\ plan'.SK = sk
    BY <2>1 DEF Launch
  <2>3. TriedM128([BM |-> 64, BN |-> 128, BK |-> 32, W |-> 4, S |-> 2, SK |-> sk], call.K)
    BY <1>1, LargeValues, LargeSwept
  <2>4. call.M # 1 /\ call.M \notin 2 .. 32
    BY <1>0, <2>1 DEF CallOK
  <2> HIDE DEF sk
  <2> QED BY <1>0, <2>2, <2>3, <2>4 DEF Swept
<1>7. CASE LaunchKernel \/ Raise \/ UNCHANGED vars
  <2>1. UNCHANGED <<call, plan>> /\ pc # "entered"
    BY <1>7 DEF LaunchKernel, Raise, vars
  <2> QED BY <1>0, <1>1, <2>1 DEF SweptInv, Swept
<1> QED BY <1>2, <1>3, <1>4, <1>5, <1>6, <1>7 DEF Next

\* For any number of rows, a call of the deployed model on a shape of its census is
\* served with a tile and split that the sweep for those rows tried: no entry of the
\* three tables was never measured (awq_triton.py:762-874).
THEOREM TunedWasSweptHolds == Spec => []TunedWasSwept
<1>1. Init => SweptInv
  BY DEF Init, SweptInv
<1>2. DispatchInv /\ SweptInv /\ [Next]_vars => SweptInv'
  BY SweptStep
<1>3. SweptInv => TunedWasSwept
  BY DEF SweptInv, TunedWasSwept
<1> QED BY <1>1, <1>2, <1>3, DispatchInvariant, PTL DEF Spec

-----------------------------------------------------------------------------
(* rocm_unquantized_gemm_impl.                                             *)

LEMMA GemmStep ==
  ASSUME GemmInv, [GemmNext]_gemmVars
  PROVE  GemmInv'
<1>1. ASSUME NEW p \in Products, Call(p)
      PROVE  GemmInv'
  <2>1. /\ machine' = machine
        /\ known' \in {known, OnG1030(machine)}
        /\ last' = [way |-> Way(machine, p), product |-> p]
    BY <1>1 DEF Call
  <2>2. OnG1030(machine) = (machine.arch[0] = "gfx1030")
    BY DEF OnG1030, GemmInv
  <2>3. known' \in {Unknown, machine.arch[0] = "gfx1030"}
    BY <2>1, <2>2 DEF GemmInv
  <2>4. OnG1030(machine)' = OnG1030(machine)
    BY <2>1, <2>2, <2>3 DEF OnG1030
  <2>5. Way(machine, p)' = Way(machine, p)
    BY <2>1, <2>4 DEF Way, UseSkinny, SkinnyWay, TakesWvSplitK, TakesTritonGemv
  <2>6. QED
    BY <2>1, <2>3, <2>5 DEF GemmInv
<1>2. CASE Return
  BY <1>2 DEF Return, GemmInv
<1>3. CASE UNCHANGED gemmVars
  BY <1>3 DEF gemmVars, GemmInv, Way, UseSkinny, SkinnyWay, TakesWvSplitK, TakesTritonGemv,
              OnG1030
<1>4. QED
  BY <1>1, <1>2, <1>3 DEF GemmNext

\* The kept answer about device 0 is the true one, and every call goes the way
\* that the conditions give for it with that answer.
THEOREM GemmInvariant == GemmSpec => []GemmInv
<1>1. GemmInit => GemmInv
  BY DEF GemmInit, GemmInv
<1>2. GemmInv /\ [GemmNext]_gemmVars => GemmInv'
  BY GemmStep
<1>3. QED
  BY <1>1, <1>2, PTL DEF GemmSpec

\* A decode product of a gfx1030 in whole vectors goes to a library only where
\* neither skinny kernel of one row takes it.
THEOREM DecodeIsSkinnyHolds == GemmSpec => []DecodeIsSkinny
<1>1. GemmInv => DecodeIsSkinny
  <2> DEFINE p == last.product
  <2> SUFFICES ASSUME GemmInv, last.way \in {"tgemm", "linear"},
                      machine.arch[0] = "gfx1030", machine.skinny,
                      p.n = 1, ~ p.bias, p.dtype \in Half, p.k % 8 = 0
               PROVE  p.m % 4 # 0 /\ p.k <= 8192
    BY DEF DecodeIsSkinny
  <2>1. last # NoCall
    BY DEF NoCall
  <2>2. /\ p \in Products /\ last.way = Way(machine, p)
        /\ p.k \in Nat /\ p.m \in Nat
    BY <2>1, RocmGemmAssumption DEF GemmInv
  <2>3. OnG1030(machine)
    BY DEF OnG1030, GemmInv
  <2>4. UseSkinny(machine, p)
    BY <2>3 DEF UseSkinny
  <2>5. SkinnyWay(machine, p) = "library"
    BY <2>2, <2>4 DEF Way, SkinnyWay
  <2>6. ~ TakesLLMM1(p) /\ ~ TakesTritonGemv(machine, p)
    BY <2>5 DEF SkinnyWay
  <2>7. QED
    BY <2>2, <2>3, <2>6 DEF TakesLLMM1, TakesTritonGemv
<1>2. QED
  BY <1>1, GemmInvariant, PTL

\* The masked blocks of a grid or loop are a partition of its dimension.
LEMMA BlocksPartition ==
  ASSUME NEW size \in Nat, NEW b \in Nat \ {0}
  PROVE  Partitioned(size, [i \in 0 .. Blocks(size, b) - 1 |-> Block(size, b, i)])
<1> DEFINE n == Blocks(size, b)
           blocks == [i \in 0 .. n - 1 |-> Block(size, b, i)]
<1>1. n \in Nat /\ size <= n * b
  <2>1. CASE size = 0
    BY <2>1, DivSmall DEF Blocks, CdivBy
  <2>2. CASE size # 0
    BY <2>2, CdivFacts DEF Blocks, CdivBy, Cdiv
  <2>3. QED
    BY <2>1, <2>2
<1> HIDE DEF n
<1>2. ASSUME NEW i \in Nat, NEW k \in 0 .. size - 1
      PROVE  k \in Block(size, b, i) <=> k \div b = i
  <2>1. (i + 1) * b - 1 = i * b + b - 1
    OBVIOUS
  <2>2. QED
    BY <2>1, BlockNumber DEF Block
<1>3. ASSUME NEW k \in 0 .. size - 1
      PROVE  k \div b \in 0 .. n - 1 /\ k \in blocks[k \div b]
  <2> DEFINE q == k \div b
  <2>1. q \in Nat /\ q * b <= k
    BY BlockStart, DivMod
  <2> HIDE DEF q
  <2>2. q < n
    <3>1. ASSUME n <= q
          PROVE  FALSE
      <4>1. n * b <= q * b
        BY <1>1, <2>1, <3>1
      <4>2. n * b \in Nat /\ q * b \in Nat
        BY <1>1, <2>1
      <4>3. QED
        BY <1>1, <2>1, <4>1, <4>2
    <3>2. QED
      BY <1>1, <2>1, <3>1
  <2>3. k \in Block(size, b, q)
    BY <1>2, <2>1 DEF q
  <2>4. QED
    BY <1>1, <2>1, <2>2, <2>3 DEF q
<1>4. \A i \in DOMAIN blocks : blocks[i] \subseteq 0 .. size - 1
  BY DEF Block
<1>5. UNION {blocks[i] : i \in DOMAIN blocks} = 0 .. size - 1
  BY <1>3, <1>4
<1>6. ASSUME NEW i \in DOMAIN blocks, NEW j \in DOMAIN blocks, NEW k \in blocks[i] \cap blocks[j]
      PROVE  i = j
  <2>1. /\ i \in Nat /\ j \in Nat /\ k \in 0 .. size - 1
        /\ k \in Block(size, b, i) /\ k \in Block(size, b, j)
    BY <1>1, <1>4
  <2>2. QED
    BY <1>2, <2>1
<1>7. QED
  BY <1>5, <1>6 DEF Partitioned, n

\* The fp16 GEMV stores and adds up everything once, for every m and k.
THEOREM GemvWholeHolds == GemmSpec => []GemvWhole
<1>1. GemmInv => GemvWhole
  <2> DEFINE p == last.product
  <2> SUFFICES ASSUME GemmInv, last.way = "gemv"
               PROVE  /\ Partitioned(p.m, [pid \in 0 .. Blocks(p.m, 32) - 1 |-> GemvTile(p, pid)])
                      /\ Partitioned(p.k, [k0 \in 0 .. Blocks(p.k, 128) - 1 |-> GemvTrip(p, k0)])
    BY DEF GemvWhole
  <2>1. p.m \in Nat /\ p.k \in Nat
    BY RocmGemmAssumption DEF GemmInv, NoCall
  <2>2. QED
    BY <2>1, BlocksPartition DEF GemvTile, GemvTrip
<1>2. QED
  BY <1>1, GemmInvariant, PTL

-----------------------------------------------------------------------------
(* The sweeps: the jobs.                                                   *)

LEMMA SplitIndex ==
  ASSUME NEW n \in Nat, NEW m \in Nat \ {0}, NEW k \in 0 .. n * m - 1
  PROVE  k \div m \in 0 .. n - 1 /\ k % m \in 0 .. m - 1
<1> DEFINE q == k \div m
           r == k % m
<1>1. k = m * q + r /\ q \in Int /\ r \in 0 .. m - 1
  BY DivMod
<1>2. k \in Nat /\ k < n * m
  BY n * m \in Int
<1> HIDE DEF q, r
<1>3. q >= 0
  <2>1. ASSUME q <= -1 PROVE m * q <= -m
    BY <1>1, <2>1
  <2> QED BY <2>1, <1>1, <1>2
<1>4. q <= n - 1
  <2>1. ASSUME q >= n PROVE m * q >= n * m
    BY <1>1, <2>1
  <2> QED BY <2>1, <1>1, <1>2
<1> QED BY <1>1, <1>3, <1>4 DEF q, r

\* Every job has a shape of the census and, of its script, a number of rows.
LEMMA JobFacts ==
  ASSUME script \in {"m128", "m16", "sk2"}
  PROVE  /\ JobCount \in Nat \ {0}
         /\ \A j \in 1 .. JobCount :
              /\ JobShape(j) \in DOMAIN Counts /\ JobK(j) \in Nat \ {0}
              /\ \E i \in DOMAIN RowsOf(script) : JobRows(j) = RowsOf(script)[i]
<1> DEFINE R == RowsOf(script)
           n == Len(SweptShapes)
           m == Len(R)
<1>1. SweptShapes \in Seq(DOMAIN Counts) /\ n \in Nat \ {0}
  BY ConfigSweepAssumption
<1>2. R \in Seq(Nat) /\ m \in Nat \ {0}
  <2>1. DOMAIN RowsM16 = {8, 16, 32}
    BY DEF RowsM16
  <2>2. SweptRows \in Seq(Nat) /\ Len(SweptRows) \in Nat \ {0}
    BY <2>1, ConfigSweepAssumption
  <2> QED BY <2>2 DEF RowsOf
<1>3. JobCount = n * m
  BY DEF JobCount
<1>4. n * m \in Nat \ {0}
  BY <1>1, <1>2
<1> HIDE DEF R, n, m
<1>5. ASSUME NEW j \in 1 .. JobCount
      PROVE  /\ JobShape(j) \in DOMAIN Counts /\ JobK(j) \in Nat \ {0}
             /\ \E i \in DOMAIN R : JobRows(j) = R[i]
  <2>1. j - 1 \in 0 .. n * m - 1
    BY <1>3, <1>4, <1>5
  <2>2. (j - 1) \div m \in 0 .. n - 1 /\ (j - 1) % m \in 0 .. m - 1
    BY <2>1, <1>1, <1>2, SplitIndex
  <2>3. JobShape(j) \in DOMAIN Counts
    <3>1. (j - 1) \div m + 1 \in 1 .. n
      BY <2>2, <1>1
    <3>2. SweptShapes[(j - 1) \div m + 1] \in DOMAIN Counts
      BY <3>1, <1>1 DEF n
    <3> QED BY <3>2 DEF JobShape, m, R
  <2>4. JobK(j) \in Nat \ {0}
    BY <2>3 DEF JobK, Counts
  <2>5. ((j - 1) % m) + 1 \in DOMAIN R
    <3>1. ((j - 1) % m) + 1 \in 1 .. m
      BY <2>2, <1>2
    <3> QED BY <3>1, <1>2 DEF m
  <2>6. JobRows(j) = R[((j - 1) % m) + 1]
    BY DEF JobRows, R, m
  <2> QED BY <2>3, <2>4, <2>5, <2>6
<1> QED BY <1>3, <1>4, <1>5 DEF R

LEMMA CountsNat ==
  ASSUME NEW s \in DOMAIN Counts
  PROVE  Counts[s] \in Nat
BY DEF Counts

LEMMA RowsAreTotalled ==
  ASSUME script \in {"m128", "m16", "sk2"}, NEW i \in DOMAIN RowsOf(script)
  PROVE  /\ RowsOf(script)[i] \in {8, 16, 32, 128, 1}
         /\ script = "sk2" => RowsOf(script)[i] = 1
<1>1. DOMAIN RowsM16 = {8, 16, 32}
  BY DEF RowsM16
<1>2. CASE script = "m16"
  <2>1. SweptRows \in Seq({8, 16, 32})
    BY <1>1, ConfigSweepAssumption
  <2> QED BY <1>2, <2>1 DEF RowsOf
<1>3. CASE script # "m16"
  BY <1>3 DEF RowsOf
<1> QED BY <1>2, <1>3

\* The jobs, and what is tried on them, are given with the script and the groups.
LEMMA SameJobs ==
  ASSUME script \in {"m128", "m16", "sk2"}, UNCHANGED <<script, group>>
  PROVE  /\ JobCount' = JobCount /\ RowsOf(script)' = RowsOf(script)
         /\ \A j : JobShape(j)' = JobShape(j) /\ JobRows(j)' = JobRows(j)
         /\ \A r : JobsOf(r)' = JobsOf(r)
         /\ \A j : Candidates(script, j)' = Candidates(script, j)
         /\ \A c, j : Right(c, j)' <=> Right(c, j)
<1>1. JobCount' = JobCount /\ RowsOf(script)' = RowsOf(script)
  BY DEF JobCount, RowsOf
<1>2. ASSUME NEW j PROVE JobShape(j)' = JobShape(j) /\ JobRows(j)' = JobRows(j)
  BY <1>1 DEF JobShape, JobRows, RowsOf
<1>3. ASSUME NEW r PROVE JobsOf(r)' = JobsOf(r)
  BY <1>1, <1>2 DEF JobsOf
<1>4. ASSUME NEW j PROVE Candidates(script, j)' = Candidates(script, j)
  <2>1. JobK(j)' = JobK(j)
    BY <1>2 DEF JobK
  <2>2. ASSUME NEW c
        PROVE  /\ TriedM128(c, JobK(j))' <=> TriedM128(c, JobK(j))
               /\ TriedM16(c, JobRows(j), JobK(j))' <=> TriedM16(c, JobRows(j), JobK(j))
               /\ TriedSk2(c, JobK(j), group)' <=> TriedSk2(c, JobK(j), group)
    BY <1>2, <2>1 DEF TriedM128, TriedM16, GridM16, TriedSk2
  <2>3. CASE script = "m128"
    BY <2>2, <2>3 DEF Candidates
  <2>4. CASE script = "m16"
    BY <2>2, <2>4 DEF Candidates
  <2>5. CASE script = "sk2"
    BY <2>2, <2>5 DEF Candidates
  <2> QED BY <2>3, <2>4, <2>5
<1>5. ASSUME NEW c, NEW j PROVE Right(c, j)' <=> Right(c, j)
  BY <1>2 DEF Right, JobK
<1> QED BY <1>1, <1>2, <1>3, <1>4, <1>5

-----------------------------------------------------------------------------
(* The sweeps: the invariant.                                              *)

LEMMA SummedFacts ==
  ASSUME SweepType, NEW r
  PROVE  /\ IsFiniteSet(Summed(r))
         /\ \A j \in Summed(r) : j \in DOMAIN WinnerTimes /\ WinnerTimes[j] \in Nat
<1>1. script \in {"m128", "m16", "sk2"} /\ DOMAIN results \subseteq 1 .. JobCount
  BY DEF SweepType
<1>2. JobCount \in Nat
  BY <1>1, JobFacts
<1>3. IsFiniteSet(1 .. JobCount)
  BY <1>2, FS_Interval
<1>4. Summed(r) \subseteq DOMAIN results /\ DOMAIN WinnerTimes = DOMAIN results
  BY DEF Summed, WinnerTimes
<1>5. IsFiniteSet(Summed(r))
  BY <1>1, <1>3, <1>4, FS_Subset
<1>6. ASSUME NEW j \in DOMAIN results PROVE WinnerTimes[j] \in Nat
  <2>1. results[j].us \in Nat
    BY DEF SweepType
  <2>2. JobShape(j) \in DOMAIN Counts
    BY <1>1, JobFacts
  <2>3. Counts[JobShape(j)] \in Nat
    BY <2>2, CountsNat
  <2>4. WinnerTimes[j] = results[j].us * Counts[JobShape(j)]
    BY DEF WinnerTimes
  <2> QED BY <2>1, <2>3, <2>4
<1> QED BY <1>4, <1>5, <1>6

\* A step that keeps the winners keeps their sums.
LEMMA SumsKept ==
  ASSUME SweepType, UNCHANGED <<script, group>>, NEW r,
         \A j \in DOMAIN results : j \in DOMAIN results' /\ results'[j] = results[j]
  PROVE  SumFunctionOnSet(WinnerTimes', Summed(r)) = SumFunctionOnSet(WinnerTimes, Summed(r))
<1>1. \A j : JobShape(j)' = JobShape(j)
  BY SameJobs DEF SweepType
<1>2. Summed(r) \subseteq DOMAIN results
  BY DEF Summed
<1>3. ASSUME NEW j \in Summed(r) PROVE WinnerTimes'[j] = WinnerTimes[j]
  BY <1>1, <1>2 DEF WinnerTimes
<1>4. IsFiniteSet(Summed(r)) /\ \A j \in Summed(r) : WinnerTimes[j] \in Int
  BY SummedFacts
<1> DEFINE f == WinnerTimes
           g == WinnerTimes'
           S == Summed(r)
<1>5. IsFiniteSet(S) /\ \A j \in S : f[j] \in Int /\ g[j] = f[j]
  BY <1>3, <1>4
<1> HIDE DEF f, g, S
<1>6. SumFunctionOnSet(g, S) = SumFunctionOnSet(f, S)
  BY <1>5, SumEqual
<1> QED BY <1>6 DEF f, g, S

\* ... and one that takes up a job adds its time.
LEMMA SumGrows ==
  ASSUME SweepType, NEW r, NEW j \in DOMAIN results, j \notin Summed(r)
  PROVE  SumFunctionOnSet(WinnerTimes, Summed(r) \cup {j})
           = SumFunctionOnSet(WinnerTimes, Summed(r)) + results[j].us * Counts[JobShape(j)]
<1> DEFINE f == WinnerTimes
           S == Summed(r)
<1>1. f[j] = results[j].us * Counts[JobShape(j)]
  BY DEF WinnerTimes
<1>2. f[j] \in Int
  <2>1. results[j].us \in Nat /\ JobShape(j) \in DOMAIN Counts
    BY JobFacts DEF SweepType
  <2>2. Counts[JobShape(j)] \in Nat
    BY <2>1, CountsNat
  <2> QED BY <1>1, <2>1, <2>2
<1>3. IsFiniteSet(S) /\ \A x \in S \cup {j} : f[x] \in Int
  BY <1>2, SummedFacts
<1>4. j \notin S
  OBVIOUS
<1> HIDE DEF f, S
<1>5. SumFunctionOnSet(f, S \cup {j}) = SumFunctionOnSet(f, S) + f[j]
  BY <1>3, <1>4, SumAdd
<1> QED BY <1>1, <1>5 DEF f, S

\* While no job is taken up the totals stay right.
LEMMA TotalsKept ==
  ASSUME SweepType, TotalInv, stage # "failed", UNCHANGED <<script, group, total>>,
         \A j \in DOMAIN results : j \in DOMAIN results' /\ results'[j] = results[j],
         \A r : Summed(r)' = Summed(r)
  PROVE  TotalInv'
<1>1. RowsOf(script)' = RowsOf(script)
  BY SameJobs DEF SweepType
<1>2. ASSUME NEW r
      PROVE  SumFunctionOnSet(WinnerTimes, Summed(r))' = SumFunctionOnSet(WinnerTimes, Summed(r))
  BY SumsKept
<1> QED BY <1>1, <1>2 DEF TotalInv

LEMMA SweepBegins == SweepInit => SweepInv
<1> SUFFICES ASSUME SweepInit PROVE SweepInv
  OBVIOUS
<1> USE DEF SweepInit
<1>1. script \in {"m128", "m16", "sk2"} /\ DOMAIN results = {}
  OBVIOUS
<1>2. JobCount \in Nat \ {0}
  BY <1>1, JobFacts
<1>3. SweepType
  BY <1>1, <1>2 DEF SweepType, NaN
<1>4. TrialInv
  BY DEF TrialInv
<1>5. RecordInv
  BY <1>1, <1>2 DEF RecordInv
<1>6. TotalInv
  <2>1. ASSUME NEW i \in DOMAIN RowsOf(script)
        PROVE  LET r == RowsOf(script)[i] IN total[r] = SumFunctionOnSet(WinnerTimes, Summed(r))
    <3> DEFINE r == RowsOf(script)[i]
    <3>1. r \in {8, 16, 32, 128, 1}
      BY <1>1, RowsAreTotalled
    <3>2. Summed(r) = {}
      BY <1>1 DEF Summed
    <3>3. SumFunctionOnSet(WinnerTimes, {}) = 0
      BY FS_EmptySet, SumPick
    <3> QED BY <3>1, <3>2, <3>3
  <2> QED BY <2>1 DEF TotalInv
<1> QED BY <1>3, <1>4, <1>5, <1>6 DEF SweepInv

\* What is in a grid is a candidate with a tile, and not NoBest.
LEMMA SweepTry ==
  ASSUME SweepInv, NEW c \in left, Try(c)
  PROVE  SweepInv'
<1> USE DEF Try
<1>1. UNCHANGED <<script, group, job, results, total, stage>> /\ stage = "sweeping"
  OBVIOUS
<1>t. SweepType /\ TrialInv /\ RecordInv /\ TotalInv
  BY DEF SweepInv
<1>2. /\ JobCount' = JobCount /\ Candidates(script, job)' = Candidates(script, job)
      /\ \A d : Eligible(d)' <=> Eligible(d)
      /\ \A r : JobsOf(r)' = JobsOf(r)
  BY <1>1, <1>t, SameJobs DEF SweepType, Eligible
<1>3. SweepType'
  BY <1>1, <1>2, <1>t DEF SweepType
<1>4. TrialInv'
  <2>0. left' \subseteq Candidates(script, job) /\ c \in Candidates(script, job)
    BY <1>1, <1>t DEF TrialInv
  <2>1. CASE ~ Eligible(c)
    BY <1>1, <1>2, <1>t, <2>0, <2>1 DEF TrialInv
  <2>2. CASE Eligible(c)
    <3>1. PICK us \in Times :
            /\ best' = Better(c, us)
            /\ timed' = timed \cup {[cfg |-> c, us |-> us]}
            /\ live' = IF script = "sk2" /\ c = LiveConfig THEN us ELSE live
      BY <2>2
    <3>2. us \in Nat \ {0} /\ \A t \in timed : t.us \in Nat \ {0}
      BY <1>1, <1>t, ConfigSweepAssumption DEF TrialInv
    <3> DEFINE new == [cfg |-> c, us |-> us]
    <3>3. new \in [cfg : Candidates(script, job), us : Times] /\ new.us = us /\ new.cfg = c
      BY <2>0
    <3>4. NoBest.us = 0
      BY DEF NoBest
    <3>5. CASE best = NoBest
      <4>1. timed = {}
        BY <1>1, <1>t, <3>2, <3>4, <3>5 DEF TrialInv
      <4>2. best' = new /\ timed' = {new}
        BY <3>1, <3>5, <4>1 DEF Better
      <4>3. live' # 0 => script = "sk2" /\ [cfg |-> LiveConfig, us |-> live'] = new
        BY <1>1, <1>t, <3>1, <4>1 DEF TrialInv
      <4> HIDE DEF new
      <4> QED BY <1>1, <1>2, <2>0, <2>2, <3>2, <3>3, <4>2, <4>3 DEF TrialInv
    <3>6. CASE best # NoBest
      <4>1. best \in timed /\ \A t \in timed : best.us <= t.us
        BY <1>1, <1>t, <3>6 DEF TrialInv
      <4>2. /\ timed' = timed \cup {new}
            /\ best' = IF us < best.us THEN new ELSE best
        BY <3>1, <3>6 DEF Better
      <4>3. live' # 0 => script = "sk2" /\ [cfg |-> LiveConfig, us |-> live'] \in timed'
        BY <1>1, <1>t, <3>1 DEF TrialInv
      <4>4. timed \subseteq [cfg : Candidates(script, job), us : Times]
        BY <1>1, <1>t DEF TrialInv
      <4>5. \A t \in timed : Eligible(t.cfg)
        BY <1>1, <1>t DEF TrialInv
      <4> HIDE DEF new
      <4>6. best' \in timed' /\ \A t \in timed' : best'.us <= t.us
        BY <3>2, <3>3, <4>1, <4>2
      <4> QED BY <1>1, <1>2, <2>0, <2>2, <3>3, <4>2, <4>3, <4>4, <4>5, <4>6 DEF TrialInv
    <3> QED BY <3>5, <3>6
  <2> QED BY <2>1, <2>2
<1>5. RecordInv'
  BY <1>1, <1>t DEF RecordInv
<1>6. TotalInv'
  <2>1. \A r : Summed(r)' = Summed(r)
    BY <1>1, <1>2 DEF Summed, Added
  <2> QED BY <1>1, <1>t, <2>1, TotalsKept
<1> QED BY <1>3, <1>4, <1>5, <1>6 DEF SweepInv

LEMMA SweepRefuse ==
  ASSUME SweepInv, NEW c \in left, Refuse(c)
  PROVE  SweepInv'
<1> USE DEF Refuse
<1>1. UNCHANGED <<script, group, job, best, timed, live, results, total>> /\ stage = "sweeping"
  OBVIOUS
<1>t. SweepType /\ TrialInv /\ RecordInv /\ TotalInv
  BY DEF SweepInv
<1>2. /\ JobCount' = JobCount /\ Candidates(script, job)' = Candidates(script, job)
      /\ \A d : Eligible(d)' <=> Eligible(d)
      /\ \A r : JobsOf(r)' = JobsOf(r)
  BY <1>1, <1>t, SameJobs DEF SweepType, Eligible
<1>0. stage' \in {"sweeping", "failed"}
  BY <1>1
<1>3. SweepType'
  BY <1>0, <1>1, <1>2, <1>t DEF SweepType
<1>4. TrialInv'
  BY <1>0, <1>1, <1>2, <1>t DEF TrialInv
<1>5. RecordInv'
  BY <1>0, <1>1, <1>t DEF RecordInv
<1>6. TotalInv'
  <2>1. CASE stage' = "failed"
    BY <2>1 DEF TotalInv
  <2>2. CASE stage' = stage
    <3>1. \A r : Summed(r)' = Summed(r)
      BY <1>1, <1>2, <2>2 DEF Summed, Added
    <3> QED BY <1>1, <1>t, <3>1, TotalsKept
  <2> QED BY <1>0, <1>1, <2>1, <2>2
<1> QED BY <1>3, <1>4, <1>5, <1>6 DEF SweepInv

LEMMA SweepRecordWinner ==
  ASSUME SweepInv, Record, ~ (script = "m16" /\ best = NoBest)
  PROVE  SweepInv'
<1> USE DEF Record
<1>1. UNCHANGED <<script, group, job, left, best, timed, live, total>> /\ stage = "sweeping" /\ left = {}
  OBVIOUS
<1>t. SweepType /\ TrialInv /\ RecordInv /\ TotalInv
  BY DEF SweepInv
<1>2. /\ JobCount' = JobCount /\ Candidates(script, job)' = Candidates(script, job)
      /\ \A d : Eligible(d)' <=> Eligible(d)
      /\ \A r : JobsOf(r)' = JobsOf(r)
      /\ Right(best.cfg, job)' <=> Right(best.cfg, job)
  BY <1>1, <1>t, SameJobs DEF SweepType, Eligible
<1>0. stage' = IF script = "sk2" THEN "projecting" ELSE "recorded"
  OBVIOUS
<1>w. Winner' = Winner
  BY <1>1, <1>2 DEF Winner
<1>d. job \in 1 .. JobCount /\ DOMAIN results \subseteq 1 .. job - 1 /\ JobCount \in Nat
  BY <1>1, <1>t, JobFacts DEF SweepType, RecordInv
<1>r. /\ DOMAIN results' \subseteq 1 .. job
      /\ job \in DOMAIN results' <=> best # NoBest
      /\ job \in DOMAIN results' => results'[job] = Winner
      /\ \A j \in DOMAIN results : j \in DOMAIN results' /\ results'[j] = results[j]
      /\ \A j \in DOMAIN results' : j # job => j \in DOMAIN results
  BY <1>d
<1> HIDE DEF Record
<1>u. best # NoBest => Winner.us \in Nat
  <2>1. ASSUME best # NoBest PROVE best.us \in Times
    BY <1>1, <1>t, <2>1 DEF TrialInv
  <2> QED BY <2>1, ConfigSweepAssumption DEF Winner
<1>3. SweepType'
  <2>1. \A j \in DOMAIN results' : results'[j].us \in Nat
    BY <1>r, <1>u, <1>t DEF SweepType
  <2>2. DOMAIN results' \subseteq 1 .. JobCount
    BY <1>r, <1>d
  <2>3. stage' = "projecting" => script = "sk2"
    BY <1>0
  <2>4. stage' \in {"projecting", "recorded"}
    BY <1>0
  <2> QED BY <1>1, <1>2, <1>t, <2>1, <2>2, <2>3, <2>4 DEF SweepType
<1>4. TrialInv'
  BY <1>0, <1>1, <1>2, <1>t DEF TrialInv
<1>5. RecordInv'
  BY <1>0, <1>1, <1>w, <1>r DEF RecordInv
<1>6. TotalInv'
  <2>1. \A r : Summed(r)' = Summed(r)
    <3>1. Added' = Added /\ job \notin Added
      BY <1>0, <1>1, <1>d DEF Added
    <3> QED BY <1>2, <1>r, <3>1 DEF Summed
  <2> QED BY <1>1, <1>r, <1>t, <2>1, TotalsKept
<1> QED BY <1>3, <1>4, <1>5, <1>6 DEF SweepInv

LEMMA SweepRecord ==
  ASSUME SweepInv, Record
  PROVE  SweepInv'
<1>1. CASE script = "m16" /\ best = NoBest
  <2> USE DEF Record
  <2>1. /\ UNCHANGED <<script, group, job, left, best, timed, live, results, total>>
        /\ stage' = "failed"
    BY <1>1
  <2>2. JobCount' = JobCount
    BY <2>1, SameJobs DEF SweepInv, SweepType
  <2> QED BY <2>1, <2>2 DEF SweepInv, SweepType, TrialInv, RecordInv, TotalInv
<1>2. CASE ~ (script = "m16" /\ best = NoBest)
  BY <1>2, SweepRecordWinner
<1> QED BY <1>1, <1>2

LEMMA SweepStockFails ==
  ASSUME SweepInv, StockFails
  PROVE  SweepInv'
<1> USE DEF StockFails
<1>1. UNCHANGED <<script, group, job, left, best, timed, live, results, total>> /\ stage' = "failed"
  OBVIOUS
<1>2. JobCount' = JobCount
  BY <1>1, SameJobs DEF SweepInv, SweepType
<1> QED BY <1>1, <1>2 DEF SweepInv, SweepType, TrialInv, RecordInv, TotalInv

\* The projection adds the winner and the live configuration, or neither.
LEMMA SweepProject ==
  ASSUME SweepInv, Project
  PROVE  SweepInv'
<1> USE DEF Project
<1>1. /\ UNCHANGED <<script, group, job, left, best, timed, live, results>>
      /\ stage = "projecting" /\ stage' = "recorded"
  OBVIOUS
<1>t. SweepType /\ TrialInv /\ RecordInv /\ TotalInv
  BY DEF SweepInv
<1>s. script = "sk2"
  BY <1>1, <1>t DEF SweepType
<1>2. /\ JobCount' = JobCount /\ Candidates(script, job)' = Candidates(script, job)
      /\ \A d : Eligible(d)' <=> Eligible(d)
      /\ \A r : JobsOf(r)' = JobsOf(r)
      /\ Right(best.cfg, job)' <=> Right(best.cfg, job)
      /\ RowsOf(script)' = RowsOf(script)
      /\ JobShape(job)' = JobShape(job)
  BY <1>1, <1>t, SameJobs DEF SweepType, Eligible
<1>w. Winner' = Winner
  BY <1>1, <1>2 DEF Winner
<1>d. job \in 1 .. JobCount /\ DOMAIN results \subseteq 1 .. job /\ JobCount \in Nat
  BY <1>1, <1>t, JobFacts DEF SweepType, RecordInv
<1> DEFINE n == Counts[JobShape(job)]
<1>n. n \in Nat
  <2>1. JobShape(job) \in DOMAIN Counts
    BY <1>d, <1>t, JobFacts DEF SweepType
  <2> QED BY <2>1, CountsNat
<1>v. /\ RowsOf(script) = <<1>> /\ DOMAIN RowsOf(script) = {1}
      /\ JobRows(job) = 1
  <2>1. RowsOf(script) = <<1>>
    BY <1>s DEF RowsOf
  <2>2. (job - 1) % 1 = 0
    BY <1>d
  <2> QED BY <2>1, <2>2 DEF JobRows
<1>y. total[1] \in Nat \cup {NaN} /\ total[0] \in Nat \cup {NaN} /\ DOMAIN total = {8, 16, 32, 128, 1, 0}
  BY <1>t DEF SweepType
<1>b. ASSUME best # NoBest
      PROVE  /\ BestTime \in Nat \cup {NaN} /\ LiveTime \in Nat \cup {NaN}
             /\ BestTime = NaN <=> LiveTime = NaN
             /\ BestTime <= LiveTime
             /\ BestTime # NaN => BestTime = best.us * n
  <2>1. best \in timed /\ best.us \in Nat
    <3>1. best \in timed /\ best.us \in Times
      BY <1>1, <1>t, <1>b DEF TrialInv
    <3> QED BY <3>1, ConfigSweepAssumption
  <2>2. CASE live = 0
    BY <2>2, <1>n DEF BestTime, LiveTime, NaN
  <2>3. CASE live # 0
    <3>1. live \in Nat /\ best.us <= live
      <4>1. [cfg |-> LiveConfig, us |-> live] \in timed
        BY <1>1, <1>t, <2>3 DEF TrialInv
      <4>2. best.us <= live /\ live \in Times
        BY <4>1, <1>1, <1>t DEF TrialInv
      <4> QED BY <4>2, ConfigSweepAssumption
    <3>2. BestTime = best.us * n /\ LiveTime = live * n
      BY <2>3 DEF BestTime, LiveTime
    <3> HIDE DEF n
    <3>3. best.us * n \in Nat /\ live * n \in Nat /\ best.us * n <= live * n
      <4> DEFINE d == live - best.us
      <4>1. d \in Nat /\ live = best.us + d
        BY <2>1, <3>1
      <4> HIDE DEF d
      <4>2. d * n \in Nat /\ best.us * n \in Nat /\ live * n = best.us * n + d * n
        BY <2>1, <1>n, <4>1
      <4> QED BY <4>2
    <3> QED BY <3>2, <3>3 DEF NaN
  <2> QED BY <2>2, <2>3
<1>x. /\ best = NoBest => total' = total
      /\ best # NoBest =>
           total' = [total EXCEPT ![1] = Plus(total[1], BestTime), ![0] = Plus(total[0], LiveTime)]
  OBVIOUS
<1> HIDE DEF Project
<1>z. ASSUME best # NoBest
      PROVE  /\ total'[1] = Plus(total[1], BestTime) /\ total'[0] = Plus(total[0], LiveTime)
             /\ total' \in [{8, 16, 32, 128, 1, 0} -> Nat \cup {NaN}]
  <2>1. Plus(total[1], BestTime) \in Nat \cup {NaN} /\ Plus(total[0], LiveTime) \in Nat \cup {NaN}
    BY <1>b, <1>y, <1>z DEF Plus, NaN
  <2> QED BY <2>1, <1>x, <1>y, <1>z, <1>t DEF SweepType
<1>3. SweepType'
  BY <1>1, <1>2, <1>s, <1>t, <1>x, <1>z DEF SweepType
<1>4. TrialInv'
  BY <1>1, <1>2, <1>t DEF TrialInv
<1>5. RecordInv'
  BY <1>1, <1>w, <1>t DEF RecordInv
<1>6. TotalInv'
  <2>1. ASSUME NEW r
        PROVE  SumFunctionOnSet(WinnerTimes, Summed(r))' = SumFunctionOnSet(WinnerTimes', Summed(r)')
    OBVIOUS
  <2>2. WinnerTimes' = WinnerTimes
    <3>1. \A j : JobShape(j)' = JobShape(j)
      BY <1>1, <1>t, SameJobs DEF SweepType
    <3> QED BY <1>1, <3>1 DEF WinnerTimes
  <2>3. Added = 1 .. job - 1 /\ Added' = 1 .. job
    BY <1>1, <1>s DEF Added
  <2>4. total[1] # NaN => total[1] = SumFunctionOnSet(WinnerTimes, Summed(1))
    BY <1>1, <1>t, <1>v DEF TotalInv
  <2>5. total[1] = NaN <=> total[0] = NaN
    BY <1>1, <1>s, <1>t DEF TotalInv
  <2>6. total[1] <= total[0]
    BY <1>1, <1>s, <1>t DEF TotalInv
  <2>7. job \in DOMAIN results <=> best # NoBest
    BY <1>1, <1>t DEF RecordInv
  <2>8. CASE best = NoBest
    <3>1. Summed(1)' = Summed(1)
      BY <1>1, <1>2, <1>d, <2>3, <2>7, <2>8 DEF Summed
    <3> QED BY <1>1, <1>2, <1>v, <1>x, <2>1, <2>2, <2>4, <2>5, <2>6, <2>8, <3>1 DEF TotalInv
  <2>9. CASE best # NoBest
    <3>1. Summed(1)' = Summed(1) \cup {job} /\ job \notin Summed(1)
      <4>1. job \in JobsOf(1)
        BY <1>d, <1>v DEF JobsOf
      <4> QED BY <1>1, <1>2, <1>d, <2>3, <2>7, <2>9, <4>1 DEF Summed
    <3>2. results[job].us = best.us
      BY <1>1, <1>t, <2>7, <2>9 DEF RecordInv, Winner
    <3>3. SumFunctionOnSet(WinnerTimes, Summed(1) \cup {job})
            = SumFunctionOnSet(WinnerTimes, Summed(1)) + best.us * n
      BY <1>t, <2>7, <2>9, <3>1, <3>2, SumGrows
    <3>4. total'[1] # NaN => total[1] # NaN /\ BestTime # NaN /\ total'[1] = total[1] + best.us * n
      BY <1>b, <1>z, <2>9 DEF Plus
    <3>5. total'[1] # NaN => total'[1] = SumFunctionOnSet(WinnerTimes, Summed(1))'
      BY <2>1, <2>2, <2>4, <3>1, <3>3, <3>4
    <3> HIDE DEF n
    <3>6. total'[1] = NaN <=> total'[0] = NaN
      BY <1>b, <1>y, <1>z, <2>5, <2>9 DEF Plus, NaN
    <3>7. total'[1] <= total'[0]
      BY <1>b, <1>y, <1>z, <2>5, <2>6, <2>9 DEF Plus, NaN
    <3>8. DOMAIN RowsOf(script)' = {1} /\ RowsOf(script)'[1] = 1
      BY <1>2, <1>v
    <3> QED BY <3>5, <3>6, <3>7, <3>8 DEF TotalInv
  <2> QED BY <2>8, <2>9
<1> QED BY <1>3, <1>4, <1>5, <1>6 DEF SweepInv

LEMMA SweepNextJob ==
  ASSUME SweepInv, NextJob
  PROVE  SweepInv'
<1> USE DEF NextJob
<1>1. UNCHANGED <<script, group, results, total>> /\ stage = "recorded"
  OBVIOUS
<1>t. SweepType /\ TrialInv /\ RecordInv /\ TotalInv
  BY DEF SweepInv
<1>2. /\ JobCount' = JobCount
      /\ \A j : Candidates(script, j)' = Candidates(script, j)
      /\ \A r : JobsOf(r)' = JobsOf(r)
  BY <1>1, <1>t, SameJobs DEF SweepType
<1>d. job \in 1 .. JobCount /\ DOMAIN results \subseteq 1 .. job /\ JobCount \in Nat
  BY <1>1, <1>t, JobFacts DEF SweepType, RecordInv
<1>3. CASE job < JobCount
  <2>1. /\ job' = job + 1 /\ left' = Candidates(script, job + 1) /\ stage' = "sweeping"
        /\ timed' = {} /\ live' = 0 /\ best' = NoBest
    BY <1>3
  <2>2. job' \in 1 .. JobCount
    BY <1>3, <1>d, <2>1
  <2>3. SweepType'
    BY <1>1, <1>2, <1>t, <2>1, <2>2 DEF SweepType
  <2>4. TrialInv'
    <3>1. Candidates(script, job)' = Candidates(script, job + 1)
      BY <1>1, <1>2, <2>1
    <3> QED BY <2>1, <3>1 DEF TrialInv
  <2>5. RecordInv'
    <3>1. job' - 1 = job
      BY <1>d, <2>1
    <3> QED BY <1>1, <1>d, <2>1, <3>1 DEF RecordInv
  <2>6. TotalInv'
    <3>1. Added' = Added
      <4>1. job' - 1 = job
        BY <1>d, <2>1
      <4> QED BY <1>1, <2>1, <4>1 DEF Added
    <3>2. \A r : Summed(r)' = Summed(r)
      BY <1>1, <1>2, <3>1 DEF Summed
    <3> QED BY <1>1, <1>t, <3>2, TotalsKept
  <2> QED BY <2>3, <2>4, <2>5, <2>6 DEF SweepInv
<1>4. CASE ~ job < JobCount
  <2>1. /\ job' = 1 /\ stage' = (IF script = "sk2" THEN "done" ELSE "adding")
        /\ UNCHANGED <<left, best, timed, live>>
    BY <1>4
  <2>2. job = JobCount
    BY <1>4, <1>d
  <2>3. SweepType'
    <3>1. job' \in 1 .. JobCount
      BY <1>d, <2>1
    <3> QED BY <1>1, <1>2, <1>t, <2>1, <3>1 DEF SweepType
  <2>4. TrialInv'
    BY <2>1 DEF TrialInv
  <2>5. RecordInv'
    BY <1>1, <2>1 DEF RecordInv
  <2>6. TotalInv'
    <3>1. Added' = Added
      BY <1>1, <1>2, <2>1, <2>2 DEF Added
    <3>2. \A r : Summed(r)' = Summed(r)
      BY <1>1, <1>2, <3>1 DEF Summed
    <3> QED BY <1>1, <1>t, <3>2, TotalsKept
  <2> QED BY <2>3, <2>4, <2>5, <2>6 DEF SweepInv
<1> QED BY <1>3, <1>4

LEMMA SweepAdd ==
  ASSUME SweepInv, Add
  PROVE  SweepInv'
<1> USE DEF Add
<1>1. UNCHANGED <<script, group, left, best, timed, live, results>> /\ stage = "adding"
  OBVIOUS
<1>t. SweepType /\ TrialInv /\ RecordInv /\ TotalInv
  BY DEF SweepInv
<1>2. /\ JobCount' = JobCount /\ RowsOf(script)' = RowsOf(script)
      /\ \A r : JobsOf(r)' = JobsOf(r)
      /\ \A j : JobShape(j)' = JobShape(j)
  BY <1>1, <1>t, SameJobs DEF SweepType
<1>d. job \in 1 .. JobCount /\ JobCount \in Nat
  BY <1>t, JobFacts DEF SweepType
<1>s. script \in {"m128", "m16"}
  BY <1>1, <1>t DEF SweepType
<1>3. CASE job \notin DOMAIN results
  <2>1. stage' = "failed" /\ UNCHANGED <<total, job>>
    BY <1>3
  <2> QED BY <1>1, <1>2, <1>t, <2>1 DEF SweepInv, SweepType, TrialInv, RecordInv, TotalInv
<1>4. CASE job \in DOMAIN results
  <2> DEFINE us == results[job].us * Counts[JobShape(job)]
             row == JobRows(job)
  <2>1. /\ total' = [total EXCEPT ![row] = @ + us]
        /\ job' = IF job < JobCount THEN job + 1 ELSE job
        /\ stage' = IF job < JobCount THEN "adding" ELSE "done"
    BY <1>4
  <2>2. us \in Nat
    <3>1. results[job].us \in Nat /\ JobShape(job) \in DOMAIN Counts
      BY <1>4, <1>t, <1>d, JobFacts DEF SweepType
    <3>2. Counts[JobShape(job)] \in Nat
      BY <3>1, CountsNat
    <3> QED BY <3>1, <3>2
  <2>3. row \in {8, 16, 32, 128, 1}
    <3>1. \E i \in DOMAIN RowsOf(script) : row = RowsOf(script)[i]
      BY <1>d, <1>t, JobFacts DEF SweepType
    <3> QED BY <3>1, <1>s, RowsAreTotalled
  <2> HIDE DEF us, row
  <2>4. /\ total \in [{8, 16, 32, 128, 1, 0} -> Nat \cup {NaN}]
        /\ \A r \in {8, 16, 32, 128, 1, 0} : total[r] \in Nat
    BY <1>s, <1>t DEF SweepType
  <2>5. /\ total' \in [{8, 16, 32, 128, 1, 0} -> Nat \cup {NaN}]
        /\ \A r \in {8, 16, 32, 128, 1, 0} : total'[r] \in Nat
        /\ total'[row] = total[row] + us
        /\ \A r \in {8, 16, 32, 128, 1, 0} : r # row => total'[r] = total[r]
    BY <2>1, <2>2, <2>3, <2>4
  <2>6. SweepType'
    <3>1. job' \in 1 .. JobCount
      BY <1>d, <2>1
    <3>2. \A r \in DOMAIN total' : total'[r] # NaN
      BY <2>5 DEF NaN
    <3> QED BY <1>1, <1>2, <1>s, <1>t, <2>1, <2>5, <3>1, <3>2 DEF SweepType
  <2>7. TrialInv'
    BY <2>1 DEF TrialInv
  <2>8. RecordInv'
    <3>1. 1 .. job - 1 \subseteq DOMAIN results
      BY <1>1, <1>t DEF RecordInv
    <3>2. 1 .. job \subseteq DOMAIN results
      BY <1>4, <1>d, <3>1
    <3>3. CASE job < JobCount
      <4>1. job' - 1 = job /\ stage' = "adding"
        BY <1>d, <2>1, <3>3
      <4> QED BY <1>1, <3>2, <4>1 DEF RecordInv
    <3>4. CASE ~ job < JobCount
      <4>1. job = JobCount /\ stage' = "done"
        BY <1>d, <2>1, <3>4
      <4> QED BY <1>1, <1>2, <3>2, <4>1 DEF RecordInv
    <3> QED BY <3>3, <3>4
  <2>9. TotalInv'
    <3>1. Added = 1 .. job - 1 /\ Added' = 1 .. job
      <4>1. Added = 1 .. job - 1
        BY <1>1 DEF Added
      <4>2. CASE job < JobCount
        <5>1. job' - 1 = job /\ stage' = "adding"
          BY <1>d, <2>1, <4>2
        <5> QED BY <4>1, <5>1 DEF Added
      <4>3. CASE ~ job < JobCount
        <5>1. job = JobCount /\ stage' = "done"
          BY <1>d, <2>1, <4>3
        <5> QED BY <1>2, <4>1, <5>1 DEF Added
      <4> QED BY <4>2, <4>3
    <3>2. WinnerTimes' = WinnerTimes
      BY <1>1, <1>2 DEF WinnerTimes
    <3>3. ASSUME NEW r \in {8, 16, 32, 128, 1},
                 total[r] = SumFunctionOnSet(WinnerTimes, Summed(r))
          PROVE  total'[r] = SumFunctionOnSet(WinnerTimes', Summed(r)')
      <4>3. CASE r = row
        <5>1. Summed(r)' = Summed(r) \cup {job} /\ job \notin Summed(r)
          <6>1. job \in JobsOf(r)
            BY <1>d, <4>3 DEF JobsOf, row
          <6> QED BY <1>1, <1>2, <1>4, <1>d, <3>1, <6>1 DEF Summed
        <5>2. SumFunctionOnSet(WinnerTimes, Summed(r) \cup {job})
                = SumFunctionOnSet(WinnerTimes, Summed(r)) + us
          BY <1>4, <1>t, <5>1, SumGrows DEF us
        <5> QED BY <2>5, <3>2, <3>3, <4>3, <5>1, <5>2
      <4>4. CASE r # row
        <5>1. Summed(r)' = Summed(r)
          <6>1. job \notin JobsOf(r)
            BY <4>4 DEF JobsOf, row
          <6> QED BY <1>1, <1>2, <1>d, <3>1, <6>1 DEF Summed
        <5> QED BY <2>5, <3>2, <3>3, <4>4, <5>1
      <4> QED BY <4>3, <4>4
    <3>4. ASSUME NEW i \in DOMAIN RowsOf(script)
          PROVE  total'[RowsOf(script)[i]]
                   = SumFunctionOnSet(WinnerTimes, Summed(RowsOf(script)[i]))'
      <4> DEFINE r == RowsOf(script)[i]
      <4>1. r \in {8, 16, 32, 128, 1} /\ r' = r
        BY <1>2, <1>s, RowsAreTotalled
      <4>2. total[r] = SumFunctionOnSet(WinnerTimes, Summed(r))
        <5>1. total[r] # NaN
          BY <2>4, <4>1 DEF NaN
        <5> QED BY <5>1, <1>1, <1>t DEF TotalInv
      <4>3. total'[r] = SumFunctionOnSet(WinnerTimes', Summed(r)')
        BY <3>3, <4>1, <4>2
      <4> QED BY <4>1, <4>3
    <3> QED BY <1>1, <1>2, <1>s, <3>4 DEF TotalInv
  <2> QED BY <2>6, <2>7, <2>8, <2>9 DEF SweepInv
<1> QED BY <1>3, <1>4

\* From its first candidate to its last sum a sweep keeps to the invariant, for every
\* grid, clock, list of shapes and of numbers of rows, and group size.
THEOREM SweepInvariant == SweepSpec => []SweepInv
<1>1. SweepInv /\ [SweepNext]_sweepVars => SweepInv'
  <2> SUFFICES ASSUME SweepInv, [SweepNext]_sweepVars
               PROVE  SweepInv'
    OBVIOUS
  <2>1. ASSUME NEW c \in left, Try(c) PROVE SweepInv'
    BY <2>1, SweepTry
  <2>2. ASSUME NEW c \in left, Refuse(c) PROVE SweepInv'
    BY <2>2, SweepRefuse
  <2>3. CASE Record
    BY <2>3, SweepRecord
  <2>4. CASE StockFails
    BY <2>4, SweepStockFails
  <2>5. CASE Project
    BY <2>5, SweepProject
  <2>6. CASE NextJob
    BY <2>6, SweepNextJob
  <2>7. CASE Add
    BY <2>7, SweepAdd
  <2>8. CASE UNCHANGED sweepVars
    <3>1. UNCHANGED <<script, group, job, left, best, timed, live, results, total, stage>>
      BY <2>8 DEF sweepVars
    <3>t. SweepType /\ TrialInv /\ RecordInv /\ TotalInv
      BY DEF SweepInv
    <3>2. /\ JobCount' = JobCount /\ Candidates(script, job)' = Candidates(script, job)
          /\ \A d : Eligible(d)' <=> Eligible(d)
          /\ \A r : JobsOf(r)' = JobsOf(r)
          /\ Right(best.cfg, job)' <=> Right(best.cfg, job)
      BY <3>1, <3>t, SameJobs DEF SweepType, Eligible
    <3>3. SweepType' /\ TrialInv'
      BY <3>1, <3>2, <3>t DEF SweepType, TrialInv
    <3>4. RecordInv'
      BY <3>1, <3>2, <3>t DEF RecordInv, Winner
    <3>5. TotalInv'
      <4>1. CASE stage = "failed"
        BY <3>1, <4>1 DEF TotalInv
      <4>2. CASE stage # "failed"
        <5>1. \A r : Summed(r)' = Summed(r)
          BY <3>1, <3>2 DEF Summed, Added
        <5> QED BY <3>1, <3>t, <4>2, <5>1, TotalsKept
      <4> QED BY <4>1, <4>2
    <3> QED BY <3>3, <3>4, <3>5 DEF SweepInv
  <2> QED BY <2>1, <2>2, <2>3, <2>4, <2>5, <2>6, <2>7, <2>8 DEF SweepNext
<1> QED BY <1>1, SweepBegins, PTL DEF SweepSpec

\* A winner is one of the fastest that were timed in its own job, whatever was refused,
\* wrong or timed before (sweep_m16_r18.py:216-221, sweep_m128_r16.py:172-204,
\* probe_sk2.py:196-218).
THEOREM WinnerIsBestHolds == SweepSpec => []WinnerIsBest
<1>1. SweepInv => WinnerIsBest
  <2> SUFFICES ASSUME SweepInv, stage \in {"projecting", "recorded"}, job \in DOMAIN results
               PROVE  /\ [cfg |-> results[job].cfg, us |-> results[job].us] \in timed
                      /\ \A t \in timed : results[job].us <= t.us
    BY DEF WinnerIsBest
  <2>1. best # NoBest /\ results[job] = Winner
    BY DEF SweepInv, RecordInv
  <2>2. best \in timed /\ timed \subseteq [cfg : Candidates(script, job), us : Times]
    BY <2>1 DEF SweepInv, TrialInv
  <2>3. best = [cfg |-> best.cfg, us |-> best.us]
    BY <2>2
  <2>4. results[job].cfg = best.cfg /\ results[job].us = best.us
    BY <2>1 DEF Winner
  <2>5. \A t \in timed : best.us <= t.us
    BY DEF SweepInv, TrialInv
  <2> QED BY <2>2, <2>3, <2>4, <2>5
<1> QED BY <1>1, SweepInvariant, PTL

\* A winner that is not marked multiplies each row of the weights with the scales of
\* its own group.  The sweep that times before it compares marks none on the deployed
\* model: every tile of its grid fits groups of 128 rows (sweep_m16_r18.py:222-232).
THEOREM WinnerIsExactHolds == SweepSpec => []WinnerIsExact
<1>1. SweepInv => WinnerIsExact
  <2> SUFFICES ASSUME SweepInv, stage \in {"projecting", "recorded"}, job \in DOMAIN results
               PROVE  /\ results[job].ok => Right(results[job].cfg, job)
                      /\ group = 128 => results[job].ok
    BY DEF WinnerIsExact
  <2>1. best # NoBest /\ results[job] = Winner
    BY DEF SweepInv, RecordInv
  <2>2. best \in timed /\ timed \subseteq [cfg : Candidates(script, job), us : Times]
    BY <2>1 DEF SweepInv, TrialInv
  <2>3. best.cfg \in Candidates(script, job) /\ Eligible(best.cfg)
    BY <2>2 DEF SweepInv, TrialInv
  <2>4. /\ results[job].cfg = best.cfg
        /\ results[job].ok <=> script # "m16" \/ Right(best.cfg, job)
    <3> DEFINE b == script # "m16" \/ Right(best.cfg, job)
    <3>1. results[job] = [cfg |-> best.cfg, us |-> best.us, ok |-> b]
      BY <2>1 DEF Winner
    <3> HIDE DEF b
    <3>2. results[job].cfg = best.cfg
      BY <3>1
    <3>3. results[job].ok = b
      BY <3>1
    <3> QED BY <3>2, <3>3 DEF b
  <2>5. results[job].ok => Right(results[job].cfg, job)
    BY <2>3, <2>4 DEF Eligible
  <2>6. ASSUME group = 128, script = "m16" PROVE Right(best.cfg, job)
    <3> DEFINE K == JobK(job)
               c == best.cfg
               m == JobRows(job)
    <3>1. K \in Nat \ {0}
      BY JobFacts DEF SweepInv, SweepType
    <3>2. TriedM16(c, m, K)
      BY <2>3, <2>6 DEF Candidates
    <3>3. Right(c, job)
            <=> OnceInOwnGroup([kernel |-> "gemm", M |-> 1, N |-> 1, K |-> K, G |-> 128,
                                BM |-> c.BM, BN |-> c.BN, BK |-> c.BK, SK |-> c.SK])
      BY <2>6 DEF Right
    <3> HIDE DEF K, c, m
    <3>4. OnceInOwnGroup([kernel |-> "gemm", M |-> 1, N |-> 1, K |-> K, G |-> 128,
                          BM |-> c.BM, BN |-> c.BN, BK |-> c.BK, SK |-> c.SK])
      BY <3>1, <3>2, TiledGridsExact
    <3> QED BY <3>3, <3>4 DEF c
  <2> QED BY <2>4, <2>5, <2>6
<1> QED BY <1>1, SweepInvariant, PTL

\* The time per token that a sweep ends with counts each shape once, with its own
\* winner, for any number of shapes and rows; the projection of probe_sk2.py never
\* promises less than nothing (sweep_m128_r16.py:227-232, sweep_m16_r18.py:236-237,
\* probe_sk2.py:226-233).
THEOREM TotalsWholeHolds == SweepSpec => []TotalsWhole
<1>1. SweepInv => TotalsWhole
  <2> SUFFICES ASSUME SweepInv, stage = "done", NEW i \in DOMAIN RowsOf(script)
               PROVE  LET r == RowsOf(script)[i] IN
                      /\ script # "sk2" => JobsOf(r) \subseteq DOMAIN results
                      /\ total[r] # NaN =>
                           total[r] = SumFunctionOnSet(WinnerTimes, JobsOf(r) \cap DOMAIN results)
                      /\ script = "sk2" => total[r] <= total[0]
    BY DEF TotalsWhole
  <2> DEFINE r == RowsOf(script)[i]
  <2>1. SweepType /\ RecordInv /\ TotalInv
    BY DEF SweepInv
  <2>2. script = "sk2" => r = 1
    BY <2>1, RowsAreTotalled DEF SweepType
  <2>3. Added = 1 .. JobCount
    BY DEF Added
  <2>4. Summed(r) = JobsOf(r) \cap DOMAIN results
    BY <2>1, <2>3 DEF Summed, SweepType
  <2>5. script # "sk2" => JobsOf(r) \subseteq DOMAIN results
    BY <2>1 DEF RecordInv, JobsOf
  <2>6. total[r] # NaN => total[r] = SumFunctionOnSet(WinnerTimes, Summed(r))
    BY <2>1 DEF TotalInv
  <2>7. script = "sk2" => total[r] <= total[0]
    BY <2>1, <2>2 DEF TotalInv
  <2> QED BY <2>4, <2>5, <2>6, <2>7
<1> QED BY <1>1, SweepInvariant, PTL

-----------------------------------------------------------------------------
(* The census of probe_sk2.py.                                             *)

\* The call at place p of layer i, counted from 0.
CallOf(i, p, l, f, o, u, d) ==
  IF p = 0 THEN (IF i % 4 = 3 THEN f ELSE l)
  ELSE IF p = 1 THEN o ELSE IF p = 2 THEN u ELSE d

CallAt(i, p) ==
  CallOf(i, p, <<12288, 2560>>, <<10240, 2560>>, <<2560, 4096>>, <<18432, 2560>>,
         <<2560, 9216>>)

CallShape == Nat \X Nat

\* The calls of one forward of the intended model.
LEMMA IntendedCalls ==
  ASSUME model = Intended(model.norm)
  PROVE  /\ StepCalls \in Seq(CallShape) /\ Len(StepCalls) = 128 /\ HeadCalls = <<>>
         /\ \A c \in 1 .. 128 : StepCalls[c] = CallAt((c - 1) \div 4, (c - 1) % 4)
<1>1. model.layers = 32 /\ model.every = 4 /\ model.lmHead = FALSE
  BY DEF Intended
<1>2. HeadCalls = <<>>
  BY <1>1 DEF HeadCalls
<1>3. BodyCalls = [c \in 1 .. 128 |-> LayerCalls((c - 1) \div 4)[((c - 1) % 4) + 1]]
  BY <1>1 DEF BodyCalls
<1>4. ASSUME NEW i, NEW p \in 0 .. 3
      PROVE  LayerCalls(i)[p + 1] = CallAt(i, p) /\ CallAt(i, p) \in CallShape
  <2>1. /\ LayerCalls(i)[1] = IF i % 4 = 3 THEN <<10240, 2560>> ELSE <<12288, 2560>>
        /\ LayerCalls(i)[2] = <<2560, 4096>>
        /\ LayerCalls(i)[3] = <<18432, 2560>>
        /\ LayerCalls(i)[4] = <<2560, 9216>>
    BY <1>1 DEF LayerCalls
  <2>2. CASE p = 0
    BY <2>1, <2>2 DEF CallAt, CallOf, CallShape
  <2>3. CASE p = 1
    BY <2>1, <2>3 DEF CallAt, CallOf, CallShape
  <2>4. CASE p = 2
    BY <2>1, <2>4 DEF CallAt, CallOf, CallShape
  <2>5. CASE p = 3
    BY <2>1, <2>5 DEF CallAt, CallOf, CallShape
  <2> QED BY <2>2, <2>3, <2>4, <2>5
<1>5. ASSUME NEW c \in 1 .. 128
      PROVE  /\ BodyCalls[c] = CallAt((c - 1) \div 4, (c - 1) % 4)
             /\ BodyCalls[c] \in CallShape
  <2>1. (c - 1) % 4 \in 0 .. 3
    BY <1>5
  <2> QED BY <1>3, <1>4, <2>1
<1>6. BodyCalls \in Seq(CallShape) /\ Len(BodyCalls) = 128
  BY <1>3, <1>5
<1>7. StepCalls = BodyCalls
  BY <1>2, <1>6, ConcatEmptySeq DEF StepCalls
<1> QED BY <1>2, <1>5, <1>6, <1>7

\* A list of increasing places: how many, and which is the n-th.
Increasing(P, n) ==
  /\ \A i \in 0 .. n - 1 : P[i] \in Int
  /\ \A i, j \in 0 .. n - 1 : i < j => P[i] < P[j]

Places(P, n) == {P[i] : i \in 0 .. n - 1}

\* n increasing places are n.
LEMMA CountPlaces ==
  ASSUME NEW n \in Nat, NEW P, Increasing(P, n)
  PROVE  IsFiniteSet(Places(P, n)) /\ Cardinality(Places(P, n)) = n
<1> DEFINE f == [i \in 0 .. n - 1 |-> P[i]]
           S == Places(P, n)
<1>1. ASSUME NEW i \in 0 .. n - 1, NEW j \in 0 .. n - 1, f[i] = f[j] PROVE i = j
  BY <1>1 DEF Increasing
<1>2. f \in Bijection(0 .. n - 1, S)
  BY <1>1, Fun_IsBij DEF Places
<1>3. IsFiniteSet(0 .. n - 1) /\ Cardinality(0 .. n - 1) = n
  BY FS_Interval
<1>4. ExistsBijection(0 .. n - 1, S)
  BY <1>2 DEF ExistsBijection
<1> QED BY <1>3, <1>4, FS_Bijection

\* The n-th of a list of increasing places is the n-th place of the set.
LEMMA NthPlace ==
  ASSUME NEW n \in Nat, NEW P, Increasing(P, n), NEW i \in 0 .. n - 1
  PROVE  Nth(i, Places(P, n)) = P[i]
<1> DEFINE S == Places(P, n)
           Below(k) == {q \in S : q < k}
<1>1. ASSUME NEW j \in 0 .. n - 1 PROVE Cardinality(Below(P[j])) = j
  <2>1. Below(P[j]) = Places(P, j)
    BY DEF Increasing, Places
  <2>2. Increasing(P, j) /\ j \in Nat
    BY DEF Increasing
  <2> QED BY <2>1, <2>2, CountPlaces
<1>2. \A k \in S : \E j \in 0 .. n - 1 : k = P[j]
  BY DEF Places
<1>3. P[i] \in S
  BY DEF Places
<1>4. Nth(i, S) = CHOOSE k \in S : Cardinality(Below(k)) = i
  BY DEF Nth
<1> HIDE DEF S, Below
<1>5. \A k \in S : Cardinality(Below(k)) = i => k = P[i]
  BY <1>1, <1>2
<1> QED BY <1>1, <1>3, <1>4, <1>5 DEF S

\* What has been logged after n forwards of a generate.
LogIs(l, n) ==
  /\ l \in Seq(CallShape)
  /\ Len(l) = 128 * (IF n = 0 THEN 0 ELSE n - 1)
  /\ \A i \in 1 .. Len(l) : l[i] = CallAt(((i - 1) % 128) \div 4, (i - 1) % 4)

\* The last 120 calls of a step.
LastCalls(s) == s = [c \in 1 .. 120 |-> CallAt((c + 7) \div 4, (c + 7) % 4)]

\* The census of the intended model: what the log holds and what is taken from it.
CensusInv ==
  AsIntended /\ tool = "census" =>
    /\ phase \in {"warmup", "generate", "divided"}
    /\ forwards \in 0 .. NTOK
    /\ phase \in {"warmup", "generate"} => LogIs(log, forwards)
    /\ phase = "divided" => LastCalls(seq)

\* What is appended comes after what was there.
IsJoin(u, s, t) ==
  /\ Len(u) = Len(s) + Len(t)
  /\ \A i \in 1 .. Len(s) : u[i] = s[i]
  /\ \A i \in 1 .. Len(t) : u[Len(s) + i] = t[i]

\* A concatenation is a join.
LEMMA Joined == \A S : \A s, t \in Seq(S) : s \o t \in Seq(S) /\ IsJoin(s \o t, s, t)
BY DEF IsJoin

\* One more forward of one row keeps the log cyclic.
LEMMA LogGrows ==
  ASSUME model = Intended(model.norm), NEW l, NEW n \in 1 .. 15, LogIs(l, n)
  PROVE  LogIs(l \o StepCalls, n + 1)
<1> DEFINE m == l \o StepCalls
<1>1. /\ StepCalls \in Seq(CallShape) /\ Len(StepCalls) = 128
      /\ \A c \in 1 .. 128 : StepCalls[c] = CallAt((c - 1) \div 4, (c - 1) % 4)
  BY IntendedCalls
<1>2. l \in Seq(CallShape) /\ Len(l) = 128 * (n - 1)
  BY DEF LogIs
<1>3. m \in Seq(CallShape) /\ IsJoin(m, l, StepCalls)
  BY <1>1, <1>2, Joined
<1> HIDE DEF m
<1>4. m \in Seq(CallShape) /\ Len(m) = 128 * n
  BY <1>3, <1>1, <1>2 DEF IsJoin
<1>5. ASSUME NEW i \in 1 .. Len(m)
      PROVE  m[i] = CallAt(((i - 1) % 128) \div 4, (i - 1) % 4)
  <2>1. CASE i <= Len(l)
    <3>1. m[i] = l[i]
      BY <1>3, <1>1, <1>2, <1>4, <2>1 DEF IsJoin
    <3> QED BY <1>2, <1>4, <2>1, <3>1 DEF LogIs
  <2>2. CASE i > Len(l)
    <3> DEFINE c == i - 128 * (n - 1)
    <3>1. c \in 1 .. 128 /\ i = Len(l) + c
      BY <1>2, <1>4, <2>2
    <3>2. (i - 1) % 128 = c - 1 /\ (i - 1) % 4 = (c - 1) % 4
      BY <3>1, <1>2
    <3> HIDE DEF c
    <3>3. m[i] = StepCalls[c]
      BY <1>3, <1>1, <3>1 DEF IsJoin
    <3> QED BY <1>1, <3>1, <3>2, <3>3
  <2> QED BY <1>2, <1>4, <2>1, <2>2
<1>6. Len(m) = 128 * (IF n + 1 = 0 THEN 0 ELSE (n + 1) - 1)
  BY <1>4
<1>7. LogIs(m, n + 1)
  BY <1>4, <1>5, <1>6, Zenon DEF LogIs
<1> QED BY <1>7 DEF m

\* The log is empty before a generate.
LEMMA NoLog == LogIs(<<>>, 0)
<1>1. <<>> \in Seq(CallShape) /\ Len(<<>>) = 0
  OBVIOUS
<1> QED BY <1>1 DEF LogIs

\* The census of the intended model never fails; through the warmup and the generate the
\* log is whole steps, one after the other, and what is taken for one token is the last
\* 120 calls of a step (probe_sk2.py:54-65).
THEOREM CensusInvariant == CensusSpec => []CensusInv
<1>1. CensusInit => CensusInv
  <2> SUFFICES ASSUME CensusInit, AsIntended, tool = "census" PROVE CensusInv
    BY DEF CensusInv
  <2>1. phase = "warmup" /\ forwards = 0 /\ log = <<>>
    BY DEF CensusInit
  <2> QED BY <2>1, NoLog DEF CensusInv, NTOK
<1>2. CensusInv /\ [CensusNext]_censusVars => CensusInv'
  <2> SUFFICES ASSUME CensusInv, [CensusNext]_censusVars, AsIntended', tool' = "census"
               PROVE  CensusInv'
    BY DEF CensusInv
  <2>1. UNCHANGED <<model, prompt, tool>>
    BY DEF CensusNext, Forward, Clear, Divide, TraceForward, CutByCount, CutByTime,
           censusVars
  <2>2. AsIntended /\ tool = "census" /\ model = Intended(model.norm) /\ prompt > 1
    BY <2>1 DEF AsIntended
  <2>3. /\ phase \in {"warmup", "generate", "divided"}
        /\ forwards \in 0 .. 16
        /\ phase \in {"warmup", "generate"} => LogIs(log, forwards)
        /\ phase = "divided" => LastCalls(seq)
    BY <2>2 DEF CensusInv, NTOK
  <2>4. CASE Forward
    <3>1. /\ phase \in {"warmup", "generate"} /\ forwards < 16 /\ phase' = phase
          /\ log' = log \o Logged(forwards) /\ forwards' = forwards + 1
      BY <2>4 DEF Forward, NTOK
    <3>2. LogIs(log, forwards)
      BY <2>3, <3>1
    <3>3. CASE forwards = 0
      <4>1. Logged(0) = <<>>
        BY <2>2, IntendedCalls DEF Logged, RowsIn
      <4>2. log \in Seq(CallShape) /\ Len(log) = 0
        BY <3>2, <3>3 DEF LogIs
      <4>3. log' = <<>>
        BY <3>1, <3>3, <4>1, <4>2
      <4>4. LogIs(<<>>, 1)
        BY NoLog DEF LogIs
      <4>5. forwards' = 1
        BY <3>1, <3>3
      <4>6. LogIs(log', forwards')
        BY <4>3, <4>4, <4>5
      <4> QED BY <3>1, <4>5, <4>6 DEF CensusInv, NTOK
    <3>4. CASE forwards # 0
      <4>1. Logged(forwards) = StepCalls /\ forwards \in 1 .. 15
        BY <2>3, <3>1, <3>4 DEF Logged, RowsIn
      <4>2. LogIs(log', forwards')
        BY <2>2, <3>1, <3>2, <4>1, LogGrows
      <4> QED BY <3>1, <4>1, <4>2 DEF CensusInv, NTOK
    <3> QED BY <3>3, <3>4
  <2>5. CASE Clear
    <3>1. phase' = "generate" /\ forwards' = 0 /\ log' = <<>>
      BY <2>5 DEF Clear
    <3> QED BY <3>1, NoLog DEF CensusInv, NTOK
  <2>6. CASE Divide
    <3>1. phase = "generate" /\ forwards = 16
      BY <2>6 DEF Divide, NTOK
    <3>2. log \in Seq(CallShape) /\ Len(log) = 1920
      BY <2>3, <3>1 DEF LogIs
    <3>3. log # <<>> /\ 1920 % 16 = 0 /\ 1920 - 1920 \div 16 + 1 = 1801
      <4>1. Len(<<>>) = 0
        OBVIOUS
      <4>2. log # <<>>
        <5>1. 1920 # 0
          OBVIOUS
        <5>2. ASSUME log = <<>> PROVE Len(<<>>) = 1920
          BY <3>2, <5>2
        <5> QED BY <4>1, <5>1, <5>2
      <4>3. 1920 % 16 = 0 /\ 1920 - 1920 \div 16 + 1 = 1801
        OBVIOUS
      <4> QED BY <4>2, <4>3
    <3>4. phase' = "divided" /\ seq' = SubSeq(log, 1801, 1920) /\ forwards' = 16
      BY <2>6, <3>1, <3>2, <3>3 DEF Divide, NTOK
    <3>5. seq' = [c \in 1 .. 120 |-> log[c + 1800]]
      BY <3>4
    <3>6. ASSUME NEW c \in 1 .. 120
          PROVE  log[c + 1800] = CallAt((c + 7) \div 4, (c + 7) % 4)
      <4> DEFINE i == c + 1800
      <4>1. i \in 1 .. 1920 /\ (i - 1) % 128 = c + 7 /\ (i - 1) % 4 = (c + 7) % 4
        OBVIOUS
      <4> HIDE DEF i
      <4>2. \A j \in 1 .. Len(log) : log[j] = CallAt(((j - 1) % 128) \div 4, (j - 1) % 4)
        <5>1. LogIs(log, forwards)
          BY <2>3, <3>1
        <5> QED BY <5>1 DEF LogIs
      <4>3. log[i] = CallAt(((i - 1) % 128) \div 4, (i - 1) % 4)
        <5>1. i \in 1 .. Len(log)
          BY <3>2, <4>1
        <5> QED BY <4>2, <5>1
      <4>4. log[i] = CallAt((c + 7) \div 4, (c + 7) % 4)
        BY <4>1, <4>3, SMTT(30)
      <4> QED BY <4>4 DEF i
    <3>7. LastCalls(seq')
      <4> DEFINE C(c) == CallAt((c + 7) \div 4, (c + 7) % 4)
                 D(c) == log[c + 1800]
      <4>1. \A c \in 1 .. 120 : D(c) = C(c)
        BY <3>6
      <4>2. seq' = [c \in 1 .. 120 |-> D(c)]
        BY <3>5
      <4> HIDE DEF C, D
      <4>3. seq' = [c \in 1 .. 120 |-> C(c)]
        BY <4>1, <4>2
      <4> QED BY <4>3 DEF C, LastCalls
    <3> QED BY <3>4, <3>7 DEF CensusInv, NTOK
  <2>7. CASE (\E stall \in Stalls : TraceForward(stall)) \/ CutByCount \/ CutByTime
    BY <2>2, <2>7 DEF TraceForward, CutByCount, CutByTime
  <2>8. CASE UNCHANGED censusVars
    BY <2>3, <2>8 DEF CensusInv, censusVars, NTOK
  <2> QED BY <2>4, <2>5, <2>6, <2>7, <2>8 DEF CensusNext
<1> QED BY <1>1, <1>2, PTL DEF CensusSpec

\* What is taken for a token is the end of one step of the intended model, whatever the
\* prompt, and the census does not fail.
THEOREM SeqWithinStepHolds == CensusSpec => []SeqWithinStep
<1>1. CensusInv => SeqWithinStep
  <2> SUFFICES ASSUME CensusInv, AsIntended, tool = "census"
               PROVE  /\ phase # "failed"
                      /\ phase = "divided" =>
                           \E first \in 1 .. Len(StepCalls) :
                             seq = SubSeq(StepCalls, first, Len(StepCalls))
    BY DEF SeqWithinStep
  <2>1. phase # "failed" /\ (phase = "divided" => LastCalls(seq))
    BY DEF CensusInv
  <2>2. model = Intended(model.norm)
    BY DEF AsIntended
  <2>3. /\ StepCalls \in Seq(CallShape) /\ Len(StepCalls) = 128
        /\ \A c \in 1 .. 128 : StepCalls[c] = CallAt((c - 1) \div 4, (c - 1) % 4)
    BY <2>2, IntendedCalls
  <2>4. SubSeq(StepCalls, 9, 128) = [c \in 1 .. 120 |-> CallAt((c + 7) \div 4, (c + 7) % 4)]
    <3> DEFINE C(c) == CallAt((c + 7) \div 4, (c + 7) % 4)
               D(c) == StepCalls[c + 8]
    <3>1. SubSeq(StepCalls, 9, 128) = [c \in 1 .. 120 |-> D(c)]
      OBVIOUS
    <3>2. ASSUME NEW c \in 1 .. 120 PROVE D(c) = C(c)
      <4> DEFINE i == c + 8
      <4>1. i \in 1 .. 128 /\ i - 1 = c + 7
        OBVIOUS
      <4> HIDE DEF i
      <4>2. StepCalls[i] = CallAt((i - 1) \div 4, (i - 1) % 4)
        BY <2>3, <4>1, Zenon
      <4>3. StepCalls[i] = C(c)
        BY <4>1, <4>2
      <4> QED BY <4>3 DEF i
    <3> HIDE DEF C, D
    <3>3. SubSeq(StepCalls, 9, 128) = [c \in 1 .. 120 |-> C(c)]
      BY <3>1, <3>2
    <3> QED BY <3>3 DEF C
  <2>5. 9 \in 1 .. Len(StepCalls) /\ Len(StepCalls) = 128
    BY <2>3
  <2>6. ASSUME phase = "divided"
        PROVE  \E first \in 1 .. Len(StepCalls) :
                 seq = SubSeq(StepCalls, first, Len(StepCalls))
    <3>1. seq = SubSeq(StepCalls, 9, Len(StepCalls))
      BY <2>1, <2>4, <2>5, <2>6 DEF LastCalls
    <3>2. 9 \in 1 .. Len(StepCalls)
      BY <2>5
    <3> QED BY <3>1, <3>2, Zenon
  <2> QED BY <2>1, <2>6
<1> QED BY <1>1, CensusInvariant, PTL

-----------------------------------------------------------------------------
(* The traces of profiling/.                                               *)

KernelNames ==
  {"embed", "norm", "splitk", "reduce", "gemm", "sum", "mixer", "act", "lm_head", "argmax"}

\* What a sequence of kernels holds is kernels.
LEMMA Members == \A s \in Seq(KernelNames) : \A i \in 1 .. Len(s) : s[i] \in KernelNames
OBVIOUS

\* The kernels of one forward of the intended model whose products are a and b.
StepNames(s, a, b) ==
  /\ s \in Seq(KernelNames) /\ Len(s) = 388
  /\ s[1] = "embed" /\ s[386] = "norm" /\ s[387] = "lm_head" /\ s[388] = "argmax"
  /\ \A o \in 2 .. 385 :
       /\ o % 3 = 0 => s[o] = a
       /\ o % 3 = 1 => s[o] = b
       /\ o % 3 = 2 => s[o] \in {"norm", "mixer", "act"}

\* The kernels of a layer, by their place: products at every third, launched in pairs.
LEMMA LayerNames ==
  ASSUME NEW rows, NEW q \in 0 .. 11
  PROVE  /\ q % 3 = 1 => LayerKernels(rows)[q + 1] = Product(rows)[1]
         /\ q % 3 = 2 => LayerKernels(rows)[q + 1] = Product(rows)[2]
         /\ q % 3 = 0 => LayerKernels(rows)[q + 1] \in {"norm", "mixer", "act"}
<1> DEFINE t == LayerKernels(rows)
           a == Product(rows)[1]
           b == Product(rows)[2]
<1>1. t = <<"norm", a, b, "mixer", a, b, "norm", a, b, "act", a, b>>
  BY DEF LayerKernels
<1> HIDE DEF t, a, b
<1>2. t[1] = "norm" /\ t[2] = a /\ t[3] = b /\ t[4] = "mixer" /\ t[5] = a /\ t[6] = b
  BY <1>1
<1>3. t[7] = "norm" /\ t[8] = a /\ t[9] = b /\ t[10] = "act" /\ t[11] = a /\ t[12] = b
  BY <1>1
<1>4. \/ q = 0 \/ q = 1 \/ q = 2 \/ q = 3 \/ q = 4 \/ q = 5
      \/ q = 6 \/ q = 7 \/ q = 8 \/ q = 9 \/ q = 10 \/ q = 11
  OBVIOUS
<1>5. /\ q % 3 = 1 => t[q + 1] = a
      /\ q % 3 = 2 => t[q + 1] = b
      /\ q % 3 = 0 => t[q + 1] \in {"norm", "mixer", "act"}
  BY <1>2, <1>3, <1>4
<1> QED BY <1>5 DEF t, a, b

\* One kernel after the others, or before them.
After(u, s, x, n) == u[n + 1] = x /\ \A i \in 1 .. n : u[i] = s[i]

Before(u, x, s, n) == u[1] = x /\ \A i \in 1 .. n : u[1 + i] = s[i]

\* One kernel after the others.
LEMMA Appended ==
  \A S : \A s \in Seq(S), x \in S :
    /\ s \o <<x>> \in Seq(S) /\ Len(s \o <<x>>) = Len(s) + 1
    /\ After(s \o <<x>>, s, x, Len(s))
BY DEF After

\* One kernel before the others.
LEMMA Prefixed ==
  \A S : \A s \in Seq(S), x \in S :
    /\ <<x>> \o s \in Seq(S) /\ Len(<<x>> \o s) = Len(s) + 1
    /\ Before(<<x>> \o s, x, s, Len(s))
BY DEF Before

\* A forward of the intended model is 388 kernels: 32 layers of 12 and four around them.
LEMMA IntendedStep ==
  ASSUME model = Intended(model.norm), NEW rows
  PROVE  StepNames(StepKernels(rows), Product(rows)[1], Product(rows)[2])
<1> DEFINE body == BodyKernels(rows)
           layer == LayerKernels(rows)
           a == Product(rows)[1]
           b == Product(rows)[2]
<1>1. model.layers = 32 /\ model.lmHead = FALSE
  BY DEF Intended
<1>2. HeadKernels = <<"lm_head">>
  BY <1>1 DEF HeadKernels
<1>3. body = [i \in 1 .. 384 |-> layer[((i - 1) % 12) + 1]]
  BY <1>1 DEF BodyKernels
<1>4. a \in KernelNames /\ b \in KernelNames
  <2>1. CASE rows = 1
    <3>1. a = "splitk" /\ b = "reduce"
      BY <2>1 DEF Product
    <3> QED BY <3>1 DEF KernelNames
  <2>2. CASE rows # 1
    <3>1. a = "gemm" /\ b = "sum"
      BY <2>2 DEF Product
    <3> QED BY <3>1 DEF KernelNames
  <2> QED BY <2>1, <2>2
<1> HIDE DEF body, layer, a, b
<1>5. ASSUME NEW i \in 1 .. 384
      PROVE  /\ body[i] \in KernelNames
             /\ i % 3 = 2 => body[i] = a
             /\ i % 3 = 0 => body[i] = b
             /\ i % 3 = 1 => body[i] \in {"norm", "mixer", "act"}
  <2> DEFINE q == (i - 1) % 12
  <2>1. q \in 0 .. 11 /\ q % 3 = (i + 2) % 3
    OBVIOUS
  <2>2. body[i] = layer[q + 1]
    BY <1>3
  <2> HIDE DEF q
  <2>3. /\ q % 3 = 1 => layer[q + 1] = a
        /\ q % 3 = 2 => layer[q + 1] = b
        /\ q % 3 = 0 => layer[q + 1] \in {"norm", "mixer", "act"}
    BY <2>1, LayerNames DEF layer, a, b
  <2>4. (q % 3 = 1 <=> i % 3 = 2) /\ (q % 3 = 2 <=> i % 3 = 0) /\ (q % 3 = 0 <=> i % 3 = 1)
    BY <2>1
  <2>5. i % 3 = 0 \/ i % 3 = 1 \/ i % 3 = 2
    OBVIOUS
  <2>6. /\ i % 3 = 2 => body[i] = a
        /\ i % 3 = 0 => body[i] = b
        /\ i % 3 = 1 => body[i] \in {"norm", "mixer", "act"}
    BY <2>2, <2>3, <2>4
  <2>7. body[i] \in KernelNames
    BY <1>4, <2>5, <2>6 DEF KernelNames
  <2> QED BY <2>6, <2>7
<1>6. body \in Seq(KernelNames) /\ Len(body) = 384
  <2> HIDE DEF KernelNames
  <2>1. \A i \in 1 .. 384 : body[i] \in KernelNames
    BY <1>5
  <2>2. body = [i \in 1 .. 384 |-> body[i]]
    BY <1>3
  <2> QED BY <2>1, <2>2
<1> DEFINE s1 == <<"embed">> \o body
           s2 == s1 \o <<"norm">>
           s3 == s2 \o <<"lm_head">>
           s4 == s3 \o <<"argmax">>
<1>7. StepKernels(rows) = s4
  BY <1>2 DEF StepKernels, s1, s2, s3, s4, body
<1>8. /\ s4 \in Seq(KernelNames) /\ Len(s4) = 388
      /\ s4[1] = "embed" /\ s4[386] = "norm" /\ s4[387] = "lm_head" /\ s4[388] = "argmax"
      /\ \A i \in 1 .. 384 : s4[1 + i] = body[i]
  <2>1. /\ "embed" \in KernelNames /\ "norm" \in KernelNames
        /\ "lm_head" \in KernelNames /\ "argmax" \in KernelNames
    BY DEF KernelNames
  <2>2. s1 \in Seq(KernelNames) /\ Len(s1) = 385 /\ Before(s1, "embed", body, 384)
    <3>1. s1 \in Seq(KernelNames) /\ Len(s1) = Len(body) + 1 /\ Before(s1, "embed", body, Len(body))
      BY <1>6, <2>1, Prefixed, Zenon
    <3> HIDE DEF s1
    <3>2. Len(s1) = 385
      BY <1>6, <3>1
    <3> QED BY <1>6, <3>1, <3>2, Zenon
  <2> HIDE DEF s1
  <2>3. s2 \in Seq(KernelNames) /\ Len(s2) = 386 /\ After(s2, s1, "norm", 385)
    <3>1. s2 \in Seq(KernelNames) /\ Len(s2) = Len(s1) + 1 /\ After(s2, s1, "norm", Len(s1))
      BY <2>1, <2>2, Appended, Zenon
    <3> HIDE DEF s2
    <3>2. Len(s2) = 386
      BY <3>1, <2>2
    <3> QED BY <3>1, <3>2, <2>2, Zenon
  <2> HIDE DEF s2
  <2>4. s3 \in Seq(KernelNames) /\ Len(s3) = 387 /\ After(s3, s2, "lm_head", 386)
    <3>1. s3 \in Seq(KernelNames) /\ Len(s3) = Len(s2) + 1 /\ After(s3, s2, "lm_head", Len(s2))
      BY <2>1, <2>3, Appended, Zenon
    <3> HIDE DEF s3
    <3>2. Len(s3) = 387
      BY <3>1, <2>3
    <3> QED BY <3>1, <3>2, <2>3
  <2> HIDE DEF s3
  <2>5. s4 \in Seq(KernelNames) /\ Len(s4) = 388 /\ After(s4, s3, "argmax", 387)
    <3>1. s4 \in Seq(KernelNames) /\ Len(s4) = Len(s3) + 1 /\ After(s4, s3, "argmax", Len(s3))
      BY <2>1, <2>4, Appended, Zenon
    <3> HIDE DEF s4
    <3>2. Len(s4) = 388
      BY <3>1, <2>4
    <3> QED BY <3>1, <3>2, <2>4
  <2> HIDE DEF s4
  <2>6. s1[1] = "embed"
    BY <2>2 DEF Before
  <2>7. \A i \in 1 .. 384 : s1[1 + i] = body[i]
    BY <2>2 DEF Before
  <2>8. s2[386] = "norm"
    BY <2>3 DEF After
  <2>9. \A i \in 1 .. 385 : s2[i] = s1[i]
    BY <2>3 DEF After
  <2>10. s3[387] = "lm_head"
    BY <2>4 DEF After
  <2>11. \A i \in 1 .. 386 : s3[i] = s2[i]
    BY <2>4 DEF After
  <2>12. s4[388] = "argmax"
    BY <2>5 DEF After
  <2>13. \A i \in 1 .. 387 : s4[i] = s3[i]
    BY <2>5 DEF After
  <2>14. s4[1] = "embed"
    <3>1. s2[1] = s1[1]
      BY <2>9, SMTT(30)
    <3>2. s3[1] = s2[1]
      BY <2>11, SMTT(30)
    <3>3. s4[1] = s3[1]
      BY <2>13, SMTT(30)
    <3> QED BY <2>6, <3>1, <3>2, <3>3
  <2>15. s4[386] = "norm"
    BY <2>8, <2>11, <2>13
  <2>16. s4[387] = "lm_head"
    BY <2>10, <2>13
  <2>17. ASSUME NEW i \in 1 .. 384 PROVE s4[1 + i] = body[i]
    <3>1. s4[1 + i] = s3[1 + i]
      BY <2>13
    <3>2. s3[1 + i] = s2[1 + i]
      BY <2>11
    <3>3. s2[1 + i] = s1[1 + i]
      BY <2>9
    <3> QED BY <2>7, <3>1, <3>2, <3>3
  <2>18. \A i \in 1 .. 384 : s4[1 + i] = body[i]
    BY <2>17
  <2> QED BY <2>5, <2>12, <2>14, <2>15, <2>16, <2>18, Zenon
<1> HIDE DEF s1, s2, s3, s4
<1>9. \A i \in 1 .. 384 : s4[1 + i] = body[i]
  BY <1>8
<1>10. ASSUME NEW o \in 2 .. 385
       PROVE  /\ o % 3 = 0 => s4[o] = a
              /\ o % 3 = 1 => s4[o] = b
              /\ o % 3 = 2 => s4[o] \in {"norm", "mixer", "act"}
  <2> DEFINE i == o - 1
  <2>1. i \in 1 .. 384 /\ o = 1 + i
    OBVIOUS
  <2>2. (o % 3 = 0 => i % 3 = 2) /\ (o % 3 = 1 => i % 3 = 0) /\ (o % 3 = 2 => i % 3 = 1)
    OBVIOUS
  <2> HIDE DEF i
  <2>3. s4[o] = body[i]
    BY <1>9, <2>1, SMTT(30)
  <2> QED BY <1>5, <2>1, <2>2, <2>3
<1> QED BY <1>7, <1>8, <1>10 DEF StepNames, a, b

Event == [name : KernelNames, step : Nat, ts : Nat]

NameAt(k, a, b) == (IF k <= 388 THEN a ELSE b)[((k - 1) % 388) + 1]

\* The steps that have been traced, a kernel after the other: a is the prompt's, b the
\* step of one row.
TraceIs(t, n, a, b) ==
  /\ t \in Seq(Event) /\ Len(t) = 388 * n
  /\ \A k \in 1 .. 388 * n :
       /\ t[k].step = (k - 1) \div 388 + 1
       /\ t[k].name = NameAt(k, a, b)

\* When the prompt's kernels and those of the decode steps start.
PromptTimes(t, long) ==
  /\ \A i, j \in 1 .. 388 : i <= j => t[i].ts <= t[j].ts
  /\ t[388].ts >= t[384].ts + long

DecodeTimes(t, n, d) == \A k \in 389 .. 388 * n : t[k].ts >= t[388].ts + d

\* One step more.
IsStep(u, names, step, start, long) ==
  /\ u \in Seq(Event) /\ Len(u) = 388
  /\ \A o \in 1 .. 388 :
       /\ u[o].name = names[o] /\ u[o].step = step
       /\ u[o].ts >= start
  /\ PromptTimes(u, long)

\* One more step continues the names and the numbers of the steps.
LEMMA TraceGrows ==
  ASSUME NEW t, NEW n \in Nat, NEW a, NEW b, TraceIs(t, n, a, b),
         NEW u, NEW start, NEW long,
         IsStep(u, IF n = 0 THEN a ELSE b, n + 1, start, long)
  PROVE  TraceIs(t \o u, n + 1, a, b)
<1> DEFINE v == t \o u
<1>1. t \in Seq(Event) /\ Len(t) = 388 * n /\ u \in Seq(Event) /\ Len(u) = 388
  BY DEF TraceIs, IsStep
<1>2. v \in Seq(Event) /\ IsJoin(v, t, u)
  BY <1>1, Joined
<1> HIDE DEF v
<1>3. Len(v) = 388 * (n + 1)
  BY <1>1, <1>2 DEF IsJoin
<1>4. ASSUME NEW k \in 1 .. 388 * (n + 1)
      PROVE  /\ v[k].step = (k - 1) \div 388 + 1
             /\ v[k].name = NameAt(k, a, b)
  <2>1. CASE k <= 388 * n
    <3>1. k \in 1 .. 388 * n
      BY <2>1
    <3>2. v[k] = t[k]
      BY <1>1, <1>2, <3>1, ZenonT(60) DEF IsJoin
    <3> QED BY <3>1, <3>2, ZenonT(60) DEF TraceIs
  <2>2. CASE k > 388 * n
    <3> DEFINE o == k - 388 * n
    <3>1. o \in 1 .. 388 /\ k = 388 * n + o
      BY <2>2
    <3>2. (k - 1) \div 388 = n /\ ((k - 1) % 388) + 1 = o
      BY <3>1
    <3>3. n = 0 <=> k <= 388
      BY <3>1
    <3> HIDE DEF o
    <3>4. v[k] = u[o]
      <4>1. v[Len(t) + o] = u[o]
        BY <1>1, <1>2, <3>1 DEF IsJoin
      <4> QED BY <1>1, <3>1, <4>1
    <3>5. u[o].step = n + 1 /\ u[o].name = (IF n = 0 THEN a ELSE b)[o]
      BY <3>1, ZenonT(60) DEF IsStep
    <3>6. v[k].step = (k - 1) \div 388 + 1
      BY <3>2, <3>4, <3>5
    <3>7. v[k].name = NameAt(k, a, b)
      BY <3>2, <3>3, <3>4, <3>5 DEF NameAt
    <3> QED BY <3>6, <3>7
  <2> QED BY <2>1, <2>2
<1>5. TraceIs(v, n + 1, a, b)
  BY <1>2, <1>3, <1>4 DEF TraceIs
<1> QED BY <1>5 DEF v

\* What a sequence of events holds is events.
LEMMA EventMembers == \A s \in Seq(Event) : \A i \in 1 .. Len(s) : s[i] \in Event
OBVIOUS

\* One more step continues the times.
LEMMA TimesGrow ==
  ASSUME NEW t, NEW n \in Nat, NEW a, NEW b, TraceIs(t, n, a, b),
         NEW u, NEW names, NEW step, NEW start \in Nat, NEW d \in Nat, NEW long \in Nat,
         IsStep(u, names, step, start, long),
         n > 0 => /\ PromptTimes(t, long) /\ DecodeTimes(t, n, d)
                  /\ start >= t[388 * n].ts + d
  PROVE  PromptTimes(t \o u, long) /\ DecodeTimes(t \o u, n + 1, d)
<1> DEFINE v == t \o u
<1>1. t \in Seq(Event) /\ Len(t) = 388 * n /\ u \in Seq(Event) /\ Len(u) = 388
  BY DEF TraceIs, IsStep
<1>2. v \in Seq(Event) /\ IsJoin(v, t, u)
  BY <1>1, Joined
<1> HIDE DEF v
<1>3. \A k \in 1 .. 388 * n : v[k] = t[k]
  BY <1>1, <1>2, ZenonT(60) DEF IsJoin
<1>4. ASSUME NEW o \in 1 .. 388 PROVE v[388 * n + o] = u[o]
  <2>1. v[Len(t) + o] = u[o]
    BY <1>1, <1>2 DEF IsJoin
  <2> QED BY <1>1, <2>1
<1>5. CASE n = 0
  <2>1. \A o \in 1 .. 388 : v[o] = u[o]
    BY <1>4, <1>5, SMTT(30)
  <2>2. PromptTimes(u, long)
    BY ZenonT(60) DEF IsStep
  <2>3. 388 \in 1 .. 388 /\ 384 \in 1 .. 388
    OBVIOUS
  <2>4. PromptTimes(v, long)
    BY <2>1, <2>2, <2>3, ZenonT(60) DEF PromptTimes
  <2>5. DecodeTimes(v, n + 1, d)
    BY <1>5 DEF DecodeTimes
  <2> QED BY <2>4, <2>5 DEF v
<1>6. CASE n > 0
  <2>1. \A o \in 1 .. 388 : v[o] = t[o]
    BY <1>3, <1>6
  <2>2. PromptTimes(v, long)
    <3>1. PromptTimes(t, long)
      BY <1>6
    <3>2. 388 \in 1 .. 388 /\ 384 \in 1 .. 388
      OBVIOUS
    <3> QED BY <2>1, <3>1, <3>2, ZenonT(60) DEF PromptTimes
  <2>3. t[388].ts \in Nat /\ t[388 * n].ts \in Nat
    <3>1. 388 \in 1 .. 388 * n /\ 388 * n \in 1 .. 388 * n
      BY <1>6
    <3>2. \A k \in 1 .. 388 * n : t[k] \in Event
      BY <1>1
    <3> QED BY <3>1, <3>2 DEF Event
  <2>4. t[388 * n].ts >= t[388].ts
    <3>1. CASE n = 1
      BY <2>3, <3>1
    <3>2. CASE n > 1
      <4>1. 388 * n \in 389 .. 388 * n
        BY <3>2
      <4>2. t[388 * n].ts >= t[388].ts + d
        BY <1>6, <4>1 DEF DecodeTimes
      <4> QED BY <2>3, <4>2
    <3> QED BY <1>6, <3>1, <3>2
  <2>5. ASSUME NEW k \in 389 .. 388 * (n + 1)
        PROVE  v[k].ts >= v[388].ts + d
    <3>1. v[388] = t[388]
      BY <2>1
    <3>2. CASE k <= 388 * n
      <4>1. v[k] = t[k]
        BY <1>3, <3>2
      <4>2. t[k].ts >= t[388].ts + d
        BY <1>6, <3>2 DEF DecodeTimes
      <4> QED BY <3>1, <4>1, <4>2
    <3>3. CASE k > 388 * n
      <4> DEFINE o == k - 388 * n
      <4>1. o \in 1 .. 388 /\ k = 388 * n + o
        BY <3>3
      <4> HIDE DEF o
      <4>2. v[k] = u[o]
        BY <1>4, <4>1, SMTT(30)
      <4>3. u[o].ts >= start
        BY <4>1, ZenonT(60) DEF IsStep
      <4>4. u[o].ts \in Nat
        <5>1. \A i \in 1 .. Len(u) : u[i] \in Event
          <6>1. u \in Seq(Event)
            BY <1>1
          <6> QED BY <6>1, EventMembers, ZenonT(30)
        <5>2. o \in 1 .. Len(u)
          BY <1>1, <4>1
        <5> QED BY <5>1, <5>2 DEF Event
      <4>5. start >= t[388 * n].ts + d
        BY <1>6
      <4>6. u[o].ts >= t[388].ts + d
        BY <2>3, <2>4, <4>3, <4>4, <4>5
      <4> QED BY <3>1, <4>2, <4>6
    <3> QED BY <3>2, <3>3
  <2>6. DecodeTimes(v, n + 1, d)
    BY <2>5 DEF DecodeTimes
  <2> QED BY <2>2, <2>6 DEF v
<1> QED BY <1>5, <1>6

\* Where the products of a step are.
IsProduct(o) == o \in 2 .. 385 /\ o % 3 = 0

Kernel(name, o, x, y) ==
  \/ IsProduct(o) /\ name = x
  \/ ~IsProduct(o) /\ name = y
  \/ ~IsProduct(o) /\ name \in {"embed", "norm", "mixer", "act", "lm_head"}
  \/ ~IsProduct(o) /\ o = 388 /\ name = "argmax"

\* Each kernel of a step by its place.
LEMMA StepPlaces ==
  \A s, x, y : StepNames(s, x, y) => \A o \in 1 .. 388 : Kernel(s[o], o, x, y)
<1> SUFFICES ASSUME NEW s, NEW x, NEW y, StepNames(s, x, y), NEW o \in 1 .. 388
             PROVE  Kernel(s[o], o, x, y)
  OBVIOUS
<1>1. \A i \in 2 .. 385 :
        /\ i % 3 = 0 => s[i] = x
        /\ i % 3 = 1 => s[i] = y
        /\ i % 3 = 2 => s[i] \in {"norm", "mixer", "act"}
  BY Zenon DEF StepNames
<1>2. s[1] = "embed" /\ s[386] = "norm" /\ s[387] = "lm_head" /\ s[388] = "argmax"
  BY ZenonT(60) DEF StepNames
<1>3. CASE o \in 2 .. 385
  <2>1. (o % 3 = 0 => s[o] = x) /\ (o % 3 = 1 => s[o] = y)
    BY <1>1, <1>3, Zenon
  <2>2. o % 3 = 2 => s[o] \in {"norm", "mixer", "act"}
    BY <1>1, <1>3, Zenon
  <2>3. o % 3 = 0 \/ (o % 3 = 1 /\ o % 3 # 0) \/ (o % 3 = 2 /\ o % 3 # 0)
    OBVIOUS
  <2> QED BY <1>3, <2>1, <2>2, <2>3, Zenon DEF Kernel, IsProduct
<1>4. CASE o \notin 2 .. 385
  <2>1. o = 1 \/ o = 386 \/ o = 387 \/ o = 388
    BY <1>4
  <2>2. CASE o = 1
    BY <1>2, <1>4, <2>2 DEF Kernel, IsProduct
  <2>3. CASE o = 386
    BY <1>2, <1>4, <2>3 DEF Kernel, IsProduct
  <2>4. CASE o = 387
    BY <1>2, <1>4, <2>4 DEF Kernel, IsProduct
  <2>5. CASE o = 388
    BY <1>2, <1>4, <2>5 DEF Kernel, IsProduct
  <2> QED BY <2>1, <2>2, <2>3, <2>4, <2>5
<1> QED BY <1>3, <1>4

\* The products of the prompt's step are its GEMMs, and it has no GEMV.
LEMMA GemmPlaces ==
  \A s : StepNames(s, "gemm", "sum") =>
    \A o \in 1 .. 388 : (s[o] = "gemm" <=> IsProduct(o)) /\ s[o] # "splitk"
<1>1. \A name, o :
        Kernel(name, o, "gemm", "sum") =>
          (name = "gemm" <=> IsProduct(o)) /\ name # "splitk"
  BY DEF Kernel
<1> QED BY <1>1, StepPlaces, Zenon

\* The products of a decode step are its GEMVs, and it has no GEMM.
LEMMA SplitPlaces ==
  \A s : StepNames(s, "splitk", "reduce") =>
    \A o \in 1 .. 388 : (s[o] = "splitk" <=> IsProduct(o)) /\ s[o] # "gemm"
<1>1. \A name, o :
        Kernel(name, o, "splitk", "reduce") =>
          (name = "splitk" <=> IsProduct(o)) /\ name # "gemm"
  BY DEF Kernel
<1> QED BY <1>1, StepPlaces, Zenon

\* The place of the i-th GEMV of a trace, counted from 0.
GemvPlace(i) == 388 * ((i \div 128) + 1) + 3 * (i % 128) + 3

GemvPlaces(n) == [i \in 0 .. n - 1 |-> GemvPlace(i)]

\* The GEMVs of a trace, in order.
LEMMA GemvsIncrease ==
  ASSUME NEW n \in Nat
  PROVE  /\ Increasing(GemvPlaces(n), n)
         /\ \A i \in 0 .. n - 1 : GemvPlaces(n)[i] = GemvPlace(i)
<1>1. ASSUME NEW i \in Nat, NEW j \in Nat, i < j PROVE GemvPlace(i) < GemvPlace(j)
  <2> DEFINE a == i \div 128
             b == i % 128
             c == j \div 128
             e == j % 128
  <2>1. i = 128 * a + b /\ j = 128 * c + e
    OBVIOUS
  <2>2. a \in Nat /\ b \in 0 .. 127 /\ c \in Nat /\ e \in 0 .. 127
    OBVIOUS
  <2>3. GemvPlace(i) = 388 * (a + 1) + 3 * b + 3 /\ GemvPlace(j) = 388 * (c + 1) + 3 * e + 3
    BY DEF GemvPlace
  <2> HIDE DEF a, b, c, e
  <2>4. a < c \/ (a = c /\ b < e)
    BY <1>1, <2>1, <2>2
  <2> QED BY <2>2, <2>3, <2>4
<1>2. \A i \in Nat : GemvPlace(i) \in Int
  BY DEF GemvPlace
<1> QED BY <1>1, <1>2 DEF GemvPlaces, Increasing

\* A prompt's step of GEMMs, and then steps of GEMVs.
Served(n, a, b) ==
  /\ n \in Nat \ {0}
  /\ TraceIs(trace, n, a, b)
  /\ StepNames(a, "gemm", "sum") /\ StepNames(b, "splitk", "reduce")

\* Which kernels of a trace are GEMVs and which are GEMMs.
LEMMA ServedNames ==
  ASSUME NEW n, NEW a, NEW b, Served(n, a, b), NEW k \in 1 .. 388 * n
  PROVE  /\ DOMAIN trace = 1 .. 388 * n
         /\ trace[k].name = "splitk" <=>
              k > 388 /\ ((k - 1) % 388) + 1 \in 2 .. 385 /\ (((k - 1) % 388) + 1) % 3 = 0
         /\ trace[k].name = "gemm" <=> k \in 2 .. 385 /\ k % 3 = 0
<1> DEFINE o == ((k - 1) % 388) + 1
<1>1. n \in Nat \ {0} /\ TraceIs(trace, n, a, b)
  BY DEF Served
<1>2. o \in 1 .. 388 /\ (k <= 388 => o = k)
  BY <1>1
<1>3. trace[k].name = (IF k <= 388 THEN a ELSE b)[o]
  BY <1>1 DEF TraceIs, NameAt
<1>4. DOMAIN trace = 1 .. 388 * n
  BY <1>1 DEF TraceIs
<1> HIDE DEF o
<1>5. StepNames(a, "gemm", "sum") /\ StepNames(b, "splitk", "reduce")
  BY SMTT(30) DEF Served
<1>6. (a[o] = "gemm" <=> IsProduct(o)) /\ a[o] # "splitk"
  BY <1>2, <1>5, GemmPlaces
<1>7. (b[o] = "splitk" <=> IsProduct(o)) /\ b[o] # "gemm"
  BY <1>2, <1>5, SplitPlaces
<1>8. IsProduct(o) <=> o \in 2 .. 385 /\ o % 3 = 0
  BY DEF IsProduct
<1>9. CASE k <= 388
  <2>1. trace[k].name = a[o] /\ o = k
    BY <1>2, <1>3, <1>9
  <2> QED BY <1>4, <1>6, <1>8, <1>9, <2>1 DEF o
<1>10. CASE k > 388
  <2>1. trace[k].name = b[o]
    BY <1>3, <1>10
  <2>2. k \notin 2 .. 385
    BY <1>10
  <2> QED BY <1>4, <1>7, <1>8, <1>10, <2>1, <2>2, ZenonT(60) DEF o
<1> QED BY <1>9, <1>10

\* The GEMVs of a trace are 128 for each decode step, at the places of GemvPlace.
LEMMA GemvsAre ==
  ASSUME NEW n, NEW a, NEW b, Served(n, a, b)
  PROVE  /\ Launches("splitk") = Places(GemvPlaces(128 * (n - 1)), 128 * (n - 1))
         /\ 128 * (n - 1) \in Nat
<1> DEFINE N == 128 * (n - 1)
           P == GemvPlaces(N)
<1>1. n \in Nat \ {0} /\ N \in Nat
  BY DEF Served
<1>2. DOMAIN trace = 1 .. 388 * n
  BY <1>1 DEF Served, TraceIs
<1>3. Launches("splitk") = {k \in 1 .. 388 * n : trace[k].name = "splitk"}
  BY <1>2 DEF Launches
<1>4. \A i \in 0 .. N - 1 : P[i] = GemvPlace(i)
  BY <1>1, GemvsIncrease
<1>5. \A j \in 1 .. 388 * n :
        trace[j].name = "splitk" <=>
          j > 388 /\ ((j - 1) % 388) + 1 \in 2 .. 385 /\ (((j - 1) % 388) + 1) % 3 = 0
  BY ServedNames
<1> HIDE DEF P
<1>6. ASSUME NEW k \in 1 .. 388 * n, trace[k].name = "splitk"
      PROVE  \E i \in 0 .. N - 1 : k = P[i]
  <2> DEFINE m == (k - 1) \div 388
             o == ((k - 1) % 388) + 1
             p == o \div 3 - 1
             i == 128 * (m - 1) + p
  <2>1. k > 388 /\ o \in 2 .. 385 /\ o % 3 = 0
    BY <1>6, <1>5
  <2>2. m \in 1 .. n - 1 /\ k = 388 * m + o
    BY <1>1, <2>1
  <2>3. p \in 0 .. 127 /\ o = 3 * p + 3
    BY <2>1
  <2> HIDE DEF m, o, p
  <2>4. i \in 0 .. N - 1 /\ i \div 128 = m - 1 /\ i % 128 = p
    BY <1>1, <2>2, <2>3
  <2>5. GemvPlace(i) = 388 * (m - 1 + 1) + 3 * p + 3
    BY <2>4 DEF GemvPlace
  <2> HIDE DEF i
  <2>6. k = GemvPlace(i)
    BY <2>2, <2>3, <2>5
  <2> QED BY <1>4, <2>4, <2>6
<1>7. ASSUME NEW i \in 0 .. N - 1
      PROVE  P[i] \in 1 .. 388 * n /\ trace[P[i]].name = "splitk"
  <2> DEFINE m == i \div 128
             p == i % 128
             k == 388 * (m + 1) + 3 * p + 3
  <2>1. m \in 0 .. n - 2 /\ p \in 0 .. 127
    BY <1>1
  <2>2. P[i] = k
    BY <1>4 DEF GemvPlace
  <2> HIDE DEF m, p
  <2>3. k \in 1 .. 388 * n /\ k > 388
    BY <1>1, <2>1
  <2>4. ((k - 1) % 388) + 1 = 3 * p + 3
    BY <2>1
  <2>5. 3 * p + 3 \in 2 .. 385 /\ (3 * p + 3) % 3 = 0
    BY <2>1
  <2> HIDE DEF k
  <2>6. trace[k].name = "splitk"
    BY <1>5, <2>3, <2>4, <2>5
  <2> QED BY <2>2, <2>3, <2>6
<1>8. Launches("splitk") = Places(P, N)
  BY <1>3, <1>6, <1>7 DEF Places
<1> QED BY <1>1, <1>8 DEF P

\* Where the script that counts cuts a trace of n steps.
LEMMA CountedCut ==
  ASSUME NEW n, NEW a, NEW b, Served(n, a, b)
  PROVE  LET gemvs == Launches("splitk")
             starts == (Cardinality(gemvs) + 127) \div 128
             k == starts \div 2 IN
         /\ starts = n - 1
         /\ k + 1 < starts => /\ Nth(128 * k, gemvs) = 388 * (k + 1) + 3
                              /\ Nth(128 * (k + 1), gemvs) = 388 * (k + 2) + 3
<1> DEFINE N == 128 * (n - 1)
           P == GemvPlaces(N)
           gemvs == Launches("splitk")
           starts == (Cardinality(gemvs) + 127) \div 128
           k == starts \div 2
<1>1. n \in Nat \ {0} /\ N \in Nat
  BY DEF Served
<1>2. gemvs = Places(P, N)
  BY GemvsAre
<1>3. Increasing(P, N) /\ \A i \in 0 .. N - 1 : P[i] = GemvPlace(i)
  BY <1>1, GemvsIncrease
<1> HIDE DEF P, gemvs
<1>4. Cardinality(gemvs) = N
  BY <1>1, <1>2, <1>3, CountPlaces
<1>5. starts = n - 1
  BY <1>1, <1>4
<1>6. ASSUME k + 1 < starts
      PROVE  /\ Nth(128 * k, gemvs) = 388 * (k + 1) + 3
             /\ Nth(128 * (k + 1), gemvs) = 388 * (k + 2) + 3
  <2>1. k \in Nat /\ 128 * k \in 0 .. N - 1 /\ 128 * (k + 1) \in 0 .. N - 1
    BY <1>1, <1>5, <1>6
  <2> HIDE DEF k, N, starts
  <2>2. \A i \in 0 .. N - 1 : Nth(i, gemvs) = GemvPlace(i)
    BY <1>1, <1>2, <1>3, NthPlace
  <2>3. GemvPlace(128 * k) = 388 * (k + 1) + 3
    BY <2>1 DEF GemvPlace
  <2>4. GemvPlace(128 * (k + 1)) = 388 * (k + 2) + 3
    <3>1. (128 * (k + 1)) \div 128 = k + 1 /\ (128 * (k + 1)) % 128 = 0
      BY <2>1
    <3> QED BY <2>1, <3>1 DEF GemvPlace
  <2> QED BY <2>1, <2>2, <2>3, <2>4
<1> QED BY <1>5, <1>6 DEF gemvs

\* The two kinds of step that a trace of the intended model has.
LEMMA TheSteps ==
  ASSUME AsIntended
  PROVE  /\ StepNames(StepKernels(prompt), "gemm", "sum")
         /\ StepNames(StepKernels(1), "splitk", "reduce")
<1>1. model = Intended(model.norm) /\ prompt # 1
  BY DEF AsIntended
<1>2. Product(prompt)[1] = "gemm" /\ Product(prompt)[2] = "sum"
  BY <1>1 DEF Product
<1>3. Product(1)[1] = "splitk" /\ Product(1)[2] = "reduce"
  BY DEF Product
<1>4. StepNames(StepKernels(prompt), Product(prompt)[1], Product(prompt)[2])
  BY <1>1, IntendedStep
<1>5. StepNames(StepKernels(1), Product(1)[1], Product(1)[2])
  BY <1>1, IntendedStep
<1> QED BY <1>2, <1>3, <1>4, <1>5

Apart == KernelTime + Gap
Late == LmHeadTime - KernelTime

\* The times of the kernels: lm_head lasts beyond the margin of 1 ms.
LEMMA TimesAreNat ==
  /\ KernelTime \in Nat /\ LmHeadTime \in Nat /\ Apart \in Nat /\ Late \in Nat
  /\ KernelTime <= Apart /\ Late > 1000
  /\ Stalls \subseteq Nat
BY DecodeCensusAssumption DEF Apart, Late

\* As many of a set are before a later place, or more.
LEMMA EarlierGrows ==
  ASSUME NEW n \in Nat, NEW S, S \subseteq 1 .. n,
         NEW i \in 1 .. n, NEW j \in 1 .. n, i <= j
  PROVE  /\ Earlier(S, i) \in Nat /\ Earlier(S, j) \in Nat
         /\ Earlier(S, i) <= Earlier(S, j)
         /\ \A q \in S : i <= q /\ q < j => Earlier(S, i) + 1 <= Earlier(S, j)
<1> DEFINE Below(k) == {p \in S : p < k}
<1>1. IsFiniteSet(1 .. n) /\ Cardinality(1 .. n) = n
  BY FS_Interval
<1>2. Below(j) \subseteq 1 .. n
  OBVIOUS
<1>3. Below(i) \subseteq Below(j)
  <2>1. ASSUME NEW p \in S, p < i PROVE p < j
    <3>1. p \in Int /\ i \in Int /\ j \in Int
      OBVIOUS
    <3> QED BY <2>1, <3>1
  <2> QED BY <2>1
<1>4. \A q \in S : i <= q /\ q < j => q \in Below(j) /\ q \notin Below(i)
  OBVIOUS
<1>5. Earlier(S, i) = Cardinality(Below(i)) /\ Earlier(S, j) = Cardinality(Below(j))
  BY DEF Earlier
<1> HIDE DEF Below
<1>6. IsFiniteSet(Below(j))
  BY <1>1, <1>2, FS_Subset
<1>7. /\ IsFiniteSet(Below(i)) /\ Cardinality(Below(i)) <= Cardinality(Below(j))
      /\ Cardinality(Below(j)) = Cardinality(Below(i)) => Below(j) = Below(i)
  BY <1>3, <1>6, FS_Subset
<1>8. Cardinality(Below(i)) \in Nat /\ Cardinality(Below(j)) \in Nat
  BY <1>6, <1>7, FS_CardinalityType
<1>9. \A q \in S : i <= q /\ q < j => Cardinality(Below(i)) # Cardinality(Below(j))
  BY <1>4, <1>7
<1>10. \A q \in S : i <= q /\ q < j => Cardinality(Below(i)) + 1 <= Cardinality(Below(j))
  BY <1>7, <1>8, <1>9
<1> QED BY <1>5, <1>7, <1>8, <1>10

\* More of a time is more time.
LEMMA TimesMore ==
  \A t, x, y \in Nat :
    x <= y =>
      /\ t * x \in Nat /\ t * y \in Nat /\ t * x <= t * y
      /\ (x + 1 <= y => t * x + t <= t * y)
<1> SUFFICES ASSUME NEW t \in Nat, NEW x \in Nat, NEW y \in Nat, x <= y
             PROVE  /\ t * x \in Nat /\ t * y \in Nat /\ t * x <= t * y
                    /\ (x + 1 <= y => t * x + t <= t * y)
  OBVIOUS
<1>1. t * x \in Nat /\ t * y \in Nat /\ t * (y - x) \in Nat
  OBVIOUS
<1>2. t * y = t * x + t * (y - x)
  OBVIOUS
<1>3. x + 1 <= y => t * (y - x) = t + t * (y - x - 1) /\ t * (y - x - 1) \in Nat
  OBVIOUS
<1> QED BY <1>1, <1>2, <1>3

\* The starts of the kernels of a step of n: one after the other, and those behind lm_head
\* later than those before it by what lm_head takes.
ElapsedInOrder(names, n) ==
  \A i, j \in 1 .. n :
    i <= j =>
      /\ Elapsed(names, i) \in Nat /\ Elapsed(names, j) \in Nat
      /\ Elapsed(names, i) <= Elapsed(names, j)
      /\ \A q \in i .. j - 1 :
           names[q] = "lm_head" => Elapsed(names, i) + Late <= Elapsed(names, j)

\* The kernels of a step start in order.
LEMMA StepInOrder ==
  ASSUME model \in Models, NEW names, names \in Seq(KernelNames), NEW n, n = Len(names)
  PROVE  ElapsedInOrder(names, n)
<1> DEFINE Of(name) == {p \in DOMAIN names : names[p] = name}
           norms == Of("norm")
           heads == Of("lm_head")
           a == Longer("norm")
<1>1. DOMAIN names = 1 .. n /\ n \in Nat
  OBVIOUS
<1>2. norms \subseteq 1 .. n
  BY <1>1
<1>3. heads \subseteq 1 .. n
  BY <1>1
<1>4. a \in Nat /\ Longer("lm_head") = Late
  <2>1. Duration("norm") = model.norm /\ Duration("lm_head") = LmHeadTime
    BY DEF Duration
  <2>2. model.norm \in Nat /\ model.norm >= KernelTime
    BY DecodeCensusAssumption
  <2> QED BY <2>1, <2>2, TimesAreNat DEF Longer, Late
<1>5. Late \in Nat /\ Apart \in Nat
  BY TimesAreNat
<1>6. ASSUME NEW i \in 1 .. n
      PROVE  Elapsed(names, i)
               = (i - 1) * Apart + a * Earlier(norms, i) + Late * Earlier(heads, i)
  BY <1>4 DEF Elapsed, Apart
<1>7. ASSUME NEW i \in 1 .. n, NEW j \in 1 .. n, NEW q \in i .. j - 1, names[q] = "lm_head"
      PROVE  q \in heads /\ i <= q /\ q < j
  BY <1>1, <1>7
<1> HIDE DEF norms, heads, a
<1>8. ASSUME NEW i \in 1 .. n, NEW j \in 1 .. n, i <= j
      PROVE  /\ Elapsed(names, i) \in Nat /\ Elapsed(names, j) \in Nat
             /\ Elapsed(names, i) <= Elapsed(names, j)
             /\ \A q \in i .. j - 1 :
                  names[q] = "lm_head" => Elapsed(names, i) + Late <= Elapsed(names, j)
  <2> DEFINE k == i - 1
             m == j - 1
             x == Earlier(norms, i)
             y == Earlier(norms, j)
             v == Earlier(heads, i)
             w == Earlier(heads, j)
  <2>1. x \in Nat /\ y \in Nat /\ x <= y
    BY <1>1, <1>2, <1>8, EarlierGrows
  <2>2. v \in Nat /\ w \in Nat /\ v <= w
    BY <1>1, <1>3, <1>8, EarlierGrows
  <2>3. ASSUME NEW q \in i .. j - 1, names[q] = "lm_head" PROVE v + 1 <= w
    BY <1>1, <1>3, <1>7, <1>8, <2>3, EarlierGrows
  <2>4. k \in Nat /\ m \in Nat /\ k <= m
    BY <1>1, <1>8
  <2>5. Elapsed(names, i) = k * Apart + a * x + Late * v
    BY <1>6
  <2>6. Elapsed(names, j) = m * Apart + a * y + Late * w
    BY <1>6
  <2> HIDE DEF k, m, x, y, v, w
  <2>7. k * Apart \in Nat /\ m * Apart \in Nat /\ k * Apart <= m * Apart
    <3>1. k * Apart = Apart * k /\ m * Apart = Apart * m
      BY <1>5, <2>4
    <3> QED BY <1>5, <2>4, <3>1, TimesMore
  <2>8. a * x \in Nat /\ a * y \in Nat /\ a * x <= a * y
    BY <1>4, <2>1, TimesMore
  <2>9. Late * v \in Nat /\ Late * w \in Nat /\ Late * v <= Late * w
    BY <1>5, <2>2, TimesMore
  <2>10. v + 1 <= w => Late * v + Late <= Late * w
    BY <1>5, <2>2, TimesMore
  <2> DEFINE ka == k * Apart
             ma == m * Apart
             ax == a * x
             ay == a * y
             lv == Late * v
             lw == Late * w
  <2>11. /\ ka \in Nat /\ ma \in Nat /\ ax \in Nat /\ ay \in Nat /\ lv \in Nat /\ lw \in Nat
         /\ ka <= ma /\ ax <= ay /\ lv <= lw /\ (v + 1 <= w => lv + Late <= lw)
         /\ Elapsed(names, i) = ka + ax + lv /\ Elapsed(names, j) = ma + ay + lw
    BY <2>5, <2>6, <2>7, <2>8, <2>9, <2>10
  <2> HIDE DEF ka, ma, ax, ay, lv, lw
  <2>12. Elapsed(names, i) \in Nat /\ Elapsed(names, j) \in Nat
    BY <2>11
  <2>13. Elapsed(names, i) <= Elapsed(names, j)
    BY <2>11
  <2>14. ASSUME NEW q \in i .. j - 1, names[q] = "lm_head"
         PROVE  Elapsed(names, i) + Late <= Elapsed(names, j)
    <3>1. v + 1 <= w
      BY <2>3, <2>14
    <3> QED BY <1>5, <2>11, <3>1
  <2> QED BY <2>12, <2>13, <2>14
<1> QED BY <1>8, Zenon DEF ElapsedInOrder

\* What is in the trace of the intended model, and what the scripts took out of it.
TraceInv ==
  /\ model \in Models
  /\ AsIntended /\ tool = "trace" =>
       /\ phase \in {"tracing", "counted", "timed", "failed"}
       /\ forwards \in Nat
       /\ TraceIs(trace, forwards, StepKernels(prompt), StepKernels(1))
       /\ forwards > 0 => /\ PromptTimes(trace, Late)
                          /\ DecodeTimes(trace, forwards, Apart)
       /\ phase = "failed" => forwards < 4
       /\ phase = "counted" =>
            \E m \in Nat : m >= 1 /\ m + 2 <= forwards /\ cut = 388 * m + 3 .. 388 * m + 390
       /\ phase = "timed" =>
            forwards > 0 /\ cut = {k \in DOMAIN trace : trace[k].ts > LastGemm + 1000}

\* A forward that is traced is one more step.
LEMMA OneMoreForward ==
  ASSUME AsIntended, model \in Models, forwards \in Nat,
         TraceIs(trace, forwards, StepKernels(prompt), StepKernels(1)),
         forwards > 0 => /\ PromptTimes(trace, Late)
                         /\ DecodeTimes(trace, forwards, Apart),
         NEW stall \in Stalls, TraceForward(stall)
  PROVE  /\ forwards' = forwards + 1
         /\ TraceIs(trace', forwards + 1, StepKernels(prompt), StepKernels(1))
         /\ PromptTimes(trace', Late) /\ DecodeTimes(trace', forwards + 1, Apart)
<1> DEFINE names == StepKernels(RowsIn(forwards))
           start == IF trace = <<>> THEN 0 ELSE trace[Len(trace)].ts + KernelTime + Gap
           Kern(i) == [name |-> names[i], step |-> forwards + 1,
                       ts |-> start + stall + Elapsed(names, i)]
           u == [i \in 1 .. Len(names) |-> Kern(i)]
<1>1. trace' = trace \o u /\ forwards' = forwards + 1
  BY DEF TraceForward
<1>2. names = IF forwards = 0 THEN StepKernels(prompt) ELSE StepKernels(1)
  BY DEF RowsIn
<1> HIDE DEF names
<1>3. StepNames(names, "gemm", "sum") \/ StepNames(names, "splitk", "reduce")
  <2>1. CASE forwards = 0
    BY <1>2, <2>1, TheSteps
  <2>2. CASE forwards # 0
    BY <1>2, <2>2, TheSteps
  <2> QED BY <2>1, <2>2
<1>4. names \in Seq(KernelNames) /\ Len(names) = 388
  BY <1>3, ZenonT(60) DEF StepNames
<1>5. names \in Seq(KernelNames)
  BY <1>4
<1>6. ElapsedInOrder(names, 388) /\ names[387] = "lm_head"
  <2>1. names[387] = "lm_head"
    BY <1>3, ZenonT(60) DEF StepNames
  <2> QED BY <1>4, <2>1, StepInOrder
<1>7. start \in Nat /\ (forwards > 0 => start = trace[388 * forwards].ts + Apart)
  <2>1. trace \in Seq(Event) /\ Len(trace) = 388 * forwards
    BY Zenon DEF TraceIs
  <2>2. CASE trace = <<>>
    <3>1. forwards = 0
      BY <2>1, <2>2
    <3> QED BY <2>2, <3>1
  <2>3. CASE trace # <<>>
    <3>1. Len(trace) \in 1 .. Len(trace)
      BY <2>1, <2>3
    <3>2. trace[Len(trace)] \in Event
      BY <2>1, <3>1
    <3>3. trace[Len(trace)].ts \in Nat
      BY <3>2 DEF Event
    <3>4. start = trace[388 * forwards].ts + KernelTime + Gap
      BY <2>1, <2>3
    <3>5. start = trace[Len(trace)].ts + Apart
      BY <2>1, <3>3, <3>4, DecodeCensusAssumption, SMTT(30) DEF Apart
    <3> QED BY <2>1, <3>3, <3>5, TimesAreNat
  <2> QED BY <2>2, <2>3
<1> HIDE DEF start
<1>8. stall \in Nat /\ start + stall \in Nat /\ start + stall >= start
  BY <1>7, TimesAreNat
<1> DEFINE At(o) == start + stall + Elapsed(names, o)
<1>9. ASSUME NEW i \in 1 .. 388, NEW j \in 1 .. 388, i <= j
      PROVE  /\ Elapsed(names, i) \in Nat /\ Elapsed(names, j) \in Nat
             /\ Elapsed(names, i) <= Elapsed(names, j)
             /\ \A q \in i .. j - 1 :
                  names[q] = "lm_head" => Elapsed(names, i) + Late <= Elapsed(names, j)
  BY <1>6, <1>9, Zenon DEF ElapsedInOrder
<1>10. ASSUME NEW i \in 1 .. 388, NEW j \in 1 .. 388, i <= j
      PROVE  /\ At(i) \in Nat /\ At(i) >= start /\ At(j) \in Nat /\ At(i) <= At(j)
             /\ \A q \in i .. j - 1 : names[q] = "lm_head" => At(i) + Late <= At(j)
  <2> DEFINE e == Elapsed(names, i)
             f == Elapsed(names, j)
             b == start + stall
  <2>1. e \in Nat /\ f \in Nat /\ e <= f
    BY <1>9, <1>10
  <2>2. \A q \in i .. j - 1 : names[q] = "lm_head" => e + Late <= f
    BY <1>9, <1>10
  <2>3. b \in Nat /\ b >= start /\ start \in Nat /\ Late \in Nat
    BY <1>7, <1>8, TimesAreNat
  <2>4. At(i) = b + e /\ At(j) = b + f
    OBVIOUS
  <2> HIDE DEF e, f, b, At
  <2>5. At(i) \in Nat /\ At(i) >= start /\ At(j) \in Nat /\ At(i) <= At(j)
    BY <2>1, <2>3, <2>4
  <2>6. ASSUME NEW q \in i .. j - 1, names[q] = "lm_head" PROVE At(i) + Late <= At(j)
    <3>1. e + Late <= f
      BY <2>2, <2>6
    <3> QED BY <2>1, <2>3, <2>4, <3>1
  <2> QED BY <2>5, <2>6
<1>11. ASSUME NEW o \in 1 .. 388
      PROVE  /\ u[o] = Kern(o) /\ Kern(o) \in Event
             /\ Kern(o).name = names[o] /\ Kern(o).step = forwards + 1
             /\ Kern(o).ts = At(o)
  <2>1. u[o] = Kern(o)
    BY <1>4
  <2>2. Kern(o) = [name |-> names[o], step |-> forwards + 1, ts |-> At(o)]
    OBVIOUS
  <2> HIDE DEF At, Kern, u
  <2>3. names[o] \in KernelNames
    <3>1. \A i \in 1 .. Len(names) : names[i] \in KernelNames
      BY <1>5, Members
    <3>2. o \in 1 .. Len(names)
      BY <1>4, SMTT(30)
    <3> QED BY <3>1, <3>2, ZenonT(30)
  <2>4. At(o) \in Nat
    <3>1. o <= o
      OBVIOUS
    <3> QED BY <1>10, <3>1, ZenonT(60)
  <2>5. Kern(o) \in Event
    BY <2>2, <2>3, <2>4 DEF Event
  <2> QED BY <2>1, <2>2, <2>5
<1>12. u \in Seq(Event) /\ Len(u) = 388
  <2>1. u = [i \in 1 .. 388 |-> Kern(i)]
    BY <1>4, SMTT(30)
  <2>2. \A i \in 1 .. 388 : Kern(i) \in Event
    BY <1>11
  <2> HIDE DEF Kern, u
  <2> QED BY <2>1, <2>2
<1> HIDE DEF u, Kern
<1> HIDE DEF At
<1>13. IsStep(u, names, forwards + 1, start, Late)
  <2>1. ASSUME NEW o \in 1 .. 388
        PROVE  u[o].name = names[o] /\ u[o].step = forwards + 1 /\ u[o].ts = At(o)
    BY <1>11
  <2>2. ASSUME NEW o \in 1 .. 388 PROVE u[o].ts >= start
    <3>1. o <= o
      OBVIOUS
    <3>2. At(o) >= start
      BY <1>10, <3>1
    <3> QED BY <2>1, <3>2
  <2>3. ASSUME NEW i \in 1 .. 388, NEW j \in 1 .. 388, i <= j PROVE u[i].ts <= u[j].ts
    <3>1. At(i) <= At(j)
      BY <1>10, <2>3
    <3>2. u[i].ts = At(i) /\ u[j].ts = At(j)
      BY <2>1
    <3> QED BY <3>1, <3>2
  <2>4. u[388].ts >= u[384].ts + Late
    <3> DEFINE i == 384
               j == 388
               q == 387
    <3>1. i \in 1 .. 388 /\ j \in 1 .. 388 /\ i <= j /\ q \in i .. j - 1
      OBVIOUS
    <3>2. names[q] = "lm_head"
      BY <1>6
    <3> HIDE DEF i, j, q
    <3>3. /\ At(i) \in Nat /\ At(j) \in Nat
          /\ \A p \in i .. j - 1 : names[p] = "lm_head" => At(i) + Late <= At(j)
      BY <1>10, <3>1
    <3>4. At(i) + Late <= At(j)
      BY <3>1, <3>2, <3>3
    <3>5. u[i].ts = At(i) /\ u[j].ts = At(j)
      BY <2>1, <3>1
    <3>6. u[j].ts >= u[i].ts + Late
      BY <3>3, <3>4, <3>5, TimesAreNat
    <3> QED BY <3>6 DEF i, j
  <2>5. \A i, j \in 1 .. 388 : i <= j => u[i].ts <= u[j].ts
    BY <2>3
  <2>6. PromptTimes(u, Late)
    BY <2>4, <2>5 DEF PromptTimes
  <2> QED BY <1>12, <2>1, <2>2, <2>6, Zenon DEF IsStep
<1>14. TraceIs(trace \o u, forwards + 1, StepKernels(prompt), StepKernels(1))
  BY <1>2, <1>13, TraceGrows
<1>15. PromptTimes(trace \o u, Late) /\ DecodeTimes(trace \o u, forwards + 1, Apart)
  <2>1. forwards > 0 => start >= trace[388 * forwards].ts + Apart
    <3>1. start \in Nat /\ (forwards > 0 => start = trace[388 * forwards].ts + Apart)
      BY <1>7
    <3> QED BY <3>1
  <2> QED BY <1>7, <1>13, <2>1, TimesAreNat, TimesGrow
<1> QED BY <1>1, <1>14, <1>15

\* The trace is one step for each forward, and a cut by count holds the kernels of one
\* decode step and the lead of the next; a cut by time is what begins 1 ms after the last
\* GEMM (step_topology.py:14-21, analyze_r12b.py:6-7).
THEOREM TraceInvariant == CensusSpec => []TraceInv
<1>1. CensusInit => TraceInv
  <2> SUFFICES ASSUME CensusInit PROVE TraceInv
    OBVIOUS
  <2>1. /\ model \in Models
        /\ tool = "trace" => phase = "tracing" /\ forwards = 0 /\ trace = <<>>
    BY DEF CensusInit
  <2>2. \A a, b : TraceIs(<<>>, 0, a, b)
    <3>1. <<>> \in Seq(Event) /\ Len(<<>>) = 0
      OBVIOUS
    <3> QED BY <3>1 DEF TraceIs
  <2> QED BY <2>1, <2>2 DEF TraceInv
<1>2. TraceInv => model \in Models
  BY DEF TraceInv
<1>3. TraceInv /\ [CensusNext]_censusVars => TraceInv'
  <2> SUFFICES ASSUME TraceInv, [CensusNext]_censusVars PROVE TraceInv'
    OBVIOUS
  <2>1. UNCHANGED <<model, prompt, tool>>
    BY DEF CensusNext, Forward, Clear, Divide, TraceForward, CutByCount, CutByTime,
           censusVars
  <2>2. model \in Models /\ model' \in Models
    BY <1>2, <2>1
  <2> SUFFICES ASSUME AsIntended', tool' = "trace" PROVE TraceInv'
    BY <2>2 DEF TraceInv
  <2>3. AsIntended /\ tool = "trace" /\ model = Intended(model.norm) /\ prompt > 1
    BY <2>1 DEF AsIntended
  <2> DEFINE a == StepKernels(prompt)
             b == StepKernels(1)
  <2>4. a' = a /\ b' = b
    BY <2>1 DEF StepKernels, BodyKernels, HeadKernels
  <2>5. /\ phase \in {"tracing", "counted", "timed", "failed"}
        /\ model \in Models /\ model' \in Models
        /\ forwards \in Nat /\ TraceIs(trace, forwards, a, b)
        /\ forwards > 0 => PromptTimes(trace, Late)
                           /\ DecodeTimes(trace, forwards, Apart)
    BY <2>1, <2>3 DEF TraceInv
  <2>6. /\ phase = "failed" => forwards < 4
        /\ phase = "counted" =>
             \E m \in Nat : m >= 1 /\ m + 2 <= forwards /\ cut = 388 * m + 3 .. 388 * m + 390
        /\ phase = "timed" =>
             forwards > 0 /\ cut = {k \in DOMAIN trace : trace[k].ts > LastGemm + 1000}
    BY <2>3 DEF TraceInv
  <2>7. ASSUME NEW stall \in Stalls, TraceForward(stall) PROVE TraceInv'
    <3>1. /\ forwards' = forwards + 1 /\ TraceIs(trace', forwards + 1, a, b)
          /\ PromptTimes(trace', Late) /\ DecodeTimes(trace', forwards + 1, Apart)
      BY <2>3, <2>5, <2>7, OneMoreForward
    <3>2. phase' = "tracing"
      BY <2>7 DEF TraceForward
    <3>3. TraceIs(trace', forwards', a', b')
      BY <2>4, <3>1
    <3> HIDE DEF a, b
    <3>4. forwards' \in Nat /\ DecodeTimes(trace', forwards', Apart)
      BY <2>5, <3>1
    <3> QED BY <2>5, <3>1, <3>2, <3>3, <3>4 DEF TraceInv, a, b
  <2>8. CASE CutByCount
    <3> DEFINE gemvs == Launches("splitk")
               starts == (Cardinality(gemvs) + 127) \div 128
               k == starts \div 2
    <3>1. Served(forwards, a, b)
      BY <2>3, <2>5, <2>8, TheSteps DEF Served, CutByCount
    <3>2. /\ starts = forwards - 1
          /\ k + 1 < starts => /\ Nth(128 * k, gemvs) = 388 * (k + 1) + 3
                               /\ Nth(128 * (k + 1), gemvs) = 388 * (k + 2) + 3
      BY <3>1, CountedCut
    <3>3. UNCHANGED <<trace, forwards>>
      BY <2>8 DEF CutByCount
    <3>4. TraceIs(trace', forwards', a', b')
      BY <2>4, <2>5, <3>3
    <3>5. forwards' \in Nat /\ (forwards' > 0 => PromptTimes(trace', Late)
                                                 /\ DecodeTimes(trace', forwards', Apart))
      BY <2>5, <3>3
    <3>6. IF k + 1 < starts
          THEN /\ cut' = Nth(128 * k, gemvs) .. Nth(128 * (k + 1), gemvs) - 1
               /\ phase' = "counted"
          ELSE phase' = "failed"
      BY <2>8 DEF CutByCount
    <3> HIDE DEF a, b, gemvs, starts
    <3>7. CASE k + 1 < starts
      <4> DEFINE m == k + 1
      <4>1. phase' = "counted" /\ cut' = 388 * m + 3 .. 388 * (k + 2) + 3 - 1
        BY <3>2, <3>6, <3>7
      <4>2. m \in Nat /\ m >= 1 /\ m + 2 <= forwards'
        BY <2>5, <3>2, <3>3, <3>7
      <4>3. 388 * (k + 2) + 3 - 1 = 388 * m + 390
        <5>1. k \in Nat
          <6>1. starts \in Nat
            BY <2>5, <3>2, <3>7
          <6> QED BY <6>1
        <5> HIDE DEF k
        <5> QED BY <5>1
      <4>4. \E q \in Nat : q >= 1 /\ q + 2 <= forwards'
                           /\ cut' = 388 * q + 3 .. 388 * q + 390
        BY <4>1, <4>2, <4>3
      <4> QED BY <2>5, <3>4, <3>5, <4>1, <4>4 DEF TraceInv, a, b
    <3>8. CASE ~(k + 1 < starts)
      <4>1. forwards' < 4
        BY <2>5, <3>2, <3>3, <3>8
      <4>2. phase' = "failed"
        BY <3>6, <3>8
      <4> QED BY <2>5, <3>4, <3>5, <4>1, <4>2 DEF TraceInv, a, b
    <3> QED BY <3>7, <3>8
  <2>9. CASE CutByTime
    <3>1. UNCHANGED <<trace, forwards>> /\ phase' = "timed" /\ forwards > 0
      BY <2>9 DEF CutByTime
    <3>2. LastGemm' = LastGemm
      BY <2>1, <3>1 DEF LastGemm, Launches, Duration
    <3>3. cut' = {k \in DOMAIN trace : trace[k].ts > LastGemm + 1000}
      BY <2>9 DEF CutByTime
    <3>4. cut' = {k \in DOMAIN trace' : trace'[k].ts > LastGemm' + 1000}
      BY <3>1, <3>2, <3>3
    <3>5. TraceIs(trace', forwards', a', b')
      BY <2>4, <2>5, <3>1
    <3>6. /\ forwards' \in Nat /\ forwards' > 0
          /\ PromptTimes(trace', Late) /\ DecodeTimes(trace', forwards', Apart)
      BY <2>5, <3>1
    <3> HIDE DEF a, b
    <3> QED BY <2>5, <3>1, <3>4, <3>5, <3>6 DEF TraceInv, a, b
  <2>10. CASE Forward \/ Clear \/ Divide \/ UNCHANGED censusVars
    <3>1. CASE Forward
      BY <2>3, <3>1 DEF Forward
    <3>2. CASE Clear
      BY <2>5, <3>2 DEF Clear
    <3>3. CASE Divide
      BY <2>5, <3>3 DEF Divide
    <3>4. CASE UNCHANGED censusVars
      <4>1. UNCHANGED <<phase, forwards, trace, cut>>
        BY <3>4 DEF censusVars
      <4>2. LastGemm' = LastGemm
        BY <2>1, <4>1 DEF LastGemm, Launches, Duration
      <4>3. TraceIs(trace', forwards', a', b')
        BY <2>4, <2>5, <4>1
      <4>4. /\ forwards' \in Nat
            /\ forwards' > 0 => PromptTimes(trace', Late)
                                /\ DecodeTimes(trace', forwards', Apart)
        BY <2>5, <4>1
      <4>5. phase' = "counted" =>
              \E m \in Nat : m >= 1 /\ m + 2 <= forwards'
                             /\ cut' = 388 * m + 3 .. 388 * m + 390
        BY <2>6, <4>1
      <4>6. phase' = "timed" =>
              forwards' > 0 /\ cut' = {k \in DOMAIN trace' : trace'[k].ts > LastGemm' + 1000}
        BY <2>6, <4>1, <4>2
      <4>7. /\ phase' = "failed" => forwards' < 4
            /\ phase' \in {"tracing", "counted", "timed", "failed"}
        BY <2>5, <2>6, <4>1
      <4> HIDE DEF a, b
      <4> QED BY <2>5, <4>3, <4>4, <4>5, <4>6, <4>7 DEF TraceInv, a, b
    <3> QED BY <2>10, <3>1, <3>2, <3>3, <3>4
  <2> QED BY <2>7, <2>8, <2>9, <2>10 DEF CensusNext
<1> QED BY <1>1, <1>3, PTL DEF CensusSpec

\* A trace that is not empty begins with the prompt's step.
LEMMA TraceServed ==
  ASSUME AsIntended, tool = "trace", TraceInv, forwards > 0
  PROVE  Served(forwards, StepKernels(prompt), StepKernels(1))
<1>1. forwards \in Nat /\ TraceIs(trace, forwards, StepKernels(prompt), StepKernels(1))
  BY DEF TraceInv
<1> QED BY <1>1, TheSteps DEF Served

\* The first GEMV of a decode step is its third kernel.
LEMMA Lead ==
  ASSUME NEW step, StepNames(step, "splitk", "reduce")
  PROVE  (CHOOSE p \in DOMAIN step :
            step[p] = "splitk" /\ \A q \in 1 .. p - 1 : step[q] # "splitk") = 3
<1>1. DOMAIN step = 1 .. 388
  BY DEF StepNames
<1>2. \A o \in 1 .. 388 : step[o] = "splitk" <=> IsProduct(o)
  BY SplitPlaces
<1>3. IsProduct(3) /\ ~IsProduct(1) /\ ~IsProduct(2)
  BY DEF IsProduct
<1>4. step[3] = "splitk" /\ step[1] # "splitk" /\ step[2] # "splitk"
  BY <1>2, <1>3
<1> DEFINE First(p) == step[p] = "splitk" /\ \A q \in 1 .. p - 1 : step[q] # "splitk"
<1>5. First(3)
  BY <1>4
<1>6. ASSUME NEW p \in 1 .. 388, First(p) PROVE p = 3
  <2>1. p # 1 /\ p # 2
    BY <1>4, <1>6
  <2>2. ASSUME p > 3 PROVE FALSE
    BY <1>4, <1>6, <2>2
  <2> QED BY <2>1, <2>2
<1> HIDE DEF First
<1>7. (CHOOSE p \in 1 .. 388 : First(p)) = 3
  BY <1>5, <1>6
<1> QED BY <1>1, <1>7 DEF First

\* The least of a range.
LEMMA MinOfRange ==
  ASSUME NEW i \in Int, NEW j \in Int, i <= j
  PROVE  Min(i .. j) = i
<1>1. i \in i .. j /\ \A y \in i .. j : i <= y
  OBVIOUS
<1>2. \A x \in i .. j : (\A y \in i .. j : x <= y) => x = i
  BY <1>1, SMTT(30)
<1> QED BY <1>1, <1>2 DEF Min

\* One decode step from its third kernel to the second of the next.
Turned(step) == SubSeq(step, 3, 388) \o Front(step, 2)

TurnedPlace(k) == IF k <= 386 THEN k + 2 ELSE k - 386

TurnedStep(step) == [k \in 1 .. 388 |-> step[TurnedPlace(k)]]

\* The kernels of a step, from the third on and then the first two.
LEMMA OneStep ==
  \A step : StepNames(step, "splitk", "reduce") => Turned(step) = TurnedStep(step)
<1> SUFFICES ASSUME NEW step, StepNames(step, "splitk", "reduce")
             PROVE  Turned(step) = TurnedStep(step)
  OBVIOUS
<1>1. Len(step) = 388 /\ step \in Seq(KernelNames)
  BY Zenon DEF StepNames
<1>2. step \in Seq(KernelNames)
  BY <1>1
<1>3. \A i \in 1 .. Len(step) : step[i] \in KernelNames
  BY <1>2, Members
<1>4. \A i \in 1 .. 388 : step[i] \in KernelNames
  <2>1. ASSUME NEW i \in 1 .. 388 PROVE i \in 1 .. Len(step)
    <3>1. Len(step) = 388
      BY <1>1
    <3> QED BY <3>1
  <2> QED BY <1>3, <2>1, Zenon
<1> DEFINE s == SubSeq(step, 3, 388)
           t == SubSeq(step, 1, 2)
           u == s \o t
<1>5. s \in Seq(KernelNames) /\ Len(s) = 386
  <2>1. \A i \in 3 .. 388 : step[i] \in KernelNames
    BY <1>4
  <2> QED BY <2>1, SubSeqProperties
<1>6. t \in Seq(KernelNames) /\ Len(t) = 2
  <2>1. \A i \in 1 .. 2 : step[i] \in KernelNames
    BY <1>4
  <2> QED BY <2>1, SubSeqProperties
<1>7. ASSUME NEW k \in 1 .. 386 PROVE s[k] = step[k + 2]
  BY SubSeqProperties
<1>8. t[1] = step[1] /\ t[2] = step[2]
  BY SubSeqProperties
<1>9. Turned(step) = u
  BY DEF Turned, Front
<1> HIDE DEF s, t
<1>10. u \in Seq(KernelNames) /\ IsJoin(u, s, t)
  <2>1. s \in Seq(KernelNames) /\ t \in Seq(KernelNames)
    BY <1>5, <1>6
  <2> QED BY <2>1, Joined
<1> HIDE DEF u
<1>11. Len(u) = 388
  BY <1>5, <1>6, <1>10 DEF IsJoin
<1>12. ASSUME NEW k \in 1 .. 386 PROVE u[k] = step[k + 2]
  <2>1. \A i \in 1 .. Len(s) : u[i] = s[i]
    BY <1>10 DEF IsJoin
  <2>2. u[k] = s[k]
    BY <1>5, <2>1
  <2> QED BY <1>7, <2>2
<1>13. u[387] = step[1] /\ u[388] = step[2]
  <2>1. u[Len(s) + 1] = t[1] /\ u[Len(s) + 2] = t[2]
    BY <1>6, <1>10 DEF IsJoin
  <2> QED BY <1>5, <1>8, <2>1
<1>14. ASSUME NEW k \in 1 .. 388 PROVE u[k] = step[TurnedPlace(k)]
  <2>1. CASE k <= 386
    <3>1. u[k] = step[k + 2]
      BY <1>12, <2>1, SMTT(30)
    <3>2. TurnedPlace(k) = k + 2
      BY <2>1 DEF TurnedPlace
    <3> QED BY <3>1, <3>2
  <2>2. CASE k = 387
    BY <1>13, <2>2 DEF TurnedPlace
  <2>3. CASE k = 388
    BY <1>13, <2>3 DEF TurnedPlace
  <2> QED BY <2>1, <2>2, <2>3
<1>15. u = [k \in 1 .. 388 |-> u[k]]
  BY <1>10, <1>11
<1> QED BY <1>9, <1>14, <1>15 DEF TurnedStep

\* Counting cuts exactly one decode step out of the trace, and finds one when there are
\* three.
THEOREM CutIsOneStepHolds == CensusSpec => []CutIsOneStep
<1>1. TraceInv => CutIsOneStep
  <2> SUFFICES ASSUME TraceInv, AsIntended, tool = "trace", phase = "counted"
               PROVE  LET first == Min(cut)
                          step == StepKernels(1)
                          lead == (CHOOSE p \in DOMAIN step :
                                     /\ step[p] = "splitk"
                                     /\ \A q \in 1 .. p - 1 : step[q] # "splitk") - 1 IN
                      [k \in 1 .. Cardinality(cut) |-> trace[first + k - 1].name]
                        = SubSeq(step, lead + 1, Len(step)) \o Front(step, lead)
    BY ZenonT(60) DEF TraceInv, CutIsOneStep
  <2>1. PICK m \in Nat : m >= 1 /\ m + 2 <= forwards /\ cut = 388 * m + 3 .. 388 * m + 390
    BY DEF TraceInv
  <2> DEFINE a == StepKernels(prompt)
             b == StepKernels(1)
             lead == (CHOOSE p \in DOMAIN b :
                        b[p] = "splitk" /\ \A q \in 1 .. p - 1 : b[q] # "splitk") - 1
             found == [k \in 1 .. Cardinality(cut) |-> trace[Min(cut) + k - 1].name]
  <2>2. forwards \in Nat /\ TraceIs(trace, forwards, a, b)
    BY DEF TraceInv
  <2>3. StepNames(b, "splitk", "reduce")
    BY TheSteps
  <2> HIDE DEF a, b
  <2>4. b \in Seq(KernelNames) /\ Len(b) = 388
    BY <2>3, Zenon DEF StepNames
  <2>5. lead = 2
    BY <2>3, Lead
  <2>6. Turned(b) = [k \in 1 .. 388 |-> b[TurnedPlace(k)]]
    BY <2>3, OneStep DEF TurnedStep
  <2> HIDE DEF lead
  <2>7. Min(cut) = 388 * m + 3
    BY <2>1, MinOfRange
  <2>8. Cardinality(cut) = 388
    BY <2>1, FS_Interval
  <2>9. found = [k \in 1 .. 388 |-> trace[388 * m + 2 + k].name]
    BY <2>7, <2>8
  <2>10. ASSUME NEW k \in 1 .. 388 PROVE trace[388 * m + 2 + k].name = b[TurnedPlace(k)]
    <3> DEFINE j == 388 * m + 2 + k
    <3>1. j \in 1 .. 388 * forwards /\ j > 388
      BY <2>1, <2>2
    <3>2. trace[j].name = b[((j - 1) % 388) + 1]
      BY <2>2, <3>1 DEF TraceIs, NameAt
    <3>3. ((j - 1) % 388) + 1 = TurnedPlace(k)
      <4>1. CASE k <= 386
        BY <4>1 DEF TurnedPlace
      <4>2. CASE k > 386
        BY <4>2, SMTT(30) DEF TurnedPlace
      <4> QED BY <4>1, <4>2
    <3> QED BY <3>2, <3>3
  <2>11. found = Turned(b)
    <3> HIDE DEF found
    <3> QED BY <2>6, <2>9, <2>10, ZenonT(60)
  <2>12. Turned(b) = SubSeq(b, lead + 1, Len(b)) \o Front(b, lead)
    BY <2>4, <2>5 DEF Turned
  <2> QED BY <2>11, <2>12 DEF found, lead, b
<1> QED BY <1>1, TraceInvariant, PTL

\* When the last GEMM of the prompt's step ends.
LEMMA LastGemmIs ==
  ASSUME NEW n, NEW a, NEW b, Served(n, a, b), PromptTimes(trace, Late)
  PROVE  LastGemm = trace[384].ts + KernelTime
<1> DEFINE gemms == Launches("gemm")
           Ends == {trace[k].ts + Duration("gemm") : k \in gemms}
           end == trace[384].ts + KernelTime
<1>1. n \in Nat \ {0} /\ trace \in Seq(Event) /\ Len(trace) = 388 * n
  BY ZenonT(60) DEF Served, TraceIs
<1>2. \A k \in 1 .. 388 * n :
        DOMAIN trace = 1 .. 388 * n /\ (trace[k].name = "gemm" <=> k \in 2 .. 385 /\ k % 3 = 0)
  BY ServedNames
<1>3. DOMAIN trace = 1 .. 388 * n
  BY <1>1
<1>4. ASSUME NEW k \in gemms PROVE k \in 1 .. 384
  <2>1. k \in 1 .. 388 * n /\ trace[k].name = "gemm"
    BY <1>3 DEF Launches
  <2>2. k \in 2 .. 385 /\ k % 3 = 0
    BY <1>2, <2>1
  <2> QED BY <2>2
<1>5. 384 \in gemms
  <2>1. 384 \in 1 .. 388 * n /\ 384 \in 2 .. 385 /\ 384 % 3 = 0
    BY <1>1
  <2>2. trace[384].name = "gemm"
    BY <1>2, <2>1
  <2> QED BY <1>3, <2>1, <2>2 DEF Launches
<1>6. Duration("gemm") = KernelTime /\ KernelTime \in Nat
  BY TimesAreNat DEF Duration
<1>7. ASSUME NEW k \in 1 .. 384
      PROVE  trace[k].ts \in Nat /\ trace[k].ts <= trace[384].ts
  <2>1. k \in 1 .. 388 /\ 384 \in 1 .. 388 /\ k <= 384 /\ k \in 1 .. Len(trace)
    BY <1>1
  <2>2. trace[k].ts <= trace[384].ts
    BY <2>1, ZenonT(60) DEF PromptTimes
  <2>3. trace[k] \in Event
    BY <1>1, <2>1
  <2> QED BY <2>2, <2>3 DEF Event
<1>8. trace[384].ts \in Nat
  BY <1>7
<1> HIDE DEF gemms
<1>9. \A k \in gemms : trace[k].ts \in Nat /\ trace[k].ts <= trace[384].ts
  BY <1>4, <1>7
<1>10. end \in Ends
  BY <1>5, <1>6
<1>11. \A x \in Ends : x \in Int /\ end >= x
  BY <1>6, <1>8, <1>9
<1>12. end \in Int
  BY <1>6, <1>8
<1>13. gemms # {}
  BY <1>5
<1>14. LastGemm = Max(Ends)
  BY <1>13 DEF LastGemm, gemms
<1> HIDE DEF Ends, end
<1>15. ASSUME NEW x \in Ends, \A y \in Ends : x >= y PROVE x = end
  BY <1>10, <1>11, <1>12, <1>15
<1>16. \A x \in Ends : end >= x
  BY <1>11
<1>17. Max(Ends) = end
  BY <1>10, <1>15, <1>16 DEF Max
<1> QED BY <1>14, <1>17 DEF end

ToolType == tool \in {"census", "trace"}

\* The region after the last GEMM has all the kernels of the decode steps, nothing from
\* before that GEMM, and 128 GEMVs for each decode step, however long a norm and a stall
\* take.
THEOREM RegionIsDecodeHolds == CensusSpec => []RegionIsDecode
<1>1. TraceInv /\ (tool = "census" => CensusInv) /\ ToolType
        => RegionIsDecode
  <2> SUFFICES ASSUME TraceInv, tool = "census" => CensusInv, ToolType,
                      AsIntended, phase = "timed"
               PROVE  /\ \A k \in DOMAIN trace : trace[k].step > 1 => k \in cut
                      /\ \A k \in cut, g \in Launches("gemm") : g < k
                      /\ Cardinality(cut \cap Launches("splitk")) = 128 * (forwards - 1)
    BY DEF RegionIsDecode
  <2> DEFINE a == StepKernels(prompt)
             b == StepKernels(1)
             n == forwards
             gemvs == Launches("splitk")
             gemms == Launches("gemm")
  <2>1. tool = "trace"
    BY DEF CensusInv, ToolType
  <2>2. /\ n \in Nat /\ n > 0 /\ TraceIs(trace, n, a, b)
        /\ PromptTimes(trace, Late) /\ DecodeTimes(trace, n, Apart)
        /\ cut = {j \in DOMAIN trace : trace[j].ts > LastGemm + 1000}
    BY <2>1 DEF TraceInv
  <2>3. Served(n, a, b)
    BY <2>1, <2>2, TraceServed
  <2>4. LastGemm = trace[384].ts + KernelTime
    BY <2>2, <2>3, LastGemmIs
  <2> HIDE DEF a, b
  <2>5. trace \in Seq(Event) /\ Len(trace) = 388 * n
    BY <2>2, ZenonT(60) DEF TraceIs
  <2>6. DOMAIN trace = 1 .. 388 * n
    BY <2>5
  <2>7. \A k \in 1 .. 388 * n : trace[k].ts \in Nat
    <3>1. \A k \in 1 .. 388 * n : trace[k] \in Event
      BY <2>5
    <3> QED BY <3>1 DEF Event
  <2>8. 384 \in 1 .. 388 * n /\ 388 \in 1 .. 388 * n
    BY <2>2
  <2>9. ASSUME NEW k \in 389 .. 388 * n PROVE k \in cut
    <3>1. trace[k].ts >= trace[388].ts + Apart
      BY <2>2 DEF DecodeTimes
    <3>2. trace[388].ts >= trace[384].ts + Late
      BY <2>2, Zenon DEF PromptTimes
    <3>3. k \in 1 .. 388 * n
      OBVIOUS
    <3>4. trace[k].ts \in Nat /\ trace[384].ts \in Nat /\ trace[388].ts \in Nat
      BY <2>7, <2>8, <3>3
    <3>5. trace[k].ts > LastGemm + 1000
      BY <2>4, <3>1, <3>2, <3>4, TimesAreNat
    <3> QED BY <2>2, <2>6, <3>3, <3>5
  <2>10. ASSUME NEW k \in DOMAIN trace, trace[k].step > 1 PROVE k \in cut
    <3>1. k \in 1 .. 388 * n /\ trace[k].step = (k - 1) \div 388 + 1
      BY <2>2, <2>6 DEF TraceIs
    <3>2. k \in 389 .. 388 * n
      BY <2>2, <2>10, <3>1
    <3> QED BY <2>9, <3>2
  <2>11. ASSUME NEW g \in gemms PROVE g \in 1 .. 384
    <3>1. g \in 1 .. 388 * n /\ trace[g].name = "gemm"
      BY <2>6 DEF Launches
    <3>2. g \in 2 .. 385 /\ g % 3 = 0
      BY <2>3, <3>1, ServedNames
    <3> QED BY <3>2
  <2>12. ASSUME NEW k \in cut, NEW g \in gemms PROVE g < k
    <3>1. k \in 1 .. 388 * n /\ trace[k].ts > LastGemm + 1000
      BY <2>2, <2>6
    <3>2. g \in 1 .. 384
      BY <2>11
    <3> HIDE DEF gemms
    <3>3. ASSUME k <= g PROVE FALSE
      <4>1. k \in 1 .. 388 /\ 384 \in 1 .. 388 /\ k <= 384
        BY <3>1, <3>2, <3>3
      <4>2. trace[k].ts <= trace[384].ts
        BY <2>2, <4>1, ZenonT(60) DEF PromptTimes
      <4>3. trace[k].ts \in Nat /\ trace[384].ts \in Nat
        BY <2>7, <2>8, <3>1
      <4> QED BY <2>4, <3>1, <4>2, <4>3, TimesAreNat
    <3> QED BY <3>1, <3>2, <3>3
  <2>13. cut \cap gemvs = gemvs
    <3>1. ASSUME NEW k \in gemvs PROVE k \in cut
      <4>1. k \in 1 .. 388 * n /\ trace[k].name = "splitk"
        BY <2>6 DEF Launches
      <4>2. k > 388
        BY <2>3, <4>1, ServedNames
      <4>3. k \in 389 .. 388 * n
        BY <2>2, <4>1, <4>2
      <4> QED BY <2>9, <4>3
    <3> QED BY <3>1
  <2>14. Cardinality(gemvs) = 128 * (n - 1)
    <3>1. gemvs = Places(GemvPlaces(128 * (n - 1)), 128 * (n - 1)) /\ 128 * (n - 1) \in Nat
      BY <2>3, GemvsAre
    <3> HIDE DEF gemvs
    <3>2. Increasing(GemvPlaces(128 * (n - 1)), 128 * (n - 1))
      BY <3>1, GemvsIncrease
    <3> QED BY <3>1, <3>2, CountPlaces
  <2> HIDE DEF gemvs, gemms
  <2>15. /\ \A k \in DOMAIN trace : trace[k].step > 1 => k \in cut
         /\ \A k \in cut, g \in gemms : g < k
         /\ Cardinality(cut \cap gemvs) = 128 * (n - 1)
    BY <2>10, <2>12, <2>13, <2>14
  <2> QED BY <2>15 DEF gemvs, gemms, n
<1>2. CensusInit => ToolType
  BY DEF CensusInit, ToolType
<1>3. ToolType /\ [CensusNext]_censusVars => ToolType'
  BY DEF CensusNext, Forward, Clear, Divide, TraceForward, CutByCount, CutByTime,
         censusVars, ToolType
<1>4. CensusSpec => []ToolType
  BY <1>2, <1>3, PTL DEF CensusSpec
<1> QED BY <1>1, <1>4, CensusInvariant, TraceInvariant, PTL
=============================================================================

---------------------------- MODULE SplitKProofs ----------------------------
(***************************************************************************)
(* Proofs about SplitK, for every number of calls, keys, devices, blocks   *)
(* and graphs: the types, the inductive invariant IInv, and what follows   *)
(* from it for the readers of the results.                                 *)
(***************************************************************************)
EXTENDS SplitKInv, SequenceTheorems, TLAPS

-----------------------------------------------------------------------------
(* Kernels, blocks and launches.                                           *)

LEMMA BlockFacts ==
  ASSUME NEW b \in Blocks
  PROVE  b[1] \in Devices /\ b # NoBlock
BY SplitKAssumption DEF Blocks

LEMMA KeyFacts ==
  ASSUME NEW k \in Keys
  PROVE  /\ DeviceOf(k) \in Devices
         /\ SplitOf(k) \in 1 .. MaxSplit
         /\ ShapeOf(k) \in Shapes
         /\ \A r \in Nat : r < SplitOf(k) => r \in Rows
<1>1. k[1] \in Nat /\ k[2] \in 1 .. MaxSplit /\ k[3] \in Devices
  BY SplitKAssumption
<1>2. ShapeOf(k) \in Shapes
  BY <1>1, SplitKAssumption DEF ShapeOf, Shapes
<1>3. QED
  BY <1>1, <1>2, SplitKAssumption DEF DeviceOf, SplitOf, Rows

\* The shape of a block that holds no buffer.
LEMMA NoShapeType == NoShape \in Shapes
BY DEF NoShape, Shapes

\* The three kinds of kernel and the fields each has.
LEMMA KernelFacts ==
  ASSUME NEW d \in Devices, NEW kern \in Kernels(d)
  PROVE  /\ kern.op \in {"gemv", "reduce", "use"}
         /\ kern.op \in {"gemv", "reduce"} =>
              /\ kern.call \in Nat /\ kern.key \in Keys /\ DeviceOf(kern.key) = d
              /\ kern.part \in Blocks
         /\ kern.op = "gemv" => Target(kern) = kern.part
         /\ kern.op = "reduce" => kern.out \in Blocks /\ Target(kern) = kern.out
         /\ kern.op = "use" => kern.reads \subseteq Nat \X Blocks /\ Target(kern) = NoBlock
BY DEF Kernels, Target

LEMMA StreamFacts ==
  ASSUME TypeOK, NEW d \in Devices
  PROVE  /\ stream[d] \in Seq(Kernels(d))
         /\ Len(stream[d]) \in Nat
         /\ DOMAIN stream[d] = 1 .. Len(stream[d])
         /\ \A i \in 1 .. Len(stream[d]) : stream[d][i] \in Kernels(d)
BY DEF TypeOK

\* A launch adds kernels at the end of one stream and changes nothing else.
LEMMA LaunchFacts ==
  ASSUME TypeOK, NEW d \in Devices, NEW ks \in Seq(Kernels(d)), Launch(d, ks)
  PROVE  /\ DOMAIN stream' = Devices
         /\ \A e \in Devices : stream'[e] \in Seq(Kernels(e))
         /\ \A e \in Devices : e # d => stream'[e] = stream[e]
         /\ Len(stream'[d]) = Len(stream[d]) + Len(ks)
         /\ \A i \in 1 .. Len(stream[d]) : stream'[d][i] = stream[d][i]
         /\ \A i \in 1 .. Len(ks) : stream'[d][Len(stream[d]) + i] = ks[i]
<1>1. stream[d] \in Seq(Kernels(d)) /\ stream'[d] = stream[d] \o ks
  BY DEF TypeOK, Launch
<1>2. /\ stream'[d] \in Seq(Kernels(d))
      /\ Len(stream'[d]) = Len(stream[d]) + Len(ks)
      /\ \A i \in 1 .. Len(stream[d]) + Len(ks) :
           stream'[d][i] = IF i <= Len(stream[d]) THEN stream[d][i] ELSE ks[i - Len(stream[d])]
  BY <1>1, ConcatProperties
<1>3. QED
  BY <1>1, <1>2 DEF TypeOK, Launch


\* What one action launches is a sequence of kernels of the stream it goes to.
LEMMA LaunchedKernels ==
  ASSUME NEW c \in Nat, NEW k \in Keys, NEW p \in Blocks, NEW o \in Blocks, NEW u \in Blocks
  PROVE  /\ <<Gemv(c, k, p)>> \in Seq(Kernels(DeviceOf(k)))
         /\ <<Reduce(c, k, p, o)>> \in Seq(Kernels(DeviceOf(k)))
         /\ << Gemv(c, k, p), Reduce(c, k, p, o),
               Gemv(c + 1, k, p), Reduce(c + 1, k, p, u),
               Use({<<c, o>>, <<c + 1, u>>}) >> \in Seq(Kernels(DeviceOf(k)))
<1>1. ASSUME NEW a \in Nat, NEW b \in Blocks
      PROVE  /\ Gemv(a, k, p) \in Kernels(DeviceOf(k))
             /\ Reduce(a, k, p, b) \in Kernels(DeviceOf(k))
  BY <1>1 DEF Gemv, Reduce, Kernels
<1>2. Use({<<c, o>>, <<c + 1, u>>}) \in Kernels(DeviceOf(k))
  <2>1. {<<c, o>>, <<c + 1, u>>} \in SUBSET (Nat \X Blocks)
    OBVIOUS
  <2>2. QED
    BY <2>1 DEF Use, Kernels
<1>3. c + 1 \in Nat
  OBVIOUS
<1>4. /\ Gemv(c, k, p) \in Kernels(DeviceOf(k))
      /\ Gemv(c + 1, k, p) \in Kernels(DeviceOf(k))
      /\ Reduce(c, k, p, o) \in Kernels(DeviceOf(k))
      /\ Reduce(c + 1, k, p, u) \in Kernels(DeviceOf(k))
  BY <1>1, <1>3
<1>5. QED
  BY <1>2, <1>4

-----------------------------------------------------------------------------
(* Types.                                                                  *)

LEMMA PartialsType ==
  ASSUME TypeOK, NEW k \in Keys, NEW p \in Blocks, SplitkPartials(k, p)
  PROVE  /\ cache' \in [Keys -> Blocks \cup {NoBlock}]
         /\ extent' \in [Blocks -> Shapes]
<1>1. ShapeOf(k) \in Shapes
  BY KeyFacts
<1>2. QED
  BY <1>1 DEF TypeOK, SplitkPartials

LEMMA TypeStep ==
  ASSUME TypeOK, [Next]_vars
  PROVE  TypeOK'
<1>1. ASSUME NEW k \in Keys, LaunchGemv(k)
      PROVE  TypeOK'
  <2>1. PICK p \in Blocks :
          /\ SplitkPartials(k, p)
          /\ asked' = Append(asked, k)
          /\ Launch(DeviceOf(k), <<Gemv(Len(asked) + 1, k, p)>>)
          /\ pending' = {[call |-> Len(asked) + 1, key |-> k, part |-> p]}
    BY <1>1 DEF LaunchGemv
  <2>2. asked' \in Seq(Keys) /\ Len(asked) + 1 \in Nat
    BY <2>1 DEF TypeOK
  <2>3. DOMAIN stream' = Devices /\ \A d \in Devices : stream'[d] \in Seq(Kernels(d))
    <3>1. /\ DeviceOf(k) \in Devices
          /\ <<Gemv(Len(asked) + 1, k, p)>> \in Seq(Kernels(DeviceOf(k)))
      BY <2>2, LaunchedKernels, KeyFacts
    <3>2. QED
      BY <2>1, <3>1, LaunchFacts
  <2>4. /\ cache' \in [Keys -> Blocks \cup {NoBlock}]
        /\ extent' \in [Blocks -> Shapes]
        /\ pending' \subseteq [call : Nat, key : Keys, part : Blocks]
    BY <2>1, <2>2, PartialsType
  <2>5. QED
    BY <1>1, <2>2, <2>3, <2>4 DEF LaunchGemv, TypeOK, gpuVars
<1>2. ASSUME NEW k \in Keys, CaptureLayer(k)
      PROVE  TypeOK'
  BY <1>2, PartialsType, SMTT(40) DEF CaptureLayer, TypeOK, gpuVars
<1>3. CASE LaunchReduce
  <2>1. PICK q \in pending, o \in Blocks :
          /\ Launch(DeviceOf(q.key), <<Reduce(q.call, q.key, q.part, o)>>)
          /\ held' = held \cup {<<q.call, o>>}
    BY <1>3 DEF LaunchReduce
  <2>2. q.call \in Nat /\ q.key \in Keys /\ q.part \in Blocks
    BY DEF TypeOK
  <2>3. DOMAIN stream' = Devices /\ \A d \in Devices : stream'[d] \in Seq(Kernels(d))
    <3>1. /\ DeviceOf(q.key) \in Devices
          /\ <<Reduce(q.call, q.key, q.part, o)>> \in Seq(Kernels(DeviceOf(q.key)))
      BY <2>2, LaunchedKernels, KeyFacts
    <3>2. QED
      BY <2>1, <3>1, LaunchFacts
  <2>4. QED
    BY <1>3, <2>1, <2>2, <2>3 DEF LaunchReduce, TypeOK, gpuVars
<1>4. CASE SecondHalfFails
  BY <1>4 DEF SecondHalfFails, TypeOK, gpuVars
<1>5. ASSUME NEW d \in Devices, NEW hs \in SUBSET held, Consume(d, hs)
      PROVE  TypeOK'
  <2>1. hs \in SUBSET (Nat \X Blocks)
    BY DEF TypeOK
  <2>2. DOMAIN stream' = Devices /\ \A e \in Devices : stream'[e] \in Seq(Kernels(e))
    <3>1. <<Use(hs)>> \in Seq(Kernels(d))
      BY <2>1 DEF Use, Kernels
    <3>2. QED
      BY <3>1, <1>5, LaunchFacts DEF Consume
  <2>3. QED
    BY <1>5, <2>2 DEF Consume, TypeOK, gpuVars
<1>6. ASSUME NEW h \in held, Drop(h)
      PROVE  TypeOK'
  BY <1>6 DEF Drop, TypeOK, gpuVars
<1>7. ASSUME NEW g \in graphs, Replay(g)
      PROVE  TypeOK'
  <2> DEFINE c == Len(asked) + 1
  <2>1. /\ g.key \in Keys /\ g.part \in Blocks /\ g.gate \in Blocks /\ g.up \in Blocks
        /\ c \in Nat /\ c + 1 \in Nat
    BY DEF TypeOK
  <2>2. << Gemv(c, g.key, g.part), Reduce(c, g.key, g.part, g.gate),
           Gemv(c + 1, g.key, g.part), Reduce(c + 1, g.key, g.part, g.up),
           Use({<<c, g.gate>>, <<c + 1, g.up>>}) >> \in Seq(Kernels(DeviceOf(g.key)))
    BY <2>1, LaunchedKernels, KeyFacts
  <2>3. DOMAIN stream' = Devices /\ \A d \in Devices : stream'[d] \in Seq(Kernels(d))
    BY <1>7, <2>1, <2>2, LaunchFacts, KeyFacts DEF Replay
  <2>4. asked' \in Seq(Keys)
    BY <1>7, <2>1, ConcatProperties DEF Replay, TypeOK
  <2>5. QED
    BY <1>7, <2>3, <2>4 DEF Replay, TypeOK, gpuVars
<1>8. ASSUME NEW d \in Devices, DeviceStep(d)
      PROVE  TypeOK'
  <2>1. Busy(d) => /\ head[d] + 1 \in 1 .. Len(stream[d])
                   /\ Running(d) \in Kernels(d)
    BY StreamFacts DEF Busy, Running, TypeOK
  <2>2. ASSUME NEW r \in Rows, GemvProgram(d, r)
        PROVE  TypeOK'
    <3>1. Running(d).part \in Blocks /\ Running(d).call \in Nat
      BY <2>1, <2>2, KernelFacts DEF GemvProgram
    <3>2. mem' \in [Blocks -> [Rows -> Nat]] /\ ran' \in [Devices -> SUBSET Rows]
      BY <2>2, <3>1 DEF GemvProgram, TypeOK
    <3>3. QED
      BY <2>2, <3>2 DEF GemvProgram, TypeOK, hostVars
  <2>3. CASE GemvEnds(d)
    BY <2>3 DEF GemvEnds, KernelEnds, TypeOK, hostVars
  <2>4. CASE ReduceRuns(d)
    <3>1. Running(d).part \in Blocks /\ Running(d).out \in Blocks
      BY <2>1, <2>4, KernelFacts DEF ReduceRuns
    <3>2. SumOfRows(Running(d).part, SplitOf(Running(d).key)) \in [Rows -> Nat]
      BY <3>1 DEF SumOfRows, TypeOK
    <3>3. mem' \in [Blocks -> [Rows -> Nat]] /\ head' \in [Devices -> Nat]
      BY <2>4, <3>1, <3>2 DEF ReduceRuns, KernelEnds, TypeOK
    <3>4. QED
      BY <2>4, <3>3 DEF ReduceRuns, TypeOK, hostVars
  <2>5. CASE UseRuns(d)
    <3>1. Running(d).reads \subseteq Nat \X Blocks
      BY <2>1, <2>5, KernelFacts DEF UseRuns
    <3>2. observed' \subseteq [call : Nat, value : [Rows -> Nat]]
      BY <2>5, <3>1 DEF UseRuns, TypeOK
    <3>3. QED
      BY <2>5, <3>2 DEF UseRuns, KernelEnds, TypeOK, hostVars
  <2>6. QED
    BY <1>8, <2>2, <2>3, <2>4, <2>5 DEF DeviceStep
<1>9. CASE UNCHANGED vars
  BY <1>9 DEF vars, TypeOK
<1>10. QED
  BY <1>1, <1>2, <1>3, <1>4, <1>5, <1>6, <1>7, <1>8, <1>9 DEF Next

\* Every variable of SplitK keeps its type.
THEOREM TypeCorrect == Spec => []TypeOK
<1>1. Init => TypeOK
  BY SplitKAssumption, NoShapeType DEF Init, TypeOK, Rows
<1>2. TypeOK /\ [Next]_vars => TypeOK'
  BY TypeStep
<1>3. QED
  BY <1>1, <1>2, PTL DEF Spec
-----------------------------------------------------------------------------
(* The inductive invariant: what launching does to the kernels.            *)

\* The kernels of a launch come after those that are there.
Launched(d, ks) ==
  /\ DOMAIN stream' = Devices
  /\ \A e \in Devices : e # d => stream'[e] = stream[e]
  /\ Len(stream'[d]) = Len(stream[d]) + Len(ks)
  /\ \A i \in 1 .. Len(stream[d]) : stream'[d][i] = stream[d][i]
  /\ \A i \in 1 .. Len(ks) : stream'[d][Len(stream[d]) + i] = ks[i]

LEMMA LaunchIsLaunched ==
  ASSUME TypeOK, NEW d \in Devices, NEW ks \in Seq(Kernels(d)), Launch(d, ks)
  PROVE  Launched(d, ks)
BY LaunchFacts DEF Launched

LEMMA KernelAtType ==
  ASSUME TypeOK, NEW d \in Devices, NEW i \in 1 .. Len(stream[d])
  PROVE  KernelAt(d, i) \in Kernels(d)
BY StreamFacts DEF KernelAt

\* Launching does not change whether a result was fresh after n kernels.
LEMMA FreshKept ==
  ASSUME TypeOK, NEW d \in Devices, NEW ks, Len(ks) \in Nat, Launched(d, ks),
         NEW e \in Devices, NEW n \in 0 .. Len(stream[e]), NEW h, Fresh(e, h, n)
  PROVE  Fresh(e, h, n)'
<1>1. Len(stream[e]) \in Nat
  BY StreamFacts
<1>2. \A i \in 1 .. Len(stream[e]) : stream'[e][i] = stream[e][i]
  <2>1. CASE e = d
    BY <2>1 DEF Launched
  <2>2. CASE e # d
    BY <2>2 DEF Launched
  <2>3. QED
    BY <2>1, <2>2
<1>3. \A i \in 1 .. n : stream'[e][i] = stream[e][i]
  BY <1>1, <1>2
<1>4. QED
  BY <1>3 DEF Fresh, KernelAt

\* A result stays fresh when none of the launched kernels writes its block.
LEMMA FreshExtended ==
  ASSUME TypeOK, NEW d \in Devices, NEW ks, Len(ks) \in Nat, Launched(d, ks),
         NEW e \in Devices, NEW h, Fresh(e, h, Len(stream[e])),
         \A i \in 1 .. Len(ks) : e = d => Target(ks[i]) # h[2]
  PROVE  Fresh(e, h, Len(stream[e]))'
<1>1. Len(stream[e]) \in Nat /\ Len(stream[d]) \in Nat
  BY StreamFacts
<1>2. CASE e # d
  <2>1. stream'[e] = stream[e]
    BY <1>2 DEF Launched
  <2>2. QED
    BY <2>1 DEF Fresh, KernelAt
<1>3. CASE e = d
  <2>1. PICK j \in 1 .. Len(stream[d]) :
          /\ stream[d][j].op = "reduce" /\ stream[d][j].call = h[1] /\ stream[d][j].out = h[2]
          /\ \A k \in 1 .. Len(stream[d]) : k > j => Target(stream[d][k]) # h[2]
    BY <1>3 DEF Fresh, KernelAt
  <2>2. ASSUME NEW k \in 1 .. Len(stream'[d]), k > j
        PROVE  Target(stream'[d][k]) # h[2]
    <3>1. CASE k <= Len(stream[d])
      BY <1>1, <2>1, <2>2, <3>1 DEF Launched
    <3>2. CASE k > Len(stream[d])
      <4>1. k - Len(stream[d]) \in 1 .. Len(ks)
        BY <1>1, <2>2, <3>2 DEF Launched
      <4>2. stream'[d][k] = ks[k - Len(stream[d])]
        BY <1>1, <2>2, <4>1 DEF Launched
      <4>3. QED
        BY <1>3, <4>1, <4>2
    <3>3. QED
      BY <1>1, <3>1, <3>2
  <2>3. j \in 1 .. Len(stream'[d]) /\ stream'[d][j] = stream[d][j]
    BY <1>1, <2>1 DEF Launched
  <2>4. QED
    BY <1>3, <2>1, <2>2, <2>3 DEF Fresh, KernelAt
<1>4. QED
  BY <1>2, <1>3

\* The calls made so far keep their numbers and keys.
AskedKept == \A c \in DOMAIN asked : c \in DOMAIN asked' /\ asked'[c] = asked[c]

\* Launching leaves the running kernel and the memory alone.
LEMMA LaunchKeepsMemory ==
  ASSUME TypeOK, NEW d \in Devices, NEW ks, Len(ks) \in Nat, Launched(d, ks), AskedKept,
         UNCHANGED gpuVars, RunningRows, RowsComplete, SumsKept, Observed
  PROVE  RunningRows' /\ RowsComplete' /\ SumsKept' /\ Observed'
<1>0. head' = head /\ ran' = ran /\ mem' = mem /\ observed' = observed
  BY DEF gpuVars
<1>1. \A e \in Devices :
        /\ head[e] \in Nat /\ head[e] <= Len(stream[e]) /\ Len(stream[e]) \in Nat
        /\ Len(stream[e]) <= Len(stream'[e]) /\ Len(stream'[e]) \in Nat
        /\ \A i \in 1 .. Len(stream[e]) : stream'[e][i] = stream[e][i]
  <2> SUFFICES ASSUME NEW e \in Devices
               PROVE  /\ head[e] \in Nat /\ head[e] <= Len(stream[e]) /\ Len(stream[e]) \in Nat
                      /\ Len(stream[e]) <= Len(stream'[e]) /\ Len(stream'[e]) \in Nat
                      /\ \A i \in 1 .. Len(stream[e]) : stream'[e][i] = stream[e][i]
    OBVIOUS
  <2>1. head[e] \in Nat /\ head[e] <= Len(stream[e])
    BY DEF RunningRows, TypeOK
  <2>2. Len(stream[e]) \in Nat
    BY StreamFacts
  <2>3. QED
    BY <2>1, <2>2 DEF Launched
<1>2. \A e \in Devices : Busy(e) => Busy(e)' /\ Running(e)' = Running(e)
  <2> SUFFICES ASSUME NEW e \in Devices, head[e] < Len(stream[e])
               PROVE  /\ head'[e] < Len(stream'[e])
                      /\ stream'[e][head'[e] + 1] = stream[e][head[e] + 1]
    BY DEF Busy, Running
  <2>1. head[e] + 1 \in 1 .. Len(stream[e]) /\ head[e] < Len(stream'[e])
    BY <1>1
  <2>2. stream'[e][head[e] + 1] = stream[e][head[e] + 1]
    BY <1>1, <2>1
  <2>3. QED
    BY <1>0, <2>1, <2>2
<1>3. RunningRows'
  <2> SUFFICES ASSUME NEW e \in Devices
               PROVE  /\ head[e] <= Len(stream'[e])
                      /\ ran[e] # {} => Busy(e)' /\ Running(e)'.op = "gemv"
                      /\ \A r \in ran[e] :
                           /\ r < SplitOf(Running(e)'.key)
                           /\ mem[Running(e)'.part][r] = Running(e)'.call
    BY <1>0 DEF RunningRows
  <2>1. CASE ran[e] = {}
    BY <1>1, <2>1
  <2>2. CASE ran[e] # {}
    BY <1>1, <1>2, <2>2 DEF RunningRows
  <2>3. QED
    BY <2>1, <2>2
<1>4. RowsComplete'
  <2> SUFFICES ASSUME NEW e \in Devices,
                      head[e] > 0, KernelAt(e, head[e])'.op = "gemv",
                      Busy(e)' => Running(e)'.op = "reduce"
               PROVE  \A s \in 0 .. SplitOf(KernelAt(e, head[e])'.key) - 1 :
                        mem[KernelAt(e, head[e])'.part][s] = KernelAt(e, head[e])'.call
    BY <1>0 DEF RowsComplete
  <2>1. KernelAt(e, head[e])' = KernelAt(e, head[e])
    BY <1>0, <1>1 DEF KernelAt
  <2>2. Busy(e) => Running(e).op = "reduce"
    BY <1>2
  <2>3. QED
    BY <2>1, <2>2 DEF RowsComplete
<1>5. SumsKept'
  <2> SUFFICES ASSUME NEW e \in Devices, NEW j \in 1 .. head[e],
                      KernelAt(e, j)'.op = "reduce",
                      \A k \in 1 .. Len(stream'[e]) :
                        j < k /\ k <= head[e] + 1 =>
                          Target(KernelAt(e, k)') # KernelAt(e, j)'.out
               PROVE  mem[KernelAt(e, j)'.out] =
                        FullSum(KernelAt(e, j)'.call, KernelAt(e, j)'.key)
    BY <1>0 DEF SumsKept
  <2>1. \A i \in 1 .. Len(stream[e]) : KernelAt(e, i)' = KernelAt(e, i)
    BY <1>1 DEF KernelAt
  <2>2. KernelAt(e, j)' = KernelAt(e, j)
    BY <1>1, <2>1
  <2>3. \A k \in 1 .. Len(stream[e]) :
          j < k /\ k <= head[e] + 1 => Target(KernelAt(e, k)) # KernelAt(e, j).out
    BY <1>1, <2>1, <2>2
  <2>4. QED
    BY <2>2, <2>3 DEF SumsKept
<1>6. Observed'
  BY <1>0 DEF Observed, AskedKept
<1>7. QED
  BY <1>3, <1>4, <1>5, <1>6

\* Buffers stay where they are.
CacheKept == \A j \in Keys : cache[j] # NoBlock => cache'[j] = cache[j]

\* What must be true of launched kernels: each is well placed, each reduce
\* follows its GEMV kernel and is the first of its call, what is read is fresh.
NewPlaced(d, ks) ==
  \A i \in 1 .. Len(ks) :
    /\ ks[i].op \in {"gemv", "reduce"} =>
         /\ ks[i].call \in DOMAIN asked'
         /\ asked'[ks[i].call] = ks[i].key
         /\ cache'[ks[i].key] = ks[i].part
    /\ ks[i].op = "reduce" => ks[i].out[1] = d
    /\ ks[i].op = "use" => \A h \in ks[i].reads : h[1] \in DOMAIN asked' /\ h[2][1] = d

NewPaired(d, ks) ==
  \A i \in 1 .. Len(ks) :
    ks[i].op = "reduce" =>
      /\ Len(stream[d]) + i > 1
      /\ stream'[d][Len(stream[d]) + i - 1] = Gemv(ks[i].call, ks[i].key, ks[i].part)
      /\ \A e \in Devices : \A j \in 1 .. Len(stream[e]) :
           stream[e][j].op = "reduce" => stream[e][j].call # ks[i].call
      /\ \A j \in 1 .. Len(ks) :
           ks[j].op = "reduce" /\ ks[j].call = ks[i].call => i = j

NewFresh(d, ks) ==
  \A i \in 1 .. Len(ks) :
    ks[i].op = "use" =>
      \A h \in ks[i].reads : \A n \in Nat : n = Len(stream[d]) + i - 1 => Fresh(d, h, n)'

\* A kernel of the longer stream is an old one or a launched one.
LEMMA OldOrNew ==
  ASSUME TypeOK, NEW d \in Devices, NEW ks \in Seq(Kernels(d)), Launched(d, ks),
         NEW e \in Devices, NEW i \in 1 .. Len(stream'[e])
  PROVE  \/ /\ i \in 1 .. Len(stream[e])
            /\ stream'[e][i] = stream[e][i]
         \/ /\ e = d
            /\ i - Len(stream[d]) \in 1 .. Len(ks)
            /\ i = Len(stream[d]) + (i - Len(stream[d]))
            /\ stream'[d][i] = ks[i - Len(stream[d])]
<1>1. Len(stream[d]) \in Nat /\ Len(ks) \in Nat
  BY StreamFacts
<1>2. CASE e # d
  BY <1>2 DEF Launched
<1>3. CASE e = d /\ i <= Len(stream[d])
  BY <1>1, <1>3 DEF Launched
<1>4. CASE e = d /\ i > Len(stream[d])
  <2>1. i - Len(stream[d]) \in 1 .. Len(ks)
    BY <1>1, <1>4 DEF Launched
  <2>2. i = Len(stream[d]) + (i - Len(stream[d]))
    BY <1>1, <1>4
  <2>3. QED
    BY <1>4, <2>1, <2>2 DEF Launched
<1>5. QED
  BY <1>1, <1>2, <1>3, <1>4

LEMMA LaunchKeepsKernels ==
  ASSUME TypeOK, NEW d \in Devices, NEW ks \in Seq(Kernels(d)), Launched(d, ks),
         AskedKept, CacheKept, KernelsWellPlaced, Paired, UsesFresh,
         NewPlaced(d, ks), NewPaired(d, ks), NewFresh(d, ks)
  PROVE  KernelsWellPlaced' /\ Paired' /\ UsesFresh'
<1>0. Len(stream[d]) \in Nat /\ Len(ks) \in Nat
  BY StreamFacts
<1>1. KernelsWellPlaced'
  <2> SUFFICES ASSUME NEW e \in Devices, NEW i \in 1 .. Len(stream'[e])
               PROVE  /\ stream'[e][i].op \in {"gemv", "reduce"} =>
                           /\ stream'[e][i].call \in DOMAIN asked'
                           /\ asked'[stream'[e][i].call] = stream'[e][i].key
                           /\ cache'[stream'[e][i].key] = stream'[e][i].part
                      /\ stream'[e][i].op = "reduce" => stream'[e][i].out[1] = e
                      /\ stream'[e][i].op = "use" =>
                           \A h \in stream'[e][i].reads : h[1] \in DOMAIN asked' /\ h[2][1] = e
    BY DEF KernelsWellPlaced, KernelAt
  <2>1. CASE i \in 1 .. Len(stream[e]) /\ stream'[e][i] = stream[e][i]
    <3>1. KernelAt(e, i) \in Kernels(e)
      BY <2>1, KernelAtType
    <3>2. KernelAt(e, i).op \in {"gemv", "reduce"} =>
            /\ KernelAt(e, i).key \in Keys
            /\ cache[KernelAt(e, i).key] # NoBlock
      BY <2>1, <3>1, KernelFacts, BlockFacts DEF KernelsWellPlaced
    <3>3. QED
      BY <2>1, <3>2 DEF KernelsWellPlaced, KernelAt, AskedKept, CacheKept
  <2>2. CASE /\ e = d /\ i - Len(stream[d]) \in 1 .. Len(ks)
             /\ stream'[d][i] = ks[i - Len(stream[d])]
    BY <2>2 DEF NewPlaced
  <2>3. QED
    BY <2>1, <2>2, OldOrNew
<1>2. ASSUME NEW e \in Devices, NEW i \in 1 .. Len(stream'[e]), stream'[e][i].op = "reduce"
      PROVE  /\ i > 1
             /\ stream'[e][i - 1] =
                  Gemv(stream'[e][i].call, stream'[e][i].key, stream'[e][i].part)
  <2>1. CASE i \in 1 .. Len(stream[e]) /\ stream'[e][i] = stream[e][i]
    <3>1. /\ i > 1
          /\ stream[e][i - 1] = Gemv(stream[e][i].call, stream[e][i].key, stream[e][i].part)
      BY <1>2, <2>1 DEF Paired, KernelAt
    <3>2. i - 1 \in 1 .. Len(stream[e]) /\ stream'[e][i - 1] = stream[e][i - 1]
      <4>1. i - 1 \in 1 .. Len(stream[e])
        BY <2>1, <3>1, StreamFacts
      <4>2. QED
        BY <4>1 DEF Launched
    <3>3. QED
      BY <2>1, <3>1, <3>2
  <2>2. CASE /\ e = d /\ i - Len(stream[d]) \in 1 .. Len(ks)
             /\ i = Len(stream[d]) + (i - Len(stream[d]))
             /\ stream'[d][i] = ks[i - Len(stream[d])]
    <3> DEFINE n == i - Len(stream[d])
    <3>1. n \in 1 .. Len(ks) /\ ks[n].op = "reduce"
      BY <1>2, <2>2
    <3>2. /\ Len(stream[d]) + n > 1
          /\ stream'[d][Len(stream[d]) + n - 1] = Gemv(ks[n].call, ks[n].key, ks[n].part)
      BY <3>1 DEF NewPaired
    <3>3. QED
      BY <2>2, <3>2
  <2>3. QED
    BY <2>1, <2>2, OldOrNew
<1>3. ASSUME NEW e \in Devices, NEW f \in Devices,
             NEW i \in 1 .. Len(stream'[e]), NEW j \in 1 .. Len(stream'[f]),
             stream'[e][i].op = "reduce", stream'[f][j].op = "reduce",
             stream'[e][i].call = stream'[f][j].call
      PROVE  e = f /\ i = j
  <2> DEFINE Old(g, n) == n \in 1 .. Len(stream[g]) /\ stream'[g][n] = stream[g][n]
             New(g, n) == /\ g = d /\ n - Len(stream[d]) \in 1 .. Len(ks)
                          /\ n = Len(stream[d]) + (n - Len(stream[d]))
                          /\ stream'[d][n] = ks[n - Len(stream[d])]
  <2>1. (Old(e, i) \/ New(e, i)) /\ (Old(f, j) \/ New(f, j))
    <3>1. Old(e, i) \/ New(e, i)
      BY OldOrNew
    <3>2. Old(f, j) \/ New(f, j)
      BY OldOrNew
    <3>3. QED
      BY <3>1, <3>2
  <2>2. CASE Old(e, i) /\ Old(f, j)
    BY <1>3, <2>2 DEF Paired, KernelAt
  \* A launched reduce is of a call that has none yet.
  <2> DEFINE Apart(g, n, m) == stream[g][n].op = "reduce" /\ ks[m].op = "reduce" =>
                                 stream[g][n].call # ks[m].call
  <2>a. \A m \in 1 .. Len(ks) : \A g \in Devices : \A n \in 1 .. Len(stream[g]) : Apart(g, n, m)
    BY DEF NewPaired
  <2>3. CASE Old(e, i) /\ New(f, j)
    <3>1. Apart(e, i, j - Len(stream[d]))
      BY <2>3, <2>a
    <3>2. QED
      BY <1>3, <2>3, <3>1
  <2>4. CASE New(e, i) /\ Old(f, j)
    <3>1. Apart(f, j, i - Len(stream[d]))
      BY <2>4, <2>a
    <3>2. QED
      BY <1>3, <2>4, <3>1
  <2>5. CASE New(e, i) /\ New(f, j)
    <3>1. i - Len(stream[d]) = j - Len(stream[d])
      BY <1>3, <2>5 DEF NewPaired
    <3>2. QED
      BY <1>0, <2>5, <3>1
  <2>6. QED
    BY <2>1, <2>2, <2>3, <2>4, <2>5
<1>4. Paired'
  BY <1>2, <1>3 DEF Paired, KernelAt
<1>5. UsesFresh'
  <2> SUFFICES ASSUME NEW e \in Devices, NEW i \in 1 .. Len(stream'[e]),
                      stream'[e][i].op = "use", NEW h \in stream'[e][i].reads
               PROVE  Fresh(e, h, i - 1)'
    BY DEF UsesFresh, KernelAt
  <2>1. CASE i \in 1 .. Len(stream[e]) /\ stream'[e][i] = stream[e][i]
    <3>1. Fresh(e, h, i - 1)
      BY <2>1 DEF UsesFresh, KernelAt
    <3>2. i - 1 \in 0 .. Len(stream[e])
      BY <2>1, StreamFacts
    <3>3. QED
      BY <1>0, <3>1, <3>2, FreshKept
  <2>2. CASE /\ e = d /\ i - Len(stream[d]) \in 1 .. Len(ks)
             /\ i = Len(stream[d]) + (i - Len(stream[d]))
             /\ stream'[d][i] = ks[i - Len(stream[d])]
    <3> DEFINE n == i - Len(stream[d])
    <3>1. n \in 1 .. Len(ks) /\ ks[n].op = "use" /\ h \in ks[n].reads
      BY <2>2
    <3>2. Len(stream[d]) + n - 1 = i - 1 /\ i - 1 \in Nat
      BY <1>0, <2>2
    <3>3. QED
      BY <2>2, <3>1, <3>2 DEF NewFresh
  <2>3. QED
    BY <2>1, <2>2, OldOrNew
<1>6. QED
  BY <1>1, <1>4, <1>5

-----------------------------------------------------------------------------
(* The inductive invariant: the host.                                      *)

\* What a call knows about the buffer it gets from _splitk_partials.
LEMMA PartialsMemory ==
  ASSUME TypeOK, MemoryApart, NEW k \in Keys, NEW p \in Blocks, SplitkPartials(k, p)
  PROVE  /\ CacheKept
         /\ \A j \in Keys : cache'[j] = IF j = k THEN p ELSE cache[j]
         /\ p[1] = DeviceOf(k)
         /\ extent'[p] = ShapeOf(k)
         /\ \A j \in Keys : cache[j] # NoBlock => extent'[cache[j]] = ShapeOf(j)
         /\ \A j \in Keys : j # k => cache[j] # p
         /\ \A h \in held : h[2] # p
         /\ \A g \in graphs : g.gate # p /\ g.up # p
<1>1. CASE cache[k] # NoBlock
  <2>1. p = cache[k] /\ cache' = cache /\ extent' = extent
    BY <1>1 DEF SplitkPartials
  <2>2. \A j \in Keys : j # k => cache[j] # p
    BY <1>1, <2>1 DEF MemoryApart
  <2>3. QED
    BY <1>1, <2>1, <2>2 DEF MemoryApart, CacheKept
<1>2. CASE cache[k] = NoBlock
  <2>1. /\ p \in Free(DeviceOf(k))
        /\ cache' = [cache EXCEPT ![k] = p]
        /\ extent' = [extent EXCEPT ![p] = ShapeOf(k)]
    BY <1>2 DEF SplitkPartials
  <2>2. /\ p[1] = DeviceOf(k) /\ p # NoBlock
        /\ \A j \in Keys : cache[j] # p
        /\ \A h \in held : h[2] # p
        /\ \A g \in graphs : g.gate # p /\ g.up # p
    BY <2>1, BlockFacts DEF Free, HeldBlocks, GraphBlocks, CachedBlocks
  <2>3. /\ \A j \in Keys : cache'[j] = IF j = k THEN p ELSE cache[j]
        /\ extent'[p] = ShapeOf(k)
        /\ \A b \in Blocks : b # p => extent'[b] = extent[b]
    BY <2>1 DEF TypeOK
  <2>4. \A j \in Keys : cache[j] # NoBlock => cache[j] \in Blocks /\ extent[cache[j]] = ShapeOf(j)
    BY DEF TypeOK, MemoryApart
  <2>5. QED
    BY <1>2, <2>2, <2>3, <2>4 DEF CacheKept
<1>3. QED
  BY <1>1, <1>2

LEMMA PartialsApart ==
  ASSUME TypeOK, MemoryApart, NEW k \in Keys, NEW p \in Blocks, SplitkPartials(k, p),
         UNCHANGED <<held, graphs>>
  PROVE  MemoryApart'
<1>1. \A j \in Keys : cache'[j] = IF j = k THEN p ELSE cache[j]
  BY PartialsMemory
<1>2. /\ p[1] = DeviceOf(k) /\ extent'[p] = ShapeOf(k)
      /\ \A j \in Keys : cache[j] # NoBlock => extent'[cache[j]] = ShapeOf(j)
      /\ \A j \in Keys : j # k => cache[j] # p
      /\ \A h \in held : h[2] # p
      /\ \A g \in graphs : g.gate # p /\ g.up # p
  BY PartialsMemory
<1>3. \A j \in Keys : cache'[j] # NoBlock =>
        cache'[j][1] = DeviceOf(j) /\ extent'[cache'[j]] = ShapeOf(j)
  BY <1>1, <1>2 DEF MemoryApart
<1>4. \A i, j \in Keys : cache'[i] # NoBlock /\ i # j => cache'[i] # cache'[j]
  BY <1>1, <1>2 DEF MemoryApart
<1>5. \A h \in held : \A j \in Keys : cache'[j] # h[2]
  BY <1>1, <1>2 DEF MemoryApart
<1>6. ASSUME NEW g \in graphs
      PROVE  /\ cache'[g.key] = g.part
             /\ \A j \in Keys : cache'[j] # g.gate /\ cache'[j] # g.up
  <2>1. g.key \in Keys /\ g.part \in Blocks /\ g.part # NoBlock /\ cache[g.key] = g.part
    BY BlockFacts DEF TypeOK, MemoryApart
  <2>2. cache'[g.key] = cache[g.key]
    BY <2>1, PartialsMemory DEF CacheKept
  <2>3. QED
    BY <1>1, <1>2, <2>1, <2>2 DEF MemoryApart
<1>7. QED
  BY <1>3, <1>4, <1>5, <1>6 DEF MemoryApart

LEMMA LaunchGemvKeeps ==
  ASSUME TypeOK, IInv, NEW k \in Keys, LaunchGemv(k)
  PROVE  IInv'
<1> DEFINE c == Len(asked) + 1
           d == DeviceOf(k)
<1>1. PICK p \in Blocks :
        /\ SplitkPartials(k, p)
        /\ asked' = Append(asked, k)
        /\ Launch(d, <<Gemv(c, k, p)>>)
        /\ pending' = {[call |-> c, key |-> k, part |-> p]}
  BY DEF LaunchGemv
<1> DEFINE ks == <<Gemv(c, k, p)>>
<1>2. UNCHANGED <<held, graphs, gpuVars>>
  BY DEF LaunchGemv
<1>3. /\ d \in Devices /\ c \in Nat /\ ks \in Seq(Kernels(d)) /\ Len(ks) = 1
      /\ ks[1] = Gemv(c, k, p)
  <2>1. c \in Nat
    BY DEF TypeOK
  <2>2. QED
    BY <2>1, KeyFacts, LaunchedKernels
<1>4. Launched(d, ks)
  BY <1>1, <1>3, LaunchIsLaunched
<1>5. /\ AskedKept /\ c \in DOMAIN asked' /\ asked'[c] = k /\ c \notin DOMAIN asked
  BY <1>1 DEF TypeOK, AskedKept
<1>6. MemoryApart'
  BY <1>1, <1>2, PartialsApart DEF IInv, gpuVars
<1>7. CacheKept /\ cache'[k] = p /\ p[1] = d /\ \A h \in held : h[2] # p
  BY <1>1, PartialsMemory DEF IInv
<1>8. \A e \in Devices : \A j \in 1 .. Len(stream[e]) :
        stream[e][j].op = "reduce" => stream[e][j].call # c
  BY <1>5 DEF IInv, KernelsWellPlaced, KernelAt
<1>9. KernelsWellPlaced' /\ Paired' /\ UsesFresh'
  <2>1. NewPlaced(d, ks) /\ NewPaired(d, ks) /\ NewFresh(d, ks)
    BY <1>3, <1>5, <1>7 DEF NewPlaced, NewPaired, NewFresh, Gemv
  <2>2. QED
    BY <1>3, <1>4, <1>5, <1>7, <2>1, LaunchKeepsKernels DEF IInv
<1>10. PendingLast'
  <2>1. /\ Len(stream'[d]) = Len(stream[d]) + 1 /\ Len(stream[d]) \in Nat
        /\ stream'[d][Len(stream[d]) + 1] = Gemv(c, k, p)
    BY <1>3, <1>4, StreamFacts DEF Launched
  <2>2. ASSUME NEW e \in Devices, NEW i \in 1 .. Len(stream'[e]), stream'[e][i].op = "reduce"
        PROVE  stream'[e][i].call # c
    <3> HIDE DEF ks, d, c
    <3>0. \/ i \in 1 .. Len(stream[e]) /\ stream'[e][i] = stream[e][i]
          \/ /\ e = d /\ i - Len(stream[d]) \in 1 .. Len(ks)
             /\ stream'[d][i] = ks[i - Len(stream[d])]
      BY <1>3, <1>4, OldOrNew
    <3>1. CASE i \in 1 .. Len(stream[e]) /\ stream'[e][i] = stream[e][i]
      BY <1>8, <2>2, <3>1
    <3>2. CASE /\ e = d /\ i - Len(stream[d]) \in 1 .. Len(ks)
               /\ stream'[d][i] = ks[i - Len(stream[d])]
      <4>1. i - Len(stream[d]) = 1
        BY <1>3, <2>1, <3>2
      <4>2. stream'[e][i] = Gemv(c, k, p)
        BY <1>3, <3>2, <4>1
      <4>3. QED
        BY <2>2, <4>2 DEF Gemv
    <3>3. QED
      BY <3>0, <3>1, <3>2
  <2>3. QED
    BY <1>1, <1>5, <1>7, <2>1, <2>2 DEF PendingLast, KernelAt
<1>11. HeldFresh'
  <2> SUFFICES ASSUME NEW h \in held
               PROVE  h[1] \in DOMAIN asked' /\ Fresh(h[2][1], h, Len(stream[h[2][1]]))'
    BY <1>2 DEF HeldFresh
  <2>1. h[1] \in DOMAIN asked /\ Fresh(h[2][1], h, Len(stream[h[2][1]])) /\ h[2][1] \in Devices
    BY BlockFacts DEF IInv, HeldFresh, TypeOK
  <2>2. \A i \in 1 .. Len(ks) : Target(ks[i]) # h[2]
    BY <1>3, <1>7 DEF Target, Gemv
  <2>3. QED
    BY <1>3, <1>4, <1>5, <2>1, <2>2, FreshExtended DEF AskedKept
<1>12. RunningRows' /\ RowsComplete' /\ SumsKept' /\ Observed'
  BY <1>2, <1>3, <1>4, <1>5, LaunchKeepsMemory DEF IInv
<1>13. QED
  BY <1>6, <1>9, <1>10, <1>11, <1>12 DEF IInv

LEMMA LaunchReduceKeeps ==
  ASSUME TypeOK, IInv, LaunchReduce
  PROVE  IInv'
<1>1. PICK q \in pending, o \in Blocks :
        /\ EmptyResult(q.key, o)
        /\ Launch(DeviceOf(q.key), <<Reduce(q.call, q.key, q.part, o)>>)
        /\ held' = held \cup {<<q.call, o>>}
  BY DEF LaunchReduce
<1> DEFINE d == DeviceOf(q.key)
           ks == <<Reduce(q.call, q.key, q.part, o)>>
<1>2. UNCHANGED <<asked, cache, extent, graphs, gpuVars>> /\ pending' = {}
  BY DEF LaunchReduce
<1>3. /\ q.call \in Nat /\ q.key \in Keys /\ q.part \in Blocks /\ d \in Devices
      /\ ks \in Seq(Kernels(d)) /\ Len(ks) = 1
      /\ ks[1] = Reduce(q.call, q.key, q.part, o)
  <2>1. q.call \in Nat /\ q.key \in Keys /\ q.part \in Blocks
    BY DEF TypeOK
  <2>2. QED
    BY <2>1, KeyFacts, LaunchedKernels
<1>4. Launched(d, ks)
  BY <1>1, <1>3, LaunchIsLaunched
<1>5. /\ Len(stream'[d]) = Len(stream[d]) + 1 /\ Len(stream[d]) \in Nat
      /\ stream'[d][Len(stream[d]) + 1] = Reduce(q.call, q.key, q.part, o)
      /\ \A i \in 1 .. Len(stream[d]) : stream'[d][i] = stream[d][i]
  BY <1>3, <1>4, StreamFacts DEF Launched
<1>6. /\ q.call \in DOMAIN asked /\ asked[q.call] = q.key /\ cache[q.key] = q.part
      /\ Len(stream[d]) > 0
      /\ stream[d][Len(stream[d])] = Gemv(q.call, q.key, q.part)
      /\ \A e \in Devices : \A j \in 1 .. Len(stream[e]) :
           stream[e][j].op = "reduce" => stream[e][j].call # q.call
  BY DEF IInv, PendingLast, KernelAt
<1>7. /\ o[1] = d /\ o # NoBlock
      /\ \A j \in Keys : cache[j] # o
      /\ \A h \in held : h[2] # o
      /\ \A g \in graphs : g.gate # o /\ g.up # o
  BY <1>1, BlockFacts DEF EmptyResult, Free, HeldBlocks, GraphBlocks, CachedBlocks
<1>8. AskedKept /\ CacheKept
  BY <1>2 DEF AskedKept, CacheKept
<1>9. MemoryApart'
  BY <1>1, <1>2, <1>7 DEF IInv, MemoryApart
<1>10. KernelsWellPlaced' /\ Paired' /\ UsesFresh'
  <2>1. NewPlaced(d, ks)
    BY <1>2, <1>3, <1>6, <1>7 DEF NewPlaced, Reduce
  <2>2. NewPaired(d, ks)
    <3>1. stream'[d][Len(stream[d]) + 1 - 1] = Gemv(q.call, q.key, q.part)
      BY <1>5, <1>6
    <3>2. QED
      BY <1>3, <1>5, <1>6, <3>1 DEF NewPaired, Reduce
  <2>3. NewFresh(d, ks)
    BY <1>3 DEF NewFresh, Reduce
  <2>4. QED
    BY <1>3, <1>4, <1>8, <2>1, <2>2, <2>3, LaunchKeepsKernels DEF IInv
<1>11. PendingLast'
  BY <1>2 DEF PendingLast
<1>12. HeldFresh'
  <2>1. ASSUME NEW h \in held
        PROVE  h[1] \in DOMAIN asked /\ Fresh(h[2][1], h, Len(stream[h[2][1]]))'
    <3>1. h[1] \in DOMAIN asked /\ Fresh(h[2][1], h, Len(stream[h[2][1]])) /\ h[2][1] \in Devices
      BY BlockFacts DEF IInv, HeldFresh, TypeOK
    <3>2. \A i \in 1 .. Len(ks) : Target(ks[i]) # h[2]
      BY <1>3, <1>7 DEF Target, Reduce
    <3>3. QED
      BY <1>3, <1>4, <3>1, <3>2, FreshExtended
  <2>2. Fresh(o[1], <<q.call, o>>, Len(stream[o[1]]))'
    <3> DEFINE n == Len(stream'[d])
    <3>1. /\ n \in 1 .. n /\ stream'[d][n].op = "reduce"
          /\ stream'[d][n].call = q.call /\ stream'[d][n].out = o
      BY <1>5 DEF Reduce
    <3>2. QED
      BY <1>7, <3>1 DEF Fresh, KernelAt
  <2>3. QED
    BY <1>1, <1>2, <1>6, <2>1, <2>2 DEF HeldFresh
<1>13. RunningRows' /\ RowsComplete' /\ SumsKept' /\ Observed'
  BY <1>2, <1>3, <1>4, <1>8, LaunchKeepsMemory DEF IInv
<1>14. QED
  BY <1>9, <1>10, <1>11, <1>12, <1>13 DEF IInv

LEMMA ConsumeKeeps ==
  ASSUME TypeOK, IInv, NEW d \in Devices, NEW hs \in SUBSET held, Consume(d, hs)
  PROVE  IInv'
<1> DEFINE ks == <<Use(hs)>>
<1>1. /\ Launch(d, ks) /\ \A h \in hs : h[2][1] = d
      /\ UNCHANGED <<asked, cache, extent, held, pending, graphs, gpuVars>> /\ pending = {}
  BY DEF Consume
<1>2. ks \in Seq(Kernels(d)) /\ Len(ks) = 1 /\ ks[1] = Use(hs)
  <2>1. hs \in SUBSET (Nat \X Blocks)
    BY DEF TypeOK
  <2>2. Use(hs) \in Kernels(d)
    BY <2>1 DEF Use, Kernels
  <2>3. QED
    BY <2>2
<1>3. Launched(d, ks) /\ Len(stream[d]) \in Nat
  BY <1>1, <1>2, LaunchIsLaunched, StreamFacts
<1>4. AskedKept /\ CacheKept
  BY <1>1 DEF AskedKept, CacheKept
<1>5. MemoryApart' /\ PendingLast'
  BY <1>1 DEF IInv, MemoryApart, PendingLast
<1>6. \A h \in held : h[1] \in DOMAIN asked /\ h[2][1] \in Devices /\ h[2] # NoBlock
                      /\ Fresh(h[2][1], h, Len(stream[h[2][1]]))
  BY BlockFacts DEF IInv, HeldFresh, TypeOK
<1>7. KernelsWellPlaced' /\ Paired' /\ UsesFresh'
  <2>1. NewPlaced(d, ks) /\ NewPaired(d, ks)
    BY <1>1, <1>2, <1>6 DEF NewPlaced, NewPaired, Use
  <2>2. NewFresh(d, ks)
    <3> SUFFICES ASSUME NEW h \in hs
                 PROVE  \A n \in Nat : n = Len(stream[d]) => Fresh(d, h, n)'
      BY <1>2, <1>3 DEF NewFresh, Use
    <3>1. Fresh(d, h, Len(stream[d]))
      BY <1>1, <1>6
    <3>2. QED
      BY <1>2, <1>3, <3>1, FreshKept
  <2>3. QED
    BY <1>2, <1>3, <1>4, <2>1, <2>2, LaunchKeepsKernels DEF IInv
<1>8. HeldFresh'
  <2> SUFFICES ASSUME NEW h \in held
               PROVE  h[1] \in DOMAIN asked /\ Fresh(h[2][1], h, Len(stream[h[2][1]]))'
    BY <1>1 DEF HeldFresh
  <2>1. \A i \in 1 .. Len(ks) : Target(ks[i]) # h[2]
    BY <1>2, <1>6 DEF Target, Use
  <2>2. QED
    BY <1>2, <1>3, <1>6, <2>1, FreshExtended
<1>9. RunningRows' /\ RowsComplete' /\ SumsKept' /\ Observed'
  BY <1>1, <1>2, <1>3, <1>4, LaunchKeepsMemory DEF IInv
<1>10. QED
  BY <1>5, <1>7, <1>8, <1>9 DEF IInv

LEMMA CaptureKeeps ==
  ASSUME TypeOK, IInv, NEW k \in Keys, CaptureLayer(k)
  PROVE  IInv'
<1>1. PICK p \in Blocks, gate \in Blocks, up \in Blocks :
        /\ SplitkPartials(k, p)
        /\ EmptyResult(k, gate) /\ EmptyResult(k, up)
        /\ p # gate /\ p # up /\ gate # up
        /\ graphs' = graphs \cup {[key |-> k, part |-> p, gate |-> gate, up |-> up]}
  <2>1. PICK p \in Blocks :
          /\ SplitkPartials(k, p)
          /\ \E gate, up \in Blocks \ {p} :
               /\ EmptyResult(k, gate) /\ EmptyResult(k, up)
               /\ gate # up
               /\ graphs' = graphs \cup {[key |-> k, part |-> p, gate |-> gate, up |-> up]}
    BY DEF CaptureLayer
  <2>2. QED
    BY <2>1
<1>2. UNCHANGED <<asked, held, pending, stream, gpuVars>> /\ pending = {}
  BY DEF CaptureLayer
<1>3. /\ CacheKept
      /\ \A j \in Keys : cache'[j] = IF j = k THEN p ELSE cache[j]
      /\ p[1] = DeviceOf(k) /\ extent'[p] = ShapeOf(k)
      /\ \A j \in Keys : cache[j] # NoBlock => extent'[cache[j]] = ShapeOf(j)
      /\ \A j \in Keys : j # k => cache[j] # p
      /\ \A h \in held : h[2] # p
      /\ \A g \in graphs : g.gate # p /\ g.up # p
  BY <1>1, PartialsMemory DEF IInv
<1>4. \A b \in {gate, up} :
        /\ b[1] = DeviceOf(k) /\ b # p /\ b # NoBlock
        /\ \A j \in Keys : cache[j] # b
        /\ \A h \in held : h[2] # b
  BY <1>1, BlockFacts DEF EmptyResult, Free, HeldBlocks, CachedBlocks
<1>5. MemoryApart'
  <2>1. \A j \in Keys : cache'[j] # NoBlock =>
          cache'[j][1] = DeviceOf(j) /\ extent'[cache'[j]] = ShapeOf(j)
    BY <1>3 DEF IInv, MemoryApart
  <2>2. \A i, j \in Keys : cache'[i] # NoBlock /\ i # j => cache'[i] # cache'[j]
    BY <1>3 DEF IInv, MemoryApart
  <2>3. \A h \in held : \A j \in Keys : cache'[j] # h[2]
    BY <1>3 DEF IInv, MemoryApart
  <2>4. ASSUME NEW g \in graphs
        PROVE  /\ cache'[g.key] = g.part
               /\ g.gate # g.up
               /\ g.gate[1] = DeviceOf(g.key) /\ g.up[1] = DeviceOf(g.key)
               /\ \A j \in Keys : cache'[j] # g.gate /\ cache'[j] # g.up
               /\ \A h \in held : h[2] # g.gate /\ h[2] # g.up
    <3>1. g.key \in Keys /\ g.part # NoBlock /\ cache[g.key] = g.part
      BY BlockFacts DEF TypeOK, IInv, MemoryApart
    <3>2. cache'[g.key] = g.part
      BY <1>3, <3>1 DEF CacheKept
    <3>3. QED
      BY <1>3, <3>2 DEF IInv, MemoryApart
  <2>5. ASSUME NEW g, g = [key |-> k, part |-> p, gate |-> gate, up |-> up]
        PROVE  /\ cache'[g.key] = g.part
               /\ g.gate # g.up
               /\ g.gate[1] = DeviceOf(g.key) /\ g.up[1] = DeviceOf(g.key)
               /\ \A j \in Keys : cache'[j] # g.gate /\ cache'[j] # g.up
               /\ \A h \in held : h[2] # g.gate /\ h[2] # g.up
    BY <1>1, <1>3, <1>4, <2>5
  <2>6. QED
    BY <1>1, <1>2, <2>1, <2>2, <2>3, <2>4, <2>5 DEF MemoryApart
<1>6. KernelsWellPlaced'
  <2>1. \A e \in Devices : \A i \in 1 .. Len(stream[e]) :
          KernelAt(e, i).op \in {"gemv", "reduce"} =>
            KernelAt(e, i).key \in Keys /\ KernelAt(e, i).part # NoBlock
    BY KernelAtType, KernelFacts, BlockFacts
  <2>2. QED
    BY <1>2, <1>3, <2>1 DEF IInv, KernelsWellPlaced, CacheKept, KernelAt
<1>7. PendingLast' /\ Paired' /\ HeldFresh' /\ UsesFresh'
  BY <1>2 DEF IInv, PendingLast, Paired, HeldFresh, UsesFresh, Fresh, KernelAt
<1>8. RunningRows' /\ RowsComplete' /\ SumsKept' /\ Observed'
  BY <1>2 DEF IInv, gpuVars, RunningRows, RowsComplete, SumsKept, Observed, KernelAt,
              Busy, Running
<1>9. QED
  BY <1>5, <1>6, <1>7, <1>8 DEF IInv

LEMMA HostRestKeeps ==
  ASSUME TypeOK, IInv,
         \/ SecondHalfFails
         \/ \E h \in held : Drop(h)
  PROVE  IInv'
<1>1. /\ held' \subseteq held /\ pending' = {}
      /\ UNCHANGED <<asked, cache, extent, graphs, stream, gpuVars>>
  BY DEF SecondHalfFails, Drop
<1>2. MemoryApart' /\ PendingLast' /\ KernelsWellPlaced' /\ Paired'
  BY <1>1 DEF IInv, MemoryApart, PendingLast, KernelsWellPlaced, Paired, KernelAt
<1>3. HeldFresh' /\ UsesFresh'
  BY <1>1 DEF IInv, HeldFresh, UsesFresh, Fresh, KernelAt
<1>4. RunningRows' /\ RowsComplete' /\ SumsKept' /\ Observed'
  BY <1>1 DEF IInv, gpuVars, RunningRows, RowsComplete, SumsKept, Observed, KernelAt,
              Busy, Running
<1>5. QED
  BY <1>2, <1>3, <1>4 DEF IInv

LEMMA ReplayKeeps ==
  ASSUME TypeOK, IInv, NEW g \in graphs, Replay(g)
  PROVE  IInv'
<1> DEFINE c == Len(asked) + 1
           k == g.key
           d == DeviceOf(k)
           ks == << Gemv(c, k, g.part), Reduce(c, k, g.part, g.gate),
                    Gemv(c + 1, k, g.part), Reduce(c + 1, k, g.part, g.up),
                    Use({<<c, g.gate>>, <<c + 1, g.up>>}) >>
           n == Len(stream[d])
<1>1. /\ asked' = asked \o <<k, k>> /\ Launch(d, ks) /\ pending = {}
      /\ UNCHANGED <<cache, extent, held, pending, graphs, gpuVars>>
  BY DEF Replay
<1>2. /\ k \in Keys /\ g.part \in Blocks /\ g.gate \in Blocks /\ g.up \in Blocks
      /\ c \in Nat /\ d \in Devices
  BY KeyFacts DEF TypeOK
<1>3. ks \in Seq(Kernels(d)) /\ Len(ks) = 5
  BY <1>2, LaunchedKernels
<1>4. /\ ks[1] = Gemv(c, k, g.part) /\ ks[2] = Reduce(c, k, g.part, g.gate)
      /\ ks[3] = Gemv(c + 1, k, g.part) /\ ks[4] = Reduce(c + 1, k, g.part, g.up)
      /\ ks[5] = Use({<<c, g.gate>>, <<c + 1, g.up>>})
  OBVIOUS
<1> HIDE DEF ks
<1>5. /\ Launched(d, ks) /\ n \in Nat /\ Len(stream'[d]) = n + 5
      /\ \A i \in 1 .. n : stream'[d][i] = stream[d][i]
      /\ stream'[d][n + 1] = ks[1] /\ stream'[d][n + 2] = ks[2]
      /\ stream'[d][n + 3] = ks[3] /\ stream'[d][n + 4] = ks[4]
      /\ stream'[d][n + 5] = ks[5]
  <2>1. Launched(d, ks) /\ n \in Nat
    BY <1>1, <1>2, <1>3, LaunchIsLaunched, StreamFacts
  <2>2. QED
    BY <1>3, <2>1, SMTT(40) DEF Launched
<1>6. /\ AskedKept /\ c \in DOMAIN asked' /\ c + 1 \in DOMAIN asked'
      /\ asked'[c] = k /\ asked'[c + 1] = k
      /\ c \notin DOMAIN asked /\ c + 1 \notin DOMAIN asked
  BY <1>1, <1>2 DEF TypeOK, AskedKept
<1>7. /\ cache[k] = g.part /\ g.gate # g.up
      /\ g.gate[1] = d /\ g.up[1] = d
      /\ g.gate # g.part /\ g.up # g.part
      /\ \A h \in held : h[2] # g.part /\ h[2] # g.gate /\ h[2] # g.up
  BY <1>2 DEF IInv, MemoryApart
<1>8. MemoryApart' /\ PendingLast'
  BY <1>1 DEF IInv, MemoryApart, PendingLast
<1>9. CacheKept
  BY <1>1 DEF CacheKept
<1>10. \A e \in Devices : \A j \in 1 .. Len(stream[e]) :
         stream[e][j].op = "reduce" => stream[e][j].call # c /\ stream[e][j].call # c + 1
  BY <1>6 DEF IInv, KernelsWellPlaced, KernelAt
<1>11. KernelsWellPlaced' /\ Paired' /\ UsesFresh'
  <2>1. NewPlaced(d, ks)
    <3>1. \A h \in {<<c, g.gate>>, <<c + 1, g.up>>} : h[1] \in DOMAIN asked' /\ h[2][1] = d
      BY <1>6, <1>7
    <3>2. \A i \in 1 .. Len(ks) : i = 1 \/ i = 2 \/ i = 3 \/ i = 4 \/ i = 5
      BY <1>3
    <3>3. cache'[k] = g.part
      BY <1>1, <1>7
    <3> DEFINE Placed(kern) ==
          /\ kern.op \in {"gemv", "reduce"} =>
               /\ kern.call \in DOMAIN asked'
               /\ asked'[kern.call] = kern.key
               /\ cache'[kern.key] = kern.part
          /\ kern.op = "reduce" => kern.out[1] = d
          /\ kern.op = "use" => \A h \in kern.reads : h[1] \in DOMAIN asked' /\ h[2][1] = d
    <3>4. Placed(ks[1]) /\ Placed(ks[3])
      BY <1>4, <1>6, <3>3 DEF Gemv
    <3>5. Placed(ks[2]) /\ Placed(ks[4])
      BY <1>4, <1>6, <1>7, <3>3 DEF Reduce
    <3>6. Placed(ks[5])
      BY <1>4, <3>1 DEF Use
    <3>7. \A i \in 1 .. Len(ks) : Placed(ks[i])
      BY <3>2, <3>4, <3>5, <3>6
    <3>8. QED
      BY <3>7 DEF NewPlaced
  <2>2. NewPaired(d, ks)
    <3> SUFFICES ASSUME NEW i \in 1 .. Len(ks), ks[i].op = "reduce"
                 PROVE  /\ n + i > 1
                        /\ stream'[d][n + i - 1] = Gemv(ks[i].call, ks[i].key, ks[i].part)
                        /\ \A e \in Devices : \A j \in 1 .. Len(stream[e]) :
                             stream[e][j].op = "reduce" => stream[e][j].call # ks[i].call
                        /\ \A j \in 1 .. Len(ks) :
                             ks[j].op = "reduce" /\ ks[j].call = ks[i].call => i = j
      BY DEF NewPaired
    <3>1. i = 2 \/ i = 4
      BY <1>3, <1>4 DEF Gemv, Use
    <3>2. CASE i = 2
      <4>1. ks[i].call = c /\ ks[i].key = k /\ ks[i].part = g.part
        BY <1>4, <3>2 DEF Reduce
      <4>2. stream'[d][n + i - 1] = Gemv(c, k, g.part) /\ n + i > 1
        BY <1>4, <1>5, <3>2
      <4>3. \A j \in 1 .. Len(ks) : ks[j].op = "reduce" /\ ks[j].call = c => j = 2
        BY <1>2, <1>3, <1>4 DEF Gemv, Reduce, Use
      <4>4. QED
        BY <1>10, <3>2, <4>1, <4>2, <4>3
    <3>3. CASE i = 4
      <4>1. ks[i].call = c + 1 /\ ks[i].key = k /\ ks[i].part = g.part
        BY <1>4, <3>3 DEF Reduce
      <4>2. stream'[d][n + i - 1] = Gemv(c + 1, k, g.part) /\ n + i > 1
        BY <1>4, <1>5, <3>3
      <4>3. \A j \in 1 .. Len(ks) : ks[j].op = "reduce" /\ ks[j].call = c + 1 => j = 4
        BY <1>2, <1>3, <1>4 DEF Gemv, Reduce, Use
      <4>4. QED
        BY <1>10, <3>3, <4>1, <4>2, <4>3
    <3>4. QED
      BY <3>1, <3>2, <3>3
  <2>3. NewFresh(d, ks)
    <3>1. \A i \in 1 .. Len(ks) : ks[i].op = "use" => i = 5
      BY <1>3, <1>4 DEF Gemv, Reduce
    <3>2. ASSUME NEW m \in Nat, m = n + 4, NEW h, h = <<c, g.gate>>
          PROVE  Fresh(d, h, m)'
      <4> SUFFICES \E j \in 1 .. n + 4 :
                     /\ stream'[d][j].op = "reduce" /\ stream'[d][j].call = c
                     /\ stream'[d][j].out = g.gate
                     /\ \A i \in 1 .. n + 4 : i > j => Target(stream'[d][i]) # g.gate
        BY <3>2 DEF Fresh, KernelAt
      <4>1. /\ stream'[d][n + 2].op = "reduce" /\ stream'[d][n + 2].call = c
            /\ stream'[d][n + 2].out = g.gate
        BY <1>4, <1>5 DEF Reduce
      <4>2. \A i \in 1 .. n + 4 : i > n + 2 => i = n + 3 \/ i = n + 4
        <5> n \in Nat
          BY <1>5
        <5> HIDE DEF n
        <5> QED
          OBVIOUS
      <4>3. Target(stream'[d][n + 3]) # g.gate /\ Target(stream'[d][n + 4]) # g.gate
        BY <1>4, <1>5, <1>7 DEF Target, Gemv, Reduce
      <4>4. n + 2 \in 1 .. n + 4
        BY <1>5
      <4>5. QED
        BY <4>1, <4>2, <4>3, <4>4
    <3>3. ASSUME NEW m \in Nat, m = n + 4, NEW h, h = <<c + 1, g.up>>
          PROVE  Fresh(d, h, m)'
      <4> SUFFICES \E j \in 1 .. n + 4 :
                     /\ stream'[d][j].op = "reduce" /\ stream'[d][j].call = c + 1
                     /\ stream'[d][j].out = g.up
                     /\ \A i \in 1 .. n + 4 : i > j => Target(stream'[d][i]) # g.up
        BY <3>3 DEF Fresh, KernelAt
      <4>1. /\ stream'[d][n + 4].op = "reduce" /\ stream'[d][n + 4].call = c + 1
            /\ stream'[d][n + 4].out = g.up
        BY <1>4, <1>5 DEF Reduce
      <4>2. n \in Nat
        BY <1>5
      <4>3. n + 4 \in 1 .. n + 4 /\ \A i \in 1 .. n + 4 : ~ (i > n + 4)
        BY <4>2
      <4>4. QED
        BY <4>1, <4>3
    <3>4. ks[5].reads = {<<c, g.gate>>, <<c + 1, g.up>>} /\ n + 5 - 1 = n + 4
      BY <1>4, <1>5 DEF Use
    <3>5. QED
      BY <3>1, <3>2, <3>3, <3>4 DEF NewFresh
  <2>4. QED
    BY <1>2, <1>3, <1>5, <1>6, <1>9, <2>1, <2>2, <2>3, LaunchKeepsKernels DEF IInv
<1>12. HeldFresh'
  <2> SUFFICES ASSUME NEW h \in held
               PROVE  h[1] \in DOMAIN asked' /\ Fresh(h[2][1], h, Len(stream[h[2][1]]))'
    BY <1>1 DEF HeldFresh
  <2>1. /\ h[1] \in DOMAIN asked /\ Fresh(h[2][1], h, Len(stream[h[2][1]]))
        /\ h[2][1] \in Devices /\ h[2] # NoBlock
    BY BlockFacts DEF IInv, HeldFresh, TypeOK
  <2>2. \A i \in 1 .. Len(ks) : Target(ks[i]) # h[2]
    BY <1>3, <1>4, <1>7, <2>1 DEF Target, Gemv, Reduce, Use
  <2>3. Len(ks) \in Nat /\ Launched(d, ks) /\ d \in Devices
    BY <1>2, <1>3, <1>5
  <2>4. Fresh(h[2][1], h, Len(stream[h[2][1]]))'
    BY <2>1, <2>2, <2>3, FreshExtended
  <2>5. QED
    BY <1>6, <2>1, <2>4 DEF AskedKept
<1>13. RunningRows' /\ RowsComplete' /\ SumsKept' /\ Observed'
  BY <1>1, <1>2, <1>3, <1>5, <1>6, LaunchKeepsMemory DEF IInv
<1>14. QED
  BY <1>8, <1>11, <1>12, <1>13 DEF IInv

-----------------------------------------------------------------------------
(* The inductive invariant: the device.                                    *)

\* What is known of the kernel a device is running.
LEMMA RunningFacts ==
  ASSUME TypeOK, IInv, NEW d \in Devices, Busy(d)
  PROVE  /\ head[d] \in Nat /\ head[d] + 1 \in 1 .. Len(stream[d])
         /\ Running(d) = KernelAt(d, head[d] + 1) /\ Running(d) \in Kernels(d)
         /\ Running(d).op \in {"gemv", "reduce"} =>
              /\ Running(d).key \in Keys /\ DeviceOf(Running(d).key) = d
              /\ Running(d).call \in DOMAIN asked
              /\ asked[Running(d).call] = Running(d).key
              /\ cache[Running(d).key] = Running(d).part
              /\ Running(d).part \in Blocks /\ Running(d).part[1] = d
         /\ Running(d).op = "reduce" => Running(d).out \in Blocks /\ Running(d).out[1] = d
<1>1. /\ head[d] \in Nat /\ head[d] + 1 \in 1 .. Len(stream[d])
      /\ Running(d) = KernelAt(d, head[d] + 1) /\ Running(d) \in Kernels(d)
  BY StreamFacts DEF Busy, Running, KernelAt, TypeOK
<1>2. Running(d).op \in {"gemv", "reduce"} =>
        /\ Running(d).key \in Keys /\ DeviceOf(Running(d).key) = d
        /\ Running(d).call \in DOMAIN asked
        /\ asked[Running(d).call] = Running(d).key
        /\ cache[Running(d).key] = Running(d).part
        /\ Running(d).part \in Blocks /\ Running(d).part # NoBlock
  BY <1>1, KernelFacts, BlockFacts DEF IInv, KernelsWellPlaced
<1>3. Running(d).op = "reduce" => Running(d).out \in Blocks /\ Running(d).out[1] = d
  BY <1>1, KernelFacts DEF IInv, KernelsWellPlaced
<1>4. QED
  BY <1>1, <1>2, <1>3 DEF IInv, MemoryApart

\* A device step leaves what the host has done as it is.
LEMMA HostUnchanged ==
  ASSUME IInv, UNCHANGED hostVars
  PROVE  /\ MemoryApart' /\ PendingLast' /\ KernelsWellPlaced'
         /\ Paired' /\ HeldFresh' /\ UsesFresh'
<1>1. MemoryApart' /\ PendingLast'
  BY DEF hostVars, IInv, MemoryApart, PendingLast, KernelAt
<1>2. KernelsWellPlaced' /\ Paired'
  BY DEF hostVars, IInv, KernelsWellPlaced, Paired, KernelAt
<1>3. HeldFresh' /\ UsesFresh'
  BY DEF hostVars, IInv, HeldFresh, UsesFresh, Fresh, KernelAt
<1>4. QED
  BY <1>1, <1>2, <1>3

LEMMA GemvProgramKeeps ==
  ASSUME TypeOK, IInv, NEW d \in Devices, NEW r \in Rows, GemvProgram(d, r)
  PROVE  IInv'
<1> DEFINE part == Running(d).part
<1>1. /\ Busy(d) /\ Running(d).op = "gemv" /\ r < SplitOf(Running(d).key)
      /\ mem' = [mem EXCEPT ![part][r] = Running(d).call]
      /\ ran' = [ran EXCEPT ![d] = @ \cup {r}]
      /\ UNCHANGED <<hostVars, head, observed>>
  BY DEF GemvProgram
<1>2. /\ head[d] \in Nat /\ head[d] + 1 \in 1 .. Len(stream[d])
      /\ Running(d) = KernelAt(d, head[d] + 1)
      /\ part \in Blocks /\ part[1] = d
      /\ Target(Running(d)) = part
  BY <1>1, RunningFacts, KernelFacts
<1>3. stream' = stream /\ asked' = asked /\ head' = head
  BY <1>1 DEF hostVars
<1>4. /\ \A b \in Blocks : b # part => mem'[b] = mem[b]
      /\ \A s \in Rows : mem'[part][s] = IF s = r THEN Running(d).call ELSE mem[part][s]
      /\ ran'[d] = ran[d] \cup {r} /\ \A e \in Devices : e # d => ran'[e] = ran[e]
      /\ \A e \in Devices : ran[e] \subseteq Rows
  BY <1>1, <1>2 DEF TypeOK
<1>5. RunningRows'
  <2> SUFFICES ASSUME NEW e \in Devices
               PROVE  /\ head[e] <= Len(stream[e])
                      /\ ran'[e] # {} => Busy(e) /\ Running(e).op = "gemv"
                      /\ \A s \in ran'[e] :
                           /\ s < SplitOf(Running(e).key)
                           /\ mem'[Running(e).part][s] = Running(e).call
    BY <1>3 DEF RunningRows, Busy, Running
  <2>1. CASE e = d
    BY <1>1, <1>4, <2>1 DEF IInv, RunningRows
  <2>2. CASE e # d /\ ran[e] = {}
    BY <1>4, <2>2 DEF IInv, RunningRows
  <2>3. CASE e # d /\ ran[e] # {}
    <3>1. Busy(e) /\ Running(e).op = "gemv"
      BY <2>3 DEF IInv, RunningRows
    <3>2. Running(e).part \in Blocks /\ Running(e).part # part
      BY <1>2, <2>3, <3>1, RunningFacts
    <3>3. QED
      BY <1>4, <2>3, <3>1, <3>2 DEF IInv, RunningRows
  <2>4. QED
    BY <2>1, <2>2, <2>3
<1>6. RowsComplete'
  <2> SUFFICES ASSUME NEW e \in Devices,
                      head[e] > 0, KernelAt(e, head[e]).op = "gemv",
                      Busy(e) => Running(e).op = "reduce"
               PROVE  \A s \in 0 .. SplitOf(KernelAt(e, head[e]).key) - 1 :
                        mem'[KernelAt(e, head[e]).part][s] = KernelAt(e, head[e]).call
    BY <1>3 DEF RowsComplete, Busy, Running, KernelAt
  <2>1. e # d
    BY <1>1
  <2>2. head[e] \in 1 .. Len(stream[e])
    BY StreamFacts DEF IInv, RunningRows, TypeOK
  <2>3. /\ KernelAt(e, head[e]).key \in Keys /\ DeviceOf(KernelAt(e, head[e]).key) = e
        /\ KernelAt(e, head[e]).part \in Blocks
        /\ cache[KernelAt(e, head[e]).key] = KernelAt(e, head[e]).part
    BY <2>2, KernelAtType, KernelFacts DEF IInv, KernelsWellPlaced
  <2>4. KernelAt(e, head[e]).part # part
    BY <1>2, <2>1, <2>3, BlockFacts DEF IInv, MemoryApart
  <2>5. QED
    BY <1>4, <2>3, <2>4 DEF IInv, RowsComplete
<1>7. SumsKept'
  <2> SUFFICES ASSUME NEW e \in Devices, NEW j \in 1 .. head[e],
                      KernelAt(e, j).op = "reduce",
                      \A n \in 1 .. Len(stream[e]) :
                        j < n /\ n <= head[e] + 1 => Target(KernelAt(e, n)) # KernelAt(e, j).out
               PROVE  mem'[KernelAt(e, j).out] =
                        FullSum(KernelAt(e, j).call, KernelAt(e, j).key)
    BY <1>3 DEF SumsKept, KernelAt
  <2>1. mem[KernelAt(e, j).out] = FullSum(KernelAt(e, j).call, KernelAt(e, j).key)
    BY DEF IInv, SumsKept
  <2>2. j \in 1 .. Len(stream[e])
    BY StreamFacts DEF IInv, RunningRows, TypeOK
  <2>3. KernelAt(e, j).out \in Blocks /\ KernelAt(e, j).out[1] = e
    BY <2>2, KernelAtType, KernelFacts DEF IInv, KernelsWellPlaced
  <2>4. CASE e # d
    BY <1>2, <1>4, <2>1, <2>3, <2>4
  <2>5. CASE e = d
    <3>1. Target(KernelAt(d, head[d] + 1)) # KernelAt(e, j).out
      BY <1>2, <2>5
    <3>2. QED
      BY <1>2, <1>4, <2>1, <2>3, <3>1
  <2>6. QED
    BY <2>4, <2>5
<1>8. Observed'
  BY <1>1, <1>3 DEF IInv, Observed
<1>9. QED
  BY <1>1, <1>5, <1>6, <1>7, <1>8, HostUnchanged DEF IInv

LEMMA GemvEndsKeeps ==
  ASSUME TypeOK, IInv, NEW d \in Devices, GemvEnds(d)
  PROVE  IInv'
<1>1. /\ Busy(d) /\ Running(d).op = "gemv"
      /\ ran[d] = 0 .. SplitOf(Running(d).key) - 1
      /\ head' = [head EXCEPT ![d] = @ + 1] /\ ran' = [ran EXCEPT ![d] = {}]
      /\ UNCHANGED <<hostVars, mem, observed>>
  BY DEF GemvEnds, KernelEnds
<1>2. /\ head[d] \in Nat /\ head[d] + 1 \in 1 .. Len(stream[d]) /\ Len(stream[d]) \in Nat
      /\ Running(d) = KernelAt(d, head[d] + 1)
  BY <1>1, RunningFacts, StreamFacts
<1>3. /\ stream' = stream /\ asked' = asked /\ mem' = mem
      /\ head'[d] = head[d] + 1 /\ ran'[d] = {}
      /\ \A e \in Devices : e # d => head'[e] = head[e] /\ ran'[e] = ran[e]
  BY <1>1 DEF hostVars, TypeOK
<1>4. RunningRows'
  <2> SUFFICES ASSUME NEW e \in Devices
               PROVE  /\ head'[e] <= Len(stream'[e])
                      /\ ran'[e] # {} => Busy(e)' /\ Running(e)'.op = "gemv"
                      /\ \A s \in ran'[e] :
                           /\ s < SplitOf(Running(e)'.key)
                           /\ mem'[Running(e)'.part][s] = Running(e)'.call
    BY DEF RunningRows
  <2>1. CASE e = d
    BY <1>2, <1>3, <2>1
  <2>2. CASE e # d
    <3>1. Busy(e)' = Busy(e) /\ Running(e)' = Running(e)
      BY <1>3, <2>2 DEF Busy, Running
    <3>2. QED
      BY <1>3, <2>2, <3>1 DEF IInv, RunningRows
  <2>3. QED
    BY <2>1, <2>2
<1>5. RowsComplete'
  <2> SUFFICES ASSUME NEW e \in Devices, NEW i, i = head'[e],
                      i > 0, stream[e][i].op = "gemv",
                      Busy(e)' => Running(e)'.op = "reduce"
               PROVE  \A s \in 0 .. SplitOf(stream[e][i].key) - 1 :
                        mem[stream[e][i].part][s] = stream[e][i].call
    BY <1>3 DEF RowsComplete, KernelAt
  <2>1. CASE e = d
    <3>1. stream[e][i] = Running(d)
      BY <1>2, <1>3, <2>1 DEF KernelAt
    <3>2. QED
      BY <1>1, <3>1 DEF IInv, RunningRows
  <2>2. CASE e # d
    <3>1. Busy(e)' = Busy(e) /\ Running(e)' = Running(e) /\ i = head[e]
      BY <1>3, <2>2 DEF Busy, Running
    <3>2. QED
      BY <3>1 DEF IInv, RowsComplete, KernelAt
  <2>3. QED
    BY <2>1, <2>2
<1>6. SumsKept'
  <2> SUFFICES ASSUME NEW e \in Devices, NEW j \in 1 .. head'[e],
                      stream[e][j].op = "reduce",
                      \A n \in 1 .. Len(stream[e]) :
                        j < n /\ n <= head'[e] + 1 => Target(stream[e][n]) # stream[e][j].out
               PROVE  mem[stream[e][j].out] = FullSum(stream[e][j].call, stream[e][j].key)
    BY <1>3 DEF SumsKept, KernelAt
  <2>1. head[e] \in Nat /\ head'[e] \in {head[e], head[e] + 1}
    BY <1>3 DEF TypeOK
  <2>2. j \in 1 .. head[e]
    BY <1>1, <1>2, <1>3, <2>1 DEF KernelAt
  <2>3. \A n \in 1 .. Len(stream[e]) :
          j < n /\ n <= head[e] + 1 => Target(stream[e][n]) # stream[e][j].out
    BY <2>1
  <2>4. QED
    BY <2>2, <2>3 DEF IInv, SumsKept, KernelAt
<1>7. Observed'
  BY <1>1, <1>3 DEF IInv, Observed
<1>8. QED
  BY <1>1, <1>4, <1>5, <1>6, <1>7, HostUnchanged DEF IInv

LEMMA UseRunsKeeps ==
  ASSUME TypeOK, IInv, NEW d \in Devices, UseRuns(d)
  PROVE  /\ IInv'
         /\ \A h \in Running(d).reads :
              h[1] \in DOMAIN asked /\ mem[h[2]] = FullSum(h[1], asked[h[1]])
<1>1. /\ Busy(d) /\ Running(d).op = "use"
      /\ observed' = observed \cup {[call |-> h[1], value |-> mem[h[2]]] : h \in Running(d).reads}
      /\ head' = [head EXCEPT ![d] = @ + 1]
      /\ UNCHANGED <<hostVars, ran, mem>>
  BY DEF UseRuns, KernelEnds
<1>2. /\ head[d] \in Nat /\ head[d] + 1 \in 1 .. Len(stream[d]) /\ Len(stream[d]) \in Nat
      /\ Running(d) = KernelAt(d, head[d] + 1)
      /\ Running(d).reads \subseteq Nat \X Blocks /\ Target(Running(d)) = NoBlock
  BY <1>1, RunningFacts, StreamFacts, KernelFacts
<1>3. /\ stream' = stream /\ asked' = asked /\ mem' = mem /\ ran' = ran
      /\ head'[d] = head[d] + 1
      /\ \A e \in Devices : e # d => head'[e] = head[e]
  BY <1>1 DEF hostVars, TypeOK
<1>4. ran[d] = {}
  BY <1>1 DEF IInv, RunningRows
<1>5. ASSUME NEW h \in Running(d).reads
      PROVE  h[1] \in DOMAIN asked /\ mem[h[2]] = FullSum(h[1], asked[h[1]])
  <2>1. Fresh(d, h, head[d]) /\ h[1] \in DOMAIN asked
    <3>1. Fresh(d, h, head[d] + 1 - 1) /\ h[1] \in DOMAIN asked
      BY <1>1, <1>2 DEF IInv, UsesFresh, KernelsWellPlaced
    <3>2. QED
      BY <1>2, <3>1
  <2>2. PICK j \in 1 .. head[d] :
          /\ KernelAt(d, j).op = "reduce"
          /\ KernelAt(d, j).call = h[1] /\ KernelAt(d, j).out = h[2]
          /\ \A n \in 1 .. head[d] : n > j => Target(KernelAt(d, n)) # h[2]
    BY <2>1 DEF Fresh
  <2>3. h[2] # NoBlock
    BY <1>2, BlockFacts
  <2>4. \A n \in 1 .. Len(stream[d]) :
          j < n /\ n <= head[d] + 1 => Target(KernelAt(d, n)) # KernelAt(d, j).out
    BY <1>2, <2>2, <2>3
  <2>5. mem[h[2]] = FullSum(KernelAt(d, j).call, KernelAt(d, j).key)
    BY <2>2, <2>4 DEF IInv, SumsKept
  <2>6. j \in 1 .. Len(stream[d])
    BY <1>2
  <2>7. KernelAt(d, j).key = asked[h[1]]
    BY <2>2, <2>6 DEF IInv, KernelsWellPlaced
  <2>8. QED
    BY <2>1, <2>2, <2>5, <2>7
<1>6. Observed'
  BY <1>1, <1>3, <1>5 DEF IInv, Observed
<1>7. RunningRows'
  <2> SUFFICES ASSUME NEW e \in Devices
               PROVE  /\ head'[e] <= Len(stream'[e])
                      /\ ran'[e] # {} => Busy(e)' /\ Running(e)'.op = "gemv"
                      /\ \A s \in ran'[e] :
                           /\ s < SplitOf(Running(e)'.key)
                           /\ mem'[Running(e)'.part][s] = Running(e)'.call
    BY DEF RunningRows
  <2>1. CASE e = d
    BY <1>2, <1>3, <1>4, <2>1
  <2>2. CASE e # d
    <3>1. Busy(e)' = Busy(e) /\ Running(e)' = Running(e)
      BY <1>3, <2>2 DEF Busy, Running
    <3>2. QED
      BY <1>3, <2>2, <3>1 DEF IInv, RunningRows
  <2>3. QED
    BY <2>1, <2>2
<1>8. RowsComplete'
  <2> SUFFICES ASSUME NEW e \in Devices, NEW i, i = head'[e],
                      i > 0, stream[e][i].op = "gemv",
                      Busy(e)' => Running(e)'.op = "reduce"
               PROVE  \A s \in 0 .. SplitOf(stream[e][i].key) - 1 :
                        mem[stream[e][i].part][s] = stream[e][i].call
    BY <1>3 DEF RowsComplete, KernelAt
  <2>1. e # d
    BY <1>1, <1>2, <1>3 DEF KernelAt
  <2>2. Busy(e)' = Busy(e) /\ Running(e)' = Running(e) /\ i = head[e]
    BY <1>3, <2>1 DEF Busy, Running
  <2>3. QED
    BY <2>2 DEF IInv, RowsComplete, KernelAt
<1>9. SumsKept'
  <2> SUFFICES ASSUME NEW e \in Devices, NEW j \in 1 .. head'[e],
                      stream[e][j].op = "reduce",
                      \A n \in 1 .. Len(stream[e]) :
                        j < n /\ n <= head'[e] + 1 => Target(stream[e][n]) # stream[e][j].out
               PROVE  mem[stream[e][j].out] = FullSum(stream[e][j].call, stream[e][j].key)
    BY <1>3 DEF SumsKept, KernelAt
  <2>1. head[e] \in Nat /\ head'[e] \in {head[e], head[e] + 1}
    BY <1>3 DEF TypeOK
  <2>2. j \in 1 .. head[e]
    BY <1>1, <1>2, <1>3, <2>1 DEF KernelAt
  <2>3. \A n \in 1 .. Len(stream[e]) :
          j < n /\ n <= head[e] + 1 => Target(stream[e][n]) # stream[e][j].out
    BY <2>1
  <2>4. QED
    BY <2>2, <2>3 DEF IInv, SumsKept, KernelAt
<1>10. QED
  BY <1>1, <1>5, <1>6, <1>7, <1>8, <1>9, HostUnchanged DEF IInv

LEMMA ReduceRunsKeeps ==
  ASSUME TypeOK, IInv, NEW d \in Devices, ReduceRuns(d)
  PROVE  IInv'
<1> DEFINE out == Running(d).out
           part == Running(d).part
           split == SplitOf(Running(d).key)
<1>1. /\ Busy(d) /\ Running(d).op = "reduce"
      /\ mem' = [mem EXCEPT ![out] = SumOfRows(part, split)]
      /\ head' = [head EXCEPT ![d] = @ + 1]
      /\ UNCHANGED <<hostVars, ran, observed>>
  BY DEF ReduceRuns, KernelEnds
<1>2. /\ head[d] \in Nat /\ head[d] + 1 \in 1 .. Len(stream[d]) /\ Len(stream[d]) \in Nat
      /\ Running(d) = KernelAt(d, head[d] + 1)
      /\ out \in Blocks /\ out[1] = d /\ Target(Running(d)) = out
      /\ Running(d).key \in Keys
  BY <1>1, RunningFacts, StreamFacts, KernelFacts
<1>3. /\ stream' = stream /\ asked' = asked /\ ran' = ran
      /\ head'[d] = head[d] + 1
      /\ \A e \in Devices : e # d => head'[e] = head[e]
      /\ mem'[out] = SumOfRows(part, split)
      /\ \A b \in Blocks : b # out => mem'[b] = mem[b]
  BY <1>1, <1>2 DEF hostVars, TypeOK
<1>4. ran[d] = {}
  BY <1>1 DEF IInv, RunningRows
\* The sum is of the rows the GEMV kernel just before has left.
<1>5. mem'[out] = FullSum(Running(d).call, Running(d).key)
  <2>1. /\ head[d] + 1 > 1
        /\ KernelAt(d, head[d] + 1 - 1) = Gemv(Running(d).call, Running(d).key, part)
    BY <1>1, <1>2 DEF IInv, Paired
  <2>2. head[d] > 0 /\ KernelAt(d, head[d]) = Gemv(Running(d).call, Running(d).key, part)
    BY <1>2, <2>1
  <2>3. \A s \in 0 .. split - 1 : mem[part][s] = Running(d).call
    BY <1>1, <2>2 DEF IInv, RowsComplete, Gemv
  <2>4. split \in Nat /\ \A s \in Rows : s \in Nat
    BY <1>2, KeyFacts DEF Rows
  <2>5. \A s \in Rows : s < split => mem[part][s] = Running(d).call
    BY <2>3, <2>4
  <2>6. QED
    BY <1>3, <2>5 DEF SumOfRows, FullSum
<1>6. RunningRows'
  <2> SUFFICES ASSUME NEW e \in Devices
               PROVE  /\ head'[e] <= Len(stream'[e])
                      /\ ran'[e] # {} => Busy(e)' /\ Running(e)'.op = "gemv"
                      /\ \A s \in ran'[e] :
                           /\ s < SplitOf(Running(e)'.key)
                           /\ mem'[Running(e)'.part][s] = Running(e)'.call
    BY DEF RunningRows
  <2>1. CASE e = d
    BY <1>2, <1>3, <1>4, <2>1
  <2>2. CASE e # d
    <3>1. Busy(e)' = Busy(e) /\ Running(e)' = Running(e)
      BY <1>3, <2>2 DEF Busy, Running
    <3>2. ASSUME Busy(e), Running(e).op = "gemv"
          PROVE  mem'[Running(e).part] = mem[Running(e).part]
      BY <1>2, <1>3, <2>2, <3>2, RunningFacts
    <3>3. QED
      BY <1>3, <2>2, <3>1, <3>2 DEF IInv, RunningRows
  <2>3. QED
    BY <2>1, <2>2
<1>7. RowsComplete'
  <2> SUFFICES ASSUME NEW e \in Devices, NEW i, i = head'[e],
                      i > 0, stream[e][i].op = "gemv",
                      Busy(e)' => Running(e)'.op = "reduce"
               PROVE  \A s \in 0 .. SplitOf(stream[e][i].key) - 1 :
                        mem'[stream[e][i].part][s] = stream[e][i].call
    BY <1>3 DEF RowsComplete, KernelAt
  <2>1. e # d
    BY <1>1, <1>2, <1>3 DEF KernelAt
  <2>2. Busy(e)' = Busy(e) /\ Running(e)' = Running(e) /\ i = head[e]
    BY <1>3, <2>1 DEF Busy, Running
  <2>3. i \in 1 .. Len(stream[e])
    BY <2>2, StreamFacts DEF IInv, RunningRows, TypeOK
  <2>4. /\ stream[e][i].key \in Keys /\ DeviceOf(stream[e][i].key) = e
        /\ stream[e][i].part \in Blocks
        /\ cache[stream[e][i].key] = stream[e][i].part
    BY <2>3, KernelAtType, KernelFacts DEF IInv, KernelsWellPlaced, KernelAt
  <2>5. stream[e][i].part # out
    BY <1>2, <2>1, <2>4, BlockFacts DEF IInv, MemoryApart
  <2>6. QED
    BY <1>3, <2>2, <2>4, <2>5 DEF IInv, RowsComplete, KernelAt
<1>8. SumsKept'
  <2> SUFFICES ASSUME NEW e \in Devices, NEW j \in 1 .. head'[e],
                      stream[e][j].op = "reduce",
                      \A n \in 1 .. Len(stream[e]) :
                        j < n /\ n <= head'[e] + 1 => Target(stream[e][n]) # stream[e][j].out
               PROVE  mem'[stream[e][j].out] = FullSum(stream[e][j].call, stream[e][j].key)
    BY <1>3 DEF SumsKept, KernelAt
  <2>1. head[e] \in Nat /\ head'[e] \in {head[e], head[e] + 1} /\ head[e] <= Len(stream[e])
    BY <1>3 DEF TypeOK, IInv, RunningRows
  <2>2. CASE e = d /\ j = head[d] + 1
    BY <1>2, <1>5, <2>2 DEF KernelAt
  <2>3. CASE j \in 1 .. head[e]
    <3>1. \A n \in 1 .. Len(stream[e]) :
            j < n /\ n <= head[e] + 1 => Target(stream[e][n]) # stream[e][j].out
      BY <2>1
    <3>2. mem[stream[e][j].out] = FullSum(stream[e][j].call, stream[e][j].key)
      BY <2>3, <3>1 DEF IInv, SumsKept, KernelAt
    <3>3. j \in 1 .. Len(stream[e])
      BY <2>1, <2>3, StreamFacts
    <3>4. stream[e][j].out \in Blocks /\ stream[e][j].out[1] = e
      BY <3>3, KernelAtType, KernelFacts DEF IInv, KernelsWellPlaced, KernelAt
    <3>5. stream[e][j].out # out
      <4>1. CASE e # d
        BY <1>2, <3>4, <4>1
      <4>2. CASE e = d
        BY <1>2, <2>3, <3>1, <4>2 DEF KernelAt
      <4>3. QED
        BY <4>1, <4>2
    <3>6. QED
      BY <1>3, <3>2, <3>4, <3>5
  <2>4. QED
    BY <1>3, <2>1, <2>2, <2>3
<1>9. Observed'
  BY <1>1, <1>3 DEF IInv, Observed
<1>10. QED
  BY <1>1, <1>6, <1>7, <1>8, <1>9, HostUnchanged DEF IInv

-----------------------------------------------------------------------------
(* The inductive invariant and what it implies.                            *)

LEMMA InvariantStep ==
  ASSUME TypeOK, IInv, [Next]_vars
  PROVE  IInv'
<1>1. ASSUME NEW k \in Keys, LaunchGemv(k) \/ CaptureLayer(k)
      PROVE  IInv'
  BY <1>1, LaunchGemvKeeps, CaptureKeeps
<1>2. CASE LaunchReduce
  BY <1>2, LaunchReduceKeeps
<1>3. CASE SecondHalfFails \/ \E h \in held : Drop(h)
  BY <1>3, HostRestKeeps
<1>4. ASSUME NEW d \in Devices, NEW hs \in SUBSET held, Consume(d, hs)
      PROVE  IInv'
  BY <1>4, ConsumeKeeps
<1>5. ASSUME NEW g \in graphs, Replay(g)
      PROVE  IInv'
  BY <1>5, ReplayKeeps
<1>6. ASSUME NEW d \in Devices, DeviceStep(d)
      PROVE  IInv'
  BY <1>6, GemvProgramKeeps, GemvEndsKeeps, ReduceRunsKeeps, UseRunsKeeps DEF DeviceStep
<1>7. CASE UNCHANGED vars
  <2>1. UNCHANGED hostVars /\ UNCHANGED gpuVars
    BY <1>7 DEF vars, hostVars, gpuVars
  <2>2. RunningRows' /\ RowsComplete' /\ SumsKept' /\ Observed'
    BY <2>1 DEF hostVars, gpuVars, IInv, RunningRows, RowsComplete, SumsKept, Observed,
                KernelAt, Busy, Running
  <2>3. QED
    BY <2>1, <2>2, HostUnchanged DEF IInv
<1>8. QED
  BY <1>1, <1>2, <1>3, <1>4, <1>5, <1>6, <1>7 DEF Next

\* The inductive invariant holds in every reachable state.
THEOREM InvariantHolds == Spec => [](TypeOK /\ IInv)
<1>1. Init => TypeOK /\ IInv
  <2> SUFFICES ASSUME Init PROVE TypeOK /\ IInv
    OBVIOUS
  <2>1. TypeOK
    BY SplitKAssumption, NoShapeType DEF Init, TypeOK, Rows
  <2>2. MemoryApart /\ PendingLast /\ HeldFresh /\ Observed
    BY DEF Init, MemoryApart, PendingLast, HeldFresh, Observed
  <2>3. \A d \in Devices : Len(stream[d]) = 0 /\ head[d] = 0 /\ ran[d] = {}
    BY DEF Init
  <2>4. KernelsWellPlaced /\ Paired /\ UsesFresh
    BY <2>3 DEF KernelsWellPlaced, Paired, UsesFresh
  <2>5. RunningRows /\ RowsComplete /\ SumsKept
    BY <2>3 DEF RunningRows, RowsComplete, SumsKept
  <2>6. QED
    BY <2>1, <2>2, <2>4, <2>5 DEF IInv
<1>2. TypeOK /\ IInv /\ [Next]_vars => (TypeOK /\ IInv)'
  BY TypeStep, InvariantStep
<1>3. QED
  BY <1>1, <1>2, PTL DEF Spec

\* Whatever a consumer of a result reads is the complete product of the very
\* call that returned it, for any number of keys, calls, devices and graphs.
THEOREM OwnSumHolds == Spec => []OwnSum
<1>1. IInv => OwnSum
  BY DEF IInv, Observed, OwnSum
<1>2. QED
  BY <1>1, InvariantHolds, PTL

\* A result in the host's hands keeps its value once its reduce has run.
THEOREM HeldIntactHolds == Spec => []HeldIntact
<1>1. TypeOK /\ IInv => HeldIntact
  <2> SUFFICES ASSUME TypeOK, IInv, NEW h \in held, NEW d, d = h[2][1],
                      NEW j \in 1 .. head[d],
                      stream[d][j].op = "reduce", stream[d][j].call = h[1]
               PROVE  mem[h[2]] = FullSum(h[1], asked[h[1]])
    BY DEF HeldIntact
  <2>1. d \in Devices /\ Fresh(d, h, Len(stream[d]))
    BY BlockFacts DEF IInv, HeldFresh, TypeOK
  <2>2. PICK i \in 1 .. Len(stream[d]) :
          /\ stream[d][i].op = "reduce" /\ stream[d][i].call = h[1] /\ stream[d][i].out = h[2]
          /\ \A n \in 1 .. Len(stream[d]) : n > i => Target(stream[d][n]) # h[2]
    BY <2>1 DEF Fresh, KernelAt
  <2>3. j \in 1 .. Len(stream[d])
    BY <2>1, StreamFacts DEF IInv, RunningRows, TypeOK
  <2>4. i = j
    BY <2>1, <2>2, <2>3 DEF IInv, Paired, KernelAt
  <2>5. mem[stream[d][j].out] = FullSum(stream[d][j].call, stream[d][j].key)
    BY <2>1, <2>2, <2>4 DEF IInv, SumsKept, KernelAt
  <2>6. stream[d][j].key = asked[h[1]]
    BY <2>1, <2>3 DEF IInv, KernelsWellPlaced, KernelAt
  <2>7. QED
    BY <2>2, <2>4, <2>5, <2>6
<1>2. QED
  BY <1>1, InvariantHolds, PTL

\* Every launched GEMV kernel stays inside a buffer of its own device.
THEOREM PartialsFitHolds == Spec => []PartialsFit
<1>1. TypeOK /\ IInv => PartialsFit
  <2> SUFFICES ASSUME TypeOK, IInv, NEW d \in Devices, NEW i \in DOMAIN stream[d],
                      stream[d][i].op = "gemv"
               PROVE  /\ Elements(extent[stream[d][i].part]) >= Elements(ShapeOf(stream[d][i].key))
                      /\ stream[d][i].part[1] = d
    BY DEF PartialsFit
  <2>1. i \in 1 .. Len(stream[d])
    BY StreamFacts
  <2>2. /\ stream[d][i].key \in Keys /\ DeviceOf(stream[d][i].key) = d
        /\ stream[d][i].part \in Blocks /\ cache[stream[d][i].key] = stream[d][i].part
    BY <2>1, KernelAtType, KernelFacts DEF IInv, KernelsWellPlaced, KernelAt
  <2>3. /\ extent[stream[d][i].part] = ShapeOf(stream[d][i].key)
        /\ stream[d][i].part[1] = d
    BY <2>2, BlockFacts DEF IInv, MemoryApart
  <2>4. Elements(ShapeOf(stream[d][i].key)) \in Nat
    BY <2>2, KeyFacts DEF Elements, Shapes
  <2>5. QED
    BY <2>3, <2>4
<1>2. QED
  BY <1>1, InvariantHolds, PTL

\* The addresses a captured graph holds are given to nobody else.
THEOREM GraphMemoryReservedHolds == Spec => []GraphMemoryReserved
<1>1. TypeOK /\ IInv => GraphMemoryReserved
  <2> SUFFICES ASSUME TypeOK, IInv, NEW g \in graphs
               PROVE  /\ g.part \in CachedBlocks
                      /\ {g.part, g.gate, g.up} \cap HeldBlocks = {}
                      /\ {g.gate, g.up} \cap CachedBlocks = {}
    BY DEF GraphMemoryReserved
  <2>1. g.key \in Keys /\ g.part \in Blocks /\ g.part # NoBlock /\ cache[g.key] = g.part
    BY BlockFacts DEF TypeOK, IInv, MemoryApart
  <2>2. g.part \in CachedBlocks
    BY <2>1 DEF CachedBlocks
  <2>3. \A h \in held : h[2] # g.part /\ h[2] # g.gate /\ h[2] # g.up
    BY <2>1 DEF IInv, MemoryApart
  <2>4. \A k \in Keys : cache[k] # g.gate /\ cache[k] # g.up
    BY DEF IInv, MemoryApart
  <2>5. QED
    BY <2>2, <2>3, <2>4 DEF HeldBlocks, CachedBlocks
<1>2. QED
  BY <1>1, InvariantHolds, PTL

-----------------------------------------------------------------------------
(* Refinement of Gemv.                                                     *)

\* Everything but a call, a replay and a kernel that reads results leaves what
\* the callers see alone.
LEMMA QuietSteps ==
  ASSUME \/ LaunchReduce \/ SecondHalfFails
         \/ \E k \in Keys : CaptureLayer(k)
         \/ \E h \in held : Drop(h)
         \/ \E d \in Devices : \E hs \in SUBSET held : Consume(d, hs)
         \/ \E d \in Devices : \/ \E r \in Rows : GemvProgram(d, r)
                               \/ GemvEnds(d)
                               \/ ReduceRuns(d)
  PROVE  UNCHANGED Promise!gemvVars
BY DEF LaunchReduce, SecondHalfFails, CaptureLayer, Consume, Drop, GemvProgram,
       GemvEnds, ReduceRuns, hostVars, gpuVars, Promise!gemvVars

\* A kernel that reads results delivers the products of the calls it was given.
LEMMA UseDelivers ==
  ASSUME TypeOK, IInv, NEW d \in Devices, UseRuns(d)
  PROVE  Promise!Next
<1> DEFINE cs == {h[1] : h \in Running(d).reads}
<1>1. /\ observed' = observed \cup {[call |-> h[1], value |-> mem[h[2]]] : h \in Running(d).reads}
      /\ asked' = asked
  BY DEF UseRuns, hostVars
<1>2. \A h \in Running(d).reads :
        h[1] \in DOMAIN asked /\ mem[h[2]] = FullSum(h[1], asked[h[1]])
  BY UseRunsKeeps
<1>3. cs \in SUBSET (DOMAIN asked)
  BY <1>2
<1>4. {[call |-> h[1], value |-> mem[h[2]]] : h \in Running(d).reads}
        = {[call |-> c, value |-> FullSum(c, asked[c])] : c \in cs}
  BY <1>2
<1>5. Promise!Deliver(cs)
  BY <1>1, <1>4 DEF Promise!Deliver
<1>6. QED
  BY <1>3, <1>5 DEF Promise!Next

\* Every step of the implementation is a step of the promise, or none.
LEMMA RefinementStep ==
  ASSUME TypeOK, IInv, [Next]_vars
  PROVE  [Promise!Next]_Promise!gemvVars
<1>1. ASSUME NEW k \in Keys, LaunchGemv(k)
      PROVE  Promise!Next
  <2>1. Promise!Ask(k)
    BY <1>1 DEF LaunchGemv, gpuVars, Promise!Ask
  <2>2. QED
    BY <2>1 DEF Promise!Next
<1>2. ASSUME NEW g \in graphs, Replay(g)
      PROVE  Promise!Next
  <2>1. Promise!AskPair(g.key) /\ g.key \in Keys
    BY <1>2 DEF Replay, gpuVars, TypeOK, Promise!AskPair
  <2>2. QED
    BY <2>1 DEF Promise!Next
<1>3. ASSUME NEW d \in Devices, UseRuns(d)
      PROVE  Promise!Next
  BY <1>3, UseDelivers
<1>4. CASE UNCHANGED vars
  BY <1>4 DEF vars, Promise!gemvVars
<1>5. QED
  BY <1>1, <1>2, <1>3, <1>4, QuietSteps DEF Next, DeviceStep

\* The cached buffers, the queued kernels and the reused memory are invisible:
\* the callers of the product see Gemv and nothing else.
THEOREM Refinement == Spec => RefinesGemv
<1>1. Init => Promise!Init
  BY DEF Init, Promise!Init
<1>2. TypeOK /\ IInv /\ [Next]_vars => [Promise!Next]_Promise!gemvVars
  BY RefinementStep
<1>3. QED
  BY <1>1, <1>2, InvariantHolds, PTL DEF Spec, RefinesGemv, Promise!Spec
=============================================================================

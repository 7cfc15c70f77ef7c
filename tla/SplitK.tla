------------------------------- MODULE SplitK -------------------------------
(***************************************************************************)
(* The K-split decode GEMV of patches/awq_triton.py: the wrapper that      *)
(* launches two kernels for each product, the persistent partials buffers  *)
(* they share, and the device that runs the kernels later than the host    *)
(* launches them.                                                          *)
(*                                                                         *)
(* The host is one Python thread.  A call of awq_gemv_splitk_triton takes  *)
(* the partials buffer of its key from _SPLITK_PARTIALS, launches the GEMV *)
(* kernel, allocates a result and launches the reduce kernel; none of this *)
(* waits for the device.  A device runs the kernels of its stream one      *)
(* after the other; the programs of one kernel finish in any order.  The   *)
(* allocator gives memory back as soon as the host drops a tensor, whether *)
(* or not the device has run the kernels that still use it, and never      *)
(* clears it.  A captured graph holds the addresses of its buffers and is  *)
(* launched again and again.                                               *)
(*                                                                         *)
(* A row of a partials buffer is known by the call that wrote it: the      *)
(* SPLIT rows of call c, all written by c, are the product of c.           *)
(***************************************************************************)
EXTENDS Naturals, Sequences, FiniteSets

CONSTANTS
  Widths,      \* values of N: the output widths of the projections
  Keys,        \* the keys <<N, split, device>> that calls are made with
  Devices,     \* device indices; each has one stream
  Addresses,   \* memory of one device, in tensors
  MaxSplit,    \* no configuration splits K in more parts
  MaxCalls,    \* bound on the calls of a behaviour
  MaxGraphs,   \* bound on the captured graphs
  MaxUses,     \* bound on the kernels that read results in one stream
  NoBlock      \* no tensor

Blocks == Devices \X Addresses
Rows == 0 .. MaxSplit - 1
Calls == 1 .. MaxCalls

ASSUME SplitKAssumption ==
  /\ MaxSplit \in Nat \ {0}
  /\ MaxCalls \in Nat /\ MaxGraphs \in Nat /\ MaxUses \in Nat
  /\ Widths \subseteq Nat \ {0}
  /\ Keys \subseteq Widths \X (1 .. MaxSplit) \X Devices
  /\ NoBlock \notin Blocks

SplitOf(k) == k[2]
DeviceOf(k) == k[3]

\* What a buffer is created for, and what a kernel of key k stores: split rows of
\* N partial sums.
ShapeOf(k) == [rows |-> k[2], width |-> k[1]]
Shapes == [rows : Nat, width : Nat]
Elements(shape) == shape.rows * shape.width
NoShape == [rows |-> 0, width |-> 0]

VARIABLES
  asked,       \* asked[c] is the key of the c-th call
  cache,       \* _SPLITK_PARTIALS: key -> buffer
  extent,      \* the shape that the partials buffer in a block was created with
  held,        \* results the host still refers to, as <<call, block>>
  pending,     \* the call between its two launches, at most one
  graphs,      \* captured layers: a gate and an up projection and their reader
  stream,      \* stream[d]: every kernel launched on device d so far
  head,        \* head[d]: how many of them have finished
  ran,         \* ran[d]: the programs of the running GEMV kernel that finished
  mem,         \* mem[b][r]: the call that wrote row r of block b, 0 for none
  observed     \* what the kernels that read results have read

hostVars == <<asked, cache, extent, held, pending, graphs, stream>>
gpuVars == <<head, ran, mem, observed>>
vars == <<asked, cache, extent, held, pending, graphs, stream, head, ran, mem, observed>>

-----------------------------------------------------------------------------
(* Kernels.                                                                *)

Gemv(c, k, p) == [op |-> "gemv", call |-> c, key |-> k, part |-> p]
Reduce(c, k, p, o) == [op |-> "reduce", call |-> c, key |-> k, part |-> p, out |-> o]

\* A kernel that reads finished products, as silu_and_mul reads gate and up.
Use(hs) == [op |-> "use", reads |-> hs]

\* The block a kernel writes.
Target(kern) ==
  IF kern.op = "gemv" THEN kern.part
  ELSE IF kern.op = "reduce" THEN kern.out ELSE NoBlock

\* The one value call c may have: every row its own.
FullSum(c, k) == [r \in Rows |-> IF r < SplitOf(k) THEN c ELSE 0]

-----------------------------------------------------------------------------
(* Memory.                                                                 *)

HeldBlocks == {h[2] : h \in held}
GraphBlocks == {g.gate : g \in graphs} \cup {g.up : g \in graphs}
CachedBlocks == {cache[k] : k \in Keys} \ {NoBlock}
Free(d) == {b \in Blocks : b[1] = d} \ (HeldBlocks \cup GraphBlocks \cup CachedBlocks)

\* Mutants of SplitkPartials: a buffer remembered by split and device only, not
\* by N; a fresh buffer for each call.
SplitkPartialsNoWidth(k, p) ==
  LET alike == {j \in Keys : cache[j] # NoBlock /\ j[2] = k[2] /\ j[3] = k[3]} IN
  IF alike # {}
  THEN /\ \E j \in alike : p = cache[j]
       /\ UNCHANGED <<cache, extent>>
  ELSE /\ p \in Free(DeviceOf(k))
       /\ cache' = [cache EXCEPT ![k] = p]
       /\ extent' = [extent EXCEPT ![p] = ShapeOf(k)]

SplitkPartialsEachCall(k, p) ==
  /\ p \in Free(DeviceOf(k))
  /\ extent' = [extent EXCEPT ![p] = ShapeOf(k)]
  /\ UNCHANGED cache

\* _splitk_partials: p is the cached buffer of the key, or one allocated now
\* and remembered for good.
SplitkPartials(k, p) ==
  IF cache[k] # NoBlock
  THEN /\ p = cache[k]
       /\ UNCHANGED <<cache, extent>>
  ELSE /\ p \in Free(DeviceOf(k))
       /\ cache' = [cache EXCEPT ![k] = p]
       /\ extent' = [extent EXCEPT ![p] = ShapeOf(k)]

\* Mutant: one output tensor for each key.
CachedResult(k, o) ==
  IF \E h \in held : asked[h[1]] = k
  THEN \E h \in held : asked[h[1]] = k /\ o = h[2]
  ELSE o \in Free(DeviceOf(k))

\* The result tensor of one call: fresh memory of the key's device.
EmptyResult(k, o) == o \in Free(DeviceOf(k))

Launch(d, kernels) == stream' = [stream EXCEPT ![d] = @ \o kernels]

-----------------------------------------------------------------------------
(* The host.                                                               *)

\* awq_gemv_splitk_triton up to and with the first launch.
LaunchGemv(k) ==
  /\ pending = {}
  /\ Len(asked) < MaxCalls
  /\ \E p \in Blocks :
       LET c == Len(asked) + 1 IN
       /\ SplitkPartials(k, p)
       /\ asked' = Append(asked, k)
       /\ Launch(DeviceOf(k), <<Gemv(c, k, p)>>)
       /\ pending' = {[call |-> c, key |-> k, part |-> p]}
  /\ UNCHANGED <<held, graphs, gpuVars>>

\* The rest of it: allocate the result, launch the reduce, return the result.
LaunchReduce ==
  /\ \E q \in pending : \E o \in Blocks :
       /\ EmptyResult(q.key, o)
       /\ Launch(DeviceOf(q.key), <<Reduce(q.call, q.key, q.part, o)>>)
       /\ held' = held \cup {<<q.call, o>>}
  /\ pending' = {}
  /\ UNCHANGED <<asked, cache, extent, graphs, gpuVars>>

\* Mutant: wait for memory instead of raising.
SecondHalfWaits ==
  /\ \E q \in pending : Free(DeviceOf(q.key)) = {}
  /\ UNCHANGED vars

\* Between the two launches something raises: the allocation of the result, with
\* or without memory to give, or the launch of the reduce.  The call ends with its
\* first kernel launched, the reduce never launched and nothing returned.
SecondHalfFails ==
  /\ pending # {}
  /\ pending' = {}
  /\ UNCHANGED <<asked, cache, extent, held, graphs, stream, gpuVars>>

UsesIn(d) == {i \in DOMAIN stream[d] : stream[d][i].op = "use"}

\* The caller launches a kernel that reads results it still holds.
Consume(d, hs) ==
  /\ pending = {}
  /\ hs # {}
  /\ hs \subseteq {h \in held : h[2][1] = d}
  /\ Cardinality(UsesIn(d)) < MaxUses
  /\ Launch(d, <<Use(hs)>>)
  /\ UNCHANGED <<asked, cache, extent, held, pending, graphs, gpuVars>>

\* The caller forgets a result; its memory can be handed out at once.
Drop(h) ==
  /\ pending = {}
  /\ held' = held \ {h}
  /\ UNCHANGED <<asked, cache, extent, pending, graphs, stream, gpuVars>>

\* Capture of one layer: gate and up have the same key.  The calls run as they
\* do eagerly, but their kernels are recorded, not run, and their results stay
\* reserved for the graph.
CaptureLayer(k) ==
  /\ pending = {}
  /\ Cardinality(graphs) < MaxGraphs
  /\ \E p \in Blocks :
       /\ SplitkPartials(k, p)
       /\ \E gate, up \in Blocks \ {p} :
            /\ EmptyResult(k, gate) /\ EmptyResult(k, up)
            /\ gate # up
            /\ graphs' = graphs \cup {[key |-> k, part |-> p, gate |-> gate, up |-> up]}
  /\ UNCHANGED <<asked, held, pending, stream, gpuVars>>

\* Mutant: both GEMV kernels first, then both reduces.
ReplayGemvsFirst(g) ==
  LET c == Len(asked) + 1
      k == g.key IN
  /\ pending = {}
  /\ c + 1 <= MaxCalls
  /\ asked' = asked \o <<k, k>>
  /\ Launch(DeviceOf(k),
       << Gemv(c, k, g.part), Gemv(c + 1, k, g.part),
          Reduce(c, k, g.part, g.gate), Reduce(c + 1, k, g.part, g.up),
          Use({<<c, g.gate>>, <<c + 1, g.up>>}) >>)
  /\ UNCHANGED <<cache, extent, held, pending, graphs, gpuVars>>

\* One launch of a captured layer, on whatever its input buffer holds now.
Replay(g) ==
  LET c == Len(asked) + 1
      k == g.key IN
  /\ pending = {}
  /\ c + 1 <= MaxCalls
  /\ asked' = asked \o <<k, k>>
  /\ Launch(DeviceOf(k),
       << Gemv(c, k, g.part), Reduce(c, k, g.part, g.gate),
          Gemv(c + 1, k, g.part), Reduce(c + 1, k, g.part, g.up),
          Use({<<c, g.gate>>, <<c + 1, g.up>>}) >>)
  /\ UNCHANGED <<cache, extent, held, pending, graphs, gpuVars>>

-----------------------------------------------------------------------------
(* The device.                                                             *)

Busy(d) == head[d] < Len(stream[d])
Running(d) == stream[d][head[d] + 1]
KernelEnds(d) == head' = [head EXCEPT ![d] = @ + 1]

\* awq_gemv_splitk_kernel, the programs with program_id(1) = r: each stores
\* its partial sums in row r of the buffer.
GemvProgram(d, r) ==
  /\ Busy(d) /\ Running(d).op = "gemv"
  /\ r < SplitOf(Running(d).key)
  /\ r \notin ran[d]
  /\ mem' = [mem EXCEPT ![Running(d).part][r] = Running(d).call]
  /\ ran' = [ran EXCEPT ![d] = @ \cup {r}]
  /\ UNCHANGED <<hostVars, head, observed>>

\* Mutant: the next kernel starts while programs of this one still run.
GemvEndsEarly(d) ==
  /\ Busy(d) /\ Running(d).op = "gemv"
  /\ ran[d] # {}
  /\ KernelEnds(d)
  /\ ran' = [ran EXCEPT ![d] = {}]
  /\ UNCHANGED <<hostVars, mem, observed>>

\* The kernel has finished when all its programs have.
GemvEnds(d) ==
  /\ Busy(d) /\ Running(d).op = "gemv"
  /\ ran[d] = 0 .. SplitOf(Running(d).key) - 1
  /\ KernelEnds(d)
  /\ ran' = [ran EXCEPT ![d] = {}]
  /\ UNCHANGED <<hostVars, mem, observed>>

\* awq_gemv_splitk_reduce: the sum of the rows s in range(SPLIT).
SumOfRows(part, split) == [r \in Rows |-> IF r < split THEN mem[part][r] ELSE 0]

ReduceRuns(d) ==
  /\ Busy(d) /\ Running(d).op = "reduce"
  /\ mem' = [mem EXCEPT ![Running(d).out] =
                          SumOfRows(Running(d).part, SplitOf(Running(d).key))]
  /\ KernelEnds(d)
  /\ UNCHANGED <<hostVars, ran, observed>>

UseRuns(d) ==
  /\ Busy(d) /\ Running(d).op = "use"
  /\ observed' = observed \cup {[call |-> h[1], value |-> mem[h[2]]] : h \in Running(d).reads}
  /\ KernelEnds(d)
  /\ UNCHANGED <<hostVars, ran, mem>>

DeviceStep(d) ==
  \/ \E r \in Rows : GemvProgram(d, r)
  \/ GemvEnds(d)
  \/ ReduceRuns(d)
  \/ UseRuns(d)

-----------------------------------------------------------------------------

Init ==
  /\ asked = <<>>
  /\ cache = [k \in Keys |-> NoBlock]
  /\ extent = [b \in Blocks |-> NoShape]
  /\ held = {}
  /\ pending = {}
  /\ graphs = {}
  /\ stream = [d \in Devices |-> <<>>]
  /\ head = [d \in Devices |-> 0]
  /\ ran = [d \in Devices |-> {}]
  /\ mem = [b \in Blocks |-> [r \in Rows |-> 0]]
  /\ observed = {}

Next ==
  \/ \E k \in Keys : LaunchGemv(k) \/ CaptureLayer(k)
  \/ LaunchReduce
  \/ SecondHalfFails
  \/ \E d \in Devices : \E hs \in SUBSET held : Consume(d, hs)
  \/ \E h \in held : Drop(h)
  \/ \E g \in graphs : Replay(g)
  \/ \E d \in Devices : DeviceStep(d)

Spec == Init /\ [][Next]_vars

\* A device keeps running what it was given; a wrapper, once entered, runs to
\* its return or its exception.  Nothing makes a caller call, use or drop.
Fairness ==
  /\ \A d \in Devices : WF_vars(DeviceStep(d))
  /\ WF_vars(LaunchReduce \/ SecondHalfFails)

FairSpec == Spec /\ Fairness

-----------------------------------------------------------------------------
(* Properties.                                                             *)

Kernels(d) ==
  [op : {"gemv"}, call : Nat, key : {k \in Keys : DeviceOf(k) = d}, part : Blocks]
  \cup [op : {"reduce"}, call : Nat, key : {k \in Keys : DeviceOf(k) = d},
        part : Blocks, out : Blocks]
  \cup [op : {"use"}, reads : SUBSET (Nat \X Blocks)]

\* Every variable has its type.
TypeOK ==
  /\ asked \in Seq(Keys)
  /\ cache \in [Keys -> Blocks \cup {NoBlock}]
  /\ extent \in [Blocks -> Shapes]
  /\ held \subseteq Nat \X Blocks
  /\ pending \subseteq [call : Nat, key : Keys, part : Blocks]
  /\ graphs \subseteq [key : Keys, part : Blocks, gate : Blocks, up : Blocks]
  /\ DOMAIN stream = Devices /\ \A d \in Devices : stream[d] \in Seq(Kernels(d))
  /\ head \in [Devices -> Nat]
  /\ ran \in [Devices -> SUBSET Rows]
  /\ mem \in [Blocks -> [Rows -> Nat]]
  /\ observed \subseteq [call : Nat, value : [Rows -> Nat]]

\* What any consumer reads is the sum of all the K-slices of the call whose
\* result it was given (awq_gemv_splitk_reduce), although calls with equal
\* (N, split, device) overwrite one partials buffer, memory is handed out again
\* while kernels are queued, and graphs rewrite fixed addresses.
OwnSum == \A o \in observed : o.value = FullSum(o.call, asked[o.call])

\* A result the host still holds keeps its value from the end of its reduce on:
\* a later call with the same (N, K) must not clobber it before silu_and_mul
\* reads both (the comment on _SPLITK_PARTIALS: result must stay per-call).
HeldIntact ==
  \A h \in held : \A j \in 1 .. head[h[2][1]] :
    LET kern == stream[h[2][1]][j] IN
    kern.op = "reduce" /\ kern.call = h[1] => mem[h[2]] = FullSum(h[1], asked[h[1]])

\* No launched GEMV kernel stores beyond the buffer it was given, whose extent was
\* fixed by the call that first needed one, and none is given memory of another
\* device: calls that differ in N, in the split or in the device never share a
\* buffer that fits one of them only (the key at awq_triton.py:516).
PartialsFit ==
  \A d \in Devices : \A i \in DOMAIN stream[d] :
    LET kern == stream[d][i] IN
    kern.op = "gemv" =>
      Elements(extent[kern.part]) >= Elements(ShapeOf(kern.key)) /\ kern.part[1] = d

\* Graph-safe: the addresses in a captured graph stay the graph's own.  Its
\* partials buffer is never given to a result, its results never to anybody.
GraphMemoryReserved ==
  \A g \in graphs :
    /\ g.part \in CachedBlocks
    /\ {g.part, g.gate, g.up} \cap HeldBlocks = {}
    /\ {g.gate, g.up} \cap CachedBlocks = {}

Finished(c) ==
  /\ \A q \in pending : q.call # c
  /\ \A d \in Devices : \A i \in DOMAIN stream[d] :
       stream[d][i].op # "use" /\ stream[d][i].call = c => i <= head[d]

\* Every call that entered the wrapper leaves it, and all it launched ends.
CallsFinish == \A c \in Calls : c \in DOMAIN asked ~> c \in DOMAIN asked /\ Finished(c)

\* The whole thing implements the product its callers are promised.
Promise == INSTANCE Gemv WITH Product <- FullSum, delivered <- observed
RefinesGemv == Promise!Spec
=============================================================================

----------------------------- MODULE SplitKInv -----------------------------
(***************************************************************************)
(* The inductive invariant behind OwnSum: what is true of the kernels that *)
(* have been launched, of the memory the host has handed out, and of the   *)
(* contents of memory once the first head[d] kernels of a stream have run. *)
(***************************************************************************)
EXTENDS SplitK

KernelAt(d, i) == stream[d][i]

\* Memory in use for different purposes is different memory.
MemoryApart ==
  /\ \A k \in Keys : cache[k] # NoBlock =>
       cache[k][1] = DeviceOf(k) /\ extent[cache[k]] = ShapeOf(k)
  /\ \A j, k \in Keys : cache[j] # NoBlock /\ j # k => cache[j] # cache[k]
  /\ \A h \in held : \A k \in Keys : cache[k] # h[2]
  /\ \A g \in graphs :
       /\ cache[g.key] = g.part
       /\ g.gate # g.up
       /\ g.gate[1] = DeviceOf(g.key) /\ g.up[1] = DeviceOf(g.key)
       /\ \A k \in Keys : cache[k] # g.gate /\ cache[k] # g.up
       /\ \A h \in held : h[2] # g.gate /\ h[2] # g.up

\* The wrapper between its launches: its GEMV kernel is the last one.
PendingLast ==
  /\ \A p, q \in pending : p = q
  /\ \A q \in pending :
       LET d == DeviceOf(q.key) IN
       /\ q.call \in DOMAIN asked /\ asked[q.call] = q.key
       /\ cache[q.key] = q.part
       /\ Len(stream[d]) > 0
       /\ KernelAt(d, Len(stream[d])) = Gemv(q.call, q.key, q.part)
       /\ \A e \in Devices : \A i \in 1 .. Len(stream[e]) :
            KernelAt(e, i).op = "reduce" => KernelAt(e, i).call # q.call

\* A kernel works for a call that was made, in memory of its own device, with
\* the one buffer of its key.
KernelsWellPlaced ==
  \A d \in Devices : \A i \in 1 .. Len(stream[d]) :
    /\ KernelAt(d, i).op \in {"gemv", "reduce"} =>
         /\ KernelAt(d, i).call \in DOMAIN asked
         /\ asked[KernelAt(d, i).call] = KernelAt(d, i).key
         /\ cache[KernelAt(d, i).key] = KernelAt(d, i).part
    /\ KernelAt(d, i).op = "reduce" => KernelAt(d, i).out[1] = d
    /\ KernelAt(d, i).op = "use" =>
         \A h \in KernelAt(d, i).reads : h[1] \in DOMAIN asked /\ h[2][1] = d

\* A reduce comes right after the GEMV kernel of its call; no call has two.
Paired ==
  /\ \A d \in Devices : \A i \in 1 .. Len(stream[d]) :
       KernelAt(d, i).op = "reduce" =>
         /\ i > 1
         /\ KernelAt(d, i - 1) =
              Gemv(KernelAt(d, i).call, KernelAt(d, i).key, KernelAt(d, i).part)
  /\ \A d, e \in Devices : \A i \in 1 .. Len(stream[d]) : \A j \in 1 .. Len(stream[e]) :
       /\ KernelAt(d, i).op = "reduce" /\ KernelAt(e, j).op = "reduce"
       /\ KernelAt(d, i).call = KernelAt(e, j).call
       => d = e /\ i = j

\* Of the first n kernels of d, the reduce of h is the last to write h's block.
Fresh(d, h, n) ==
  \E j \in 1 .. n :
    /\ KernelAt(d, j).op = "reduce"
    /\ KernelAt(d, j).call = h[1]
    /\ KernelAt(d, j).out = h[2]
    /\ \A k \in 1 .. n : k > j => Target(KernelAt(d, k)) # h[2]

HeldFresh ==
  \A h \in held :
    /\ h[1] \in DOMAIN asked
    /\ Fresh(h[2][1], h, Len(stream[h[2][1]]))

UsesFresh ==
  \A d \in Devices : \A i \in 1 .. Len(stream[d]) :
    KernelAt(d, i).op = "use" =>
      \A h \in KernelAt(d, i).reads : Fresh(d, h, i - 1)

\* The programs of the running GEMV kernel that finished have left their rows.
RunningRows ==
  \A d \in Devices :
    /\ head[d] <= Len(stream[d])
    /\ ran[d] # {} => Busy(d) /\ Running(d).op = "gemv"
    /\ \A s \in ran[d] :
         s < SplitOf(Running(d).key) /\ mem[Running(d).part][s] = Running(d).call

\* Between a GEMV kernel and its reduce the buffer holds the rows of one call.
RowsComplete ==
  \A d \in Devices :
    /\ head[d] > 0 /\ KernelAt(d, head[d]).op = "gemv"
    /\ Busy(d) => Running(d).op = "reduce"
    => \A s \in 0 .. SplitOf(KernelAt(d, head[d]).key) - 1 :
         mem[KernelAt(d, head[d]).part][s] = KernelAt(d, head[d]).call

\* A block that no kernel has written since a reduce did holds its full sum.
SumsKept ==
  \A d \in Devices : \A j \in 1 .. head[d] :
    /\ KernelAt(d, j).op = "reduce"
    /\ \A k \in 1 .. Len(stream[d]) :
         j < k /\ k <= head[d] + 1 => Target(KernelAt(d, k)) # KernelAt(d, j).out
    => mem[KernelAt(d, j).out] = FullSum(KernelAt(d, j).call, KernelAt(d, j).key)

\* What was observed is the sum of a call that was made.
Observed ==
  \A o \in observed : o.call \in DOMAIN asked /\ o.value = FullSum(o.call, asked[o.call])

\* The launched kernels and the memory given out can only ever lead to OwnSum.
IInv ==
  /\ MemoryApart /\ PendingLast /\ KernelsWellPlaced /\ Paired
  /\ HeldFresh /\ UsesFresh
  /\ RunningRows /\ RowsComplete /\ SumsKept /\ Observed
=============================================================================

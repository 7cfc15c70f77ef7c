----------------------------- MODULE AwqKernels -----------------------------
(***************************************************************************)
(* One launch of an AWQ product kernel of patches/awq_triton.py, from the  *)
(* wrapper's asserts to the tensor it returns.                             *)
(*                                                                         *)
(* The programs of the grid run side by side.  Program <<pid, z>> owns one *)
(* tile of the output and part z of the split of K: it goes round its loop *)
(* adding products to its accumulator, then stores the tile in plane z of  *)
(* the result, which is flat memory.  When all programs have stored, the   *)
(* planes are added up.  A product is known by the row k of the weights it *)
(* took, the row of the scales it used and the program trip that added it, *)
(* so that a k that is missing, added twice or scaled by another group's   *)
(* row is visible in the tensor that comes out.  Columns are counted in    *)
(* packed words.                                                           *)
(***************************************************************************)
EXTENDS AwqLoops

CONSTANTS
  Launches,    \* the launches that are considered
  Unwritten    \* the content of memory from torch.empty

Positive == Nat \ {0}
Kernels == {"gemm", "gemv", "splitk"}

\* What an accumulator may take up, and what a cell of the result may hold.
Terms == [k : Nat, row : Nat, by : Nat \X Nat]
Sums == [at : Nat \X Nat, sum : SUBSET Terms]

\* A quantised model has whole groups.
ASSUME AwqKernelsAssumption ==
  /\ Launches \subseteq
       [kernel : Kernels, M : Positive, N : Positive, K : Positive, G : Positive,
        BM : Positive, BN : Positive, BK : Positive, SK : Positive]
  /\ \A l \in Launches : l.K % l.G = 0
  /\ Unwritten \notin Sums

VARIABLES
  launch,      \* the launch
  pc,          \* "entered", "running", "returned" or "raised"
  trip,        \* trip[p]: how often p went round; one more once p has stored
  offs,        \* offs[p]: the first of p's offsets_k
  acc,         \* acc[p]: the products p has added up
  result,      \* the planes, one after the other
  out          \* out[e][z]: what plane z adds to element e of the tensor

vars == <<launch, pc, trip, offs, acc, result, out>>

-----------------------------------------------------------------------------
\* The grid.
NumPidN == Cdiv(launch.N, launch.BN)
Programs == (0 .. Cdiv(launch.M, launch.BM) * NumPidN - 1) \X Parts(launch)

Elements == (0 .. launch.M - 1) \X (0 .. launch.N - 1)

\* The elements of p's tile that the masks on M and N leave.
Tile(p) ==
  LET m == (p[1] \div NumPidN) * launch.BM
      n == (p[1] % NumPidN) * launch.BN IN
  {e \in Elements : e[1] \in m .. m + launch.BM - 1 /\ e[2] \in n .. n + launch.BN - 1}

\* Mutant: the planes overlap.
AddressWithoutM(z, e) == z * launch.N + launch.N * e[1] + e[2]

Address(z, e) == z * launch.N * launch.M + launch.N * e[1] + e[2]

\* Mutant: nobody checks that a slice is a whole number of blocks.
AssertsWithoutSlices ==
  \/ launch.kernel = "splitk" /\ launch.G % launch.BK = 0 /\ launch.K % launch.SK = 0
  \/ launch.kernel = "gemv" /\ GemvAsserts(launch)
  \/ launch.kernel = "gemm" /\ GemmAsserts(launch)

Asserts ==
  \/ launch.kernel = "splitk" /\ SplitkAsserts(launch)
  \/ launch.kernel = "gemv" /\ GemvAsserts(launch)
  \/ launch.kernel = "gemm" /\ GemmAsserts(launch)

-----------------------------------------------------------------------------

Launch ==
  /\ pc = "entered"
  /\ Asserts
  /\ pc' = "running"
  /\ UNCHANGED <<launch, trip, offs, acc, result, out>>

Raise ==
  /\ pc = "entered"
  /\ ~ Asserts
  /\ pc' = "raised"
  /\ UNCHANGED <<launch, trip, offs, acc, result, out>>

\* One trip of p's loop.  A row of the scales past the last group is masked:
\* the weights are then multiplied by 0.
GoRound(p) ==
  LET row == ScaleRow(launch, p[2], trip[p]) IN
  /\ pc = "running"
  /\ trip[p] < Trips(launch)
  /\ acc' = [acc EXCEPT ![p] = @ \cup
               {[k |-> k, row |-> row, by |-> <<p[2], trip[p]>>] :
                  k \in {k \in Loaded(launch, offs[p]) : row < launch.K \div launch.G}}]
  /\ offs' = [offs EXCEPT ![p] = @ + StepK(launch)]
  /\ trip' = [trip EXCEPT ![p] = @ + 1]
  /\ UNCHANGED <<launch, pc, result, out>>

\* The epilogue of p: its accumulator goes to its tile in plane z.
Store(p) ==
  /\ pc = "running"
  /\ trip[p] = Trips(launch)
  /\ result' = [a \in DOMAIN result |->
                  IF \E e \in Tile(p) : Address(p[2], e) = a
                  THEN [at |-> CHOOSE e \in Tile(p) : Address(p[2], e) = a, sum |-> acc[p]]
                  ELSE result[a]]
  /\ trip' = [trip EXCEPT ![p] = @ + 1]
  /\ UNCHANGED <<launch, pc, offs, acc, out>>

\* result.sum(0), awq_gemv_splitk_reduce, or the single plane itself.  The reduce is a
\* grid too, of programs that own their columns and only read the planes, and is one
\* step here.
Finish ==
  /\ pc = "running"
  /\ \A p \in Programs : trip[p] = Trips(launch) + 1
  /\ out' = [e \in Elements |-> [z \in Parts(launch) |-> result[Address(z, e)]]]
  /\ pc' = "returned"
  /\ UNCHANGED <<launch, trip, offs, acc, result>>

\* Nothing of the launch has run.
Entered ==
  /\ pc = "entered"
  /\ trip = [p \in Programs |-> 0]
  /\ offs = [p \in Programs |-> FirstK(launch, p[2])]
  /\ acc = [p \in Programs |-> {}]
  /\ result = [a \in 0 .. launch.SK * launch.M * launch.N - 1 |-> Unwritten]
  /\ out = <<>>

Init == launch \in Launches /\ Entered

Next ==
  \/ Launch
  \/ Raise
  \/ \E p \in Programs : GoRound(p) \/ Store(p)
  \/ Finish

Spec == Init /\ [][Next]_vars

-----------------------------------------------------------------------------
(* Properties.                                                             *)

Products(e) == UNION {out[e][z].sum : z \in Parts(launch)}

\* The tensor returned holds at each element the product for that element: all
\* rows of the weights, each one once, each one with the scales of its own
\* group, whatever K is split in and in whatever order the programs ran.  The
\* matrix-vector wrappers assert for it that blocks lie in groups; for the GEMM
\* it is up to the caller (see AwqDispatch).
Exact ==
  pc = "returned" /\ (launch.kernel = "gemm" => BlocksInGroup(launch)) =>
    \A e \in Elements :
      /\ \A z \in Parts(launch) : out[e][z] # Unwritten /\ out[e][z].at = e
      /\ \A k \in 0 .. launch.K - 1 : \E t \in Products(e) : t.k = k /\ t.row = k \div launch.G
      /\ Cardinality(Products(e)) = launch.K

\* A program reads no weights outside the tensor: the K-split kernel loads
\* without a mask, because its caller guarantees whole blocks.
LoadsInside == \A p \in Programs : \A t \in acc[p] : t.k < launch.K

\* No two programs store the same element of the same plane, in any order.
StoredOnce ==
  [][\A a \in DOMAIN result : result[a] # Unwritten => result'[a] = result[a]]_vars

-----------------------------------------------------------------------------
(* The inductive invariant.                                                *)

\* The program whose tile has e.
Owner(e) == (e[1] \div launch.BM) * NumPidN + (e[2] \div launch.BN)

\* What trip i of part z adds, and the trips that p has behind it.
Added(z, i) ==
  {[k |-> k, row |-> ScaleRow(launch, z, i), by |-> <<z, i>>] :
     k \in {k \in BlockOf(launch, <<z, i>>) : ScaleRow(launch, z, i) < launch.K \div launch.G}}
Behind(p) == {i \in 0 .. Trips(launch) - 1 : i < trip[p]}

\* The launch has passed its asserts before anything runs.
Guarded ==
  /\ launch \in Launches
  /\ pc \in {"entered", "running", "returned", "raised"}
  /\ pc \in {"running", "returned"} => Asserts
  /\ pc \notin {"running", "returned"} => \A p \in Programs : trip[p] = 0

\* A program has added up what the trips behind it load.
GoneRound ==
  /\ trip \in [Programs -> Nat] /\ offs \in [Programs -> Nat]
  /\ DOMAIN acc = Programs
  /\ \A p \in Programs :
       /\ trip[p] <= Trips(launch) + 1
       /\ trip[p] <= Trips(launch) => offs[p] = FirstK(launch, p[2]) + trip[p] * StepK(launch)
       /\ acc[p] = UNION {Added(p[2], i) : i \in Behind(p)}

\* An element of a plane is unwritten until its own program stores its sum there.
StoredByOwner ==
  /\ DOMAIN result = 0 .. launch.SK * launch.M * launch.N - 1
  /\ \A z \in Parts(launch), e \in Elements :
       result[Address(z, e)] =
         IF trip[<<Owner(e), z>>] = Trips(launch) + 1
         THEN [at |-> e, sum |-> acc[<<Owner(e), z>>]]
         ELSE Unwritten

\* The tensor is made of the planes when all programs have stored.
Returned ==
  pc = "returned" =>
    /\ \A p \in Programs : trip[p] = Trips(launch) + 1
    /\ out = [e \in Elements |-> [z \in Parts(launch) |-> result[Address(z, e)]]]

IInv == Guarded /\ GoneRound /\ StoredByOwner /\ Returned
=============================================================================

------------------------------ MODULE MCLinear ------------------------------
(* The two linear methods of the server for TLC: awq_gemm_triton for the   *)
(* quantised layers and rocm_unquantized_gemm_impl for the others.  In a   *)
(* behaviour the calls are all of one of them.                             *)
EXTENDS MCAwqDispatch, RocmGemm

VARIABLE kind   \* whose calls are made: "awq" or "plain"

-----------------------------------------------------------------------------
(* The unquantised products.                                               *)

\* One device of each kind, and two devices with one or two gfx1030 among them,
\* in either order.
MCMachines ==
  [arch : {[d \in {0} |-> a] : a \in {"gfx1030", "gfx1100", "gfx942", "gfx950"}}
          \cup {[d \in {0, 1} |-> IF d = 0 THEN "gfx1030" ELSE a] : a \in {"gfx1030", "gfx1100"}}
          \cup {[d \in {0, 1} |-> IF d = 0 THEN "gfx1100" ELSE "gfx1030"]},
   skinny : BOOLEAN, aiter : BOOLEAN, tgemm : BOOLEAN, cus : {60}]

\* Two-dimensional operands and contiguous weights on both sides of every limit in
\* the conditions; 2560 x 9216 is the projection the GEMV was written for.
MCProducts ==
  [n : {0, 1, 5, 6, 10, 128, 129, 2049}, m : {8, 12, 128, 2560, 2561, 2880},
   k : {512, 2880, 8192, 8200, 9216, 9217}, bias : BOOLEAN,
   dtype : {"float16", "float32"}, dim : {2}, contiguous : {TRUE}, device : {0, 1}]

-----------------------------------------------------------------------------
(* One of them.                                                            *)

allVars == <<kind, vars, gemmVars>>

\* The other component stays as it began.
LinearInit ==
  \/ /\ kind = "awq" /\ Init
     /\ machine = CHOOSE mc \in Machines : TRUE
     /\ known = Unknown /\ last = NoCall
  \/ /\ kind = "plain" /\ GemmInit
     /\ call = CHOOSE c \in Calls : TRUE
     /\ plan = NoPlan /\ pc = "entered"

LinearNext ==
  \/ kind = "awq" /\ Next /\ UNCHANGED <<kind, gemmVars>>
  \/ kind = "plain" /\ GemmNext /\ UNCHANGED <<kind, vars>>

LinearSpec == LinearInit /\ [][LinearNext]_allVars

=============================================================================

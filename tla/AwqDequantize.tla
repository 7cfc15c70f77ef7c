--------------------------- MODULE AwqDequantize ---------------------------
(***************************************************************************)
(* awq_dequantize_triton and its kernel, of patches/awq_triton.py: one     *)
(* program for each tile of the packed weights unpacks and scales it.      *)
(*                                                                         *)
(* An int32 word packs eight 4-bit values: value AwqOrder[j] is in bits    *)
(* 4j .. 4j + 3 (the order AWQ writes: external).  Words are integers with *)
(* a sign, shifted as int32 is.  A matrix is a record: K rows, X words in  *)
(* a row, groups of G rows and tiles of TX words and TY rows.              *)
(***************************************************************************)
EXTENDS AwqLoops, Sequences

CONSTANTS
  Matrices,   \* the launches that are considered
  Nibbles,    \* tables of 4-bit values: rows, then columns
  Undefined   \* the content of memory from torch.empty

\* BLOCK_SIZE_Y divides the group sizes that are supported.
ASSUME DequantizeAssumption ==
  /\ Matrices \subseteq
       [K : Nat \ {0}, X : Nat \ {0}, G : Nat \ {0}, TX : Nat \ {0}, TY : Nat \ {0}]
  /\ \A l \in Matrices : l.K % l.G = 0 /\ \A g \in SupportedGroups : g % l.TY = 0
  /\ \A t \in Nibbles : \A k \in DOMAIN t :
       DOMAIN t[k] = DOMAIN t[0] /\ \A n \in DOMAIN t[k] : t[k][n] \in 0 .. 15

VARIABLES
  matrix, weights, zeros,  \* the operands; the 4-bit values before packing
  step,                    \* "entered", "running", "returned" or "raised"
  tiles,                   \* the programs that have not stored yet
  dequantized              \* the result

deqOperands == <<matrix, weights, zeros>>
deqVars == <<deqOperands, step, tiles, dequantized>>

-----------------------------------------------------------------------------
(* Packing and unpacking.                                                  *)

AwqOrder == <<0, 2, 4, 6, 1, 3, 5, 7>>

\* 2^4j: what bit 4j of a word stands for.
Place == <<1, 16, 256, 4096, 65536, 1048576, 16777216, 268435456>>

\* Word x of a row of 4-bit values; the sign bit belongs to the last of them.
Pack(row, x) ==
  LET value(j) == row[8 * x + AwqOrder[j + 1]]
      bits(j) == value(j) * Place[j + 1] IN
  bits(0) + bits(1) + bits(2) + bits(3) + bits(4) + bits(5) + bits(6)
    + (IF value(7) >= 8 THEN value(7) - 16 ELSE value(7)) * Place[8]

\* reverse_awq_order_tensor: (arange(0, 2) * 4)[None, :] + arange(0, 4)[:, None],
\* flattened, is 0 4 1 5 2 6 3 7; shifts are four bits each.
ReverseOrder(c) == (c % 2) * 4 + c \div 2

\* (word >> shifts) & 0xF; three interleaves repeat a word for its 8 columns.
Unpack(word, c) == (word \div Place[ReverseOrder(c) + 1]) % 16

-----------------------------------------------------------------------------
(* The launch.                                                             *)

Groups == matrix.K \div matrix.G

DeqPrograms == (0 .. Cdiv(matrix.X, matrix.TX) - 1) \X (0 .. Cdiv(matrix.K, matrix.TY) - 1)
Values == (0 .. matrix.K - 1) \X (0 .. 8 * matrix.X - 1)

DeqAsserts ==
  /\ matrix.K > 0 /\ matrix.X > 0
  /\ matrix.G <= matrix.K
  /\ matrix.G \in SupportedGroups \/ matrix.G = matrix.K

\* A table of 4-bit values with a row for each of n rows.
Tables(n, columns) == {t \in Nibbles : DOMAIN t = (0 .. n - 1) /\ DOMAIN t[0] = 0 .. columns - 1}

DeqInit ==
  /\ matrix \in Matrices
  /\ weights \in Tables(matrix.K, 8 * matrix.X)
  /\ zeros \in Tables(Groups, 8 * matrix.X)
  /\ step = "entered"
  /\ tiles = {}
  /\ dequantized = <<>>

\* The scale of a group for a column; different ones are told apart.
Scale(group, n) == 100 * (group + 1) + n

DeqLaunch ==
  /\ step = "entered"
  /\ DeqAsserts
  /\ step' = "running"
  /\ tiles' = DeqPrograms
  /\ dequantized' = [e \in Values |-> Undefined]
  /\ UNCHANGED deqOperands

DeqRaise ==
  /\ step = "entered"
  /\ ~ DeqAsserts
  /\ step' = "raised"
  /\ UNCHANGED <<tiles, dequantized>> /\ UNCHANGED deqOperands

\* The values of p's tile that the masks leave.
ValuesOf(p) ==
  {e \in Values : e[1] \div matrix.TY = p[2] /\ e[2] \div (8 * matrix.TX) = p[1]}

\* Mutant: the row of the zeros and scales is taken by tiles.
GroupByTile(p) == p[2]

\* zero_offsets_y and scale_offsets_y: one row for the whole tile.
GroupRow(p) == (p[2] * matrix.TY) \div matrix.G

\* What is stored: past the last group zeros and scales are masked with 0.
Dequantized(p, e) ==
  LET g == GroupRow(p)
      x == e[2] \div 8
      c == e[2] % 8
      zero == IF g < Groups THEN Unpack(Pack(zeros[g], x), c) ELSE 0
      scaled == IF g < Groups THEN Scale(g, e[2]) ELSE 0 IN
  (Unpack(Pack(weights[e[1]], x), c) - zero) * scaled

Dequantize(p) ==
  /\ p \in tiles
  /\ tiles' = tiles \ {p}
  /\ dequantized' = [e \in Values |-> IF e \in ValuesOf(p) THEN Dequantized(p, e)
                                      ELSE dequantized[e]]
  /\ UNCHANGED step /\ UNCHANGED deqOperands

DeqReturn ==
  /\ step = "running"
  /\ tiles = {}
  /\ step' = "returned"
  /\ UNCHANGED <<tiles, dequantized>> /\ UNCHANGED deqOperands

DeqNext ==
  \/ DeqLaunch
  \/ DeqRaise
  \/ \E p \in tiles : Dequantize(p)
  \/ DeqReturn

DeqSpec == DeqInit /\ [][DeqNext]_deqVars

-----------------------------------------------------------------------------
(* Properties.                                                             *)

\* The value of the dequantised matrix at e: what was packed there, less the zero
\* and times the scale of its own row's group and its column.
ValueAt(e) ==
  LET g == e[1] \div matrix.G IN (weights[e[1]][e[2]] - zeros[g][e[2]]) * Scale(g, e[2])

\* What awq_dequantize_triton returns is the dequantised matrix.  The tiles have one
\* row of zeros and scales, and the asserts alone must see to it that a tile lies in
\* one group (awq_triton.py:74, 327-331).
DequantizeExact == step = "returned" => \A e \in Values : dequantized[e] = ValueAt(e)

-----------------------------------------------------------------------------
(* The inductive invariant.                                                *)

\* The program whose tile has e.
TileOf(e) == <<e[2] \div (8 * matrix.TX), e[1] \div matrix.TY>>

\* The values of a tile are there when its program has stored them.
DeqInv ==
  /\ matrix \in Matrices
  /\ weights \in Tables(matrix.K, 8 * matrix.X) /\ zeros \in Tables(Groups, 8 * matrix.X)
  /\ step \in {"entered", "running", "returned", "raised"}
  /\ step \in {"running", "returned"} =>
       /\ DeqAsserts
       /\ \A e \in Values : TileOf(e) \notin tiles => dequantized[e] = ValueAt(e)
  /\ step # "running" => tiles = {}
=============================================================================

---------------------------- MODULE FusedSplitK ----------------------------
(***************************************************************************)
(* The fused K-split GEMV of patches/awq_triton.py (rung 17): one kernel   *)
(* whose programs add the products of their slices of K atomically to an   *)
(* fp16 result that begins at zero.                                        *)
(*                                                                         *)
(* A launch is a record of AwqLoops with kernel = "splitk": the loop over  *)
(* a slice is the one of the two-kernel path.  Numbers are integers.  fp32 *)
(* sums are exact here; fp16 has every integer up to Significand, from     *)
(* there to twice that every second one, and so on, and rounds to the      *)
(* nearest, ties to even.  Overflow and subnormal numbers are left out.    *)
(* Programs of different tiles touch different elements, those of one tile *)
(* are serialised at each element by the atomic: one step for a program    *)
(* loses no outcome of an element.                                         *)
(***************************************************************************)
EXTENDS AwqLoops, FiniteSetsExt, Functions

CONSTANTS
  FusedLaunches,  \* the launches that are considered
  Weights,        \* unpacked weights times activation, for each row
  Scales,         \* scales, for each group
  Significand,    \* 2048 in fp16
  Units           \* the distances of neighbouring numbers; 1 to 32 in fp16

ASSUME FusedAssumption ==
  /\ FusedLaunches \subseteq
       [kernel : {"splitk"}, N : Nat \ {0}, K : Nat \ {0}, G : Nat \ {0},
        BN : Nat \ {0}, BK : Nat \ {0}, SK : Nat \ {0}]
  /\ \A l \in FusedLaunches : l.K % l.G = 0
  /\ \A f \in Weights \cup Scales : \A i \in DOMAIN f : f[i] \in Int
  /\ Significand \in Nat \ {0, 1}
  /\ Units \subseteq Nat \ {0} /\ 1 \in Units /\ IsFiniteSet(Units)
  /\ \A u \in Units : u = 1 \/ \E v \in Units : u = 2 * v

VARIABLES
  fused,          \* the launch
  weight, scale,  \* its operands
  stage,          \* "entered", "running", "returned" or "raised"
  adding,         \* the programs that have not added yet
  total           \* the result

operands == <<fused, weight, scale>>
fusedVars == <<operands, stage, adding, total>>

-----------------------------------------------------------------------------
(* fp16.                                                                   *)

Magnitude(x) == IF x < 0 THEN -x ELSE x

\* The distances that numbers as large as x can have.
UnitsAt(x) == {u \in Units : Magnitude(x) < u * Significand}
InRange(x) == UnitsAt(x) # {}
Ulp(x) == IF InRange(x) THEN Min(UnitsAt(x)) ELSE Max(Units)

\* acc.to(fp16), and the rounding of an fp16 addition.
Half(x) ==
  LET u == Ulp(x)
      q == x \div u
      r == x % u IN
  IF 2 * r < u \/ (2 * r = u /\ q % 2 = 0) THEN q * u ELSE (q + 1) * u

-----------------------------------------------------------------------------
(* The sums.                                                               *)

\* The fp32 accumulator of a program of part z: one row of the scales for each
\* block; a row past the last group is masked and counts as 0.
Block(z, i) ==
  LET row == ScaleRow(fused, z, i) IN
  IF row < fused.K \div fused.G
  THEN SumFunction([k \in BlockOf(fused, <<z, i>>) |-> weight[k] * scale[row]])
  ELSE 0

\* Mutant: the last trip of the loop is left out.
PartialShort(z) == SumFunction([i \in 0 .. Trips(fused) - 2 |-> Block(z, i)])

Partial(z) == SumFunction([i \in 0 .. Trips(fused) - 1 |-> Block(z, i)])

\* What the product is: each row with the scale of its own group.
Product == SumFunction([k \in 0 .. fused.K - 1 |-> weight[k] * scale[k \div fused.G]])

-----------------------------------------------------------------------------
Columns == 0 .. fused.N - 1
Adders == (0 .. Cdiv(fused.N, fused.BN) - 1) \X Parts(fused)
ColumnsOf(p) == {n \in Columns : n \div fused.BN = p[1]}

FusedInit ==
  /\ fused \in FusedLaunches
  /\ weight \in {w \in Weights : DOMAIN w = 0 .. fused.K - 1}
  /\ scale \in {s \in Scales : DOMAIN s = 0 .. (fused.K \div fused.G) - 1}
  /\ stage = "entered"
  /\ adding = {}
  /\ total = <<>>

\* The wrapper: asserts, torch.zeros, the grid.
FusedLaunch ==
  /\ stage = "entered"
  /\ SplitkAsserts(fused)
  /\ stage' = "running"
  /\ adding' = Adders
  /\ total' = [n \in Columns |-> 0]
  /\ UNCHANGED operands

FusedRaise ==
  /\ stage = "entered"
  /\ ~ SplitkAsserts(fused)
  /\ stage' = "raised"
  /\ UNCHANGED <<adding, total>> /\ UNCHANGED operands

\* Mutant: a store in the place of the atomic add.
StorePartial(p) ==
  /\ p \in adding
  /\ adding' = adding \ {p}
  /\ total' = [n \in Columns |-> IF n \in ColumnsOf(p) THEN Half(Partial(p[2])) ELSE total[n]]
  /\ UNCHANGED stage /\ UNCHANGED operands

\* A program ends with its atomic_add; columns past N are masked.
AddPartial(p) ==
  /\ p \in adding
  /\ adding' = adding \ {p}
  /\ total' = [n \in Columns |->
                IF n \in ColumnsOf(p) THEN Half(total[n] + Half(Partial(p[2]))) ELSE total[n]]
  /\ UNCHANGED stage /\ UNCHANGED operands

FusedReturn ==
  /\ stage = "running"
  /\ adding = {}
  /\ stage' = "returned"
  /\ UNCHANGED <<adding, total>> /\ UNCHANGED operands

FusedNext ==
  \/ FusedLaunch
  \/ FusedRaise
  \/ \E p \in adding : AddPartial(p)
  \/ FusedReturn

FusedSpec == FusedInit /\ [][FusedNext]_fusedVars

-----------------------------------------------------------------------------
(* Properties.                                                             *)

Partials == [z \in Parts(fused) |-> Partial(z)]
Magnitudes == [z \in Parts(fused) |-> Magnitude(Half(Partial(z)))]
Largest == SumFunction(Magnitudes)

\* Every sum of partials that the atomic adds can meet is an fp16 number.
Representable ==
  \A zs \in SUBSET Parts(fused) :
    Half(SumFunctionOnSet(Partials, zs)) = SumFunctionOnSet(Partials, zs)

\* The result is then the product, in whichever order the programs end: "fp16 atomic
\* add is exact" (awq_triton.py:576-579) takes no less.
FusedExact == stage = "returned" /\ Representable => \A n \in Columns : total[n] = Product

\* In any case the result differs from the product by at most the roundings: for each
\* program, half a unit at its conversion and half a unit at its add, each at the size
\* of the largest sum.  With more parts than half the significand (1024 of fp16)
\* the roundings could add up to a larger unit.
FusedNear ==
  stage = "returned" /\ InRange(2 * Largest) /\ 2 * fused.SK <= Significand =>
    \A n \in Columns : Magnitude(total[n] - Product) <= fused.SK * Ulp(2 * Largest)

-----------------------------------------------------------------------------
(* The inductive invariant.                                                *)

\* The parts that have been added to column n.
Ended(n) == {z \in Parts(fused) : <<n \div fused.BN, z>> \notin adding}

FusedLaunched ==
  /\ fused \in FusedLaunches
  /\ weight \in Weights /\ DOMAIN weight = 0 .. fused.K - 1
  /\ scale \in Scales /\ DOMAIN scale = 0 .. (fused.K \div fused.G) - 1
  /\ stage \in {"entered", "running", "returned", "raised"}
  /\ stage \in {"running", "returned"} => SplitkAsserts(fused) /\ adding \subseteq Adders
  /\ stage # "running" => adding = {}

\* A column holds the sum of the parts that have ended.
SumOfEnded ==
  stage \in {"running", "returned"} /\ Representable =>
    \A n \in Columns : total[n] = SumFunctionOnSet(Partials, Ended(n))

\* What one rounding can cost, twice; below Significand it costs nothing.
Slack == IF Ulp(2 * Largest) = 1 THEN 0 ELSE Ulp(2 * Largest)

\* A column is as near to that sum as two roundings for each part allow, and grows
\* by no more than the parts and their roundings.
NearEnded ==
  stage \in {"running", "returned"} /\ InRange(2 * Largest) /\ 2 * fused.SK <= Significand =>
    \A n \in Columns :
      LET parts == Cardinality(Ended(n)) IN
      /\ total[n] \in Int
      /\ Magnitude(total[n] - SumFunctionOnSet(Partials, Ended(n))) <= parts * Slack
      /\ 2 * Magnitude(total[n])
           <= 2 * SumFunctionOnSet(Magnitudes, Ended(n)) + parts * Slack

FusedInv == FusedLaunched /\ SumOfEnded /\ NearEnded
=============================================================================

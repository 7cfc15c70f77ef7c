-------------------------------- MODULE Gemv --------------------------------
(***************************************************************************)
(* What the AWQ matrix-vector product promises to the layers that call it. *)
(* A layer asks for a product and some later kernel reads the tensor it    *)
(* got back; whatever that kernel reads is the product of that very call,  *)
(* never a part of it and never another call's.                            *)
(***************************************************************************)
EXTENDS Naturals, Sequences

CONSTANTS
  Keys,            \* the shapes a product can be asked for
  Product(_, _)    \* Product(c, k): the value of call c when its shape is k

VARIABLES
  asked,           \* asked[c] is the shape of the c-th call
  delivered        \* what the consumers of the results have read so far

gemvVars == <<asked, delivered>>

Init ==
  /\ asked = <<>>
  /\ delivered = {}

Ask(k) ==
  /\ asked' = Append(asked, k)
  /\ UNCHANGED delivered

\* The two projections of one MLP, launched by a single graph replay.
AskPair(k) ==
  /\ asked' = asked \o <<k, k>>
  /\ UNCHANGED delivered

Deliver(cs) ==
  /\ delivered' = delivered \cup {[call |-> c, value |-> Product(c, asked[c])] : c \in cs}
  /\ UNCHANGED asked

Next ==
  \/ \E k \in Keys : Ask(k) \/ AskPair(k)
  \/ \E cs \in SUBSET (DOMAIN asked) : Deliver(cs)

Spec == Init /\ [][Next]_gemvVars
=============================================================================

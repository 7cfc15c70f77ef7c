--------------------------- MODULE MCRmsNormPatch ---------------------------
(* Small instances of RmsNormPatch for TLC.                                *)
EXTENDS RmsNormPatch

\* A decode row of the model (N = 2560), which the kernel takes.
Decode == [cuda |-> TRUE, dim |-> 2, n |-> 2560, stride |-> 1, dtype |-> "fp16",
           wdtype |-> "fp16", wdim |-> 1, wlen |-> 2560]

\* The same with the fp32 weight of stock vLLM, and with a weight of another
\* length: two that the gate must send back.
MCInputs == {Decode, [Decode EXCEPT !.wdtype = "fp32"], [Decode EXCEPT !.wlen = 256]}
=============================================================================

------------------------------- MODULE Requant -------------------------------
(***************************************************************************)
(* requant/run-quant.sh and requant/quant.py: the run that makes the 4-bit *)
(* model.  AutoAWQ (external) folds a scale s of each channel into the     *)
(* weight of a layer's norm and 1/s into the quantised consumers of its    *)
(* output.  The script then repairs what the fork gets wrong: in_proj_a    *)
(* and in_proj_b, which stay fp16 and were not divided, and the norm,      *)
(* whose gain is 1 + weight and not weight.                                *)
(*                                                                         *)
(* A weight of a consumer is what is left of One in each channel; layers   *)
(* are handled in order.  Rounding, calibration and the MLP, whose norm    *)
(* the script does not touch, are left out.                                *)
(***************************************************************************)
EXTENDS Integers

CONSTANTS
  NumLayers,
  Channels,
  Gains,       \* weights of a norm in the base model
  Scales,      \* what the search of AWQ may choose for a channel
  One,         \* a consumer's weight in the base model, a multiple of all scales
  NaN

ASSUME RequantAssumption ==
  /\ NumLayers \in Nat \ {0}
  /\ Gains \subseteq Nat /\ Scales \subseteq Nat \ {0} /\ One \in Nat
  /\ NaN \notin Int

VARIABLES
  base,        \* on disk: weights of the norms, kinds of the layers, their keys
  norm,        \* in memory: weight of input_layernorm
  quant,       \* in memory: what quantised consumers have, times One
  proj,        \* in memory: in_proj_a and in_proj_b, times One
  pass,        \* where the script is
  layer        \* the next layer of the pass

vars == <<base, norm, quant, proj, pass, layer>>

Layers == 1 .. NumLayers

\* In fp32; 0/0 is NaN, and nothing else is divided by 0 here.
Divide(a, b) == IF a = NaN \/ b = NaN \/ b = 0 THEN NaN ELSE a \div b

\* One step of a loop over the layers.
NextLayer(following) ==
  IF layer = NumLayers
  THEN pass' = following /\ layer' = 1
  ELSE pass' = pass /\ layer' = layer + 1

Raise == pass' = "failed" /\ UNCHANGED <<base, norm, quant, proj, layer>>

-----------------------------------------------------------------------------

\* from_pretrained: the base model in memory.
LoadModel ==
  /\ pass = "load"
  /\ norm' = base.norm
  /\ quant' = [l \in Layers |-> [c \in Channels |-> One]]
  /\ proj' = [l \in Layers |-> [c \in Channels |-> One]]
  /\ pass' = "quantize"
  /\ UNCHANGED <<base, layer>>

\* model.quantize: the fold of a layer, as the fork does it.
Smooth(s) ==
  /\ pass = "quantize"
  /\ norm' = [norm EXCEPT ![layer] = [c \in Channels |-> s[c] * @[c]]]
  /\ quant' = [quant EXCEPT ![layer] = [c \in Channels |-> Divide(@[c], s[c])]]
  /\ NextLayer("norms")
  /\ UNCHANGED <<base, proj>>

\* _load_base_layernorms, from the shards on disk.
LoadBaseNorms ==
  /\ pass = "norms"
  /\ base.keys = Layers
  /\ pass' = "compensate"
  /\ UNCHANGED <<base, norm, quant, proj, layer>>

BaseNormMissing == pass = "norms" /\ base.keys # Layers /\ Raise

\* Mutant: the norms of the model in memory, which are scaled already.
RatioInMemory(l, c) == Divide(norm[l][c], norm[l][c])

\* s = ln_ck / base_lns[i]
Ratio(l, c) == Divide(norm[l][c], base.norm[l][c])

CompensateGdn ==
  /\ pass = "compensate"
  /\ base.kind[layer] = "gdn"
  /\ proj' = [proj EXCEPT ![layer] = [c \in Channels |-> Divide(@[c], Ratio(layer, c))]]
  /\ NextLayer("store")
  /\ UNCHANGED <<base, norm, quant>>

\* getattr(layer, "linear_attn", None) is None
CompensateNone ==
  /\ pass = "compensate"
  /\ base.kind[layer] = "attn"
  /\ NextLayer("store")
  /\ UNCHANGED <<base, norm, quant, proj>>

\* torch.allclose: the fork left the norm alone, as far as its weights show.
Unchanged == norm[layer] = base.norm[layer]

StoreNothing ==
  /\ pass = "store"
  /\ Unchanged
  /\ NextLayer("save")
  /\ UNCHANGED <<base, norm, quant, proj>>

\* Mutant: a norm that cannot be repaired is passed over.
StoreNormPassedOver ==
  /\ pass = "store"
  /\ ~ Unchanged
  /\ NextLayer("save")
  /\ UNCHANGED <<base, norm, quant, proj>>

\* Both branches go on to search the shards with glob and safe_open.  The names are
\* imported inside _load_base_layernorms only, so that the script ends in a
\* NameError here; what follows in the branch is never reached.
StoreNorm == pass = "store" /\ ~ Unchanged /\ Raise

Save ==
  /\ pass = "save"
  /\ pass' = "saved"
  /\ UNCHANGED <<base, norm, quant, proj, layer>>

\* run-quant.sh is started again; it keeps the download and loads the model anew.
Again ==
  /\ pass \in {"failed", "saved"}
  /\ pass' = "load" /\ layer' = 1
  /\ UNCHANGED <<base, norm, quant, proj>>

Init ==
  /\ base \in [norm : [Layers -> [Channels -> Gains]],
               kind : [Layers -> {"gdn", "attn"}],
               keys : SUBSET Layers]
  /\ norm = base.norm
  /\ quant = [l \in Layers |-> [c \in Channels |-> One]]
  /\ proj = [l \in Layers |-> [c \in Channels |-> One]]
  /\ pass = "load" /\ layer = 1

Next ==
  \/ LoadModel
  \/ \E s \in [Channels -> Scales] : Smooth(s)
  \/ LoadBaseNorms \/ BaseNormMissing
  \/ CompensateGdn \/ CompensateNone
  \/ StoreNothing \/ StoreNorm
  \/ Save
  \/ Again

Spec == Init /\ [][Next]_vars

-----------------------------------------------------------------------------
(* Properties.                                                             *)

Compensated(l) ==
  \/ pass = "compensate" /\ l < layer
  \/ pass \in {"store", "save", "saved"}

\* From their compensation on, in_proj_a and in_proj_b are folded as the quantised
\* consumers of the same norm are: "Mathematically exact" (quant.py:92), where
\* the base weight of the norm is not zero.
FoldedAlike ==
  \A l \in Layers, c \in Channels :
    Compensated(l) /\ base.kind[l] = "gdn" /\ base.norm[l][c] # 0 =>
      proj[l][c] = quant[l][c]

\* A saved model computes what the base model does, in each channel whose norm has a
\* weight other than zero: gain 1 + weight times what the consumers have left.
SavedIsFaithful ==
  pass = "saved" =>
    \A l \in Layers, c \in Channels :
      base.norm[l][c] # 0 =>
        /\ (1 + norm[l][c]) * quant[l][c] = (1 + base.norm[l][c]) * One
        /\ base.kind[l] = "gdn" => (1 + norm[l][c]) * proj[l][c] = (1 + base.norm[l][c]) * One

\* "Correct storage: w_new = s*(1 + w_base) - 1" (quant.py:146): the second pass
\* stores the norm of each layer that the fold has changed.
ChangedNormIsStored ==
  [][pass = "store" /\ ~ Unchanged =>
       \A c \in Channels : base.norm[layer][c] # 0 =>
         norm'[layer][c] = Ratio(layer, c) * (1 + base.norm[layer][c]) - 1]_vars

-----------------------------------------------------------------------------
(* The inductive invariant.                                                *)

TypeOK ==
  /\ base.norm \in [Layers -> [Channels -> Gains]]
  /\ base.kind \in [Layers -> {"gdn", "attn"}]
  /\ norm \in [Layers -> [Channels -> Nat]]
  /\ quant \in [Layers -> [Channels -> Nat]]
  /\ proj \in [Layers -> [Channels -> Nat \cup {NaN}]]
  /\ pass \in {"load", "quantize", "norms", "compensate", "store", "save", "saved", "failed"}
  /\ layer \in Layers
  /\ pass \in {"load", "norms"} => layer = 1

\* The scale of a channel is in its norm and, inverted, in the quantised
\* consumers; only the model as it was loaded has none.
FoldedBy(l, c, s) ==
  /\ norm[l][c] = s * base.norm[l][c]
  /\ quant[l][c] = One \div s

Smoothed(l) ==
  \/ pass = "quantize" /\ l < layer
  \/ pass \in {"norms", "compensate", "store", "save", "saved"}

ScalesFolded ==
  \A l \in Layers, c \in Channels :
    /\ Smoothed(l) => \E s \in Scales : FoldedBy(l, c, s)
    /\ pass = "quantize" /\ ~ Smoothed(l) => FoldedBy(l, c, 1)

\* in_proj_a and in_proj_b have either nothing folded or the ratio.
RatiosFolded ==
  \A l \in Layers, c \in Channels :
    /\ pass \in {"quantize", "norms", "compensate"} /\ ~ Compensated(l) => proj[l][c] = One
    /\ Compensated(l) /\ base.kind[l] = "gdn" => proj[l][c] = Divide(One, Ratio(l, c))

\* Only a layer that nothing was folded into gets past the second pass.
NothingStored ==
  \A l \in Layers :
    (pass = "store" /\ l < layer) \/ pass \in {"save", "saved"} => norm[l] = base.norm[l]

IInv == TypeOK /\ ScalesFolded /\ RatiosFolded /\ NothingStored
=============================================================================

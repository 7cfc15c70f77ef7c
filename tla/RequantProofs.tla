---------------------------- MODULE RequantProofs ----------------------------
(***************************************************************************)
(* Proofs about Requant, for every number of layers, channels, gains and   *)
(* scales: what the repair of in_proj_a and in_proj_b achieves.            *)
(***************************************************************************)
EXTENDS Requant, TLAPS

-----------------------------------------------------------------------------
(* Division.                                                               *)

LEMMA QuotientType ==
  ASSUME NEW a \in Nat, NEW b \in Nat \ {0}
  PROVE  a \div b \in Nat
OBVIOUS

LEMMA QuotientOfProduct ==
  ASSUME NEW s \in Nat, NEW b \in Nat \ {0}
  PROVE  (s * b) \div b = s /\ s * b \in Nat
OBVIOUS

\* Outside of 0/0 the division of the fold is that of the integers.
LEMMA DivideFacts ==
  ASSUME NEW a \in Nat \cup {NaN}, NEW b \in Nat \cup {NaN}
  PROVE  /\ Divide(a, b) \in Nat \cup {NaN}
         /\ a \in Nat /\ b \in Nat \ {0} => Divide(a, b) = a \div b
<1>1. a \in Nat => a # NaN
  BY RequantAssumption
<1>2. b \in Nat => b # NaN
  BY RequantAssumption
<1>3. a \in Nat /\ b \in Nat \ {0} => a \div b \in Nat
  BY QuotientType
<1>4. QED
  BY <1>1, <1>2, <1>3 DEF Divide

LEMMA TypeFacts ==
  ASSUME TypeOK, NEW l \in Layers, NEW c \in Channels
  PROVE  /\ base.norm[l][c] \in Nat /\ norm[l][c] \in Nat /\ quant[l][c] \in Nat
         /\ proj[l][c] \in Nat \cup {NaN}
<1>1. base.norm[l][c] \in Gains
  BY DEF TypeOK
<1>2. Gains \subseteq Nat
  BY RequantAssumption
<1>3. QED
  BY <1>1, <1>2 DEF TypeOK

LEMMA ScaleFacts == \A s \in Scales : s \in Nat \ {0}
BY RequantAssumption

\* The ratio of the norms in memory and on disk is the scale of the channel.
LEMMA RatioIsScale ==
  ASSUME TypeOK, NEW l \in Layers, NEW c \in Channels, NEW s \in Scales,
         FoldedBy(l, c, s), base.norm[l][c] # 0
  PROVE  Ratio(l, c) = s
<1>1. s \in Nat /\ base.norm[l][c] \in Nat \ {0}
  BY TypeFacts, ScaleFacts
<1>2. norm[l][c] = s * base.norm[l][c] /\ norm[l][c] \in Nat
  BY DEF FoldedBy, TypeOK
<1>3. Divide(norm[l][c], base.norm[l][c]) = norm[l][c] \div base.norm[l][c]
  BY <1>1, <1>2, DivideFacts
<1>4. QED
  BY <1>1, <1>2, <1>3, QuotientOfProduct DEF Ratio

-----------------------------------------------------------------------------
(* The steps.                                                              *)

LEMMA NextLayerFacts ==
  ASSUME layer \in Layers, NEW following, NextLayer(following)
  PROVE  /\ layer' \in Layers
         /\ \/ pass' = following /\ layer' = 1 /\ layer = NumLayers
            \/ pass' = pass /\ layer' = layer + 1
         /\ \A l \in Layers : l \in Nat /\ l <= NumLayers
BY RequantAssumption DEF NextLayer, Layers

\* A layer is folded by its own scales, and no other is touched.
LEMMA SmoothKeeps ==
  ASSUME IInv, NEW s \in [Channels -> Scales], Smooth(s)
  PROVE  IInv'
<1>1. /\ pass = "quantize" /\ layer \in Layers
      /\ base' = base /\ proj' = proj
      /\ NextLayer("norms")
  BY DEF Smooth, IInv, TypeOK
<1>2. /\ layer' \in Layers
      /\ \/ pass' = "norms" /\ layer' = 1 /\ layer = NumLayers
         \/ pass' = "quantize" /\ layer' = layer + 1
      /\ \A l \in Layers : l \in Nat /\ l <= NumLayers
  BY <1>1, NextLayerFacts
<1>3. /\ \A l \in Layers : l # layer => norm'[l] = norm[l] /\ quant'[l] = quant[l]
      /\ \A c \in Channels : /\ norm'[layer][c] = s[c] * norm[layer][c]
                             /\ quant'[layer][c] = Divide(quant[layer][c], s[c])
  BY <1>1 DEF Smooth, IInv, TypeOK
<1>4. ASSUME NEW c \in Channels
      PROVE  /\ s[c] \in Scales /\ s[c] \in Nat \ {0}
             /\ norm'[layer][c] = s[c] * base.norm[layer][c]
             /\ quant'[layer][c] = One \div s[c]
  <2>1. s[c] \in Scales /\ s[c] \in Nat \ {0} /\ base.norm[layer][c] \in Nat /\ One \in Nat
    BY <1>1, TypeFacts, ScaleFacts, RequantAssumption DEF IInv
  <2>2. FoldedBy(layer, c, 1)
    BY <1>1, <1>2 DEF IInv, ScalesFolded, Smoothed
  <2>3. norm[layer][c] = base.norm[layer][c] /\ quant[layer][c] = One
    BY <2>1, <2>2 DEF FoldedBy
  <2>4. QED
    BY <1>3, <2>1, <2>3, DivideFacts
<1>5. TypeOK'
  <2>1. /\ norm' = [norm EXCEPT ![layer] = [c \in Channels |-> s[c] * @[c]]]
        /\ quant' = [quant EXCEPT ![layer] = [c \in Channels |-> Divide(@[c], s[c])]]
    BY DEF Smooth
  <2>2. \A c \in Channels : s[c] * norm[layer][c] \in Nat /\ Divide(quant[layer][c], s[c]) \in Nat
    <3> SUFFICES ASSUME NEW c \in Channels
                 PROVE  s[c] * norm[layer][c] \in Nat /\ Divide(quant[layer][c], s[c]) \in Nat
      OBVIOUS
    <3>1. s[c] \in Nat \ {0} /\ norm[layer][c] \in Nat /\ quant[layer][c] \in Nat
      BY <1>1, <1>4 DEF IInv, TypeOK
    <3>2. Divide(quant[layer][c], s[c]) = quant[layer][c] \div s[c]
      BY <3>1, DivideFacts
    <3>3. QED
      BY <3>1, <3>2, QuotientType
  <2>3. norm' \in [Layers -> [Channels -> Nat]] /\ quant' \in [Layers -> [Channels -> Nat]]
    BY <1>1, <2>1, <2>2 DEF IInv, TypeOK
  <2>4. QED
    BY <1>1, <1>2, <2>3 DEF IInv, TypeOK
<1>6. ScalesFolded'
  <2> SUFFICES ASSUME NEW l \in Layers, NEW c \in Channels
               PROVE  /\ Smoothed(l)' => \E t \in Scales : FoldedBy(l, c, t)'
                      /\ pass' = "quantize" /\ ~ Smoothed(l)' => FoldedBy(l, c, 1)'
    BY DEF ScalesFolded
  <2>1. CASE l = layer
    <3>1. FoldedBy(l, c, s[c])' /\ s[c] \in Scales
      BY <1>1, <1>4, <2>1 DEF FoldedBy
    <3>2. pass' = "quantize" => Smoothed(l)'
      BY <1>1, <1>2, <2>1 DEF Smoothed
    <3>3. QED
      BY <3>1, <3>2
  <2>2. CASE l # layer
    <3>1. \A t : FoldedBy(l, c, t)' = FoldedBy(l, c, t)
      BY <1>1, <1>3, <2>2 DEF FoldedBy
    <3>2. Smoothed(l)' = Smoothed(l)
      BY <1>1, <1>2, <2>2 DEF Smoothed
    <3>3. QED
      BY <1>1, <3>1, <3>2 DEF IInv, ScalesFolded
  <2>3. QED
    BY <2>1, <2>2
<1>7. RatiosFolded'
  BY <1>1, <1>2 DEF IInv, RatiosFolded, Compensated
<1>8. NothingStored'
  BY <1>2 DEF NothingStored
<1>9. QED
  BY <1>5, <1>6, <1>7, <1>8 DEF IInv

\* The repair divides in_proj_a and in_proj_b of one layer by its ratio.
LEMMA CompensateKeeps ==
  ASSUME IInv, CompensateGdn \/ CompensateNone
  PROVE  IInv'
<1>1. /\ pass = "compensate" /\ layer \in Layers
      /\ base' = base /\ norm' = norm /\ quant' = quant
      /\ NextLayer("store")
  BY DEF CompensateGdn, CompensateNone, IInv, TypeOK
<1>2. /\ layer' \in Layers
      /\ \/ pass' = "store" /\ layer' = 1 /\ layer = NumLayers
         \/ pass' = "compensate" /\ layer' = layer + 1
      /\ \A l \in Layers : l \in Nat /\ l <= NumLayers
  BY <1>1, NextLayerFacts
<1>3. /\ proj' \in [Layers -> [Channels -> Nat \cup {NaN}]]
      /\ \A l \in Layers : l # layer => proj'[l] = proj[l]
      /\ base.kind[layer] = "gdn" =>
           \A c \in Channels : proj'[layer][c] = Divide(proj[layer][c], Ratio(layer, c))
  <2>1. CASE CompensateNone
    BY <2>1 DEF CompensateNone, IInv, TypeOK
  <2>2. CASE CompensateGdn
    <3>1. proj' = [proj EXCEPT ![layer] = [c \in Channels |-> Divide(@[c], Ratio(layer, c))]]
      BY <2>2 DEF CompensateGdn
    <3>2. ASSUME NEW c \in Channels
          PROVE  Divide(proj[layer][c], Ratio(layer, c)) \in Nat \cup {NaN}
      <4>1. norm[layer][c] \in Nat \cup {NaN} /\ base.norm[layer][c] \in Nat \cup {NaN}
        BY <1>1, TypeFacts DEF IInv
      <4>2. Ratio(layer, c) \in Nat \cup {NaN}
        BY <4>1, DivideFacts DEF Ratio
      <4>3. proj[layer][c] \in Nat \cup {NaN}
        BY <1>1 DEF IInv, TypeOK
      <4>4. QED
        BY <4>2, <4>3, DivideFacts
    <3>3. QED
      BY <1>1, <3>1, <3>2 DEF IInv, TypeOK
  <2>3. QED
    BY <2>1, <2>2
<1>4. TypeOK'
  BY <1>1, <1>2, <1>3 DEF IInv, TypeOK
<1>5. ScalesFolded'
  BY <1>1, <1>2 DEF IInv, ScalesFolded, Smoothed, FoldedBy
<1>6. RatiosFolded'
  <2> SUFFICES ASSUME NEW l \in Layers, NEW c \in Channels
               PROVE  /\ pass' \in {"quantize", "norms", "compensate"} /\ ~ Compensated(l)'
                           => proj'[l][c] = One
                      /\ Compensated(l)' /\ base.kind[l] = "gdn"
                           => proj'[l][c] = Divide(One, Ratio(l, c))
    BY <1>1 DEF RatiosFolded, Ratio
  <2>1. CASE l = layer
    <3>1. ~ Compensated(l) /\ Compensated(l)'
      BY <1>1, <1>2, <2>1 DEF Compensated
    <3>2. proj[l][c] = One
      BY <1>1, <3>1 DEF IInv, RatiosFolded
    <3>3. QED
      BY <1>3, <2>1, <3>1, <3>2
  <2>2. CASE l # layer
    <3>1. Compensated(l)' = Compensated(l)
      BY <1>1, <1>2, <2>2 DEF Compensated
    <3>2. QED
      BY <1>1, <1>3, <2>2, <3>1 DEF IInv, RatiosFolded
  <2>3. QED
    BY <2>1, <2>2
<1>7. NothingStored'
  BY <1>2 DEF NothingStored, Layers
<1>8. QED
  BY <1>4, <1>5, <1>6, <1>7 DEF IInv

LEMMA InvariantStep ==
  ASSUME IInv, [Next]_vars
  PROVE  IInv'
<1>1. One \div 1 = One /\ One \in Nat /\ 1 \in Layers
  BY RequantAssumption DEF Layers
<1>2. CASE LoadModel
  <2>1. /\ pass = "load" /\ pass' = "quantize" /\ base' = base /\ layer' = 1
        /\ norm' = base.norm
        /\ quant' = [l \in Layers |-> [c \in Channels |-> One]]
        /\ proj' = [l \in Layers |-> [c \in Channels |-> One]]
    BY <1>2 DEF LoadModel, IInv, TypeOK
  <2>2. \A l \in Layers, c \in Channels : base.norm[l][c] \in Nat
    BY TypeFacts DEF IInv
  <2>3. norm' \in [Layers -> [Channels -> Nat]]
    <3>1. base.norm \in [Layers -> [Channels -> Gains]] /\ Gains \subseteq Nat
      BY RequantAssumption DEF IInv, TypeOK
    <3>2. QED
      BY <2>1, <3>1
  <2>4. TypeOK'
    BY <1>1, <2>1, <2>3 DEF IInv, TypeOK
  <2>5. ScalesFolded'
    BY <1>1, <2>1, <2>2 DEF ScalesFolded, Smoothed, FoldedBy, Layers
  <2>6. RatiosFolded' /\ NothingStored'
    BY <2>1 DEF RatiosFolded, NothingStored, Compensated
  <2>7. QED
    BY <2>4, <2>5, <2>6 DEF IInv
<1>3. ASSUME NEW s \in [Channels -> Scales], Smooth(s)
      PROVE  IInv'
  BY <1>3, SmoothKeeps
<1>4. CASE LoadBaseNorms
  <2>1. /\ pass = "norms" /\ pass' = "compensate" /\ layer = 1
        /\ UNCHANGED <<base, norm, quant, proj, layer>>
    BY <1>4 DEF LoadBaseNorms, IInv, TypeOK
  <2>2. TypeOK' /\ NothingStored'
    BY <2>1 DEF IInv, TypeOK, NothingStored
  <2>3. ScalesFolded'
    BY <2>1 DEF IInv, ScalesFolded, Smoothed, FoldedBy
  <2>4. RatiosFolded'
    BY <2>1 DEF IInv, RatiosFolded, Compensated, Layers
  <2>5. QED
    BY <2>2, <2>3, <2>4 DEF IInv
<1>5. CASE BaseNormMissing \/ StoreNorm
  BY <1>5 DEF BaseNormMissing, StoreNorm, Raise, IInv, TypeOK, ScalesFolded, Smoothed,
              RatiosFolded, Compensated, NothingStored
<1>6. CASE CompensateGdn \/ CompensateNone
  BY <1>6, CompensateKeeps
<1>7. CASE StoreNothing
  <2>1. /\ pass = "store" /\ layer \in Layers /\ norm[layer] = base.norm[layer]
        /\ UNCHANGED <<base, norm, quant, proj>> /\ NextLayer("save")
    BY <1>7 DEF StoreNothing, Unchanged, IInv, TypeOK
  <2>2. /\ layer' \in Layers
        /\ \/ pass' = "save" /\ layer' = 1 /\ layer = NumLayers
           \/ pass' = "store" /\ layer' = layer + 1
        /\ \A l \in Layers : l \in Nat /\ l <= NumLayers
    BY <2>1, NextLayerFacts
  <2>3. TypeOK' /\ ScalesFolded'
    BY <2>1, <2>2 DEF IInv, TypeOK, ScalesFolded, Smoothed, FoldedBy
  <2>4. RatiosFolded'
    BY <2>1, <2>2 DEF IInv, RatiosFolded, Compensated, Ratio
  <2>5. NothingStored'
    BY <2>1, <2>2 DEF IInv, NothingStored, Layers
  <2>6. QED
    BY <2>3, <2>4, <2>5 DEF IInv
<1>8. CASE Save
  BY <1>8 DEF Save, IInv, TypeOK, ScalesFolded, Smoothed, FoldedBy, RatiosFolded,
              Compensated, NothingStored, Ratio
<1>9. CASE Again
  BY <1>1, <1>9 DEF Again, IInv, TypeOK, ScalesFolded, Smoothed, RatiosFolded,
                    Compensated, NothingStored
<1>10. CASE UNCHANGED vars
  BY <1>10 DEF vars, IInv, TypeOK, ScalesFolded, Smoothed, FoldedBy, RatiosFolded,
               Compensated, NothingStored, Ratio
<1>11. QED
  BY <1>2, <1>3, <1>4, <1>5, <1>6, <1>7, <1>8, <1>9, <1>10 DEF Next

\* The scale of each channel is in exactly one place of each stage of the
\* script, whatever the search of AWQ chooses.
THEOREM InvariantHolds == Spec => []IInv
<1>1. Init => IInv
  <2> SUFFICES ASSUME Init PROVE IInv
    OBVIOUS
  <2>1. base.norm \in [Layers -> [Channels -> Gains]] /\ base.kind \in [Layers -> {"gdn", "attn"}]
    BY DEF Init
  <2>2. norm \in [Layers -> [Channels -> Nat]]
    <3>1. norm = base.norm /\ Gains \subseteq Nat
      BY RequantAssumption DEF Init
    <3>2. QED
      BY <2>1, <3>1
  <2>3. QED
    BY <2>1, <2>2, RequantAssumption
       DEF Init, IInv, TypeOK, ScalesFolded, Smoothed, RatiosFolded, Compensated,
           NothingStored, Layers
<1>2. IInv /\ [Next]_vars => IInv'
  BY InvariantStep
<1>3. QED
  BY <1>1, <1>2, PTL DEF Spec

\* From their compensation on, in_proj_a and in_proj_b are folded as the
\* quantised consumers of the same norm are, wherever its base weight is not 0.
THEOREM FoldedAlikeHolds == Spec => []FoldedAlike
<1>1. IInv => FoldedAlike
  <2> SUFFICES ASSUME IInv, NEW l \in Layers, NEW c \in Channels, Compensated(l),
                      base.kind[l] = "gdn", base.norm[l][c] # 0
               PROVE  proj[l][c] = quant[l][c]
    BY DEF FoldedAlike
  <2>1. Smoothed(l)
    BY DEF Compensated, Smoothed
  <2>2. PICK s \in Scales : FoldedBy(l, c, s)
    BY <2>1 DEF IInv, ScalesFolded
  <2>3. proj[l][c] = Divide(One, Ratio(l, c)) /\ Ratio(l, c) = s
    BY <2>2, RatioIsScale DEF IInv, RatiosFolded
  <2>4. Divide(One, s) = One \div s
    BY DivideFacts, RequantAssumption
  <2>5. QED
    BY <2>2, <2>3, <2>4 DEF FoldedBy
<1>2. QED
  BY <1>1, InvariantHolds, PTL

\* A scale that leaves a gain alone is 1.
LEMMA OnlyOneKeeps ==
  ASSUME NEW s \in Nat, NEW n \in Nat \ {0}, s * n = n
  PROVE  s = 1
<1>1. s # 0
  OBVIOUS
<1>2. ASSUME NEW t \in Nat \ {0}
      PROVE  t * n # 0
  OBVIOUS
<1>3. (s - 1) * n = 0
  OBVIOUS
<1>4. QED
  BY <1>1, <1>2, <1>3

\* A model that gets saved computes what the base model does.  This is less than
\* the script means to achieve: it holds because every model in which a norm
\* was changed ends in the NameError of the second pass.
THEOREM SavedIsFaithfulHolds == Spec => []SavedIsFaithful
<1>1. IInv => SavedIsFaithful
  <2> SUFFICES ASSUME IInv, pass = "saved", NEW l \in Layers, NEW c \in Channels,
                      base.norm[l][c] # 0
               PROVE  /\ (1 + norm[l][c]) * quant[l][c] = (1 + base.norm[l][c]) * One
                      /\ base.kind[l] = "gdn" =>
                           (1 + norm[l][c]) * proj[l][c] = (1 + base.norm[l][c]) * One
    BY DEF SavedIsFaithful
  <2>1. PICK s \in Scales : FoldedBy(l, c, s)
    BY DEF IInv, ScalesFolded, Smoothed
  <2>2. norm[l][c] = base.norm[l][c]
    BY DEF IInv, NothingStored
  <2>3. s \in Nat /\ base.norm[l][c] \in Nat \ {0} /\ s * base.norm[l][c] = base.norm[l][c]
    BY <2>1, <2>2, TypeFacts, ScaleFacts DEF IInv, FoldedBy
  <2>4. s = 1
    BY <2>3, OnlyOneKeeps
  <2>5. quant[l][c] = One
    BY <2>1, <2>4, RequantAssumption DEF FoldedBy
  <2>6. base.kind[l] = "gdn" => proj[l][c] = Divide(One, Ratio(l, c)) /\ Ratio(l, c) = 1
    BY <2>1, <2>4, RatioIsScale DEF IInv, RatiosFolded, Compensated
  <2>7. Divide(One, 1) = One
    BY DivideFacts, RequantAssumption
  <2>8. QED
    BY <2>2, <2>5, <2>6, <2>7
<1>2. QED
  BY <1>1, InvariantHolds, PTL
=============================================================================

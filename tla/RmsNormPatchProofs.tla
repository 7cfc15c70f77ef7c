------------------------- MODULE RmsNormPatchProofs -------------------------
(***************************************************************************)
(* Proofs about RmsNormPatch, for every number of names and layers.        *)
(***************************************************************************)
EXTENDS RmsNormPatch, TLAPS

-----------------------------------------------------------------------------
(* Types.                                                                  *)

\* What the class can hand to a layer or to a name.
LEMMA TypeStep ==
  ASSUME TypeOK, [Next]_vars
  PROVE  TypeOK'
<1>1. CASE LayernormLoads
  BY <1>1 DEF LayernormLoads, TypeOK, callVars
<1>2. ASSUME NEW n \in Names, ImportStep(n)
      PROVE  TypeOK'
  <2>1. CASE ApplyPatch(n)
    BY <2>1 DEF ApplyPatch, TypeOK, callVars
  <2>2. CASE CaptureOriginal(n)
    BY <2>2 DEF CaptureOriginal, TypeOK, callVars
  <2>3. CASE ReplaceNative(n)
    BY <2>3 DEF ReplaceNative, TypeOK, callVars
  <2>4. CASE ReplaceCuda(n)
    BY <2>4 DEF ReplaceCuda, TypeOK, callVars
  <2>5. CASE SetPatched(n)
    BY <2>5 DEF SetPatched, TypeOK, callVars
  <2>6. QED
    BY <1>2, <2>1, <2>2, <2>3, <2>4, <2>5 DEF ImportStep
<1>3. ASSUME NEW l \in Layers, BuildLayer(l)
      PROVE  TypeOK'
  BY <1>3 DEF BuildLayer, TypeOK, patchVars
<1>4. ASSUME NEW l \in Layers, NEW x \in Inputs, BeginCall(l, x)
      PROVE  TypeOK'
  BY <1>4 DEF BeginCall, TypeOK, Methods, patchVars
<1>5. ASSUME NEW l \in Layers, CallStep(l)
      PROVE  TypeOK'
  <2>1. call[l] # None => call[l] \in [operands : Inputs, at : Methods \cup {None}]
    BY DEF TypeOK
  <2>2. ASSUME NEW method \in Methods \cup {None}, call[l] # None, GoTo(l, method)
        PROVE  TypeOK'
    BY <2>1, <2>2 DEF GoTo, TypeOK, patchVars
  <2>3. ASSUME NEW place \in {StockNative, Kernel}, call[l] # None, EndIn(l, place)
        PROVE  TypeOK'
    BY <2>1, <2>3 DEF EndIn, TypeOK, patchVars
  <2>4. /\ cuda \in Methods /\ native \in Methods
        /\ \A n \in Names : orig[n] \in Methods \cup {None}
    BY DEF TypeOK, Methods
  <2>5. CASE RunHip(l)
    BY <2>2, <2>4, <2>5 DEF RunHip, Running
  <2>6. CASE RunStockCuda(l)
    BY <2>2, <2>4, <2>6 DEF RunStockCuda, Running
  <2>7. CASE RunStockNative(l)
    BY <2>3, <2>7 DEF RunStockNative, Running
  <2>8. ASSUME NEW n \in Names, RunFused(l, n)
        PROVE  TypeOK'
    BY <2>2, <2>3, <2>4, <2>8 DEF RunFused, Running
  <2>9. QED
    BY <1>5, <2>5, <2>6, <2>7, <2>8 DEF CallStep
<1>6. CASE UNCHANGED vars
  BY <1>6 DEF vars, TypeOK
<1>7. QED
  BY <1>1, <1>2, <1>3, <1>4, <1>5, <1>6 DEF Next

\* Every variable of RmsNormPatch keeps its type.
THEOREM TypeCorrect == Spec => []TypeOK
<1>1. Init => TypeOK
  BY DEF Init, TypeOK
<1>2. TypeOK /\ [Next]_vars => TypeOK'
  BY TypeStep
<1>3. QED
  BY <1>1, <1>2, PTL DEF Spec

-----------------------------------------------------------------------------
(* The inductive invariant.                                                *)

\* A name that captures the method of the class closes no circle: nobody falls
\* back on a name that has captured nothing.
LEMMA CaptureKeepsNoCircle ==
  ASSUME TypeOK, Stages, ReachableHaveFallback, NoCircle,
         NEW n \in Names, CaptureOriginal(n)
  PROVE  NoCircle'
<1>1. orig[n] = None /\ native # n /\ \A m \in Names : orig[m] # n
  BY DEF CaptureOriginal, Stages, ReachableHaveFallback, Reachable
<1>2. orig'[n] = native /\ \A m \in Names : m # n => orig'[m] = orig[m]
  BY DEF CaptureOriginal, TypeOK
<1>3. SUFFICES ASSUME NEW ns \in SUBSET Names, ns # {}, \A m \in ns : orig'[m] \in ns
               PROVE  FALSE
  BY DEF NoCircle
<1>4. PICK others : others = ns \ {n}
  OBVIOUS
<1>5. \A m \in others : orig[m] \in others
  BY <1>1, <1>2, <1>3, <1>4
<1>6. others = {}
  BY <1>4, <1>5 DEF NoCircle
<1>7. ns = {n}
  BY <1>3, <1>4, <1>6
<1>8. QED
  BY <1>1, <1>2, <1>3, <1>7

LEMMA ImportKeepsInvariant ==
  ASSUME IInv, NEW n \in Names, ImportStep(n)
  PROVE  Stages' /\ ReachableHaveFallback' /\ NoCircle' /\ FallbackIsCallable'
<1>1. CASE ApplyPatch(n)
  <2>1. native' = native /\ cuda' = cuda /\ orig' = orig /\ bound' = bound /\ call' = call
    BY <1>1 DEF ApplyPatch, callVars
  <2>2. Stages'
    BY <1>1 DEF ApplyPatch, IInv, Stages, TypeOK
  <2>3. QED
    BY <2>1, <2>2 DEF IInv, ReachableHaveFallback, Reachable, NoCircle, FallbackIsCallable
<1>2. CASE CaptureOriginal(n)
  <2>1. /\ orig'[n] = native /\ native # None
        /\ \A m \in Names : m # n => orig'[m] = orig[m]
        /\ native' = native /\ cuda' = cuda /\ bound' = bound /\ call' = call
    BY <1>2, RmsNormPatchAssumption DEF CaptureOriginal, callVars, IInv, TypeOK
  <2>2. Stages'
    BY <1>2, <2>1 DEF CaptureOriginal, IInv, Stages, TypeOK
  <2>3. \A m \in Names : orig[m] # None => orig'[m] # None
    BY <2>1
  <2>4. ReachableHaveFallback'
    BY <2>1, <2>3 DEF IInv, ReachableHaveFallback, Reachable
  <2>5. QED
    BY <1>2, <2>1, <2>2, <2>4, CaptureKeepsNoCircle DEF IInv, FallbackIsCallable
<1>3. CASE ReplaceNative(n)
  <2>1. native' = n /\ orig[n] # None /\ cuda' = cuda /\ orig' = orig
        /\ bound' = bound /\ call' = call
    BY <1>3 DEF ReplaceNative, callVars, IInv, Stages
  <2>2. Stages'
    BY <1>3, <2>1 DEF ReplaceNative, IInv, Stages, TypeOK
  <2>3. QED
    BY <2>1, <2>2 DEF IInv, ReachableHaveFallback, Reachable, NoCircle, FallbackIsCallable
<1>4. CASE ReplaceCuda(n)
  <2>1. cuda' = n /\ orig[n] # None /\ native' = native /\ orig' = orig
        /\ bound' = bound /\ call' = call
    BY <1>4 DEF ReplaceCuda, callVars, IInv, Stages
  <2>2. Stages'
    BY <1>4, <2>1 DEF ReplaceCuda, IInv, Stages, TypeOK
  <2>3. QED
    BY <2>1, <2>2 DEF IInv, ReachableHaveFallback, Reachable, NoCircle, FallbackIsCallable
<1>5. CASE SetPatched(n)
  <2>1. native' = native /\ cuda' = cuda /\ orig' = orig /\ bound' = bound /\ call' = call
    BY <1>5 DEF SetPatched, callVars
  <2>2. Stages'
    BY <1>5 DEF SetPatched, IInv, Stages, TypeOK
  <2>3. QED
    BY <2>1, <2>2 DEF IInv, ReachableHaveFallback, Reachable, NoCircle, FallbackIsCallable
<1>6. QED
  BY <1>1, <1>2, <1>3, <1>4, <1>5 DEF ImportStep

LEMMA LayerKeepsInvariant ==
  ASSUME IInv, NEW l \in Layers,
         BuildLayer(l) \/ CallStep(l) \/ \E x \in Inputs : BeginCall(l, x)
  PROVE  Stages' /\ ReachableHaveFallback' /\ NoCircle' /\ FallbackIsCallable'
<1>1. /\ native' = native /\ cuda' = cuda /\ orig' = orig
      /\ patched' = patched /\ step' = step
  BY DEF BuildLayer, CallStep, BeginCall, RunHip, RunStockCuda, RunStockNative, RunFused,
         GoTo, EndIn, patchVars
<1>2. Stages' /\ NoCircle'
  BY <1>1 DEF IInv, Stages, NoCircle
<1>3. SUFFICES /\ \A m \in Layers : Reachable(bound'[m])
               /\ \A m \in Layers : call'[m] # None => call'[m].at # None /\ Reachable(call'[m].at)
  BY <1>1, <1>2 DEF IInv, ReachableHaveFallback, Reachable, FallbackIsCallable
<1>4. /\ \A m \in Layers : Reachable(bound[m])
      /\ \A m \in Layers : call[m] # None => call[m].at # None /\ Reachable(call[m].at)
      /\ Reachable(native) /\ Reachable(cuda) /\ \A n \in Names : Reachable(orig[n])
      /\ Reachable(ForwardHip)
  BY RmsNormPatchAssumption DEF IInv, ReachableHaveFallback, Reachable, FallbackIsCallable
<1>5. CASE BuildLayer(l)
  BY <1>4, <1>5 DEF BuildLayer, IInv, TypeOK
<1>6. ASSUME NEW x \in Inputs, BeginCall(l, x)
      PROVE  /\ \A m \in Layers : Reachable(bound'[m])
             /\ \A m \in Layers :
                  call'[m] # None => call'[m].at # None /\ Reachable(call'[m].at)
  BY <1>4, <1>6 DEF BeginCall, IInv, TypeOK
<1>7. CASE CallStep(l)
  <2>1. ASSUME NEW method, method # None, Reachable(method), GoTo(l, method)
        PROVE  /\ bound' = bound
               /\ \A m \in Layers :
                    call'[m] # None => call'[m].at # None /\ Reachable(call'[m].at)
    BY <1>4, <2>1 DEF GoTo, IInv, TypeOK
  <2>2. ASSUME NEW place, EndIn(l, place)
        PROVE  /\ bound' = bound
               /\ \A m \in Layers :
                    call'[m] # None => call'[m].at # None /\ Reachable(call'[m].at)
    BY <1>4, <2>2 DEF EndIn, IInv, TypeOK
  <2>3. native # None /\ cuda # None
    BY RmsNormPatchAssumption DEF IInv, TypeOK
  <2>4. CASE RunHip(l)
    BY <1>4, <2>1, <2>3, <2>4 DEF RunHip
  <2>5. CASE RunStockCuda(l)
    BY <1>4, <2>1, <2>3, <2>5 DEF RunStockCuda
  <2>6. CASE RunStockNative(l)
    BY <1>4, <2>2, <2>6 DEF RunStockNative
  <2>7. ASSUME NEW n \in Names, RunFused(l, n)
        PROVE  /\ bound' = bound
               /\ \A m \in Layers :
                    call'[m] # None => call'[m].at # None /\ Reachable(call'[m].at)
    <3>1. orig[n] # None
      BY <1>4, <2>7 DEF RunFused, Running, Reachable
    <3>2. CASE Fits(call[l].operands)
      BY <2>2, <2>7, <3>2 DEF RunFused
    <3>3. CASE ~ Fits(call[l].operands)
      BY <1>4, <2>1, <2>7, <3>1, <3>3 DEF RunFused
    <3>4. QED
      BY <3>2, <3>3
  <2>8. QED
    BY <1>4, <1>7, <2>4, <2>5, <2>6, <2>7 DEF CallStep
<1>8. QED
  BY <1>5, <1>6, <1>7

LEMMA InvariantStep ==
  ASSUME IInv, [Next]_vars
  PROVE  IInv'
<1>1. TypeOK'
  BY TypeStep DEF IInv
<1>2. CASE LayernormLoads
  BY <1>1, <1>2 DEF LayernormLoads, callVars, IInv, Stages, ReachableHaveFallback, Reachable,
                    NoCircle, FallbackIsCallable
<1>3. CASE UNCHANGED vars
  BY <1>1, <1>3 DEF vars, IInv, Stages, ReachableHaveFallback, Reachable,
                    NoCircle, FallbackIsCallable
<1>4. ASSUME NEW n \in Names, ImportStep(n)
      PROVE  IInv'
  BY <1>1, <1>4, ImportKeepsInvariant DEF IInv
<1>5. ASSUME NEW l \in Layers,
             BuildLayer(l) \/ CallStep(l) \/ \E x \in Inputs : BeginCall(l, x)
      PROVE  IInv'
  BY <1>1, <1>5, LayerKeepsInvariant DEF IInv
<1>6. QED
  BY <1>2, <1>3, <1>4, <1>5 DEF Next

\* At the start nothing is patched and nothing runs.
LEMMA InvariantInit == Init => IInv
<1> SUFFICES ASSUME Init
             PROVE  IInv
  OBVIOUS
<1>1. TypeOK
  BY DEF Init, TypeOK
<1>2. Stages /\ FallbackIsCallable
  BY DEF Init, Stages, FallbackIsCallable
<1>3. ReachableHaveFallback
  BY RmsNormPatchAssumption DEF Init, ReachableHaveFallback, Reachable
<1>4. NoCircle
  BY RmsNormPatchAssumption DEF Init, NoCircle
<1>5. QED
  BY <1>1, <1>2, <1>3, <1>4 DEF IInv

\* The inductive invariant holds, for any number of names and layers.
THEOREM InvariantHolds == Spec => []IInv
<1>1. IInv /\ [Next]_vars => IInv'
  BY InvariantStep
<1>2. QED
  BY <1>1, InvariantInit, PTL DEF Spec

\* No methods fall back on each other in a circle, under however many names
\* the file has been imported: the safety behind the end of every call.
THEOREM NoCircleHolds == Spec => []NoCircle
<1>1. IInv => NoCircle
  BY DEF IInv
<1>2. QED
  BY <1>1, InvariantHolds, PTL

\* No call reaches the _ORIG_FORWARD_NATIVE of a name that is still None.
THEOREM FallbackIsCallableHolds == Spec => []FallbackIsCallable
<1>1. IInv => FallbackIsCallable
  BY DEF IInv
<1>2. QED
  BY <1>1, InvariantHolds, PTL

\* A finished patch is never undone and never captures another method.
THEOREM StaysActiveHolds == Spec => StaysActive
<1>1. ASSUME IInv, Next
      PROVE  KeepsPatch
  <2>1. CASE LayernormLoads
    BY <1>1, <2>1 DEF LayernormLoads, IInv, Stages, KeepsPatch
  <2>2. ASSUME NEW n \in Names, ImportStep(n)
        PROVE  KeepsPatch
    <3>1. patched[n] => step[n] = "done"
      BY <1>1 DEF IInv, Stages, TypeOK
    <3>2. CASE ApplyPatch(n)
      BY <1>1, <3>2 DEF ApplyPatch, IInv, Stages, KeepsPatch
    <3>3. CASE CaptureOriginal(n)
      BY <1>1, <3>1, <3>3 DEF CaptureOriginal, IInv, Stages, KeepsPatch, TypeOK
    <3>4. CASE ReplaceNative(n)
      BY <1>1, <3>1, <3>4 DEF ReplaceNative, IInv, Stages, KeepsPatch, TypeOK
    <3>5. CASE ReplaceCuda(n)
      BY <1>1, <3>1, <3>5 DEF ReplaceCuda, IInv, Stages, KeepsPatch, TypeOK
    <3>6. CASE SetPatched(n)
      BY <1>1, <3>1, <3>6 DEF SetPatched, IInv, Stages, KeepsPatch, TypeOK
    <3>7. QED
      BY <2>2, <3>2, <3>3, <3>4, <3>5, <3>6 DEF ImportStep
  <2>3. ASSUME NEW l \in Layers,
               BuildLayer(l) \/ CallStep(l) \/ \E x \in Inputs : BeginCall(l, x)
        PROVE  KeepsPatch
    <3>1. native' = native /\ cuda' = cuda /\ orig' = orig /\ patched' = patched
      BY <2>3 DEF BuildLayer, CallStep, BeginCall, RunHip, RunStockCuda, RunStockNative,
                  RunFused, GoTo, EndIn, patchVars
    <3>2. QED
      BY <1>1, <3>1 DEF IInv, Stages, KeepsPatch
  <2>4. QED
    BY <1>1, <2>1, <2>2, <2>3 DEF Next
<1>2. IInv /\ [Next]_vars => [KeepsPatch]_vars
  BY <1>1
<1>3. QED
  BY <1>2, InvariantHolds, PTL DEF Spec, StaysActive

-----------------------------------------------------------------------------
(* Where the calls end.                                                    *)

\* Nothing replaces a method of the class by one that is not a name's.
LEMMA ImportKeepsEnds ==
  ASSUME EndInv, LayernormLoads \/ (\E n \in Names : ImportStep(n)) \/ UNCHANGED vars
  PROVE  LateServed' /\ RightEnd'
<1>1. /\ late' = late /\ bound' = bound /\ call' = call /\ ended' = ended
      /\ \A n \in Names : patched[n] => patched'[n]
  BY DEF LayernormLoads, ImportStep, ApplyPatch, CaptureOriginal, ReplaceNative, ReplaceCuda,
         SetPatched, callVars, vars, EndInv, IInv, TypeOK
<1>2. QED
  BY <1>1 DEF EndInv, LateServed, RightEnd

\* A layer takes the method of the class that is there now.
LEMMA BuildKeepsEnds ==
  ASSUME EndInv, NEW l \in Layers, BuildLayer(l)
  PROVE  LateServed' /\ RightEnd'
<1>1. /\ patched' = patched /\ call' = call /\ ended' = ended
      /\ bound'[l] \in {ForwardHip, native}
      /\ \A m \in Layers : m # l => bound'[m] = bound[m]
      /\ bound[l] = None
      /\ late' = IF \E n \in Names : patched[n] THEN late \cup {l} ELSE late
  BY DEF BuildLayer, patchVars, EndInv, IInv, TypeOK
<1>2. late \subseteq Layers /\ call[l] = None /\ \A e \in ended : e.layer # l
  BY <1>1 DEF EndInv, LateServed, IInv, TypeOK
<1>3. RightEnd'
  BY <1>1, <1>2 DEF EndInv, RightEnd
<1>4. ASSUME NEW m \in Layers, bound'[m] = None
      PROVE  bound[m] = None
  BY <1>1, <1>4
<1>5. (\E n \in Names : patched[n]) => native \in Names
  BY DEF EndInv, IInv, Stages
<1>6. QED
  BY <1>1, <1>2, <1>3, <1>4, <1>5 DEF EndInv, LateServed, IInv, Stages

\* A call begins in the method of its layer.
LEMMA BeginKeepsEnds ==
  ASSUME EndInv, NEW l \in Layers, NEW x \in Inputs, BeginCall(l, x)
  PROVE  LateServed' /\ RightEnd'
<1>1. /\ patched' = patched /\ bound' = bound /\ ended' = ended /\ late' = late
      /\ bound[l] # None
      /\ call'[l] = [operands |-> x, at |-> bound[l]]
      /\ \A m \in Layers : m # l => call'[m] = call[m]
  BY DEF BeginCall, patchVars, EndInv, IInv, TypeOK
<1>2. late \subseteq Layers
  BY DEF EndInv, IInv, TypeOK
<1>3. QED
  BY <1>1, <1>2 DEF EndInv, LateServed, RightEnd

\* A call that goes on with operands that fit goes to a name, and one that
\* ends, ends in the kernel exactly with those.
LEMMA CallKeepsEnds ==
  ASSUME EndInv, NEW l \in Layers, CallStep(l)
  PROVE  LateServed' /\ RightEnd'
<1> DEFINE x == call[l].operands
<1>1. /\ patched' = patched /\ bound' = bound /\ late' = late
      /\ late \subseteq Layers /\ call[l] # None
  BY DEF CallStep, RunHip, RunStockCuda, RunStockNative, RunFused, Running, GoTo, EndIn,
         patchVars, EndInv, IInv, TypeOK
<1>2. bound[l] # None
  BY <1>1 DEF EndInv, LateServed
<1>3. l \in late => cuda \in Names
  BY DEF EndInv, IInv, Stages, LateServed
<1>4. l \in late /\ Fits(x) => call[l].at \in Names \cup {ForwardHip}
  BY <1>1 DEF EndInv, LateServed
<1>5. ASSUME NEW method, GoTo(l, method), l \in late /\ Fits(x) => method \in Names
      PROVE  LateServed' /\ RightEnd'
  <2>1. /\ call'[l] = [operands |-> x, at |-> method] /\ ended' = ended
        /\ \A m \in Layers : m # l => call'[m] = call[m]
    BY <1>5 DEF GoTo, EndInv, IInv, TypeOK
  <2>2. LateServed'
    BY <1>1, <1>2, <1>5, <2>1 DEF EndInv, LateServed
  <2>3. QED
    BY <1>1, <2>1, <2>2 DEF EndInv, RightEnd
<1>6. ASSUME NEW place, EndIn(l, place), place \in {StockNative, Kernel},
             place = Kernel => Fits(x), l \in late /\ Fits(x) => place = Kernel
      PROVE  LateServed' /\ RightEnd'
  <2>1. /\ call'[l] = None /\ \A m \in Layers : m # l => call'[m] = call[m]
        /\ ended' = ended \cup {[layer |-> l, operands |-> x, in |-> place]}
    BY <1>6 DEF EndIn, EndInv, IInv, TypeOK
  <2>2. LateServed'
    BY <1>1, <1>2, <2>1 DEF EndInv, LateServed
  <2>3. QED
    BY <1>1, <1>6, <2>1, <2>2 DEF EndInv, RightEnd, Fits
<1>7. CASE RunHip(l)
  BY <1>3, <1>5, <1>7 DEF RunHip
<1>8. CASE RunStockCuda(l)
  BY <1>4, <1>5, <1>8, RmsNormPatchAssumption DEF RunStockCuda, Running
<1>9. CASE RunStockNative(l)
  BY <1>4, <1>6, <1>9, RmsNormPatchAssumption DEF RunStockNative, Running
<1>10. ASSUME NEW n \in Names, RunFused(l, n)
       PROVE  LateServed' /\ RightEnd'
  BY <1>5, <1>6, <1>10 DEF RunFused
<1>11. QED
  BY <1>7, <1>8, <1>9, <1>10 DEF CallStep

\* Whichever way vLLM bound its method, a layer that is built when a patch is
\* complete never takes operands that fit to stock vLLM, and the kernel never
\* gets operands that it cannot handle.
THEOREM RightEndHolds == Spec => []RightEnd
<1>1. Init => EndInv
  BY InvariantInit, RmsNormPatchAssumption DEF Init, EndInv, LateServed, RightEnd
<1>2. EndInv /\ [Next]_vars => EndInv'
  <2> SUFFICES ASSUME EndInv, [Next]_vars
               PROVE  EndInv'
    OBVIOUS
  <2>1. IInv'
    BY InvariantStep DEF EndInv
  <2>2. LateServed' /\ RightEnd'
    BY ImportKeepsEnds, BuildKeepsEnds, BeginKeepsEnds, CallKeepsEnds DEF Next
  <2>3. QED
    BY <2>1, <2>2 DEF EndInv
<1>3. EndInv => RightEnd
  BY DEF EndInv
<1>4. QED
  BY <1>1, <1>2, <1>3, PTL DEF Spec
=============================================================================

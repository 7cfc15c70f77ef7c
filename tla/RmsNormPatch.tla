---------------------------- MODULE RmsNormPatch ----------------------------
(***************************************************************************)
(* patches/rmsnorm_gfx1030.py: the patch that replaces two methods of      *)
(* vLLM's GemmaRMSNorm when the file is imported, and the method it puts   *)
(* there, which goes to the fused kernel or back to the method it found.   *)
(*                                                                         *)
(* The file may be imported under several names, by threads of one         *)
(* process: awq_triton.py imports it as part of vllm, the gates import the *)
(* mounted file by itself.  Each name has its own globals, and the         *)
(* _fused_forward of a name is named by it here.  A name is executed once, *)
(* as Python's import does.                                                *)
(***************************************************************************)
EXTENDS Integers

CONSTANTS
  Names,        \* what the file is imported as
  Layers,       \* GemmaRMSNorm objects
  Inputs,       \* the operands of a call, with the fields that the gate reads
  StockNative,  \* forward_native and forward_cuda of stock vLLM
  StockCuda,
  ForwardHip,   \* CustomOp.forward_hip: looks forward_cuda up when it is called
  Kernel,       \* the end of a call in the fused kernel
  None          \* Python's None; of a layer: not built; of a call: not running

ASSUME RmsNormPatchAssumption ==
  /\ None \notin Names \cup {StockNative, StockCuda, ForwardHip}
  /\ StockNative \notin Names \cup {StockCuda, ForwardHip}
  /\ StockCuda \notin Names
  /\ ForwardHip \notin Names \cup {StockCuda}
  /\ Kernel # StockNative

VARIABLES
  native,   \* GemmaRMSNorm.forward_native
  cuda,     \* GemmaRMSNorm.forward_cuda
  orig,     \* _ORIG_FORWARD_NATIVE of each name
  patched,  \* _PATCHED of each name
  step,     \* where the import of each name stands in apply_patch
  ready,    \* vLLM's layernorm module can be imported
  bound,    \* _forward_method of each layer
  late,     \* the layers built after a patch was complete
  call,     \* what each layer is running: its operands and the method reached
  ended     \* the calls that have ended: layer, operands, where they ended

patchVars == <<native, cuda, orig, patched, step, ready>>
callVars == <<bound, late, call, ended>>
vars == <<native, cuda, orig, patched, step, ready, bound, late, call, ended>>

Methods == Names \cup {StockNative, StockCuda, ForwardHip}

TypeOK ==
  /\ native \in Names \cup {StockNative}
  /\ cuda \in Names \cup {StockCuda}
  /\ orig \in [Names -> Names \cup {StockNative, None}]
  /\ patched \in [Names -> BOOLEAN]
  /\ step \in [Names -> {"new", "capture", "native", "cuda", "flag", "done"}]
  /\ ready \in BOOLEAN
  /\ bound \in [Layers -> {ForwardHip, StockNative, None} \cup Names]
  /\ late \subseteq Layers
  /\ call \in [Layers -> [operands : Inputs, at : Methods \cup {None}] \cup {None}]
  /\ ended \subseteq [layer : Layers, operands : Inputs, in : {StockNative, Kernel}]

Init ==
  /\ native = StockNative
  /\ cuda = StockCuda
  /\ orig = [n \in Names |-> None]
  /\ patched = [n \in Names |-> FALSE]
  /\ step = [n \in Names |-> "new"]
  /\ ready \in BOOLEAN
  /\ bound = [l \in Layers |-> None]
  /\ late = {}
  /\ call = [l \in Layers |-> None]
  /\ ended = {}

-----------------------------------------------------------------------------
(* Importing the file.                                                     *)

\* vLLM's own import of the layernorm module ends (external).
LayernormLoads ==
  /\ ~ready
  /\ ready' = TRUE
  /\ UNCHANGED <<native, cuda, orig, patched, step>> /\ UNCHANGED callVars

\* As ApplyPatch, without the early return that makes it idempotent.
ApplyPatchAgain(n) ==
  /\ step[n] \in {"new", "done"}
  /\ step' = [step EXCEPT ![n] = IF ready THEN "capture" ELSE "done"]
  /\ UNCHANGED <<native, cuda, orig, patched, ready>> /\ UNCHANGED callVars

\* apply_patch up to the import of GemmaRMSNorm.  At the first execution of
\* the file the tail has set _PATCHED to FALSE.  In the middle of an import
\* cycle the class cannot be imported: the exception is caught.
ApplyPatch(n) ==
  /\ step[n] \in {"new", "done"}
  /\ step' = [step EXCEPT ![n] = IF ready /\ ~patched[n] THEN "capture" ELSE "done"]
  /\ UNCHANGED <<native, cuda, orig, patched, ready>> /\ UNCHANGED callVars

\* As CaptureOriginal, after forward_native has been replaced.
CaptureLate(n) ==
  /\ step[n] = "capture"
  /\ native' = n
  /\ orig' = [orig EXCEPT ![n] = native']
  /\ step' = [step EXCEPT ![n] = "native"]
  /\ UNCHANGED <<cuda, patched, ready>> /\ UNCHANGED callVars

\* As CaptureOriginal, without the assignment.
CaptureForgotten(n) ==
  /\ step[n] = "capture"
  /\ step' = [step EXCEPT ![n] = "native"]
  /\ UNCHANGED <<native, cuda, orig, patched, ready>> /\ UNCHANGED callVars

\* _ORIG_FORWARD_NATIVE = GemmaRMSNorm.forward_native.
CaptureOriginal(n) ==
  /\ step[n] = "capture"
  /\ orig' = [orig EXCEPT ![n] = native]
  /\ step' = [step EXCEPT ![n] = "native"]
  /\ UNCHANGED <<native, cuda, patched, ready>> /\ UNCHANGED callVars

ReplaceNative(n) ==
  /\ step[n] = "native"
  /\ native' = n
  /\ step' = [step EXCEPT ![n] = "cuda"]
  /\ UNCHANGED <<cuda, orig, patched, ready>> /\ UNCHANGED callVars

ReplaceCuda(n) ==
  /\ step[n] = "cuda"
  /\ cuda' = n
  /\ step' = [step EXCEPT ![n] = "flag"]
  /\ UNCHANGED <<native, orig, patched, ready>> /\ UNCHANGED callVars

SetPatched(n) ==
  /\ step[n] = "flag"
  /\ patched' = [patched EXCEPT ![n] = TRUE]
  /\ step' = [step EXCEPT ![n] = "done"]
  /\ UNCHANGED <<native, cuda, orig, ready>> /\ UNCHANGED callVars

-----------------------------------------------------------------------------
(* Layers and their calls.                                                 *)

\* CustomOp.__init__ chooses the method of a layer: forward_hip, or the bound
\* forward_native when custom operators are switched off (external).
BuildLayer(l) ==
  /\ ready
  /\ bound[l] = None
  /\ bound' = [bound EXCEPT ![l] = ForwardHip] \/ bound' = [bound EXCEPT ![l] = native]
  /\ late' = IF \E n \in Names : patched[n] THEN late \cup {l} ELSE late
  /\ UNCHANGED <<call, ended>> /\ UNCHANGED patchVars

BeginCall(l, x) ==
  /\ bound[l] # None
  /\ call[l] = None
  /\ call' = [call EXCEPT ![l] = [operands |-> x, at |-> bound[l]]]
  /\ UNCHANGED <<bound, late, ended>> /\ UNCHANGED patchVars

\* The gate of _fused_forward without its last condition.
FitsAnyLength(x) == x.cuda /\ x.dim >= 1 /\ x.n <= 8192 /\ x.stride = 1
                    /\ x.dtype \in {"fp16", "bf16"} /\ x.wdtype = x.dtype /\ x.wdim = 1

\* The gate of _fused_forward.
Fits(x) ==
  /\ x.cuda
  /\ x.dim >= 1
  /\ x.n <= 8192
  /\ x.stride = 1
  /\ x.dtype \in {"fp16", "bf16"}
  /\ x.wdtype = x.dtype
  /\ x.wdim = 1
  /\ x.wlen = x.n

\* The method that layer l runs hands the call on to another one.
GoTo(l, method) ==
  /\ call' = [call EXCEPT ![l] = [operands |-> call[l].operands, at |-> method]]
  /\ UNCHANGED <<bound, late, ended>> /\ UNCHANGED patchVars

EndIn(l, place) ==
  /\ call' = [call EXCEPT ![l] = None]
  /\ ended' = ended \cup {[layer |-> l, operands |-> call[l].operands, in |-> place]}
  /\ UNCHANGED <<bound, late>> /\ UNCHANGED patchVars

Running(l, method) == call[l] # None /\ call[l].at = method

\* The methods of vLLM: forward_hip calls self.forward_cuda, stock
\* forward_cuda calls self.forward_native, both looked up now (external).
RunHip(l) == Running(l, ForwardHip) /\ GoTo(l, cuda)
RunStockCuda(l) == Running(l, StockCuda) /\ GoTo(l, native)
RunStockNative(l) == Running(l, StockNative) /\ EndIn(l, StockNative)

\* _fused_forward of the name n.
RunFused(l, n) ==
  /\ Running(l, n)
  /\ IF Fits(call[l].operands) THEN EndIn(l, Kernel) ELSE GoTo(l, orig[n])

CallStep(l) ==
  \/ RunHip(l)
  \/ RunStockCuda(l)
  \/ RunStockNative(l)
  \/ \E n \in Names : RunFused(l, n)

ImportStep(n) ==
  \/ ApplyPatch(n)
  \/ CaptureOriginal(n)
  \/ ReplaceNative(n)
  \/ ReplaceCuda(n)
  \/ SetPatched(n)

Next ==
  \/ LayernormLoads
  \/ \E n \in Names : ImportStep(n)
  \/ \E l \in Layers : BuildLayer(l) \/ CallStep(l) \/ \E x \in Inputs : BeginCall(l, x)

Spec == Init /\ [][Next]_vars

\* A call that runs goes on: nothing in the methods waits.
FairSpec == Spec /\ \A l \in Layers : WF_vars(CallStep(l))

-----------------------------------------------------------------------------
(* Properties.                                                             *)

\* A fallback always has a method to go to: while the file is imported under
\* another name by another thread, no call reaches _ORIG_FORWARD_NATIVE of a
\* name that has not captured it yet.
FallbackIsCallable == \A l \in Layers : call[l] # None => call[l].at # None

\* No methods fall back on each other in a circle: of any names, one falls back
\* on a method that is none of theirs.
NoCircle == \A ns \in SUBSET Names : ns # {} => \E n \in ns : orig[n] \notin ns

\* Where a call ends.  A layer that was built when a patch was complete goes
\* to the kernel with operands the kernel handles, whichever way vLLM bound
\* its method, and operands that the kernel cannot handle go to stock vLLM.
RightEnd ==
  \A e \in ended :
    /\ e.in = Kernel => /\ e.operands.cuda /\ e.operands.stride = 1
                        /\ e.operands.dtype \in {"fp16", "bf16"}
                        /\ e.operands.wlen = e.operands.n
    /\ e.layer \in late /\ Fits(e.operands) => e.in = Kernel

\* Every call ends: the methods that names have captured from each other never
\* form a circle, in which a call that no kernel takes would go round.
CallsEnd == \A l \in Layers : call[l] # None ~> call[l] = None

\* Once a name has replaced the methods, the methods of the class stay
\* replaced, and what a name has captured stays what it is.
KeepsPatch ==
  \A n \in Names :
    patched[n] => /\ patched'[n] /\ orig'[n] = orig[n]
                  /\ native' \in Names /\ cuda' \in Names

\* No step of any thread undoes a finished patch or captures once more.
StaysActive == [][KeepsPatch]_vars

-----------------------------------------------------------------------------
(* The inductive invariant.                                                *)

\* What the stages of apply_patch have done.
Stages ==
  \A n \in Names :
    /\ step[n] \in {"new", "capture"} => orig[n] = None /\ ~patched[n]
    /\ step[n] \in {"native", "cuda", "flag"} => orig[n] # None /\ ~patched[n]
    /\ step[n] \in {"cuda", "flag"} => native \in Names
    /\ step[n] = "flag" => cuda \in Names
    /\ step[n] = "done" => (patched[n] <=> orig[n] # None)
    /\ patched[n] => native \in Names /\ cuda \in Names

\* A method can be reached only when its name has captured its fallback.
Reachable(method) == method \in Names => orig[method] # None

ReachableHaveFallback ==
  /\ Reachable(native) /\ Reachable(cuda)
  /\ \A n \in Names : Reachable(orig[n])
  /\ \A l \in Layers : Reachable(bound[l])
  /\ \A l \in Layers : call[l] # None => Reachable(call[l].at)

\* The invariant of the proofs.
IInv == TypeOK /\ Stages /\ ReachableHaveFallback /\ NoCircle /\ FallbackIsCallable

\* Only a layer that is built runs and has run; one that was built when a patch was complete
\* reaches the methods of the names only, with operands that the kernel handles.
LateServed ==
  /\ \A l \in Layers :
       bound[l] = None => call[l] = None /\ \A e \in ended : e.layer # l
  /\ \A l \in late :
       /\ \E n \in Names : patched[n]
       /\ bound[l] \in Names \cup {ForwardHip}
       /\ call[l] # None /\ Fits(call[l].operands) => call[l].at \in Names \cup {ForwardHip}

\* RightEnd is inductive together with it.
EndInv == IInv /\ LateServed /\ RightEnd
=============================================================================

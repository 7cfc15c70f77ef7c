---------------------------- MODULE DecodeCensus ----------------------------
(***************************************************************************)
(* What the decode step of the server is taken to be by the tools: the     *)
(* census of gates/probe_sk2.py, which records the calls of                *)
(* awq_gemm_triton with one row during one generate, and the two scripts   *)
(* of profiling/ that cut decode steps out of a trace of kernels,          *)
(* step_topology.py by counting and analyze_r12b.py by time.               *)
(*                                                                         *)
(* The engine is external.  A generate is one forward over the prompt and  *)
(* then one forward of one row for each further token: the first token     *)
(* comes out of the prompt's.  A forward makes four quantised products a   *)
(* layer, and one more when lm_head is quantised, always with one row.     *)
(***************************************************************************)
EXTENDS Integers, Sequences, FiniteSetsExt, SweepGrid

CONSTANTS
  Models,      \* records: layers, every (how often full attention comes), lmHead
               \* (whether it is quantised), norm (how long a norm takes)
  Prompts,     \* numbers of tokens
  Forwards,    \* bound on the forwards of a trace
  Stalls,      \* times that the tracer stops between two forwards
  KernelTime, Gap, LmHeadTime

\* An fp16 lm_head takes longer than the margin of 1 ms.
ASSUME DecodeCensusAssumption ==
  /\ Prompts \subseteq Nat \ {0} /\ Stalls \subseteq Nat /\ Forwards \in Nat
  /\ KernelTime \in Nat /\ Gap \in Nat /\ LmHeadTime \in Nat
  /\ KernelTime + 1000 < LmHeadTime
  /\ \A m \in Models : m.norm \in Nat /\ m.norm >= KernelTime

VARIABLES
  model, prompt,
  tool,        \* "census" or "trace"
  phase,
  forwards,    \* forwards of the generate that is running
  log,         \* LOG: the calls with one row
  seq,         \* SEQ: what is taken for one token's calls
  trace,       \* ev: the kernels traced, with their forward and start
  cut          \* the events that a profiling script took out of the trace

censusVars == <<model, prompt, tool, phase, forwards, log, seq, trace, cut>>

\* The model that the tools were written for.  A norm is one launch, or the ten or so of
\* the server before it had a norm of its own, which the traces were taken on.
Intended(time) == [layers |-> 32, every |-> 4, lmHead |-> FALSE, norm |-> time]

NTOK == 16   \* and max_tokens of the generates

Front(s, n) == SubSeq(s, 1, n)

-----------------------------------------------------------------------------
(* The engine.                                                             *)

RowsIn(n) == IF n = 0 THEN prompt ELSE 1

\* The four shapes of a layer, full attention or linear.
LayerCalls(i) ==
  << IF i % model.every = model.every - 1 THEN <<10240, 2560>> ELSE <<12288, 2560>>,
     <<2560, 4096>>, <<18432, 2560>>, <<2560, 9216>> >>

\* The calls of one forward, in order.
BodyCalls == [c \in 1 .. 4 * model.layers |-> LayerCalls((c - 1) \div 4)[((c - 1) % 4) + 1]]
HeadCalls == IF model.lmHead THEN << <<248320, 2560>> >> ELSE <<>>
StepCalls == BodyCalls \o HeadCalls

-----------------------------------------------------------------------------
(* The census.                                                             *)

\* rec: calls with one row are kept.
Logged(n) == IF RowsIn(n) = 1 THEN StepCalls ELSE HeadCalls

Forward ==
  /\ tool = "census" /\ phase \in {"warmup", "generate"} /\ forwards < NTOK
  /\ log' = log \o Logged(forwards)
  /\ forwards' = forwards + 1
  /\ UNCHANGED <<model, prompt, tool, phase, seq, trace, cut>>

\* LOG.clear() after the warmup.
\* Mutant: forgotten.
ClearForgotten ==
  /\ phase = "warmup" /\ forwards = NTOK
  /\ phase' = "generate" /\ forwards' = 0
  /\ UNCHANGED <<model, prompt, tool, log, seq, trace, cut>>

Clear ==
  /\ phase = "warmup" /\ forwards = NTOK
  /\ log' = <<>>
  /\ phase' = "generate" /\ forwards' = 0
  /\ UNCHANGED <<model, prompt, tool, seq, trace, cut>>

\* The two asserts, and then the last NTOKth part of the log.
Divide ==
  /\ phase = "generate" /\ forwards = NTOK
  /\ IF log # <<>> /\ Len(log) % NTOK = 0
     THEN /\ phase' = "divided"
          /\ seq' = SubSeq(log, Len(log) - Len(log) \div NTOK + 1, Len(log))
     ELSE phase' = "failed" /\ UNCHANGED seq
  /\ UNCHANGED <<model, prompt, tool, forwards, log, trace, cut>>

-----------------------------------------------------------------------------
(* The trace.  A layer has its norm, its mixer and its activation between  *)
(* its products.  "norm" stands for all the launches of a norm, from the   *)
(* first of them to the end of the last; the others are one kernel.        *)

Product(rows) == IF rows = 1 THEN <<"splitk", "reduce">> ELSE <<"gemm", "sum">>

LayerKernels(rows) ==
  LET p == Product(rows) IN
  <<"norm", p[1], p[2], "mixer", p[1], p[2], "norm", p[1], p[2], "act", p[1], p[2]>>

BodyKernels(rows) ==
  LET layer == LayerKernels(rows) IN
  [i \in 1 .. 12 * model.layers |-> layer[((i - 1) % 12) + 1]]

HeadKernels == IF model.lmHead THEN Product(1) ELSE <<"lm_head">>

StepKernels(rows) ==
  <<"embed">> \o BodyKernels(rows) \o <<"norm">> \o HeadKernels \o <<"argmax">>

\* lm_head takes long where it is fp16.
Duration(name) ==
  CASE name = "lm_head" -> LmHeadTime
    [] name = "norm" -> model.norm
    [] OTHER -> KernelTime

Longer(name) == Duration(name) - KernelTime

\* How many of some places are before the i-th.
Earlier(places, i) == Cardinality({p \in places : p < i})

\* The time from the start of a forward to its i-th kernel: one after the other.
Elapsed(names, i) ==
  LET Of(name) == {p \in DOMAIN names : names[p] = name} IN
  (i - 1) * (KernelTime + Gap)
    + Longer("norm") * Earlier(Of("norm"), i) + Longer("lm_head") * Earlier(Of("lm_head"), i)

\* The kernels of one more forward, after a stall of the tracer: ev, sorted by ts.
TraceForward(stall) ==
  /\ tool = "trace" /\ phase = "tracing" /\ forwards < Forwards
  /\ LET names == StepKernels(RowsIn(forwards))
         start == IF trace = <<>> THEN 0 ELSE trace[Len(trace)].ts + KernelTime + Gap IN
     trace' = trace \o
       [i \in 1 .. Len(names) |->
          [name |-> names[i], step |-> forwards + 1, ts |-> start + stall + Elapsed(names, i)]]
  /\ forwards' = forwards + 1
  /\ UNCHANGED <<model, prompt, tool, phase, log, seq, cut>>

\* Where a kernel was launched, and the place of the n-th launch, counted from 0.
Launches(name) == {k \in DOMAIN trace : trace[k].name = name}
Nth(n, places) == CHOOSE k \in places : Cardinality({q \in places : q < k}) = n

\* step_topology.py: the steps begin at every 128th GEMV, and a middle one is taken;
\* with fewer than three beginnings there is no such step, an IndexError.
\* Mutant: with the calls per token of the census.
CutByCount120 ==
  /\ tool = "trace" /\ phase = "tracing" /\ forwards > 0
  /\ LET gemvs == Launches("splitk")
         starts == (Cardinality(gemvs) + 119) \div 120
         k == starts \div 2 IN
     IF k + 1 < starts
     THEN /\ cut' = Nth(120 * k, gemvs) .. Nth(120 * (k + 1), gemvs) - 1
          /\ phase' = "counted"
     ELSE phase' = "failed" /\ UNCHANGED cut
  /\ UNCHANGED <<model, prompt, tool, forwards, log, seq, trace>>

CutByCount ==
  /\ tool = "trace" /\ phase = "tracing" /\ forwards > 0
  /\ LET gemvs == Launches("splitk")
         starts == (Cardinality(gemvs) + 127) \div 128
         k == starts \div 2 IN
     IF k + 1 < starts
     THEN /\ cut' = Nth(128 * k, gemvs) .. Nth(128 * (k + 1), gemvs) - 1
          /\ phase' = "counted"
     ELSE phase' = "failed" /\ UNCHANGED cut
  /\ UNCHANGED <<model, prompt, tool, forwards, log, seq, trace>>

\* analyze_r12b.py: the decode region begins 1 ms after the last GEMM, or after the
\* first kernel.
\* Mutant: after the first.
LastGemmFirst ==
  LET gemms == Launches("gemm") IN
  IF gemms = {} THEN trace[1].ts ELSE Min({trace[k].ts + Duration("gemm") : k \in gemms})

LastGemm ==
  LET gemms == Launches("gemm") IN
  IF gemms = {} THEN trace[1].ts ELSE Max({trace[k].ts + Duration("gemm") : k \in gemms})

CutByTime ==
  /\ tool = "trace" /\ phase = "tracing" /\ forwards > 0
  /\ \E end \in {LastGemm} :
       cut' = {k \in DOMAIN trace : trace[k].ts > end + 1000}
  /\ phase' = "timed"
  /\ UNCHANGED <<model, prompt, tool, forwards, log, seq, trace>>

-----------------------------------------------------------------------------

CensusInit ==
  /\ model \in Models /\ prompt \in Prompts
  /\ \/ tool = "census" /\ phase = "warmup"
     \/ tool = "trace" /\ phase = "tracing"
  /\ forwards = 0
  /\ log = <<>> /\ seq = <<>> /\ trace = <<>> /\ cut = {}

CensusNext ==
  \/ Forward \/ Clear \/ Divide
  \/ \E stall \in Stalls : TraceForward(stall)
  \/ CutByCount \/ CutByTime

CensusSpec == CensusInit /\ [][CensusNext]_censusVars

-----------------------------------------------------------------------------
(* Properties.                                                             *)

\* The tools' own model, asked with a prompt of more than one token.
AsIntended == model = Intended(model.norm) /\ prompt > 1

\* What is taken for the calls of a token is the end of one decode step, in order,
\* without a call of the prompt, of the warmup or of another step, and the asserts of
\* the census pass (probe_sk2.py:54-65).
SeqWithinStep ==
  AsIntended /\ tool = "census" =>
    /\ phase # "failed"
    /\ phase = "divided" =>
         \E first \in 1 .. Len(StepCalls) : seq = SubSeq(StepCalls, first, Len(StepCalls))

\* "one token's exact live call sequence, in order" (probe_sk2.py:65).
SeqIsOneStep == AsIntended /\ phase = "divided" => seq = StepCalls

\* Counting cuts exactly one decode step out of the trace, from its first GEMV to the
\* kernels before the next one, wherever the tracer stalls (step_topology.py:14-15),
\* and finds one when there are three.
CutIsOneStep ==
  AsIntended /\ tool = "trace" =>
    /\ phase = "failed" => forwards < 4
    /\ phase = "counted" =>
         LET first == Min(cut)
             step == StepKernels(1)
             lead == (CHOOSE p \in DOMAIN step :
                        step[p] = "splitk" /\ \A q \in 1 .. p - 1 : step[q] # "splitk") - 1 IN
         [k \in 1 .. Cardinality(cut) |-> trace[first + k - 1].name]
           = SubSeq(step, lead + 1, Len(step)) \o Front(step, lead)

\* The region after the last GEMM has every kernel of every decode step, whatever a norm
\* takes: lm_head alone takes longer than the margin of 1 ms.  It has nothing from before
\* that GEMM, and its GEMVs are 128 for each decode step (analyze_r12b.py:5-7, 33-34).
RegionIsDecode ==
  AsIntended /\ phase = "timed" =>
    /\ \A k \in DOMAIN trace : trace[k].step > 1 => k \in cut
    /\ \A k \in cut, g \in Launches("gemm") : g < k
    /\ Cardinality(cut \cap Launches("splitk")) = 128 * (forwards - 1)
=============================================================================

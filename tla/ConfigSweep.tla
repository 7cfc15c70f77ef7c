---------------------------- MODULE ConfigSweep ----------------------------
(***************************************************************************)
(* The sweeps that choose the tables of awq_gemm_triton: for each shape,   *)
(* and for each number of rows, the fastest candidate of a grid that       *)
(* computes the product, and then what the winners save per token.         *)
(*   "m128"  sweep_m128_r16.py: a launch that raises or is wrong is passed *)
(*           over, and only then is a candidate timed;                     *)
(*   "m16"   sweep_m16_r18.py: every candidate is timed, an error ends the *)
(*           script, and only the winner is compared with the reference;   *)
(*   "sk2"   probe_sk2.py: as "m128", with the live configuration as a     *)
(*           candidate that the projection is made against.                *)
(* Triton, which may refuse to build a candidate, and the clock are        *)
(* external.  A candidate is right when each row of the weights meets the  *)
(* scales of its own group.  The order of the candidates, which decides    *)
(* between equal times only, is left open.                                 *)
(***************************************************************************)
EXTENDS AwqLoops, Sequences, Functions, SweepGrid

CONSTANTS
  Trials,      \* the candidates that are looked at: a bound on the grids
  Times,       \* what the clock can show
  SweptShapes, \* the shapes, in order
  SweptRows,   \* the numbers of rows of "m16", in order
  SweptGroups  \* group sizes of the model that is mounted at /model

ASSUME ConfigSweepAssumption ==
  /\ Times \subseteq Nat \ {0}
  /\ SweptShapes \in Seq(DOMAIN Counts) /\ SweptShapes # <<>>
  /\ SweptRows \in Seq(DOMAIN RowsM16) /\ SweptRows # <<>>
  /\ SweptGroups \subseteq Nat \ {0}

VARIABLES
  script,      \* which of the three
  group,       \* the group size, read off the captured tensors
  job,         \* the shape and rows at hand, as an index of Jobs
  left,        \* its candidates that are not tried yet
  best,        \* the fastest so far and its time, or NoBest
  timed,       \* history: the candidates of this job that were timed
  live,        \* "sk2": the time of the live configuration, or 0
  results,     \* job -> its winner
  total,       \* rows -> time per token over the shapes; 0 -> with LiveConfig
  stage

sweepVars == <<script, group, job, left, best, timed, live, results, total, stage>>

NoBest == [cfg |-> [BM |-> 0, BN |-> 0, BK |-> 0, W |-> 0, S |-> 0, SK |-> 0], us |-> 0]
LiveConfig == [BM |-> 1, BN |-> 64, BK |-> 32, W |-> 2, S |-> 3, SK |-> 16]

\* Rows are the inner loop of "m16"; the others have one number of rows.
RowsOf(sc) == IF sc = "m16" THEN SweptRows ELSE IF sc = "m128" THEN <<128>> ELSE <<1>>
JobCount == Len(SweptShapes) * Len(RowsOf(script))
JobShape(j) == SweptShapes[(j - 1) \div Len(RowsOf(script)) + 1]
JobRows(j) == RowsOf(script)[((j - 1) % Len(RowsOf(script))) + 1]
JobK(j) == JobShape(j)[2]

Candidates(sc, j) ==
  {c \in Trials :
     CASE sc = "m128" -> TriedM128(c, JobK(j))
       [] sc = "m16" -> TriedM16(c, JobRows(j), JobK(j))
       [] sc = "sk2" -> TriedSk2(c, JobK(j), group)}

\* matmul_close, and the test of rel in probe_sk2.py.  The rows of the tile and N
\* do not enter, so one row and one column stand for all.
Right(c, j) ==
  OnceInOwnGroup([kernel |-> IF script = "sk2" THEN "splitk" ELSE "gemm",
                  M |-> 1, N |-> 1, K |-> JobK(j), G |-> group,
                  BM |-> c.BM, BN |-> c.BN, BK |-> c.BK, SK |-> c.SK])

-----------------------------------------------------------------------------
(* The candidates of a job.                                                *)

\* The winner so far stays on a tie.
Better(c, us) == IF best = NoBest \/ us < best.us THEN [cfg |-> c, us |-> us] ELSE best

\* Mutant: as sweep_m16_r18.py has it, time first and compare later.
EligibleUnseen(c) == TRUE

\* Whether a candidate is compared before it is timed, and is wrong.
Eligible(c) == script = "m16" \/ Right(c, job)

\* A candidate is launched, compared where the script does that, and timed.
Try(c) ==
  /\ stage = "sweeping" /\ c \in left
  /\ left' = left \ {c}
  /\ IF Eligible(c)
     THEN \E us \in Times :
            /\ best' = Better(c, us)
            /\ timed' = timed \cup {[cfg |-> c, us |-> us]}
            /\ live' = IF script = "sk2" /\ c = LiveConfig THEN us ELSE live
     ELSE UNCHANGED <<best, timed, live>>
  /\ UNCHANGED <<script, group, job, results, total, stage>>

\* Triton refuses: passed over, or the end of "m16".
Refuse(c) ==
  /\ stage = "sweeping" /\ c \in left
  /\ left' = left \ {c}
  /\ stage' = IF script = "m16" THEN "failed" ELSE stage
  /\ UNCHANGED <<script, group, job, best, timed, live, results, total>>

\* The winner is recorded with what is known of it.
Winner ==
  [cfg |-> best.cfg, us |-> best.us, ok |-> script # "m16" \/ Right(best.cfg, job)]

\* In "m16" the winner is unpacked at once, which raises where there is none.
Record ==
  /\ stage = "sweeping" /\ left = {}
  /\ results' = IF best = NoBest THEN results
                ELSE [j \in DOMAIN results \cup {job} |->
                        IF j = job THEN Winner ELSE results[j]]
  /\ stage' = IF script = "m16" /\ best = NoBest THEN "failed"
              ELSE IF script = "sk2" THEN "projecting" ELSE "recorded"
  /\ UNCHANGED <<script, group, job, left, best, timed, live, total>>

\* A launch outside of the trials fails, which ends the script: of the reference or the
\* stock tile before a shape is swept in "m128" and "sk2", of the live path before the
\* sweep in "m16", of its winner or the stock tile before that winner is recorded, and
\* of the stock tile while the times are added up.
StockFails ==
  /\ \/ stage = "sweeping" /\ (script # "m16" \/ job = 1) /\ left = Candidates(script, job)
     \/ stage = "sweeping" /\ script = "m16" /\ left = {} /\ best # NoBest
     \/ stage = "adding"
  /\ stage' = "failed"
  /\ UNCHANGED <<script, group, job, left, best, timed, live, results, total>>

\* Of "sk2": a missing live row is a NaN, which the sums and min keep.  Its counts come
\* from its own census, for which Counts stands here (see DecodeCensus).
NaN == -1
Plus(a, b) == IF a = NaN \/ b = NaN THEN NaN ELSE a + b
LiveTime == IF live = 0 THEN NaN ELSE live * Counts[JobShape(job)]
BestTime == IF live = 0 THEN NaN ELSE best.us * Counts[JobShape(job)]

Project ==
  /\ stage = "projecting"
  /\ total' = IF best = NoBest THEN total
              ELSE [total EXCEPT ![1] = Plus(@, BestTime), ![0] = Plus(@, LiveTime)]
  /\ stage' = "recorded"
  /\ UNCHANGED <<script, group, job, left, best, timed, live, results>>

\* The next shape or number of rows; after the last one the winners are added up.
\* Mutant: the best of the job before is kept.
NextJobBestKept ==
  /\ stage = "recorded"
  /\ IF job < JobCount
     THEN /\ job' = job + 1 /\ left' = Candidates(script, job + 1)
          /\ stage' = "sweeping"
          /\ timed' = {} /\ live' = 0
          /\ UNCHANGED best
     ELSE /\ stage' = IF script = "sk2" THEN "done" ELSE "adding"
          /\ job' = 1
          /\ UNCHANGED <<left, best, timed, live>>
  /\ UNCHANGED <<script, group, results, total>>

NextJob ==
  /\ stage = "recorded"
  /\ IF job < JobCount
     THEN /\ job' = job + 1 /\ left' = Candidates(script, job + 1)
          /\ stage' = "sweeping"
          /\ timed' = {} /\ live' = 0
          /\ best' = NoBest
     ELSE /\ stage' = IF script = "sk2" THEN "done" ELSE "adding"
          /\ job' = 1
          /\ UNCHANGED <<left, best, timed, live>>
  /\ UNCHANGED <<script, group, results, total>>

-----------------------------------------------------------------------------
(* The times per token of "m128" and "m16".                                *)

\* Mutant: a shape without a winner is passed over.
AddPresent ==
  /\ stage = "adding"
  /\ total' = IF job \in DOMAIN results
              THEN [total EXCEPT ![JobRows(job)] = @ + results[job].us * Counts[JobShape(job)]]
              ELSE total
  /\ job' = IF job < JobCount THEN job + 1 ELSE job
  /\ stage' = IF job < JobCount THEN "adding" ELSE "done"
  /\ UNCHANGED <<script, group, left, best, timed, live, results>>

\* A shape with no winner is a KeyError.
Add ==
  /\ stage = "adding"
  /\ IF job \in DOMAIN results
     THEN /\ total' = [total EXCEPT ![JobRows(job)] = @ + results[job].us * Counts[JobShape(job)]]
          /\ job' = IF job < JobCount THEN job + 1 ELSE job
          /\ stage' = IF job < JobCount THEN "adding" ELSE "done"
     ELSE stage' = "failed" /\ UNCHANGED <<total, job>>
  /\ UNCHANGED <<script, group, left, best, timed, live, results>>

SweepInit ==
  /\ script \in {"m128", "m16", "sk2"}
  /\ group \in SweptGroups
  /\ job = 1 /\ left = Candidates(script, 1)
  /\ best = NoBest /\ timed = {} /\ live = 0
  /\ results = <<>>
  /\ total = [r \in {8, 16, 32, 128, 1, 0} |-> 0]
  /\ stage = "sweeping"

SweepNext ==
  \/ \E c \in left : Try(c) \/ Refuse(c)
  \/ Record \/ StockFails \/ Project \/ NextJob \/ Add

SweepSpec == SweepInit /\ [][SweepNext]_sweepVars

-----------------------------------------------------------------------------
(* Properties.                                                             *)

\* A winner was timed in its own job, and nothing that was timed in it is faster
\* (sweep_m16_r18.py:216-221, sweep_m128_r16.py:172-204, probe_sk2.py:196-218).
WinnerIsBest ==
  stage \in {"projecting", "recorded"} /\ job \in DOMAIN results =>
    /\ [cfg |-> results[job].cfg, us |-> results[job].us] \in timed
    /\ \A t \in timed : results[job].us <= t.us

\* A winner multiplies every row with the scales of its own group, or is marked as
\* not passing; the sweep that compares only its winners marks none when the model
\* has groups of 128 rows (sweep_m16_r18.py:222-232).
WinnerIsExact ==
  stage \in {"projecting", "recorded"} /\ job \in DOMAIN results =>
    /\ results[job].ok => Right(results[job].cfg, job)
    /\ group = 128 => results[job].ok

JobsOf(rows) == {j \in 1 .. JobCount : JobRows(j) = rows}

\* What each winner adds to a time per token.
WinnerTimes == [j \in DOMAIN results |-> results[j].us * Counts[JobShape(j)]]

\* A time per token that a sweep ends with counts every shape once, with its own
\* winner; the projection of probe_sk2.py leaves out the shapes for which nothing
\* ran, is no number where the live configuration did not, and saves nothing below
\* zero (sweep_m128_r16.py:227-232, sweep_m16_r18.py:236-237, probe_sk2.py:226-233).
TotalsWhole ==
  stage = "done" =>
    \A i \in DOMAIN RowsOf(script) :
      LET r == RowsOf(script)[i] IN
      /\ script # "sk2" => JobsOf(r) \subseteq DOMAIN results
      /\ total[r] # NaN =>
           total[r] = SumFunctionOnSet(WinnerTimes, JobsOf(r) \cap DOMAIN results)
      /\ script = "sk2" => total[r] <= total[0]

-----------------------------------------------------------------------------
(* The inductive invariant.                                                *)

SweepType ==
  /\ script \in {"m128", "m16", "sk2"} /\ group \in SweptGroups
  /\ job \in 1 .. JobCount
  /\ stage \in {"sweeping", "projecting", "recorded", "adding", "done", "failed"}
  /\ stage = "projecting" => script = "sk2"
  /\ stage = "adding" => script # "sk2"
  /\ DOMAIN results \subseteq 1 .. JobCount
  /\ \A j \in DOMAIN results : results[j].us \in Nat
  /\ total \in [{8, 16, 32, 128, 1, 0} -> Nat \cup {NaN}]
  /\ script # "sk2" => \A r \in DOMAIN total : total[r] # NaN

\* The job at hand: the winner so far is a fastest of those that were timed, and all
\* of those passed what is asked before timing.
TrialInv ==
  stage \in {"sweeping", "projecting", "recorded"} =>
    /\ left \subseteq Candidates(script, job)
    /\ timed \subseteq [cfg : Candidates(script, job), us : Times]
    /\ \A t \in timed : Eligible(t.cfg) /\ best.us <= t.us
    /\ IF timed = {} THEN best = NoBest ELSE best \in timed
    /\ live # 0 => script = "sk2" /\ [cfg |-> LiveConfig, us |-> live] \in timed

\* The jobs before it have a winner or none, and only then this one.
RecordInv ==
  /\ stage = "sweeping" => DOMAIN results \subseteq 1 .. job - 1
  /\ stage \in {"projecting", "recorded"} =>
       /\ left = {}
       /\ DOMAIN results \subseteq 1 .. job
       /\ job \in DOMAIN results <=> best # NoBest
       /\ job \in DOMAIN results => results[job] = Winner
  /\ stage = "adding" => 1 .. job - 1 \subseteq DOMAIN results
  /\ stage = "done" /\ script # "sk2" => 1 .. JobCount \subseteq DOMAIN results

\* The jobs whose winners are in total already.
Added ==
  CASE stage = "done" -> 1 .. JobCount
    [] stage = "adding" -> 1 .. job - 1
    [] script = "sk2" /\ stage = "recorded" -> 1 .. job
    [] script = "sk2" /\ stage \in {"sweeping", "projecting"} -> 1 .. job - 1
    [] OTHER -> {}

Summed(r) == JobsOf(r) \cap DOMAIN results \cap Added

TotalInv ==
  stage # "failed" =>
    /\ \A i \in DOMAIN RowsOf(script) :
         LET r == RowsOf(script)[i] IN
         total[r] # NaN => total[r] = SumFunctionOnSet(WinnerTimes, Summed(r))
    /\ script = "sk2" =>
         /\ total[1] = NaN <=> total[0] = NaN
         /\ total[1] <= total[0]

SweepInv == SweepType /\ TrialInv /\ RecordInv /\ TotalInv
=============================================================================

----------------------------- MODULE MCMeasure -----------------------------
(* The measuring tools for TLC: the sweeps of ConfigSweep, and the census  *)
(* and the cuts of DecodeCensus.  In a behaviour one of them runs.         *)
EXTENDS ConfigSweep, DecodeCensus

VARIABLE kind   \* "sweep" or "step"

-----------------------------------------------------------------------------
(* The sweeps.                                                             *)

\* Two shapes with K on both sides of 4096.
MCShapes == <<<<10240, 2560>>, <<2560, 4096>>>>

MCRows == <<8, 16>>

\* Of each grid two or three candidates: blocks of 32, 64 and 128 rows, the winners
\* of the tables among them, and the live configuration of "sk2".
MCTrials ==
  {[BM |-> 64, BN |-> 128, BK |-> 32, W |-> 8, S |-> 2, SK |-> 4],
   [BM |-> 64, BN |-> 128, BK |-> 128, W |-> 8, S |-> 2, SK |-> 8],
   [BM |-> 16, BN |-> 128, BK |-> 32, W |-> 8, S |-> 2, SK |-> 4],
   [BM |-> 16, BN |-> 128, BK |-> 64, W |-> 8, S |-> 3, SK |-> 1],
   [BM |-> 1, BN |-> 64, BK |-> 32, W |-> 2, S |-> 3, SK |-> 16],
   [BM |-> 1, BN |-> 128, BK |-> 32, W |-> 4, S |-> 3, SK |-> 4],
   [BM |-> 1, BN |-> 128, BK |-> 64, W |-> 2, S |-> 3, SK |-> 16]}

-----------------------------------------------------------------------------
(* The census and the traces.                                              *)

\* A norm of one launch, and of thirteen.
OneLaunch == 20
Chain == 13 * 80 - 60

\* The model as it was, and with the quantised lm_head of v1.1.0.
MCModels ==
  {Intended(OneLaunch), Intended(Chain), [Intended(OneLaunch) EXCEPT !.lmHead = TRUE]}

-----------------------------------------------------------------------------
(* One of them.                                                            *)

allVars == <<kind, sweepVars, censusVars>>

None == <<>>

\* The other one is idle.
MeasureInit ==
  \/ /\ kind = "sweep" /\ SweepInit
     /\ model = Intended(OneLaunch) /\ prompt = 0 /\ tool = "none" /\ phase = "idle" /\ forwards = 0
     /\ log = None /\ seq = None /\ trace = None /\ cut = {}
  \/ /\ kind = "step" /\ CensusInit
     /\ script = None /\ group = None /\ job = None /\ left = None /\ best = None
     /\ timed = None /\ live = None /\ results = None /\ total = None /\ stage = "idle"

MeasureNext ==
  \/ kind = "sweep" /\ SweepNext /\ UNCHANGED <<kind, censusVars>>
  \/ kind = "step" /\ CensusNext /\ UNCHANGED <<kind, sweepVars>>

MeasureSpec == MeasureInit /\ [][MeasureNext]_allVars
=============================================================================

--------------------------- MODULE MCPagedDecode ---------------------------
(* Small instances of PagedDecode for TLC.                                 *)
EXTENDS PagedDecode

FarBelow == -100
LowerThanAll == -1000
NoWeight == -50

\* One sequence, or two; the table is as wide as the longest sequence needs and
\* names the blocks out of order; block 0 is nobody's.
Rows3 == <<<<3, 1, 5>>, <<2, 6, 4>>>>
Two(l1, l2) == <<[len |-> l1, row |-> Rows3[1]], [len |-> l2, row |-> Rows3[2]]>>

\* Scores that rise, fall, and have their peak in the middle.
ScoreShapes == {[t \in 0 .. 5 |-> t], [t \in 0 .. 5 |-> 5 - t],
                [t \in 0 .. 5 |-> IF t = 2 THEN 4 ELSE t % 2]}

Plain(start, seqs, phys, window, sink, score) ==
  [start |-> start, seqs |-> seqs, phys |-> phys, window |-> window, sink |-> sink, score |-> score,
   maxSeqLen |-> 6, kvHeads |-> 1, perKv |-> 1, padded |-> 2,
   custom |-> FALSE, native |-> TRUE, knownType |-> TRUE]

\* Decodes and prefills side by side, padding behind them, blocks that tiles
\* divide, straddle or are cut from.
MixedBatches ==
  {Plain(<<0, x[1], x[1] + x[3]>>, Two(x[2], x[4]), phys, window, sink, score) :
     x \in {<<1, 6, 1, 3>>, <<1, 5, 1, 1>>, <<2, 4, 1, 6>>, <<1, 6, 3, 5>>,
            <<1, 4, 0, 0>>, <<2, 6, 0, 0>>, <<0, 0, 0, 0>>},
     phys \in {2, 3, 4, 5}, window \in {0, 1, 3}, sink \in {NoSink, 0, 7},
     score \in ScoreShapes}

\* A table with no entry to spare, so that the last tile looks past its row.
NarrowBatches ==
  {Plain(<<0, 1, 2>>, <<[len |-> l, row |-> <<3>>], [len |-> 5, row |-> <<2>>]>>,
         5, 0, NoSink, score) : l \in {1, 4, 5}, score \in ScoreShapes}

\* Several heads to a program, and programs to a sequence.
HeadBatches ==
  {[b EXCEPT !.kvHeads = 2, !.perKv = k, !.padded = 4] :
     b \in {Plain(<<0, 1>>, <<[len |-> l, row |-> Rows3[1]]>>, 3, 0, NoSink, score) :
              l \in {2, 5}, score \in ScoreShapes},
     k \in {1, 3}}

\* The choice of the decode kernel, and what makes the wrapper raise.
ChoiceBatches ==
  {[b EXCEPT !.custom = c, !.native = n, !.knownType = k] :
     b \in {Plain(<<0, x[1], x[1] + x[3]>>, Two(x[2], x[4]), phys, 0, NoSink, [t \in 0 .. 5 |-> t]) :
              x \in {<<1, 6, 1, 3>>, <<2, 4, 1, 6>>}, phys \in {2, 3, 8}},
     c \in BOOLEAN, n \in BOOLEAN, k \in BOOLEAN}

AllBatches == MixedBatches \cup NarrowBatches \cup HeadBatches \cup ChoiceBatches
=============================================================================

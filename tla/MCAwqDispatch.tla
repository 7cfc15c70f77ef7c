--------------------------- MODULE MCAwqDispatch ---------------------------
(* The calls of AwqDispatch that TLC goes through.                         *)
EXTENDS AwqDispatch

\* Both sides of every limit on M, and the largest batch that is deployed.
AllRowCounts == {1, 2, 7, 8, 9, 16, 17, 31, 32, 33, 128, 2048}

\* The shapes of the tables, and shapes no table knows on both sides of
\* N = 4096 and of K = 4096, some with K \div 16 no multiple of 32
\* and one with K no multiple of 64.
AllShapes ==
  {<<18432, 2560>>, <<12288, 2560>>, <<10240, 2560>>, <<2560, 9216>>,
   <<2560, 4096>>, <<9216, 2560>>, <<8192, 2560>>, <<4096, 2560>>, <<1024, 2560>>,
   <<1024, 1280>>, <<1024, 1360>>, <<4096, 1408>>, <<2048, 4224>>,
   <<5120, 5120>>, <<2560, 640>>}
=============================================================================

------------------------------ MODULE MCSplitK ------------------------------
(* Small instances of SplitK for TLC.                                      *)
EXTENDS SplitKInv

CONSTANTS dev0, dev1, a1, a2, a3

\* Keys that differ in one component: two splits, as (2560, 9216) at split 16 and
\* a narrower default would, two widths, two devices.
Small == <<1, 1, dev0>>
MCKeys == {Small, <<1, 2, dev0>>, <<2, 1, dev0>>, <<1, 1, dev1>>}

VARIABLE used   \* the keys of a behaviour: the small one and one more

allVars == <<vars, used>>

\* MaxCalls calls of two splits; two calls of two widths or of two devices, and on
\* two devices none captured.
Bounded ==
  /\ \A c \in DOMAIN asked : asked[c] \in used
  /\ \A g \in graphs : g.key \in used
  /\ <<1, 2, dev0>> \notin used => Len(asked) <= 2
  /\ <<1, 1, dev1>> \in used => graphs = {}

MCInit == Init /\ \E k \in MCKeys \ {Small} : used = {Small, k}
MCNext == Next /\ UNCHANGED used /\ Bounded'
MCSpec == MCInit /\ [][MCNext]_allVars /\ Fairness
=============================================================================

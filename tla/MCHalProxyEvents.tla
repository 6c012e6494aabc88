------------------------- MODULE MCHalProxyEvents -------------------------
(* A queue of one, so that a batch of two is split by the direct write when  *)
(* the queue is empty and written in two turns when it is not; room for      *)
(* two pending events, so that a batch is dropped; two sub-HALs.           *)
EXTENDS HalProxyEvents, TLC

\* The sub-HALs' threads are interchangeable.
SubHalSymmetry == Permutations(SubHals)

\* What a sub-HAL posts, the filtered event of the pick-up sensor included.
BatchesDef == {<<"plain">>, <<"wake">>, <<"wake", "wake">>, <<"wake", "still">>, <<"still">>}
=============================================================================

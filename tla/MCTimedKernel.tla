---------------------------- MODULE MCTimedKernel ----------------------------
(* Three workers requested, of which one or two may fail to start; two rounds, *)
(* the warm-up and one measured repeat.                                        *)
EXTENDS TimedKernel

MCKernelOps == {"loop"}
MCKernelSizes == {1, 2, 3}
MCNone == {}
=============================================================================

--------------------------- MODULE MCKernelProbes ---------------------------
(* KernelProbes for TLC: threads, processes, requests, sectors and the     *)
(* limiter's CPUs are model values, and each set is symmetric, as no       *)
(* definition orders or names its members.                                 *)
EXTENDS KernelProbes, TLC

MCSymmetry ==
  Permutations(Tids) \cup Permutations(Tgids) \cup Permutations(Reqs)
    \cup Permutations(Sectors) \cup Permutations(RlCPUs)
=============================================================================

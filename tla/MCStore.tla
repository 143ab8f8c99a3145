------------------------------ MODULE MCStore ------------------------------
(* Two VMs and two series, each the sum over up to two devices. *)
EXTENDS Store, TLC

MCSnap == [Series -> {<<>>, <<1>>, <<1, 2>>}]
MCEmpty == [s \in Series |-> <<>>]
MCTotal == [d \in MCSnap |-> [s \in Series |-> CASE Len(d[s]) = 0 -> 0
                                               [] Len(d[s]) = 1 -> d[s][1]
                                               [] OTHER -> d[s][1] + d[s][2]]]
MCSymmetry == Permutations(IDs)
=============================================================================

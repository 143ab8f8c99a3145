---------------------------- MODULE MCProbeLoad ----------------------------
(* Probes in the order of probeDefs: a feature with two probes, one with a *)
(* BTF program, one that is disabled, and a feature listed out of order.   *)
EXTENDS ProbeLoad

MCDef(f, btf, off) == [feature |-> f, btf |-> btf, disabled |-> off]
MCFeatures == <<"kvm", "runqueue", "block", "oom">>
MCDefs ==
  <<MCDef("runqueue", TRUE, FALSE), MCDef("kvm", FALSE, FALSE), MCDef("oom", FALSE, TRUE),
    MCDef("kvm", FALSE, FALSE), MCDef("block", FALSE, FALSE)>>
=============================================================================

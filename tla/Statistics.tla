----------------------------- MODULE Statistics -----------------------------
(***************************************************************************)
(* The figures of a VM, from their sources to the store: the counters of   *)
(* the BPF programs (Counters), the devices that libvirt lists             *)
(* (LibvirtStats) and the threads of its vCPUs (VcpuThreads).  The three   *)
(* fill different fields of a Domain from different sources, and no step   *)
(* of one reads what another writes, so it is enough to let the steps of   *)
(* one part happen in a behaviour.                                         *)
(***************************************************************************)
EXTENDS Counters, LibvirtStats, VcpuThreads

ASSUME StatisticsAssumption == CountersAssumption /\ DevicesAssumption /\ ThreadsAssumption

VARIABLE part  \* the part whose steps happen

vars == <<part, counters, devices, vcpuThreads>>

(* What is left open for a part at the start matters only where it runs. *)
Init ==
  /\ part \in {"counters", "devices", "threads"}
  /\ CountersInit /\ DevicesInit /\ ThreadsInit
  /\ part # "counters" => kind = CHOOSE k \in Kinds : TRUE
  /\ part # "threads" => source = "scan"

Next ==
  \/ part = "counters" /\ CountersNext /\ UNCHANGED <<part, devices, vcpuThreads>>
  \/ part = "devices" /\ DevicesNext /\ UNCHANGED <<part, counters, vcpuThreads>>
  \/ part = "threads" /\ ThreadsNext /\ UNCHANGED <<part, counters, devices>>

Spec == Init /\ [][Next]_vars
-----------------------------------------------------------------------------
(* A rate is never negative and never stands for more than happened since  *)
(* its counter was last sampled, however the counter was deleted, made     *)
(* anew, left over or taken for zero in between (rateTracker, as used by   *)
(* EBPFCollector and LibvirtCollector; see Counters and LibvirtStats).     *)
RatesTrue == NoPhantom /\ NoPhantomBytes
=============================================================================

---------------------------- MODULE MCKernelLog ----------------------------
(* Small instances of KernelLog: what a message says, and the processes. *)
EXTENDS KernelLog

MCMessage(kind, vm, thread, prio) == [kind |-> kind, vm |-> vm, thread |-> thread, prio |-> prio]

\* One message of every kind; levels on both sides of the limits 2 and 4,
\* facility 0 (kernel) and 1 (user space).
MCAll ==
  {MCMessage("task", v, "worker", 4) : v \in VMs}
    \cup {MCMessage("crash", v, t, 6) : v \in VMs, t \in {"vcpu", "worker"}}
    \cup {MCMessage("kvm", v, "vcpu", p) : v \in VMs, p \in {4, 5}}
    \cup {MCMessage("noise", Host, "main", 3), MCMessage("plain", Host, "main", 3),
          MCMessage("plain", Host, "main", 11), MCMessage("other", Host, "main", 2),
          MCMessage("other", Host, "main", 3), MCMessage("garbled", Host, "main", 0)}

\* Only fills the buffer: enough for RecordsRead.
MCPlain == {MCMessage("plain", Host, "main", 3)}
=============================================================================

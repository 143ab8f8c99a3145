----------------------------- MODULE ProbeLoad -----------------------------
(***************************************************************************)
(* probe.Load and Probes.Close (internal/probe/probe.go): the layouts of   *)
(* the tracepoints are resolved, the shared maps created, and every        *)
(* program loaded and attached on its own; what cannot be had is noted in  *)
(* the status and left out.  Each call into the kernel may fail.           *)
(*                                                                         *)
(* open holds the kernel objects the process holds: the maps, the reader,  *)
(* and the program and link of a probe; held those that the Probes has in  *)
(* its fields, which is all that Close knows of.                           *)
(***************************************************************************)
EXTENDS Naturals, Sequences

CONSTANTS
  Defs,        \* probeDefs: sequence of [feature, btf, disabled]
  AllFeatures  \* the features in the order of the status view

VARIABLES
  pc,       \* the part of Load, or what became of it
  at,       \* the probe a loop is at
  plan,     \* the probes to load
  status,   \* p.status
  open,     \* open kernel objects
  held,     \* p.coll, p.progs, p.links and p.reader
  verdict   \* history: what happened to each probe

vars == <<pc, at, plan, status, open, held, verdict>>

States == {"attached", "disabled", "unavailable", "failed"}
DefIds == 1 .. Len(Defs)
Status(d, s) == [def |-> d, state |-> s]
Objects == {<<"maps", 0>>, <<"reader", 0>>} \cup ({"prog", "link"} \X DefIds)

(* Type correctness: Load keeps at most one status per probe and opens     *)
(* only objects of probes it knows.                                        *)
TypeOK ==
  /\ pc \in {"memlock", "resolve", "load", "attach", "ready", "error", "closed"}
  /\ at \in 1 .. Len(Defs) + 1
  /\ plan \in Seq(DefIds) /\ Len(plan) <= Len(Defs)
  /\ status \in Seq([def : DefIds, state : States]) /\ Len(status) <= Len(Defs)
  /\ open \subseteq Objects /\ held \subseteq Objects
  /\ verdict \in [DefIds -> States \cup {"none"}]

Init ==
  /\ pc = "memlock" /\ at = 1 /\ plan = <<>> /\ status = <<>> /\ open = {} /\ held = {}
  /\ verdict = [d \in DefIds |-> "none"]

(* rlimit.RemoveMemlock, LoadHyperview. *)
Memlock ==
  /\ pc = "memlock" /\ pc' \in {"resolve", "error"}
  /\ UNCHANGED <<at, plan, status, open, held, verdict>>

Note(d, s) ==
  /\ status' = Append(status, Status(d, s))
  /\ verdict' = [verdict EXCEPT ![d] = s]

(* resolveFields fails when the tracepoint or a field that is not optional *)
(* is missing or has another size; a BTF program has no fields to resolve. *)
Unresolvable(d) == ~Defs[d].btf

(* classify: what the error of a load or of an attach says. *)
Classify == {"unavailable", "failed"}

(* One turn of the loop that resolves layouts. *)
Resolve ==
  /\ pc = "resolve" /\ at <= Len(Defs) /\ at' = at + 1
  /\ \/ Defs[at].disabled /\ Note(at, "disabled") /\ plan' = plan
     \/ ~Defs[at].disabled /\ Unresolvable(at) /\ Note(at, "unavailable") /\ plan' = plan
     \/ ~Defs[at].disabled /\ plan' = Append(plan, at) /\ UNCHANGED <<status, verdict>>
  /\ UNCHANGED <<pc, open, held>>

(* The new objects os are open, and in the Probes. *)
Keep(os) == open' = open \cup os /\ held' = held \cup os

(* The shared maps are created, or Load returns with nothing to close. *)
Maps ==
  /\ pc = "resolve" /\ at = Len(Defs) + 1
  /\ \/ pc' = "load" /\ Keep({<<"maps", 0>>}) /\ at' = 1
     \/ pc' = "error" /\ UNCHANGED <<open, held, at>>
  /\ UNCHANGED <<plan, status, verdict>>

(* One turn of the loop that loads: loadProgram loads the program, or else *)
(* its fallback, against the shared maps, and the caller alone has it;     *)
(* classify names the failure.                                             *)
LoadProgram ==
  /\ pc = "load" /\ at <= Len(plan)
  /\ \/ open' = open \cup {<<"prog", plan[at]>>} /\ pc' = "attach" /\ UNCHANGED <<at, status, verdict>>
     \/ \E s \in Classify : Note(plan[at], s) /\ at' = at + 1 /\ UNCHANGED <<pc, open>>
  /\ UNCHANGED <<plan, held>>

(* The rest of the turn: the program and its link go into the lists, or a  *)
(* program that cannot be attached is closed.                              *)
Attach ==
  /\ pc = "attach" /\ pc' = "load" /\ at' = at + 1
  /\ \/ Keep({<<"prog", plan[at]>>, <<"link", plan[at]>>}) /\ Note(plan[at], "attached")
     \/ /\ \E s \in Classify : Note(plan[at], s)
        /\ open' = open \ {<<"prog", plan[at]>>} /\ held' = held
  /\ UNCHANGED plan

Links == {o \in held : o[1] = "link"}

(* Probes.Close: what the Probes has is closed and forgotten. *)
Release == open' = open \ held /\ held' = {}

(* Load gives up when nothing is attached. *)
NoneAttached ==
  /\ pc = "load" /\ at = Len(plan) + 1 /\ Links = {}
  /\ pc' = "error" /\ Release
  /\ UNCHANGED <<at, plan, status, verdict>>

(* SortStableFunc by the place of the feature in AllFeatures. *)
Sorted(s) ==
  LET upTo[k \in 0 .. Len(AllFeatures)] ==
        IF k = 0 THEN << >>
        ELSE upTo[k - 1] \o SelectSeq(s, LAMBDA x : Defs[x.def].feature = AllFeatures[k])
  IN  upTo[Len(AllFeatures)]

(* The reader of the ring buffer is opened, readEvents started and the     *)
(* status put in order; or everything is closed again.                     *)
OpenReader ==
  /\ pc = "load" /\ at = Len(plan) + 1 /\ Links # {}
  /\ \/ pc' = "ready" /\ Keep({<<"reader", 0>>}) /\ status' = Sorted(status)
     \/ pc' = "error" /\ Release /\ status' = status
  /\ UNCHANGED <<at, plan, verdict>>

Close ==
  /\ pc = "ready" /\ pc' = "closed" /\ Release
  /\ UNCHANGED <<at, plan, status, verdict>>

Next == Memlock \/ Resolve \/ Maps \/ LoadProgram \/ Attach \/ NoneAttached \/ OpenReader \/ Close

Spec == Init /\ [][Next]_vars

(* EBPFCollector.Status: nothing when Load returned an error. *)
Shown == IF pc = "ready" THEN status ELSE <<>>
-----------------------------------------------------------------------------
(* Wherever Load fails, and after Close, the process holds no program, no  *)
(* link, no map and no reader: whatever a call opened was in the Probes,   *)
(* or was closed by the call itself.                                       *)
NothingLeaks == pc \in {"error", "closed"} => open = {}

(* When Load succeeds the status lists every probe once, by feature, with  *)
(* what happened to it, and exactly the attached ones hold a program and a *)
(* link: one probe's failure costs no other probe.                         *)
StatusExact ==
  pc = "ready" =>
    /\ \A d \in DefIds : \E i \in DOMAIN status : status[i] = Status(d, verdict[d])
    /\ Len(status) = Len(Defs)
    /\ \A d \in DefIds : {o \in open : o[2] = d} =
         IF verdict[d] = "attached" THEN {<<"prog", d>>, <<"link", d>>} ELSE {}
    /\ \A i, j \in DOMAIN status : \A k, l \in DOMAIN AllFeatures :
         i < j /\ Defs[status[i].def].feature = AllFeatures[k] /\ Defs[status[j].def].feature = AllFeatures[l]
           => k <= l

(* README.md:47: the status view lists every probe and why it is inactive. *)
StatusListed ==
  pc \in {"ready", "error"} /\ (\A d \in DefIds : verdict[d] # "none") => Len(Shown) = Len(Defs)
=============================================================================

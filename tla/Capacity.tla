------------------------------ MODULE Capacity ------------------------------
(***************************************************************************)
(* What a worker of a Linode plan offers to pods, as predicted before it   *)
(* registers: capacity, reservations and eviction thresholds               *)
(* (pkg/providers/instancetype/types.go), and how reported capacity        *)
(* replaces the prediction (UpdateInstanceTypeCapacityFromNode).           *)
(*                                                                         *)
(* Memory and storage are in Mi, CPU in thousandths.  The code rounds a    *)
(* percentage up to a byte; here it is rounded up to the unit.             *)
(*                                                                         *)
(* A map of the NodeClass that is not set is the empty function: the code  *)
(* treats nil and empty alike.                                             *)
(***************************************************************************)
EXTENDS Integers

CONSTANTS
    VMMemoryOverhead,   \* VM_MEMORY_OVERHEAD_PERCENT, in thousandths
    None

ASSUME CapacityAssumption ==
    /\ VMMemoryOverhead \in 0..1000
    /\ None \notin Nat

(* The resources whose reported quantity replaces the prediction.          *)
Resources == {"memory", "storage"}

Kinds == Resources \cup {"cpu"}

(* A row of ListTypes. *)
PlanRecords == [vcpus: Nat, memory: Nat, disk: Nat, price: Nat]

(* A threshold: a percentage of the capacity, or a quantity. *)
Thresholds == [percent: BOOLEAN, value: Nat]

FileSystems == {"nodefs", "imagefs"}

(* A function from some elements of D to R. *)
IsPartial(f, D, R) == DOMAIN f \subseteq D /\ f \in [DOMAIN f -> R]

(* Reported capacity, which may lack a resource. *)
IsReport(f) == IsPartial(f, Resources, Nat)

IsKubelet(k) ==
    /\ k = [maxPods |-> k.maxPods, podsPerCore |-> k.podsPerCore,
            kubeReserved |-> k.kubeReserved, systemReserved |-> k.systemReserved,
            evictionHard |-> k.evictionHard, evictionSoft |-> k.evictionSoft]
    /\ k.maxPods \in Nat \cup {None} /\ k.podsPerCore \in Nat
    /\ \A f \in {k.kubeReserved, k.systemReserved} : IsPartial(f, Kinds, Nat)
    /\ \A f \in {k.evictionHard, k.evictionSoft} :
         IsPartial(f, FileSystems \cup {"memory"}, Thresholds)

-----------------------------------------------------------------------------

Least(a, b) == IF a < b THEN a ELSE b

CeilDiv(a, b) == (a + b - 1) \div b

(* lo.Assign: the second map wins. *)
Assign(f, g) ==
    [x \in DOMAIN f \cup DOMAIN g |-> IF x \in DOMAIN g THEN g[x] ELSE f[x]]

(* The strictest of some thresholds; without any nothing is reserved.      *)
Strictest(S) == IF S = {} THEN 0 ELSE CHOOSE x \in S : \A y \in S : y <= x

Pods(plan, k) ==
    LET most == IF k.maxPods = None THEN 110 ELSE k.maxPods IN
    IF k.podsPerCore > 0 THEN Least(k.podsPerCore * plan.vcpus, most) ELSE most

(* computeCapacity *)
Predicted(plan) ==
    [memory |-> plan.memory - CeilDiv(plan.memory * VMMemoryOverhead, 1000),
     storage |-> plan.disk,
     cpu |-> 1000 * plan.vcpus]

(* The part of the CPU in one range, of which a share (in ten thousandths) *)
(* is reserved.                                                            *)
ReservedShare(cpu, from, to, share) ==
    IF cpu < from THEN 0 ELSE ((Least(cpu, to) - from) * share) \div 10000

(* The last range of the code ends at 2^31, beyond TLC's integers; no plan *)
(* comes near the end used here.                                           *)
KubeReservedCPU(cpu) ==
    ReservedShare(cpu, 0, 1000, 600) + ReservedShare(cpu, 1000, 2000, 100)
      + ReservedShare(cpu, 2000, 4000, 50) + ReservedShare(cpu, 4000, 4000000, 25)

KubeReserved(plan, k) ==
    Assign([cpu |-> KubeReservedCPU(1000 * plan.vcpus),
            memory |-> 11 * Pods(plan, k) + 255,
            storage |-> 1024],
           k.kubeReserved)

(* computeEvictionSignal: 100% disables a threshold. *)
EvictionSignal(capacity, s) ==
    IF ~s.percent THEN s.value
    ELSE IF s.value = 100 THEN 0
    ELSE CeilDiv(capacity * s.value, 100)

Signalled(capacity, signals, names) ==
    {EvictionSignal(capacity, signals[s]) : s \in names \cap DOMAIN signals}

Percent(n) == [percent |-> TRUE, value |-> n]

DefaultStorageSignals == [nodefs |-> Percent(10), imagefs |-> Percent(15)]

(* The thresholds of evictionHard and evictionSoft for some signals. *)
Configured(capacity, k, names) ==
    Signalled(capacity, k.evictionHard, names) \cup Signalled(capacity, k.evictionSoft, names)

(* evictionThreshold, computed from the predicted capacity: any memory     *)
(* signal replaces the 100 Mi, a non-empty evictionHard replaces the       *)
(* default filesystem signals, and the strictest one counts.               *)
EvictionThreshold(plan, k) ==
    LET memory == Configured(Predicted(plan).memory, k, {"memory"})
        storage == Configured(plan.disk, k, FileSystems) IN
    [memory |-> IF memory = {} THEN 100 ELSE Strictest(memory),
     storage |-> Strictest(storage \cup
                   IF DOMAIN k.evictionHard = {}
                   THEN Signalled(plan.disk, DefaultStorageSignals, FileSystems) ELSE {}),
     cpu |-> 0]

(* NewInstanceType's Overhead, summed up by Karpenter's core. *)
Overhead(plan, k) ==
    LET reserved == KubeReserved(plan, k)
        system == Assign([r \in Kinds |-> 0], k.systemReserved)
        eviction == EvictionThreshold(plan, k) IN
    [r \in Kinds |-> reserved[r] + system[r] + eviction[r]]

(* DefaultProvider.get: what a worker reported replaces the prediction.    *)
Discounted(plan, report) == Assign(Predicted(plan), report)

(* Mutant: the latest report counts. *)
LatestReport(cached, report) == Assign(cached, report)

(* A first report of a resource counts, a later one only if it is lower.   *)
Lowered(cached, report) ==
    Assign(cached, [r \in {x \in DOMAIN report :
                             x \in DOMAIN cached => report[x] <= cached[x]} |-> report[r]])

=============================================================================

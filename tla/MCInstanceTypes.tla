-------------------------- MODULE MCInstanceTypes --------------------------
(* Small instances of InstanceTypes for TLC. *)
EXTENDS InstanceTypes

CONSTANTS t1, t2, a, b, n1, n2, r1

(* Two shared plans, and a sale that makes the larger one the cheaper.      *)
Small(price) == [vcpus |-> 2, memory |-> 4096, disk |-> 81920, price |-> price]
Large(price) == [vcpus |-> 4, memory |-> 8192, disk |-> 163840, price |-> price]

Regular == [t \in Plans |-> IF t = t1 THEN Small(3) ELSE Large(6)]
Sale    == [t \in Plans |-> IF t = t1 THEN Small(3) ELSE Large(2)]

TwoCatalogues == {Regular, Sale}

Unset == [r \in {} |-> 0]

Plain ==
    [maxPods |-> None, podsPerCore |-> 0, kubeReserved |-> Unset, systemReserved |-> Unset,
     evictionHard |-> Unset, evictionSoft |-> Unset]

(* Fewer pods, more for the system, eviction thresholds of every kind.      *)
Tuned ==
    [Plain EXCEPT !.maxPods = 50, !.podsPerCore = 10,
                  !.systemReserved = [x \in {"memory"} |-> 600],
                  !.evictionHard = [x \in {"memory", "imagefs"} |-> Percent(IF x = "memory" THEN 5 ELSE 100)],
                  !.evictionSoft = [x \in {"nodefs"} |-> Percent(20)]]

TwoSettings == {Plain, Tuned}
OneEdited == [c \in Classes |-> IF c = a THEN TwoSettings ELSE {Plain}]

(* Both workers are of the small plan and of different NodeClasses; the     *)
(* second one reports the same memory and more storage.                     *)
AllSmall == [n \in Nodes |-> t1]
OwnClass == [n \in Nodes |-> IF n = n1 THEN a ELSE b]
TwoReports ==
    [n \in Nodes |-> IF n = n1 THEN [memory |-> 3700, storage |-> 78000] ELSE [memory |-> 3700, storage |-> 79000]]

(* A request that fits the predicted small plan, but not the reported one.  *)
Edge == [memory |-> 2150, storage |-> 10000, cpu |-> 1500]

OneRequest == {Edge}

=============================================================================

---------------------------- MODULE InstanceTypes ----------------------------
(***************************************************************************)
(* What a plan is taken to offer, and how launches choose by it: the       *)
(* instance type provider (pkg/providers/instancetype/instancetype.go)     *)
(* with its caches, the controllers providers.instancetype (refreshes the  *)
(* plans) and providers.instancetype.capacity (learns the capacity of      *)
(* registered workers), and the choice of the cheapest type that fits      *)
(* (FilterInstanceTypes and CheapestInstanceType in pkg/utils).            *)
(*                                                                         *)
(* One action is one access to a shared cache.  Calls of List run          *)
(* concurrently under the read locks; the refreshes take the write locks,  *)
(* so each is one action that runs when no List does; the capacity         *)
(* controller takes no lock and has one worker.                            *)
(*                                                                         *)
(* The keys of both caches contain a hash of NodeClass.Status.LinodeImages,*)
(* which nothing outside the tests ever sets: it is left out.  Left out    *)
(* too: availability and the sequence numbers, which the module Offerings  *)
(* has (here an offering is dropped at any time), the requirements of a    *)
(* type, GPU devices, metrics.                                             *)
(***************************************************************************)
EXTENDS Capacity, FiniteSets

CONSTANTS
    Plans,        \* IDs of Linode plans
    Catalogues,   \* what ListTypes may return, functions from plans
    FirstPlans,   \* what it returns at first
    Classes,      \* NodeClasses
    Settings,     \* kubelet configurations
    SettingsOf,   \* those that a NodeClass may have
    Nodes,        \* workers
    PlanOf,       \* the plan of a worker
    ClassOf,      \* its NodeClass
    ReportOf,     \* the capacity it reports when it registers
    Callers,      \* concurrent launches
    Requests,     \* resources a NodeClaim asks for
    MaxEvents     \* bound: changes of plans and settings, restarts, expirations, misses

ASSUME InstanceTypesAssumption ==
    /\ FirstPlans \in Catalogues
    /\ \A cat \in Catalogues :
         /\ DOMAIN cat \subseteq Plans /\ DOMAIN cat # {}
         /\ cat \in [DOMAIN cat -> PlanRecords]
    /\ \A k \in Settings : IsKubelet(k)
    /\ SettingsOf \in [Classes -> SUBSET Settings]
    /\ PlanOf \in [Nodes -> Plans]
    /\ ClassOf \in [Nodes -> Classes]
    /\ DOMAIN ReportOf = Nodes /\ \A n \in Nodes : IsReport(ReportOf[n])
    /\ Requests \subseteq [Kinds -> Nat]
    /\ MaxEvents \in Nat

VARIABLES
    plans,       \* Linode's plans
    kubelet,     \* the kubelet configuration of each NodeClass
    node,        \* workers: "new", "registered" or "gone"
    (* the provider *)
    info,        \* instanceTypesInfo
    types,       \* instanceTypesCache
    discovered,  \* discoveredCapacityCache, the empty report when not found
    offer,       \* the price in the cached offerings of a plan, None without
    (* the capacity controller *)
    queue,       \* workers to reconcile
    update,      \* its running UpdateInstanceTypeCapacityFromNode, NoUpdate if none
    (* launches *)
    call,        \* the running launch of a caller, None if none
    events,      \* events left
    (* ghosts *)
    observed,    \* workers whose report is in an entry of discovered
    lapsed,      \* workers whose report was in one that expired
    missed,      \* workers whose event found no NodeClaim
    doubt        \* keys that an update of discovered has passed by

world    == <<plans, kubelet, node>>
provider == <<info, types, discovered, offer>>
ghosts   == <<observed, lapsed, missed, doubt>>
vars     == <<world, provider, queue, update, call, events, ghosts>>

(* Mutant: the key is the NodeClass alone. *)
CacheKeyName(c, k) == <<c, CHOOSE s \in SettingsOf[c] : TRUE>>

(* cacheKey and CacheKey: the NodeClass's name and its kubelet hash. *)
CacheKey(c, k) == <<c, k>>

Keys == {key \in Classes \X Settings : key[2] \in SettingsOf[key[1]]}

(* What Resolve reserves, for every plan and kubelet configuration there is. *)
Overheads ==
    [p \in UNION {{cat[t] : t \in DOMAIN cat} : cat \in Catalogues}, k \in Settings |-> Overhead(p, k)]

NoReport == [r \in {} |-> 0]

(* An instance type: what it was made from, and its capacity. *)
InstanceTypeRecords ==
    [plan: PlanRecords, kubelet: Settings, capacity: [Kinds -> Int]]

(* What List returns: types of some plans. *)
IsTypeList(list) == IsPartial(list, Plans, InstanceTypeRecords)

Steps == {"lookup", "build", "inject", "done"}

NoUpdate == [step |-> "none"]

(* Mutant: the kubelet configuration is another NodeClass's. *)
NewCallOther(c, q) ==
    [step |-> "lookup", class |-> c, kubelet |-> kubelet[CHOOSE d \in Classes : d # c],
     request |-> q, list |-> NoReport, pick |-> None]

NewCall(c, q) ==
    [step |-> "lookup", class |-> c, kubelet |-> kubelet[c], request |-> q,
     list |-> NoReport, pick |-> None]

(* The operator fills instanceTypesInfo before any controller starts.      *)
Init ==
    /\ plans = FirstPlans /\ info = plans
    /\ kubelet \in {k \in [Classes -> Settings] : \A c \in Classes : k[c] \in SettingsOf[c]}
    /\ node \in [Nodes -> {"new", "registered"}]
    /\ queue = {n \in Nodes : node[n] = "registered"}
    /\ types = [k \in Keys |-> None]
    /\ discovered = [t \in Plans |-> NoReport]
    /\ offer = [t \in Plans |-> None]
    /\ update = NoUpdate
    /\ call = [r \in Callers |-> None]
    /\ events = MaxEvents
    /\ observed = {} /\ lapsed = {} /\ missed = {} /\ doubt = {}

Event == events > 0 /\ events' = events - 1

-----------------------------------------------------------------------------
(* Linode, the NodeClasses and the workers *)

ChangePlans(cat) ==
    /\ plans # cat /\ plans' = cat /\ Event
    /\ UNCHANGED <<kubelet, node, provider, queue, update, call, ghosts>>

ChangeKubelet(c, k) ==
    /\ kubelet[c] # k /\ k \in SettingsOf[c] /\ kubelet' = [kubelet EXCEPT ![c] = k] /\ Event
    /\ UNCHANGED <<plans, node, provider, queue, update, call, ghosts>>

(* The update event of a node that becomes registered. *)
Register(n) ==
    /\ node[n] = "new"
    /\ node' = [node EXCEPT ![n] = "registered"]
    /\ queue' = queue \cup {n}
    /\ UNCHANGED <<plans, kubelet, provider, update, call, events, ghosts>>

(* A node that is gone is not reconciled any more. *)
Remove(n) ==
    /\ node[n] = "registered"
    /\ node' = [node EXCEPT ![n] = "gone"] /\ Event
    /\ queue' = queue \ {n}
    /\ UNCHANGED <<plans, kubelet, provider, update, call, ghosts>>

(* Mutant: only nodes that become registered are reconciled. *)
RestartUnhydrated ==
    /\ Event
    /\ info' = plans
    /\ types' = [k \in Keys |-> None]
    /\ discovered' = [t \in Plans |-> NoReport]
    /\ offer' = [t \in Plans |-> None]
    /\ queue' = {} /\ update' = NoUpdate
    /\ call' = [r \in Callers |-> None]
    /\ observed' = {} /\ lapsed' = {} /\ missed' = {} /\ doubt' = {}
    /\ UNCHANGED world

(* The caches are lost; the informer's create events hydrate the           *)
(* discovered capacity from every registered node.                         *)
Restart ==
    /\ Event
    /\ info' = plans
    /\ types' = [k \in Keys |-> None]
    /\ discovered' = [t \in Plans |-> NoReport]
    /\ offer' = [t \in Plans |-> None]
    /\ queue' = {n \in Nodes : node[n] = "registered"} /\ update' = NoUpdate
    /\ call' = [r \in Callers |-> None]
    /\ observed' = {} /\ lapsed' = {} /\ missed' = {} /\ doubt' = {}
    /\ UNCHANGED world

-----------------------------------------------------------------------------
(* The refreshes and the expirations *)

(* A List holds the read locks. *)
Listing(r) == call[r] # None /\ call[r].step \in {"lookup", "build", "inject"}

Unlocked == \A r \in Callers : ~Listing(r)

(* Calls of List that have read a reported capacity for key k. *)
Building(k) ==
    \E r \in Callers :
        /\ Listing(r) /\ call[r].step = "build" /\ call[r].list # NoReport
        /\ CacheKey(call[r].class, call[r].kubelet) = k

(* What becomes of doubt when the entries of some keys are dropped. *)
Cleared(ks) == doubt \ {k \in ks : ~Building(k)}

(* ListTypes under the write lock.  A request that fails changes nothing,  *)
(* and the offerings, with their prices, stay cached.                      *)
UpdateInstanceTypes ==
    /\ Unlocked /\ info # plans
    /\ info' = plans
    /\ types' = [k \in Keys |-> None]
    /\ doubt' = Cleared(Keys)
    /\ UNCHANGED <<world, discovered, offer, queue, update, call, events, observed, lapsed, missed>>

(* The region availability changed. *)
UpdateInstanceTypeOfferings ==
    /\ Unlocked
    /\ types' = [k \in Keys |-> None]
    /\ offer' = [t \in Plans |-> None]
    /\ doubt' = Cleared(Keys)
    /\ UNCHANGED <<world, info, discovered, queue, update, call, events, observed, lapsed, missed>>

(* InstanceTypesZonesAndOfferingsTTL passes for cached types ... *)
TypesExpire(k) ==
    /\ types[k] # None
    /\ types' = [types EXCEPT ![k] = None]
    /\ doubt' = Cleared({k})
    /\ UNCHANGED <<world, info, discovered, offer, queue, update, call, events, observed, lapsed, missed>>

(* Mutant: cached offerings never expire. *)
OfferKept(t) == FALSE /\ UNCHANGED vars

(* ... and for offerings, which a mark or an eviction drops as well. *)
OfferDropped(t) ==
    /\ offer[t] # None
    /\ offer' = [offer EXCEPT ![t] = None]
    /\ UNCHANGED <<world, info, types, discovered, queue, update, call, events, ghosts>>

(* DiscoveredCapacityCacheTTL passes. *)
CapacityExpires(t) ==
    /\ discovered[t] # NoReport /\ Event
    /\ discovered' = [discovered EXCEPT ![t] = NoReport]
    /\ observed' = {n \in observed : PlanOf[n] # t}
    /\ lapsed' = lapsed \cup {n \in observed : PlanOf[n] = t}
    /\ doubt' = doubt \cup {k \in Keys : types[k] # None \/ Building(k)}
    /\ UNCHANGED <<world, info, types, offer, queue, update, call, missed>>

-----------------------------------------------------------------------------
(* The capacity controller *)

(* UpdateInstanceTypeCapacityFromNode reads the NodeClass and the cache.   *)
ReconcileNode(n) ==
    /\ update = NoUpdate /\ n \in queue
    /\ queue' = queue \ {n}
    /\ update' = IF ReportOf[n] = NoReport THEN NoUpdate
                 ELSE [node |-> n, cached |-> discovered[PlanOf[n]], step |-> "set",
                       basis |-> {m \in observed : PlanOf[m] = PlanOf[n]},
                       key |-> CacheKey(ClassOf[n], kubelet[ClassOf[n]])]
    /\ UNCHANGED <<world, provider, call, events, ghosts>>

(* No NodeClaim is found for the node, as its informer lags or it is gone: *)
(* the error is swallowed, and only a restart reconciles the node again.   *)
(* The other errors are retried, and change nothing.                       *)
MissNode(n) ==
    /\ update = NoUpdate /\ n \in queue /\ Event
    /\ queue' = queue \ {n}
    /\ missed' = missed \cup {n}
    /\ UNCHANGED <<world, provider, update, call, observed, lapsed, doubt>>

(* Any quantity that is not above the cached one rewrites the entry.       *)
Refreshes(u) ==
    \E r \in DOMAIN ReportOf[u.node] :
        r \in DOMAIN u.cached => ReportOf[u.node][r] <= u.cached[r]

(* The entry is written without a lock, from what was read before; types   *)
(* made from it are dropped if it differs from what was read.  An entry    *)
(* that expired in between comes back, and types made without it stay.     *)
SetDiscovered ==
    LET t == PlanOf[update.node]
        merged == Lowered(update.cached, ReportOf[update.node]) IN
    /\ update.step = "set"
    /\ IF Refreshes(update)
       THEN /\ discovered' = [discovered EXCEPT ![t] = merged]
            /\ observed' = {n \in observed : PlanOf[n] # t} \cup update.basis \cup {update.node}
            /\ doubt' = IF merged = update.cached /\ discovered[t] # merged
                        THEN doubt \cup {k \in Keys : types[k] # None \/ Building(k)} ELSE doubt
            /\ UNCHANGED lapsed
       ELSE /\ UNCHANGED <<discovered, doubt>>
            /\ IF discovered[t] = NoReport
               THEN lapsed' = lapsed \cup {update.node} /\ UNCHANGED observed
               ELSE observed' = observed \cup {update.node} /\ UNCHANGED lapsed
    /\ update' = IF merged # update.cached THEN [update EXCEPT !.step = "drop"] ELSE NoUpdate
    /\ UNCHANGED <<world, info, types, offer, queue, call, events, missed>>

(* Mutant: the entry is written, the types made from the old one stay.     *)
DropTypesMissing ==
    /\ update.step = "drop" /\ update' = NoUpdate
    /\ UNCHANGED <<world, provider, queue, call, events, ghosts>>

(* Only the types of the worker's own NodeClass are dropped, and a List    *)
(* that is building them is not stopped.                                   *)
DropTypes ==
    /\ update.step = "drop" /\ update' = NoUpdate
    /\ types' = [types EXCEPT ![update.key] = None]
    /\ doubt' = {k \in Keys : Building(k)}
                \cup {k \in (Keys \ {update.key}) : types[k] # None}
                \cup (doubt \ {update.key})
    /\ UNCHANGED <<world, info, discovered, offer, queue, call, events, observed, lapsed, missed>>

-----------------------------------------------------------------------------
(* Launches: GetInstanceTypes, then the choice of a type *)

StartList(r, c, q) ==
    /\ call[r] = None
    /\ call' = [call EXCEPT ![r] = NewCall(c, q)]
    /\ UNCHANGED <<world, provider, queue, update, events, ghosts>>

KeyOf(r) == CacheKey(call[r].class, call[r].kubelet)

Lookup(r) ==
    LET cached == types[KeyOf(r)] IN
    /\ call[r] # None /\ call[r].step = "lookup"
    /\ call' = [call EXCEPT ![r].step = IF cached # None THEN "inject" ELSE "build",
                            ![r].list = IF cached # None THEN cached ELSE @]
    /\ UNCHANGED <<world, provider, queue, update, events, ghosts>>

(* get and Resolve for one plan of instanceTypesInfo.                      *)
Build(r, t) ==
    LET type == [plan |-> info[t], kubelet |-> call[r].kubelet,
                 capacity |-> Discounted(info[t], discovered[t])] IN
    /\ call[r] # None /\ call[r].step = "build"
    /\ t \in DOMAIN info \ DOMAIN call[r].list
    /\ call' = [call EXCEPT ![r].list = [u \in DOMAIN @ \cup {t} |-> IF u = t THEN type ELSE @[u]]]
    /\ UNCHANGED <<world, provider, queue, update, events, ghosts>>

Fill(r) ==
    /\ call[r] # None /\ call[r].step = "build"
    /\ DOMAIN call[r].list = DOMAIN info
    /\ types' = [types EXCEPT ![KeyOf(r)] = call[r].list]
    /\ call' = [call EXCEPT ![r].step = "inject"]
    /\ UNCHANGED <<world, info, discovered, offer, queue, update, events, ghosts>>

Allocatable(type) ==
    [x \in Kinds |-> type.capacity[x] - Overheads[type.plan, type.kubelet][x]]

(* FilterInstanceTypes *)
Fitting(list, q) ==
    {t \in DOMAIN list : LET free == Allocatable(list[t]) IN \A x \in Kinds : q[x] <= free[x]}

(* CheapestInstanceType takes the first of the cheapest types, in the      *)
(* random order of a Go map; without a type the launch ends in an          *)
(* insufficient capacity error.                                            *)
Cheapest(list, q, price) ==
    LET fitting == Fitting(list, q) IN
    IF fitting = {} THEN {None}
    ELSE {t \in fitting : \A u \in fitting : price[t] <= price[u]}

(* The prices in the offerings: cached ones are kept. *)
Priced(list) ==
    [t \in Plans |-> IF t \in DOMAIN list /\ offer[t] = None THEN info[t].price ELSE offer[t]]

(* createOfferings, with the price of the cached offering, if there is one; *)
(* then the read locks are released and the launch picks its type.         *)
Inject(r) ==
    /\ call[r] # None /\ call[r].step = "inject"
    /\ offer' = Priced(call[r].list)
    /\ \E t \in Cheapest(call[r].list, call[r].request, Priced(call[r].list)) :
         call' = [call EXCEPT ![r].step = "done", ![r].list = NoReport, ![r].pick = t]
    /\ UNCHANGED <<world, info, types, discovered, queue, update, events, ghosts>>

EndLaunch(r) ==
    /\ call[r] # None /\ call[r].step = "done"
    /\ call' = [call EXCEPT ![r] = None]
    /\ UNCHANGED <<world, provider, queue, update, events, ghosts>>

-----------------------------------------------------------------------------

ListStep(r) ==
    Lookup(r) \/ (\E t \in Plans : Build(r, t)) \/ Fill(r) \/ Inject(r)

CapacityStep == (\E n \in Nodes : ReconcileNode(n)) \/ SetDiscovered \/ DropTypes

Next ==
    \/ \E cat \in Catalogues : ChangePlans(cat)
    \/ \E c \in Classes, k \in Settings : ChangeKubelet(c, k)
    \/ \E n \in Nodes : Register(n) \/ Remove(n)
    \/ Restart
    \/ UpdateInstanceTypes \/ UpdateInstanceTypeOfferings
    \/ \E k \in Keys : TypesExpire(k)
    \/ \E t \in Plans : OfferDropped(t) \/ CapacityExpires(t)
    \/ CapacityStep
    \/ \E n \in Nodes : MissNode(n)
    \/ \E r \in Callers :
         \/ \E c \in Classes, q \in Requests : StartList(r, c, q)
         \/ ListStep(r) \/ EndLaunch(r)

Spec == Init /\ [][Next]_vars

(* The refresh repeats and waits for the write lock like any writer, which *)
(* a Go RWMutex hands over before later readers (SF); time passes for      *)
(* cached entries; the worker and the launches run.                        *)
FairSpec ==
    /\ Spec
    /\ SF_vars(UpdateInstanceTypes)
    /\ \A k \in Keys : WF_vars(TypesExpire(k))
    /\ \A t \in Plans : WF_vars(OfferDropped(t))
    /\ WF_vars(CapacityStep)
    /\ \A r \in Callers : WF_vars(ListStep(r) \/ EndLaunch(r))

-----------------------------------------------------------------------------
(* Properties *)

CallTypeOK(x) ==
    /\ x = [step |-> x.step, class |-> x.class, kubelet |-> x.kubelet,
            request |-> x.request, list |-> x.list, pick |-> x.pick]
    /\ x.step \in Steps
    /\ CacheKey(x.class, x.kubelet) \in Keys /\ x.request \in Requests
    /\ IsTypeList(x.list)
    /\ x.pick \in Plans \cup {None}

UpdateTypeOK(u) ==
    /\ u = [node |-> u.node, cached |-> u.cached, step |-> u.step,
            basis |-> u.basis, key |-> u.key]
    /\ u.node \in Nodes /\ IsReport(u.cached)
    /\ u.step \in {"set", "drop"} /\ u.basis \subseteq Nodes /\ u.key \in Keys

(* Types of the caches, of the running update and of the launches.         *)
TypeOK ==
    /\ plans \in Catalogues /\ DOMAIN kubelet = Classes /\ \A c \in Classes : kubelet[c] \in SettingsOf[c]
    /\ node \in [Nodes -> {"new", "registered", "gone"}]
    /\ info \in Catalogues
    /\ DOMAIN types = Keys /\ \A k \in Keys : types[k] # None => IsTypeList(types[k])
    /\ DOMAIN discovered = Plans /\ \A t \in Plans : IsReport(discovered[t])
    /\ offer \in [Plans -> Nat \cup {None}]
    /\ queue \subseteq Nodes
    /\ update # NoUpdate => UpdateTypeOK(update)
    /\ DOMAIN call = Callers /\ \A r \in Callers : call[r] # None => CallTypeOK(call[r])
    /\ events \in 0..MaxEvents
    /\ {observed, lapsed, missed} \subseteq SUBSET Nodes /\ doubt \subseteq Keys

(* "The first registered worker replaces the prediction; later observations *)
(* only lower cached capacity": what is cached for a plan is, resource by   *)
(* resource, the least that the workers reported whose reports are in it,   *)
(* also when the entry expires while it is being updated.                   *)
DiscoveredIsLeast ==
    \A t \in Plans :
        LET reports == {ReportOf[n] : n \in {m \in observed : PlanOf[m] = t}} IN
        /\ DOMAIN discovered[t] = UNION {DOMAIN p : p \in reports}
        /\ \A x \in DOMAIN discovered[t] :
             LET quantities == {p[x] : p \in {o \in reports : x \in DOMAIN o}} IN
             /\ discovered[t][x] \in quantities
             /\ \A y \in quantities : discovered[t][x] <= y

(* "Later observations only lower cached capacity", whatever was cached:   *)
(* an entry never grows and never forgets a resource, until it expires or  *)
(* the operator restarts, although it is read and written without a lock.  *)
CapacityOnlyFalls ==
    [][\A t \in Plans : discovered'[t] # NoReport =>
         \A x \in DOMAIN discovered[t] :
           x \in DOMAIN discovered'[t] /\ discovered'[t][x] <= discovered[t][x]]_vars

(* No report is lost: one event per node and no resynchronisation suffice   *)
(* for every registered worker's report to be in the cache, or on its way   *)
(* there, after a restart too, until the entry expires, unless that event   *)
(* found no NodeClaim.                                                      *)
NoReportLost ==
    \A n \in Nodes : node[n] = "registered" /\ ReportOf[n] # NoReport =>
        \/ n \in queue \cup observed \cup lapsed \cup missed
        \/ update # NoUpdate /\ update.node = n

(* What List serves under its read locks was made from the current plans    *)
(* and from the NodeClass it was called with: the flushes and the key cover *)
(* every input of NewInstanceType.                                          *)
ServedFromInputs ==
    \A r \in Callers : call[r] # None /\ call[r].step = "inject" =>
        /\ DOMAIN call[r].list = DOMAIN info
        /\ \A t \in DOMAIN info :
             call[r].list[t].plan = info[t] /\ call[r].list[t].kubelet = call[r].kubelet

(* Cached types have the discovered capacity, but for those of a plan whose *)
(* update is about to drop them, and those that an update or an expiry has  *)
(* passed by: of another NodeClass, of a NodeClass edited back to an        *)
(* earlier configuration, or being built at that moment.                    *)
CachedTypesFresh ==
    \A k \in Keys \ doubt : types[k] # None =>
        \A t \in DOMAIN types[k] :
            \/ types[k][t].capacity = Discounted(types[k][t].plan, discovered[t])
            \/ update.step = "drop" /\ PlanOf[update.node] = t

(* The type a launch should pick, by what is known. *)
Current(c) ==
    [t \in DOMAIN plans |-> [plan |-> plans[t], kubelet |-> kubelet[c],
                             capacity |-> Discounted(plans[t], discovered[t])]]

BestPicks(c, q) == Cheapest(Current(c), q, [t \in DOMAIN plans |-> plans[t].price])

(* However the caches of types, capacity and offerings got out of step:     *)
(* when plans, NodeClasses and workers come to rest, every launch picks a   *)
(* cheapest type, by current prices, that fits by the discovered capacity.  *)
PicksSettle ==
    <>[](\A r \in Callers : call[r] # None /\ call[r].step = "done" =>
            call[r].pick \in BestPicks(call[r].class, call[r].request))

=============================================================================

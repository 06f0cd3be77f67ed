# TLA+ models of karpenter-provider-linode

Karpenter's core decides which nodes a cluster needs and calls a *cloud
provider* to create and delete them. This repository is the cloud provider for
Linode. It runs in two modes: *instance* mode creates Linode instances, *LKE*
mode asks LKE node pools for nodes and *claims* them for NodeClaims by writing
tags. LKE has a Standard and an Enterprise tier, whose APIs differ in what they
show and when.

This directory models the parts of it in which several actors share state:
concurrent `Create` and `Delete` calls, reconcilers, informer caches, in-memory
caches, and the Linode API, whose answers can be lost and whose listings lag;
and the arithmetic by which a plan is taken to fit a pod.
Line numbers refer to the repository at the commit the models were written for;
`PROJECT.json` maps every definition to its lines.

1. [Inventory](#1-inventory)
2. [Modules](#2-modules)
3. [Runs, bounds and fairness](#3-runs-bounds-and-fairness)
4. [Proofs](#4-proofs)
5. [Where the code and its documents differ](#5-where-the-code-and-its-documents-differ)
6. [What is not modelled](#6-what-is-not-modelled)
7. [Plan](#7-plan)

To check: `tlc -workers 2 -config X.cfg M` for a row of the table in section 3,
`tlapm M.tla` for a module of section 4.

## 1. Inventory

### LKE node provider (`pkg/providers/lke/lke.go`)

*State.* One `DefaultProvider`: a keyed mutex (`poolMutex`), two
`BackoffTracker`s (pool keys, deletions), a node cache, and the cache of
unavailable offerings it shares with the offerings. All of it is lost in a
crash. What lasts is in the Linode API: pools, their counts and node lists, the
instances, their tags.

*Operations.* `Create` (188) loops over `attemptCreate` (293) until a deadline:
take the pool lock, look the claim up by its tag, find or create the pool of
the (NodePool, instance type) pair, bring its version up to date, find an
unclaimed node, claim it and verify the tags, otherwise check the plan and
scale the pool by one, release the lock and sleep. `Delete` (714) finds the
pool of an instance, locks, lists again, and deletes the pool or the node.
`Get`, `List`, `CreateTags`, `UpdateTags` read or write tags.

*Hard behaviour.* Creates and deletes of the same pool interleave around the
lock; a claim may come back with another pool key and so another mutex; an
answer may be lost after the request took effect; a crash forgets everything
but the tags; on the Enterprise tier `pool.Linodes` shows a node late; the tag
search may lag behind the write.

*Correct when* a NodeClaim and an instance are in a 1:1 relation whatever is
retried, there is one pool per key, a scale request adds exactly one node,
`Delete` removes its own instance only, `Create` is idempotent, and every call
returns.

### Unavailable offerings and offerings (`pkg/cache`, `pkg/providers/instancetype`)

*State.* A TTL cache of marks per plan and per region with a sequence number
each; a cache of computed offerings with the sequence number they were computed
at; the region availability.

*Operations.* `MarkUnavailable`, eviction callbacks, `createOfferings` in
concurrent `GetInstanceTypes` calls, `UpdateInstanceTypeOfferings`.

*Hard behaviour.* Setting a mark and bumping the number are two steps, storing
offerings and storing their number are two more, and none of the four is under
a lock that excludes the others. Entries expire before they are evicted.

*Correct when* what is marked is not offered, what is no longer marked is
offered again, and a plan that is sold out is never offered.

### Instance types and capacity (`pkg/providers/instancetype`, `pkg/controllers/providers/instancetype`, `pkg/utils`)

*State.* The plans of the last `ListTypes` (`instanceTypesInfo`), the cache of
instance types per NodeClass and kubelet configuration, the discovered capacity
per plan, the prices in cached offerings, each with a TTL of its own; the queue
of the capacity controller. A restart loses all of it.

*Operations.* `List` under read locks, in any number of calls; the refreshes of
plans and of availability under the write locks; `UpdateInstanceTypeCapacityFromNode`,
which takes no lock, when a worker registers; `FilterInstanceTypes` and
`CheapestInstanceType` in a launch. `NewInstanceType` predicts capacity and
reservations; a registered worker's report replaces the prediction and later
ones only lower it.

*Hard behaviour.* The capacity controller reads an entry, decides, writes it and
drops the types made from it, in three steps between which a `List` builds and
stores types, an entry expires or a NodeClass is edited. Only the types of the
worker's own NodeClass are dropped. A worker is reconciled once.

*Correct when* nothing served was made from old plans or another NodeClass, what
is learned is the least that was reported and no report is lost, and picks
settle on a cheapest plan that fits.

### Tag controllers (`pkg/controllers/nodeclass/inplaceupdate`, `pkg/controllers/nodeclaim/tagging`)

*State.* The tag list of an instance, and annotations of the NodeClaim that say
what was applied.

*Hard behaviour.* `inplaceupdate` reads the list, computes, and replaces it as a
whole. `tagging` does so too with LKE; without, `CreateTags` adds one tag per
request. The annotation is written after the tags; the process may stop in
between; the user edits `spec.tags` meanwhile, and `inplaceupdate` applies edits
that validation rejects.

*Correct when* no interleaving costs an instance a tag the provider finds it by,
and the user's and the node's tags get onto the instance.

### Launch, termination, garbage collection (`pkg/cloudprovider`, `pkg/controllers/nodeclaim/garbagecollection`, `pkg/providers/instance`)

*State.* Instances and their tags, NodeClaims and the provider IDs recorded in
them, an informer that lags, and the node providers' caches of instances, from
which `Get` answers for a minute.

*Hard behaviour.* The collector's two listings are no snapshot; `CreateInstance`
is not idempotent; a crash falls between a launch and its record; a node may be
old when it is claimed; a `List` that was answered before a `Delete` puts the
deleted node back into the cache by which core waits for it to disappear.

*Correct when* no instance of a visible NodeClaim is collected, every orphan is,
and no NodeClaim stays in deletion.

### NodeClass: readiness, finalizer, drift (`pkg/controllers/nodeclass`, `pkg/controllers/nodeclass/hash`, `pkg/cloudprovider`)

*State.* The LinodeNodeClass with generation, finalizer, Ready condition and
hash annotations; the annotations of NodeClaims; two informers.

*Operations.* The controller `nodeclass` adds the finalizer, validates and
patches the status with an optimistic lock, and on deletion removes the
finalizer once no NodeClaim is listed. `nodeclass.hash` migrates NodeClaims to
the current hash version and stamps the NodeClass. `CloudProvider.Create` reads
the NodeClass from the cache and refuses it unless Ready is true for the
current generation; it records the hash of the copy it launched with;
`IsDrifted` compares annotations.

*Correct when* no launch uses a spec that validation refuses, a NodeClass
outlives its launches, drift is found where something changed and nowhere else,
and status and drift verdicts settle.

### The rest

Labels and GPU devices of instance types, metrics, options, wiring, SDK
construction and generated code: section 6.

### How they interact

Karpenter's core calls `Create`, `Delete`, `List`, `IsDrifted` and
`GetInstanceTypes` from several goroutines. `Create` reads the NodeClass the
nodeclass controller prepares, chooses among the instance types that fit and
their offerings, and calls the LKE or the instance provider, which marks
offerings unavailable when capacity is missing. The node it gets registers, and
its reported capacity changes what the next launch chooses from. The tag controllers and the collector go through the same provider.
Everything meets in two places: the tags of an instance and the NodeClaim.

## 2. Modules

| Module | Models | State and actions |
| --- | --- | --- |
| `LKEProvider` | `lke.go` | One action per Linode request, lock or sleep of a call. `pools`, `home`, `booted`, `owner` are the API; `unlisted` and `stale` its lags; `lockedBy`, `pc`, locals, `backoff`, `iced` the process. A request may succeed, fail retryably or for good, or take effect and lose its answer (`Faults`). `Crash` resets the process. |
| `ClaimLedger` | its promise | An abstract ledger: instances appear, are assigned once to a claim that holds none, answered, removed. `LKEProvider` implements it (`Ledger`, `ImplementsLedger`). |
| `Capacity` | `types.go`, the merge of reports in `instancetype.go` | Operators only: predicted capacity, pods, reservations, eviction thresholds, `Lowered` (how a report changes a cached one). |
| `InstanceTypes` | `instancetype.go`, its two controllers, `FilterInstanceTypes`, `CheapestInstanceType` | One action per access to a shared cache: a `List` looks up, builds one type at a time, stores, adds prices; an update of the discovered capacity reads, writes, drops. |
| `Offerings` | `unavailableofferings.go`, `offering.go`, `UpdateInstanceTypeOfferings` | One action per access to a shared map, cache or counter. |
| `InstanceTags` | the two tag controllers | One action per request of a reconcile; tag lists are sets with keys; `CreateTags` is LKE's, `CreateTag` that of instance mode. |
| `NodeClaimLifecycle` | launch, termination and the collector | In LKE mode the node provider is the ledger: `ClaimInstance` and `ReturnClaimed` are its `Assign` and `Answer`. In instance mode it is `CreateInstance`. `cached` is the cache of either provider; `Terminate` and `AwaitInstance` are core's two phases of a deletion. |
| `NodeClass` | the two NodeClass controllers, the readiness gate and drift | One action per request. A reconcile's copy is represented by `stale`: a patch with optimistic lock takes effect only if the copy is the current object. |
| `LKEProviderProofs`, `LKESafetyProofs`, `LKEClaimProofs`, `NodeClaimLifecycleProofs`, `NodeClassProofs`, `OfferingsProofs`, `InstanceTagsProofs`, `InstanceTypesProofs` | proofs | Section 4. |
| `MC*` | instances for TLC | Model values, symmetry, small functions. |

The modules are composed by what they share. `NodeClaimLifecycle` uses the
ledger's steps in place of `LKEProvider`, which the refinement (checked and
proved) entitles it to. `InstanceTags` starts where a claim has written the
tags. `NodeClass` abstracts from the instance and keeps which spec it was made
with. `InstanceTypes` extends `Capacity`, and shares with `Offerings` the cache
of offerings: it keeps their prices and drops them at any time, `Offerings` has
their availability and says when.

Mutated forms of some definitions stand before the original under the comment
"Mutant"; no specification uses them. `PROJECT.json` says which property each
of them breaks.

### Notes on abstraction

* `Capacity`: Mi and thousandths of a CPU instead of bytes; a percentage rounds
  up to the unit. `VMMemoryOverhead` is an option, in thousandths.
* `InstanceTypes`: the cache keys also hash `Status.LinodeImages`, which nothing
  outside the tests sets. A refresh is one action because it holds both write
  locks, and every `List` the read locks. The ghosts `observed` and `lapsed` say
  whose reports are, or were until they expired, in the cache; `doubt` holds the
  keys whose cached types an update or an expiry has passed by.
  `NoUpdate` is the capacity controller at rest.
* `LKEProvider`: a pool key is one value; the tag that matters is
  `karpenter.sh/nodeclaim`. Deadlines and delays are choices. A node entry of
  `pool.Linodes` without an instance ID is an instance that is not `booted`.
  `LockOf` maps keys to mutexes, since `KeyMutex` hashes.
* `Offerings`: `seq` is the sum of the two sequence numbers, as `SeqNum`
  returns. The ghosts `iced`, `clear` and `raced` record what was true during a
  call and whether calls overlapped.
* `InstanceTags`: a value of `spec` is the map that both readers of `spec.tags`
  turn it into; a raw list with two values of one key, which instance mode
  sends at the launch as it is, is left out. A tag list that is read becomes
  some map of its keys (`TagListToMap`), since the last value counts and the
  order is the API's. Edits are to any spec, rejected ones included; only the
  launch needs a valid one. A reconcile starts from current objects, which may
  change while it runs. One that starts from an object older than its own last
  patch, and pools that carry user tags of an older spec, can leave former user
  tags behind; both are left out.
* `InstanceTypes`: `MissNode` is the event whose `NodeClaimNotFound` the capacity
  controller swallows (`capacity/controller.go:75-78`); the ghost `missed` names
  its worker. Other errors are retried.
* `NodeClass`: an informer that lags jumps to the newest version when it
  catches up. Which field is wrong does not matter, so `Valid` is a constant
  set; the hash is a constant operator that leaves tags out. The validation
  cache is not a variable because it only ever holds successes and both of its
  branches set the same condition. `Defaulted` is the identity with LKE or an
  image, and fills in the image in instance mode.

## 3. Runs, bounds and fairness

State counts and times are those of two TLC workers.

| Run | Instance | Shows |
| --- | --- | --- |
| `lke_standard` | Standard tier; 2 claims, 1 `Delete`, 2 keys with a mutex and a type each, 3 pools, 2 nodes, all faults; 1.25 M states, 150 s | Types; one instance per claim, returned instances owned, one pool per key, scaling adds one, no claim overwritten, `Delete` takes only its target, `Create` idempotent, and the provider implements `ClaimLedger` |
| `lke_enterprise_delete` | Enterprise; 2 claims, 1 `Delete`, 1 key, 2 pools, 2 nodes, no faults | `DeletesSpareClaimed` is violated (section 5) |
| `lke_returns` | Enterprise; 1 claim, 1 `Delete`, 1 pool and mutex, 2 nodes, 2 versions, retryable faults and lost answers, the tag search and the pool listing lag, fair; 197 k states, 110 s | Every call returns |
| `lke_served` | Enterprise; 2 claims, 1 pool, 2 nodes, 2 versions, no faults, fair, finally no crash; 55 k states | Every claim gets an instance; no claim takes a node of a pool at another version |
| `offerings` | 2 readers, 1 marker, 2 marks or evictions; 1.13 M states | A stale offer needs overlapping calls; no stale refusal; sold out is never offered; offers recover |
| `tags` | both controllers, with and without LKE, 2 values of `spec.tags`, one of them rejected by validation, failures; 6.5 k states, 40 s | The tags of the launch survive and no key gets two tags, unless the user sets that key; user and node tags are applied |
| `tags_first_edit` | LKE, 2 valid values of `spec.tags`, no failures, no node tags | `OldUserTagsRemoved` is violated (section 5) |
| `gc` | 1 NodeClaim, 2 instances, all three deployments, the instance caches; 101 k states, 110 s | Instances whose record was shown before the NodeClaims were listed are spared, orphans collected, claims terminate, unclaimed Enterprise nodes go |
| `gc_launch_race` | Standard tier | `SparesOwned` is violated (section 5) |
| `nodeclass` | 1 claim, 3 specs of which one is invalid, 1 edit, 1 fault or restart; fresh and migrated NodeClass; 1.08 M states, 160 s | Launches are validated, the class outlives launches, drift is change; status, drift and deletion settle |
| `nodeclass_default_image` | instance mode, a NodeClass without an image, no edits | `DriftIsChange` is violated (section 5) |
| `instance_types` | 2 plans, 2 NodeClasses that share them, 1 of them with 2 kubelet configurations, 2 workers of the smaller plan, 1 launch at a time, 1 change, expiry, missed NodeClaim or restart; 228 k states, 85 s | Discovered capacity is the least reported and no report is lost but those whose event found no NodeClaim; nothing served is made from old inputs; cached types have the discovered capacity; picks settle |

**Why the bounds are enough.** Every property of `LKEProvider` relates two
calls, two instances or two pools, or a call and an instance; with two claims
and a deleter each role of a pair can be filled by different actors, with two
keys a claim can change its mutex, and with three pools a lost answer can leave
a pool more than the keys there are. Two nodes in one pool are what the pool
deletion and the claim race need. For `LKEProvider` the theorems of section 4
remove the bounds altogether, and with them the need for a run of its safety
properties on the Enterprise tier: `OnePoolPerKey` and `ScaleAddsOne` are proved
for both tiers. In `lke_served` two claims that want different versions and two
nodes let a claim steal the node the other one asked for, and replace it. In
`Offerings` a race needs two readers and one mark; `MaxSeq = 2` leaves a mark and
its eviction. In `InstanceTags` the two specs share a key, which exercises replacement,
removal and addition; one of them sets keys of the claim and of the node tags
and is rejected, the other one sets the key of a static tag, which is not
restricted. In `NodeClaimLifecycle` one instance is launched and the
other is the orphan of a lost answer or the node nobody claimed; the listing,
the deletion and the cache of one instance are enough for the answer that comes
back late. In `NodeClass` one edit separates two generations and hashes, and the
one fault can fall on any request or be a restart; a second claim is needed only
for partial migration, which `herr` makes observable with one. In
`InstanceTypes` the two workers are of one plan and of different NodeClasses and
report one quantity alike and another one differently, so that updates overlap
with each other, rewrite an entry, leave it alone, or cross an expiry; the
request fits the prediction of the smaller plan and not what is reported; and the
one event is a sale that turns the order of the prices, an edit back and forth,
a node that leaves, an event that finds no NodeClaim, an expiry or a restart. One launch at a time overlaps with
the controllers; two launches share nothing but the caches, which each of them
fills from the same inputs.

`CHECK_DEADLOCK FALSE` appears where the modelled world ends: `gc` when the
finite instances and claims are used up, `nodeclass` when the NodeClass is gone.

**Fairness.**

* `LKEProvider`: goroutines run and requests are answered or time out (weak
  fairness of the steps under the lock); a Go mutex hands over to a waiter that
  starves (strong fairness of taking it); the deadline of the retry loop ends a
  call that keeps retrying (strong fairness of `GiveUp`). `EveryClaimServed`
  further assumes that core calls `Create` again (`lifecycle` requeues), that
  LKE finishes nodes, and that crashes end (`LiveSpec`).
* `Offerings`: calls proceed, the scheduler keeps asking, the janitor runs, the
  TTL of the offering cache passes.
* `InstanceTags`: events and resync start reconciles again and again; a request
  that is retried succeeds at some point (strong fairness, since failures may
  come in between).
* `NodeClaimLifecycle`: the collector is a singleton that requeues itself, and
  its requests do not fail at the same point for ever (strong fairness of its
  middle steps); core retries terminations; delays end and cache entries expire
  after their minute (weak fairness of `CacheExpires`: nothing renews an entry
  before it expires, and a mutant that lets reads renew it breaks
  `ClaimsTerminate`). Users owe nothing.
* `NodeClass`: informers catch up, both reconciles follow events and requeues
  (10 minutes while a deletion waits or a NodeClass is valid), core checks
  drift. Edits, deletions and new claims owe nothing.
* `InstanceTypes`: the refresh repeats and waits for the write lock, which a Go
  `RWMutex` hands over before later readers (strong fairness); TTLs pass for
  types and offerings; the one worker of the capacity controller and the calls
  run. The discovered capacity, a TTL of 60 days, need not expire, and nobody
  needs to change anything.

## 4. Proofs

The theorems hold for arbitrary constants. `LKEProvider`: any number of claims,
delete calls, keys, mutexes, pools and versions, any fault set; assumptions
`ConstantsAssumption` (the functions have their types, `None` and `Gone` are
distinct from the rest) and `InstancesFinite`, since a pool's count is a
cardinality. `NodeClaimLifecycle`: any sets of NodeClaims, instances and
deployments, under `LifecycleAssumption`. `NodeClass`: any claims, specs and
bounds, under `NodeClassAssumption`. `Offerings`: any readers, markers and
marks, under `OfferingsAssumption`. `InstanceTags`: any
tags, keys, specs and node tags, with and without failures, under
`TagsAssumption` (the launch tags, the node tags and each spec are maps; nothing
is assumed about the keys of a spec). `InstanceTypes`: any catalogues,
NodeClasses, configurations, workers, reports, concurrent launches and events,
under `InstanceTypesAssumption` and `CapacityAssumption`, which type the
constants.

| Theorem | Says | Extra assumption |
| --- | --- | --- |
| `TypeCorrect` | `[]TypeOK` | |
| `PoolInvariant` | `[]PoolInv` | |
| `OnePoolPerKeyHolds` | one pool per key | |
| `ScaleAddsOneHolds` | `count + 1` adds exactly one node | |
| `NoDoubleClaimHolds` | no claim tag is overwritten | not both Enterprise and a lagging tag search |
| `DeletesOnlyTargetHolds` | `Delete` takes only its instance | Standard tier |
| `ClaimInvariant` | `[](PoolInv /\ ClaimInv)` | |
| `OneInstancePerClaimHolds` | a claim owns at most one instance | the tag search does not lag |
| `ReturnedIsOwnedHolds` | what `Create` returned carries the claim's tag | not both Enterprise and a lagging tag search |
| `StableResultHolds` | `Create` keeps returning the same instance | the tag search does not lag |
| `LedgerRefinement` | `Spec => ImplementsLedger` | the tag search does not lag |
| `LifecycleInvariant` | `[]Inv` of `NodeClaimLifecycle` | |
| `LifecycleTypeCorrect` | its `[]TypeOK` | |
| `SparesRecordedHolds` | the collector spares what an existing NodeClaim has recorded, if the informer showed the record before the NodeClaims were listed | |

The extra assumptions are those under which TLC finds the property true: with a
lagging search a retried `Create` may take a second node, and on the Enterprise
tier section 5 describes a `Delete` that takes more than its target.

**The argument for `LKEProvider`.** None of the properties is inductive. What
makes them true is that everything a call reads under the mutex of its key is
still true when it acts. `PoolInv` says so: a call in its critical section holds
the mutex of its key (`LockHeld`); a Create attempt's pool has its key and the
count it read, its node is in that pool and unowned until claimed (`CreateInv`);
a Delete's target is in the pool of its key, and the pool it is about to delete
holds nothing else on the Standard tier (`DeleteInv`). Two calls with different
keys never touch one pool, because `OnePoolPerKey` is part of the invariant. The
preservation proof goes action by action, with one lemma on what a step of a
call changes in the pools. `ClaimInv` adds what a call knows of its claim: past
the recheck a claim owns nothing (`OwnsNothing`), so a claim is only written when
its owner has none; this covers a claim whose second call uses another mutex
because the core runs one call per claim at a time. For the refinement and the
action properties `StepEffect` reduces every step to one of a few effects on
instances and tags. `LocksReleased` is the converse of `LockHeld` and the safety
half of `CallsReturn`: no path out of a locked section, a lost answer included,
forgets its mutex, so there is no cycle of waiting calls, for any number of
them. `ClaimsAtWantedVersion` follows from the pool invariant: only the holder
of a pool's mutex changes its version.

**The argument for `NodeClaimLifecycle`.** `SparesRecorded` relates what a sweep
still has to look at to a listing two requests ago and to the API server now. It
holds because records only move forward: a NodeClaim records one instance once,
that instance carries its tag for ever, and a NodeClaim that is gone does not
come back (`RecordInv`). So an instance whose record the informer showed at any
time from the listing of the instances on, and no longer when the NodeClaims
were listed, has lost its NodeClaim for good (`VisibleInv`), however much the
informer lags in between. Nothing is promised for a record that is made, or
shown, later: it saves the instance only by the age limit, and
`gc_launch_race` shows it collected.

**The argument for `NodeClass`.** `LaunchValidated` and `ClassOutlivesLaunches`
are decided from caches. The first holds because every copy of the NodeClass
that says it is ready for its generation says so of a spec that validation
accepts (`ReadyInv`): the status patch carries an optimistic lock, so a verdict
never lands on another spec than the one it was made for. The second holds
because `Create` and `finalize` read the same caches: a claim whose launch has
begun was shown as pending, and since a NodeClaim only moves forward, every
later list shows it too (`HeldInv`); and `finalize` runs only once the cache
shows the deletion, from when on no launch begins (`FinalizerInv`). For `DriftIsChange`,
`RecordedInv` adds that a launched claim carries the hash of the spec its
instance was made with, unless the migration or a repeated launch rewrote it.
The theorem assumes that the launch leaves the hash of a spec alone, which LKE
mode does and `nodeclass_default_image` shows that instance mode does not.

**The argument for `Offerings`.** `StaleOfferNeedsRace` and `NoStaleRefusal` speak
of a call, and hold because of what other calls left behind. `CacheInv` is the
promise of the sequence number: an available offering stored with the current
number has no finished mark against it, and one stored with it when no mark is
there or pending has the availability of the region. A mark moves the number
after its entry and an eviction after the removal, so in between an offering may
be computed from marks the number does not show yet; `Pending` names those.
`LookupInv` and `ComputeInv` carry the promise through a call that runs alone,
step by step; as soon as two calls overlap, nothing is claimed until the
offering is dropped.

**The argument for `InstanceTags`.** A controller writes back a list it has read
some time ago, so what holds of the tags must hold of every list a reconcile has
in hand: the tags of the launch are in it, but for those whose key the user has
set (`BaseInv`), and every key that is not contested has one tag in it
(`KeysInv`). `used` holds the keys that `spec.tags` has had since the launch:
edits only enlarge it, and whatever `inplaceupdate` removes or replaces has such
a key, as its `prev` and `desired` are always values of `spec.tags` (`UserTagsInv`,
`UserKeysInv`). Reading a list as a map loses nothing else, whatever the order,
because the list is sound. `CreateTags` appends tags that were missing from an
older list; that is sound because every tag on the instance stems from the
launch, the tagging controller or a spec, and the first never have the key of a
tag that was missing, unless the user has set it.

**The argument for `InstanceTypes`.** The capacity controller reads an entry,
writes it and drops types without a lock. `UpdateInv` says what is still true
when it writes: the entry is what it has read, or has expired since, because
there is one worker and nobody else writes. So an entry is the least of the
reports that reached it (`LeastInv`), an update writes at most what it read, and
it can only fall; that a report needs no second event adds that an update past
its write has its report in the cache, or in one that expired
(`NoReportLost`). `ServedFromInputs` rests on `MadeInv`: plans change only while
no `List` runs and flush the types, and the kubelet configuration is part of the
cache key. `CachedTypesFresh` needs the same of the lists being built
(`BuiltFresh`), since a `List` stores what it built before, during or after an
update: whatever was built with an older entry has a key in `doubt`, or is of
the plan whose types the running update is about to drop.

**Only model-checked.** All liveness properties and everything about `ENABLED`
or fairness; induction over data types is not used. The liveness properties are
`CallsReturn` and `EveryClaimServed` of `LKEProvider`, `OffersRecover`,
`UserTagsApplied` and `NodeTagsApplied`, `OrphansCollected`, `ClaimsTerminate`
and `UnclaimedCollected`, `StatusSettles`, `DriftSettles` and
`DeletionCompletes`, and `PicksSettle`. Every invariant and action property of
the passing runs, and the refinement, is proved. The runs of section 5 are
counterexamples. Two theorems state what no run lists: `LocksReleased`, whose
failure in `lke_returns` would show as a violated `CallsReturn`, and
`CapacityOnlyFalls`, one in `instance_types` as a violated `DiscoveredIsLeast`;
TLC finds both true when they are added to those configurations.

## 5. Where the code and its documents differ

* **A pool that looks like its last node** (`lke_enterprise_delete`,
  `lke.go:766`). `Delete` deletes the pool when `len(lkePool.Linodes) <= 1`. On
  the Enterprise tier that list lags, so the `Delete` of one node takes another
  one along that a NodeClaim has claimed and been given and that the list does
  not show yet.
  `docs/lke-nodepool-scaleup.md:283` wants the pool deleted only with its last
  node.
* **Drift without a change** (`nodeclass_default_image`, `instance.go:98`). In
  instance mode `Create` fills in the default image on the object whose hash is
  recorded afterwards, while the hash controller hashes the NodeClass as it is.
  A claim launched from a NodeClass without an image is drifted from the start,
  and so is its replacement; `linodenodeclass.go:509` says the hash tells whether
  the NodeClass changed.
* **User tags nobody owns** (`tags_first_edit`, `inplaceupdate/controller.go:120`).
  An edit of `spec.tags` between the claim and the first reconcile leaves the
  old tags on the instance for good; a test says old user-managed keys are
  removed.
* **A claimed node is collected** (`gc_launch_race`,
  `garbagecollection/controller.go:81`). A node older than 30 seconds may be
  claimed and collected before its NodeClaim has recorded the provider ID; a
  test says nodes with NodeClaim owners are not deleted.

Further behaviour a reader should know, seen while modelling and not stated by
a run:

* Two overlapping `createOfferings` calls can leave an old offering under a new
  sequence number (`offering.go:136`), so that a marked offering is offered,
  against `unavailableofferings.go:28-30`. `StaleOfferNeedsRace` bounds the
  effect: it needs an overlap and ends when the cached offering is dropped.
* On the Standard tier a node that was scaled up and never claimed carries no
  managed tag, so `List` (677) and the collector never see it, although
  `docs/lke-nodepool-scaleup.md:284` expects orphan collection.
* A tag another actor adds between a tag controller's read and write is lost.
* Restricted tags reach live instances: `inplaceupdate` applies `spec.tags`
  whatever the readiness of the NodeClass (`inplaceupdate/controller.go:120`),
  so an edit that validation rejects may replace an identity tag or leave two
  tags of one key. A valid one may replace static tags whose keys are not
  restricted, such as `kubernetes.io/cluster/<name>`.
* A registered node whose NodeClaim the cache does not show is passed by
  (`capacity/controller.go:77`): its report is missing until a restart.
* A drift is missed when the hash migration, or an LKE `Create` repeated after a
  crash, records the hash of a NodeClass edited since the launch (`DriftSettles`
  excepts these claims).
* `docs/CONFIGURATION.md:73-76` describes discovered capacity per image; the key
  hashes `Status.LinodeImages`, which no controller sets, so plans share it.
* An update of discovered capacity drops the types of one NodeClass only, and
  none if its report did not change what it read; those of another NodeClass,
  and those built without an entry that expired meanwhile and comes back, keep
  the old capacity until their TTL ends (`CachedTypesFresh` says exactly which).
* `UpdateInstanceTypes` leaves the cached offerings alone, so a price changes
  only when the offering is dropped; `PicksSettle` needs its TTL.

## 6. What is not modelled

* Deadlines, delays and the arithmetic of `BackoffTracker` (the delay is the
  base doubled per failure up to a cap): choices in `LKEProvider`.
* The length and format checks of tags, and conversions between instances and
  NodeClaims beyond provider ID, age and deletion: data without interleavings.
* The requirements (labels) of an instance type, GPU devices and dynamic
  resources: computed from the plan's name, and no modelled decision depends on
  them.
* Requests that the API applies late, after the provider has crashed, given up
  or retried: a request whose answer is lost has taken effect by then, or never
  does.
* Pool labels and taints, events, the Node object a collection
  deletes along, repair policies (a constant table).
* Foreign tags, which neither the provider nor `spec.tags` has set.
* Metrics write gauges; options, wiring, SDK construction and generated code
  have no state of their own. Charts, end-to-end suites and the fakes of the
  tests are packaging and test support.
* The Linode API, the API server, the informers and Karpenter's core are
  external: they appear as far as the code depends on them.

## 7. Plan

1. Done: `LKEProvider` with its ledger and proofs, `Offerings`, `InstanceTags`,
   `NodeClaimLifecycle` with the instance caches and proofs, `NodeClass` with
   recorded hashes and proofs, proofs for `Offerings` and
   `InstanceTags`, `Capacity` and `InstanceTypes` with proofs.
2. Extensions: a NodeClass with a control-plane version that moves, foreign
   tags, requests applied late, a second claim in `NodeClass`, two launches at a time in `InstanceTypes`.
3. Theorems: the safety properties of the runs are proved. What is left are
   theorems under weaker assumptions (which of the claim properties survive a
   lagging tag search on the Standard tier; what the Enterprise `Delete` still
   guarantees about the instances it takes), the safety half of the liveness
   properties, as `LocksReleased` is for `CallsReturn`, and the proofs of what
   item 2 adds.

---------------------------- MODULE LKEProvider ----------------------------
(***************************************************************************)
(* The LKE node provider (pkg/providers/lke/lke.go): concurrent Create     *)
(* calls, one per NodeClaim, claim Linode instances out of LKE node pools, *)
(* and concurrent Delete calls give them back.                             *)
(*                                                                         *)
(* One action is one Linode API call (or one lock or sleep) of one call of *)
(* the provider, so calls interleave at every API request.  Every request  *)
(* may succeed, be refused with a retryable or a final error, or be        *)
(* applied while its answer is lost.                                       *)
(*                                                                         *)
(* Abstractions:                                                           *)
(*  - a pool key is the pair (Karpenter NodePool, instance type); the two  *)
(*    fields only matter together, except that an ICE marks the type;      *)
(*  - of an instance's tags only karpenter.sh/nodeclaim is kept (owner);   *)
(*  - an element of Instances is an entry of pool.Linodes: it has no       *)
(*    instance ID until it has booted (InstanceID = 0 in the API);         *)
(*  - deadlines and delays are choices: a sleeping call retries or gives   *)
(*    up, a backing-off key becomes free at any time;                      *)
(*  - the node cache (in NodeClaimLifecycle) and error texts are left out. *)
(***************************************************************************)
EXTENDS Naturals, FiniteSets

CONSTANTS
    Claims,     \* NodeClaims
    Deleters,   \* concurrent Delete calls (termination, garbage collection)
    Keys,       \* pool keys
    Types,      \* instance types
    TypeOf,     \* the instance type of a key
    Locks,      \* the mutexes behind the hashed KeyMutex
    LockOf,     \* the mutex a key hashes to
    Pools,      \* LKE node pool IDs; their number bounds the pools ever created
    Instances,  \* node entries; their number bounds the nodes ever requested
    Versions,   \* Kubernetes versions a NodeClass may ask for
    Enterprise, \* TRUE on the Enterprise tier
    ListLag,    \* TRUE when the tag search may lag behind UpdateInstance
    Faults,     \* which faults the Linode API shows
    None, Gone

FaultKinds == {"retryable", "fatal", "lost", "unavailable"}

Procs == Claims \cup Deleters

ASSUME ConstantsAssumption ==
    /\ Claims \cap Deleters = {}
    /\ TypeOf \in [Keys -> Types]
    /\ LockOf \in [Keys -> Locks]
    /\ Enterprise \in BOOLEAN
    /\ ListLag \in BOOLEAN
    /\ Faults \subseteq FaultKinds
    /\ None \notin Procs \cup Keys \cup Pools \cup Instances \cup Versions
    /\ Gone \notin Keys \cup Pools \cup {None}

ASSUME InstancesFinite == IsFiniteSet(Instances)

VARIABLES
    (* The Linode API. *)
    pools,      \* key of a pool, None before it is created, Gone after
    version,    \* Kubernetes version of a pool, None when it has none
    home,       \* pool of an instance, None before it is requested, Gone after
    booted,     \* instances that exist (InstanceID # 0)
    owner,      \* the NodeClaim in the instance's karpenter.sh/nodeclaim tag
    unlisted,   \* Enterprise: instances not yet in pool.Linodes
    stale,      \* instances whose ownership the tag search does not show yet
    (* The provider process. *)
    lockedBy,   \* holder of each mutex
    pc,         \* the next request of each call
    key,        \* the pool key of each call, None when it is idle
    want,       \* Create: Kubernetes version of the NodeClass, None if unset
    pool,       \* the pool the current attempt works on
    count,      \* Create: pool.Count as the attempt read it
    inst,       \* Create: the instance to claim; Delete: the one to delete
    flags,      \* Create: createdPool, scaledOnce, and whether poolErr is set
    backoff,    \* pool keys rejected by poolBackoff.Check
    delBackoff, \* instances rejected by deleteBackoff.Check
    iced,       \* instance types marked unavailable
    (* What Karpenter learned. *)
    returned    \* the instance the last successful Create of a claim returned

apiVars  == <<pools, version, home, booted, owner, unlisted, stale>>
locals   == <<key, want, pool, count, inst, flags>>
procVars == <<lockedBy, pc, locals, backoff, delBackoff, iced, returned>>
vars     == <<apiVars, procVars>>

-----------------------------------------------------------------------------
(* Types and initial state *)

CreatePC == {"idle", "lock", "recheck", "pools", "version", "create", "find",
             "claim", "verify", "plan", "scale", "sleep"}
DeletePC == {"idle", "lock", "refresh", "delpool", "delnode"}

(* Where a call has found its pool, and where it has chosen its instance. *)
PoolPC == {"version", "find", "claim", "verify", "plan", "scale", "delpool", "delnode"}
InstPC == {"claim", "verify", "delpool", "delnode"}

Flags == {"createdPool", "scaledOnce", "poolErr"}

Init ==
    /\ pools = [p \in Pools |-> None]
    /\ version = [p \in Pools |-> None]
    /\ home = [i \in Instances |-> None]
    /\ booted = {}
    /\ owner = [i \in Instances |-> None]
    /\ unlisted = {}
    /\ stale = {}
    /\ lockedBy = [l \in Locks |-> None]
    /\ pc = [x \in Procs |-> "idle"]
    /\ key = [x \in Procs |-> None]
    /\ want = [x \in Procs |-> None]
    /\ pool = [x \in Procs |-> None]
    /\ count = [x \in Procs |-> 0]
    /\ inst = [x \in Procs |-> None]
    /\ flags = [x \in Procs |-> {}]
    /\ backoff = {}
    /\ delBackoff = {}
    /\ iced = {}
    /\ returned = [c \in Claims |-> None]

-----------------------------------------------------------------------------
(* What the Linode API shows *)

Members(p) == {i \in Instances : home[i] = p}

Alive(i) == home[i] \in Pools

(* ListInstances filtered by the claim's ownership tag. *)
Owned(c) == {i \in booted \ stale : owner[i] = c}

(* pool.Linodes; pool.Count is Cardinality(Members(p)). *)
Linodes(p) == Members(p) \ unlisted

(* The pool the first lookups of Delete find for an instance. *)
PoolListing(i) == {p \in Pools : i \in booted /\ i \in Linodes(p)}

(* Instances of the pool that carry no ownership tag.  Standard reads each *)
(* instance of pool.Linodes; Enterprise reads the tag search.              *)
Claimable(p) ==
    IF Enterprise
    THEN {i \in Members(p) \cap booted : owner[i] = None \/ i \in stale}
    ELSE {i \in Linodes(p) \cap booted : owner[i] = None}

(* What the LKE API does to the nodes of an existing pool p when its count *)
(* becomes n: it adds or removes as many as it takes.                      *)
Resized(p, n, nodes) ==
    LET fresh == {i \in Instances : home[i] = None} IN
    /\ pools[p] \in Keys
    /\ nodes \subseteq Members(p) \cup fresh
    /\ Members(p) \subseteq nodes \/ nodes \subseteq Members(p)
    /\ Cardinality(nodes) = n

SetNodes(p, nodes) ==
    LET removed == Members(p) \ nodes IN
    /\ home' = [i \in Instances |-> IF i \in nodes THEN p
                                    ELSE IF i \in removed THEN Gone ELSE home[i]]
    /\ owner' = [i \in Instances |-> IF i \in removed THEN None ELSE owner[i]]
    /\ booted' = booted \ removed
    /\ stale' = stale \ removed
    /\ unlisted' = IF Enterprise THEN (unlisted \cup (nodes \ Members(p))) \ removed
                                 ELSE unlisted

Fault(kind) == kind \in Faults

-----------------------------------------------------------------------------
(* How an attempt ends: the pool lock is released, then Create's           *)
(* observePoolAttempt looks at the error.                                  *)

Unlock(x) == lockedBy' = [lockedBy EXCEPT ![LockOf[key[x]]] = None]

(* The call returns; its local variables are gone. *)
EndCall(x) ==
    /\ pc' = [pc EXCEPT ![x] = "idle"]
    /\ key' = [key EXCEPT ![x] = None]
    /\ want' = [want EXCEPT ![x] = None]
    /\ pool' = [pool EXCEPT ![x] = None]
    /\ count' = [count EXCEPT ![x] = 0]
    /\ inst' = [inst EXCEPT ![x] = None]
    /\ flags' = [flags EXCEPT ![x] = {}]

(* The attempt failed, the call sleeps; only its flags outlive the attempt. *)
EndAttempt(c, newFlags) ==
    /\ pc' = [pc EXCEPT ![c] = "sleep"]
    /\ pool' = [pool EXCEPT ![c] = None]
    /\ count' = [count EXCEPT ![c] = 0]
    /\ inst' = [inst EXCEPT ![c] = None]
    /\ flags' = [flags EXCEPT ![c] = newFlags]
    /\ UNCHANGED <<key, want>>

(* The attempt found or claimed an instance: Create returns it. *)
Return(c, i) ==
    /\ returned' = [returned EXCEPT ![c] = i]
    /\ EndCall(c)
    /\ Unlock(c)
    /\ backoff' = backoff \ {key[c]}

(* ErrNoClaimableInstance: the pool answered, so its backoff is cleared. *)
WaitForNode(c, newFlags) ==
    /\ EndAttempt(c, newFlags \ {"poolErr"})
    /\ Unlock(c)
    /\ backoff' = backoff \ {key[c]}
    /\ UNCHANGED returned

(* Mutant: a failed attempt returns without unlocking. *)
RetryLaterLocked(c, isPoolErr) ==
    /\ EndAttempt(c, IF isPoolErr THEN flags[c] \cup {"poolErr"} ELSE flags[c] \ {"poolErr"})
    /\ UNCHANGED <<lockedBy, backoff, returned>>

(* A retryable failure; isPoolErr when a node pool request failed. *)
RetryLater(c, isPoolErr) ==
    /\ EndAttempt(c, IF isPoolErr THEN flags[c] \cup {"poolErr"} ELSE flags[c] \ {"poolErr"})
    /\ Unlock(c)
    /\ UNCHANGED <<backoff, returned>>

(* A failure no retry can cure: Create returns the error. *)
Abort(c) ==
    /\ EndCall(c)
    /\ Unlock(c)
    /\ UNCHANGED <<backoff, returned>>

(* A node pool request that was refused without effect. *)
PoolRequestFails(c) ==
    \/ Fault("retryable") /\ RetryLater(c, TRUE)
    \/ Fault("fatal") /\ Abort(c)

(* An instance request that was refused without effect. *)
InstanceRequestFails(c) ==
    \/ Fault("retryable") /\ RetryLater(c, FALSE)
    \/ Fault("fatal") /\ Abort(c)

MarkUnavailable(c) == iced' = iced \cup {TypeOf[key[c]]}

-----------------------------------------------------------------------------
(* Create *)

(* Up to the retry loop: resolve the cheapest available instance type,     *)
(* look the claim's tag up, and reject the call while its pool backs off.  *)
(* A call that fails here (no type left, a failed lookup, a backoff)       *)
(* returns its error and changes nothing.                                  *)
StartCreate(c, k, w) ==
    /\ pc[c] = "idle"
    /\ TypeOf[k] \notin iced
    /\ \/ \E i \in Owned(c) :
            /\ returned' = [returned EXCEPT ![c] = i]
            /\ UNCHANGED <<pc, key, want>>
       \/ /\ Owned(c) = {}
          /\ k \notin backoff
          /\ pc' = [pc EXCEPT ![c] = "lock"]
          /\ key' = [key EXCEPT ![c] = k]
          /\ want' = [want EXCEPT ![c] = w]
          /\ UNCHANGED returned
    /\ UNCHANGED <<apiVars, lockedBy, pool, count, inst, flags, backoff, delBackoff, iced>>

(* Mutant: the attempt runs without the pool lock. *)
LockPoolUnguarded(c) ==
    /\ pc[c] = "lock"
    /\ pc' = [pc EXCEPT ![c] = "recheck"]
    /\ UNCHANGED <<apiVars, lockedBy, locals, backoff, delBackoff, iced, returned>>

LockPool(c) ==
    /\ pc[c] = "lock"
    /\ lockedBy[LockOf[key[c]]] = None
    /\ lockedBy' = [lockedBy EXCEPT ![LockOf[key[c]]] = c]
    /\ pc' = [pc EXCEPT ![c] = "recheck"]
    /\ UNCHANGED <<apiVars, locals, backoff, delBackoff, iced, returned>>

(* Mutant: only the lookup before the retry loop is made. *)
RecheckSkipped(c) ==
    /\ pc[c] = "recheck"
    /\ pc' = [pc EXCEPT ![c] = "pools"]
    /\ UNCHANGED <<apiVars, lockedBy, locals, backoff, delBackoff, iced, returned>>

(* The ownership lookup repeated under the lock. *)
Recheck(c) ==
    /\ pc[c] = "recheck"
    /\ \/ \E i \in Owned(c) : Return(c, i)
       \/ /\ Owned(c) = {}
          /\ pc' = [pc EXCEPT ![c] = "pools"]
          /\ UNCHANGED <<lockedBy, locals, backoff, returned>>
       \/ InstanceRequestFails(c)
    /\ UNCHANGED <<apiVars, delBackoff, iced>>

(* The attempt goes on with pool p. *)
UsePool(c, p, next) ==
    /\ pool' = [pool EXCEPT ![c] = p]
    /\ count' = [count EXCEPT ![c] = Cardinality(Members(p))]
    /\ pc' = [pc EXCEPT ![c] = next]
    /\ UNCHANGED <<lockedBy, key, want, inst, flags, backoff, returned>>

(* Mutant: an existing pool keeps the version it has. *)
FindPoolKeepsVersion(c) ==
    /\ pc[c] = "pools"
    /\ \/ \E p \in Pools : pools[p] = key[c] /\ UsePool(c, p, "find")
       \/ /\ \A p \in Pools : pools[p] # key[c]
          /\ pc' = [pc EXCEPT ![c] = "create"]
          /\ UNCHANGED <<lockedBy, locals, backoff, returned>>
    /\ UNCHANGED <<apiVars, delBackoff, iced>>

(* ListLKENodePools: the first pool of the key, or none. *)
FindPool(c) ==
    /\ pc[c] = "pools"
    /\ \/ \E p \in Pools :
            /\ pools[p] = key[c]
            /\ UsePool(c, p, IF want[c] \in {None, version[p]} THEN "find" ELSE "version")
       \/ /\ \A p \in Pools : pools[p] # key[c]
          /\ pc' = [pc EXCEPT ![c] = "create"]
          /\ UNCHANGED <<lockedBy, locals, backoff, returned>>
       \/ PoolRequestFails(c)
    /\ UNCHANGED <<apiVars, delBackoff, iced>>

(* UpdateLKENodePool with the NodeClass's Kubernetes version. *)
ReconcilePoolVersion(c) ==
    /\ pc[c] = "version"
    /\ \/ /\ version' = [version EXCEPT ![pool[c]] = want[c]]
          /\ \/ /\ pc' = [pc EXCEPT ![c] = "find"]
                /\ UNCHANGED <<lockedBy, locals, backoff, returned>>
             \/ Fault("lost") /\ RetryLater(c, TRUE)
       \/ PoolRequestFails(c) /\ UNCHANGED version
    /\ UNCHANGED <<pools, home, booted, owner, unlisted, stale, delBackoff, iced>>

(* CreateLKENodePool with one node.  createdPool is only set when the      *)
(* answer arrives.                                                         *)
CreatePool(c) ==
    /\ pc[c] = "create"
    /\ \/ \E p \in Pools : \E i \in Instances :
            /\ pools[p] = None
            /\ home[i] = None
            /\ pools' = [pools EXCEPT ![p] = key[c]]
            /\ version' = [version EXCEPT ![p] = want[c]]
            /\ SetNodes(p, {i})
            /\ \/ /\ pc' = [pc EXCEPT ![c] = "find"]
                  /\ pool' = [pool EXCEPT ![c] = p]
                  /\ count' = [count EXCEPT ![c] = 1]
                  /\ flags' = [flags EXCEPT ![c] = @ \cup {"createdPool"}]
                  /\ UNCHANGED <<lockedBy, key, want, inst, backoff, returned>>
               \/ Fault("lost") /\ RetryLater(c, TRUE)
            /\ UNCHANGED iced
       \/ PoolRequestFails(c) /\ UNCHANGED <<apiVars, iced>>
       \/ Fault("unavailable") /\ Abort(c) /\ MarkUnavailable(c) /\ UNCHANGED apiVars
    /\ UNCHANGED delBackoff

(* Mutant: an attempt that finds no node always waits for one. *)
FindClaimableWaits(c) ==
    /\ pc[c] = "find"
    /\ \/ \E i \in Claimable(pool[c]) :
            /\ pc' = [pc EXCEPT ![c] = "claim"]
            /\ inst' = [inst EXCEPT ![c] = i]
            /\ UNCHANGED <<lockedBy, key, want, pool, count, flags, backoff, returned>>
       \/ Claimable(pool[c]) = {} /\ WaitForNode(c, flags[c])
    /\ UNCHANGED <<apiVars, delBackoff, iced>>

(* Pick an unclaimed instance.  Without one, a call that already added a   *)
(* node waits for it; any other goes on to scale the pool.                 *)
FindClaimable(c) ==
    /\ pc[c] = "find"
    /\ \/ \E i \in Claimable(pool[c]) :
            /\ pc' = [pc EXCEPT ![c] = "claim"]
            /\ inst' = [inst EXCEPT ![c] = i]
            /\ UNCHANGED <<lockedBy, key, want, pool, count, flags, backoff, returned>>
       \/ /\ Claimable(pool[c]) = {}
          /\ \/ /\ flags[c] \cap {"createdPool", "scaledOnce"} # {}
                /\ WaitForNode(c, flags[c])
             \/ /\ flags[c] \cap {"createdPool", "scaledOnce"} = {}
                /\ pc' = [pc EXCEPT ![c] = "plan"]
                /\ UNCHANGED <<lockedBy, locals, backoff, returned>>
       \/ InstanceRequestFails(c)
    /\ UNCHANGED <<apiVars, delBackoff, iced>>

(* UpdateInstance: the whole tag list, with the claim's ownership tag. *)
WriteClaim(c) ==
    LET i == inst[c] IN
    /\ pc[c] = "claim"
    /\ \/ /\ i \in booted
          /\ owner' = [owner EXCEPT ![i] = c]
          /\ stale' = IF ListLag THEN stale \cup {i} ELSE stale
          /\ \/ /\ pc' = [pc EXCEPT ![c] = "verify"]
                /\ UNCHANGED <<lockedBy, locals, backoff, returned>>
             \/ Fault("lost") /\ RetryLater(c, FALSE)
       \/ /\ i \notin booted \/ Fault("retryable") \/ Fault("fatal")
          /\ RetryLater(c, FALSE)
          /\ UNCHANGED <<owner, stale>>
    /\ UNCHANGED <<pools, version, home, booted, unlisted, delBackoff, iced>>

(* GetInstance until the tag shows, or ErrClaimFailed at the timeout. *)
VerifyTagsApplied(c) ==
    /\ pc[c] = "verify"
    /\ \/ /\ inst[c] \in booted
          /\ owner[inst[c]] = c
          /\ Return(c, inst[c])
       \/ /\ inst[c] \notin booted \/ owner[inst[c]] # c \/ Faults # {}
          /\ RetryLater(c, FALSE)
    /\ UNCHANGED <<apiVars, delBackoff, iced>>

(* checkPlanAvailability: a failed lookup counts as available. *)
CheckPlanAvailability(c) ==
    /\ pc[c] = "plan"
    /\ \/ /\ pc' = [pc EXCEPT ![c] = "scale"]
          /\ UNCHANGED <<lockedBy, locals, backoff, returned, iced>>
       \/ Fault("unavailable") /\ Abort(c) /\ MarkUnavailable(c)
    /\ UNCHANGED <<apiVars, delBackoff>>

(* UpdateLKENodePool with the count read at the start of the attempt, plus *)
(* one.  The API refuses for good when the pool does not exist or the      *)
(* account has no node left.                                               *)
ScalePool(c) ==
    LET p == pool[c]
        n == count[c] + 1 IN
    /\ pc[c] = "scale"
    /\ \/ \E nodes \in SUBSET Instances :
            /\ Resized(p, n, nodes)
            /\ SetNodes(p, nodes)
            /\ \/ WaitForNode(c, flags[c] \cup {"scaledOnce"})
               \/ Fault("lost") /\ RetryLater(c, TRUE)
       \/ PoolRequestFails(c) /\ UNCHANGED <<home, owner, booted, stale, unlisted>>
       \/ /\ \A nodes \in SUBSET Instances : ~Resized(p, n, nodes)
          /\ Abort(c)
          /\ UNCHANGED <<home, owner, booted, stale, unlisted>>
    /\ UNCHANGED <<pools, version, delBackoff, iced>>

(* The deadline has not passed: another attempt. *)
Retry(c) ==
    /\ pc[c] = "sleep"
    /\ pc' = [pc EXCEPT ![c] = "lock"]
    /\ UNCHANGED <<apiVars, lockedBy, locals, backoff, delBackoff, iced, returned>>

(* The deadline has passed or the context is cancelled.  The deferred      *)
(* recordPoolFailure runs once, on the failure of the last attempt.        *)
GiveUp(c) ==
    /\ pc[c] = "sleep"
    /\ EndCall(c)
    /\ backoff' = IF "poolErr" \in flags[c] THEN backoff \cup {key[c]} ELSE backoff
    /\ UNCHANGED <<apiVars, lockedBy, delBackoff, iced, returned>>

-----------------------------------------------------------------------------
(* Delete *)

(* The end of delete() and recordDeleteResult.                             *)
EndDelete(d, failed) ==
    /\ EndCall(d)
    /\ Unlock(d)
    /\ delBackoff' = IF failed THEN delBackoff \cup {inst[d]} ELSE delBackoff \ {inst[d]}

(* A request of Delete that was refused without effect: a retryable        *)
(* failure starts or extends the backoff, any other leaves it alone.       *)
DeleteRequestFails(d) ==
    \/ Fault("retryable") /\ EndDelete(d, TRUE)
    \/ Fault("fatal") /\ EndCall(d) /\ Unlock(d) /\ UNCHANGED delBackoff

(* The backoff check and the lookup outside the lock, which only serves to *)
(* find the key.                                                           *)
StartDelete(d, i) ==
    /\ pc[d] = "idle"
    /\ i \notin delBackoff
    /\ \/ \E p \in PoolListing(i) :
            /\ pc' = [pc EXCEPT ![d] = "lock"]
            /\ inst' = [inst EXCEPT ![d] = i]
            /\ key' = [key EXCEPT ![d] = pools[p]]
            /\ UNCHANGED delBackoff
       \/ /\ Fault("retryable")
          /\ delBackoff' = delBackoff \cup {i}
          /\ UNCHANGED <<pc, inst, key>>
    /\ UNCHANGED <<apiVars, lockedBy, want, pool, count, flags, backoff, iced, returned>>

(* Mutant: Delete works without the pool lock. *)
LockForDeleteUnguarded(d) ==
    /\ pc[d] = "lock"
    /\ pc' = [pc EXCEPT ![d] = "refresh"]
    /\ UNCHANGED <<apiVars, lockedBy, locals, backoff, delBackoff, iced, returned>>

LockForDelete(d) ==
    /\ pc[d] = "lock"
    /\ lockedBy[LockOf[key[d]]] = None
    /\ lockedBy' = [lockedBy EXCEPT ![LockOf[key[d]]] = d]
    /\ pc' = [pc EXCEPT ![d] = "refresh"]
    /\ UNCHANGED <<apiVars, locals, backoff, delBackoff, iced, returned>>

(* Mutant: the pool goes when one more node than the deleted one is left. *)
RefreshOffByOne(d) ==
    /\ pc[d] = "refresh"
    /\ \/ \E p \in PoolListing(inst[d]) :
            /\ pc' = [pc EXCEPT ![d] =
                        IF Cardinality(Linodes(p)) <= 2 THEN "delpool" ELSE "delnode"]
            /\ pool' = [pool EXCEPT ![d] = p]
            /\ UNCHANGED <<lockedBy, key, want, count, inst, flags, delBackoff>>
       \/ PoolListing(inst[d]) = {} /\ EndDelete(d, FALSE)
    /\ UNCHANGED <<apiVars, backoff, iced, returned>>

(* Mutant: the refreshed pool is assigned to a variable of the inner scope. *)
RefreshShadowed(d) ==
    /\ pc[d] = "refresh"
    /\ PoolListing(inst[d]) # {}
    /\ pc' = [pc EXCEPT ![d] = "delnode"]
    /\ UNCHANGED <<apiVars, lockedBy, locals, backoff, delBackoff, iced, returned>>

(* The membership lookup repeated under the lock decides between deleting  *)
(* the node and deleting its pool.                                         *)
RefreshMembership(d) ==
    /\ pc[d] = "refresh"
    /\ \/ \E p \in PoolListing(inst[d]) :
            /\ pc' = [pc EXCEPT ![d] =
                        IF Cardinality(Linodes(p)) <= 1 THEN "delpool" ELSE "delnode"]
            /\ pool' = [pool EXCEPT ![d] = p]
            /\ UNCHANGED <<lockedBy, key, want, count, inst, flags, delBackoff>>
       \/ PoolListing(inst[d]) = {} /\ EndDelete(d, FALSE)
       \/ DeleteRequestFails(d)
    /\ UNCHANGED <<apiVars, backoff, iced, returned>>

(* DeleteLKENodePool.  A pool that is already gone answers 404, which      *)
(* clears the backoff like a success and leaves the same state.            *)
DeletePool(d) ==
    LET p == pool[d] IN
    /\ pc[d] = "delpool"
    /\ \/ /\ pools' = [pools EXCEPT ![p] = Gone]
          /\ version' = [version EXCEPT ![p] = None]
          /\ SetNodes(p, {})
          /\ EndDelete(d, FALSE) \/ (Fault("lost") /\ EndDelete(d, TRUE))
       \/ DeleteRequestFails(d) /\ UNCHANGED apiVars
    /\ UNCHANGED <<backoff, iced, returned>>

(* DeleteLKENodePoolNode; a 404 again counts as a success.                 *)
DeletePoolNode(d) ==
    LET p == pool[d]
        i == inst[d] IN
    /\ pc[d] = "delnode"
    /\ \/ /\ SetNodes(p, Members(p) \ {i})
          /\ EndDelete(d, FALSE) \/ (Fault("lost") /\ EndDelete(d, TRUE))
       \/ DeleteRequestFails(d) /\ UNCHANGED <<home, owner, booted, stale, unlisted>>
    /\ UNCHANGED <<pools, version, backoff, iced, returned>>

-----------------------------------------------------------------------------
(* The environment *)

(* A requested node becomes a Linode with an instance ID. *)
Boot(i) ==
    /\ Alive(i) /\ i \notin booted
    /\ booted' = booted \cup {i}
    /\ UNCHANGED <<pools, version, home, owner, unlisted, stale, procVars>>

(* Enterprise: a node shows up in pool.Linodes, 30 to 60 seconds late. *)
ShowInPool(i) ==
    /\ i \in unlisted
    /\ unlisted' = unlisted \ {i}
    /\ UNCHANGED <<pools, version, home, booted, owner, stale, procVars>>

(* The tag search catches up with an UpdateInstance. *)
IndexTags(i) ==
    /\ i \in stale
    /\ stale' = stale \ {i}
    /\ UNCHANGED <<pools, version, home, booted, owner, unlisted, procVars>>

BackoffElapses ==
    /\ \/ /\ backoff # {}
          /\ \E k \in backoff : backoff' = backoff \ {k}
          /\ UNCHANGED delBackoff
       \/ /\ \E i \in delBackoff : delBackoff' = delBackoff \ {i}
          /\ UNCHANGED backoff
    /\ UNCHANGED <<apiVars, lockedBy, pc, locals, iced, returned>>

(* UnavailableOfferingsTTL passes. *)
OfferingReturns(t) ==
    /\ t \in iced
    /\ iced' = iced \ {t}
    /\ UNCHANGED <<apiVars, lockedBy, pc, locals, backoff, delBackoff, returned>>

(* The process stops and restarts: locks, flags, caches and backoffs are   *)
(* lost, pools, instances and tags are not.                                *)
Crash ==
    /\ lockedBy' = [l \in Locks |-> None]
    /\ pc' = [x \in Procs |-> "idle"]
    /\ key' = [x \in Procs |-> None]
    /\ want' = [x \in Procs |-> None]
    /\ pool' = [x \in Procs |-> None]
    /\ count' = [x \in Procs |-> 0]
    /\ inst' = [x \in Procs |-> None]
    /\ flags' = [x \in Procs |-> {}]
    /\ backoff' = {}
    /\ delBackoff' = {}
    /\ iced' = {}
    /\ UNCHANGED <<apiVars, returned>>

-----------------------------------------------------------------------------
(* The specification *)

(* The requests a Create call makes while it holds the pool lock. *)
CreateStep(c) ==
    \/ Recheck(c)
    \/ FindPool(c)
    \/ ReconcilePoolVersion(c)
    \/ CreatePool(c)
    \/ FindClaimable(c)
    \/ WriteClaim(c)
    \/ VerifyTagsApplied(c)
    \/ CheckPlanAvailability(c)
    \/ ScalePool(c)

(* The requests a Delete call makes while it holds the pool lock. *)
DeleteStep(d) ==
    \/ RefreshMembership(d)
    \/ DeletePool(d)
    \/ DeletePoolNode(d)

Environment ==
    \/ \E i \in Instances : Boot(i) \/ ShowInPool(i) \/ IndexTags(i)
    \/ BackoffElapses
    \/ \E t \in Types : OfferingReturns(t)

(* A step of a process that stays up. *)
Running ==
    \/ \E c \in Claims :
         \/ \E k \in Keys, w \in Versions \cup {None} : StartCreate(c, k, w)
         \/ LockPool(c)
         \/ CreateStep(c)
         \/ Retry(c)
         \/ GiveUp(c)
    \/ \E d \in Deleters :
         \/ \E i \in Instances : StartDelete(d, i)
         \/ LockForDelete(d)
         \/ DeleteStep(d)
    \/ Environment

Next == Running \/ Crash

Spec == Init /\ [][Next]_vars

(* The scheduler runs every goroutine, every request is answered or times  *)
(* out (WF of the steps under the lock), a Go mutex hands over to a waiter *)
(* that keeps being overtaken (SF of the lock), and the deadline ends a    *)
(* call that keeps retrying (SF of GiveUp).                                *)
Fairness ==
    /\ \A c \in Claims :
         /\ SF_vars(LockPool(c))
         /\ WF_vars(CreateStep(c))
         /\ WF_vars(Retry(c))
         /\ SF_vars(GiveUp(c))
    /\ \A d \in Deleters :
         /\ SF_vars(LockForDelete(d))
         /\ WF_vars(DeleteStep(d))

(* Karpenter calls Create again for a claim that has no instance, and LKE  *)
(* finishes the nodes it accepted.                                         *)
Progress ==
    /\ \A c \in Claims : \A k \in Keys :
         WF_vars(returned[c] = None /\ StartCreate(c, k, None))
    /\ \A i \in Instances : WF_vars(Boot(i))

FairSpec == Spec /\ Fairness

(* From some point on the process stays up. *)
LiveSpec == Spec /\ Fairness /\ Progress /\ <>[][Running]_vars

-----------------------------------------------------------------------------
(* Properties *)

ApiTypeOK ==
    /\ pools \in [Pools -> Keys \cup {None, Gone}]
    /\ version \in [Pools -> Versions \cup {None}]
    /\ home \in [Instances -> Pools \cup {None, Gone}]
    /\ booted \subseteq Instances
    /\ owner \in [Instances -> Claims \cup {None}]
    /\ unlisted \subseteq Instances
    /\ stale \subseteq Instances
    /\ \A i \in Instances : home[i] \in Pools => pools[home[i]] \in Keys

ProcTypeOK ==
    /\ lockedBy \in [Locks -> Procs \cup {None}]
    /\ pc \in [Procs -> CreatePC \cup DeletePC]
    /\ key \in [Procs -> Keys \cup {None}]
    /\ want \in [Procs -> Versions \cup {None}]
    /\ pool \in [Procs -> Pools \cup {None}]
    /\ count \in [Procs -> Nat]
    /\ inst \in [Procs -> Instances \cup {None}]
    /\ flags \in [Procs -> SUBSET Flags]
    /\ backoff \subseteq Keys
    /\ delBackoff \subseteq Instances
    /\ iced \subseteq Types
    /\ returned \in [Claims -> Instances \cup {None}]
    /\ \A c \in Claims : pc[c] \in CreatePC
    /\ \A d \in Deleters : pc[d] \in DeletePC
    /\ \A x \in Procs : pc[x] # "idle" => key[x] \in Keys
    /\ \A x \in Procs : pc[x] \in PoolPC => pool[x] \in Pools
    /\ \A x \in Procs : pc[x] \in InstPC => inst[x] \in Instances
    /\ \A d \in Deleters : pc[d] # "idle" => inst[d] \in Instances

(* Every variable keeps its type, a node is in a pool that exists, and a   *)
(* call has the key, the pool and the instance it works on when it needs   *)
(* them.                                                                   *)
TypeOK == ApiTypeOK /\ ProcTypeOK

(* Once an instance carries a NodeClaim's tag, no other Create call ever   *)
(* overwrites it: claimInstance writes the whole tag list, so only the     *)
(* pool lock between findClaimableInstance and UpdateInstance protects it. *)
NoDoubleClaim ==
    [][\A i \in Instances :
         owner[i] # None /\ home'[i] \in Pools => owner'[i] = owner[i]]_vars

(* The 1:1 mapping of lke-nodepool-scaleup.md: a NodeClaim never owns two  *)
(* instances, whatever answers were lost and however often Create was      *)
(* called again, possibly with another pool key, before or after a crash.  *)
OneInstancePerClaim ==
    \A i, j \in Instances : owner[i] # None /\ owner[i] = owner[j] => i = j

(* findOrCreatePool never creates a second pool for a key, even when the   *)
(* answer to the first CreateLKENodePool was lost.                         *)
OnePoolPerKey ==
    \A p, q \in Pools : pools[p] \in Keys /\ pools[p] = pools[q] => p = q

(* The pool and the count an attempt read from ListLKENodePools are still  *)
(* the truth when it scales: count+1 adds exactly one node, never none     *)
(* (a lost update) and never removes one.                                  *)
ScaleAddsOne ==
    \A c \in Claims : pc[c] = "scale" =>
        /\ pools[pool[c]] = key[c]
        /\ count[c] = Cardinality(Members(pool[c]))

(* An instance only disappears because a Delete call was asked to delete   *)
(* that very instance: neither deleting a whole pool nor writing a pool    *)
(* count ever takes another node with it.                                  *)
DeletesOnlyTarget ==
    [][\A i \in Instances :
         Alive(i) /\ home'[i] = Gone =>
           \E d \in Deleters : pc[d] \in {"delpool", "delnode"} /\ inst[d] = i]_vars

(* The least of it: no Delete takes an instance that a NodeClaim has        *)
(* claimed, unless it was asked to delete that one.                         *)
DeletesSpareClaimed ==
    [][\A i \in Instances :
         Alive(i) /\ owner[i] # None /\ home'[i] = Gone =>
           \E d \in Deleters : pc[d] \in {"delpool", "delnode"} /\ inst[d] = i]_vars

(* Every Create of a claim that succeeds returns the same instance for as  *)
(* long as that instance lives: the tag lookups make Create idempotent     *)
(* over lost answers, retries and crashes.                                 *)
StableResult ==
    [][\A c \in Claims :
         returned[c] # None /\ home'[returned[c]] \in Pools
           => returned'[c] = returned[c]]_vars

(* What Create returned carries the claim's tag, so no two claims are ever *)
(* given the same instance.                                                *)
ReturnedIsOwned ==
    \A c \in Claims : returned[c] # None /\ Alive(returned[c]) => owner[returned[c]] = c

(* A call only claims from a pool that has the Kubernetes version its      *)
(* NodeClass asks for: reconcilePoolVersion is not undone by another call  *)
(* between the update and the claim.                                       *)
ClaimsAtWantedVersion ==
    \A c \in Claims : pc[c] \in {"find", "claim", "verify"} =>
        want[c] \in {None, version[pool[c]]}

-----------------------------------------------------------------------------
(* The inductive invariant behind the safety properties *)

(* A call that is past "lock" holds the mutex of its key. *)
Critical(x) == pc[x] \notin {"idle", "lock", "sleep"}

LockHeld == \A x \in Procs : Critical(x) => lockedBy[LockOf[key[x]]] = x

(* A mutex is only held by a call that is past it: every path out of the    *)
(* locked section, a lost answer or a final error included, gives it back,  *)
(* and of the key it was taken for.  Whoever waits for a mutex waits for a  *)
(* call that does not wait itself.                                          *)
LocksReleased ==
    \A l \in Locks : lockedBy[l] # None =>
        Critical(lockedBy[l]) /\ LockOf[key[lockedBy[l]]] = l

(* Only nodes of an existing pool run, only running instances have tags.   *)
ApiInv ==
    /\ \A i \in booted : Alive(i)
    /\ \A i \in Instances : owner[i] # None => i \in booted
    /\ ~Enterprise => unlisted = {}
    /\ ~ListLag => stale = {}

(* What a Create attempt has read is still true when it is used. *)
CreateInv(c) ==
    /\ pc[c] \in PoolPC =>
         /\ pools[pool[c]] = key[c]
         /\ count[c] = Cardinality(Members(pool[c]))
    /\ pc[c] = "create" => \A p \in Pools : pools[p] # key[c]
    /\ pc[c] \in {"claim", "verify"} => home[inst[c]] = pool[c]
    /\ pc[c] = "claim" /\ ~(Enterprise /\ ListLag) => owner[inst[c]] = None
    /\ pc[c] = "verify" => owner[inst[c]] = c

(* What a Delete call has read is still true when it is used. *)
DeleteInv(d) ==
    /\ pc[d] # "idle" => home[inst[d]] # None
    /\ pc[d] # "idle" /\ Alive(inst[d]) => pools[home[inst[d]]] = key[d]
    /\ pc[d] \in {"delpool", "delnode"} => home[inst[d]] = pool[d]
    /\ pc[d] = "delpool" /\ ~Enterprise => Members(pool[d]) = {inst[d]}

(* With an up to date tag search, an attempt that is past "recheck" works  *)
(* for a claim that owns nothing.                                          *)
OwnsNothing(c) ==
    pc[c] \in {"pools", "version", "create", "find", "claim", "plan", "scale"} =>
        \A i \in Instances : owner[i] # c

PoolInv ==
    /\ TypeOK
    /\ LockHeld
    /\ ApiInv
    /\ OnePoolPerKey
    /\ \A c \in Claims : CreateInv(c)
    /\ \A d \in Deleters : DeleteInv(d)

ClaimInv ==
    /\ ~ListLag => OneInstancePerClaim /\ \A c \in Claims : OwnsNothing(c)
    /\ \A c \in Claims : returned[c] # None => home[returned[c]] # None
    /\ ~(Enterprise /\ ListLag) => ReturnedIsOwned

(* The abstract ledger this module implements when the tag search is up to *)
(* date: a booted instance is live, its ownership tag names its holder.    *)
Ledger == INSTANCE ClaimLedger WITH
    live <- booted, dead <- {i \in Instances : home[i] = Gone},
    holder <- owner, answer <- returned

(* Every step of the provider, of LKE and of a crash is a step of the      *)
(* ledger or leaves it alone.                                              *)
ImplementsLedger == Ledger!LedgerSpec

(* Every Create and every Delete returns, whatever the API answers. *)
CallsReturn == \A x \in Procs : pc[x] # "idle" ~> pc[x] = "idle"

(* Every claim gets an instance, although another claim may take the node  *)
(* it asked for.                                                           *)
EveryClaimServed == \A c \in Claims : <>(returned[c] # None)

=============================================================================

------------------------- MODULE LKEProviderProofs -------------------------
(* Machine-checked proofs about LKEProvider, for every set of claims,      *)
(* deleters, keys, mutexes, pools, instances and versions.                 *)
EXTENDS LKEProvider, FiniteSetTheorems, TLAPS

-----------------------------------------------------------------------------
(* Facts about the operators *)

(* The nodes of a pool are finitely many, so pool.Count is a number. *)
LEMMA MembersFinite ==
    ASSUME NEW p
    PROVE  /\ IsFiniteSet(Members(p))
           /\ Cardinality(Members(p)) \in Nat
  <1>1. Members(p) \in SUBSET Instances
    BY DEF Members
  <1>2. IsFiniteSet(Members(p))
    BY <1>1, InstancesFinite, FS_Subset
  <1> QED
    BY <1>2, FS_CardinalityType

(* Create calls and Delete calls are different calls. *)
LEMMA ProcsSplit ==
    /\ \A c \in Claims : c \in Procs /\ c \notin Deleters
    /\ \A d \in Deleters : d \in Procs /\ d \notin Claims
    /\ \A x \in Procs : x \in Claims \/ x \in Deleters
    /\ None \notin Procs
  BY ConstantsAssumption DEF Procs

-----------------------------------------------------------------------------
(* Type correctness *)

(* Adding and removing nodes keeps the types of the API's state. *)
LEMMA SetNodesTyped ==
    ASSUME ApiTypeOK, NEW p \in Pools, NEW nodes \in SUBSET Instances, SetNodes(p, nodes),
           pools' \in [Pools -> Keys \cup {None, Gone}],
           version' \in [Pools -> Versions \cup {None}],
           \A q \in Pools : q # p => pools'[q] = pools[q],
           nodes # {} => pools'[p] \in Keys
    PROVE  ApiTypeOK'
  <1>1. ASSUME NEW i \in Instances, home'[i] \in Pools PROVE pools'[home'[i]] \in Keys
    BY <1>1, ConstantsAssumption DEF ApiTypeOK, SetNodes, Members
  <1> QED
    BY <1>1 DEF ApiTypeOK, SetNodes

(* However an attempt of Create ends, the process state keeps its types. *)
LEMMA EndingsTyped ==
    ASSUME ProcTypeOK, NEW c \in Claims, pc[c] # "idle",
           delBackoff' = delBackoff, iced' \subseteq Types,
           \/ \E i \in Instances : Return(c, i)
           \/ \E f \in SUBSET Flags : WaitForNode(c, f)
           \/ \E b \in BOOLEAN : RetryLater(c, b)
           \/ Abort(c)
    PROVE  ProcTypeOK'
  <1> USE ProcsSplit DEF ProcTypeOK, CreatePC, PoolPC, InstPC, Unlock
  <1>0. ASSUME EndCall(c), Unlock(c), backoff' \subseteq backoff,
               returned' \in [Claims -> Instances \cup {None}]
        PROVE  ProcTypeOK'
    BY <1>0 DEF EndCall
  <1>1. ASSUME NEW i \in Instances, Return(c, i) PROVE ProcTypeOK'
    BY <1>0, <1>1 DEF Return
  <1>2. ASSUME NEW f \in SUBSET Flags, WaitForNode(c, f) PROVE ProcTypeOK'
    BY <1>2 DEF WaitForNode, EndAttempt
  <1>3. ASSUME NEW b \in BOOLEAN, RetryLater(c, b) PROVE ProcTypeOK'
    <2>1. ASSUME NEW f \in SUBSET Flags, EndAttempt(c, f), Unlock(c), UNCHANGED <<backoff, returned>>
          PROVE  ProcTypeOK'
      BY <2>1 DEF EndAttempt
    <2>2. flags[c] \cup {"poolErr"} \in SUBSET Flags /\ flags[c] \ {"poolErr"} \in SUBSET Flags
      BY DEF Flags
    <2>3. CASE b
      BY <1>3, <2>1, <2>2, <2>3 DEF RetryLater
    <2>4. CASE ~b
      BY <1>3, <2>1, <2>2, <2>4 DEF RetryLater
    <2> QED
      BY <2>3, <2>4
  <1>4. CASE Abort(c)
    BY <1>0, <1>4 DEF Abort
  <1> QED
    BY <1>1, <1>2, <1>3, <1>4

(* A refused request ends the attempt. *)
LEMMA FailuresTyped ==
    ASSUME ProcTypeOK, NEW c \in Claims, pc[c] # "idle",
           UNCHANGED <<delBackoff, iced>>,
           PoolRequestFails(c) \/ InstanceRequestFails(c)
    PROVE  ProcTypeOK'
  <1>1. iced' \subseteq Types
    BY DEF ProcTypeOK
  <1> QED
    BY <1>1, EndingsTyped DEF PoolRequestFails, InstanceRequestFails

(* Every step of a Create call keeps the types. *)
LEMMA CreateTyped ==
    ASSUME TypeOK, NEW c \in Claims
    PROVE  /\ \A k \in Keys, w \in Versions \cup {None} : StartCreate(c, k, w) => TypeOK'
           /\ LockPool(c) \/ CreateStep(c) \/ Retry(c) \/ GiveUp(c) => TypeOK'
  <1> USE ProcsSplit DEF TypeOK
  <1>1. ASSUME NEW k \in Keys, NEW w \in Versions \cup {None}, StartCreate(c, k, w)
        PROVE  TypeOK'
    BY <1>1 DEF StartCreate, Owned, apiVars, ApiTypeOK, ProcTypeOK, CreatePC, PoolPC, InstPC
  <1>2. ASSUME LockPool(c) PROVE TypeOK'
    BY <1>2 DEF LockPool, apiVars, locals, ApiTypeOK, ProcTypeOK, CreatePC, PoolPC, InstPC
  <1>3. ASSUME Recheck(c) PROVE TypeOK'
    <2>1. ApiTypeOK'
      BY <1>3 DEF Recheck, apiVars, ApiTypeOK
    <2>2. CASE \E i \in Owned(c) : Return(c, i)
      BY <1>3, <2>1, <2>2, EndingsTyped DEF Recheck, Owned, ApiTypeOK, ProcTypeOK
    <2>3. CASE pc' = [pc EXCEPT ![c] = "pools"] /\ UNCHANGED <<lockedBy, locals, backoff, returned>>
      BY <1>3, <2>1, <2>3 DEF Recheck, locals, ProcTypeOK, CreatePC, PoolPC, InstPC
    <2>4. CASE InstanceRequestFails(c)
      BY <1>3, <2>1, <2>4, FailuresTyped DEF Recheck
    <2> QED
      BY <1>3, <2>2, <2>3, <2>4 DEF Recheck
  <1>4. ASSUME FindPool(c) PROVE TypeOK'
    <2>1. ApiTypeOK'
      BY <1>4 DEF FindPool, apiVars, ApiTypeOK
    <2>2. ASSUME NEW p \in Pools, NEW next \in {"find", "version"}, UsePool(c, p, next)
          PROVE  TypeOK'
      <3>1. Cardinality(Members(p)) \in Nat
        BY MembersFinite
      <3> QED
        BY <1>4, <2>1, <2>2, <3>1 DEF FindPool, UsePool, ProcTypeOK, CreatePC, PoolPC, InstPC
    <2>3. CASE pc' = [pc EXCEPT ![c] = "create"] /\ UNCHANGED <<lockedBy, locals, backoff, returned>>
      BY <1>4, <2>1, <2>3 DEF FindPool, locals, ProcTypeOK, CreatePC, PoolPC, InstPC
    <2>4. CASE PoolRequestFails(c)
      BY <1>4, <2>1, <2>4, FailuresTyped DEF FindPool
    <2> QED
      BY <1>4, <2>2, <2>3, <2>4 DEF FindPool
  <1>5. ASSUME ReconcilePoolVersion(c) PROVE TypeOK'
    <2>1. ApiTypeOK'
      BY <1>5 DEF ReconcilePoolVersion, ApiTypeOK, ProcTypeOK
    <2>2. CASE pc' = [pc EXCEPT ![c] = "find"] /\ UNCHANGED <<lockedBy, locals, backoff, returned>>
      BY <1>5, <2>1, <2>2 DEF ReconcilePoolVersion, locals, ProcTypeOK, CreatePC, PoolPC, InstPC
    <2>3. CASE RetryLater(c, TRUE)
      BY <1>5, <2>1, <2>3, EndingsTyped DEF ReconcilePoolVersion, ProcTypeOK
    <2>4. CASE PoolRequestFails(c)
      BY <1>5, <2>1, <2>4, FailuresTyped DEF ReconcilePoolVersion
    <2> QED
      BY <1>5, <2>2, <2>3, <2>4 DEF ReconcilePoolVersion
  <1>6. ASSUME CreatePool(c) PROVE TypeOK'
    <2>0. key[c] \in Keys /\ TypeOf[key[c]] \in Types
      BY <1>6, ConstantsAssumption DEF CreatePool, ProcTypeOK
    <2>1. ASSUME NEW p \in Pools, NEW i \in Instances,
                 pools' = [pools EXCEPT ![p] = key[c]],
                 version' = [version EXCEPT ![p] = want[c]],
                 SetNodes(p, {i})
          PROVE  ApiTypeOK'
      BY <2>0, <2>1, SetNodesTyped DEF ApiTypeOK, ProcTypeOK
    <2>2. ASSUME NEW p \in Pools,
                 pc' = [pc EXCEPT ![c] = "find"],
                 pool' = [pool EXCEPT ![c] = p],
                 count' = [count EXCEPT ![c] = 1],
                 flags' = [flags EXCEPT ![c] = @ \cup {"createdPool"}],
                 UNCHANGED <<lockedBy, key, want, inst, backoff, returned, iced, delBackoff>>
          PROVE  ProcTypeOK'
      BY <1>6, <2>2 DEF CreatePool, ProcTypeOK, CreatePC, PoolPC, InstPC, Flags
    <2>3. ASSUME RetryLater(c, TRUE), UNCHANGED <<iced, delBackoff>> PROVE ProcTypeOK'
      BY <1>6, <2>3, EndingsTyped DEF CreatePool, ProcTypeOK
    <2>4. CASE PoolRequestFails(c) /\ UNCHANGED <<apiVars, iced>>
      BY <1>6, <2>4, FailuresTyped DEF CreatePool, apiVars, ApiTypeOK
    <2>5. CASE Abort(c) /\ MarkUnavailable(c) /\ UNCHANGED apiVars
      <3>1. iced' \subseteq Types
        BY <2>0, <2>5 DEF MarkUnavailable, ProcTypeOK
      <3> QED
        BY <1>6, <2>5, <3>1, EndingsTyped DEF CreatePool, apiVars, ApiTypeOK
    <2> QED
      BY <1>6, <2>1, <2>2, <2>3, <2>4, <2>5 DEF CreatePool
  <1>7. ASSUME FindClaimable(c) PROVE TypeOK'
    <2>1. ApiTypeOK'
      BY <1>7 DEF FindClaimable, apiVars, ApiTypeOK
    <2>2. ASSUME NEW i \in Claimable(pool[c]),
                 pc' = [pc EXCEPT ![c] = "claim"],
                 inst' = [inst EXCEPT ![c] = i],
                 UNCHANGED <<lockedBy, key, want, pool, count, flags, backoff, returned>>
          PROVE  TypeOK'
      <3>1. i \in Instances
        BY DEF Claimable, Members, Linodes
      <3> QED
        BY <1>7, <2>1, <2>2, <3>1 DEF FindClaimable, ProcTypeOK, CreatePC, PoolPC, InstPC
    <2>3. CASE WaitForNode(c, flags[c])
      BY <1>7, <2>1, <2>3, EndingsTyped DEF FindClaimable, ProcTypeOK
    <2>4. CASE pc' = [pc EXCEPT ![c] = "plan"] /\ UNCHANGED <<lockedBy, locals, backoff, returned>>
      BY <1>7, <2>1, <2>4 DEF FindClaimable, locals, ProcTypeOK, CreatePC, PoolPC, InstPC
    <2>5. CASE InstanceRequestFails(c)
      BY <1>7, <2>1, <2>5, FailuresTyped DEF FindClaimable
    <2> QED
      BY <1>7, <2>2, <2>3, <2>4, <2>5 DEF FindClaimable
  <1>8. ASSUME WriteClaim(c) PROVE TypeOK'
    <2>1. ApiTypeOK'
      BY <1>8 DEF WriteClaim, ApiTypeOK
    <2>2. CASE pc' = [pc EXCEPT ![c] = "verify"] /\ UNCHANGED <<lockedBy, locals, backoff, returned>>
      BY <1>8, <2>1, <2>2 DEF WriteClaim, locals, ProcTypeOK, CreatePC, PoolPC, InstPC
    <2>3. CASE RetryLater(c, FALSE)
      BY <1>8, <2>1, <2>3, EndingsTyped DEF WriteClaim, ProcTypeOK
    <2> QED
      BY <1>8, <2>2, <2>3 DEF WriteClaim
  <1>9. ASSUME VerifyTagsApplied(c) PROVE TypeOK'
    <2>1. ApiTypeOK' /\ inst[c] \in Instances
      BY <1>9 DEF VerifyTagsApplied, apiVars, ApiTypeOK, ProcTypeOK, InstPC
    <2> QED
      BY <1>9, <2>1, EndingsTyped DEF VerifyTagsApplied, ProcTypeOK
  <1>10. ASSUME CheckPlanAvailability(c) PROVE TypeOK'
    <2>1. ApiTypeOK' /\ TypeOf[key[c]] \in Types
      BY <1>10, ConstantsAssumption DEF CheckPlanAvailability, apiVars, ApiTypeOK, ProcTypeOK
    <2>2. CASE pc' = [pc EXCEPT ![c] = "scale"] /\ UNCHANGED <<lockedBy, locals, backoff, returned, iced>>
      BY <1>10, <2>1, <2>2 DEF CheckPlanAvailability, locals, ProcTypeOK, CreatePC, PoolPC, InstPC
    <2>3. CASE Abort(c) /\ MarkUnavailable(c)
      <3>1. iced' \subseteq Types
        BY <2>1, <2>3 DEF MarkUnavailable, ProcTypeOK
      <3> QED
        BY <1>10, <2>1, <2>3, <3>1, EndingsTyped DEF CheckPlanAvailability
    <2> QED
      BY <1>10, <2>2, <2>3 DEF CheckPlanAvailability
  <1>11. ASSUME ScalePool(c) PROVE TypeOK'
    <2>1. ProcTypeOK'
      <3>1. flags[c] \cup {"scaledOnce"} \in SUBSET Flags
        BY DEF ProcTypeOK, Flags
      <3>2. iced' \subseteq Types /\ delBackoff' = delBackoff /\ iced' = iced /\ pc[c] # "idle"
        BY <1>11 DEF ProcTypeOK, ScalePool
      <3>3. CASE WaitForNode(c, flags[c] \cup {"scaledOnce"}) \/ RetryLater(c, TRUE) \/ Abort(c)
        BY <3>1, <3>2, <3>3, EndingsTyped
      <3>4. CASE PoolRequestFails(c)
        BY <3>2, <3>4, FailuresTyped
      <3> QED
        BY <1>11, <3>3, <3>4 DEF ScalePool
    <2>2. pool[c] \in Pools
      BY <1>11 DEF ScalePool, ProcTypeOK, PoolPC
    <2>3. ASSUME NEW nodes \in SUBSET Instances, SetNodes(pool[c], nodes),
                 Resized(pool[c], count[c] + 1, nodes)
          PROVE  ApiTypeOK'
      BY <1>11, <2>2, <2>3, SetNodesTyped DEF ScalePool, ApiTypeOK, Resized
    <2>4. CASE UNCHANGED <<home, owner, booted, stale, unlisted>>
      BY <1>11, <2>1, <2>4 DEF ScalePool, ApiTypeOK
    <2>5. \/ \E nodes \in SUBSET Instances :
               Resized(pool[c], count[c] + 1, nodes) /\ SetNodes(pool[c], nodes)
          \/ UNCHANGED <<home, owner, booted, stale, unlisted>>
      BY <1>11 DEF ScalePool
    <2> QED
      BY <2>1, <2>3, <2>4, <2>5
  <1>12. ASSUME Retry(c) PROVE TypeOK'
    BY <1>12 DEF Retry, apiVars, locals, ApiTypeOK, ProcTypeOK, CreatePC, PoolPC, InstPC
  <1>13. ASSUME GiveUp(c) PROVE TypeOK'
    BY <1>13 DEF GiveUp, EndCall, apiVars, ApiTypeOK, ProcTypeOK, CreatePC, PoolPC, InstPC
  <1> QED
    BY <1>1, <1>2, <1>3, <1>4, <1>5, <1>6, <1>7, <1>8, <1>9, <1>10, <1>11, <1>12, <1>13 DEF CreateStep

(* However a Delete call ends, the process state keeps its types. *)
LEMMA EndDeleteTyped ==
    ASSUME ProcTypeOK, NEW d \in Deleters, pc[d] # "idle",
           UNCHANGED <<backoff, iced, returned>>,
           (\E b \in BOOLEAN : EndDelete(d, b)) \/ DeleteRequestFails(d)
    PROVE  ProcTypeOK'
  BY ProcsSplit
     DEF ProcTypeOK, EndDelete, DeleteRequestFails, EndCall, Unlock, DeletePC, CreatePC, PoolPC, InstPC

(* Every step of a Delete call keeps the types. *)
LEMMA DeleteTyped ==
    ASSUME TypeOK, NEW d \in Deleters
    PROVE  /\ \A i \in Instances : StartDelete(d, i) => TypeOK'
           /\ LockForDelete(d) \/ DeleteStep(d) => TypeOK'
  <1> USE ProcsSplit DEF TypeOK
  <1>1. ASSUME NEW i \in Instances, StartDelete(d, i) PROVE TypeOK'
    <2>1. ApiTypeOK'
      BY <1>1 DEF StartDelete, apiVars, ApiTypeOK
    <2>2. ASSUME NEW p \in PoolListing(i) PROVE pools[p] \in Keys
      BY DEF PoolListing, Linodes, Members, ApiTypeOK
    <2> QED
      BY <1>1, <2>1, <2>2 DEF StartDelete, ProcTypeOK, CreatePC, DeletePC, PoolPC, InstPC
  <1>2. ASSUME LockForDelete(d) PROVE TypeOK'
    BY <1>2 DEF LockForDelete, apiVars, locals, ApiTypeOK, ProcTypeOK, DeletePC, PoolPC, InstPC
  <1>3. ASSUME RefreshMembership(d) PROVE TypeOK'
    <2>1. ApiTypeOK'
      BY <1>3 DEF RefreshMembership, apiVars, ApiTypeOK
    <2>2. ASSUME NEW p \in PoolListing(inst[d]),
                 pc' = [pc EXCEPT ![d] = IF Cardinality(Linodes(p)) <= 1 THEN "delpool" ELSE "delnode"],
                 pool' = [pool EXCEPT ![d] = p],
                 UNCHANGED <<lockedBy, key, want, count, inst, flags, delBackoff>>
          PROVE  TypeOK'
      <3>1. p \in Pools
        BY DEF PoolListing
      <3> QED
        BY <1>3, <2>1, <2>2, <3>1 DEF RefreshMembership, ProcTypeOK, DeletePC, PoolPC, InstPC
    <2>3. CASE EndDelete(d, FALSE) \/ DeleteRequestFails(d)
      BY <1>3, <2>1, <2>3, EndDeleteTyped DEF RefreshMembership
    <2> QED
      BY <1>3, <2>2, <2>3 DEF RefreshMembership
  <1>4. ASSUME DeletePool(d) PROVE TypeOK'
    <2>1. ProcTypeOK'
      BY <1>4, EndDeleteTyped DEF DeletePool
    <2>2. pool[d] \in Pools
      BY <1>4 DEF DeletePool, ProcTypeOK, PoolPC
    <2>3. CASE /\ pools' = [pools EXCEPT ![pool[d]] = Gone]
               /\ version' = [version EXCEPT ![pool[d]] = None]
               /\ SetNodes(pool[d], {})
      BY <2>1, <2>2, <2>3, SetNodesTyped DEF ApiTypeOK
    <2>4. CASE UNCHANGED apiVars
      BY <2>1, <2>4 DEF apiVars, ApiTypeOK
    <2> QED
      BY <1>4, <2>3, <2>4 DEF DeletePool
  <1>5. ASSUME DeletePoolNode(d) PROVE TypeOK'
    <2>1. ProcTypeOK'
      BY <1>5, EndDeleteTyped DEF DeletePoolNode
    <2>2. pool[d] \in Pools /\ Members(pool[d]) \ {inst[d]} \in SUBSET Instances
      BY <1>5 DEF DeletePoolNode, ProcTypeOK, PoolPC, Members
    <2>3. CASE SetNodes(pool[d], Members(pool[d]) \ {inst[d]})
      BY <1>5, <2>1, <2>2, <2>3, SetNodesTyped DEF DeletePoolNode, ApiTypeOK, Members
    <2>4. CASE UNCHANGED <<home, owner, booted, stale, unlisted>>
      BY <1>5, <2>1, <2>4 DEF DeletePoolNode, ApiTypeOK
    <2> QED
      BY <1>5, <2>3, <2>4 DEF DeletePoolNode
  <1> QED
    BY <1>1, <1>2, <1>3, <1>4, <1>5 DEF DeleteStep

(* Every step keeps the types. *)
LEMMA TypeStep ==
    ASSUME TypeOK, [Next]_vars
    PROVE  TypeOK'
  <1>1. CASE Environment
    BY <1>1 DEF Environment, Boot, ShowInPool, IndexTags, BackoffElapses, OfferingReturns, Alive,
       TypeOK, ApiTypeOK, ProcTypeOK, apiVars, procVars, locals
  <1>2. CASE Crash
    BY <1>2, ProcsSplit
       DEF Crash, TypeOK, ApiTypeOK, ProcTypeOK, apiVars, CreatePC, DeletePC, PoolPC, InstPC
  <1>3. CASE UNCHANGED vars
    BY <1>3 DEF vars, TypeOK, ApiTypeOK, ProcTypeOK, apiVars, procVars, locals
  <1> QED
    BY <1>1, <1>2, <1>3, CreateTyped, DeleteTyped DEF Next, Running

(* The initial state has the types. *)
LEMMA TypeInit == Init => TypeOK
  BY ConstantsAssumption, ProcsSplit
     DEF Init, TypeOK, ApiTypeOK, ProcTypeOK, CreatePC, DeletePC, PoolPC, InstPC

(* Type correctness of the provider: whatever the calls, the faults and    *)
(* the crashes, every variable keeps its type and every call has the key,  *)
(* the pool and the instance it is about to use.                           *)
THEOREM TypeCorrect == Spec => []TypeOK
  BY TypeInit, TypeStep, PTL DEF Spec

=============================================================================

--------------------------- MODULE LKEClaimProofs ---------------------------
(* Machine-checked proofs of what the LKE provider promises about claims:  *)
(* no tag is overwritten, nothing but its target is deleted, a claim owns  *)
(* one instance, and the provider implements ClaimLedger.                  *)
EXTENDS LKESafetyProofs

-----------------------------------------------------------------------------
(* The six things a step can do to nodes, tags and answers *)

ReadOnly == UNCHANGED <<home, owner, booted, returned>>

Booting ==
    \E i \in Instances :
        /\ Alive(i) /\ i \notin booted
        /\ booted' = booted \cup {i}
        /\ UNCHANGED <<home, owner, returned>>

Tagging(c) ==
    /\ pc[c] = "claim" /\ pc'[c] \in {"verify", "sleep"}
    /\ inst[c] \in booted
    /\ owner' = [owner EXCEPT ![inst[c]] = c]
    /\ UNCHANGED <<home, booted, returned>>

Answering(c) ==
    \E i \in booted :
        /\ owner[i] = c
        /\ returned' = [returned EXCEPT ![c] = i]
        /\ UNCHANGED <<home, owner, booted>>

Growing ==
    \E p \in Pools, nodes \in SUBSET Instances :
        /\ \A j \in nodes : home[j] \in {p, None}
        /\ home' = [j \in Instances |-> IF j \in nodes THEN p ELSE home[j]]
        /\ UNCHANGED <<owner, booted, returned>>

Shrinking(d) ==
    \E nodes \in SUBSET Members(pool[d]) :
        /\ pc[d] \in {"delpool", "delnode"}
        /\ ~Enterprise => Members(pool[d]) \ nodes \subseteq {inst[d]}
        /\ SetNodes(pool[d], nodes)
        /\ UNCHANGED returned

Effect ==
    \/ ReadOnly
    \/ Booting
    \/ \E c \in Claims : Tagging(c) \/ Answering(c)
    \/ Growing
    \/ \E d \in Deleters : Shrinking(d)

(* Setting the nodes of a pool to more than it has only adds nodes. *)
LEMMA SetNodesGrows ==
    ASSUME TypeOK, NEW p \in Pools, NEW nodes \in SUBSET Instances, SetNodes(p, nodes),
           Members(p) \subseteq nodes, \A j \in nodes : home[j] \in {p, None}, UNCHANGED returned
    PROVE  Growing
  <1>1. Members(p) \ nodes = {}
    OBVIOUS
  <1>2. UNCHANGED <<owner, booted>>
    BY <1>1 DEF SetNodes, TypeOK, ApiTypeOK
  <1>3. home' = [j \in Instances |-> IF j \in nodes THEN p ELSE home[j]]
    BY <1>1 DEF SetNodes
  <1> QED
    BY <1>2, <1>3 DEF Growing

(* A Create step has one of the effects. *)
LEMMA CreateEffect ==
    ASSUME PoolInv, NEW c \in Claims
    PROVE  /\ \A k \in Keys, w \in Versions \cup {None} : StartCreate(c, k, w) => Effect
           /\ LockPool(c) \/ CreateStep(c) \/ Retry(c) \/ GiveUp(c) => Effect
  <1>0. TypeOK /\ c \in Procs
    BY ProcsSplit DEF PoolInv
  <1>1. ASSUME NEW k \in Keys, NEW w \in Versions \cup {None}, StartCreate(c, k, w) PROVE Effect
    BY <1>1 DEF StartCreate, Owned, apiVars, Effect, Answering, ReadOnly
  <1>2. ASSUME LockPool(c) \/ Retry(c) \/ GiveUp(c) PROVE Effect
    BY <1>2 DEF LockPool, Retry, GiveUp, apiVars, Effect, ReadOnly
  <1>e. /\ \A f : WaitForNode(c, f) => UNCHANGED returned
        /\ \A b : RetryLater(c, b) => UNCHANGED returned
        /\ Abort(c) => UNCHANGED returned
        /\ PoolRequestFails(c) \/ InstanceRequestFails(c) => UNCHANGED returned
    BY DEF WaitForNode, RetryLater, Abort, PoolRequestFails, InstanceRequestFails
  <1>3. ASSUME Recheck(c) PROVE Effect
    BY <1>3, <1>e DEF Recheck, Return, Owned, apiVars, Effect, Answering, ReadOnly
  <1>4. ASSUME FindPool(c) \/ FindClaimable(c) \/ CheckPlanAvailability(c) PROVE Effect
    BY <1>4, <1>e DEF FindPool, UsePool, FindClaimable, CheckPlanAvailability, apiVars, Effect, ReadOnly
  <1>5. ASSUME ReconcilePoolVersion(c) PROVE Effect
    BY <1>5, <1>e DEF ReconcilePoolVersion, Effect, ReadOnly
  <1>6. ASSUME VerifyTagsApplied(c) PROVE Effect
    BY <1>6, <1>e DEF VerifyTagsApplied, Return, apiVars, Effect, Answering, ReadOnly
  <1>7. ASSUME CreatePool(c) PROVE Effect
    <2>1. UNCHANGED returned
      BY <1>7, <1>e DEF CreatePool
    <2>2. ASSUME NEW p \in Pools, NEW i \in Instances, pools[p] = None, home[i] = None, SetNodes(p, {i})
          PROVE  Growing
      <3>1. Members(p) = {}
        BY <2>2, ConstantsAssumption DEF Members, PoolInv, TypeOK, ApiTypeOK
      <3> QED
        BY <1>0, <2>1, <2>2, <3>1, SetNodesGrows
    <2> QED
      BY <1>7, <2>1, <2>2 DEF CreatePool, apiVars, Effect, ReadOnly
  <1>8. ASSUME WriteClaim(c) PROVE Effect
    <2>1. UNCHANGED <<home, booted, returned>> /\ pc[c] = "claim"
      BY <1>8, <1>e DEF WriteClaim
    <2>2. RetryLater(c, FALSE) => pc'[c] = "sleep"
      BY <1>0 DEF RetryLater, EndAttempt, TypeOK, ProcTypeOK
    <2>3. pc' = [pc EXCEPT ![c] = "verify"] => pc'[c] = "verify"
      BY <1>0 DEF TypeOK, ProcTypeOK
    <2> QED
      BY <1>8, <2>1, <2>2, <2>3 DEF WriteClaim, Effect, Tagging, ReadOnly
  <1>9. ASSUME ScalePool(c) PROVE Effect
    <2>1. UNCHANGED returned
      BY <1>9, <1>e DEF ScalePool
    <2>2. pc[c] = "scale" /\ pool[c] \in Pools
      BY <1>0, <1>9 DEF ScalePool, TypeOK, ProcTypeOK, PoolPC
    <2>3. ASSUME NEW nodes \in SUBSET Instances, Resized(pool[c], count[c] + 1, nodes),
                 SetNodes(pool[c], nodes)
          PROVE  Growing
      <3>1. \A j \in nodes : home[j] \in {pool[c], None}
        BY <2>3 DEF Resized, Members
      <3> QED
        BY <1>0, <2>1, <2>2, <2>3, <3>1, ScaleGrows, SetNodesGrows
    <2>4. \/ \E nodes \in SUBSET Instances :
               Resized(pool[c], count[c] + 1, nodes) /\ SetNodes(pool[c], nodes)
          \/ UNCHANGED <<home, owner, booted, stale, unlisted>>
      BY <1>9 DEF ScalePool
    <2> QED
      BY <2>1, <2>3, <2>4 DEF Effect, ReadOnly
  <1> QED
    BY <1>1, <1>2, <1>3, <1>4, <1>5, <1>6, <1>7, <1>8, <1>9 DEF CreateStep

(* Every step has one of the effects. *)
LEMMA StepEffect ==
    ASSUME PoolInv, [Next]_vars
    PROVE  Effect
  <1>1. ASSUME NEW d \in Deleters, NEW i \in Instances, StartDelete(d, i) PROVE Effect
    BY <1>1 DEF StartDelete, apiVars, Effect, ReadOnly
  <1>2. ASSUME NEW d \in Deleters, LockForDelete(d) \/ RefreshMembership(d) PROVE Effect
    BY <1>2 DEF LockForDelete, RefreshMembership, apiVars, Effect, ReadOnly
  <1>3. ASSUME NEW d \in Deleters, DeletePool(d) PROVE Effect
    <2>1. pc[d] = "delpool" /\ UNCHANGED returned
      BY <1>3 DEF DeletePool
    <2>2. ~Enterprise => Members(pool[d]) \ {} \subseteq {inst[d]}
      BY <2>1 DEF PoolInv, DeleteInv
    <2>3. CASE SetNodes(pool[d], {})
      BY <2>1, <2>2, <2>3 DEF Effect, Shrinking
    <2>4. CASE UNCHANGED apiVars
      BY <2>1, <2>4 DEF apiVars, Effect, ReadOnly
    <2> QED
      BY <1>3, <2>3, <2>4 DEF DeletePool
  <1>4. ASSUME NEW d \in Deleters, DeletePoolNode(d) PROVE Effect
    <2>1. pc[d] = "delnode" /\ UNCHANGED returned
      BY <1>4 DEF DeletePoolNode
    <2>2. CASE SetNodes(pool[d], Members(pool[d]) \ {inst[d]})
      <3>1. Members(pool[d]) \ (Members(pool[d]) \ {inst[d]}) \subseteq {inst[d]}
        OBVIOUS
      <3> QED
        BY <2>1, <2>2, <3>1 DEF Effect, Shrinking
    <2>3. CASE UNCHANGED <<home, owner, booted, stale, unlisted>>
      BY <2>1, <2>3 DEF Effect, ReadOnly
    <2> QED
      BY <1>4, <2>2, <2>3 DEF DeletePoolNode
  <1>5. CASE Environment
    BY <1>5 DEF Environment, Boot, ShowInPool, IndexTags, BackoffElapses, OfferingReturns,
       apiVars, procVars, Effect, Booting, ReadOnly
  <1>6. CASE Crash \/ UNCHANGED vars
    BY <1>6 DEF Crash, vars, apiVars, procVars, Effect, ReadOnly
  <1> QED
    BY <1>1, <1>2, <1>3, <1>4, <1>5, <1>6, CreateEffect DEF Next, Running, DeleteStep

-----------------------------------------------------------------------------
(* What no step does *)

(* A tag, once set, stays for as long as its instance lives. *)
LEMMA TagStays ==
    ASSUME ~(Enterprise /\ ListLag), PoolInv, [Next]_vars,
           NEW i \in Instances, owner[i] # None, home'[i] \in Pools
    PROVE  owner'[i] = owner[i]
  <1>1. Effect /\ TypeOK
    BY StepEffect DEF PoolInv
  <1>2. ASSUME NEW c \in Claims, Tagging(c) PROVE owner'[i] = owner[i]
    <2>1. owner[inst[c]] = None
      BY <1>2 DEF PoolInv, CreateInv, Tagging
    <2> QED
      BY <1>1, <1>2, <2>1 DEF Tagging, TypeOK, ApiTypeOK
  <1>3. ASSUME NEW d \in Deleters, Shrinking(d) PROVE owner'[i] = owner[i]
    BY <1>3, ConstantsAssumption DEF Shrinking, SetNodes, Members
  <1> QED
    BY <1>1, <1>2, <1>3 DEF Effect, ReadOnly, Booting, Answering, Growing

(* While the tag search and the pool listing do not both lag, no Create    *)
(* overwrites the ownership tag of another: the tag claimInstance read     *)
(* under the pool lock is still unset when UpdateInstance is sent.         *)
THEOREM NoDoubleClaimHolds ==
    ASSUME ~(Enterprise /\ ListLag)
    PROVE  Spec => NoDoubleClaim
  <1>1. PoolInv /\ [Next]_vars =>
          [\A i \in Instances : owner[i] # None /\ home'[i] \in Pools => owner'[i] = owner[i]]_vars
    BY TagStays
  <1> QED
    BY <1>1, PoolInvariant, PTL DEF Spec, NoDoubleClaim

(* On the Standard tier a node only disappears because a Delete call was   *)
(* asked to delete it: the membership read under the lock decides between  *)
(* node and pool, and no scale ever shrinks a pool.                        *)
THEOREM DeletesOnlyTargetHolds ==
    ASSUME ~Enterprise
    PROVE  Spec => DeletesOnlyTarget
  <1> DEFINE Target(i) == \E d \in Deleters : pc[d] \in {"delpool", "delnode"} /\ inst[d] = i
  <1>1. ASSUME PoolInv, [Next]_vars, NEW i \in Instances, Alive(i), home'[i] = Gone PROVE Target(i)
    <2>1. Effect /\ Gone \notin Pools
      BY <1>1, StepEffect, ConstantsAssumption
    <2>2. ASSUME home'[i] = home[i] PROVE FALSE
      BY <1>1, <2>1, <2>2 DEF Alive
    <2>3. CASE Growing
      BY <1>1, <2>1, <2>3 DEF Growing, Alive
    <2>4. ASSUME NEW d \in Deleters, Shrinking(d) PROVE Target(i)
      <3>1. PICK nodes \in SUBSET Members(pool[d]) :
              /\ pc[d] \in {"delpool", "delnode"}
              /\ Members(pool[d]) \ nodes \subseteq {inst[d]}
              /\ SetNodes(pool[d], nodes)
        BY <2>4 DEF Shrinking
      <3>2. i \in Members(pool[d]) \ nodes
        BY <1>1, <2>1, <3>1 DEF SetNodes, Alive, Members
      <3> QED
        BY <3>1, <3>2
    <2> QED
      BY <2>1, <2>2, <2>3, <2>4 DEF Effect, ReadOnly, Booting, Answering, Tagging
  <1>2. PoolInv /\ [Next]_vars =>
          [\A i \in Instances : Alive(i) /\ home'[i] = Gone => Target(i)]_vars
    BY <1>1
  <1> QED
    BY <1>2, PoolInvariant, PTL DEF Spec, DeletesOnlyTarget

-----------------------------------------------------------------------------
(* One instance per claim *)

Searching == {"pools", "version", "create", "find", "claim", "plan", "scale"}

(* A Create call only starts to look for an instance after its ownership   *)
(* lookup under the lock found none.                                       *)
LEMMA SearchStarts ==
    ASSUME PoolInv, [Next]_vars, NEW c \in Claims, pc'[c] \in Searching
    PROVE  pc[c] \in Searching \/ (pc[c] = "recheck" /\ Owned(c) = {})
  <1> DEFINE Goal == pc[c] \in Searching \/ (pc[c] = "recheck" /\ Owned(c) = {})
  <1>0. TypeOK /\ c \in Procs /\ c \notin Deleters /\ pc \in [Procs -> CreatePC \cup DeletePC]
    BY ProcsSplit DEF PoolInv, TypeOK, ProcTypeOK
  <1>1. ASSUME NEW y \in Procs, Ended(y) PROVE Goal
    BY <1>0, <1>1 DEF Ended, OthersSame, Same, Searching
  <1>2. ASSUME NEW y \in Claims, CreateStep(y) PROVE Goal
    <2>0. y \in Procs
      BY ProcsSplit
    <2>1. ASSUME NEW s, pc' = [pc EXCEPT ![y] = s], pc[y] \in Searching PROVE Goal
      BY <1>0, <2>0, <2>1
    <2>2. CASE Recheck(y)
      BY <1>0, <1>1, <2>0, <2>2, EndingsEnd DEF Recheck, Owned, TypeOK, ApiTypeOK
    <2>3. CASE FindPool(y)
      BY <1>0, <1>1, <2>0, <2>1, <2>3, EndingsEnd DEF FindPool, UsePool, Searching
    <2>4. CASE ReconcilePoolVersion(y)
      BY <1>0, <1>1, <2>0, <2>1, <2>4, EndingsEnd DEF ReconcilePoolVersion, Searching
    <2>5. CASE CreatePool(y)
      BY <1>0, <1>1, <2>0, <2>1, <2>5, EndingsEnd DEF CreatePool, Searching
    <2>6. CASE FindClaimable(y)
      BY <1>0, <1>1, <2>0, <2>1, <2>6, EndingsEnd DEF FindClaimable, Searching
    <2>7. CASE WriteClaim(y)
      BY <1>0, <1>1, <2>0, <2>1, <2>7, EndingsEnd DEF WriteClaim, Searching
    <2>8. CASE VerifyTagsApplied(y)
      <3>1. inst[y] \in booted => inst[y] \in Instances
        BY <1>0 DEF TypeOK, ApiTypeOK
      <3> QED
        BY <1>0, <1>1, <2>0, <2>8, <3>1, EndingsEnd DEF VerifyTagsApplied
    <2>9. CASE CheckPlanAvailability(y)
      BY <1>0, <1>1, <2>0, <2>1, <2>9, EndingsEnd DEF CheckPlanAvailability, Searching
    <2>10. CASE ScalePool(y)
      BY <1>0, <1>1, <2>0, <2>10, EndingsEnd DEF ScalePool
    <2> QED
      BY <1>2, <2>2, <2>3, <2>4, <2>5, <2>6, <2>7, <2>8, <2>9, <2>10 DEF CreateStep
  <1>3. ASSUME NEW y \in Claims,
               \/ \E k \in Keys, w \in Versions \cup {None} : StartCreate(y, k, w)
               \/ LockPool(y) \/ Retry(y) \/ GiveUp(y)
        PROVE  Goal
    BY <1>0, <1>3, ProcsSplit DEF StartCreate, LockPool, Retry, GiveUp, EndCall, Searching
  <1>4. ASSUME NEW d \in Deleters,
               (\E i \in Instances : StartDelete(d, i)) \/ LockForDelete(d)
        PROVE  Goal
    BY <1>0, <1>4, ProcsSplit DEF StartDelete, LockForDelete
  <1>5. ASSUME NEW d \in Deleters, DeleteStep(d) PROVE Goal
    <2>0. d \in Procs
      BY ProcsSplit
    <2>1. CASE RefreshMembership(d)
      BY <1>0, <1>1, <2>0, <2>1, EndingsEnd DEF RefreshMembership
    <2>2. CASE DeletePool(d) \/ DeletePoolNode(d)
      BY <1>0, <1>1, <2>0, <2>2, EndingsEnd DEF DeletePool, DeletePoolNode
    <2> QED
      BY <1>5, <2>1, <2>2 DEF DeleteStep
  <1>6. CASE Environment \/ UNCHANGED vars
    BY <1>0, <1>6 DEF Environment, Boot, ShowInPool, IndexTags, BackoffElapses, OfferingReturns,
       vars, procVars
  <1>7. CASE Crash
    BY <1>0, <1>7 DEF Crash, Searching
  <1> QED
    BY <1>2, <1>3, <1>4, <1>5, <1>6, <1>7 DEF Next, Running

(* No node is ever requested twice. *)
LEMMA HomeStays ==
    ASSUME PoolInv, [Next]_vars, NEW i \in Instances, home[i] # None
    PROVE  /\ home'[i] # None
           /\ home'[i] \in Pools => home[i] \in Pools
  <1>1. Effect /\ TypeOK
    BY StepEffect DEF PoolInv
  <1>2. CASE Growing
    BY <1>1, <1>2, ConstantsAssumption DEF Growing, TypeOK, ApiTypeOK
  <1>3. ASSUME NEW d \in Deleters, Shrinking(d) PROVE home'[i] # None /\ (home'[i] \in Pools => home[i] \in Pools)
    BY <1>1, <1>3, ConstantsAssumption DEF Shrinking, SetNodes, Members, TypeOK, ApiTypeOK
  <1> QED
    BY <1>1, <1>2, <1>3 DEF Effect, ReadOnly, Booting, Tagging, Answering

(* The invariant of claims: with an up to date tag search a claim owns at  *)
(* most one instance, and none while its call looks for one; what Create   *)
(* returned carries the claim's tag.                                       *)
THEOREM ClaimInvariant == Spec => [](PoolInv /\ ClaimInv)
  <1>1. Init => ClaimInv
    BY ProcsSplit DEF Init, ClaimInv, OneInstancePerClaim, OwnsNothing, ReturnedIsOwned
  <1>2. ASSUME PoolInv, ClaimInv, [Next]_vars PROVE ClaimInv'
    <2>1. Effect /\ TypeOK /\ TypeOK'
      BY <1>2, StepEffect, TypeStep DEF PoolInv
    <2>2. ASSUME ~ListLag PROVE OneInstancePerClaim'
      <3>1. ASSUME NEW c \in Claims, Tagging(c) PROVE OneInstancePerClaim'
        <4>1. \A i \in Instances : owner[i] # c
          BY <1>2, <2>2, <3>1 DEF ClaimInv, OwnsNothing, Tagging
        <4> QED
          BY <1>2, <2>1, <2>2, <3>1, <4>1 DEF ClaimInv, OneInstancePerClaim, Tagging, TypeOK, ApiTypeOK
      <3>2. ASSUME NEW d \in Deleters, Shrinking(d) PROVE OneInstancePerClaim'
        BY <1>2, <2>2, <3>2 DEF ClaimInv, OneInstancePerClaim, Shrinking, SetNodes
      <3>3. CASE UNCHANGED owner
        BY <1>2, <2>2, <3>3 DEF ClaimInv, OneInstancePerClaim
      <3> QED
        BY <2>1, <3>1, <3>2, <3>3 DEF Effect, ReadOnly, Booting, Answering, Growing
    <2>3. ASSUME ~ListLag, NEW c \in Claims PROVE OwnsNothing(c)'
      <3> SUFFICES ASSUME pc'[c] \in Searching, NEW i \in Instances PROVE owner'[i] # c
        BY DEF OwnsNothing, Searching
      <3>1. owner[i] # c
        <4>1. CASE pc[c] \in Searching
          BY <1>2, <2>3, <4>1 DEF ClaimInv, OwnsNothing, Searching
        <4>2. CASE Owned(c) = {}
          BY <1>2, <2>3, <4>2, ProcsSplit DEF PoolInv, ApiInv, Owned
        <4> QED
          BY <1>2, <4>1, <4>2, SearchStarts
      <3>2. ASSUME NEW y \in Claims, Tagging(y) PROVE owner'[i] # c
        BY <2>1, <3>1, <3>2 DEF Tagging, Searching, TypeOK, ApiTypeOK
      <3>3. ASSUME NEW d \in Deleters, Shrinking(d) PROVE owner'[i] # c
        BY <3>1, <3>3, ProcsSplit DEF Shrinking, SetNodes
      <3> QED
        BY <2>1, <3>1, <3>2, <3>3 DEF Effect, ReadOnly, Booting, Answering, Growing
    <2>4. ASSUME NEW c \in Claims, returned'[c] # None
          PROVE  /\ returned'[c] \in Instances
                 /\ \/ returned'[c] = returned[c] /\ home[returned[c]] # None
                    \/ UNCHANGED <<home, owner>> /\ owner[returned'[c]] = c /\ home[returned'[c]] \in Pools
      <3>1. returned'[c] \in Instances
        BY <2>1, <2>4 DEF TypeOK, ProcTypeOK
      <3>2. CASE returned' = returned
        BY <1>2, <2>4, <3>1, <3>2 DEF ClaimInv
      <3>3. ASSUME NEW y \in Claims, Answering(y)
            PROVE  \/ returned'[c] = returned[c] /\ home[returned[c]] # None
                   \/ UNCHANGED <<home, owner>> /\ owner[returned'[c]] = c /\ home[returned'[c]] \in Pools
        BY <1>2, <2>1, <2>4, <3>3 DEF Answering, PoolInv, ApiInv, Alive, ClaimInv, TypeOK, ProcTypeOK
      <3> QED
        BY <2>1, <3>1, <3>2, <3>3 DEF Effect, ReadOnly, Booting, Tagging, Growing, Shrinking
    <2>5. \A c \in Claims : returned'[c] # None => home'[returned'[c]] # None
      BY <1>2, <2>4, HomeStays, ConstantsAssumption
    <2>6. ASSUME ~(Enterprise /\ ListLag) PROVE ReturnedIsOwned'
      <3> SUFFICES ASSUME NEW c \in Claims, returned'[c] # None, home'[returned'[c]] \in Pools
                   PROVE  owner'[returned'[c]] = c
        BY DEF ReturnedIsOwned, Alive
      <3> DEFINE j == returned'[c]
      <3>1. j \in Instances
        BY <2>4
      <3>2. owner[j] = c
        <4>1. CASE returned'[c] = returned[c] /\ home[returned[c]] # None
          BY <1>2, <2>6, <3>1, <4>1, HomeStays DEF ClaimInv, ReturnedIsOwned, Alive
        <4> QED
          BY <2>4, <4>1
      <3>3. owner[j] # None
        BY <3>2, ProcsSplit
      <3> HIDE DEF j
      <3>4. owner'[j] = owner[j]
        BY <1>2, <2>6, <3>1, <3>3, TagStays DEF j
      <3> QED
        BY <3>2, <3>4 DEF j
    <2> QED
      BY <2>2, <2>3, <2>5, <2>6 DEF ClaimInv
  <1>3. ClaimInv /\ PoolInv /\ [Next]_vars => ClaimInv'
    BY <1>2
  <1> QED
    BY <1>1, <1>3, PoolInvariant, PTL DEF Spec

(* With an up to date tag search a NodeClaim never owns two instances,     *)
(* whatever answers were lost and however often Create was called again.   *)
THEOREM OneInstancePerClaimHolds ==
    ASSUME ~ListLag
    PROVE  Spec => []OneInstancePerClaim
  <1>1. PoolInv /\ ClaimInv => OneInstancePerClaim
    BY DEF ClaimInv
  <1> QED
    BY <1>1, ClaimInvariant, PTL

(* What Create returned carries the claim's tag for as long as it lives,   *)
(* so two claims are never given the same instance.                        *)
THEOREM ReturnedIsOwnedHolds ==
    ASSUME ~(Enterprise /\ ListLag)
    PROVE  Spec => []ReturnedIsOwned
  <1>1. PoolInv /\ ClaimInv => ReturnedIsOwned
    BY DEF ClaimInv
  <1> QED
    BY <1>1, ClaimInvariant, PTL

(* With an up to date tag search every successful Create of a claim        *)
(* returns the same instance for as long as that instance lives.           *)
THEOREM StableResultHolds ==
    ASSUME ~ListLag
    PROVE  Spec => StableResult
  <1>1. ASSUME PoolInv, ClaimInv, [Next]_vars, NEW c \in Claims,
               returned[c] # None, home'[returned[c]] \in Pools
        PROVE  returned'[c] = returned[c]
    <2>1. Effect /\ TypeOK /\ returned[c] \in Instances /\ home[returned[c]] # None
      BY <1>1, StepEffect DEF PoolInv, ClaimInv, TypeOK, ProcTypeOK
    <2>2. home[returned[c]] \in Pools
      BY <1>1, <2>1, HomeStays
    <2>3. owner[returned[c]] = c /\ c # None
      BY <1>1, <2>2, ProcsSplit DEF ClaimInv, ReturnedIsOwned, Alive
    <2>4. ASSUME NEW y \in Claims, Answering(y) PROVE returned'[c] = returned[c]
      <3>1. PICK i \in booted : owner[i] = y /\ returned' = [returned EXCEPT ![y] = i]
        BY <2>4 DEF Answering
      <3>2. y = c => i = returned[c]
        BY <1>1, <2>1, <2>3, <3>1 DEF ClaimInv, OneInstancePerClaim, TypeOK, ApiTypeOK
      <3> QED
        BY <2>1, <3>1, <3>2 DEF TypeOK, ProcTypeOK
    <2> QED
      BY <2>1, <2>4 DEF Effect, ReadOnly, Booting, Tagging, Growing, Shrinking
  <1>2. PoolInv /\ ClaimInv /\ [Next]_vars =>
          [\A c \in Claims : returned[c] # None /\ home'[returned[c]] \in Pools
             => returned'[c] = returned[c]]_vars
    BY <1>1
  <1> QED
    BY <1>2, ClaimInvariant, PTL DEF Spec, StableResult

(* With an up to date tag search the provider implements the ledger: pools,*)
(* locks, retries, lost answers and crashes are invisible to Karpenter.    *)
THEOREM LedgerRefinement ==
    ASSUME ~ListLag
    PROVE  Spec => ImplementsLedger
  <1> DEFINE dead == {i \in Instances : home[i] = Gone}
             Stutter == UNCHANGED <<booted, dead, owner, returned>>
  <1>1. Init => Ledger!LedgerInit
    BY ConstantsAssumption DEF Init, Ledger!LedgerInit
  <1>2. ASSUME PoolInv, ClaimInv, [Next]_vars PROVE Ledger!LedgerNext \/ Stutter
    <2>1. Effect /\ TypeOK
      BY <1>2, StepEffect DEF PoolInv
    <2>2. CASE ReadOnly
      BY <2>2 DEF ReadOnly
    <2>3. CASE Booting
      <3>1. PICK i \in Instances : Alive(i) /\ i \notin booted /\ booted' = booted \cup {i}
                                   /\ UNCHANGED <<home, owner, returned>>
        BY <2>3 DEF Booting
      <3>2. i \notin dead
        BY <3>1, ConstantsAssumption DEF Alive
      <3> QED
        BY <3>1, <3>2 DEF Ledger!LedgerNext, Ledger!Appear
    <2>4. ASSUME NEW c \in Claims, Tagging(c) PROVE Ledger!LedgerNext
      <3>1. owner[inst[c]] = None /\ (\A j \in Instances : owner[j] # c) /\ inst[c] \in Instances
        BY <1>2, <2>1, <2>4 DEF PoolInv, CreateInv, ClaimInv, OwnsNothing, Tagging, TypeOK, ApiTypeOK
      <3> QED
        BY <2>4, <3>1 DEF Tagging, Ledger!LedgerNext, Ledger!Assign
    <2>5. ASSUME NEW c \in Claims, Answering(c) PROVE Ledger!LedgerNext
      BY <2>1, <2>5 DEF Answering, Ledger!LedgerNext, Ledger!Answer, TypeOK, ApiTypeOK
    <2>6. CASE Growing
      <3>1. dead' = dead
        BY <2>6, ConstantsAssumption DEF Growing
      <3> QED
        BY <2>6, <3>1 DEF Growing
    <2>7. ASSUME NEW d \in Deleters, Shrinking(d) PROVE Ledger!LedgerNext
      <3>1. PICK nodes \in SUBSET Members(pool[d]) : SetNodes(pool[d], nodes) /\ UNCHANGED returned
                                                    /\ pc[d] \in {"delpool", "delnode"}
        BY <2>7 DEF Shrinking
      <3> DEFINE removed == Members(pool[d]) \ nodes
      <3>2. removed \in SUBSET Instances /\ pool[d] \in Pools
        BY <2>1, <3>1, ProcsSplit DEF Members, PoolPC, TypeOK, ProcTypeOK
      <3>3. dead' = dead \cup removed
        BY <2>1, <3>1, <3>2, ConstantsAssumption DEF SetNodes, Members
      <3>4. booted' = booted \ removed /\ owner' = [i \in Instances |-> IF i \in removed THEN None ELSE owner[i]]
        BY <3>1 DEF SetNodes
      <3> HIDE DEF removed
      <3>5. \E gone \in SUBSET Instances : Ledger!Remove(gone)
        BY <3>1, <3>2, <3>3, <3>4 DEF Ledger!Remove
      <3> QED
        BY <3>5 DEF Ledger!LedgerNext
    <2> QED
      BY <2>1, <2>2, <2>3, <2>4, <2>5, <2>6, <2>7 DEF Effect
  <1>3. PoolInv /\ ClaimInv /\ [Next]_vars => [Ledger!LedgerNext]_(Ledger!ledgerVars)
    BY <1>2 DEF Ledger!ledgerVars
  <1> QED
    BY <1>1, <1>3, ClaimInvariant, PTL DEF Spec, ImplementsLedger, Ledger!LedgerSpec

-----------------------------------------------------------------------------
(* The version of the pool a call claims from *)

WantedAt(c) == pc[c] \in {"find", "claim", "verify"} => want[c] \in {None, version[pool[c]]}

OthersWant(x) == \A y \in Procs : y # x => want'[y] = want[y]

(* A step of x leaves the versions of all pools alone but for its own.     *)
OwnVersion(x) ==
    \E p \in Pools :
        /\ Critical(x) /\ pools[p] \in {key[x], None}
        /\ \A q \in Pools : q # p => version'[q] = version[q]

(* Such a step does not touch the pool another call claims from.           *)
LEMMA WantedKeeps ==
    ASSUME PoolInv, ClaimsAtWantedVersion, NEW x \in Procs, OthersSame(x), OthersWant(x),
           version' = version \/ OwnVersion(x),
           x \in Claims => WantedAt(x)'
    PROVE  ClaimsAtWantedVersion'
  <1> SUFFICES ASSUME NEW c \in Claims, c # x, pc'[c] \in {"find", "claim", "verify"}
               PROVE  want'[c] \in {None, version'[pool'[c]]}
    BY DEF WantedAt, ClaimsAtWantedVersion
  <1>1. /\ pc[c] = pc'[c] /\ pool'[c] = pool[c] /\ want'[c] = want[c]
        /\ c \in Procs /\ pc[c] \in PoolPC
    BY ProcsSplit DEF OthersSame, Same, OthersWant, PoolPC
  <1>2. pool[c] \in Pools /\ want[c] \in {None, version[pool[c]]}
    BY <1>1 DEF ClaimsAtWantedVersion, PoolInv, TypeOK, ProcTypeOK
  <1>3. version'[pool[c]] = version[pool[c]]
    BY <1>1, <1>2, OwnPool DEF OwnVersion
  <1> QED
    BY <1>1, <1>2, <1>3

(* However a call ends, it leaves what the others want alone.              *)
LEMMA EndingsWant ==
    ASSUME TypeOK, NEW x \in Procs
    PROVE  /\ \A i \in Instances : Return(x, i) => OthersWant(x)
           /\ \A f : WaitForNode(x, f) => OthersWant(x)
           /\ \A b : RetryLater(x, b) => OthersWant(x)
           /\ Abort(x) => OthersWant(x)
           /\ (PoolRequestFails(x) \/ InstanceRequestFails(x)) => OthersWant(x)
           /\ (\E b \in BOOLEAN : EndDelete(x, b)) \/ DeleteRequestFails(x) => OthersWant(x)
  <1> USE DEF TypeOK, ProcTypeOK, OthersWant
  <1>1. EndCall(x) => OthersWant(x)
    BY DEF EndCall
  <1>2. ASSUME NEW f, EndAttempt(x, f) PROVE OthersWant(x)
    BY <1>2 DEF EndAttempt
  <1> HIDE DEF OthersWant
  <1>3. \A i \in Instances : Return(x, i) => OthersWant(x)
    BY <1>1 DEF Return
  <1>4. \A f : WaitForNode(x, f) => OthersWant(x)
    BY <1>2 DEF WaitForNode
  <1>5. \A b : RetryLater(x, b) => OthersWant(x)
    BY <1>2 DEF RetryLater
  <1>6. Abort(x) => OthersWant(x)
    BY <1>1 DEF Abort
  <1>7. (\E b \in BOOLEAN : EndDelete(x, b)) \/ DeleteRequestFails(x) => OthersWant(x)
    BY <1>1 DEF EndDelete, DeleteRequestFails
  <1> QED
    BY <1>3, <1>4, <1>5, <1>6, <1>7 DEF PoolRequestFails, InstanceRequestFails

(* Every step of a Create call under its lock.                             *)
LEMMA CreateWanted ==
    ASSUME PoolInv, ClaimsAtWantedVersion, NEW c \in Claims, CreateStep(c)
    PROVE  ClaimsAtWantedVersion'
  <1>0. /\ TypeOK /\ c \in Procs
        /\ pc \in [Procs -> CreatePC \cup DeletePC] /\ pool \in [Procs -> Pools \cup {None}]
        /\ version \in [Pools -> Versions \cup {None}]
        /\ pc[c] \in {"version", "find", "claim"} =>
             pool[c] \in Pools /\ pools[pool[c]] = key[c]
    BY ProcsSplit DEF PoolInv, CreateInv, PoolPC, TypeOK, ApiTypeOK, ProcTypeOK
  <1>1. Critical(c)
    BY DEF Critical, CreateStep, Recheck, FindPool, ReconcilePoolVersion, CreatePool, FindClaimable,
           WriteClaim, VerifyTagsApplied, CheckPlanAvailability, ScalePool
  <1>2. ASSUME Ended(c), OthersWant(c), version' = version \/ OwnVersion(c) PROVE ClaimsAtWantedVersion'
    BY <1>0, <1>2, WantedKeeps DEF Ended, WantedAt
  <1>3. ASSUME NEW s, pc' = [pc EXCEPT ![c] = s], UNCHANGED <<key, want, pool, count>>,
               \A y \in Procs : y # c => inst'[y] = inst[y],
               version' = version \/ OwnVersion(c), WantedAt(c)'
        PROVE  ClaimsAtWantedVersion'
    <2>1. OthersSame(c) /\ OthersWant(c)
      BY <1>0, <1>3 DEF OthersSame, Same, OthersWant
    <2> QED
      BY <1>0, <1>3, <2>1, WantedKeeps
  <1>4. ASSUME NEW s, s \notin {"find", "claim", "verify"}, pc' = [pc EXCEPT ![c] = s],
               UNCHANGED <<locals, version>>
        PROVE  ClaimsAtWantedVersion'
    <2>1. WantedAt(c)'
      BY <1>0, <1>4 DEF WantedAt
    <2> QED
      BY <1>3, <1>4, <2>1 DEF locals
  <1>5. CASE Recheck(c)
    BY <1>0, <1>2, <1>4, <1>5, EndingsEnd, EndingsWant DEF Recheck, Owned, apiVars, TypeOK, ApiTypeOK
  <1>6. CASE FindPool(c)
    <2>1. ASSUME NEW p \in Pools,
                 UsePool(c, p, IF want[c] \in {None, version[p]} THEN "find" ELSE "version")
          PROVE  ClaimsAtWantedVersion'
      <3>1. version' = version
        BY <1>6 DEF FindPool, apiVars
      <3>2. OthersSame(c) /\ OthersWant(c)
        BY <1>0, <2>1, ProcsSplit DEF UsePool, OthersSame, Same, OthersWant, TypeOK, ProcTypeOK
      <3>3. WantedAt(c)'
        BY <1>0, <2>1, <3>1 DEF UsePool, WantedAt
      <3> QED
        BY <1>0, <3>1, <3>2, <3>3, WantedKeeps
    <2> QED
      BY <1>0, <1>2, <1>4, <1>6, <2>1, EndingsEnd, EndingsWant DEF FindPool, apiVars
  <1>7. CASE ReconcilePoolVersion(c)
    <2>1. pc[c] = "version" /\ pool[c] \in Pools /\ pools[pool[c]] = key[c]
      BY <1>0, <1>7 DEF ReconcilePoolVersion
    <2>2. CASE PoolRequestFails(c) /\ UNCHANGED version
      BY <1>0, <1>2, <2>2, EndingsEnd, EndingsWant
    <2>3. CASE version' = [version EXCEPT ![pool[c]] = want[c]]
      <3>1. OwnVersion(c) /\ version'[pool[c]] = want[c]
        BY <1>0, <1>1, <2>1, <2>3 DEF OwnVersion
      <3>2. CASE pc' = [pc EXCEPT ![c] = "find"] /\ UNCHANGED locals
        <4>1. WantedAt(c)'
          BY <3>1, <3>2 DEF WantedAt, locals
        <4> QED
          BY <1>3, <3>1, <3>2, <4>1 DEF locals
      <3>3. CASE RetryLater(c, TRUE)
        BY <1>0, <1>2, <3>1, <3>3, EndingsEnd, EndingsWant
      <3> QED
        BY <1>7, <2>2, <3>2, <3>3 DEF ReconcilePoolVersion
    <2> QED
      BY <1>7, <2>2, <2>3 DEF ReconcilePoolVersion
  <1>8. CASE CreatePool(c)
    <2>1. ASSUME NEW p \in Pools, pools[p] = None, version' = [version EXCEPT ![p] = want[c]]
          PROVE  OwnVersion(c) /\ version'[p] = want[c]
      BY <1>0, <1>1, <2>1 DEF OwnVersion
    <2>2. ASSUME NEW p \in Pools, version'[p] = want[c], OwnVersion(c),
                 pc' = [pc EXCEPT ![c] = "find"], pool' = [pool EXCEPT ![c] = p],
                 count' = [count EXCEPT ![c] = 1], UNCHANGED <<key, want, inst>>
          PROVE  ClaimsAtWantedVersion'
      <3>1. OthersSame(c) /\ OthersWant(c)
        BY <1>0, <2>2 DEF OthersSame, Same, OthersWant, TypeOK, ProcTypeOK
      <3>2. WantedAt(c)'
        BY <1>0, <2>2 DEF WantedAt
      <3> QED
        BY <1>0, <2>2, <3>1, <3>2, WantedKeeps
    <2>3. CASE PoolRequestFails(c) /\ UNCHANGED <<apiVars, iced>>
      BY <1>0, <1>2, <2>3, EndingsEnd, EndingsWant DEF apiVars
    <2>4. CASE Abort(c) /\ UNCHANGED apiVars
      BY <1>0, <1>2, <2>4, EndingsEnd, EndingsWant DEF apiVars
    <2>5. ASSUME RetryLater(c, TRUE), OwnVersion(c) PROVE ClaimsAtWantedVersion'
      BY <1>0, <1>2, <2>5, EndingsEnd, EndingsWant
    <2> QED
      BY <1>8, <2>1, <2>2, <2>3, <2>4, <2>5 DEF CreatePool
  <1>9. CASE FindClaimable(c)
    <2>1. ASSUME NEW i, pc' = [pc EXCEPT ![c] = "claim"], inst' = [inst EXCEPT ![c] = i],
                 UNCHANGED <<key, want, pool, count>>
          PROVE  ClaimsAtWantedVersion'
      <3>1. version' = version /\ pc[c] = "find"
        BY <1>9 DEF FindClaimable, apiVars
      <3>2. WantedAt(c)'
        BY <2>1, <3>1 DEF ClaimsAtWantedVersion, WantedAt
      <3>3. \A y \in Procs : y # c => inst'[y] = inst[y]
        BY <2>1, <1>0 DEF TypeOK, ProcTypeOK
      <3> QED
        BY <1>3, <2>1, <3>1, <3>2, <3>3
    <2> QED
      BY <1>0, <1>2, <1>4, <1>9, <2>1, EndingsEnd, EndingsWant DEF FindClaimable, apiVars
  <1>10. CASE WriteClaim(c)
    <2>1. version' = version /\ pc[c] = "claim"
      BY <1>10 DEF WriteClaim
    <2>2. CASE pc' = [pc EXCEPT ![c] = "verify"] /\ UNCHANGED locals
      <3>1. WantedAt(c)'
        BY <2>1, <2>2 DEF ClaimsAtWantedVersion, WantedAt, locals
      <3> QED
        BY <1>3, <2>1, <2>2, <3>1 DEF locals
    <2>3. CASE RetryLater(c, FALSE)
      BY <1>0, <1>2, <2>1, <2>3, EndingsEnd, EndingsWant
    <2> QED
      BY <1>10, <2>2, <2>3 DEF WriteClaim
  <1>11. CASE VerifyTagsApplied(c)
    <2>1. inst[c] \in booted => inst[c] \in Instances
      BY <1>0 DEF TypeOK, ApiTypeOK
    <2> QED
      BY <1>0, <1>2, <1>11, <2>1, EndingsEnd, EndingsWant DEF VerifyTagsApplied, apiVars
  <1>12. CASE CheckPlanAvailability(c)
    BY <1>0, <1>2, <1>4, <1>12, EndingsEnd, EndingsWant DEF CheckPlanAvailability, apiVars
  <1>13. CASE ScalePool(c)
    BY <1>0, <1>2, <1>13, EndingsEnd, EndingsWant DEF ScalePool
  <1> QED
    BY <1>5, <1>6, <1>7, <1>8, <1>9, <1>10, <1>11, <1>12, <1>13 DEF CreateStep

(* Every step. *)
LEMMA WantedStep ==
    ASSUME PoolInv, ClaimsAtWantedVersion, [Next]_vars
    PROVE  ClaimsAtWantedVersion'
  <1>0. TypeOK /\ pc \in [Procs -> CreatePC \cup DeletePC]
    BY DEF PoolInv, TypeOK, ProcTypeOK
  <1>1. ASSUME NEW x \in Procs, OthersSame(x), OthersWant(x), pc'[x] \notin {"find", "claim", "verify"},
               version' = version \/ OwnVersion(x)
        PROVE  ClaimsAtWantedVersion'
    BY <1>1, WantedKeeps DEF WantedAt
  <1>2. ASSUME NEW c \in Claims,
               \/ \E k \in Keys, w \in Versions \cup {None} : StartCreate(c, k, w)
               \/ LockPool(c) \/ Retry(c) \/ GiveUp(c)
        PROVE  ClaimsAtWantedVersion'
    <2>1. c \in Procs /\ version' = version
      BY <1>2, ProcsSplit DEF StartCreate, LockPool, Retry, GiveUp, apiVars
    <2>2. OthersSame(c) /\ OthersWant(c)
      BY <1>0, <1>2, <2>1 DEF StartCreate, LockPool, Retry, GiveUp, EndCall, locals, OthersSame, Same,
                              OthersWant, TypeOK, ProcTypeOK
    <2>3. pc'[c] \in {"idle", "lock", "recheck"}
      BY <1>0, <1>2, <2>1 DEF StartCreate, LockPool, Retry, GiveUp, EndCall
    <2> QED
      BY <1>1, <2>1, <2>2, <2>3
  <1>3. ASSUME NEW d \in Deleters, (\E i \in Instances : StartDelete(d, i)) \/ LockForDelete(d)
        PROVE  ClaimsAtWantedVersion'
    <2>1. d \in Procs /\ version' = version
      BY <1>3, ProcsSplit DEF StartDelete, LockForDelete, apiVars
    <2>2. OthersSame(d) /\ OthersWant(d)
      BY <1>0, <1>3, <2>1 DEF StartDelete, LockForDelete, locals, OthersSame, Same,
                              OthersWant, TypeOK, ProcTypeOK
    <2>3. pc'[d] \in {"idle", "lock", "refresh"}
      BY <1>0, <1>3, <2>1 DEF StartDelete, LockForDelete
    <2> QED
      BY <1>1, <2>1, <2>2, <2>3
  <1>4. ASSUME NEW d \in Deleters, DeleteStep(d) PROVE ClaimsAtWantedVersion'
    <2>0. d \in Procs /\ d \notin Claims
      BY ProcsSplit
    <2>1. ASSUME Ended(d), OthersWant(d), version' = version \/ OwnVersion(d) PROVE ClaimsAtWantedVersion'
      BY <1>1, <2>0, <2>1 DEF Ended
    <2>2. CASE RefreshMembership(d)
      <3>1. version' = version
        BY <2>2 DEF RefreshMembership, apiVars
      <3>2. ASSUME NEW p, pool' = [pool EXCEPT ![d] = p], NEW s \in {"delpool", "delnode"},
                   pc' = [pc EXCEPT ![d] = s], UNCHANGED <<key, want, count, inst>>
            PROVE  ClaimsAtWantedVersion'
        <4>1. OthersSame(d) /\ OthersWant(d) /\ pc'[d] = s
          BY <1>0, <2>0, <3>2 DEF OthersSame, Same, OthersWant, TypeOK, ProcTypeOK
        <4> QED
          BY <1>1, <2>0, <3>1, <4>1
      <3> QED
        BY <1>0, <2>0, <2>1, <2>2, <3>1, <3>2, EndingsEnd, EndingsWant DEF RefreshMembership
    <2>3. CASE DeletePool(d)
      <3>1. Ended(d) /\ OthersWant(d)
        BY <1>0, <2>0, <2>3, EndingsEnd, EndingsWant DEF DeletePool
      <3>2. pool[d] \in Pools /\ pools[pool[d]] = key[d] /\ Critical(d)
        BY <2>0, <2>3 DEF DeletePool, PoolInv, DeleteInv, PoolPC, Alive, TypeOK, ProcTypeOK, Critical
      <3>3. version' = [version EXCEPT ![pool[d]] = None] \/ version' = version
        BY <2>3 DEF DeletePool, apiVars
      <3>4. version' = version \/ OwnVersion(d)
        BY <1>0, <3>2, <3>3 DEF OwnVersion, TypeOK, ApiTypeOK
      <3> QED
        BY <2>1, <3>1, <3>4
    <2>4. CASE DeletePoolNode(d)
      BY <1>0, <2>0, <2>1, <2>4, EndingsEnd, EndingsWant DEF DeletePoolNode
    <2> QED
      BY <1>4, <2>2, <2>3, <2>4 DEF DeleteStep
  <1>5. CASE Environment \/ UNCHANGED vars
    <2>1. UNCHANGED <<version, pc, pool, want>>
      BY <1>5 DEF Environment, Boot, ShowInPool, IndexTags, BackoffElapses, OfferingReturns,
         vars, apiVars, procVars, locals
    <2> QED
      BY <2>1 DEF ClaimsAtWantedVersion
  <1>6. CASE Crash
    BY <1>6, ProcsSplit DEF Crash, ClaimsAtWantedVersion
  <1> QED
    BY <1>2, <1>3, <1>4, <1>5, <1>6, CreateWanted DEF Next, Running

(* A call only claims from a pool at the Kubernetes version its NodeClass  *)
(* asks for: reconcilePoolVersion holds until the claim is verified.       *)
THEOREM ClaimsAtWantedVersionHolds == Spec => []ClaimsAtWantedVersion
  <1>1. Init => ClaimsAtWantedVersion
    BY ProcsSplit DEF Init, ClaimsAtWantedVersion
  <1>2. PoolInv /\ ClaimsAtWantedVersion /\ [Next]_vars => ClaimsAtWantedVersion'
    BY WantedStep
  <1> QED
    BY <1>1, <1>2, PoolInvariant, PTL DEF Spec

=============================================================================

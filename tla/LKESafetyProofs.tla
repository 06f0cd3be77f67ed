-------------------------- MODULE LKESafetyProofs --------------------------
(* Machine-checked safety proofs about LKEProvider.  The inductive         *)
(* invariant PoolInv says that a call that is past "lock" holds the mutex  *)
(* of its pool key, and that everything such a call has read about that    *)
(* key's pool is still true.                                               *)
EXTENDS LKEProviderProofs

-----------------------------------------------------------------------------
(* Calls that do not take the step *)

Same(y) ==
    /\ pc'[y] = pc[y]
    /\ key'[y] = key[y]
    /\ pool'[y] = pool[y]
    /\ count'[y] = count[y]
    /\ inst'[y] = inst[y]

OthersSame(x) == \A y \in Procs : y # x => Same(y)

ProcInv(y) == (y \in Claims => CreateInv(y)) /\ (y \in Deleters => DeleteInv(y))

(* The mutex of a key admits one call. *)
LEMMA Exclusion ==
    ASSUME LockHeld, NEW x \in Procs, NEW y \in Procs,
           Critical(x), Critical(y), key[x] = key[y]
    PROVE  x = y
  BY DEF LockHeld

(* No other call works on the pool of a call that holds its lock. *)
LEMMA OwnPool ==
    ASSUME PoolInv, NEW x \in Procs, Critical(x), NEW p \in Pools, pools[p] \in {key[x], None},
           NEW y \in Procs, y # x, pc[y] \in PoolPC
    PROVE  pool[y] # p
  <1>1. pool[y] \in Pools /\ pools[pool[y]] = key[y] /\ key[y] \in Keys
    <2>1. CASE y \in Claims
      BY <2>1 DEF PoolInv, CreateInv, TypeOK, ProcTypeOK, PoolPC
    <2>2. CASE y \in Deleters
      <3>1. pc[y] \in {"delpool", "delnode"}
        BY <2>2 DEF PoolInv, TypeOK, ProcTypeOK, PoolPC, DeletePC
      <3> QED
        BY <2>2, <3>1 DEF PoolInv, DeleteInv, TypeOK, ProcTypeOK, PoolPC, Alive
    <2> QED
      BY <2>1, <2>2, ProcsSplit
  <1>2. Critical(y)
    BY DEF Critical, PoolPC
  <1> QED
    BY <1>1, <1>2, Exclusion, ConstantsAssumption DEF PoolInv

(* A step that changes neither pools nor membership nor tags disturbs no   *)
(* other call.                                                             *)
LEMMA QuietKeeps ==
    ASSUME PoolInv, NEW y \in Procs, Same(y), UNCHANGED <<pools, home, owner>>
    PROVE  ProcInv(y)'
  BY DEF PoolInv, ProcInv, Same, CreateInv, DeleteInv, Members, Alive

(* What a step of x may do to pool p, which is its own or is being created. *)
OnlyPool(x, p) ==
    /\ pools[p] \in {key[x], None}
    /\ pools'[p] \in {key[x], Gone}
    /\ \A q \in Pools : q # p => pools'[q] = pools[q]
    /\ \A i \in Instances : home[i] = p => home'[i] \in {p, Gone}
    /\ \A i \in Instances : home[i] # p /\ home'[i] # home[i] => home[i] = None /\ home'[i] = p
    /\ \A i \in Instances : home[i] # p => owner'[i] = owner[i]
    /\ pools'[p] = Gone => \A i \in Instances : home'[i] # p

(* A step of a call that holds the lock of its pool, and that changes only *)
(* that pool, disturbs no other call.                                      *)
LEMMA OwnPoolKeeps ==
    ASSUME PoolInv, TypeOK', NEW x \in Procs, Critical(x), NEW p \in Pools, OnlyPool(x, p),
           NEW y \in Procs, y # x, Same(y)
    PROVE  ProcInv(y)'
  <1>1. pc[y] \in PoolPC => pool[y] \in Pools /\ pool[y] # p
    BY OwnPool DEF OnlyPool, PoolInv, TypeOK, ProcTypeOK
  <1>2. \A q \in Pools : q # p => Members(q)' = Members(q)
    BY ConstantsAssumption DEF Members, OnlyPool
  <1>3. ASSUME y \in Claims PROVE CreateInv(y)'
    <2>1. pc'[y] \in PoolPC => pools'[pool'[y]] = key'[y] /\ count'[y] = Cardinality(Members(pool[y])')
      BY <1>1, <1>2, <1>3 DEF PoolInv, CreateInv, Same, OnlyPool
    <2>2. pc'[y] = "create" => \A q \in Pools : pools'[q] # key'[y]
      <3> SUFFICES ASSUME pc[y] = "create" PROVE \A q \in Pools : pools'[q] # key[y]
        BY DEF Same
      <3>1. key[y] # key[x] /\ key[y] \in Keys
        BY Exclusion DEF PoolInv, Critical, TypeOK, ProcTypeOK
      <3> QED
        BY <1>3, <3>1, ConstantsAssumption DEF PoolInv, CreateInv, OnlyPool
    <2>3. ASSUME pc[y] \in {"claim", "verify"}
          PROVE  /\ inst[y] \in Instances
                 /\ home'[inst[y]] = pool[y]
                 /\ owner'[inst[y]] = owner[inst[y]]
      BY <1>1, <1>3, <2>3, ConstantsAssumption
         DEF PoolInv, CreateInv, OnlyPool, PoolPC, InstPC, TypeOK, ProcTypeOK
    <2> QED
      BY <1>3, <2>1, <2>2, <2>3 DEF PoolInv, CreateInv, Same, Members
  <1>4. ASSUME y \in Deleters PROVE DeleteInv(y)'
    <2>1. ASSUME pc[y] # "idle"
          PROVE  /\ inst[y] \in Instances
                 /\ home'[inst[y]] # None
                 /\ home'[inst[y]] \in Pools => pools'[home'[inst[y]]] = key[y]
      <3>1. inst[y] \in Instances /\ home[inst[y]] # None
            /\ (home[inst[y]] \in Pools => pools[home[inst[y]]] = key[y] /\ key[y] \in Keys)
        BY <1>4, <2>1 DEF PoolInv, DeleteInv, TypeOK, ProcTypeOK, Alive
      <3> QED
        BY <3>1, ConstantsAssumption DEF OnlyPool
    <2>2. ASSUME pc[y] \in {"delpool", "delnode"}
          PROVE  home'[inst[y]] = pool[y] /\ Members(pool[y])' = Members(pool[y])
      <3>1. inst[y] \in Instances /\ home[inst[y]] = pool[y] /\ pool[y] # p /\ pool[y] \in Pools
        BY <1>1, <1>4, <2>2 DEF PoolInv, DeleteInv, PoolPC, InstPC, TypeOK, ProcTypeOK
      <3> QED
        BY <1>2, <3>1, ConstantsAssumption DEF OnlyPool, Members, Same
    <2> QED
      BY <1>4, <2>1, <2>2 DEF PoolInv, DeleteInv, Same, Alive, Members
  <1> QED
    BY <1>3, <1>4 DEF ProcInv

(* Adding and removing nodes keeps the invariant of the API's state. *)
LEMMA SetNodesApi ==
    ASSUME TypeOK, ApiInv, NEW p \in Pools, NEW nodes \in SUBSET Instances, SetNodes(p, nodes)
    PROVE  ApiInv'
  BY DEF TypeOK, ApiTypeOK, ApiInv, SetNodes, Alive, Members

-----------------------------------------------------------------------------
(* The step's own call *)

(* The call has released its lock and sleeps or has returned. *)
Ended(x) ==
    /\ pc'[x] \in {"idle", "sleep"}
    /\ x \in Deleters => pc'[x] = "idle"
    /\ OthersSame(x)
    /\ Unlock(x)

(* However an attempt of Create or a Delete call ends, it has ended. *)
LEMMA EndingsEnd ==
    ASSUME TypeOK, NEW x \in Procs
    PROVE  /\ \A i \in Instances : Return(x, i) /\ x \in Claims => Ended(x)
           /\ \A f : WaitForNode(x, f) /\ x \in Claims => Ended(x)
           /\ \A b : RetryLater(x, b) /\ x \in Claims => Ended(x)
           /\ Abort(x) => Ended(x)
           /\ (PoolRequestFails(x) \/ InstanceRequestFails(x)) /\ x \in Claims => Ended(x)
           /\ (\E b \in BOOLEAN : EndDelete(x, b)) \/ DeleteRequestFails(x) => Ended(x)
  <1> USE ProcsSplit DEF TypeOK, ProcTypeOK, Ended, OthersSame, Same
  <1>1. EndCall(x) /\ Unlock(x) => Ended(x)
    BY DEF EndCall
  <1>2. ASSUME NEW f, EndAttempt(x, f), Unlock(x), x \in Claims PROVE Ended(x)
    BY <1>2 DEF EndAttempt
  <1>3. \A i \in Instances : Return(x, i) => Ended(x)
    BY <1>1 DEF Return
  <1>4. \A f : WaitForNode(x, f) /\ x \in Claims => Ended(x)
    BY <1>2 DEF WaitForNode
  <1>5. \A b : RetryLater(x, b) /\ x \in Claims => Ended(x)
    BY <1>2 DEF RetryLater
  <1>6. Abort(x) => Ended(x)
    BY <1>1 DEF Abort
  <1>7. (\E b \in BOOLEAN : EndDelete(x, b)) \/ DeleteRequestFails(x) => Ended(x)
    BY <1>1 DEF EndDelete, DeleteRequestFails
  <1> QED
    BY <1>3, <1>4, <1>5, <1>6, <1>7 DEF PoolRequestFails, InstanceRequestFails

(* Ending a call that held its lock leaves every other holder its lock. *)
LEMMA EndedKeeps ==
    ASSUME PoolInv, TypeOK', NEW x \in Procs, Critical(x), Ended(x)
    PROVE  LockHeld' /\ ProcInv(x)'
  <1>1. ASSUME NEW y \in Procs, Critical(y)' PROVE lockedBy'[LockOf[key'[y]]] = y
    <2>1. y # x
      BY <1>1 DEF Ended, Critical
    <2>2. Critical(y) /\ key'[y] = key[y] /\ key[y] \in Keys /\ key[x] \in Keys
      BY <1>1, <2>1 DEF Ended, OthersSame, Same, Critical, PoolInv, TypeOK, ProcTypeOK
    <2>3. lockedBy[LockOf[key[y]]] = y /\ lockedBy[LockOf[key[x]]] = x
      BY <2>2 DEF PoolInv, LockHeld
    <2> QED
      BY <2>1, <2>2, <2>3, ConstantsAssumption DEF Ended, Unlock, PoolInv, TypeOK, ProcTypeOK
  <1>2. ProcInv(x)'
    BY DEF ProcInv, CreateInv, DeleteInv, Ended, PoolPC
  <1> QED
    BY <1>1, <1>2 DEF LockHeld

(* A step under the lock that keeps it. *)
LEMMA HoldingKeeps ==
    ASSUME PoolInv, NEW x \in Procs, Critical(x), OthersSame(x), lockedBy' = lockedBy, key'[x] = key[x]
    PROVE  LockHeld'
  BY DEF PoolInv, LockHeld, OthersSame, Same, Critical

(* A step that ends its call, or only reads, keeps the invariant. *)
LEMMA QuietStep ==
    ASSUME PoolInv, TypeOK', NEW x \in Procs, Critical(x), UNCHANGED <<pools, home, owner>>, ApiInv',
           Ended(x) \/ (OthersSame(x) /\ lockedBy' = lockedBy /\ key'[x] = key[x] /\ ProcInv(x)')
    PROVE  PoolInv'
  <1>1. LockHeld' /\ OthersSame(x) /\ ProcInv(x)'
    BY EndedKeeps, HoldingKeeps DEF Ended
  <1>2. \A y \in Procs : ProcInv(y)'
    BY <1>1, QuietKeeps DEF OthersSame
  <1>3. OnePoolPerKey'
    BY DEF PoolInv, OnePoolPerKey
  <1> QED
    BY <1>1, <1>2, <1>3, ProcsSplit DEF PoolInv, ProcInv

(* A step that changes the pool of its call keeps the invariant. *)
LEMMA PoolStep ==
    ASSUME PoolInv, TypeOK', NEW x \in Procs, Critical(x), NEW p \in Pools, OnlyPool(x, p), ApiInv',
           OnePoolPerKey',
           Ended(x) \/ (OthersSame(x) /\ lockedBy' = lockedBy /\ key'[x] = key[x] /\ ProcInv(x)')
    PROVE  PoolInv'
  <1>1. LockHeld' /\ OthersSame(x) /\ ProcInv(x)'
    BY EndedKeeps, HoldingKeeps DEF Ended
  <1>2. \A y \in Procs : ProcInv(y)'
    BY <1>1, OwnPoolKeeps DEF OthersSame
  <1> QED
    BY <1>1, <1>2, ProcsSplit DEF PoolInv, ProcInv

-----------------------------------------------------------------------------
(* Create *)

(* Entering the critical section takes a free mutex. *)
LEMMA LockingKeeps ==
    ASSUME PoolInv, TypeOK', NEW x \in Procs, pc[x] = "lock", lockedBy[LockOf[key[x]]] = None,
           lockedBy' = [lockedBy EXCEPT ![LockOf[key[x]]] = x],
           OthersSame(x), key'[x] = key[x], UNCHANGED apiVars, ProcInv(x)'
    PROVE  PoolInv'
  <1>1. ASSUME NEW y \in Procs, Critical(y)' PROVE lockedBy'[LockOf[key'[y]]] = y
    <2>1. key[x] \in Keys /\ LockOf[key[x]] \in Locks
      BY ConstantsAssumption DEF PoolInv, TypeOK, ProcTypeOK
    <2>2. CASE y = x
      BY <2>1, <2>2 DEF PoolInv, TypeOK, ProcTypeOK
    <2>3. CASE y # x
      <3>1. Critical(y) /\ key'[y] = key[y] /\ key[y] \in Keys
        BY <1>1, <2>3 DEF OthersSame, Same, Critical, PoolInv, TypeOK, ProcTypeOK
      <3>2. lockedBy[LockOf[key[y]]] = y /\ y # None
        BY <3>1, ProcsSplit DEF PoolInv, LockHeld
      <3> QED
        BY <2>1, <3>1, <3>2 DEF PoolInv, TypeOK, ProcTypeOK
    <2> QED
      BY <2>2, <2>3
  <1>2. \A y \in Procs : ProcInv(y)'
    BY QuietKeeps DEF OthersSame, apiVars
  <1>3. ApiInv' /\ OnePoolPerKey'
    BY DEF PoolInv, ApiInv, OnePoolPerKey, apiVars, Alive
  <1> QED
    BY <1>1, <1>2, <1>3, ProcsSplit DEF PoolInv, ProcInv, LockHeld

(* A step of a call that neither holds nor takes a mutex. *)
LEMMA OutsideKeeps ==
    ASSUME PoolInv, TypeOK', NEW x \in Procs, ~Critical(x), ~Critical(x)', OthersSame(x),
           UNCHANGED <<apiVars, lockedBy>>, ProcInv(x)'
    PROVE  PoolInv'
  <1>1. LockHeld'
    BY DEF PoolInv, LockHeld, OthersSame, Same, Critical
  <1>2. \A y \in Procs : ProcInv(y)'
    BY QuietKeeps DEF OthersSame, apiVars
  <1>3. ApiInv' /\ OnePoolPerKey'
    BY DEF PoolInv, ApiInv, OnePoolPerKey, apiVars, Alive
  <1> QED
    BY <1>1, <1>2, <1>3, ProcsSplit DEF PoolInv, ProcInv

(* Adding nodes to, or removing nodes from, the pool of a call that holds  *)
(* its lock changes that pool only.                                        *)
LEMMA SetNodesOnlyPool ==
    ASSUME PoolInv, NEW x \in Procs, NEW p \in Pools, NEW nodes \in SUBSET Instances,
           SetNodes(p, nodes), pools[p] = key[x], pools' = pools, key[x] \in Keys,
           \A i \in nodes : home[i] \in {p, None}
    PROVE  OnlyPool(x, p)
  BY ConstantsAssumption DEF PoolInv, OnlyPool, SetNodes, Members, TypeOK, ApiTypeOK

(* A successful scale adds exactly one node and removes none. *)
LEMMA ScaleGrows ==
    ASSUME PoolInv, NEW c \in Claims, pc[c] = "scale",
           NEW nodes \in SUBSET Instances, Resized(pool[c], count[c] + 1, nodes)
    PROVE  Members(pool[c]) \subseteq nodes
  <1>1. count[c] = Cardinality(Members(pool[c])) /\ count[c] \in Nat
    BY ProcsSplit DEF PoolInv, CreateInv, PoolPC, TypeOK, ProcTypeOK
  <1>2. ASSUME nodes \subseteq Members(pool[c]) PROVE FALSE
    <2>1. Cardinality(nodes) <= Cardinality(Members(pool[c])) /\ Cardinality(nodes) \in Nat
      BY <1>2, MembersFinite, FS_Subset, FS_CardinalityType
    <2> QED
      BY <1>1, <2>1 DEF Resized
  <1> QED
    BY <1>2 DEF Resized

(* Every step of a Create call keeps the invariant. *)
LEMMA CreateKeeps ==
    ASSUME PoolInv, NEW c \in Claims
    PROVE  /\ \A k \in Keys, w \in Versions \cup {None} : StartCreate(c, k, w) => PoolInv'
           /\ LockPool(c) \/ CreateStep(c) \/ Retry(c) \/ GiveUp(c) => PoolInv'
  <1> USE ProcsSplit
  <1>0. TypeOK /\ c \in Procs /\ c \notin Deleters
    BY DEF PoolInv
  <1> DEFINE Step == (\E k \in Keys, w \in Versions \cup {None} : StartCreate(c, k, w))
                       \/ LockPool(c) \/ CreateStep(c) \/ Retry(c) \/ GiveUp(c)
  <1>t. Step => TypeOK'
    BY <1>0, CreateTyped
  <1> HIDE DEF Step
  <1>1. ASSUME NEW k \in Keys, NEW w \in Versions \cup {None}, StartCreate(c, k, w) PROVE PoolInv'
    <2>1. TypeOK'
      BY <1>1, <1>t DEF Step
    <2>2. OthersSame(c) /\ pc'[c] \in {"idle", "lock"}
      BY <1>0, <1>1 DEF StartCreate, OthersSame, Same, TypeOK, ProcTypeOK
    <2>3. ProcInv(c)'
      BY <1>0, <2>2 DEF ProcInv, CreateInv, PoolPC
    <2> QED
      BY <1>0, <1>1, <2>1, <2>2, <2>3, OutsideKeeps DEF StartCreate, Critical
  <1>2. ASSUME LockPool(c) PROVE PoolInv'
    <2>1. TypeOK'
      BY <1>2, <1>t DEF Step
    <2>2. OthersSame(c) /\ pc'[c] = "recheck" /\ key'[c] = key[c]
      BY <1>0, <1>2 DEF LockPool, locals, OthersSame, Same, TypeOK, ProcTypeOK
    <2>3. ProcInv(c)'
      BY <1>0, <2>2 DEF ProcInv, CreateInv, PoolPC
    <2> QED
      BY <1>0, <1>2, <2>1, <2>2, <2>3, LockingKeeps DEF LockPool
  <1>3. ASSUME Retry(c) \/ GiveUp(c) PROVE PoolInv'
    <2>1. TypeOK'
      BY <1>3, <1>t DEF Step
    <2>2. OthersSame(c) /\ pc[c] = "sleep" /\ pc'[c] \in {"idle", "lock"} /\ UNCHANGED <<apiVars, lockedBy>>
      BY <1>0, <1>3 DEF Retry, GiveUp, EndCall, locals, OthersSame, Same, TypeOK, ProcTypeOK
    <2>3. ProcInv(c)'
      BY <1>0, <2>2 DEF ProcInv, CreateInv, PoolPC
    <2> QED
      BY <1>0, <2>1, <2>2, <2>3, OutsideKeeps DEF Critical
  <1>4. ASSUME Recheck(c) \/ FindPool(c) \/ FindClaimable(c) \/ VerifyTagsApplied(c)
                 \/ CheckPlanAvailability(c)
        PROVE  PoolInv'
    <2>1. TypeOK'
      BY <1>4, <1>t DEF Step, CreateStep
    <2>2. Critical(c) /\ UNCHANGED <<pools, home, owner>> /\ ApiInv'
      BY <1>4 DEF Recheck, FindPool, FindClaimable, VerifyTagsApplied, CheckPlanAvailability, apiVars,
         Critical, PoolInv, ApiInv, Alive
    <2>3. Ended(c) \/ (OthersSame(c) /\ lockedBy' = lockedBy /\ key'[c] = key[c] /\ ProcInv(c)')
      <3>0. ASSUME NEW s \in {"pools", "create", "plan", "scale"},
                   pc' = [pc EXCEPT ![c] = s], UNCHANGED <<lockedBy, locals>>,
                   s \in {"plan", "scale"} => pc[c] \in PoolPC,
                   s = "create" => \A p \in Pools : pools[p] # key[c]
            PROVE  OthersSame(c) /\ lockedBy' = lockedBy /\ key'[c] = key[c] /\ ProcInv(c)'
        <4>1. (OthersSame(c) /\ Same(c)) \/ (pc'[c] = s /\ key'[c] = key[c] /\ pool'[c] = pool[c] /\ count'[c] = count[c] /\ OthersSame(c))
          BY <1>0, <3>0 DEF locals, OthersSame, Same, TypeOK, ProcTypeOK
        <4>2. pc'[c] = s
          BY <1>0, <3>0 DEF TypeOK, ProcTypeOK
        <4>3. CreateInv(c)'
          BY <2>2, <3>0, <4>1, <4>2 DEF PoolInv, CreateInv, PoolPC, Members, locals
        <4> QED
          BY <1>0, <3>0, <4>1, <4>3 DEF ProcInv, locals
      <3>1. CASE Recheck(c)
        BY <1>0, <3>0, <3>1, EndingsEnd DEF Recheck, Owned, TypeOK, ApiTypeOK
      <3>2. CASE FindPool(c)
        <4>1. ASSUME NEW p \in Pools, pools[p] = key[c],
                     pool' = [pool EXCEPT ![c] = p],
                     count' = [count EXCEPT ![c] = Cardinality(Members(p))],
                     pc' = [pc EXCEPT ![c] = IF want[c] \in {None, version[p]} THEN "find" ELSE "version"],
                     UNCHANGED <<lockedBy, key, want, inst, flags, backoff, returned>>
              PROVE  OthersSame(c) /\ lockedBy' = lockedBy /\ key'[c] = key[c] /\ ProcInv(c)'
          <5>1. /\ OthersSame(c)
                /\ pool'[c] = p /\ count'[c] = Cardinality(Members(p)) /\ pc'[c] \in {"find", "version"}
            BY <1>0, <4>1 DEF OthersSame, Same, TypeOK, ProcTypeOK
          <5> QED
            BY <1>0, <2>2, <4>1, <5>1 DEF ProcInv, CreateInv, PoolPC, Members
        <4> QED
          BY <1>0, <3>0, <3>2, <4>1, EndingsEnd DEF FindPool, UsePool
      <3>3. CASE FindClaimable(c)
        <4>1. ASSUME NEW i \in Claimable(pool[c]),
                     pc' = [pc EXCEPT ![c] = "claim"],
                     inst' = [inst EXCEPT ![c] = i],
                     UNCHANGED <<lockedBy, key, want, pool, count, flags, backoff, returned>>
              PROVE  OthersSame(c) /\ lockedBy' = lockedBy /\ key'[c] = key[c] /\ ProcInv(c)'
          <5>1. OthersSame(c) /\ pc'[c] = "claim" /\ inst'[c] = i
            BY <1>0, <4>1 DEF OthersSame, Same, TypeOK, ProcTypeOK
          <5>2. i \in Instances /\ home[i] = pool[c]
            BY DEF Claimable, Linodes, Members
          <5>3. ~(Enterprise /\ ListLag) => owner[i] = None
            BY DEF Claimable, PoolInv, ApiInv
          <5>4. pools[pool[c]] = key[c] /\ count[c] = Cardinality(Members(pool[c]))
            BY <3>3 DEF FindClaimable, PoolInv, CreateInv, PoolPC
          <5>5. CreateInv(c)'
            BY <2>2, <4>1, <5>1, <5>2, <5>3, <5>4 DEF CreateInv, Members
          <5> QED
            BY <1>0, <4>1, <5>1, <5>5 DEF ProcInv
        <4> QED
          BY <1>0, <3>0, <3>3, <4>1, EndingsEnd DEF FindClaimable, PoolPC
      <3>4. CASE VerifyTagsApplied(c)
        BY <1>0, <3>4, EndingsEnd DEF VerifyTagsApplied, TypeOK, ProcTypeOK, InstPC
      <3>5. CASE CheckPlanAvailability(c)
        BY <1>0, <3>0, <3>5, EndingsEnd DEF CheckPlanAvailability, PoolPC
      <3> QED
        BY <1>4, <3>1, <3>2, <3>3, <3>4, <3>5
    <2> QED
      BY <1>0, <2>1, <2>2, <2>3, QuietStep
  <1>5. ASSUME ReconcilePoolVersion(c) PROVE PoolInv'
    <2>1. TypeOK'
      BY <1>5, <1>t DEF Step, CreateStep
    <2>2. Critical(c) /\ UNCHANGED <<pools, home, owner>> /\ ApiInv'
      BY <1>5 DEF ReconcilePoolVersion, Critical, PoolInv, ApiInv, Alive
    <2>3. CASE pc' = [pc EXCEPT ![c] = "find"] /\ UNCHANGED <<lockedBy, locals, backoff, returned>>
      <3>1. OthersSame(c) /\ pc'[c] = "find"
        BY <1>0, <2>3 DEF locals, OthersSame, Same, TypeOK, ProcTypeOK
      <3>2. CreateInv(c)'
        BY <1>5, <2>2, <2>3, <3>1 DEF ReconcilePoolVersion, PoolInv, CreateInv, PoolPC, Members, locals
      <3> QED
        BY <1>0, <2>1, <2>2, <2>3, <3>1, <3>2, QuietStep DEF ProcInv, locals
    <2>4. CASE RetryLater(c, TRUE) \/ PoolRequestFails(c)
      BY <1>0, <2>1, <2>2, <2>4, EndingsEnd, QuietStep
    <2> QED
      BY <1>5, <2>3, <2>4 DEF ReconcilePoolVersion
  <1>6. ASSUME CreatePool(c) PROVE PoolInv'
    <2>1. TypeOK' /\ Critical(c) /\ key[c] \in Keys
      BY <1>0, <1>6, <1>t DEF Step, CreateStep, CreatePool, Critical, TypeOK, ProcTypeOK
    <2>2. ASSUME NEW p \in Pools, NEW i \in Instances, pools[p] = None, home[i] = None,
                 pools' = [pools EXCEPT ![p] = key[c]], SetNodes(p, {i})
          PROVE  /\ OnlyPool(c, p)
                 /\ ApiInv'
                 /\ OnePoolPerKey'
                 /\ pools'[p] = key[c]
                 /\ {j \in Instances : home'[j] = p} = {i}
      <3>1. \A j \in Instances : home[j] # p
        BY <2>2, ConstantsAssumption DEF PoolInv, TypeOK, ApiTypeOK
      <3>2. OnlyPool(c, p) /\ pools'[p] = key[c]
        BY <1>0, <2>1, <2>2, <3>1, ConstantsAssumption DEF OnlyPool, SetNodes, Members, TypeOK, ApiTypeOK
      <3>3. ApiInv'
        BY <1>0, <2>2, SetNodesApi DEF PoolInv
      <3>4. OnePoolPerKey'
        BY <1>0, <1>6, <2>2 DEF CreatePool, PoolInv, CreateInv, OnePoolPerKey, TypeOK, ApiTypeOK
      <3>5. {j \in Instances : home'[j] = p} = {i}
        BY <2>2, <3>1, ConstantsAssumption DEF SetNodes, Members
      <3> QED
        BY <3>2, <3>3, <3>4, <3>5
    <2>3. ASSUME NEW p \in Pools, NEW i \in Instances, pools[p] = None, home[i] = None,
                 pools' = [pools EXCEPT ![p] = key[c]], SetNodes(p, {i}),
                 pc' = [pc EXCEPT ![c] = "find"],
                 pool' = [pool EXCEPT ![c] = p],
                 count' = [count EXCEPT ![c] = 1],
                 UNCHANGED <<lockedBy, key, inst>>
          PROVE  PoolInv'
      <3>1. OthersSame(c) /\ pc'[c] = "find" /\ pool'[c] = p /\ count'[c] = 1
        BY <1>0, <2>3 DEF OthersSame, Same, TypeOK, ProcTypeOK
      <3>2. Cardinality({i}) = 1
        BY FS_Singleton
      <3>3. Members(pool[c])' = {i} /\ pools'[pool'[c]] = key[c]
        BY <2>2, <2>3, <3>1 DEF Members
      <3>4. CreateInv(c)'
        BY <2>3, <3>1, <3>2, <3>3 DEF CreateInv
      <3> QED
        BY <1>0, <2>1, <2>2, <2>3, <3>1, <3>4, PoolStep DEF ProcInv
    <2>4. ASSUME NEW p \in Pools, NEW i \in Instances, pools[p] = None, home[i] = None,
                 pools' = [pools EXCEPT ![p] = key[c]], SetNodes(p, {i}), RetryLater(c, TRUE)
          PROVE  PoolInv'
      BY <1>0, <2>1, <2>2, <2>4, EndingsEnd, PoolStep
    <2>5. CASE UNCHANGED apiVars /\ (PoolRequestFails(c) \/ Abort(c))
      <3>1. UNCHANGED <<pools, home, owner>> /\ ApiInv'
        BY <2>5 DEF apiVars, PoolInv, ApiInv, Alive
      <3> QED
        BY <1>0, <2>1, <2>5, <3>1, EndingsEnd, QuietStep
    <2> QED
      BY <1>6, <2>3, <2>4, <2>5 DEF CreatePool
  <1>7. ASSUME WriteClaim(c) PROVE PoolInv'
    <2>1. TypeOK' /\ Critical(c) /\ inst[c] \in Instances
      BY <1>0, <1>7, <1>t DEF Step, CreateStep, WriteClaim, Critical, TypeOK, ProcTypeOK, InstPC
    <2>2. CASE UNCHANGED <<owner, stale>> /\ RetryLater(c, FALSE)
      <3>1. UNCHANGED <<pools, home, owner>> /\ ApiInv'
        BY <1>7, <2>2 DEF WriteClaim, PoolInv, ApiInv, Alive
      <3> QED
        BY <1>0, <2>1, <2>2, <3>1, EndingsEnd, QuietStep
    <2>3. CASE /\ inst[c] \in booted
               /\ owner' = [owner EXCEPT ![inst[c]] = c]
               /\ stale' = IF ListLag THEN stale \cup {inst[c]} ELSE stale
               /\ \/ pc' = [pc EXCEPT ![c] = "verify"] /\ UNCHANGED <<lockedBy, locals>>
                  \/ RetryLater(c, FALSE)
      <3>1. ApiInv' /\ OnePoolPerKey' /\ UNCHANGED <<pools, home>>
        BY <1>0, <1>7, <2>1, <2>3
           DEF WriteClaim, PoolInv, ApiInv, OnePoolPerKey, Alive, TypeOK, ApiTypeOK
      <3>2. pools[pool[c]] = key[c] /\ pool[c] \in Pools /\ home[inst[c]] = pool[c]
            /\ key[c] \in Keys /\ count[c] = Cardinality(Members(pool[c]))
        BY <1>0, <1>7 DEF WriteClaim, PoolInv, CreateInv, PoolPC, TypeOK, ProcTypeOK
      <3>3. OnlyPool(c, pool[c])
        BY <1>0, <2>1, <2>3, <3>1, <3>2, ConstantsAssumption DEF OnlyPool, TypeOK, ApiTypeOK
      <3>4. CASE RetryLater(c, FALSE)
        BY <1>0, <2>1, <3>1, <3>2, <3>3, <3>4, EndingsEnd, PoolStep
      <3>5. CASE pc' = [pc EXCEPT ![c] = "verify"] /\ UNCHANGED <<lockedBy, locals>>
        <4>1. OthersSame(c) /\ pc'[c] = "verify" /\ owner'[inst[c]] = c
          BY <1>0, <2>1, <2>3, <3>5 DEF locals, OthersSame, Same, TypeOK, ProcTypeOK, ApiTypeOK
        <4>2. CreateInv(c)'
          BY <3>1, <3>2, <3>5, <4>1 DEF CreateInv, Members, locals
        <4> QED
          BY <1>0, <2>1, <3>1, <3>2, <3>3, <3>5, <4>1, <4>2, PoolStep DEF ProcInv, locals
      <3> QED
        BY <2>3, <3>4, <3>5
    <2> QED
      BY <1>7, <2>2, <2>3 DEF WriteClaim
  <1>8. ASSUME ScalePool(c) PROVE PoolInv'
    <2>1. TypeOK' /\ Critical(c)
      BY <1>0, <1>8, <1>t DEF Step, CreateStep, ScalePool, Critical
    <2>2. Ended(c)
      BY <1>0, <1>8, EndingsEnd DEF ScalePool
    <2>3. pools[pool[c]] = key[c] /\ pool[c] \in Pools /\ key[c] \in Keys
      BY <1>0, <1>8 DEF ScalePool, PoolInv, CreateInv, PoolPC, TypeOK, ProcTypeOK
    <2>4. ASSUME NEW nodes \in SUBSET Instances, Resized(pool[c], count[c] + 1, nodes),
                 SetNodes(pool[c], nodes)
          PROVE  PoolInv'
      <3>1. \A i \in nodes : home[i] \in {pool[c], None}
        BY <2>4 DEF Resized, Members
      <3>2. pools' = pools /\ OnePoolPerKey'
        BY <1>8 DEF ScalePool, PoolInv, OnePoolPerKey
      <3>3. OnlyPool(c, pool[c]) /\ ApiInv'
        BY <1>0, <2>3, <2>4, <3>1, <3>2, SetNodesOnlyPool, SetNodesApi DEF PoolInv
      <3> QED
        BY <1>0, <2>1, <2>2, <2>3, <3>2, <3>3, PoolStep
    <2>5. CASE UNCHANGED <<home, owner, booted, stale, unlisted>>
      <3>1. UNCHANGED <<pools, home, owner>> /\ ApiInv'
        BY <1>8, <2>5 DEF ScalePool, PoolInv, ApiInv, Alive
      <3> QED
        BY <1>0, <2>1, <2>2, <3>1, QuietStep
    <2>6. \/ \E nodes \in SUBSET Instances :
               Resized(pool[c], count[c] + 1, nodes) /\ SetNodes(pool[c], nodes)
          \/ UNCHANGED <<home, owner, booted, stale, unlisted>>
      BY <1>8 DEF ScalePool
    <2> QED
      BY <2>4, <2>5, <2>6
  <1> QED
    BY <1>1, <1>2, <1>3, <1>4, <1>5, <1>6, <1>7, <1>8 DEF CreateStep

-----------------------------------------------------------------------------
(* Delete *)

(* On the Standard tier a pool that lists one node has no other. *)
LEMMA LastNode ==
    ASSUME PoolInv, ~Enterprise, NEW i \in Instances, NEW p \in PoolListing(i),
           Cardinality(Linodes(p)) <= 1
    PROVE  Members(p) = {i}
  <1>1. Linodes(p) = Members(p) /\ {i} \subseteq Members(p)
    BY DEF PoolInv, ApiInv, PoolListing, Linodes
  <1>2. IsFiniteSet(Members(p)) /\ Cardinality(Members(p)) \in Nat
    BY MembersFinite
  <1>3. Cardinality({i}) = 1
    BY FS_Singleton
  <1>4. Cardinality({i}) <= Cardinality(Members(p))
    BY <1>1, <1>2, FS_Subset
  <1>5. Cardinality({i}) = Cardinality(Members(p))
    BY <1>1, <1>2, <1>3, <1>4
  <1> QED
    BY <1>1, <1>2, <1>5, FS_Subset

(* Every step of a Delete call keeps the invariant. *)
LEMMA DeleteKeeps ==
    ASSUME PoolInv, NEW d \in Deleters
    PROVE  /\ \A i \in Instances : StartDelete(d, i) => PoolInv'
           /\ LockForDelete(d) \/ DeleteStep(d) => PoolInv'
  <1> USE ProcsSplit
  <1>0. TypeOK /\ d \in Procs /\ d \notin Claims
    BY DEF PoolInv
  <1> DEFINE Step == (\E i \in Instances : StartDelete(d, i)) \/ LockForDelete(d) \/ DeleteStep(d)
  <1>t. Step => TypeOK'
    BY <1>0, DeleteTyped
  <1> HIDE DEF Step
  <1>1. ASSUME NEW i \in Instances, StartDelete(d, i) PROVE PoolInv'
    <2>1. TypeOK'
      BY <1>1, <1>t DEF Step
    <2>2. OthersSame(d) /\ ~Critical(d) /\ ~Critical(d)'
      BY <1>0, <1>1 DEF StartDelete, OthersSame, Same, Critical, TypeOK, ProcTypeOK
    <2>3. CASE UNCHANGED <<pc, inst, key>>
      <3>1. DeleteInv(d)'
        BY <1>1, <2>3 DEF StartDelete, DeleteInv
      <3> QED
        BY <1>0, <1>1, <2>1, <2>2, <3>1, OutsideKeeps DEF StartDelete, ProcInv
    <2>4. ASSUME NEW p \in PoolListing(i),
                 pc' = [pc EXCEPT ![d] = "lock"],
                 inst' = [inst EXCEPT ![d] = i],
                 key' = [key EXCEPT ![d] = pools[p]]
          PROVE  PoolInv'
      <3>1. pc'[d] = "lock" /\ inst'[d] = i /\ key'[d] = pools[p] /\ UNCHANGED <<pools, home>>
        BY <1>0, <1>1, <2>4 DEF StartDelete, apiVars, TypeOK, ProcTypeOK
      <3>2. home[i] = p /\ p # None
        BY ConstantsAssumption DEF PoolListing, Linodes, Members
      <3>3. DeleteInv(d)'
        BY <3>1, <3>2 DEF DeleteInv, Alive
      <3> QED
        BY <1>0, <1>1, <2>1, <2>2, <3>3, OutsideKeeps DEF StartDelete, ProcInv
    <2> QED
      BY <1>1, <2>3, <2>4 DEF StartDelete
  <1>2. ASSUME LockForDelete(d) PROVE PoolInv'
    <2>1. TypeOK'
      BY <1>2, <1>t DEF Step
    <2>2. /\ OthersSame(d) /\ pc'[d] = "refresh" /\ key'[d] = key[d] /\ inst'[d] = inst[d]
          /\ UNCHANGED <<pools, home>>
      BY <1>0, <1>2 DEF LockForDelete, locals, apiVars, OthersSame, Same, TypeOK, ProcTypeOK
    <2>3. DeleteInv(d)'
      BY <1>0, <1>2, <2>2 DEF LockForDelete, PoolInv, DeleteInv, Alive
    <2> QED
      BY <1>0, <1>2, <2>1, <2>2, <2>3, LockingKeeps DEF LockForDelete, ProcInv
  <1>3. ASSUME RefreshMembership(d) PROVE PoolInv'
    <2>1. TypeOK'
      BY <1>3, <1>t DEF Step, DeleteStep
    <2>2. Critical(d) /\ UNCHANGED <<pools, home, owner>> /\ ApiInv'
      BY <1>3 DEF RefreshMembership, apiVars, Critical, PoolInv, ApiInv, Alive
    <2>3. ASSUME NEW p \in PoolListing(inst[d]),
                 pc' = [pc EXCEPT ![d] = IF Cardinality(Linodes(p)) <= 1 THEN "delpool" ELSE "delnode"],
                 pool' = [pool EXCEPT ![d] = p],
                 UNCHANGED <<lockedBy, key, want, count, inst, flags, delBackoff>>
          PROVE  PoolInv'
      <3>1. /\ OthersSame(d) /\ pool'[d] = p
            /\ pc'[d] \in {"delpool", "delnode"}
            /\ pc'[d] = "delpool" => Cardinality(Linodes(p)) <= 1
        BY <1>0, <2>3 DEF OthersSame, Same, TypeOK, ProcTypeOK
      <3>2. p \in Pools /\ inst[d] \in Instances /\ home[inst[d]] = p
        BY DEF PoolListing, Linodes, Members
      <3>3. pc'[d] = "delpool" /\ ~Enterprise => Members(p) = {inst[d]}
        BY <3>1, <3>2, LastNode
      <3>4. pc[d] # "idle"
        BY <1>3 DEF RefreshMembership
      <3>5. DeleteInv(d)'
        BY <2>2, <2>3, <3>1, <3>2, <3>3, <3>4 DEF PoolInv, DeleteInv, Alive, Members
      <3> QED
        BY <1>0, <2>1, <2>2, <2>3, <3>1, <3>5, QuietStep DEF ProcInv
    <2>4. CASE EndDelete(d, FALSE) \/ DeleteRequestFails(d)
      BY <1>0, <2>1, <2>2, <2>4, EndingsEnd, QuietStep
    <2> QED
      BY <1>3, <2>3, <2>4 DEF RefreshMembership
  <1>4. ASSUME DeletePool(d) PROVE PoolInv'
    <2>1. TypeOK' /\ Critical(d) /\ Ended(d)
      BY <1>0, <1>4, <1>t, EndingsEnd DEF Step, DeleteStep, DeletePool, Critical
    <2>2. pools[pool[d]] = key[d] /\ pool[d] \in Pools /\ key[d] \in Keys
      BY <1>0, <1>4 DEF DeletePool, PoolInv, DeleteInv, PoolPC, Alive, TypeOK, ProcTypeOK
    <2>3. CASE pools' = [pools EXCEPT ![pool[d]] = Gone] /\ SetNodes(pool[d], {})
      <3>1. OnlyPool(d, pool[d])
        BY <1>0, <2>2, <2>3, ConstantsAssumption DEF OnlyPool, SetNodes, Members, TypeOK, ApiTypeOK
      <3>2. ApiInv'
        BY <1>0, <2>2, <2>3, SetNodesApi DEF PoolInv
      <3>3. OnePoolPerKey'
        BY <1>0, <2>2, <2>3, ConstantsAssumption DEF PoolInv, OnePoolPerKey, TypeOK, ApiTypeOK
      <3> QED
        BY <1>0, <2>1, <2>2, <3>1, <3>2, <3>3, PoolStep
    <2>4. CASE UNCHANGED apiVars
      <3>1. UNCHANGED <<pools, home, owner>> /\ ApiInv'
        BY <2>4 DEF apiVars, PoolInv, ApiInv, Alive
      <3> QED
        BY <1>0, <2>1, <3>1, QuietStep
    <2> QED
      BY <1>4, <2>3, <2>4 DEF DeletePool
  <1>5. ASSUME DeletePoolNode(d) PROVE PoolInv'
    <2>1. TypeOK' /\ Critical(d) /\ Ended(d)
      BY <1>0, <1>5, <1>t, EndingsEnd DEF Step, DeleteStep, DeletePoolNode, Critical
    <2>2. pools[pool[d]] = key[d] /\ pool[d] \in Pools /\ key[d] \in Keys
      BY <1>0, <1>5 DEF DeletePoolNode, PoolInv, DeleteInv, PoolPC, Alive, TypeOK, ProcTypeOK
    <2>3. pools' = pools /\ OnePoolPerKey'
      BY <1>5 DEF DeletePoolNode, PoolInv, OnePoolPerKey
    <2>4. CASE SetNodes(pool[d], Members(pool[d]) \ {inst[d]})
      <3>1. /\ Members(pool[d]) \ {inst[d]} \in SUBSET Instances
            /\ \A i \in Members(pool[d]) \ {inst[d]} : home[i] \in {pool[d], None}
        BY DEF Members
      <3>2. OnlyPool(d, pool[d]) /\ ApiInv'
        BY <1>0, <2>2, <2>3, <2>4, <3>1, SetNodesOnlyPool, SetNodesApi DEF PoolInv
      <3> QED
        BY <1>0, <2>1, <2>2, <2>3, <3>2, PoolStep
    <2>5. CASE UNCHANGED <<home, owner, booted, stale, unlisted>>
      <3>1. UNCHANGED <<pools, home, owner>> /\ ApiInv'
        BY <2>3, <2>5 DEF PoolInv, ApiInv, Alive
      <3> QED
        BY <1>0, <2>1, <3>1, QuietStep
    <2> QED
      BY <1>5, <2>4, <2>5 DEF DeletePoolNode
  <1> QED
    BY <1>1, <1>2, <1>3, <1>4, <1>5 DEF DeleteStep

-----------------------------------------------------------------------------
(* Mutexes are given back *)

(* What a step does to the mutexes: its call takes a free one, gives back  *)
(* the one it holds, or leaves all of them alone.                          *)
Takes(x) ==
    /\ ~Critical(x) /\ Critical(x)' /\ OthersSame(x) /\ key'[x] = key[x] /\ key[x] \in Keys
    /\ lockedBy' = [lockedBy EXCEPT ![LockOf[key[x]]] = x]

Keeps(x) ==
    /\ lockedBy' = lockedBy /\ OthersSame(x)
    /\ Critical(x) => Critical(x)' /\ key'[x] = key[x]

Mutexes(x) == Takes(x) \/ (Critical(x) /\ Ended(x)) \/ Keeps(x)

LEMMA CreateMutexes ==
    ASSUME PoolInv, NEW c \in Claims,
           \/ \E k \in Keys, w \in Versions \cup {None} : StartCreate(c, k, w)
           \/ LockPool(c) \/ CreateStep(c) \/ Retry(c) \/ GiveUp(c)
    PROVE  Mutexes(c)
  <1>0. /\ TypeOK /\ c \in Procs /\ pc \in [Procs -> CreatePC \cup DeletePC]
        /\ pc[c] # "idle" => key[c] \in Keys
    BY ProcsSplit DEF PoolInv, TypeOK, ProcTypeOK
  <1>1. ASSUME NEW k \in Keys, NEW w, StartCreate(c, k, w) PROVE Mutexes(c)
    BY <1>0, <1>1 DEF StartCreate, Mutexes, Keeps, Critical, OthersSame, Same, TypeOK, ProcTypeOK
  <1>2. CASE LockPool(c)
    BY <1>0, <1>2 DEF LockPool, locals, Mutexes, Takes, Critical, OthersSame, Same
  <1>3. CASE Retry(c) \/ GiveUp(c)
    BY <1>0, <1>3 DEF Retry, GiveUp, EndCall, locals, Mutexes, Keeps, Critical, OthersSame, Same, TypeOK, ProcTypeOK
  <1>4. CASE CreateStep(c)
    <2>1. Critical(c)
      BY <1>4 DEF Critical, CreateStep, Recheck, FindPool, ReconcilePoolVersion, CreatePool, FindClaimable,
             WriteClaim, VerifyTagsApplied, CheckPlanAvailability, ScalePool
    <2>2. ASSUME NEW s, s \notin {"idle", "lock", "sleep"}, pc' = [pc EXCEPT ![c] = s], UNCHANGED <<lockedBy, key>>,
                 \A y \in Procs : y # c => pool'[y] = pool[y] /\ count'[y] = count[y] /\ inst'[y] = inst[y]
          PROVE  Mutexes(c)
      BY <1>0, <2>2 DEF Mutexes, Keeps, Critical, OthersSame, Same
    <2>3. ASSUME Ended(c) PROVE Mutexes(c)
      BY <2>1, <2>3 DEF Mutexes
    <2>4. ASSUME NEW s, s \notin {"idle", "lock", "sleep"}, pc' = [pc EXCEPT ![c] = s], UNCHANGED <<lockedBy, locals>>
          PROVE  Mutexes(c)
      BY <2>2, <2>4 DEF locals
    <2>5. CASE Recheck(c)
      BY <1>0, <2>3, <2>4, <2>5, EndingsEnd DEF Recheck, Owned, TypeOK, ApiTypeOK
    <2>6. CASE FindPool(c)
      <3>1. ASSUME NEW p, NEW s \in {"find", "version"}, UsePool(c, p, s) PROVE Mutexes(c)
        BY <1>0, <2>2, <3>1 DEF UsePool, TypeOK, ProcTypeOK
      <3> QED
        BY <1>0, <2>3, <2>4, <2>6, <3>1, EndingsEnd DEF FindPool
    <2>7. CASE ReconcilePoolVersion(c)
      BY <1>0, <2>3, <2>4, <2>7, EndingsEnd DEF ReconcilePoolVersion
    <2>8. CASE CreatePool(c)
      <3>1. ASSUME NEW p, pc' = [pc EXCEPT ![c] = "find"], pool' = [pool EXCEPT ![c] = p],
                   count' = [count EXCEPT ![c] = 1], UNCHANGED <<lockedBy, key, inst>>
            PROVE  Mutexes(c)
        BY <1>0, <2>2, <3>1 DEF TypeOK, ProcTypeOK
      <3> QED
        BY <1>0, <2>3, <2>8, <3>1, EndingsEnd DEF CreatePool
    <2>9. CASE FindClaimable(c)
      <3>1. ASSUME NEW i, pc' = [pc EXCEPT ![c] = "claim"], inst' = [inst EXCEPT ![c] = i],
                   UNCHANGED <<lockedBy, key, pool, count>>
            PROVE  Mutexes(c)
        BY <1>0, <2>2, <3>1 DEF TypeOK, ProcTypeOK
      <3> QED
        BY <1>0, <2>3, <2>4, <2>9, <3>1, EndingsEnd DEF FindClaimable
    <2>10. CASE WriteClaim(c)
      BY <1>0, <2>3, <2>4, <2>10, EndingsEnd DEF WriteClaim
    <2>11. CASE VerifyTagsApplied(c)
      <3>1. inst[c] \in booted => inst[c] \in Instances
        BY <1>0 DEF TypeOK, ApiTypeOK
      <3> QED
        BY <1>0, <2>3, <2>11, <3>1, EndingsEnd DEF VerifyTagsApplied
    <2>12. CASE CheckPlanAvailability(c)
      BY <1>0, <2>3, <2>4, <2>12, EndingsEnd DEF CheckPlanAvailability
    <2>13. CASE ScalePool(c)
      BY <1>0, <2>3, <2>13, EndingsEnd DEF ScalePool
    <2> QED
      BY <1>4, <2>5, <2>6, <2>7, <2>8, <2>9, <2>10, <2>11, <2>12, <2>13 DEF CreateStep
  <1> QED
    BY <1>1, <1>2, <1>3, <1>4

LEMMA DeleteMutexes ==
    ASSUME PoolInv, NEW d \in Deleters,
           (\E i \in Instances : StartDelete(d, i)) \/ LockForDelete(d) \/ DeleteStep(d)
    PROVE  Mutexes(d)
  <1>0. /\ TypeOK /\ d \in Procs /\ pc \in [Procs -> CreatePC \cup DeletePC]
        /\ pc[d] # "idle" => key[d] \in Keys
    BY ProcsSplit DEF PoolInv, TypeOK, ProcTypeOK
  <1>1. ASSUME NEW i \in Instances, StartDelete(d, i) PROVE Mutexes(d)
    BY <1>0, <1>1 DEF StartDelete, Mutexes, Keeps, Critical, OthersSame, Same, TypeOK, ProcTypeOK
  <1>2. CASE LockForDelete(d)
    BY <1>0, <1>2 DEF LockForDelete, locals, Mutexes, Takes, Critical, OthersSame, Same
  <1>3. CASE DeleteStep(d)
    <2>1. Critical(d)
      BY <1>3 DEF Critical, DeleteStep, RefreshMembership, DeletePool, DeletePoolNode
    <2>2. ASSUME Ended(d) PROVE Mutexes(d)
      BY <2>1, <2>2 DEF Mutexes
    <2>3. CASE RefreshMembership(d)
      <3>1. ASSUME NEW s \in {"delpool", "delnode"}, NEW p, pc' = [pc EXCEPT ![d] = s],
                   pool' = [pool EXCEPT ![d] = p], UNCHANGED <<lockedBy, key, count, inst>>
            PROVE  Mutexes(d)
        BY <1>0, <3>1 DEF Mutexes, Keeps, Critical, OthersSame, Same, TypeOK, ProcTypeOK
      <3> QED
        BY <1>0, <2>2, <2>3, <3>1, EndingsEnd DEF RefreshMembership
    <2>4. CASE DeletePool(d) \/ DeletePoolNode(d)
      BY <1>0, <2>2, <2>4, EndingsEnd DEF DeletePool, DeletePoolNode
    <2> QED
      BY <1>3, <2>3, <2>4 DEF DeleteStep
  <1> QED
    BY <1>1, <1>2, <1>3

(* What a step does to the mutexes leaves none with a call that is done.   *)
Released(l) == lockedBy[l] # None => Critical(lockedBy[l]) /\ LockOf[key[lockedBy[l]]] = l

LEMMA MutexesReleased ==
    ASSUME PoolInv, LocksReleased, NEW x \in Procs, Mutexes(x)
    PROVE  LocksReleased'
  <1> SUFFICES ASSUME NEW l \in Locks PROVE Released(l)'
    BY DEF LocksReleased, Released
  <1>0. Released(l)
    BY DEF LocksReleased, Released
  <1>1. /\ lockedBy \in [Locks -> Procs \cup {None}] /\ LockOf \in [Keys -> Locks]
        /\ Critical(x) => key[x] \in Keys
    BY ConstantsAssumption DEF PoolInv, TypeOK, ProcTypeOK, Critical
  <1>2. ASSUME lockedBy'[l] = lockedBy[l], lockedBy[l] # x PROVE Released(l)'
    <2>1. CASE lockedBy[l] = None
      BY <1>2, <2>1 DEF Released
    <2>2. ASSUME NEW y \in Procs, y = lockedBy[l] PROVE Released(l)'
      <3>1. Same(y) /\ y # None
        BY <1>2, <2>2, ProcsSplit DEF Mutexes, Takes, Keeps, Ended, OthersSame
      <3>2. Critical(y) /\ LockOf[key[y]] = l
        BY <1>0, <2>2, <3>1 DEF Released
      <3> QED
        BY <1>2, <2>2, <3>1, <3>2 DEF Same, Critical, Released
    <2> QED
      BY <1>1, <2>1, <2>2
  <1>3. CASE Takes(x)
    <2>1. CASE l = LockOf[key[x]]
      BY <1>1, <1>3, <2>1 DEF Takes, Released, Critical
    <2>2. CASE l # LockOf[key[x]]
      <3>1. lockedBy'[l] = lockedBy[l]
        BY <1>1, <1>3, <2>2 DEF Takes
      <3>2. lockedBy[l] # x
        BY <1>0, <1>3, ProcsSplit DEF Takes, Released
      <3> QED
        BY <1>2, <3>1, <3>2
    <2> QED
      BY <2>1, <2>2
  <1>4. CASE Critical(x) /\ Ended(x)
    <2>1. CASE l = LockOf[key[x]]
      BY <1>1, <1>4, <2>1 DEF Ended, Unlock, Released
    <2>2. CASE l # LockOf[key[x]]
      <3>1. lockedBy'[l] = lockedBy[l]
        BY <1>1, <1>4, <2>2 DEF Ended, Unlock
      <3>2. lockedBy[l] # x
        BY <1>0, <2>2, ProcsSplit DEF Released
      <3> QED
        BY <1>2, <3>1, <3>2
    <2> QED
      BY <2>1, <2>2
  <1>5. CASE Keeps(x)
    <2>1. CASE lockedBy[l] = x
      <3>1. Critical(x) /\ LockOf[key[x]] = l
        BY <1>0, <2>1, ProcsSplit DEF Released
      <3> QED
        BY <1>5, <2>1, <3>1 DEF Keeps, Released, Critical
    <2> QED
      BY <1>2, <1>5, <2>1 DEF Keeps
  <1> QED
    BY <1>3, <1>4, <1>5 DEF Mutexes

LEMMA ReleasedStep ==
    ASSUME PoolInv, LocksReleased, [Next]_vars
    PROVE  LocksReleased'
  <1>1. CASE Environment \/ UNCHANGED vars
    <2>1. UNCHANGED <<lockedBy, pc, key>>
      BY <1>1 DEF Environment, Boot, ShowInPool, IndexTags, BackoffElapses, OfferingReturns,
         vars, procVars, locals
    <2> QED
      BY <2>1 DEF LocksReleased, Critical
  <1>2. CASE Crash
    BY <1>2 DEF Crash, LocksReleased
  <1> QED
    BY <1>1, <1>2, CreateMutexes, DeleteMutexes, MutexesReleased, ProcsSplit DEF Next, Running

-----------------------------------------------------------------------------
(* The invariant and what follows from it *)

(* PoolInv is inductive: it holds initially and every step keeps it. *)
THEOREM PoolInvariant == Spec => []PoolInv
  <1>1. Init => PoolInv
    <2> SUFFICES ASSUME Init PROVE PoolInv
      OBVIOUS
    <2>1. TypeOK
      BY TypeInit
    <2>2. LockHeld /\ ApiInv /\ OnePoolPerKey
      BY ConstantsAssumption DEF Init, LockHeld, Critical, ApiInv, OnePoolPerKey
    <2>3. \A c \in Claims : CreateInv(c)
      BY ProcsSplit DEF Init, CreateInv, PoolPC
    <2>4. \A d \in Deleters : DeleteInv(d)
      BY ProcsSplit DEF Init, DeleteInv
    <2> QED
      BY <2>1, <2>2, <2>3, <2>4 DEF PoolInv
  <1>2. PoolInv /\ [Next]_vars => PoolInv'
    <2> SUFFICES ASSUME PoolInv, [Next]_vars PROVE PoolInv'
      OBVIOUS
    <2>1. TypeOK'
      BY TypeStep DEF PoolInv
    <2>2. CASE Environment \/ UNCHANGED vars
      <3>1. UNCHANGED <<pools, home, owner, lockedBy, pc, key, pool, count, inst>>
        BY <2>2 DEF Environment, Boot, ShowInPool, IndexTags, BackoffElapses, OfferingReturns,
           vars, apiVars, procVars, locals
      <3>2. ApiInv'
        BY <2>2, <3>1 DEF Environment, Boot, ShowInPool, IndexTags, BackoffElapses, OfferingReturns,
           vars, apiVars, PoolInv, ApiInv, Alive
      <3>3. LockHeld' /\ OnePoolPerKey'
        BY <3>1 DEF PoolInv, LockHeld, Critical, OnePoolPerKey
      <3>4. \A y \in Procs : ProcInv(y)'
        BY <3>1, QuietKeeps DEF Same
      <3> QED
        BY <2>1, <3>2, <3>3, <3>4, ProcsSplit DEF PoolInv, ProcInv
    <2>3. CASE Crash
      <3>1. LockHeld' /\ ApiInv' /\ OnePoolPerKey'
        BY <2>3 DEF Crash, apiVars, PoolInv, LockHeld, Critical, ApiInv, Alive, OnePoolPerKey
      <3>2. \A y \in Procs : ProcInv(y)'
        BY <2>3 DEF Crash, ProcInv, CreateInv, DeleteInv, PoolPC
      <3> QED
        BY <2>1, <3>1, <3>2, ProcsSplit DEF PoolInv, ProcInv
    <2> QED
      BY <2>2, <2>3, CreateKeeps, DeleteKeeps DEF Next, Running
  <1> QED
    BY <1>1, <1>2, PTL DEF Spec

(* findOrCreatePool never makes a second pool for a key: the pool list it  *)
(* read is still true when CreateLKENodePool is sent.                      *)
THEOREM OnePoolPerKeyHolds == Spec => []OnePoolPerKey
  <1>1. PoolInv => OnePoolPerKey
    BY DEF PoolInv
  <1> QED
    BY <1>1, PoolInvariant, PTL

(* The count an attempt read is exact when it scales, so UpdateLKENodePool *)
(* with count+1 adds one node.                                             *)
THEOREM ScaleAddsOneHolds == Spec => []ScaleAddsOne
  <1>1. PoolInv => ScaleAddsOne
    BY DEF PoolInv, CreateInv, ScaleAddsOne, PoolPC
  <1> QED
    BY <1>1, PoolInvariant, PTL

(* Every path out of the locked section of Create and Delete gives back    *)
(* the mutex it took, so a call only ever waits for one that runs.         *)
THEOREM LocksReleasedHolds == Spec => []LocksReleased
  <1>1. Init => LocksReleased
    BY DEF Init, LocksReleased
  <1>2. PoolInv /\ LocksReleased /\ [Next]_vars => LocksReleased'
    BY ReleasedStep
  <1> QED
    BY <1>1, <1>2, PoolInvariant, PTL DEF Spec

=============================================================================

----------------------- MODULE NodeClaimLifecycleProofs -----------------------
(* Machine-checked proofs about NodeClaimLifecycle, for every set of       *)
(* NodeClaims and instances and every deployment.                          *)
EXTENDS NodeClaimLifecycle, TLAPS

(* Nothing is left of a sweep once it is over, and a Delete was only       *)
(* answered for a recorded instance.                                       *)
IdleInv ==
    /\ gc # "sweep" => todo = {}
    /\ \A c \in ended : pid[c] # None

(* A NodeClaim records one instance, once, and the instance carries its    *)
(* tag; the tag never changes.                                             *)
RecordInv ==
    /\ \A c \in Claims :
         /\ call[c] # "idle" => pid[c] = None /\ claim[c] # "absent"
         /\ pid[c] # None => claim[c] # "absent"
         /\ \A i \in Instances : i \in {pid[c], result[c]} => holder[i] = c
    /\ \A i \in Instances : inst[i] = "none" => holder[i] = None

(* What the informer shows, or showed between the start of the listing and *)
(* the list of NodeClaims, was recorded by the NodeClaim that holds it; a  *)
(* recorded instance that the informer has dropped since, or that is       *)
(* swept, has lost its NodeClaim for good.                                 *)
VisibleInv ==
    /\ \A i \in seen \cup visible : holder[i] \in Claims /\ pid[holder[i]] = i
    /\ \A i \in visible : i \in todo \/ i \notin seen => ~Exists(holder[i])

Inv == TypeOK /\ IdleInv /\ RecordInv /\ VisibleInv

-----------------------------------------------------------------------------

(* Every step keeps the types. *)
LEMMA TypeStep ==
    ASSUME TypeOK, IdleInv, [Next]_vars
    PROVE  TypeOK' /\ IdleInv'
  <1> USE LifecycleAssumption
  <1> USE DEF TypeOK, IdleInv, Live, cloud, objects, calls, collector
  <1>1. ASSUME NEW c \in Claims,
               \/ CreateNodeClaim(c) \/ StartCreate(c) \/ CreateFails(c)
               \/ RecordProviderID(c) \/ DeleteNodeClaim(c) \/ RemoveFinalizer(c)
        PROVE  TypeOK' /\ IdleInv'
    BY <1>1 DEF CreateNodeClaim, StartCreate, CreateFails, RecordProviderID, DeleteNodeClaim,
                RemoveFinalizer
  <1>2. ASSUME NEW c \in Claims, Terminate(c) PROVE TypeOK' /\ IdleInv'
    <2>1. pid[c] \in Instances
      BY <1>2 DEF Terminate
    <2> QED
      BY <1>2, <2>1 DEF Terminate, DeleteNotFound, DeleteFound
  <1>3. ASSUME NEW c \in Claims, AwaitInstance(c) PROVE TypeOK' /\ IdleInv'
    <2>1. pid[c] \in Instances
      BY <1>3 DEF AwaitInstance
    <2>2. cached' \subseteq Instances
      BY <1>3, <2>1 DEF AwaitInstance, GetFinds, GetNotFound
    <2> QED
      BY <1>3, <2>2 DEF AwaitInstance
  <1>4. ASSUME NEW c \in Claims, NEW i \in Instances,
               ClaimInstance(c, i) \/ ReturnClaimed(c, i) \/ CreateInstance(c, i)
        PROVE  TypeOK' /\ IdleInv'
    <2>1. CASE ClaimInstance(c, i)
      BY <2>1 DEF ClaimInstance
    <2>2. CASE ReturnClaimed(c, i)
      BY <2>2 DEF ReturnClaimed
    <2>3. CASE CreateInstance(c, i)
      BY <2>3 DEF CreateInstance
    <2> QED
      BY <1>4, <2>1, <2>2, <2>3
  <1>5. CASE ListInstances
    BY <1>5 DEF ListInstances, List
  <1>6. CASE CacheListed
    <2>1. {x[1] : x \in found} \subseteq Instances
      <3> SUFFICES ASSUME NEW x \in found PROVE x[1] \in Instances
        OBVIOUS
      <3>1. x \in Instances \X {"live", "deleting"}
        OBVIOUS
      <3> QED
        BY <3>1
    <2> QED
      BY <1>6, <2>1 DEF CacheListed
  <1>11. CASE ListNodeClaims
    BY <1>11 DEF ListNodeClaims
  <1>12. CASE EndSweep \/ CollectorFails
    BY <1>12 DEF EndSweep, CollectorFails
  <1>7. ASSUME NEW i \in Instances, Collect(i) PROVE TypeOK' /\ IdleInv'
    BY <1>7 DEF Collect, DeleteNotFound, DeleteFound
  <1>8. ASSUME NEW i \in Instances,
               Boot(i) \/ ShowInPool(i) \/ GrowOld(i) \/ Vanish(i) \/ CacheExpires(i)
        PROVE  TypeOK' /\ IdleInv'
    BY <1>8 DEF Boot, ShowInPool, GrowOld, Vanish, CacheExpires
  <1>9. CASE InformerCatchesUp
    BY <1>9 DEF InformerCatchesUp, ProviderIDs
  <1>10. CASE UNCHANGED vars
    BY <1>10 DEF vars
  <1> QED
    BY <1>1, <1>2, <1>3, <1>4, <1>5, <1>6, <1>7, <1>8, <1>9, <1>10, <1>11, <1>12 DEF Next

(* NodeClaims never return, and never give up what they recorded, nor      *)
(* instances their holder.                                                 *)
LEMMA RecordStep ==
    ASSUME TypeOK, RecordInv, [Next]_vars
    PROVE  /\ RecordInv'
           /\ \A c \in Claims :
                /\ claim[c] = "gone" => claim'[c] = "gone"
                /\ pid[c] # None => pid'[c] = pid[c]
           /\ \A i \in Instances : holder[i] # None => holder'[i] = holder[i]
  <1> DEFINE Goal == /\ RecordInv'
                     /\ \A c \in Claims :
                          /\ claim[c] = "gone" => claim'[c] = "gone"
                          /\ pid[c] # None => pid'[c] = pid[c]
                     /\ \A i \in Instances : holder[i] # None => holder'[i] = holder[i]
  <1> USE LifecycleAssumption
  <1> USE DEF TypeOK, RecordInv, cloud, objects, calls, collector
  <1>1. ASSUME NEW c \in Claims,
               \/ CreateNodeClaim(c) \/ StartCreate(c) \/ CreateFails(c)
               \/ RecordProviderID(c) \/ DeleteNodeClaim(c) \/ RemoveFinalizer(c)
        PROVE  Goal
    BY <1>1 DEF CreateNodeClaim, StartCreate, CreateFails, RecordProviderID, DeleteNodeClaim,
                RemoveFinalizer
  <1>2. ASSUME NEW c \in Claims, Terminate(c) PROVE Goal
    <2>1. pid[c] \in Instances
      BY <1>2 DEF Terminate
    <2> QED
      BY <1>2, <2>1 DEF Terminate, DeleteNotFound, DeleteFound, NotFound
  <1>3. ASSUME NEW c \in Claims, AwaitInstance(c) PROVE Goal
    BY <1>3 DEF AwaitInstance, GetFinds, GetNotFound
  <1>4. ASSUME NEW c \in Claims, NEW i \in Instances, ClaimInstance(c, i) PROVE Goal
    BY <1>4 DEF ClaimInstance
  <1>5. ASSUME NEW c \in Claims, NEW i \in Instances, ReturnClaimed(c, i) PROVE Goal
    BY <1>5 DEF ReturnClaimed
  <1>6. ASSUME NEW c \in Claims, NEW i \in Instances, CreateInstance(c, i) PROVE Goal
    BY <1>6 DEF CreateInstance
  <1>7. CASE ListInstances \/ CacheListed \/ ListNodeClaims \/ EndSweep \/ CollectorFails
    BY <1>7 DEF ListInstances, CacheListed, ListNodeClaims, EndSweep, CollectorFails
  <1>8. ASSUME NEW i \in Instances, Collect(i) PROVE Goal
    BY <1>8 DEF Collect, DeleteNotFound, DeleteFound
  <1>9. ASSUME NEW i \in Instances,
               Boot(i) \/ ShowInPool(i) \/ GrowOld(i) \/ Vanish(i) \/ CacheExpires(i)
        PROVE  Goal
    BY <1>9 DEF Boot, ShowInPool, GrowOld, Vanish, CacheExpires
  <1>10. CASE InformerCatchesUp \/ UNCHANGED vars
    BY <1>10 DEF InformerCatchesUp, vars
  <1> QED
    BY <1>1, <1>2, <1>3, <1>4, <1>5, <1>6, <1>7, <1>8, <1>9, <1>10 DEF Next

(* Only the collector and the informer change what they have seen. *)
LEMMA VisibleStep ==
    ASSUME Inv, [Next]_vars
    PROVE  VisibleInv'
  <1> USE LifecycleAssumption
  <1>1. /\ \A c \in Claims :
             /\ claim[c] = "gone" => claim'[c] = "gone"
             /\ pid[c] # None => pid'[c] = pid[c]
        /\ \A i \in Instances : holder[i] # None => holder'[i] = holder[i]
    BY RecordStep DEF Inv
  <1>2. \A i \in seen \cup visible :
          /\ i \in Instances /\ holder'[i] = holder[i] /\ holder[i] \in Claims
          /\ pid[holder[i]] = i /\ pid'[holder[i]] = i
          /\ ~Exists(holder[i]) => ~Exists(holder[i])'
    BY <1>1 DEF Inv, TypeOK, VisibleInv, RecordInv, Exists
  <1>3. CASE ListInstances
    BY <1>2, <1>3 DEF ListInstances, Inv, VisibleInv, IdleInv
  <1>4. CASE ListNodeClaims
    BY <1>2, <1>4 DEF ListNodeClaims, Inv, VisibleInv
  <1>5. CASE EndSweep \/ CollectorFails
    BY <1>2, <1>5 DEF EndSweep, CollectorFails, Inv, VisibleInv
  <1>6. CASE InformerCatchesUp
    <2>1. \A i \in seen' : holder'[i] \in Claims /\ pid'[holder'[i]] = i
      BY <1>6 DEF InformerCatchesUp, ProviderIDs, Exists, Inv, TypeOK, RecordInv, cloud, objects
    <2>2. \A i \in visible : i \notin seen' => ~Exists(holder[i])'
      BY <1>2, <1>6 DEF InformerCatchesUp, ProviderIDs
    <2>3. visible' \subseteq visible \cup seen' /\ todo' = todo
      BY <1>6 DEF InformerCatchesUp
    <2>4. \A i \in visible' : i \notin seen' => ~Exists(holder[i])'
      BY <2>2, <2>3
    <2>5. \A i \in visible' : i \in todo => ~Exists(holder[i])'
      BY <1>2, <1>6 DEF InformerCatchesUp, Inv, IdleInv, VisibleInv
    <2>6. \A i \in visible' : holder'[i] \in Claims /\ pid'[holder'[i]] = i
      BY <1>2, <2>1, <2>3
    <2>7. UNCHANGED <<claim, holder>>
      BY <1>6 DEF InformerCatchesUp, cloud, objects
    <2> QED
      BY <2>1, <2>3, <2>4, <2>5, <2>6, <2>7 DEF VisibleInv, Exists
  <1>7. CASE seen' = seen /\ visible' = visible /\ todo' \subseteq todo
    BY <1>2, <1>7 DEF Inv, VisibleInv
  <1>8. \/ ListInstances \/ ListNodeClaims \/ EndSweep \/ CollectorFails \/ InformerCatchesUp
        \/ seen' = seen /\ visible' = visible /\ todo' \subseteq todo
    BY DEF Next, vars, collector, CreateNodeClaim, StartCreate, CreateFails, RecordProviderID,
           DeleteNodeClaim, RemoveFinalizer, Terminate, AwaitInstance, ClaimInstance, ReturnClaimed,
           CreateInstance, CacheListed, Collect, Boot, ShowInPool, GrowOld, Vanish, CacheExpires
  <1> QED
    BY <1>3, <1>4, <1>5, <1>6, <1>7, <1>8

(* Types, records and what was visible are right in every state: the        *)
(* inductive invariant behind SparesRecorded.                               *)
THEOREM LifecycleInvariant == Spec => []Inv
  <1>1. Init => Inv
    BY LifecycleAssumption DEF Init, Inv, TypeOK, IdleInv, RecordInv, VisibleInv, Live
  <1>2. Inv /\ [Next]_vars => Inv'
    BY TypeStep, RecordStep, VisibleStep DEF Inv
  <1> QED
    BY <1>1, <1>2, PTL DEF Spec

(* Every state of the life cycle has its types.                             *)
THEOREM LifecycleTypeCorrect == Spec => []TypeOK
  <1>1. Inv => TypeOK
    BY DEF Inv
  <1> QED
    BY <1>1, LifecycleInvariant, PTL

(* The collector never goes after an instance that an existing NodeClaim    *)
(* has recorded, if the informer showed the record at any time before the   *)
(* NodeClaims were listed.                                                  *)
THEOREM SparesRecordedHolds == Spec => []SparesRecorded
  <1>1. Inv => SparesRecorded
    <2> SUFFICES ASSUME Inv, NEW i \in todo \cap visible, NEW c \in Claims, Exists(c), pid[c] = i
                 PROVE  FALSE
      BY DEF SparesRecorded, ProviderIDs
    <2>1. i \in Instances /\ holder[i] = c
      BY LifecycleAssumption DEF Inv, TypeOK, RecordInv
    <2> QED
      BY <2>1 DEF Inv, VisibleInv
  <1> QED
    BY <1>1, LifecycleInvariant, PTL

=============================================================================

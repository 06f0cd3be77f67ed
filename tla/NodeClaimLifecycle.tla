------------------------- MODULE NodeClaimLifecycle -------------------------
(***************************************************************************)
(* Launch, termination and garbage collection of instances, seen from the  *)
(* cloud provider (pkg/cloudprovider/cloudprovider.go) and the controller  *)
(* instance.garbagecollection                                              *)
(* (pkg/controllers/nodeclaim/garbagecollection/controller.go).            *)
(*                                                                         *)
(* With LKE the node provider is the ledger that LKEProvider implements:   *)
(* LKE boots nodes, Create claims one and is idempotent.  Without it the   *)
(* provider is pkg/providers/instance/instance.go, whose Create is one     *)
(* CreateInstance request.  Karpenter's core, which keeps the NodeClaims,  *)
(* is external.                                                            *)
(*                                                                         *)
(* Both providers cache what Get, List and Create find for a minute; Get   *)
(* answers from the cache, by which core decides when a NodeClaim goes.    *)
(*                                                                         *)
(* Left out: the Node object a collection deletes along, and the loss of a *)
(* whole pool that LKEProvider shows on the Enterprise tier.               *)
(***************************************************************************)
EXTENDS Naturals

CONSTANTS
    Claims,     \* NodeClaims
    Instances,  \* instances; their number bounds those ever created
    Modes,      \* the deployments considered
    None

ASSUME LifecycleAssumption ==
    /\ Modes \subseteq {"instance", "standard", "enterprise"}
    /\ None \notin Claims \cup Instances

VARIABLES
    mode,      \* without LKE, or the tier of the LKE cluster; it never changes
    (* Linode *)
    inst,      \* "none", "live", "deleting" or "gone"
    holder,    \* the NodeClaim named by the instance's tags
    old,       \* instances created more than 30 seconds ago
    unlisted,  \* Enterprise: nodes not yet in pool.Linodes
    (* the API server *)
    claim,     \* "absent", "live", "deleting" or "gone"
    pid,       \* NodeClaim.status.providerID
    ended,     \* the NodeClaims whose Delete was answered (InstanceTerminating)
    seen,      \* the provider IDs the NodeClaim informer shows
    (* the process *)
    cached,    \* instances in the node provider's cache
    call,      \* "idle", or where the Create of a claim is
    result,    \* what it returned
    gc,        \* "idle", "answered" and "listed" (instances), "sweep"
    found,     \* instances the collector listed, with their status
    todo,      \* instances of this sweep still to look at
    visible    \* for the properties: what seen has had since the listing began

cloud == <<inst, holder, old, unlisted>>
objects == <<claim, pid, ended>>
calls == <<call, result>>
collector == <<gc, found, todo, visible>>
vars == <<mode, cloud, objects, seen, cached, calls, collector>>

LKE == mode # "instance"
Enterprise == mode = "enterprise"

Exists(c) == claim[c] \in {"live", "deleting"}

ProviderIDs == {i \in Instances : \E c \in Claims : Exists(c) /\ pid[c] = i}

Init ==
    /\ mode \in Modes
    /\ inst = [i \in Instances |-> "none"]
    /\ holder = [i \in Instances |-> None]
    /\ old = {} /\ unlisted = {} /\ seen = {}
    /\ claim = [c \in Claims |-> "absent"]
    /\ pid = [c \in Claims |-> None]
    /\ ended = {} /\ cached = {}
    /\ call = [c \in Claims |-> "idle"]
    /\ result = [c \in Claims |-> None]
    /\ gc = "idle"
    /\ found = {} /\ todo = {} /\ visible = {}

-----------------------------------------------------------------------------
(* The node provider *)

(* The tags List filters by: the LKE pool's tags are on Enterprise nodes   *)
(* from the start and are put on Standard ones by the claim.               *)
Managed(i) == inst[i] # "none" /\ (Enterprise \/ holder[i] # None)

(* Mutant: instances of claims that still exist only. *)
ListExistingOnly ==
    {<<i, inst[i]>> : i \in {j \in Instances :
        inst[j] \in {"live", "deleting"} /\ holder[j] # None /\ Exists(holder[j])}}

(* What List finds. *)
List ==
    {<<i, inst[i]>> : i \in {j \in Instances : inst[j] \in {"live", "deleting"} /\ Managed(j)}}

(* Delete finds no such instance: Get without the cache, or the lookup in  *)
(* the pools, says so.                                                     *)
NotFound(i) == IF LKE THEN inst[i] # "live" \/ i \in unlisted ELSE inst[i] = "gone"

DeleteNotFound(i) ==
    /\ NotFound(i)
    /\ cached' = cached \ {i} /\ UNCHANGED cloud

(* Delete of an instance it finds.  LKE: the entry goes once the request   *)
(* is answered.  Without LKE the Get that precedes it makes an entry, and  *)
(* nothing is requested if the instance is terminating already.            *)
DeleteFound(i, answered) ==
    /\ ~NotFound(i)
    /\ inst' = [inst EXCEPT ![i] = IF LKE THEN "gone" ELSE "deleting"]
    /\ cached' = IF ~LKE THEN cached \cup {i} ELSE IF answered THEN cached \ {i} ELSE cached
    /\ UNCHANGED <<holder, old, unlisted>>

-----------------------------------------------------------------------------
(* Launch and termination by Karpenter's core *)

CreateNodeClaim(c) ==
    /\ claim[c] = "absent"
    /\ claim' = [claim EXCEPT ![c] = "live"]
    /\ UNCHANGED <<mode, cloud, pid, ended, seen, cached, calls, collector>>

StartCreate(c) ==
    /\ claim[c] = "live" /\ pid[c] = None /\ call[c] = "idle"
    /\ call' = [call EXCEPT ![c] = "create"]
    /\ UNCHANGED <<mode, cloud, objects, seen, cached, result, collector>>

(* LKE: the claim, the ledger's Assign.                                    *)
ClaimInstance(c, i) ==
    /\ LKE /\ call[c] = "create"
    /\ inst[i] = "live" /\ holder[i] = None
    /\ \A j \in Instances : holder[j] = c => inst[j] # "live"
    /\ holder' = [holder EXCEPT ![i] = c]
    /\ UNCHANGED <<mode, inst, old, unlisted, objects, seen, cached, calls, collector>>

(* LKE: the ledger's Answer, which also serves a repeated call; the node   *)
(* gets an entry in the cache.                                             *)
ReturnClaimed(c, i) ==
    /\ LKE /\ call[c] = "create"
    /\ inst[i] = "live" /\ holder[i] = c
    /\ call' = [call EXCEPT ![c] = "created"]
    /\ result' = [result EXCEPT ![c] = i]
    /\ cached' = cached \cup {i}
    /\ UNCHANGED <<mode, cloud, objects, seen, collector>>

(* Without LKE: CreateInstance with all tags; its answer may be lost.      *)
CreateInstance(c, i) ==
    /\ ~LKE /\ call[c] = "create"
    /\ inst[i] = "none"
    /\ inst' = [inst EXCEPT ![i] = "live"]
    /\ holder' = [holder EXCEPT ![i] = c]
    /\ \/ /\ call' = [call EXCEPT ![c] = "created"]
          /\ result' = [result EXCEPT ![c] = i]
       \/ call' = [call EXCEPT ![c] = "idle"] /\ UNCHANGED result
    /\ UNCHANGED <<mode, old, unlisted, objects, seen, cached, collector>>

(* Mutant: the node of the failed call stays in the NodeClaim that was returned. *)
CreateFailsKeepsResult(c) ==
    /\ call[c] # "idle"
    /\ call' = [call EXCEPT ![c] = "idle"]
    /\ UNCHANGED <<mode, cloud, objects, seen, cached, result, collector>>

(* An error, a deadline, or a crash of the process during the call.        *)
CreateFails(c) ==
    /\ call[c] # "idle"
    /\ call' = [call EXCEPT ![c] = "idle"]
    /\ result' = [result EXCEPT ![c] = None]
    /\ UNCHANGED <<mode, cloud, objects, seen, cached, collector>>

RecordProviderID(c) ==
    /\ call[c] = "created"
    /\ pid' = [pid EXCEPT ![c] = result[c]]
    /\ call' = [call EXCEPT ![c] = "idle"]
    /\ result' = [result EXCEPT ![c] = None]
    /\ UNCHANGED <<mode, cloud, claim, ended, seen, cached, collector>>

DeleteNodeClaim(c) ==
    /\ claim[c] = "live"
    /\ claim' = [claim EXCEPT ![c] = "deleting"]
    /\ UNCHANGED <<mode, cloud, pid, ended, seen, cached, calls, collector>>

(* Core deletes what was recorded ... *)
Terminate(c) ==
    /\ claim[c] = "deleting" /\ call[c] = "idle" /\ pid[c] # None /\ c \notin ended
    /\ \/ /\ DeleteNotFound(pid[c])
          /\ claim' = [claim EXCEPT ![c] = "gone"] /\ UNCHANGED ended
       \/ /\ DeleteFound(pid[c], TRUE)
          /\ ended' = ended \cup {c} /\ UNCHANGED claim
       \/ /\ DeleteFound(pid[c], FALSE)
          /\ UNCHANGED <<claim, ended>>
    /\ UNCHANGED <<mode, pid, seen, calls, collector>>

(* Get answers from its cache or asks Linode, and keeps what it finds.     *)
GetFinds(c) ==
    /\ pid[c] \notin cached /\ inst[pid[c]] \in {"live", "deleting"}
    /\ cached' = cached \cup {pid[c]}

GetNotFound(c) == pid[c] \notin cached /\ inst[pid[c]] = "gone"

(* ... and then asks until the instance is not found; an answer from the   *)
(* cache changes nothing.                                                  *)
AwaitInstance(c) ==
    /\ claim[c] = "deleting" /\ c \in ended
    /\ \/ GetFinds(c) /\ UNCHANGED claim
       \/ /\ GetNotFound(c)
          /\ claim' = [claim EXCEPT ![c] = "gone"] /\ UNCHANGED cached
    /\ UNCHANGED <<mode, cloud, pid, ended, seen, calls, collector>>

(* Nothing was recorded that could be deleted. *)
RemoveFinalizer(c) ==
    /\ claim[c] = "deleting" /\ call[c] = "idle" /\ pid[c] = None
    /\ claim' = [claim EXCEPT ![c] = "gone"]
    /\ UNCHANGED <<mode, cloud, pid, ended, seen, cached, calls, collector>>

-----------------------------------------------------------------------------
(* Garbage collection *)

(* The instances are listed before the NodeClaims.                         *)
ListInstances ==
    /\ gc = "idle"
    /\ gc' = "answered"
    /\ found' = List
    /\ visible' = seen
    /\ UNCHANGED <<mode, cloud, objects, seen, cached, calls, todo>>

(* Every instance of the answer is cached, whatever was deleted meanwhile. *)
CacheListed ==
    /\ gc = "answered"
    /\ gc' = "listed"
    /\ cached' = cached \cup {x[1] : x \in found}
    /\ UNCHANGED <<mode, cloud, objects, seen, calls, found, todo, visible>>

(* Those that were not terminating already. *)
Live(listed) == {i \in Instances : <<i, "live">> \in listed}

(* Mutant: no provider ID is compared. *)
ListManagedOnly ==
    /\ gc = "listed"
    /\ gc' = "sweep"
    /\ todo' = Live(found)
    /\ UNCHANGED <<mode, cloud, objects, seen, cached, calls, found, visible>>

ListNodeClaims ==
    /\ gc = "listed"
    /\ gc' = "sweep"
    /\ todo' = Live(found) \ seen
    /\ UNCHANGED <<mode, cloud, objects, seen, cached, calls, found, visible>>

(* One of the parallel garbageCollect calls.  An instance that is too      *)
(* young or not found is passed over, as is one whose Delete fails.        *)
Collect(i) ==
    /\ gc = "sweep" /\ i \in todo
    /\ todo' = todo \ {i}
    /\ IF i \in old
       THEN DeleteNotFound(i) \/ DeleteFound(i, TRUE) \/ DeleteFound(i, FALSE)
       ELSE UNCHANGED <<cloud, cached>>
    /\ UNCHANGED <<mode, objects, seen, calls, gc, found, visible>>

EndSweep ==
    /\ gc = "sweep" /\ todo = {}
    /\ gc' = "idle"
    /\ found' = {} /\ visible' = {}
    /\ UNCHANGED <<mode, cloud, objects, seen, cached, calls, todo>>

(* A request of the collector fails, or the process stops.                 *)
CollectorFails ==
    /\ gc # "idle"
    /\ gc' = "idle"
    /\ found' = {} /\ todo' = {} /\ visible' = {}
    /\ UNCHANGED <<mode, cloud, objects, seen, cached, calls>>

-----------------------------------------------------------------------------
(* The environment *)

(* LKE boots a node that some Create call asked for. *)
Boot(i) ==
    /\ LKE /\ inst[i] = "none"
    /\ inst' = [inst EXCEPT ![i] = "live"]
    /\ unlisted' = IF Enterprise THEN unlisted \cup {i} ELSE unlisted
    /\ UNCHANGED <<mode, holder, old, objects, seen, cached, calls, collector>>

ShowInPool(i) ==
    /\ i \in unlisted
    /\ unlisted' = unlisted \ {i}
    /\ UNCHANGED <<mode, inst, holder, old, objects, seen, cached, calls, collector>>

GrowOld(i) ==
    /\ inst[i] = "live" /\ i \notin old
    /\ old' = old \cup {i}
    /\ UNCHANGED <<mode, inst, holder, unlisted, objects, seen, cached, calls, collector>>

(* DeleteInstance completes. *)
Vanish(i) ==
    /\ inst[i] = "deleting"
    /\ inst' = [inst EXCEPT ![i] = "gone"]
    /\ UNCHANGED <<mode, holder, old, unlisted, objects, seen, cached, calls, collector>>

InformerCatchesUp ==
    /\ seen # ProviderIDs
    /\ seen' = ProviderIDs
    /\ visible' = IF gc \in {"answered", "listed"} THEN visible \cup ProviderIDs ELSE visible
    /\ UNCHANGED <<mode, cloud, objects, cached, calls, gc, found, todo>>

(* Mutant: an entry that is asked for does not expire. *)
ExpiresUnread(i) ==
    /\ i \in cached /\ \A c \in Claims : ~(pid[c] = i /\ claim[c] = "deleting")
    /\ cached' = cached \ {i}
    /\ UNCHANGED <<mode, cloud, objects, seen, calls, collector>>

(* DefaultTTL passes, or the process restarts. *)
CacheExpires(i) ==
    /\ i \in cached
    /\ cached' = cached \ {i}
    /\ UNCHANGED <<mode, cloud, objects, seen, calls, collector>>

Next ==
    \/ \E c \in Claims :
         \/ CreateNodeClaim(c) \/ StartCreate(c) \/ CreateFails(c) \/ RecordProviderID(c)
         \/ DeleteNodeClaim(c) \/ Terminate(c) \/ AwaitInstance(c) \/ RemoveFinalizer(c)
         \/ \E i \in Instances : ClaimInstance(c, i) \/ ReturnClaimed(c, i) \/ CreateInstance(c, i)
    \/ ListInstances \/ CacheListed \/ ListNodeClaims \/ EndSweep \/ CollectorFails
    \/ \E i \in Instances : Collect(i) \/ Boot(i) \/ ShowInPool(i) \/ GrowOld(i) \/ Vanish(i) \/ CacheExpires(i)
    \/ InformerCatchesUp

Spec == Init /\ [][Next]_vars

(* The collector is requeued for ever, and its requests do not always fail *)
(* at the same point; core retries terminations; delays end.               *)
Fairness ==
    /\ WF_vars(ListInstances \/ EndSweep) /\ SF_vars(CacheListed) /\ SF_vars(ListNodeClaims)
    /\ \A i \in Instances :
         /\ SF_vars(Collect(i))
         /\ WF_vars(ShowInPool(i)) /\ WF_vars(GrowOld(i)) /\ WF_vars(Vanish(i))
         /\ WF_vars(CacheExpires(i))
    /\ \A c \in Claims :
         WF_vars(CreateFails(c) \/ RecordProviderID(c) \/ Terminate(c) \/ AwaitInstance(c) \/ RemoveFinalizer(c))
    /\ WF_vars(InformerCatchesUp)

FairSpec == Spec /\ Fairness

-----------------------------------------------------------------------------
(* Properties *)

(* Types; a result is pending exactly when Create has returned it, and a    *)
(* sweep only looks at what it listed.                                      *)
TypeOK ==
    /\ mode \in Modes
    /\ inst \in [Instances -> {"none", "live", "deleting", "gone"}]
    /\ holder \in [Instances -> Claims \cup {None}]
    /\ {old, unlisted, seen, cached, todo, visible} \subseteq SUBSET Instances
    /\ found \subseteq Instances \X {"live", "deleting"} /\ ended \subseteq Claims
    /\ claim \in [Claims -> {"absent", "live", "deleting", "gone"}]
    /\ pid \in [Claims -> Instances \cup {None}]
    /\ call \in [Claims -> {"idle", "create", "created"}]
    /\ result \in [Claims -> Instances \cup {None}]
    /\ gc \in {"idle", "answered", "listed", "sweep"}
    /\ \A c \in Claims : result[c] # None <=> call[c] = "created"
    /\ todo \subseteq Live(found)

(* The collector never goes after an instance whose NodeClaim exists and   *)
(* has recorded it, if the informer showed the record at any time before   *)
(* the NodeClaims were listed, were it after the instances were: "we LIST  *)
(* NodeClaims on the CloudProvider BEFORE we grab NodeClaims/Nodes on the  *)
(* cluster".  It may go after one that was recorded and not shown by then. *)
SparesRecorded == todo \cap visible \cap ProviderIDs = {}

(* "should not delete LKE nodes if they have NodeClaim owners": while a    *)
(* NodeClaim lives, nothing takes the instance that carries its tag.       *)
SparesOwned ==
    [][\A i \in Instances : \A c \in Claims :
         holder[i] = c /\ claim[c] = "live" /\ inst[i] = "live" => inst'[i] = "live"]_vars

(* An instance a NodeClaim launched and no NodeClaim will ever record.     *)
Orphan(i) ==
    /\ inst[i] = "live" /\ holder[i] # None
    /\ ~Exists(holder[i]) \/ pid[holder[i]] \notin {None, i}

(* A crash between a launch and its record, a NodeClaim that was deleted   *)
(* in between, or a Delete that did not find the node leave no instance    *)
(* behind for good.                                                        *)
OrphansCollected == \A i \in Instances : Orphan(i) ~> inst[i] # "live"

(* Every NodeClaim that is being deleted disappears.                       *)
ClaimsTerminate == \A c \in Claims : claim[c] = "deleting" ~> claim[c] = "gone"

(* "orphan GC will remove unclaimed capacity", on the Enterprise tier,      *)
(* where a node is tagged as managed from the start: a node nobody claimed *)
(* is claimed later or removed.                                            *)
UnclaimedCollected ==
    \A i \in Instances :
        (Enterprise /\ inst[i] = "live" /\ holder[i] = None) ~>
            (inst[i] # "live" \/ holder[i] # None)

=============================================================================

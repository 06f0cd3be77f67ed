------------------------------ MODULE NodeClass ------------------------------
(***************************************************************************)
(* One LinodeNodeClass and the NodeClaims that name it: the controllers    *)
(* nodeclass (finalizer, validation, readiness;                            *)
(* pkg/controllers/nodeclass) and nodeclass.hash (drift annotations;       *)
(* pkg/controllers/nodeclass/hash), and CloudProvider.Create and IsDrifted *)
(* (pkg/cloudprovider), which read the NodeClass they prepare.             *)
(*                                                                         *)
(* All of them read objects from the informer caches of the one process    *)
(* that leads, and write to the API server.  The API server, the caches    *)
(* and Karpenter's core, which keeps the NodeClaims, are external.         *)
(*                                                                         *)
(* An informer that lags shows the newest version when it catches up; the  *)
(* versions in between are skipped.  A reconcile's copy of the NodeClass   *)
(* is represented by whether it is stale: a patch with optimistic lock     *)
(* takes effect only if it is not, and then the copy is the object.        *)
(*                                                                         *)
(* Abstracted: which field makes a spec invalid and how the hash is        *)
(* computed; the validation cache, which holds successes only and decides  *)
(* nothing; the instance that Create launches; the cluster's own version,  *)
(* which is taken not to change.                                           *)
(***************************************************************************)
EXTENDS Naturals

CONSTANTS
    Claims,      \* NodeClaims
    Specs,       \* specs a user may give the NodeClass
    Valid,       \* those that validation accepts
    HashOf(_),   \* what LinodeNodeClass.Hash returns
    Defaulted(_),\* the spec once Create has filled in what it leaves out
    MaxGen,      \* bound: how often the spec changes, plus one
    MaxFaults,   \* bound: failed requests and restarts
    None

ASSUME NodeClassAssumption ==
    /\ Valid \subseteq Specs
    /\ MaxGen \in Nat /\ MaxFaults \in Nat
    /\ None \notin Specs

VARIABLES
    (* the API server *)
    class,    \* the NodeClass
    claim,    \* the NodeClaims
    (* the informers *)
    cache,    \* the NodeClass they show
    seen,     \* the NodeClaims they show
    (* the controller nodeclass *)
    main,     \* where its reconcile is
    stale,    \* the NodeClass has another resource version than its copy
    (* the controller nodeclass.hash *)
    hc,       \* where its reconcile is
    hspec,    \* the spec in its copy of the NodeClass
    hlist,    \* NodeClaims of the list still to migrate
    herr,     \* a patch of one of them failed
    (* the cloud provider *)
    call,     \* the running Create of a claim: the spec it read, how far it is
    (* counters and ghosts *)
    faults,   \* faults left
    got,      \* the spec a claim's instance was made with
    adopted   \* claims whose hash was recorded from another read of the NodeClass

server == <<class, claim>>
caches == <<cache, seen>>
mainVars == <<main, stale>>
hashVars == <<hc, hspec, hlist, herr>>
ghosts == <<got, adopted>>
vars == <<server, caches, mainVars, hashVars, call, faults, ghosts>>

HashVersion == "v1alpha1"

(* The annotation: a bump of the hash version changes every hash. *)
Hash(ver, spec) == <<ver, HashOf(spec)>>

HashVersions == {"none", "old", HashVersion}
Hashes ==
    {<<v, HashOf(s)>> : v \in HashVersions, s \in Specs \cup {Defaulted(t) : t \in Specs}} \cup {None}

ClassObjects ==
    [exists: BOOLEAN, deleting: BOOLEAN, finalizer: BOOLEAN,
     spec: Specs, gen: Nat,
     ready: {"Unknown", "True", "False"}, observed: Nat,
     hash: Hashes, ver: HashVersions]

ClaimObjects ==
    [phase: {"absent", "pending", "launched", "gone"}, drifted: BOOLEAN,
     hash: Hashes, ver: HashVersions]

Exists(k) == k.phase \in {"pending", "launched"}

NoClaim == [phase |-> "absent", drifted |-> FALSE, hash |-> None, ver |-> "none"]

(* A NodeClass the user has just created. *)
Fresh(s) ==
    [exists |-> TRUE, deleting |-> FALSE, finalizer |-> FALSE,
     spec |-> s, gen |-> 1, ready |-> "Unknown", observed |-> 0,
     hash |-> None, ver |-> "none"]

(* One that a release with another hash version has reconciled. *)
Legacy(s) ==
    [exists |-> TRUE, deleting |-> FALSE, finalizer |-> TRUE,
     spec |-> s, gen |-> 1, ready |-> "True", observed |-> 1,
     hash |-> Hash("old", s), ver |-> "old"]

(* A claim which that release launched with spec t. *)
LegacyClaim(t, drifted) ==
    [phase |-> "launched", drifted |-> drifted, hash |-> Hash("old", t), ver |-> "old"]

InitFresh(s) ==
    /\ class = Fresh(s)
    /\ got = [c \in Claims |-> None]
    /\ claim = [c \in Claims |-> NoClaim]

InitLegacy(s) ==
    /\ s \in Valid /\ class = Legacy(s)
    /\ got \in [Claims -> Valid \cup {None}]
    /\ \E drifted \in SUBSET Claims :
         claim = [c \in Claims |->
                    IF got[c] = None THEN NoClaim
                    ELSE LegacyClaim(got[c], c \in drifted)]

Init ==
    /\ \E s \in Specs : InitFresh(s) \/ InitLegacy(s)
    /\ cache = class /\ seen = claim
    /\ main = "idle" /\ stale = FALSE
    /\ hc = "idle" /\ hspec = None /\ hlist = {} /\ herr = FALSE
    /\ call = [c \in Claims |-> None]
    /\ faults = MaxFaults
    /\ adopted = {}

-----------------------------------------------------------------------------
(* The API server and the informers *)

(* A write by anyone but the controller nodeclass makes its copy stale. *)
WriteClass(o) ==
    /\ class' = o
    /\ stale' = (main # "idle" /\ (stale \/ o # class))

WriteClaim(c, o) == claim' = [claim EXCEPT ![c] = o]

Edit(s) ==
    /\ class.exists /\ s # class.spec /\ class.gen < MaxGen
    /\ WriteClass([class EXCEPT !.spec = s, !.gen = @ + 1])
    /\ UNCHANGED <<claim, caches, main, hashVars, call, faults, ghosts>>

(* Without finalizers the object goes at once. *)
DeleteClass ==
    /\ class.exists /\ ~class.deleting
    /\ WriteClass(IF class.finalizer
                  THEN [class EXCEPT !.deleting = TRUE, !.gen = @ + 1]
                  ELSE [class EXCEPT !.exists = FALSE])
    /\ UNCHANGED <<claim, caches, main, hashVars, call, faults, ghosts>>

ShowClass ==
    /\ cache # class /\ cache' = class
    /\ UNCHANGED <<server, seen, mainVars, hashVars, call, faults, ghosts>>

ShowClaims ==
    /\ seen # claim /\ seen' = claim
    /\ UNCHANGED <<server, cache, mainVars, hashVars, call, faults, ghosts>>

(* The process restarts and lists the objects again. *)
Restart ==
    /\ faults > 0 /\ faults' = faults - 1
    /\ cache' = class /\ seen' = claim
    /\ main' = "idle" /\ stale' = FALSE
    /\ hc' = "idle" /\ hspec' = None /\ hlist' = {} /\ herr' = FALSE
    /\ call' = [c \in Claims |-> None]
    /\ UNCHANGED <<server, ghosts>>

-----------------------------------------------------------------------------
(* The controller nodeclass.  A patch that meets a conflict or an error    *)
(* ends the reconcile, and another one is queued.                          *)

ReconcileClass ==
    /\ main = "idle" /\ cache.exists
    /\ stale' = (cache # class)
    /\ main' = IF cache.deleting THEN "list"
               ELSE IF cache.finalizer THEN "validate" ELSE "addFinalizer"
    /\ UNCHANGED <<server, caches, hashVars, call, faults, ghosts>>

EndReconcile == main' = "idle" /\ stale' = FALSE

(* NotFound is ignored, and the copy is validated all the same. *)
AddFinalizer ==
    /\ main = "addFinalizer"
    /\ \/ /\ ~stale
          /\ class' = [class EXCEPT !.finalizer = TRUE]
          /\ main' = "validate" /\ UNCHANGED stale
       \/ /\ stale /\ class.exists
          /\ EndReconcile /\ UNCHANGED class
       \/ /\ ~class.exists
          /\ main' = "validate" /\ UNCHANGED <<class, stale>>
    /\ UNCHANGED <<claim, caches, hashVars, call, faults, ghosts>>

(* Tags, fields of the other mode, and the LKE version and tier. *)
Accepts(spec) == spec \in Valid

(* Mutant: the status of an earlier reconcile stays. *)
ValidatedOnce(o) ==
    [o EXCEPT !.ready = IF @ # "Unknown" THEN @
                        ELSE IF Accepts(o.spec) THEN "True" ELSE "False",
              !.observed = IF o.ready # "Unknown" THEN @ ELSE o.gen]

(* What the checks of Validation.Reconcile set on the copy: ready is the   *)
(* root of the one condition ValidationSucceeded.                          *)
Validated(o) ==
    [o EXCEPT !.ready = IF Accepts(o.spec) THEN "True" ELSE "False",
              !.observed = o.gen]

UpdateStatus ==
    /\ main = "validate" /\ EndReconcile
    /\ class' = IF stale THEN class ELSE Validated(class)
    /\ UNCHANGED <<claim, caches, hashVars, call, faults, ghosts>>

(* Mutant: a claim without an instance does not count. *)
ListLaunchedClaims ==
    /\ main = "list"
    /\ IF \E c \in Claims : seen[c].phase = "launched"
       THEN EndReconcile
       ELSE main' = "removeFinalizer" /\ UNCHANGED stale
    /\ UNCHANGED <<server, caches, hashVars, call, faults, ghosts>>

(* Mutant: a claim that is gone still counts. *)
ListEveryClaim ==
    /\ main = "list"
    /\ IF \E c \in Claims : seen[c].phase # "absent"
       THEN EndReconcile
       ELSE main' = "removeFinalizer" /\ UNCHANGED stale
    /\ UNCHANGED <<server, caches, hashVars, call, faults, ghosts>>

(* finalize: the claims still there keep the finalizer. *)
ListClaims ==
    /\ main = "list"
    /\ IF \E c \in Claims : Exists(seen[c])
       THEN EndReconcile
       ELSE main' = "removeFinalizer" /\ UNCHANGED stale
    /\ UNCHANGED <<server, caches, hashVars, call, faults, ghosts>>

RemoveFinalizer ==
    /\ main = "removeFinalizer" /\ EndReconcile
    /\ class' = IF stale THEN class
                ELSE [class EXCEPT !.finalizer = FALSE, !.exists = FALSE]
    /\ UNCHANGED <<claim, caches, hashVars, call, faults, ghosts>>

(* A request of the reconcile fails, GetLKECluster among them. *)
ReconcileFails ==
    /\ main # "idle" /\ EndReconcile
    /\ faults > 0 /\ faults' = faults - 1
    /\ UNCHANGED <<server, caches, hashVars, call, ghosts>>

-----------------------------------------------------------------------------
(* The controller nodeclass.hash; its patches carry no optimistic lock.    *)

Stamped(o) == o.ver = HashVersion /\ o.hash = Hash(HashVersion, o.spec)

ToMigrate == {c \in Claims : Exists(seen[c]) /\ seen[c].ver # HashVersion}

ReconcileHash ==
    /\ hc = "idle" /\ cache.exists /\ ~Stamped(cache)
    /\ hspec' = cache.spec /\ hc' = "claims" /\ herr' = FALSE
    /\ hlist' = IF cache.ver = HashVersion THEN {}
                ELSE {<<c, seen[c].drifted>> : c \in ToMigrate}
    /\ UNCHANGED <<server, caches, mainVars, call, faults, ghosts>>

(* Mutant: drifted claims are given the new hash too. *)
MigratedAlways(o, drifted) ==
    [o EXCEPT !.ver = HashVersion, !.hash = Hash(HashVersion, hspec)]

(* updateNodeClaimHash: a drifted claim keeps its hash.                    *)
Migrated(o, drifted) ==
    [o EXCEPT !.ver = HashVersion,
              !.hash = IF drifted THEN @ ELSE Hash(HashVersion, hspec)]

MigrateClaim(x) ==
    /\ hc = "claims" /\ x \in hlist
    /\ hlist' = hlist \ {x}
    /\ \/ /\ Exists(claim[x[1]])
          /\ WriteClaim(x[1], Migrated(claim[x[1]], x[2]))
          /\ adopted' = IF x[2] THEN adopted ELSE adopted \cup {x[1]}
          /\ UNCHANGED <<herr, faults>>
       \/ /\ ~Exists(claim[x[1]])
          /\ UNCHANGED <<claim, adopted, herr, faults>>
       \/ /\ faults > 0 /\ faults' = faults - 1 /\ herr' = TRUE
          /\ UNCHANGED <<claim, adopted>>
    /\ UNCHANGED <<class, caches, mainVars, hc, hspec, call, got>>

(* Mutant: a reconcile that ends is not forgotten. *)
EndHashStays == hc' = "claims" /\ hspec' = None /\ hlist' = {} /\ herr' = FALSE

EndHash == hc' = "idle" /\ hspec' = None /\ hlist' = {} /\ herr' = FALSE

(* Some claim was not migrated: the NodeClass stays as it is. *)
MigrationFails ==
    /\ hc = "claims" /\ hlist = {} /\ herr
    /\ EndHash
    /\ UNCHANGED <<server, caches, mainVars, call, faults, ghosts>>

Stamp ==
    /\ hc = "claims" /\ hlist = {} /\ ~herr
    /\ EndHash
    /\ IF class.exists
       THEN WriteClass([class EXCEPT !.hash = Hash(HashVersion, hspec),
                                     !.ver = HashVersion])
       ELSE UNCHANGED <<class, stale>>
    /\ UNCHANGED <<claim, caches, main, call, faults, ghosts>>

StampFails ==
    /\ hc = "claims" /\ hlist = {} /\ ~herr
    /\ EndHash
    /\ faults > 0 /\ faults' = faults - 1
    /\ UNCHANGED <<server, caches, mainVars, call, ghosts>>

-----------------------------------------------------------------------------
(* The cloud provider, called by Karpenter's core *)

NewClaim(c) ==
    /\ claim[c].phase = "absent"
    /\ WriteClaim(c, [claim[c] EXCEPT !.phase = "pending"])
    /\ UNCHANGED <<class, caches, mainVars, hashVars, call, faults, ghosts>>

(* A NodeClass that is being deleted counts as not found. *)
Resolves(o) == o.exists /\ ~o.deleting

(* Mutant: the condition may be about an earlier spec. *)
MayLaunchStale(o) == Resolves(o) /\ o.ready = "True"

(* The readiness checks of Create. *)
MayLaunch(o) ==
    /\ Resolves(o)
    /\ o.ready = "True" /\ o.observed = o.gen

(* The core does not repeat a launch that it remembers. *)
StartCreate(c) ==
    /\ seen[c].phase = "pending" /\ claim[c].phase # "launched" /\ call[c] = None
    /\ MayLaunch(cache)
    /\ call' = [call EXCEPT ![c] = [spec |-> cache.spec, launched |-> FALSE]]
    /\ UNCHANGED <<server, caches, mainVars, hashVars, faults, ghosts>>

(* A new instance, or, with LKE, the one that an earlier call claimed.     *)
Launch(c) ==
    /\ call[c] # None /\ ~call[c].launched
    /\ call' = [call EXCEPT ![c].launched = TRUE]
    /\ \/ got' = [got EXCEPT ![c] = call[c].spec]
       \/ got[c] # None /\ UNCHANGED got
    /\ UNCHANGED <<server, caches, mainVars, hashVars, faults, adopted>>

CreateFails(c) ==
    /\ call[c] # None /\ call' = [call EXCEPT ![c] = None]
    /\ faults > 0 /\ faults' = faults - 1
    /\ UNCHANGED <<server, caches, mainVars, hashVars, ghosts>>

(* Mutant: the NodeClass is read again after the launch. *)
RecordedLater(c) == Hash(HashVersion, Defaulted(cache.spec))

(* The hash annotation.  In instance mode the launch has filled in the     *)
(* image on Create's copy of the NodeClass, and the hash is of that copy.  *)
Recorded(c) == Hash(HashVersion, Defaulted(call[c].spec))

(* Create returns the claim with its annotations and the core patches it.  *)
FinishCreate(c) ==
    /\ call[c] # None /\ call[c].launched
    /\ call' = [call EXCEPT ![c] = None]
    /\ adopted' = IF got[c] = call[c].spec THEN adopted \ {c} ELSE adopted \cup {c}
    /\ IF Exists(claim[c])
       THEN WriteClaim(c, [claim[c] EXCEPT !.phase = "launched", !.ver = HashVersion,
                                           !.hash = Recorded(c)])
       ELSE UNCHANGED claim
    /\ UNCHANGED <<class, caches, mainVars, hashVars, faults, got>>

(* The core removes a claim when its termination is complete, and when     *)
(* Create refused it; it does not work on a claim in two places at once.   *)
RemoveClaim(c) ==
    /\ Exists(claim[c]) /\ call[c] = None
    /\ WriteClaim(c, [claim[c] EXCEPT !.phase = "gone"])
    /\ UNCHANGED <<class, caches, mainVars, hashVars, call, faults, ghosts>>

(* IsDrifted: no verdict without a NodeClass and comparable annotations.   *)
IsDrifted(o, k) ==
    /\ Resolves(o)
    /\ o.hash # None /\ k.hash # None
    /\ o.ver = k.ver
    /\ o.hash # k.hash

(* The core records the verdict on the version of the claim it was for.    *)
CheckDrift(c) ==
    /\ seen[c] = claim[c] /\ claim[c].phase = "launched"
    /\ claim[c].drifted # IsDrifted(cache, claim[c])
    /\ WriteClaim(c, [claim[c] EXCEPT !.drifted = ~@])
    /\ UNCHANGED <<class, caches, mainVars, hashVars, call, faults, ghosts>>

-----------------------------------------------------------------------------

MainStep ==
    \/ ReconcileClass \/ AddFinalizer \/ UpdateStatus
    \/ ListClaims \/ RemoveFinalizer

HashStep ==
    \/ ReconcileHash \/ \E x \in hlist : MigrateClaim(x)
    \/ MigrationFails \/ Stamp

Next ==
    \/ \E s \in Specs : Edit(s)
    \/ DeleteClass
    \/ ShowClass \/ ShowClaims
    \/ Restart
    \/ MainStep \/ ReconcileFails
    \/ HashStep \/ StampFails
    \/ \E c \in Claims :
         \/ NewClaim(c) \/ RemoveClaim(c) \/ CheckDrift(c)
         \/ StartCreate(c) \/ Launch(c) \/ FinishCreate(c) \/ CreateFails(c)

Spec == Init /\ [][Next]_vars

(* Informers catch up, and reconciles follow events and requeues; users and *)
(* the creation and removal of claims are under no obligation.             *)
FairSpec ==
    /\ Spec
    /\ WF_vars(ShowClass) /\ WF_vars(ShowClaims)
    /\ WF_vars(MainStep) /\ WF_vars(HashStep)
    /\ \A c \in Claims : WF_vars(Launch(c) \/ FinishCreate(c)) /\ WF_vars(CheckDrift(c))

-----------------------------------------------------------------------------

(* Types of the objects, of what the informers show and of the copies.      *)
TypeOK ==
    /\ class \in ClassObjects /\ cache \in ClassObjects
    /\ claim \in [Claims -> ClaimObjects] /\ seen \in [Claims -> ClaimObjects]
    /\ main \in {"idle", "addFinalizer", "validate", "list", "removeFinalizer"}
    /\ hc \in {"idle", "claims"}
    /\ hspec \in Specs \cup {None}
    /\ stale \in BOOLEAN
    /\ hlist \subseteq Claims \X BOOLEAN /\ herr \in BOOLEAN
    /\ call \in [Claims -> [spec: Specs, launched: BOOLEAN] \cup {None}]
    /\ got \in [Claims -> Specs \cup {None}]
    /\ faults \in 0..MaxFaults /\ adopted \subseteq Claims

(* An instance is only ever launched with a spec that validation accepts,  *)
(* however far the cache, the status and the user's edits are apart.       *)
LaunchValidated ==
    \A c \in Claims :
        /\ call[c] # None => call[c].spec \in Valid
        /\ got[c] # None => got[c] \in Valid

(* The finalizer: while a NodeClaim is launched, or a Create for it is     *)
(* under way, its NodeClass is still there, although Create and finalize   *)
(* decide from caches that lag.                                            *)
ClassOutlivesLaunches ==
    \A c \in Claims :
        claim[c].phase = "launched" \/ (Exists(claim[c]) /\ call[c] # None) => class.exists

(* "This is used to determine if a NodeClaim needs to be replaced due to    *)
(* changes in the NodeClass": between a NodeClass and a claim whose hashes  *)
(* are both up to date, IsDrifted finds exactly the changes that were made  *)
(* since the launch, and none where nobody changed anything.                *)
DriftIsChange ==
    \A c \in Claims :
        claim[c].phase = "launched" /\ c \notin adopted /\ claim[c].hash[1] = HashVersion
        /\ Resolves(class) /\ Stamped(class)
            => (IsDrifted(class, claim[c]) <=> HashOf(got[c]) # HashOf(class.spec))

(* The condition Ready comes to speak of the spec that is in force,        *)
(* whichever patches met a conflict on the way.                            *)
StatusSettles ==
    <>[](class.exists /\ ~class.deleting =>
            /\ class.observed = class.gen
            /\ class.ready = IF class.spec \in Valid THEN "True" ELSE "False")

(* When the edits end, a launched claim is marked drifted exactly if its   *)
(* instance was launched with another hashed spec than the one in force;   *)
(* one that an earlier hash version had marked drifted stays so.  Claims   *)
(* whose hash the migration has rewritten are the exception, and those     *)
(* that got the instance of a Create before a crash and an edit.           *)
DriftSettles ==
    \A c \in Claims :
        <>[](claim[c].phase = "launched" /\ c \notin adopted /\ class.exists /\ ~class.deleting =>
                (claim[c].drifted <=> \/ claim[c].hash[1] = "old"
                                      \/ HashOf(got[c]) # HashOf(class.spec)))

(* A NodeClass that is being deleted goes once its claims are gone.        *)
DeletionCompletes ==
    ~<>[](class.exists /\ class.deleting /\ \A c \in Claims : ~Exists(claim[c]))

=============================================================================

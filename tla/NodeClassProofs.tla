--------------------------- MODULE NodeClassProofs ---------------------------
(* Machine-checked proofs about NodeClass, for every set of NodeClaims and *)
(* of specs, any validation and hash, any number of edits and faults.      *)
EXTENDS NodeClass, TLAPS

(* Types, by who writes what. *)
ClassTyped == class \in ClassObjects /\ cache \in ClassObjects
ClaimTyped == claim \in [Claims -> ClaimObjects] /\ seen \in [Claims -> ClaimObjects]

MainTyped ==
    /\ main \in {"idle", "addFinalizer", "validate", "list", "removeFinalizer"}
    /\ stale \in BOOLEAN

(* A reconcile of the hash controller has a copy. *)
HashTyped ==
    /\ hc \in {"idle", "claims"}
    /\ hspec \in Specs \cup {None}
    /\ hc = "claims" => hspec \in Specs
    /\ hlist \subseteq Claims \X BOOLEAN
    /\ herr \in BOOLEAN

CallTyped ==
    /\ call \in [Claims -> [spec: Specs, launched: BOOLEAN] \cup {None}]
    /\ got \in [Claims -> Specs \cup {None}]
    /\ adopted \subseteq Claims

Typed == ClassTyped /\ ClaimTyped /\ MainTyped /\ HashTyped /\ CallTyped /\ faults \in 0..MaxFaults

(* A condition Ready that is true of the current generation is true of the *)
(* spec.                                                                   *)
ReadyHonest(o) ==
    /\ o.observed <= o.gen
    /\ o.ready = "True" /\ o.observed = o.gen => o.spec \in Valid

ReadyInv == ReadyHonest(class) /\ ReadyHonest(cache)

(* A launched claim, or one whose Create is under way. *)
Held(c) == claim[c].phase = "launched" \/ (Exists(claim[c]) /\ call[c] # None)

(* The NodeClass is marked for deletion before it goes, if it has the      *)
(* finalizer, and it has the finalizer before it is ready.                 *)
FinalizerInv ==
    /\ cache.deleting => class.deleting
    /\ class.exists /\ class.ready = "True" => class.finalizer
    /\ cache.exists /\ cache.ready = "True" => cache.finalizer
    /\ cache.exists /\ ~cache.deleting /\ cache.finalizer => class.exists /\ class.finalizer
    /\ main = "validate" /\ class.exists => class.finalizer
    /\ main \in {"list", "removeFinalizer"} => cache.deleting

(* The informer shows every held claim, so finalize finds none when there  *)
(* is none, and none comes once the deletion shows.                        *)
HeldInv ==
    /\ \A c \in Claims :
         /\ seen[c].phase = "launched" => claim[c].phase \in {"launched", "gone"}
         /\ seen[c].phase = "gone" => claim[c].phase = "gone"
         /\ seen[c].phase # "absent" \/ call[c] # None => claim[c].phase # "absent"
         /\ Held(c) => /\ Exists(seen[c])
                       /\ class.exists /\ class.finalizer
                       /\ main # "removeFinalizer"

(* A launched claim, unless it is adopted, has a hash of the spec its      *)
(* instance was made with; one of this version comes with this version.    *)
RecordedInv ==
    \A c \in Claims :
        /\ call[c] # None => claim[c].phase # "launched"
        /\ claim[c].phase = "launched" /\ c \notin adopted =>
             /\ got[c] \in Specs
             /\ \/ claim[c].hash = Hash("old", got[c])
                \/ claim[c].hash = Hash(HashVersion, got[c]) /\ claim[c].ver = HashVersion

Inv == Typed /\ ReadyInv /\ LaunchValidated /\ FinalizerInv /\ HeldInv

-----------------------------------------------------------------------------

(* What a controller may write over the NodeClass keeps its type. *)
LEMMA HashTypes ==
    /\ \A v \in HashVersions, s \in Specs : Hash(v, s) \in Hashes
    /\ \A v \in HashVersions, s \in Specs : Hash(v, Defaulted(s)) \in Hashes
    /\ HashVersion \in HashVersions
  BY DEF Hash, Hashes, HashVersions

(* What the writers of a NodeClass and of a NodeClaim may set. *)
LEMMA ClassUpdates ==
    ASSUME NEW o \in ClassObjects
    PROVE  /\ \A s \in Specs : [o EXCEPT !.spec = s, !.gen = o.gen + 1] \in ClassObjects
           /\ [o EXCEPT !.deleting = TRUE, !.gen = o.gen + 1] \in ClassObjects
           /\ [o EXCEPT !.exists = FALSE] \in ClassObjects
           /\ \A h \in Hashes, v \in HashVersions :
                [o EXCEPT !.hash = h, !.ver = v] \in ClassObjects
  <1>1. o.gen + 1 \in Nat
    BY DEF ClassObjects
  <1>2. \A n \in Nat :
          /\ \A s \in Specs : [o EXCEPT !.spec = s, !.gen = n] \in ClassObjects
          /\ [o EXCEPT !.deleting = TRUE, !.gen = n] \in ClassObjects
    BY DEF ClassObjects
  <1>3. [o EXCEPT !.exists = FALSE] \in ClassObjects
    BY DEF ClassObjects
  <1>4. \A h \in Hashes, v \in HashVersions : [o EXCEPT !.hash = h, !.ver = v] \in ClassObjects
    BY DEF ClassObjects
  <1> QED
    BY <1>1, <1>2, <1>3, <1>4

LEMMA ClaimUpdates ==
    ASSUME NEW o \in ClaimObjects
    PROVE  /\ \A p \in {"pending", "gone"} : [o EXCEPT !.phase = p] \in ClaimObjects
           /\ [o EXCEPT !.drifted = ~o.drifted] \in ClaimObjects
           /\ \A v \in HashVersions, h \in Hashes :
                /\ [o EXCEPT !.phase = "launched", !.ver = v, !.hash = h] \in ClaimObjects
                /\ \A b \in BOOLEAN : [o EXCEPT !.ver = v, !.hash = IF b THEN o.hash ELSE h] \in ClaimObjects
  BY DEF ClaimObjects

LEMMA TypeInit == Init => Typed
  <1> SUFFICES ASSUME Init PROVE Typed
    OBVIOUS
  <1> USE NodeClassAssumption
  <1>1. PICK s \in Specs : InitFresh(s) \/ InitLegacy(s)
    BY DEF Init
  <1>2. got \in [Claims -> Specs \cup {None}]
    BY <1>1 DEF InitFresh, InitLegacy
  <1>3. class \in ClassObjects
    <2>1. CASE InitFresh(s)
      BY <2>1 DEF InitFresh, Fresh, ClassObjects, HashVersions, Hashes
    <2>2. CASE InitLegacy(s)
      BY <2>2, HashTypes DEF InitLegacy, Legacy, ClassObjects, HashVersions
    <2> QED
      BY <1>1, <2>1, <2>2
  <1>4. claim \in [Claims -> ClaimObjects]
    <2>1. NoClaim \in ClaimObjects
      BY DEF NoClaim, ClaimObjects, HashVersions, Hashes
    <2>2. \A t \in Specs, d \in BOOLEAN : LegacyClaim(t, d) \in ClaimObjects
      BY HashTypes DEF LegacyClaim, ClaimObjects, HashVersions
    <2>3. CASE InitFresh(s)
      BY <2>1, <2>3 DEF InitFresh
    <2>4. CASE InitLegacy(s)
      <3>1. PICK drifted \in SUBSET Claims :
              claim = [c \in Claims |-> IF got[c] = None THEN NoClaim ELSE LegacyClaim(got[c], c \in drifted)]
        BY <2>4 DEF InitLegacy
      <3>2. \A c \in Claims : (c \in drifted) \in BOOLEAN
        OBVIOUS
      <3>3. \A c \in Claims : got[c] = None \/ got[c] \in Specs
        BY <1>2
      <3> QED
        BY <2>1, <2>2, <3>1, <3>2, <3>3
    <2> QED
      BY <1>1, <2>3, <2>4
  <1>5. ClassTyped /\ ClaimTyped
    BY <1>3, <1>4 DEF Init, ClassTyped, ClaimTyped
  <1>6. MainTyped /\ HashTyped
    BY DEF Init, MainTyped, HashTyped
  <1>7. CallTyped
    BY <1>2 DEF Init, CallTyped
  <1>8. faults \in 0..MaxFaults
    BY DEF Init
  <1> QED
    BY <1>5, <1>6, <1>7, <1>8 DEF Typed

(* The NodeClass, which users and both controllers write. *)
LEMMA ClassTypeStep ==
    ASSUME Typed, [Next]_vars
    PROVE  ClassTyped'
  <1> USE DEF Typed, ClassTyped, WriteClass, EndReconcile, server, caches
  <1>1. ASSUME NEW s \in Specs, Edit(s) PROVE ClassTyped'
    BY <1>1, ClassUpdates DEF Edit
  <1>2. CASE DeleteClass
    BY <1>2, ClassUpdates DEF DeleteClass
  <1>3. CASE AddFinalizer \/ RemoveFinalizer
    BY <1>3 DEF AddFinalizer, RemoveFinalizer, ClassObjects
  <1>4. CASE UpdateStatus
    BY <1>4 DEF UpdateStatus, Validated, ClassObjects
  <1>5. CASE Stamp
    <2>1. Hash(HashVersion, hspec) \in Hashes /\ HashVersion \in HashVersions
      BY <1>5, HashTypes DEF Stamp, HashTyped
    <2>2. class' = class \/ class' = [class EXCEPT !.hash = Hash(HashVersion, hspec), !.ver = HashVersion]
      BY <1>5 DEF Stamp
    <2>3. [class EXCEPT !.hash = Hash(HashVersion, hspec), !.ver = HashVersion] \in ClassObjects
      BY <2>1, ClassUpdates
    <2> QED
      BY <1>5, <2>2, <2>3 DEF Stamp
  <1>6. CASE ShowClass \/ Restart
    BY <1>6 DEF ShowClass, Restart
  <1>7. CASE UNCHANGED <<class, cache>>
    BY <1>7
  <1> QED
    BY <1>1, <1>2, <1>3, <1>4, <1>5, <1>6, <1>7
       DEF Next, MainStep, HashStep, vars, ShowClaims, ReconcileClass, ListClaims, ReconcileFails,
           ReconcileHash, MigrateClaim, MigrationFails, StampFails, NewClaim, RemoveClaim, CheckDrift,
           StartCreate, Launch, FinishCreate, CreateFails

(* The NodeClaims, which core and the hash controller write. *)
LEMMA ClaimTypeStep ==
    ASSUME Typed, [Next]_vars
    PROVE  ClaimTyped'
  <1> USE DEF Typed, ClaimTyped, WriteClaim, server, caches, ghosts
  <1>1. ASSUME NEW x \in hlist, MigrateClaim(x) PROVE ClaimTyped'
    <2>1. x[1] \in Claims /\ x[2] \in BOOLEAN
      BY DEF HashTyped
    <2>2. Hash(HashVersion, hspec) \in Hashes /\ HashVersion \in HashVersions
      BY <1>1, HashTypes DEF MigrateClaim, HashTyped
    <2>3. Migrated(claim[x[1]], x[2]) \in ClaimObjects
      BY <2>1, <2>2, ClaimUpdates DEF Migrated
    <2> QED
      BY <1>1, <2>1, <2>3 DEF MigrateClaim
  <1>2. ASSUME NEW c \in Claims, NewClaim(c) \/ RemoveClaim(c) \/ CheckDrift(c) PROVE ClaimTyped'
    <2>1. claim[c] \in ClaimObjects
      OBVIOUS
    <2>2. PICK o \in ClaimObjects : WriteClaim(c, o)
      BY <1>2, <2>1, ClaimUpdates DEF NewClaim, RemoveClaim, CheckDrift
    <2>3. seen' = seen
      BY <1>2 DEF NewClaim, RemoveClaim, CheckDrift
    <2> QED
      BY <2>2, <2>3
  <1>3. ASSUME NEW c \in Claims, FinishCreate(c) PROVE ClaimTyped'
    <2>1. Recorded(c) \in Hashes /\ HashVersion \in HashVersions
      BY <1>3, HashTypes DEF FinishCreate, Recorded, CallTyped
    <2>2. claim[c] \in ClaimObjects
      OBVIOUS
    <2>3. claim' = claim \/ \E o \in ClaimObjects : WriteClaim(c, o)
      BY <1>3, <2>1, <2>2, ClaimUpdates DEF FinishCreate
    <2>4. seen' = seen
      BY <1>3 DEF FinishCreate
    <2> QED
      BY <2>3, <2>4
  <1>4. CASE ShowClaims \/ Restart
    BY <1>4 DEF ShowClaims, Restart
  <1>5. CASE UNCHANGED <<claim, seen>>
    BY <1>5
  <1> QED
    BY <1>1, <1>2, <1>3, <1>4, <1>5
       DEF Next, MainStep, HashStep, vars, Edit, DeleteClass, ShowClass, ReconcileClass, AddFinalizer,
           UpdateStatus, ListClaims, RemoveFinalizer, ReconcileFails, ReconcileHash, MigrationFails,
           Stamp, StampFails, StartCreate, Launch, CreateFails

(* The reconciles, and how many faults are left. *)
LEMMA ReconcileTypeStep ==
    ASSUME Typed, [Next]_vars
    PROVE  MainTyped' /\ HashTyped' /\ faults' \in 0..MaxFaults
  <1>1. MainTyped'
    BY DEF Typed, MainTyped, Next, MainStep, HashStep, vars, mainVars, Edit, DeleteClass, ShowClass,
           ShowClaims, Restart, ReconcileClass, AddFinalizer, UpdateStatus, ListClaims,
           RemoveFinalizer, ReconcileFails, ReconcileHash, MigrateClaim, MigrationFails, Stamp,
           StampFails, NewClaim, RemoveClaim, CheckDrift, StartCreate, Launch, FinishCreate,
           CreateFails, EndReconcile, WriteClass
  <1>2. HashTyped'
    <2> USE DEF Typed, HashTyped
    <2>1. CASE ReconcileHash
      <3>1. cache.spec \in Specs
        BY DEF ClassTyped, ClassObjects
      <3>2. \A c \in Claims : seen[c].drifted \in BOOLEAN
        BY DEF ClaimTyped, ClaimObjects
      <3>3. {<<c, seen[c].drifted>> : c \in ToMigrate} \subseteq Claims \X BOOLEAN
        BY <3>2 DEF ToMigrate
      <3> QED
        BY <2>1, <3>1, <3>3 DEF ReconcileHash
    <2>2. ASSUME NEW x \in hlist, MigrateClaim(x) PROVE HashTyped'
      BY <2>2 DEF MigrateClaim
    <2>3. CASE MigrationFails \/ Stamp \/ StampFails \/ Restart
      BY <2>3 DEF MigrationFails, Stamp, StampFails, Restart, EndHash
    <2>4. CASE UNCHANGED hashVars
      BY <2>4 DEF hashVars
    <2> QED
      BY <2>1, <2>2, <2>3, <2>4
         DEF Next, MainStep, HashStep, vars, Edit, DeleteClass, ShowClass, ShowClaims, ReconcileClass,
             AddFinalizer, UpdateStatus, ListClaims, RemoveFinalizer, ReconcileFails, NewClaim,
             RemoveClaim, CheckDrift, StartCreate, Launch, FinishCreate, CreateFails
  <1>3. faults' = faults \/ (faults > 0 /\ faults' = faults - 1)
    BY DEF Next, MainStep, HashStep, vars, Edit, DeleteClass, ShowClass,
           ShowClaims, Restart, ReconcileClass, AddFinalizer, UpdateStatus, ListClaims,
           RemoveFinalizer, ReconcileFails, ReconcileHash, MigrateClaim, MigrationFails, Stamp,
           StampFails, NewClaim, RemoveClaim, CheckDrift, StartCreate, Launch, FinishCreate,
           CreateFails
  <1>4. faults' \in 0..MaxFaults
    BY <1>3, NodeClassAssumption DEF Typed
  <1> QED
    BY <1>1, <1>2, <1>4

(* The Create calls. *)
LEMMA CallTypeStep ==
    ASSUME Typed, [Next]_vars
    PROVE  CallTyped'
  <1> USE DEF Typed, CallTyped
  <1>1. ASSUME NEW c \in Claims, StartCreate(c) PROVE CallTyped'
    <2>1. cache.spec \in Specs
      BY DEF ClassTyped, ClassObjects
    <2> QED
      BY <1>1, <2>1 DEF StartCreate, ghosts
  <1>2. ASSUME NEW c \in Claims, Launch(c) PROVE CallTyped'
    BY <1>2 DEF Launch
  <1>3. ASSUME NEW c \in Claims, CreateFails(c) \/ FinishCreate(c) PROVE CallTyped'
    BY <1>3 DEF CreateFails, FinishCreate, ghosts
  <1>4. ASSUME NEW x \in hlist, MigrateClaim(x) PROVE CallTyped'
    BY <1>4 DEF MigrateClaim, HashTyped
  <1>5. CASE Restart
    BY <1>5 DEF Restart, ghosts
  <1>6. CASE UNCHANGED <<call, ghosts>>
    BY <1>6 DEF ghosts
  <1> QED
    BY <1>1, <1>2, <1>3, <1>4, <1>5, <1>6
       DEF Next, MainStep, HashStep, vars, Edit, DeleteClass, ShowClass, ShowClaims, ReconcileClass,
           AddFinalizer, UpdateStatus, ListClaims, RemoveFinalizer, ReconcileFails, ReconcileHash,
           MigrationFails, Stamp, StampFails, NewClaim, RemoveClaim, CheckDrift

-----------------------------------------------------------------------------

(* Ready comes with the generation it was found for. *)
LEMMA ReadyStep ==
    ASSUME Typed, ReadyInv, [Next]_vars
    PROVE  ReadyInv'
  <1> USE DEF Typed, ClassTyped, ClassObjects, ReadyInv, ReadyHonest, WriteClass, EndReconcile, server, caches
  <1>1. ASSUME NEW s \in Specs, Edit(s) PROVE ReadyInv'
    BY <1>1 DEF Edit
  <1>2. CASE DeleteClass
    BY <1>2 DEF DeleteClass
  <1>3. CASE AddFinalizer \/ RemoveFinalizer
    BY <1>3 DEF AddFinalizer, RemoveFinalizer
  <1>4. CASE UpdateStatus
    BY <1>4 DEF UpdateStatus, Validated, Accepts
  <1>5. CASE Stamp
    BY <1>5 DEF Stamp
  <1>6. CASE ShowClass \/ Restart
    BY <1>6 DEF ShowClass, Restart
  <1>7. CASE UNCHANGED <<class, cache>>
    BY <1>7
  <1> QED
    BY <1>1, <1>2, <1>3, <1>4, <1>5, <1>6, <1>7
       DEF Next, MainStep, HashStep, vars, ShowClaims, ReconcileClass, ListClaims, ReconcileFails,
           ReconcileHash, MigrateClaim, MigrationFails, StampFails, NewClaim, RemoveClaim, CheckDrift,
           StartCreate, Launch, FinishCreate, CreateFails

(* A Create starts from a spec that validation accepted. *)
LEMMA LaunchStep ==
    ASSUME Typed, ReadyInv, LaunchValidated, [Next]_vars
    PROVE  LaunchValidated'
  <1> USE DEF Typed, CallTyped, LaunchValidated
  <1>1. ASSUME NEW c \in Claims, StartCreate(c) PROVE LaunchValidated'
    BY <1>1 DEF StartCreate, MayLaunch, ReadyInv, ReadyHonest, ghosts
  <1>2. ASSUME NEW c \in Claims, Launch(c) PROVE LaunchValidated'
    BY <1>2 DEF Launch
  <1>3. ASSUME NEW c \in Claims, CreateFails(c) \/ FinishCreate(c) PROVE LaunchValidated'
    BY <1>3 DEF CreateFails, FinishCreate, ghosts
  <1>4. CASE Restart
    BY <1>4 DEF Restart, ghosts
  <1>5. CASE UNCHANGED <<call, got>>
    BY <1>5
  <1> QED
    BY <1>1, <1>2, <1>3, <1>4, <1>5
       DEF Next, MainStep, HashStep, vars, ghosts, Edit, DeleteClass, ShowClass, ShowClaims, ReconcileClass,
           AddFinalizer, UpdateStatus, ListClaims, RemoveFinalizer, ReconcileFails, ReconcileHash,
           MigrateClaim, MigrationFails, Stamp, StampFails, NewClaim, RemoveClaim, CheckDrift

(* The finalizer goes with the object, which shows as deleting before. *)
LEMMA FinalizerStep ==
    ASSUME Typed, FinalizerInv, [Next]_vars
    PROVE  /\ FinalizerInv'
           /\ class.exists /\ class.finalizer /\ main # "removeFinalizer"
                => class'.exists /\ class'.finalizer
  <1> DEFINE Goal == /\ FinalizerInv'
                     /\ class.exists /\ class.finalizer /\ main # "removeFinalizer"
                          => class'.exists /\ class'.finalizer
  <1> USE DEF Typed, ClassTyped, ClassObjects, FinalizerInv, WriteClass, EndReconcile, server, caches, mainVars
  <1>1. ASSUME NEW s \in Specs, Edit(s) PROVE Goal
    BY <1>1 DEF Edit
  <1>2. CASE DeleteClass
    BY <1>2 DEF DeleteClass
  <1>3. CASE AddFinalizer
    BY <1>3 DEF AddFinalizer
  <1>4. CASE RemoveFinalizer
    BY <1>4 DEF RemoveFinalizer
  <1>5. CASE UpdateStatus
    BY <1>5 DEF UpdateStatus, Validated
  <1>6. CASE Stamp
    BY <1>6 DEF Stamp
  <1>7. CASE ShowClass \/ Restart
    BY <1>7 DEF ShowClass, Restart
  <1>8. CASE ReconcileClass \/ ListClaims \/ ReconcileFails
    BY <1>8 DEF ReconcileClass, ListClaims, ReconcileFails
  <1>9. CASE UNCHANGED <<class, cache, main>>
    BY <1>9
  <1> QED
    BY <1>1, <1>2, <1>3, <1>4, <1>5, <1>6, <1>7, <1>8, <1>9
       DEF Next, MainStep, HashStep, vars, ShowClaims, ReconcileHash, MigrateClaim, MigrationFails,
           StampFails, NewClaim, RemoveClaim, CheckDrift, StartCreate, Launch, FinishCreate, CreateFails

(* What the writers of NodeClaims leave as it was. *)
LEMMA ClaimWrites ==
    ASSUME Typed, NEW c \in Claims
    PROVE  /\ NewClaim(c) => \A d \in Claims :
                claim'[d].phase = IF d = c THEN "pending" ELSE claim[d].phase
           /\ RemoveClaim(c) => \A d \in Claims :
                claim'[d].phase = IF d = c THEN "gone" ELSE claim[d].phase
           /\ CheckDrift(c) => \A d \in Claims :
                /\ claim'[d].phase = claim[d].phase
                /\ claim'[d].hash = claim[d].hash /\ claim'[d].ver = claim[d].ver
           /\ FinishCreate(c) =>
                /\ \A d \in Claims \ {c} : claim'[d] = claim[d]
                /\ IF Exists(claim[c])
                   THEN /\ claim'[c].phase = "launched"
                        /\ claim'[c].ver = HashVersion /\ claim'[c].hash = Recorded(c)
                   ELSE claim'[c] = claim[c]
           /\ NewClaim(c) \/ RemoveClaim(c) => \A d \in Claims \ {c} : claim'[d] = claim[d]
  <1>1. /\ claim[c] \in ClaimObjects
        /\ \A o : WriteClaim(c, o) => claim'[c] = o /\ \A d \in Claims \ {c} : claim'[d] = claim[d]
    BY DEF Typed, ClaimTyped, WriteClaim
  <1>2. ASSUME NewClaim(c)
        PROVE  claim'[c].phase = "pending" /\ \A d \in Claims \ {c} : claim'[d] = claim[d]
    BY <1>1, <1>2 DEF NewClaim, ClaimObjects
  <1>3. ASSUME RemoveClaim(c)
        PROVE  claim'[c].phase = "gone" /\ \A d \in Claims \ {c} : claim'[d] = claim[d]
    BY <1>1, <1>3 DEF RemoveClaim, ClaimObjects
  <1>4. ASSUME CheckDrift(c)
        PROVE  /\ claim'[c].phase = claim[c].phase
               /\ claim'[c].hash = claim[c].hash /\ claim'[c].ver = claim[c].ver
               /\ \A d \in Claims \ {c} : claim'[d] = claim[d]
    BY <1>1, <1>4 DEF CheckDrift, ClaimObjects
  <1>5. ASSUME FinishCreate(c), Exists(claim[c])
        PROVE  /\ claim'[c].phase = "launched"
               /\ claim'[c].ver = HashVersion /\ claim'[c].hash = Recorded(c)
               /\ \A d \in Claims \ {c} : claim'[d] = claim[d]
    <2>1. WriteClaim(c, [claim[c] EXCEPT !.phase = "launched", !.ver = HashVersion, !.hash = Recorded(c)])
      BY <1>5 DEF FinishCreate
    <2>2. \A d \in Claims \ {c} : claim'[d] = claim[d]
      BY <1>1, <2>1
    <2>3. claim'[c] = [claim[c] EXCEPT !.phase = "launched", !.ver = HashVersion, !.hash = Recorded(c)]
      BY <1>1, <2>1
    <2> QED
      BY <1>1, <2>2, <2>3 DEF ClaimObjects
  <1>6. ASSUME FinishCreate(c), ~Exists(claim[c]) PROVE claim' = claim
    BY <1>6 DEF FinishCreate
  <1> QED
    BY <1>2, <1>3, <1>4, <1>5, <1>6

LEMMA MigrationWrites ==
    ASSUME Typed, NEW x \in hlist, MigrateClaim(x), NEW c \in Claims
    PROVE  /\ claim'[c].phase = claim[c].phase
           /\ claim'[c].ver \in {claim[c].ver, HashVersion}
           /\ claim'[c].hash = claim[c].hash \/ c \in adopted'
           /\ c \in adopted => c \in adopted'
  <1>1. claim[c] \in ClaimObjects
    BY DEF Typed, ClaimTyped
  <1>2. \/ claim'[c] = claim[c] /\ adopted \subseteq adopted'
        \/ /\ claim'[c] = Migrated(claim[c], x[2])
           /\ adopted' = IF x[2] THEN adopted ELSE adopted \cup {c}
    BY DEF MigrateClaim, WriteClaim, Typed, ClaimTyped
  <1> QED
    BY <1>1, <1>2 DEF Migrated, ClaimObjects

(* Claims only move forward, and the informer shows nothing that was not.  *)
LEMMA HeldStep ==
    ASSUME Typed, FinalizerInv, HeldInv, [Next]_vars
    PROVE  HeldInv'
  <1>1. class.exists /\ class.finalizer /\ main # "removeFinalizer"
          => class'.exists /\ class'.finalizer
    BY FinalizerStep
  <1> USE DEF Typed, CallTyped, HeldInv, Held, Exists, server, caches
  <1>2. ASSUME NEW c \in Claims, NewClaim(c) PROVE HeldInv'
    <2>1. \A d \in Claims : Held(d)' => Held(d)
      BY <1>2, ClaimWrites DEF NewClaim
    <2> QED
      BY <1>1, <1>2, <2>1, ClaimWrites DEF NewClaim, mainVars
  <1>3. ASSUME NEW c \in Claims, RemoveClaim(c) PROVE HeldInv'
    BY <1>1, <1>3, ClaimWrites DEF RemoveClaim, mainVars
  <1>4. ASSUME NEW c \in Claims, CheckDrift(c) PROVE HeldInv'
    BY <1>1, <1>4, ClaimWrites DEF CheckDrift, mainVars
  <1>5. ASSUME NEW x \in hlist, MigrateClaim(x) PROVE HeldInv'
    BY <1>1, <1>5, MigrationWrites DEF MigrateClaim, mainVars
  <1>6. ASSUME NEW c \in Claims, StartCreate(c) PROVE HeldInv'
    <2>1. class.exists /\ class.finalizer /\ main # "removeFinalizer"
      BY <1>6 DEF StartCreate, MayLaunch, Resolves, FinalizerInv
    <2> QED
      BY <1>6, <2>1 DEF StartCreate, mainVars
  <1>7. ASSUME NEW c \in Claims, Launch(c) \/ CreateFails(c) PROVE HeldInv'
    BY <1>7 DEF Launch, CreateFails, mainVars
  <1>8. ASSUME NEW c \in Claims, FinishCreate(c) PROVE HeldInv'
    <2>1. /\ call[c] # None /\ call'[c] = None
          /\ \A d \in Claims \ {c} : call'[d] = call[d] /\ claim'[d] = claim[d]
      BY <1>8, ClaimWrites DEF FinishCreate
    <2>2. IF Exists(claim[c]) THEN claim'[c].phase = "launched" ELSE claim'[c] = claim[c]
      BY <1>8, ClaimWrites
    <2>3. \A d \in Claims : Held(d)' => Held(d)
      BY <2>1, <2>2
    <2> QED
      BY <1>1, <1>8, <2>1, <2>2, <2>3 DEF FinishCreate, mainVars
  <1>9. CASE ShowClaims
    BY <1>9 DEF ShowClaims, mainVars
  <1>10. CASE Restart
    BY <1>10 DEF Restart
  <1>11. CASE ListClaims
    BY <1>11 DEF ListClaims, EndReconcile
  <1>12. CASE UNCHANGED <<claim, seen, call>> /\ main' # "removeFinalizer"
    BY <1>1, <1>12
  <1>13. CASE UNCHANGED <<claim, seen, call, main>>
    BY <1>1, <1>13
  <1> QED
    BY <1>2, <1>3, <1>4, <1>5, <1>6, <1>7, <1>8, <1>9, <1>10, <1>11, <1>12, <1>13
       DEF Next, MainStep, HashStep, vars, mainVars, Edit, DeleteClass, ShowClass, ReconcileClass,
           AddFinalizer, UpdateStatus, RemoveFinalizer, ReconcileFails, EndReconcile, ReconcileHash,
           MigrationFails, Stamp, StampFails

(* The record of a launch is of the spec it was made with. *)
LEMMA RecordedStep ==
    ASSUME Typed, RecordedInv, [Next]_vars,
           \A s \in Specs : HashOf(Defaulted(s)) = HashOf(s)
    PROVE  RecordedInv'
  <1> USE DEF Typed, CallTyped, RecordedInv, Exists, server, ghosts
  <1>1. ASSUME NEW c \in Claims, NewClaim(c) \/ RemoveClaim(c) \/ CheckDrift(c) PROVE RecordedInv'
    <2>1. \A d \in Claims :
            /\ claim'[d].phase = "launched" => claim[d].phase = "launched"
            /\ claim[d].phase = "launched" /\ claim'[d].phase = "launched" =>
                 claim'[d].hash = claim[d].hash /\ claim'[d].ver = claim[d].ver
      BY <1>1, ClaimWrites
    <2> QED
      BY <1>1, <2>1 DEF NewClaim, RemoveClaim, CheckDrift
  <1>2. ASSUME NEW x \in hlist, MigrateClaim(x) PROVE RecordedInv'
    BY <1>2, MigrationWrites DEF MigrateClaim
  <1>3. ASSUME NEW c \in Claims, StartCreate(c) PROVE RecordedInv'
    BY <1>3 DEF StartCreate
  <1>4. ASSUME NEW c \in Claims, Launch(c) \/ CreateFails(c) PROVE RecordedInv'
    BY <1>4 DEF Launch, CreateFails
  <1>5. ASSUME NEW c \in Claims, FinishCreate(c) PROVE RecordedInv'
    <2>1. call[c].spec \in Specs /\ Recorded(c) = Hash(HashVersion, call[c].spec)
      BY <1>5 DEF FinishCreate, Recorded, Hash
    <2>2. \A d \in Claims \ {c} : call'[d] = call[d] /\ claim'[d] = claim[d]
      BY <1>5, ClaimWrites DEF FinishCreate
    <2>3. IF Exists(claim[c])
          THEN claim'[c].ver = HashVersion /\ claim'[c].hash = Recorded(c)
          ELSE claim'[c] = claim[c]
      BY <1>5, ClaimWrites
    <2> QED
      BY <1>5, <2>1, <2>2, <2>3 DEF FinishCreate
  <1>6. CASE Restart
    BY <1>6 DEF Restart
  <1>7. CASE UNCHANGED <<claim, call, ghosts>>
    BY <1>7
  <1> QED
    BY <1>1, <1>2, <1>3, <1>4, <1>5, <1>6, <1>7
       DEF Next, MainStep, HashStep, vars, caches, Edit, DeleteClass, ShowClass, ShowClaims, ReconcileClass,
           AddFinalizer, UpdateStatus, ListClaims, RemoveFinalizer, ReconcileFails, ReconcileHash,
           MigrationFails, Stamp, StampFails

-----------------------------------------------------------------------------

(* Types, conditions, launches and finalizers are right in every state: the *)
(* inductive invariant behind LaunchValidated and ClassOutlivesLaunches.    *)
THEOREM NodeClassInvariant == Spec => []Inv
  <1>1. Init => Inv
    <2> SUFFICES ASSUME Init PROVE Inv
      OBVIOUS
    <2>1. Typed
      BY TypeInit
    <2>2. PICK s \in Specs : InitFresh(s) \/ InitLegacy(s)
      BY DEF Init
    <2>3. /\ cache = class /\ seen = claim /\ main = "idle"
          /\ \A c \in Claims : call[c] = None
      BY DEF Init
    <2>4. CASE InitFresh(s)
      <3>1. /\ \A c \in Claims : claim[c].phase = "absent" /\ got[c] = None
            /\ class.ready = "Unknown" /\ class.observed = 0 /\ class.gen = 1 /\ ~class.finalizer
        BY <2>4 DEF InitFresh, Fresh, NoClaim
      <3> QED
        BY <2>1, <2>3, <3>1
           DEF Inv, ReadyInv, ReadyHonest, LaunchValidated, FinalizerInv, HeldInv, Held, Exists
    <2>5. CASE InitLegacy(s)
      <3>1. /\ s \in Valid /\ class.spec = s /\ class.observed = 1 /\ class.gen = 1
            /\ class.exists /\ class.finalizer
        BY <2>5 DEF InitLegacy, Legacy
      <3>2. \A c \in Claims : /\ got[c] # None => got[c] \in Valid
                             /\ claim[c].phase \in {"absent", "launched"}
        <4>1. got \in [Claims -> Valid \cup {None}]
          BY <2>5 DEF InitLegacy
        <4>2. PICK drifted \in SUBSET Claims :
                claim = [c \in Claims |-> IF got[c] = None THEN NoClaim ELSE LegacyClaim(got[c], c \in drifted)]
          BY <2>5 DEF InitLegacy
        <4>3. \A t, d : LegacyClaim(t, d).phase = "launched"
          BY DEF LegacyClaim
        <4> QED
          BY <4>1, <4>2, <4>3 DEF NoClaim
      <3> QED
        BY <2>1, <2>3, <3>1, <3>2
           DEF Inv, ReadyInv, ReadyHonest, LaunchValidated, FinalizerInv, HeldInv, Held, Exists
    <2> QED
      BY <2>2, <2>4, <2>5
  <1>2. Inv /\ [Next]_vars => Inv'
    <2> SUFFICES ASSUME Inv, [Next]_vars PROVE Inv'
      OBVIOUS
    <2>1. Typed'
      BY ClassTypeStep, ClaimTypeStep, ReconcileTypeStep, CallTypeStep DEF Inv, Typed
    <2> QED
      BY <2>1, ReadyStep, LaunchStep, FinalizerStep, HeldStep DEF Inv
  <1> QED
    BY <1>1, <1>2, PTL DEF Spec

(* Objects, copies and calls have their types in every state.               *)
THEOREM NodeClassTypeCorrect == Spec => []TypeOK
  <1>1. Inv => TypeOK
    BY DEF Inv, Typed, TypeOK, ClassTyped, ClaimTyped, MainTyped, HashTyped, CallTyped
  <1> QED
    BY <1>1, NodeClassInvariant, PTL

(* No instance is launched with a spec that validation refuses: Create      *)
(* reads a cached NodeClass whose condition is of its generation.           *)
THEOREM LaunchValidatedHolds == Spec => []LaunchValidated
  <1>1. Inv => LaunchValidated
    BY DEF Inv
  <1> QED
    BY <1>1, NodeClassInvariant, PTL

(* The finalizer keeps the NodeClass until no claim of it is launched or    *)
(* being launched, although Create and finalize decide from caches.         *)
THEOREM ClassOutlivesLaunchesHolds == Spec => []ClassOutlivesLaunches
  <1>1. Inv => ClassOutlivesLaunches
    BY DEF Inv, HeldInv, Held, ClassOutlivesLaunches
  <1> QED
    BY <1>1, NodeClassInvariant, PTL

(* Where Create fills in nothing that the hash depends on, and no hash is   *)
(* empty, drift is found exactly for the claims whose spec has changed.     *)
THEOREM DriftIsChangeHolds ==
    ASSUME \A s \in Specs : HashOf(Defaulted(s)) = HashOf(s),
           None \notin {Hash(v, s) : v \in HashVersions, s \in Specs}
    PROVE  Spec => []DriftIsChange
  <1>1. Init => RecordedInv
    <2> SUFFICES ASSUME Init PROVE RecordedInv
      OBVIOUS
    <2>1. \A c \in Claims : call[c] = None
      BY DEF Init
    <2>2. PICK s \in Specs : InitFresh(s) \/ InitLegacy(s)
      BY DEF Init
    <2>3. CASE InitFresh(s)
      BY <2>1, <2>3 DEF InitFresh, NoClaim, RecordedInv
    <2>4. CASE InitLegacy(s)
      <3>1. \A c \in Claims : claim[c].phase = "launched"
                              => got[c] \in Valid /\ claim[c].hash = Hash("old", got[c])
        BY <2>4 DEF InitLegacy, LegacyClaim, NoClaim
      <3> QED
        BY <2>1, <3>1, NodeClassAssumption DEF RecordedInv
    <2> QED
      BY <2>2, <2>3, <2>4
  <1>2. Inv /\ RecordedInv /\ [Next]_vars => RecordedInv'
    BY RecordedStep DEF Inv
  <1>3. Inv /\ RecordedInv => DriftIsChange
    <2> SUFFICES ASSUME Inv, RecordedInv, NEW c \in Claims,
                        claim[c].phase = "launched", c \notin adopted,
                        claim[c].hash[1] = HashVersion, Resolves(class), Stamped(class)
                 PROVE  IsDrifted(class, claim[c]) <=> HashOf(got[c]) # HashOf(class.spec)
      BY DEF DriftIsChange
    <2>1. /\ got[c] \in Specs
          /\ claim[c].hash = Hash(HashVersion, got[c]) /\ claim[c].ver = HashVersion
      BY DEF RecordedInv, Hash, HashVersion
    <2>2. class.hash = Hash(HashVersion, class.spec) /\ class.ver = HashVersion
      BY DEF Stamped
    <2>3. class.spec \in Specs
      BY DEF Inv, Typed, ClassTyped, ClassObjects
    <2>4. class.hash # None /\ claim[c].hash # None
      BY <2>1, <2>2, <2>3 DEF HashVersions
    <2>5. claim[c].hash = class.hash <=> HashOf(got[c]) = HashOf(class.spec)
      BY <2>1, <2>2 DEF Hash
    <2> QED
      BY <2>1, <2>2, <2>4, <2>5 DEF IsDrifted
  <1> QED
    BY <1>1, <1>2, <1>3, NodeClassInvariant, PTL DEF Spec

=============================================================================

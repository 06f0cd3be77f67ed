---------------------------- MODULE InstanceTags ----------------------------
(***************************************************************************)
(* The tags of one claimed instance.  The Linode API only replaces a whole *)
(* tag list, and two controllers do so after reading it:                   *)
(*  - nodeclass.inplaceupdate keeps the tags of LinodeNodeClass.spec.tags  *)
(*    on the instance and records them in an annotation of the NodeClaim   *)
(*    (pkg/controllers/nodeclass/inplaceupdate/controller.go);             *)
(*  - nodeclaim.tagging adds the Name and cluster tags that are missing    *)
(*    (pkg/controllers/nodeclaim/tagging/controller.go).                   *)
(* Both go through UpdateTags and CreateTags of pkg/providers/lke/lke.go   *)
(* or, without LKE, of pkg/providers/instance/instance.go.  Meanwhile      *)
(* users edit spec.tags, and also to tags that validation rejects:         *)
(* inplaceupdate does not ask for the verdict.                             *)
(*                                                                         *)
(* A tag list is a set of tags.  KeyOf is the part before the "="; a tag   *)
(* without one (an opaque tag) is its own key.  Of two tags of one key     *)
(* TagListToMap keeps the last; as the order is the API's, either one.     *)
(* An instance or NodeClaim that is gone only ends a reconcile and is left *)
(* out.  A reconcile is taken to start from the current objects; they may  *)
(* change during it.                                                       *)
(***************************************************************************)
EXTENDS Naturals

CONSTANTS
    Tags,       \* tags
    KeyOf,      \* the key of a tag
    Modes,      \* the deployments considered
    StaticTags, \* of GetTags; with LKE, of the node and its pool
    ClaimTags,  \* LKE: what the claim writes over all other tags
    NodeTags,   \* the tags the tagging controller wants
    Specs,      \* values of spec.tags, as maps
    Restricted, \* restrictedTagKeys
    ClusterNameTagged, \* the NodeClaim has the annotation of that name
    Failures    \* TRUE when requests fail, answers get lost, the process crashes

(* No key occurs twice, as in a map. *)
OnePerKey(T) == \A t, u \in T : KeyOf[t] = KeyOf[u] => t = u

ASSUME TagsAssumption ==
    /\ OnePerKey(StaticTags \cup ClaimTags) /\ OnePerKey(NodeTags)
    /\ \A s \in Specs : OnePerKey(s)
    /\ StaticTags \cup ClaimTags \cup NodeTags \subseteq Tags /\ Specs \subseteq SUBSET Tags
    /\ Modes \subseteq {"lke", "instance"}
    /\ {Failures, ClusterNameTagged} \subseteq BOOLEAN

VARIABLES
    tags,       \* the tags of the instance
    mode,       \* the deployment; it never changes
    spec,       \* LinodeNodeClass.spec.tags
    recorded,   \* NodeClaim annotation: the user tags applied last
    tagged,     \* NodeClaim annotation: the tagging controller is done
    pc,         \* "inplace" and "tagging": the next request of the reconcile
    prev,       \* inplaceupdate: user tags applied before
    desired,    \* inplaceupdate: user tags to apply
    missing,    \* tagging: tags to add
    read,       \* the tag list each reconcile has read
    used        \* history: the keys that spec.tags has had since the launch

objects == <<mode, spec, recorded, tagged, used>>
vars == <<tags, objects, pc, prev, desired, missing, read>>

Controllers == {"inplace", "tagging"}

TagKeys(T) == {KeyOf[t] : t \in T}

(* lo.Assign on tag maps: the tags of T replace those of S. *)
Assign(S, T) == {t \in S : KeyOf[t] \notin TagKeys(T)} \cup T

OmitByKeys(S, T) == {t \in S : KeyOf[t] \notin TagKeys(T)}

(* The maps that a tag list may be read as. *)
TagListToMap(T) == {m \in SUBSET T : OnePerKey(m) /\ TagKeys(m) = TagKeys(T)}

(* What the instance carries once launched, besides the user's tags. *)
Base == IF mode = "lke" THEN StaticTags \cup ClaimTags ELSE StaticTags

(* ValidateTags *)
Valid(s) == TagKeys(s) \cap Restricted = {}

(* claimInstance merges the tags of the node and its pool, of the user and *)
(* of the claim, in that order; CreateInstance is given the user's list    *)
(* followed by the map of GetTags.                                         *)
LaunchTags ==
    IF mode = "lke" THEN Assign(Assign(StaticTags, spec), ClaimTags)
                    ELSE spec \cup Assign(spec, StaticTags)

(* Instances are launched with a NodeClass that is valid. *)
Init ==
    /\ mode \in Modes
    /\ spec \in {s \in Specs : Valid(s)}
    /\ used = TagKeys(spec)
    /\ tags = LaunchTags
    /\ recorded = {}
    /\ tagged = FALSE
    /\ pc = [c \in Controllers |-> "idle"]
    /\ prev = {} /\ desired = {} /\ missing = {}
    /\ read = [c \in Controllers |-> {}]

Go(c, from, to) == pc[c] = from /\ pc' = [pc EXCEPT ![c] = to]

(* Local variables of a reconcile end with it. *)
Ended(c) ==
    /\ read' = [read EXCEPT ![c] = {}]
    /\ IF c = "inplace" THEN prev' = {} /\ desired' = {} /\ UNCHANGED missing
                        ELSE missing' = {} /\ UNCHANGED <<prev, desired>>

-----------------------------------------------------------------------------
(* nodeclass.inplaceupdate *)

(* Mutant: the final list only holds the user's tags. *)
DesiredOnly(existing, previous, wanted) == wanted

(* Mutant: the user's tags do not replace the values they had before. *)
DesiredAppended(existing, previous, wanted) == existing \cup wanted

DesiredUserTagsForInstance(existing, previous, wanted) ==
    Assign(OmitByKeys(existing, previous), wanted)

StartUpdate ==
    /\ Go("inplace", "idle", "get")
    /\ prev' = recorded
    /\ desired' = spec
    /\ UNCHANGED <<tags, objects, missing, read>>

GetForUpdate ==
    /\ Go("inplace", "get", "update")
    /\ read' = [read EXCEPT !["inplace"] = tags]
    /\ UNCHANGED <<tags, objects, prev, desired, missing>>

(* Mutant: nothing is written once some user tags were applied. *)
UpdateTagsOnce ==
    /\ Go("inplace", "update", "patch")
    /\ tags' = IF prev = {} THEN DesiredUserTagsForInstance(read["inplace"], prev, desired) ELSE tags
    /\ UNCHANGED <<objects, prev, desired, missing, read>>

(* UpdateTags is only called when the map changes; its answer may be lost. *)
UpdateTags ==
    /\ \E existing \in TagListToMap(read["inplace"]) :
         LET final == DesiredUserTagsForInstance(existing, prev, desired) IN
         tags' = IF final = existing THEN tags ELSE final
    /\ \/ /\ Go("inplace", "update", "patch")
          /\ read' = [read EXCEPT !["inplace"] = {}] /\ UNCHANGED <<prev, desired, missing>>
       \/ Failures /\ Go("inplace", "update", "idle") /\ Ended("inplace")
    /\ UNCHANGED <<objects>>

(* Mutant: the list found on the instance is recorded as the user's.       *)
PatchWholeList ==
    /\ Go("inplace", "patch", "idle")
    /\ recorded' = tags
    /\ UNCHANGED <<mode, spec, tagged, used>>
    /\ Ended("inplace")
    /\ UNCHANGED tags

(* The patch is the difference to the NodeClaim the reconcile was given. *)
PatchLastApplied ==
    /\ Go("inplace", "patch", "idle")
    /\ recorded' = IF desired = prev THEN recorded ELSE desired
    /\ UNCHANGED <<mode, spec, tagged, used>>
    /\ Ended("inplace")
    /\ UNCHANGED tags

-----------------------------------------------------------------------------
(* nodeclaim.tagging *)

(* Mutant: one annotation is enough to be done. *)
IsTaggableOnce(alreadyTagged) == ~alreadyTagged

IsTaggable(alreadyTagged) == ~(alreadyTagged /\ ClusterNameTagged)

StartTagging ==
    /\ IsTaggable(tagged)
    /\ Go("tagging", "idle", "get")
    /\ UNCHANGED <<tags, objects, prev, desired, missing, read>>

GetForTagging ==
    LET lacking == OmitByKeys(NodeTags, tags) IN
    /\ Go("tagging", "get", IF lacking = {} THEN "patch"
                            ELSE IF mode = "lke" THEN "reread" ELSE "write")
    /\ missing' = lacking
    /\ UNCHANGED <<tags, objects, prev, desired, read>>

(* LKE: CreateTags reads the instance again ... *)
ReadForCreateTags ==
    /\ Go("tagging", "reread", "write")
    /\ read' = [read EXCEPT !["tagging"] = tags]
    /\ UNCHANGED <<tags, objects, prev, desired, missing>>

(* ... and appends to what it read. *)
CreateTags ==
    /\ mode = "lke"
    /\ tags' = read["tagging"] \cup missing
    /\ \/ Go("tagging", "write", "patch") /\ Ended("tagging")
       \/ Failures /\ Go("tagging", "write", "idle") /\ Ended("tagging")
    /\ UNCHANGED <<objects>>

(* Without LKE: CreateTags adds one tag after the other. *)
CreateTag(t) ==
    /\ mode = "instance" /\ t \in missing
    /\ tags' = tags \cup {t}
    /\ \/ /\ Go("tagging", "write", IF missing = {t} THEN "patch" ELSE "write")
          /\ missing' = missing \ {t} /\ UNCHANGED <<prev, desired, read>>
       \/ Failures /\ Go("tagging", "write", "idle") /\ Ended("tagging")
    /\ UNCHANGED <<objects>>

PatchInstanceTagged ==
    /\ Go("tagging", "patch", "idle")
    /\ tagged' = TRUE
    /\ UNCHANGED <<mode, spec, recorded, used>>
    /\ Ended("tagging")
    /\ UNCHANGED tags

-----------------------------------------------------------------------------
(* Failures and the environment *)

(* A request fails or the process stops: the reconcile ends here.          *)
Abandon(c) ==
    /\ Failures
    /\ pc[c] # "idle"
    /\ pc' = [pc EXCEPT ![c] = "idle"]
    /\ Ended(c)
    /\ UNCHANGED <<tags, objects>>

EditSpec(s) ==
    /\ spec' = s
    /\ used' = used \cup TagKeys(s)
    /\ UNCHANGED <<mode, recorded, tagged>>
    /\ UNCHANGED <<tags, pc, prev, desired, missing, read>>

InPlaceStep == StartUpdate \/ GetForUpdate \/ UpdateTags \/ PatchLastApplied

TaggingStep ==
    \/ StartTagging \/ GetForTagging \/ ReadForCreateTags \/ CreateTags
    \/ (\E t \in NodeTags : CreateTag(t)) \/ PatchInstanceTagged

Next ==
    \/ InPlaceStep
    \/ TaggingStep
    \/ \E c \in Controllers : Abandon(c)
    \/ \E s \in Specs : EditSpec(s)

Spec == Init /\ [][Next]_vars

(* Events and the resync of the informers start reconciles, a request that *)
(* is retried again and again is answered at some point.                   *)
Fairness ==
    /\ SF_vars(StartUpdate) /\ SF_vars(GetForUpdate)
    /\ SF_vars(UpdateTags /\ pc'["inplace"] = "patch") /\ SF_vars(PatchLastApplied)
    /\ SF_vars(StartTagging) /\ SF_vars(GetForTagging) /\ SF_vars(ReadForCreateTags)
    /\ SF_vars(CreateTags /\ pc'["tagging"] = "patch") /\ SF_vars(PatchInstanceTagged)
    /\ \A t \in NodeTags : SF_vars(CreateTag(t) /\ pc'["tagging"] # "idle")

FairSpec == Spec /\ Fairness

-----------------------------------------------------------------------------
(* Properties *)

(* Types; what is recorded as the user's tags is a spec.tags or nothing.   *)
TypeOK ==
    /\ {tags, prev, desired, missing} \subseteq SUBSET Tags
    /\ mode \in Modes
    /\ spec \in Specs
    /\ recorded \in Specs \cup {{}}
    /\ tagged \in BOOLEAN
    /\ pc \in [Controllers -> {"idle", "get", "update", "reread", "write", "patch"}]
    /\ read \in [Controllers -> SUBSET Tags]

(* Create's lookups and garbage collection find an instance by the tags it *)
(* was launched with.  No interleaving of the two read-modify-write        *)
(* controllers costs it one of them: it only goes when the user has set    *)
(* its very key, which validation rejects for the restricted keys only,    *)
(* and after the launch without effect on inplaceupdate.                   *)
BaseTagsKept == \A t \in Base : t \in tags \/ KeyOf[t] \in used

(* Keys that both the user and the operator have written, where the second *)
(* write may only append: a node tag that was missing when the controller  *)
(* looked, and without LKE a static tag at the launch.                     *)
Contested == used \cap TagKeys(IF mode = "lke" THEN NodeTags ELSE NodeTags \cup StaticTags)

(* A tag list is read as a map, of which the last value of a key counts:   *)
(* although CreateTags appends to a list other than the one it looked at,  *)
(* and that inplaceupdate may have written meanwhile, no key has two tags, *)
(* unless a user sets one that the operator writes too.                    *)
OneTagPerKey ==
    \A t, u \in tags : t # u /\ KeyOf[t] = KeyOf[u] => KeyOf[t] \in Contested

(* Whatever failed or was overwritten, once the user stops editing, the    *)
(* tags of spec.tags get onto the instance again and again.  They need not *)
(* stay: as long as the reconciles of the two controllers overlap, each    *)
(* may undo the other's write.                                             *)
UserTagsApplied == \A s \in Specs : <>[](spec = s) => []<>(s \subseteq tags)

(* Likewise for the tags of the tagging controller, although inplaceupdate *)
(* may write back a list from before they were added.                      *)
NodeTagsApplied == []<>(TagKeys(NodeTags) \subseteq TagKeys(tags))

(* "remove old user-managed keys": once spec.tags settles, no other user   *)
(* tag stays on the instance.                                              *)
OldUserTagsRemoved ==
    \A s \in Specs : <>[](spec = s) => <>[](tags \cap UNION Specs \subseteq s)

=============================================================================

-------------------------- MODULE InstanceTagsProofs --------------------------
(* Machine-checked proofs about InstanceTags, for any tags, keys and values *)
(* of spec.tags, those that validation rejects included, with and without   *)
(* LKE and failures.                                                        *)
EXTENDS InstanceTags, TLAPS

(* Whatever user tags are at hand, they are a spec.tags or nothing, *)
UserTagsInv == {prev, desired, recorded} \subseteq Specs \cup {{}}

(* and their keys are those of some spec.tags since the launch. *)
UserKeysInv ==
    /\ TagKeys(spec) \subseteq used /\ TagKeys(prev) \subseteq used
    /\ TagKeys(desired) \subseteq used /\ TagKeys(recorded) \subseteq used

(* The base tags are in a list but for those whose key a user has set. *)
ListKeeps(T) == \A t \in Base : t \in T \/ KeyOf[t] \in used

(* The instance has the base tags, and so has every list that is about to  *)
(* be written back.                                                        *)
BaseInv ==
    /\ ListKeeps(tags)
    /\ pc["inplace"] = "update" => ListKeeps(read["inplace"])
    /\ pc["tagging"] = "write" /\ mode = "lke" => ListKeeps(read["tagging"])

(* A tag list has one tag per key that is not contested, and each tag with *)
(* a key that no user has set is one that the operator wrote.              *)
ListSound(T) ==
    /\ \A t, u \in T : KeyOf[t] = KeyOf[u] => t = u \/ KeyOf[t] \in Contested
    /\ \A t \in T : t \in Base \cup NodeTags \/ KeyOf[t] \in used

(* Node tags that do not meet a base tag's key unless a user has set it. *)
ApartFromBase(M) == \A t \in M, u \in Base : KeyOf[t] = KeyOf[u] => KeyOf[t] \in used

(* So is every list that is about to be written back, and the tags to      *)
(* append are apart from the base tags.                                    *)
KeysInv ==
    /\ ListSound(tags)
    /\ pc["inplace"] = "update" => ListSound(read["inplace"])
    /\ pc["tagging"] = "write" /\ mode = "lke" => ListSound(read["tagging"])
    /\ missing \subseteq NodeTags
    /\ ApartFromBase(missing)

Inv == TypeOK /\ UserTagsInv /\ UserKeysInv /\ BaseInv /\ KeysInv

-----------------------------------------------------------------------------
(* The operators on tag lists *)

(* A list of tags to write is a list of tags. *)
LEMMA DesiredTyped ==
    ASSUME NEW existing \in SUBSET Tags, NEW previous, NEW wanted \in SUBSET Tags
    PROVE  DesiredUserTagsForInstance(existing, previous, wanted) \in SUBSET Tags
  BY DEF DesiredUserTagsForInstance, Assign, OmitByKeys

(* Reading a sound list as a map loses no base tag, whichever value of a   *)
(* key it keeps.                                                           *)
LEMMA MapSound ==
    ASSUME NEW T, ListSound(T), ListKeeps(T), NEW m \in TagListToMap(T)
    PROVE  ListSound(m) /\ ListKeeps(m)
  <1>1. m \subseteq T /\ TagKeys(m) = TagKeys(T)
    BY DEF TagListToMap
  <1>2. ListSound(m)
    BY <1>1 DEF ListSound
  <1>3. ASSUME NEW t \in Base PROVE t \in m \/ KeyOf[t] \in used
    <2>1. CASE t \in T
      <3>1. KeyOf[t] \in TagKeys(m)
        BY <1>1, <2>1 DEF TagKeys
      <3>2. PICK u \in m : KeyOf[u] = KeyOf[t]
        BY <3>1 DEF TagKeys
      <3>3. t = u \/ KeyOf[t] \in Contested
        BY <1>1, <2>1, <3>2 DEF ListSound
      <3> QED
        BY <3>2, <3>3 DEF Contested
    <2> QED
      BY <2>1 DEF ListKeeps
  <1> QED
    BY <1>2, <1>3 DEF ListKeeps

(* The list that inplaceupdate writes only omits or replaces tags with a   *)
(* key that a user has set.                                                *)
LEMMA DesiredKeeps ==
    ASSUME NEW existing, ListKeeps(existing), NEW previous, NEW wanted,
           TagKeys(previous) \subseteq used, TagKeys(wanted) \subseteq used
    PROVE  ListKeeps(DesiredUserTagsForInstance(existing, previous, wanted))
  BY DEF DesiredUserTagsForInstance, Assign, OmitByKeys, ListKeeps

(* It is sound if the list that was read is.                               *)
LEMMA DesiredSound ==
    ASSUME NEW existing, ListSound(existing), NEW previous, NEW wanted \in Specs \cup {{}},
           TagKeys(wanted) \subseteq used
    PROVE  ListSound(DesiredUserTagsForInstance(existing, previous, wanted))
  <1> DEFINE kept == {t \in OmitByKeys(existing, previous) : KeyOf[t] \notin TagKeys(wanted)}
  <1>1. DesiredUserTagsForInstance(existing, previous, wanted) = kept \cup wanted
    BY DEF DesiredUserTagsForInstance, Assign
  <1>2. kept \subseteq existing
    BY DEF OmitByKeys
  <1>3. OnePerKey(wanted)
    BY TagsAssumption DEF OnePerKey
  <1>4. \A t \in kept, u \in wanted : KeyOf[t] # KeyOf[u]
    BY DEF TagKeys
  <1>5. \A t \in wanted : KeyOf[t] \in used
    BY DEF TagKeys
  <1> HIDE DEF kept
  <1>6. ListSound(kept \cup wanted)
    BY <1>2, <1>3, <1>4, <1>5 DEF OnePerKey, ListSound
  <1> QED
    BY <1>1, <1>6

(* A list stays sound when node tags that are apart from the base tags are *)
(* appended, even if it has some of them.                                  *)
LEMMA AppendSound ==
    ASSUME NEW T, ListSound(T), NEW M \in SUBSET NodeTags, ApartFromBase(M)
    PROVE  ListSound(T \cup M)
  <1>1. \A t \in T, u \in M : KeyOf[t] = KeyOf[u] => t = u \/ KeyOf[t] \in Contested
    <2> SUFFICES ASSUME NEW t \in T, NEW u \in M, KeyOf[t] = KeyOf[u]
                 PROVE  t = u \/ KeyOf[t] \in Contested
      OBVIOUS
    <2>1. KeyOf[t] \in used => KeyOf[t] \in Contested
      BY DEF Contested, TagKeys
    <2>2. CASE t \in Base
      BY <2>1, <2>2 DEF ApartFromBase
    <2>3. CASE t \in NodeTags
      BY <2>3, TagsAssumption DEF OnePerKey
    <2> QED
      BY <2>1, <2>2, <2>3 DEF ListSound
  <1>2. \A t, u \in M : KeyOf[t] = KeyOf[u] => t = u
    BY TagsAssumption DEF OnePerKey
  <1> QED
    BY <1>1, <1>2 DEF ListSound

-----------------------------------------------------------------------------

(* An instance is launched with sound tags, and all base tags but those    *)
(* with the key of a user's.                                               *)
LEMMA LaunchSound ==
    ASSUME spec \in Specs, used = TagKeys(spec)
    PROVE  ListSound(LaunchTags) /\ ListKeeps(LaunchTags)
  <1>0. OnePerKey(spec) /\ OnePerKey(StaticTags \cup ClaimTags)
    BY TagsAssumption
  <1>1. \A t \in spec : KeyOf[t] \in used
    BY DEF TagKeys
  <1>2. CASE mode = "lke"
    <2> DEFINE merged == Assign(StaticTags, spec)
    <2>1. /\ LaunchTags = {t \in merged : KeyOf[t] \notin TagKeys(ClaimTags)} \cup ClaimTags
          /\ Base = StaticTags \cup ClaimTags
      BY <1>2 DEF LaunchTags, Assign, Base
    <2>2. /\ \A t, u \in merged : KeyOf[t] = KeyOf[u] => t = u
          /\ \A t \in merged : t \in StaticTags \/ t \in spec
          /\ \A t \in StaticTags : t \in merged \/ KeyOf[t] \in used
      BY <1>0 DEF Assign, OnePerKey, TagKeys
    <2> HIDE DEF merged
    <2>3. \A t \in LaunchTags, u \in ClaimTags : KeyOf[t] = KeyOf[u] => t = u
      BY <1>0, <2>1 DEF OnePerKey, TagKeys
    <2>4. ListSound(LaunchTags)
      BY <1>1, <2>1, <2>2, <2>3 DEF ListSound
    <2>5. ASSUME NEW t \in StaticTags, t \in merged PROVE t \in LaunchTags
      BY <1>0, <2>1, <2>5 DEF OnePerKey, TagKeys
    <2>6. ListKeeps(LaunchTags)
      BY <2>1, <2>2, <2>5 DEF ListKeeps
    <2> QED
      BY <2>4, <2>6
  <1>3. CASE mode # "lke"
    <2>1. /\ LaunchTags = spec \cup {t \in spec : KeyOf[t] \notin TagKeys(StaticTags)} \cup StaticTags
          /\ Base = StaticTags /\ Contested = used \cap TagKeys(NodeTags \cup StaticTags)
      BY <1>3 DEF LaunchTags, Assign, Base, Contested
    <2>2. \A t \in LaunchTags : t \in spec \/ t \in StaticTags
      BY <2>1
    <2>3. ASSUME NEW t \in LaunchTags, NEW u \in LaunchTags, KeyOf[t] = KeyOf[u], t # u
          PROVE  KeyOf[t] \in Contested
      <3>1. \/ t \in spec /\ u \in StaticTags
            \/ t \in StaticTags /\ u \in spec
        BY <1>0, <2>2, <2>3 DEF OnePerKey
      <3> QED
        BY <1>1, <2>1, <2>3, <3>1 DEF TagKeys
    <2>4. ListSound(LaunchTags)
      BY <1>1, <2>1, <2>2, <2>3 DEF ListSound
    <2> QED
      BY <2>1, <2>4 DEF ListKeeps
  <1> QED
    BY <1>2, <1>3

LEMMA InitInv == Init => Inv
  <1> SUFFICES ASSUME Init PROVE Inv
    OBVIOUS
  <1>1. spec \in Specs /\ used = TagKeys(spec) /\ tags = LaunchTags
    BY DEF Init
  <1>2. LaunchTags \in SUBSET Tags
    BY <1>1, TagsAssumption DEF LaunchTags, Assign
  <1>3. TypeOK
    BY <1>1, <1>2, TagsAssumption DEF Init, TypeOK, Controllers
  <1>4. UserTagsInv /\ UserKeysInv
    BY <1>1 DEF Init, UserTagsInv, UserKeysInv, TagKeys
  <1>5. ListSound(tags) /\ ListKeeps(tags)
    BY <1>1, LaunchSound
  <1>6. BaseInv
    BY <1>5 DEF Init, BaseInv, Controllers
  <1>7. KeysInv
    BY <1>5 DEF Init, KeysInv, Controllers, ApartFromBase
  <1> QED
    BY <1>3, <1>4, <1>6, <1>7 DEF Inv

(* Every step keeps the types. *)
LEMMA TypeStep ==
    ASSUME TypeOK, UserTagsInv, [Next]_vars
    PROVE  TypeOK' /\ UserTagsInv'
  <1> DEFINE Goal == TypeOK' /\ UserTagsInv'
  <1> USE TagsAssumption DEF TypeOK, UserTagsInv, Controllers, Go, Ended, objects
  <1>1. ASSUME StartUpdate PROVE Goal
    BY <1>1 DEF StartUpdate
  <1>2. ASSUME GetForUpdate PROVE Goal
    BY <1>2 DEF GetForUpdate
  <1>3. ASSUME UpdateTags PROVE Goal
    <2>1. PICK existing \in TagListToMap(read["inplace"]) :
            LET final == DesiredUserTagsForInstance(existing, prev, desired)
            IN  tags' = IF final = existing THEN tags ELSE final
      BY <1>3 DEF UpdateTags
    <2>2. existing \in SUBSET Tags
      BY <2>1 DEF TagListToMap
    <2>3. DesiredUserTagsForInstance(existing, prev, desired) \in SUBSET Tags
      BY <2>2, DesiredTyped
    <2>4. tags' \in SUBSET Tags
      BY <2>1, <2>3
    <2>5. /\ UNCHANGED objects
          /\ pc' \in {[pc EXCEPT !["inplace"] = to] : to \in {"patch", "idle"}}
          /\ read' = [read EXCEPT !["inplace"] = {}]
          /\ UNCHANGED missing /\ prev' \in {prev, {}} /\ desired' \in {desired, {}}
      BY <1>3 DEF UpdateTags
    <2> QED
      BY <2>4, <2>5
  <1>4. ASSUME PatchLastApplied PROVE Goal
    BY <1>4 DEF PatchLastApplied
  <1>5. ASSUME StartTagging PROVE Goal
    BY <1>5 DEF StartTagging
  <1>6. ASSUME GetForTagging PROVE Goal
    BY <1>6 DEF GetForTagging, OmitByKeys
  <1>7. ASSUME ReadForCreateTags PROVE Goal
    BY <1>7 DEF ReadForCreateTags
  <1>8. ASSUME CreateTags PROVE Goal
    BY <1>8 DEF CreateTags
  <1>9. ASSUME NEW t \in NodeTags, CreateTag(t) PROVE Goal
    BY <1>9 DEF CreateTag
  <1>10. ASSUME PatchInstanceTagged PROVE Goal
    BY <1>10 DEF PatchInstanceTagged
  <1>11. ASSUME NEW c \in Controllers, Abandon(c) PROVE Goal
    BY <1>11 DEF Abandon
  <1>12. ASSUME NEW s \in Specs, EditSpec(s) PROVE Goal
    BY <1>12 DEF EditSpec
  <1>13. ASSUME UNCHANGED vars PROVE Goal
    BY <1>13 DEF vars
  <1> QED
    BY <1>1, <1>2, <1>3, <1>4, <1>5, <1>6, <1>7, <1>8, <1>9, <1>10, <1>11, <1>12, <1>13
       DEF Next, InPlaceStep, TaggingStep

(* User tags at hand are copied from one another, and edits are recorded.  *)
LEMMA UserKeysStep ==
    ASSUME UserKeysInv, [Next]_vars
    PROVE  UserKeysInv'
  <1>0. TagKeys({}) \subseteq used
    BY DEF TagKeys
  <1>1. CASE \E s \in Specs : EditSpec(s)
    BY <1>1 DEF EditSpec, UserKeysInv
  <1>2. CASE ~\E s \in Specs : EditSpec(s)
    <2>1. /\ spec' = spec /\ used' = used
          /\ recorded' \in {recorded, desired}
          /\ prev' \in {prev, recorded, {}} /\ desired' \in {desired, spec, {}}
      BY <1>2 DEF Next, InPlaceStep, TaggingStep, StartUpdate, GetForUpdate, UpdateTags,
         PatchLastApplied, StartTagging, GetForTagging, ReadForCreateTags, CreateTags, CreateTag,
         PatchInstanceTagged, Abandon, Ended, objects, vars
    <2>2. TagKeys(recorded') \subseteq used
      BY <2>1 DEF UserKeysInv
    <2>3. TagKeys(prev') \subseteq used
      BY <1>0, <2>1 DEF UserKeysInv
    <2>4. TagKeys(desired') \subseteq used
      BY <1>0, <2>1 DEF UserKeysInv
    <2> QED
      BY <2>1, <2>2, <2>3, <2>4 DEF UserKeysInv
  <1> QED
    BY <1>1, <1>2

(* A step of a controller leaves the mode and the keys of the user alone.  *)
LEMMA ControllerStep ==
    ASSUME [Next]_vars, ~\E s \in Specs : EditSpec(s)
    PROVE  UNCHANGED <<mode, used>>
  BY DEF Next, InPlaceStep, TaggingStep, StartUpdate, GetForUpdate, UpdateTags, PatchLastApplied,
     StartTagging, GetForTagging, ReadForCreateTags, CreateTags, CreateTag, PatchInstanceTagged,
     Abandon, objects, vars

(* Both controllers write back lists with the base tags and with one tag   *)
(* per key, however old their lists and whatever the other one wrote since.*)
LEMMA ListsStep ==
    ASSUME Inv, [Next]_vars, UNCHANGED <<mode, used>>
    PROVE  BaseInv' /\ KeysInv'
  <1> DEFINE Good(T) == ListKeeps(T) /\ ListSound(T)
  <1> DEFINE Goal ==
        /\ Good(tags')
        /\ pc'["inplace"] = "update" => Good(read'["inplace"])
        /\ pc'["tagging"] = "write" /\ mode = "lke" => Good(read'["tagging"])
        /\ missing' \subseteq NodeTags
        /\ ApartFromBase(missing')
  <1>1. Base' = Base /\ Contested' = Contested
    BY DEF Base, Contested
  <1>2. Goal => BaseInv' /\ KeysInv'
    BY <1>1 DEF BaseInv, KeysInv, ListKeeps, ListSound, ApartFromBase
  <1>3. /\ Good(tags)
        /\ pc["inplace"] = "update" => Good(read["inplace"])
        /\ pc["tagging"] = "write" /\ mode = "lke" => Good(read["tagging"])
        /\ missing \subseteq NodeTags
        /\ ApartFromBase(missing)
    BY DEF Inv, BaseInv, KeysInv
  <1>4. ApartFromBase({})
    BY DEF ApartFromBase
  <1>5. /\ pc \in [Controllers -> {"idle", "get", "update", "reread", "write", "patch"}]
        /\ read \in [Controllers -> SUBSET Tags]
    BY DEF Inv, TypeOK
  <1> HIDE DEF Good
  <1> USE <1>3, <1>4, <1>5 DEF Controllers, Go, Ended, objects
  <1>6. ASSUME StartUpdate PROVE Goal
    BY <1>6 DEF StartUpdate
  <1>7. ASSUME GetForUpdate PROVE Goal
    BY <1>7 DEF GetForUpdate
  <1>8. ASSUME UpdateTags PROVE Goal
    <2>1. PICK existing \in TagListToMap(read["inplace"]) :
            LET final == DesiredUserTagsForInstance(existing, prev, desired)
            IN  tags' = IF final = existing THEN tags ELSE final
      BY <1>8 DEF UpdateTags
    <2>2. pc["inplace"] = "update"
      BY <1>8 DEF UpdateTags
    <2>3. ListSound(existing) /\ ListKeeps(existing)
      BY <2>1, <2>2, MapSound DEF Good
    <2>4. /\ desired \in Specs \cup {{}}
          /\ TagKeys(prev) \subseteq used /\ TagKeys(desired) \subseteq used
      BY DEF Inv, UserTagsInv, UserKeysInv
    <2>5. Good(DesiredUserTagsForInstance(existing, prev, desired))
      BY <2>3, <2>4, DesiredKeeps, DesiredSound DEF Good
    <2>6. Good(tags')
      BY <2>1, <2>5
    <2>7. /\ pc' \in {[pc EXCEPT !["inplace"] = to] : to \in {"patch", "idle"}}
          /\ read' = [read EXCEPT !["inplace"] = {}]
          /\ UNCHANGED missing
      BY <1>8 DEF UpdateTags
    <2> QED
      BY <2>6, <2>7
  <1>9. ASSUME PatchLastApplied PROVE Goal
    BY <1>9 DEF PatchLastApplied
  <1>10. ASSUME StartTagging PROVE Goal
    BY <1>10 DEF StartTagging
  <1>11. ASSUME GetForTagging PROVE Goal
    <2>1. missing' = OmitByKeys(NodeTags, tags) /\ UNCHANGED <<tags, read>>
      BY <1>11 DEF GetForTagging
    <2>2. missing' \subseteq NodeTags /\ ApartFromBase(missing')
      BY <2>1 DEF OmitByKeys, TagKeys, ApartFromBase, Good, ListKeeps
    <2>3. mode = "lke" => pc'["tagging"] # "write"
      BY <1>11 DEF GetForTagging
    <2>4. pc'["inplace"] = pc["inplace"]
      BY <1>11 DEF GetForTagging
    <2> QED
      BY <2>1, <2>2, <2>3, <2>4
  <1>12. ASSUME ReadForCreateTags PROVE Goal
    BY <1>12 DEF ReadForCreateTags
  <1>13. ASSUME CreateTags PROVE Goal
    <2>1. Good(read["tagging"]) /\ tags' = read["tagging"] \cup missing
      BY <1>13 DEF CreateTags
    <2>2. Good(tags')
      BY <2>1, AppendSound DEF Good, ListKeeps
    <2> QED
      BY <1>13, <2>2 DEF CreateTags
  <1>14. ASSUME NEW t \in NodeTags, CreateTag(t) PROVE Goal
    <2>1. tags' = tags \cup {t} /\ t \in missing /\ mode = "instance"
      BY <1>14 DEF CreateTag
    <2>2. ApartFromBase({t})
      BY <2>1 DEF ApartFromBase
    <2>3. Good(tags')
      BY <2>1, <2>2, AppendSound DEF Good, ListKeeps
    <2>4. missing' \subseteq missing /\ pc'["inplace"] = pc["inplace"]
          /\ read'["inplace"] = read["inplace"]
      BY <1>14 DEF CreateTag
    <2> QED
      BY <2>1, <2>3, <2>4 DEF ApartFromBase
  <1>15. ASSUME PatchInstanceTagged PROVE Goal
    BY <1>15 DEF PatchInstanceTagged
  <1>16. ASSUME NEW c \in Controllers, Abandon(c) PROVE Goal
    BY <1>16 DEF Abandon
  <1>17. ASSUME NEW s \in Specs, EditSpec(s) PROVE Goal
    BY <1>17 DEF EditSpec
  <1>18. ASSUME UNCHANGED vars PROVE Goal
    BY <1>18 DEF vars
  <1>19. Goal
    BY <1>6, <1>7, <1>8, <1>9, <1>10, <1>11, <1>12, <1>13, <1>14, <1>15, <1>16, <1>17, <1>18
       DEF Next, InPlaceStep, TaggingStep
  <1> QED
    BY <1>19, <1>2

(* An edit gives the user further keys, and touches no list. *)
LEMMA EditStep ==
    ASSUME Inv, NEW s \in Specs, EditSpec(s)
    PROVE  BaseInv' /\ KeysInv'
  <1>1. used \subseteq used' /\ UNCHANGED <<mode, tags, pc, missing, read>>
    BY DEF EditSpec
  <1>2. Base' = Base /\ Contested \subseteq Contested'
    BY <1>1 DEF Base, Contested
  <1>3. BaseInv'
    BY <1>1, <1>2 DEF Inv, BaseInv, ListKeeps
  <1>4. KeysInv'
    BY <1>1, <1>2 DEF Inv, KeysInv, ListSound, ApartFromBase
  <1> QED
    BY <1>3, <1>4

(* What the two reconciles have read and computed stays harmless to the    *)
(* identity of the instance, but for the keys that a user has set.         *)
THEOREM TagsInvariant == Spec => []Inv
  <1>1. ASSUME Inv, [Next]_vars PROVE Inv'
    <2>1. CASE \E s \in Specs : EditSpec(s)
      BY <1>1, <2>1, TypeStep, UserKeysStep, EditStep DEF Inv
    <2>2. CASE ~\E s \in Specs : EditSpec(s)
      BY <1>1, <2>2, TypeStep, UserKeysStep, ControllerStep, ListsStep DEF Inv
    <2> QED
      BY <2>1, <2>2
  <1> QED
    BY <1>1, InitInv, PTL DEF Spec

(* The instance, the annotations and the reconciles keep their types. *)
THEOREM TagsTypeCorrect == Spec => []TypeOK
  <1>1. Inv => TypeOK
    BY DEF Inv
  <1> QED
    BY <1>1, TagsInvariant, PTL

(* No interleaving of the two leaves an instance with two tags of one key, *)
(* unless it is a key of the operator's that a user has set too.           *)
THEOREM OneTagPerKeyHolds == Spec => []OneTagPerKey
  <1>1. Inv => OneTagPerKey
    BY DEF Inv, KeysInv, ListSound, OneTagPerKey
  <1> QED
    BY <1>1, TagsInvariant, PTL

(* No interleaving of inplaceupdate and tagging, which with LKE both       *)
(* replace the whole list after reading it, costs an instance a tag that   *)
(* it was launched with, unless a user has set the very key of that tag.   *)
THEOREM BaseTagsKeptHolds == Spec => []BaseTagsKept
  <1>1. Inv => BaseTagsKept
    BY DEF Inv, BaseInv, ListKeeps, BaseTagsKept
  <1> QED
    BY <1>1, TagsInvariant, PTL

=============================================================================

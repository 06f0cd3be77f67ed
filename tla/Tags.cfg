\* Both controllers, failures, spec edits, in both modes.
CONSTANTS
  claimTag = claimTag  otherClaim = otherClaim  nameTag = nameTag  otherName = otherName
  ownedTag = ownedTag  otherOwned = otherOwned  teamA = teamA  teamB = teamB  opaque = opaque
  Tags <- AllTags
  KeyOf <- Keys
  Modes = {"lke", "instance"}
  StaticTags = {ownedTag}
  ClaimTags = {claimTag}
  NodeTags = {nameTag}
  ClusterNameTagged = FALSE
  Specs <- ClashingSpecs
  Restricted <- RestrictedKeys
  Failures = TRUE
SPECIFICATION FairSpec
INVARIANTS
  TypeOK
  OneTagPerKey
  BaseTagsKept
PROPERTIES
  UserTagsApplied
  NodeTagsApplied

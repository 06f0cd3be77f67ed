\* A spec edit between the claim and the first reconcile.
CONSTANTS
  claimTag = claimTag  otherClaim = otherClaim  nameTag = nameTag  otherName = otherName
  ownedTag = ownedTag  otherOwned = otherOwned  teamA = teamA  teamB = teamB  opaque = opaque
  Tags <- AllTags
  KeyOf <- Keys
  Modes = {"lke"}
  StaticTags = {}
  ClaimTags = {claimTag}
  NodeTags = {}
  ClusterNameTagged = FALSE
  Specs <- TwoSpecs
  Restricted <- RestrictedKeys
  Failures = FALSE
SPECIFICATION FairSpec
PROPERTIES
  OldUserTagsRemoved

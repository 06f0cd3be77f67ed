-------------------------- MODULE MCInstanceTags --------------------------
(* Small instances of InstanceTags for TLC. *)
EXTENDS InstanceTags

CONSTANTS claimTag, otherClaim, nameTag, otherName, ownedTag, otherOwned, teamA, teamB, opaque

AllTags == {claimTag, otherClaim, nameTag, otherName, ownedTag, otherOwned, teamA, teamB, opaque}

(* The user's value of a key has the key of the operator's. *)
Keys == [t \in AllTags |->
           CASE t = otherClaim -> claimTag [] t = otherName -> nameTag
             [] t = otherOwned -> ownedTag [] t = teamB -> teamA [] OTHER -> t]

TwoSpecs == {{teamA}, {teamB, opaque}}

(* Validation rejects the second one: Name and karpenter.sh/nodeclaim are  *)
(* restricted keys, kubernetes.io/cluster/<name> is not.                   *)
ClashingSpecs == {{teamA, otherOwned}, {teamB, otherName, otherClaim}}

RestrictedKeys == {claimTag, nameTag}

=============================================================================

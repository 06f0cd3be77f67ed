---------------------------- MODULE MCNodeClass ----------------------------
(* Small instances of NodeClass for TLC. *)
EXTENDS NodeClass

CONSTANTS s1, s2, s3, c1, c2

(* s3 is s1 with tags that validation refuses: the hash leaves tags out.   *)
HashWithoutTags(s) == IF s = s3 THEN s1 ELSE s

AsIs(s) == s

(* s1 sets no image, s2 is s1 with the default image.                      *)
WithImage(s) == IF s = s1 THEN s2 ELSE s

=============================================================================

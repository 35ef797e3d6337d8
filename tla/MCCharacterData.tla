--------------------------- MODULE MCCharacterData ---------------------------
(* CharacterData with every member of Character.                           *)
EXTENDS CharacterData

AllMembers == Members
Clones == {"clonesModel"}
=============================================================================

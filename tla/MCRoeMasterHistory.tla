------------------------- MODULE MCRoeMasterHistory -------------------------
(* Instances of RoeMasterHistory for TLC. *)
EXTENDS MCRoeMaster, RoeMasterHistory
=============================================================================

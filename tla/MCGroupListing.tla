--------------------------- MODULE MCGroupListing ---------------------------
(* Values of the constants of GroupListing for TLC; a list may repeat an id. *)
EXTENDS GroupListing, TLC

MCMemberLists == {<<1, 2, 3>>, <<2, 2>>}
MCSymmetry    == Permutations(Readers)
=============================================================================

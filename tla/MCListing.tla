-------------------------------- MODULE MCListing --------------------------------
(***************************************************************************)
(* Listing for TLC: the constants are given in the .cfg files.             *)
(***************************************************************************)
EXTENDS Listing

=============================================================================

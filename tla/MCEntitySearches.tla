-------------------------- MODULE MCEntitySearches --------------------------
(* Searches next to the requests of MCEntityTree. *)
EXTENDS EntitySearches, MCEntityTree

=============================================================================

------------------------------- MODULE MCCatalog -------------------------------
(***************************************************************************)
(* A small instance of Catalog.  It checks a liveness property, so it uses *)
(* no symmetry.                                                            *)
(***************************************************************************)
EXTENDS Catalog

===============================================================================

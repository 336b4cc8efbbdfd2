------------------------------ MODULE CatalogMC ------------------------------
(***************************************************************************)
(* Catalog with two names, which may be given to several tables.           *)
(***************************************************************************)
EXTENDS Catalog
=============================================================================

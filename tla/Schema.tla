-------------------------------- MODULE Schema --------------------------------
(***************************************************************************)
(* The fixed pages of the catalog, from server-side/schema/include/db_ops.h *)
(***************************************************************************)
TABLES == 0             \* both the id and the root of TABLES, and so below
COLUMNS == 1
TABLES_NAMES == 2       \* roots of indexes
COLUMNS_TIDX == 3
COLUMNS_NAMES == 4
=============================================================================

------------------------ MODULE MCDirectorySharding ------------------------
(* Small instances of DirectorySharding for TLC.  Routers are created alike  *)
(* and never compared by name, so permuting them is a symmetry of the        *)
(* specification (used for safety only).                                     *)
EXTENDS DirectorySharding, TLC

MCRouterSymmetry == Permutations(Router)
=============================================================================

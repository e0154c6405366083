----------------------- MODULE MCDataPlaneValidation -----------------------
(***************************************************************************)
(* Model-checking instance of DataPlaneValidation.                         *)
(***************************************************************************)
EXTENDS DataPlaneValidation

\* Two entries let a later KONG_DATABASE entry override an earlier one.
MCMaxEnv == 2
=============================================================================

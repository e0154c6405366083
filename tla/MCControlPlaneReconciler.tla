---------------------- MODULE MCControlPlaneReconciler ----------------------
(***************************************************************************)
(* Model-checking instances of ControlPlaneReconciler.                     *)
(***************************************************************************)
EXTENDS ControlPlaneReconciler

\* Two creations per family let a duplicate child appear; two edits of
\* spec.dataPlane take the Deployment from dormant to active and back.
MCMaxCreates == 2
MCMaxEdits == 2
=============================================================================

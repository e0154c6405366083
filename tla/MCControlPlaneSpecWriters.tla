--------------------- MODULE MCControlPlaneSpecWriters ---------------------
(***************************************************************************)
(* Model-checking instances of ControlPlaneSpecWriters.                    *)
(***************************************************************************)
EXTENDS ControlPlaneSpecWriters

\* Configurations that leave the publish service alone: nothing, a
\* variable of the user's own, the TLS paths, the admin URL with a variable
\* of the user's own, and the pod identity with the controller name.
MCConfigEnvs ==
    {<<>>, <<Entry("other", "custom")>>, <<Entry("tls", "custom")>>,
     <<Entry("adminURL", "custom"), Entry("other", "custom")>>,
     <<Entry("pod", "custom"), Entry("ctrl", "custom")>>}

\* A configuration that sets the publish service.
MCConfigPublish == {<<Entry("publish", "custom"), Entry("other", "custom")>>}

\* Two edits: a configuration change and a direct edit of the ControlPlane.
MCMaxEdits == 2
=============================================================================

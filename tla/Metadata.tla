------------------------------ MODULE Metadata ------------------------------
(***************************************************************************)
(* The finalizer helpers of internal/utils/kubernetes/metadata.go.  The    *)
(* finalizer list is a set: EnsureFinalizersInMetadata appends only        *)
(* missing tokens and RemoveFinalizerInMetadata drops every copy of one,   *)
(* so neither ever leaves a token twice and order plays no part.           *)
(***************************************************************************)

\* Add each token that is missing; the caller writes only if one was added.
EnsureFinalizersInMetadata(finalizers, tokens) == finalizers \cup tokens

FinalizersAdded(finalizers, tokens) == ~(tokens \subseteq finalizers)

\* Drop the token; the caller writes only if it was present.
RemoveFinalizerInMetadata(finalizers, token) == finalizers \ {token}

FinalizerRemoved(finalizers, token) == token \in finalizers
=============================================================================

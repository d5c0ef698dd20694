----------------------------- MODULE ObjectSpecs -----------------------------
(***************************************************************************)
(* What users ask of Queue, Topic and Channel resources: the part of the   *)
(* state that admission, folding and reconciles have in common.            *)
(***************************************************************************)
EXTENDS AttributeMapping

CONSTANT Objects  \* the custom resources

VARIABLES
    type,  \* the type of each resource's object
    spec   \* the spec of each resource

\* Every resource has a spec that the CRD of its kind admits.
WellFormed == \A o \in Objects : IsSpec(type[o], spec[o])
=============================================================================

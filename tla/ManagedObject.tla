--------------------------- MODULE ManagedObject ---------------------------
(***************************************************************************)
(* What a reconciler promises about the MQ object of one custom resource,  *)
(* without copies, queues, retries or faults: the object is claimed (the   *)
(* finalizer is set) before it is written, it is written and deleted only  *)
(* while claimed, and the claim is given up only when the object is gone   *)
(* or its owner asked for it to be left behind.                            *)
(*                                                                         *)
(* The promise is made by the deletion flow of internal/controller (the    *)
(* finalizer, handleDeletion, handleOrphanDeletion); WorkloadReconcile is  *)
(* shown to keep it.                                                       *)
(***************************************************************************)
CONSTANTS
    Values,    \* what an object can be set to
    Foreign,   \* what others set it to
    NoObject   \* there is no object

VARIABLES
    life,      \* the custom resource: "none", "live" or "deleting"
    claimed,   \* it carries the operator's finalizer
    orphan,    \* its owner wants the object left behind
    doing,     \* what the operator is about to do to the object
    mq,        \* the object
    mine       \* the operator wrote the object and did not leave it behind

vars == <<life, claimed, orphan, doing, mq, mine>>

Init ==
    /\ life = "none" /\ claimed = FALSE /\ orphan = FALSE
    /\ doing = "nothing"
    /\ mq \in Foreign \cup {NoObject}
    /\ mine = FALSE

\* The owner creates the resource, or says what is to become of the object.
Declare ==
    /\ life' = IF life = "none" THEN "live" ELSE life
    /\ orphan' \in BOOLEAN
    /\ UNCHANGED <<claimed, doing, mq, mine>>

\* The owner deletes the resource.
Discard ==
    /\ life = "live"
    /\ life' = "deleting"
    /\ UNCHANGED <<claimed, orphan, doing, mq, mine>>

\* A deleted resource that is not claimed goes away, at once or later.
Vanish ==
    /\ life # "none" /\ ~claimed
    /\ life' = "none" /\ orphan' = FALSE
    /\ UNCHANGED <<claimed, doing, mq, mine>>

Claim ==
    /\ life = "live" /\ ~claimed
    /\ claimed' = TRUE
    /\ UNCHANGED <<life, orphan, doing, mq, mine>>

\* The operator makes up its mind; a claim is all it needs to write.
Attempt(op) ==
    /\ claimed
    /\ op = "delete" => life = "deleting"
    /\ doing = "nothing" /\ doing' = op
    /\ UNCHANGED <<life, claimed, orphan, mq, mine>>

Write(v) ==
    /\ doing = "write" /\ doing' = "nothing"
    /\ claimed
    /\ mq' = v /\ mine' = TRUE
    /\ UNCHANGED <<life, claimed, orphan>>

Delete ==
    /\ doing = "delete" /\ doing' = "nothing"
    /\ claimed /\ life = "deleting"
    /\ mq' = NoObject /\ mine' = FALSE
    /\ UNCHANGED <<life, claimed, orphan>>

\* The command fails, or the operator dies before sending it.
Abandon ==
    /\ doing' = "nothing"
    /\ UNCHANGED <<life, claimed, orphan, mq, mine>>

\* The claim goes, and the resource with it unless others hold on to it.
Release ==
    /\ claimed /\ life = "deleting" /\ doing = "nothing"
    /\ orphan \/ ~mine
    /\ claimed' = FALSE
    /\ mine' = FALSE
    /\ \/ UNCHANGED <<life, orphan>>
       \/ life' = "none" /\ orphan' = FALSE
    /\ UNCHANGED <<doing, mq>>

\* Others create, alter or delete the object.
Meddle(v) ==
    /\ mq' = v
    /\ mine' = (mine /\ v # NoObject)
    /\ UNCHANGED <<life, claimed, orphan, doing>>

Next ==
    \/ Declare \/ Discard \/ Vanish \/ Claim \/ Delete \/ Abandon \/ Release
    \/ \E op \in {"write", "delete"} : Attempt(op)
    \/ \E v \in Values : Write(v)
    \/ \E v \in Foreign : Meddle(v)

Spec == Init /\ [][Next]_vars
=============================================================================

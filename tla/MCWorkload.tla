----------------------------- MODULE MCWorkload -----------------------------
(***************************************************************************)
(* Small instances of WorkloadReconcile for TLC: the specs and annotations *)
(* that the runs let users write.                                          *)
(***************************************************************************)
EXTENDS WorkloadReconcile

\* Two ways to set every attribute.
v1 == [a \in Attributes |-> "one"]

v2 == [a \in Attributes |-> "two"]

TwoValues == {v1, v2}

SecondValue == {v2}

\* Authority records with some of the authorities granted.
Granting(S) == [a \in Attributes |-> IF a \in S THEN "granted" ELSE Unset]

Asked == Granting({"GET", "PUT"})

\* What administrators grant: what the spec asks for, or one of it and another.
Others == {Asked, Granting({"GET", "INQ"})}

AuthorityValues == Others \cup {Granting({"GET", "PUT", "INQ"})}

SpecOf(v, s, d, a) == [value |-> v, suspend |-> s, deletion |-> d, adoption |-> a]

AnnOf(f, o) == [forceOrphan |-> f, observeOnly |-> o]

\* A queue that is suspended, one that adopts only what matches and is not
\* deleted with its resource, and one with a value the queue manager refuses.
QueueSpecs ==
    {SpecOf(v1, TRUE, "Delete", "Adopt"),
     SpecOf(v1, FALSE, "Orphan", "AdoptIfMatching"),
     SpecOf(v2, FALSE, "Delete", "Adopt")}

\* A rule that is edited to a value that cannot be formatted and to the Orphan
\* policy.
RuleSpecs == {SpecOf(v1, FALSE, "Delete", "Adopt"), SpecOf(v2, FALSE, "Orphan", "Adopt")}

RecordSpecs == {SpecOf(Asked, FALSE, "Delete", "FailIfExists")}

Plain == {AnnOf(FALSE, FALSE)}

ObserveOnly == {AnnOf(FALSE, o) : o \in BOOLEAN}
=============================================================================

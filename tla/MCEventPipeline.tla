--------------------------- MODULE MCEventPipeline ---------------------------
(***************************************************************************)
(* EventPipeline on small instances. All events belong to one customer:    *)
(* the pipeline never looks at the customer, and EventProcessing covers    *)
(* what two customers change.                                              *)
(***************************************************************************)
EXTENDS EventPipeline, TLC

CONSTANTS ann

MCCustomers == {ann}
MCCustomerOf == [e \in Events |-> ann]

\* Workers are interchangeable, and so are events. Used where no liveness
\* property is checked.
MCSymmetry == Permutations(Workers) \cup Permutations(Events)
=============================================================================

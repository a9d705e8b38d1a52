------------------------------ MODULE NodeView ------------------------------
(***************************************************************************)
(* What the node manager promises the pod controller about one node name.  *)
(* A pod event asks GetNode for the node and acts on the answer: retry     *)
(* while the node is unknown or initializing, ignore the pod when it is    *)
(* unmanaged, hand the pod to the resource providers when it is ready      *)
(* (pod_controller.go).  The answers may change only along these steps; in *)
(* particular a node becomes ready only out of an initialization that      *)
(* every reader could see, and is never initialized again while it is      *)
(* known to be ready.                                                      *)
(***************************************************************************)
VARIABLE view

Unknown == "unknown"
Unmanaged == "unmanaged"
Initializing == "initializing"
Ready == "ready"

Init == view = Unknown

Add == view = Unknown /\ view' \in {Unmanaged, Initializing}

Select == view = Unmanaged /\ view' = Initializing

BecomeReady == view = Initializing /\ view' = Ready

Deselect == view \in {Initializing, Ready} /\ view' = Unmanaged

Forget == view # Unknown /\ view' = Unknown

Next == Add \/ Select \/ BecomeReady \/ Deselect \/ Forget

Spec == Init /\ [][Next]_view
=============================================================================

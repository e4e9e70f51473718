---------------------------- MODULE MCEventUpload ----------------------------
(* EventUpload with one fault of each kind, and two refusals. *)
EXTENDS EventUpload

FewFaults == [k \in Kinds |-> IF k = "refused" THEN 2 ELSE 1]
=============================================================================

----------------------------- MODULE MCAuditPath -----------------------------
(***************************************************************************)
(* An instance of AuditPath for TLC: an audit, a text and a blocked chat. *)
(***************************************************************************)
EXTENDS AuditPath

Kinds == <<"audit", "text", "dropped">>
MCKind == [u \in Updates |-> Kinds[u]]
=============================================================================

----------------------------- MODULE MCApprovals -----------------------------
(***************************************************************************)
(* Approvals for TLC: an invoice and a trip, two approvers and a clerk, and    *)
(* two sessions of which one still runs the earlier policy version.        *)
(***************************************************************************)
EXTENDS Approvals

MCWorkflow == [inv |-> "ap_invoice", trip |-> "travel_authorization"]
MCRole == [ann |-> "supervisor", bob |-> "project_manager", eve |-> "clerk"]
MCVersion == [s1 |-> 1, s2 |-> 2]
=============================================================================

------------------------------ MODULE AuditLog ------------------------------
(***************************************************************************)
(* What the audit trail promises its readers (get_trace, the auditors):    *)
(* a sequence of recorded facts that only ever grows at its end.  A        *)
(* transaction publishes all of the facts it recorded, in the order it     *)
(* recorded them, in one step; nothing published is reordered, rewritten   *)
(* or removed.  AuditChain is shown to implement this specification.       *)
(***************************************************************************)
EXTENDS Sequences, Naturals

CONSTANT Content           \* the facts an audit row can record

VARIABLE chain             \* the published facts, oldest first

Init == chain = <<>>

\* A commit publishes one or more facts behind everything already published.
Publish ==
    /\ chain' \in Seq(Content)
    /\ Len(chain') > Len(chain)
    /\ SubSeq(chain', 1, Len(chain)) = chain

Next == Publish

Spec == Init /\ [][Next]_chain
=============================================================================

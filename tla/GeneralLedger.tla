--------------------------- MODULE GeneralLedger ---------------------------
(***************************************************************************)
(* What the kernel promises of the journal: an append-only list of entries *)
(* in which one atomic step posts a business event to every ledger, or     *)
(* reverses one entry.  No session, no transaction and no lock.            *)
(***************************************************************************)
EXTENDS Naturals, FiniteSets

CONSTANTS Event, Ledger, Period, None

VARIABLE journal    \* the posted entries

\* The entry numbered n: `of` is the number of the entry it reverses, or 0.
Entry(n, e, l, p, of) ==
    [seq |-> n, event |-> e, ledger |-> l, period |-> p, of |-> of]

Size == Cardinality(journal)

Init == journal = {}

\* One entry per ledger, numbered after all the others, in some order.
PostToAll(e, p) ==
    /\ \A r \in journal : r.event # e
    /\ \E no \in [Ledger -> Size + 1 .. Size + Cardinality(Ledger)] :
        /\ \A k, l \in Ledger : no[k] = no[l] => k = l
        /\ journal' = journal \cup {Entry(no[l], e, l, p, 0) : l \in Ledger}

\* One entry against an entry nobody has reversed, in the ledger of that one.
Reverse(r, p) ==
    /\ \A q \in journal : q.of # r.seq
    /\ journal' = journal \cup {Entry(Size + 1, None, r.ledger, p, r.seq)}

Next ==
    \/ \E e \in Event, p \in Period : PostToAll(e, p)
    \/ \E r \in journal, p \in Period : Reverse(r, p)

Spec == Init /\ [][Next]_journal
=============================================================================

--------------------------- MODULE EvidenceLedger ---------------------------
(***************************************************************************)
(* What the event pipeline promises about evidence, whatever is uploaded   *)
(* again, runs at the same time or crashes: a ledger of events that are    *)
(* told apart by their identity.  An event enters the ledger at most once, *)
(* never leaves it, and is credited to at most one account (an alert), in  *)
(* the very step that records it.  There is no half of such a step.        *)
(***************************************************************************)
CONSTANTS
    Account,             \* what events are credited to
    SameIdentity(_, _)   \* whether two events are one and the same

VARIABLES
    ledger,   \* the events recorded
    tally     \* account -> the events credited to it

Init ==
    /\ ledger = {}
    /\ tally = [a \in Account |-> {}]

New(e) == \A f \in ledger : ~SameIdentity(e, f) /\ ~SameIdentity(f, e)

\* The event is stored and credited to nobody.
Record(e) ==
    /\ New(e)
    /\ ledger' = ledger \cup {e}
    /\ UNCHANGED tally

\* The event is stored and credited to account a, at once.
Credit(e, a) ==
    /\ New(e)
    /\ ledger' = ledger \cup {e}
    /\ tally' = [tally EXCEPT ![a] = @ \cup {e}]

\* The event of a step is the one the ledger grows by.
Next == \E e \in ledger' \ ledger : Record(e) \/ \E a \in Account : Credit(e, a)

Spec == Init /\ [][Next]_<<ledger, tally>>
=============================================================================

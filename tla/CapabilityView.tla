------------------------------ MODULE CapabilityView ------------------------------
(***************************************************************************)
(* What DiddiFreeID may show of a driver: a status that DiddiGo has         *)
(* published, and never an older one after a newer one.  Statuses may be    *)
(* skipped.                                                                 *)
(***************************************************************************)
EXTENDS Naturals, Sequences

CONSTANT Users

VARIABLES
    published,  \* of each user, the statuses in the order they were published
    seen        \* how many of them the status on show is ahead of, itself included

Init ==
    /\ published = [u \in Users |-> <<>>]
    /\ seen = [u \in Users |-> 0]

Publish(u) ==
    /\ Len(published'[u]) = Len(published[u]) + 1
    /\ \A i \in 1 .. Len(published[u]) : published'[u][i] = published[u][i]
    /\ seen'[u] = seen[u]

Show(u) ==
    /\ published'[u] = published[u]
    /\ seen'[u] \in seen[u] + 1 .. Len(published[u])

Same(u) == published'[u] = published[u] /\ seen'[u] = seen[u]

Next == \A u \in Users : Publish(u) \/ Show(u) \/ Same(u)

Spec == Init /\ [][Next]_<<published, seen>>
=============================================================================

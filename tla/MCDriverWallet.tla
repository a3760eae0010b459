---------------------------- MODULE MCDriverWallet ----------------------------
(***************************************************************************)
(* DriverWallet on one driver, with the amounts TLC uses, and the property  *)
(* that needs a sum over the ledger.                                        *)
(***************************************************************************)
EXTENDS DriverWallet, FiniteSetsExt, TLC

CONSTANTS d1

MCOwner == [r \in Refs |-> d1]
\* A withdrawal is as large as a top-up, so that funds run short.
MCAmount == [r \in Refs |-> IF r \in CashRides THEN 1 ELSE 2]
OpeningZero == [d \in Drivers |-> 0]
OpeningThree == [d \in Drivers |-> 3]

\* Signed effect of an entry on the balance: the debit written when a payout
\* succeeds is informative, the amount has left with the reservation.
EntryEffect(e) ==
    CASE e[2] = "settled"  -> Effect(e[1])
      [] e[2] = "reserved" -> -Amount[e[1]]
      [] e[2] = "released" -> Amount[e[1]]
      [] OTHER             -> 0

\* The balance of a driver is the sum of the driver's ledger.
BalanceIsLedgerSum ==
    \A d \in Drivers :
        wallet[d] = Opening[d] + MapThenSumSet(EntryEffect, {e \in ledger : Owner[e[1]] = d})

SessionSymmetry == Permutations(Sessions)
=============================================================================

--------------------------- MODULE DriverWalletProofs ---------------------------
(***************************************************************************)
(* Proofs about DriverWallet, for any sessions, drivers and references.     *)
(***************************************************************************)
EXTENDS DriverWallet, TLAPS

\* The initial state has its types.
LEMMA TypeInit == Init => TypeOK
BY ConstantsAssumption DEF Init, TypeOK, NoDraft, NoWalletDraft, Actors, Steps, Backs,
   Statuses, Remotes, Final, Remote

\* A row written by a session keeps its type.
LEMMA WriteRowType ==
  ASSUME TypeOK, NEW s \in Actors, NEW r \in Refs, NEW st \in Statuses,
         NEW posts \in SUBSET Kinds, WriteRow(s, r, st, posts)
  PROVE  draft' \in [Refs -> [by : Actors \cup {Nobody}, status : Statuses, posts : SUBSET Kinds]]
BY DEF TypeOK, WriteRow, Posts

\* Every step keeps the types: one step of the proof for each action.
LEMMA TypeNext == TypeOK /\ [Next]_vars => TypeOK'
<1> SUFFICES ASSUME TypeOK, [Next]_vars PROVE TypeOK'
  OBVIOUS
<1> USE ConstantsAssumption
       DEF TypeOK, db, task, Steps, Backs, Statuses, Final, Refs, Settlements, Remote
<1>1. ASSUME NEW s \in Actors, NEW t \in Topups, CreateTopup(s, t) PROVE TypeOK'
  BY <1>1 DEF CreateTopup, Apply, Goto, Answered, Remotes
<1>2. ASSUME NEW s \in Actors, NEW e \in Events, Webhook(s, e) PROVE TypeOK'
  BY <1>2 DEF Webhook, Apply, Goto, Answered, Events, Target
<1>3. ASSUME NEW s \in Actors, NEW r \in CashRides, ConfirmCash(s, r) PROVE TypeOK'
  BY <1>3 DEF ConfirmCash, Apply, Goto
<1>4. ASSUME NEW s \in Actors, NEW r \in Remote, AdminReconcile(s, r) PROVE TypeOK'
  BY <1>4 DEF AdminReconcile, Apply, Goto, Answered, Target
<1>5. ASSUME NEW s \in Actors, NEW q \in Quotes, RequestWithdrawal(s, q) PROVE TypeOK'
  BY <1>5 DEF RequestWithdrawal, Goto
<1>6. ASSUME NEW s \in Actors, MarkSettlement(s) PROVE TypeOK'
  <2>1. draft' \in [Refs -> [by : Actors \cup {Nobody}, status : Statuses, posts : SUBSET Kinds]]
    BY <1>6, WriteRowType DEF MarkSettlement, Kinds
  <2> QED  BY <1>6, <2>1 DEF MarkSettlement, Goto
<1>7. ASSUME NEW s \in Actors, ReadWallet(s) PROVE TypeOK'
  BY <1>7 DEF ReadWallet, Balance, Goto
<1>8. ASSUME NEW s \in Actors, WriteWallet(s) PROVE TypeOK'
  BY <1>8 DEF WriteWallet, SetBalance, Effect, Goto
<1>9. ASSUME NEW s \in Actors, MarkWithdrawal(s) PROVE TypeOK'
  <2>1. draft' \in [Refs -> [by : Actors \cup {Nobody}, status : Statuses, posts : SUBSET Kinds]]
    BY <1>9, WriteRowType DEF MarkWithdrawal, RowStatus, Kinds
  <2> QED  BY <1>9, <2>1 DEF MarkWithdrawal, Goto
<1>10. ASSUME NEW s \in Actors, Refund(s) PROVE TypeOK'
  BY <1>10 DEF Refund, SetBalance, Balance, Goto
<1>11. ASSUME NEW s \in Actors, LockQuote(s) PROVE TypeOK'
  BY <1>11 DEF LockQuote, WriteRow, Posts, Goto
<1>12. ASSUME NEW s \in Actors, ReserveFunds(s) PROVE TypeOK'
  <2>1. draft' \in [Refs -> [by : Actors \cup {Nobody}, status : Statuses, posts : SUBSET Kinds]]
    BY <1>12, WriteRowType DEF ReserveFunds, Kinds
  <2> QED  BY <1>12, <2>1 DEF ReserveFunds, SetBalance, Balance, Goto
<1>13. ASSUME NEW s \in Actors, RefuseWithdrawal(s) PROVE TypeOK'
  BY <1>13 DEF RefuseWithdrawal, Rollback, Release, Reset, Goto, NoDraft, NoWalletDraft
<1>14. ASSUME NEW s \in Actors, SendPayout(s) PROVE TypeOK'
  BY <1>14 DEF SendPayout, Goto, Remotes
<1>15. ASSUME NEW s \in Actors, PayoutReply(s) PROVE TypeOK'
  BY <1>15 DEF PayoutReply, Apply, Goto, Target, Answered
<1>16. ASSUME NEW s \in Actors, PayoutTimeout(s) PROVE TypeOK'
  BY <1>16 DEF PayoutTimeout, Reset, Goto
<1>17. ASSUME NEW s \in Actors, BeginSweep(s) PROVE TypeOK'
  BY <1>17 DEF BeginSweep, Goto, Remote
<1>18. ASSUME NEW s \in Actors, NEW r \in Remote, SweepRow(s, r) PROVE TypeOK'
  <2>1. CASE News(r)
    <3>1. Target(r, provider[r]) \in Statuses
      BY <2>1 DEF News, Target, Answered
    <3>2. SweepStep(r) \in Backs
      BY DEF SweepStep
    <3>3. Apply(s, r, Target(r, provider[r]), SweepStep(r)) /\ todo' = [todo EXCEPT ![s] = @ \ {r}]
          /\ UNCHANGED <<db, provider, event, seen, faults>>
      BY <1>18, <2>1 DEF SweepRow
    <3> QED  BY <3>1, <3>2, <3>3 DEF Apply, Goto
  <2>2. CASE ~News(r)
    BY <1>18, <2>2 DEF SweepRow
  <2> QED  BY <2>1, <2>2
<1>19. ASSUME NEW s \in Actors, NEW r \in Remote, SkipRow(s, r) PROVE TypeOK'
  BY <1>19 DEF SkipRow
<1>20. ASSUME NEW s \in Actors, ListWithdrawals(s) PROVE TypeOK'
  BY <1>20 DEF ListWithdrawals, Goto, Remote
<1>21. ASSUME NEW s \in Actors, SweepDone(s) PROVE TypeOK'
  BY <1>21 DEF SweepDone, Goto
<1>22. ASSUME NEW s \in Actors, Commit(s) PROVE TypeOK'
  BY <1>22 DEF Commit, Publish, Release, Reset, Goto, Balance, RowStatus, Posts, NoDraft,
       NoWalletDraft
<1>23. ASSUME NEW s \in Actors, CommitReservation(s) PROVE TypeOK'
  BY <1>23 DEF CommitReservation, Publish, Release, Goto, Balance, RowStatus, Posts,
       NoDraft, NoWalletDraft
<1>24. ASSUME NEW s \in Actors, Abort(s) PROVE TypeOK'
  BY <1>24 DEF Abort, Rollback, Release, Reset, Goto, NoDraft, NoWalletDraft
<1>25. ASSUME NEW s \in Actors, DeadlockAbort(s) PROVE TypeOK'
  BY <1>25 DEF DeadlockAbort, Rollback, Release, Reset, Goto, NoDraft, NoWalletDraft
<1>26. ASSUME NEW q \in Quotes, DecidePayout(q) PROVE TypeOK'
  BY <1>26 DEF DecidePayout, Remotes
<1>27. ASSUME NEW r \in Remote, Conclude(r) PROVE TypeOK'
  BY <1>27 DEF Conclude, Remotes
<1>28. CASE UNCHANGED vars
  BY <1>28 DEF vars
<1> QED
  BY <1>1, <1>2, <1>3, <1>4, <1>5, <1>6, <1>7, <1>8, <1>9, <1>10, <1>11, <1>12, <1>13,
       <1>14, <1>15, <1>16, <1>17, <1>18, <1>19, <1>20, <1>21, <1>22, <1>23, <1>24, <1>25,
       <1>26, <1>27, <1>28
  DEF Next, Start, Continue, Fail, Diddipay, Actors

----------------------------------------------------------------------------
(***************************************************************************)
(* The inductive invariant.  What the properties say of committed rows is   *)
(* not inductive: it has to hold of the drafts that will become committed   *)
(* rows, which is where the row locks and what each step knows come in.     *)
(***************************************************************************)

\* Outside a transaction a session holds nothing; before ReserveFunds it
\* holds no wallet.
Unlocked ==
    \A s \in Actors :
        /\ pc[s] \in {"idle", "reserve", "send", "await"} => \A r \in Refs : draft[r].by # s
        /\ pc[s] \in {"idle", "reserve", "reserveWallet", "send", "await"}
              => \A d \in Drivers : walletDraft[d].by # s

\* What a session knows of the withdrawals it works on.
Knows(s) ==
    /\ pc[s] = "reserveWallet" => draft[job[s]].by = s /\ draft[job[s]].status = "none"
    /\ pc[s] = "commitReserve" => draft[job[s]].by = s /\ draft[job[s]].status # "none"
    /\ pc[s] \in {"send", "await"} => <<job[s], "reserved">> \in ledger
    /\ pc[s] = "claim" /\ job[s] \in Quotes =>
          /\ <<job[s], "reserved">> \in ledger
          /\ target[s] \in {"processing"} \cup Final
          /\ target[s] = "released" => provider[job[s]] \in {"rejected", "failed"}
    /\ \A q \in todo[s] \cap Quotes : <<q, "reserved">> \in ledger
    /\ pc[s] \in {"claim", "read", "write", "refund"} => back[s] # "idle"

Knowledge == \A s \in Actors : Knows(s)

\* A draft of a withdrawal is as coherent as a committed one, and never
\* undoes a final status.
DraftLedger ==
    \A q \in Quotes : draft[q].by # Nobody =>
        /\ (<<q, "reserved">> \in ledger \/ "reserved" \in draft[q].posts)
              <=> (draft[q].status # "none")
        /\ \A st \in Final :
              (<<q, st>> \in ledger \/ st \in draft[q].posts) <=> (draft[q].status = st)
        /\ status[q] \in Final => draft[q].status = status[q]
        /\ draft[q].status = "released" => provider[q] \in {"rejected", "failed"}

DraftPaid ==
    \A r \in Settlements :
        draft[r].by # Nobody /\ draft[r].status \in {"succeeded", "collected"}
            => <<r, "settled">> \in ledger \/ "settled" \in draft[r].posts

\* The draft of a reservation goes with the draft of the wallet it is taken from.
DraftCovered ==
    \A q \in Quotes : \A s \in Actors :
        draft[q].by = s /\ "reserved" \in draft[q].posts =>
            /\ pc[s] = "commitReserve"
            /\ walletDraft[Owner[q]].by = s
            /\ walletDraft[Owner[q]].balance = wallet[Owner[q]] - Amount[q]
            /\ walletDraft[Owner[q]].balance >= 0

\* What holds of committed rows, and changes with a commit only.
Committed == WithdrawalLedger /\ PaidIsPosted

IInv ==
    /\ Unlocked /\ Knowledge /\ DraftLedger /\ DraftPaid /\ DraftCovered
    /\ Committed /\ PayoutNeedsReservation /\ ReleasedIsNotPaidOut

\* Committed balances, statuses and entries change with a commit only.
LEMMA OnlyCommitsPublish ==
  ASSUME [Next]_vars
  PROVE  (\E s \in Actors : Publish(s)) \/ UNCHANGED <<wallet, status, ledger>>
<1>1. CASE UNCHANGED vars
  BY <1>1 DEF vars, db
<1>2. ASSUME NEW s \in Sessions, Start(s)  PROVE UNCHANGED <<wallet, status, ledger>>
  BY <1>2 DEF Start, CreateTopup, Webhook, ConfirmCash, AdminReconcile, RequestWithdrawal, db
<1>3. ASSUME BeginSweep(Sweeper)  PROVE UNCHANGED <<wallet, status, ledger>>
  BY <1>3 DEF BeginSweep, db
<1>4. ASSUME NEW s \in Actors, Continue(s)
      PROVE  Publish(s) \/ UNCHANGED <<wallet, status, ledger>>
  <2>1. CASE MarkSettlement(s) \/ ReadWallet(s) \/ WriteWallet(s) \/ MarkWithdrawal(s) \/ Refund(s)
    BY <2>1 DEF MarkSettlement, ReadWallet, WriteWallet, MarkWithdrawal, Refund, db
  <2>2. CASE LockQuote(s) \/ ReserveFunds(s) \/ RefuseWithdrawal(s) \/ DeadlockAbort(s)
    BY <2>2 DEF LockQuote, ReserveFunds, RefuseWithdrawal, DeadlockAbort, Rollback, db
  <2>3. CASE SendPayout(s) \/ PayoutReply(s) \/ PayoutTimeout(s) \/ ListWithdrawals(s) \/ SweepDone(s)
    BY <2>3 DEF SendPayout, PayoutReply, PayoutTimeout, ListWithdrawals, SweepDone, db
  <2>4. CASE \E r \in Remote : SweepRow(s, r)
    BY <2>4 DEF SweepRow, db
  <2>5. CASE Commit(s) \/ CommitReservation(s)
    BY <2>5 DEF Commit, CommitReservation
  <2> QED BY <1>4, <2>1, <2>2, <2>3, <2>4, <2>5 DEF Continue
<1>5. ASSUME NEW s \in Actors, Fail(s)  PROVE UNCHANGED <<wallet, status, ledger>>
  BY <1>5 DEF Fail, Abort, SkipRow, Rollback, db
<1>6. ASSUME Diddipay  PROVE UNCHANGED <<wallet, status, ledger>>
  BY <1>6 DEF Diddipay, DecidePayout, Conclude, db
<1> QED BY <1>1, <1>2, <1>3, <1>4, <1>5, <1>6 DEF Next

\* What a commit makes of a row: the session's draft, if it holds one.
LEMMA PublishRow ==
  ASSUME TypeOK, NEW s \in Actors, Publish(s), NEW r \in Refs
  PROVE  /\ status'[r] = IF draft[r].by = s THEN draft[r].status ELSE status[r]
         /\ draft'[r] = IF draft[r].by = s THEN NoDraft ELSE draft[r]
BY DEF Publish, RowStatus, Release

\* What a commit adds to the ledger: the entries of the session's drafts.
LEMMA PublishEntry ==
  ASSUME NEW s \in Actors, Publish(s), NEW r \in Refs, NEW k \in Kinds
  PROVE  (<<r, k>> \in ledger')
            <=> (<<r, k>> \in ledger \/ (draft[r].by = s /\ k \in draft[r].posts))
<1>1. <<r, k>> \in {e \in Refs \X Kinds : e[2] \in Posts(s, e[1])} <=> k \in Posts(s, r)
  OBVIOUS
<1>2. k \in Posts(s, r) <=> (draft[r].by = s /\ k \in draft[r].posts)
  BY DEF Posts
<1> QED BY <1>1, <1>2 DEF Publish

\* Committed rows stay coherent because the drafts they come from are.
LEMMA CommittedNext ==
  ASSUME TypeOK, IInv, [Next]_vars  PROVE Committed'
<1>1. CASE UNCHANGED <<wallet, status, ledger>>
  BY <1>1 DEF IInv, Committed, WithdrawalLedger, PaidIsPosted
<1>2. ASSUME NEW s \in Actors, Publish(s)  PROVE Committed'
  <2>1. s # Nobody
    BY ConstantsAssumption
  <2>2. ASSUME NEW q \in Quotes
        PROVE  /\ (<<q, "reserved">> \in ledger') <=> (status'[q] # "none")
               /\ \A st \in Final : (<<q, st>> \in ledger') <=> (status'[q] = st)
    <3>1. q \in Refs
      BY DEF Refs
    <3>2. \A k \in Kinds : (<<q, k>> \in ledger')
             <=> (<<q, k>> \in ledger \/ (draft[q].by = s /\ k \in draft[q].posts))
      BY <1>2, <3>1, PublishEntry
    <3>3. "reserved" \in Kinds /\ Final \subseteq Kinds
      BY DEF Kinds, Final
    <3>4. CASE draft[q].by = s
      <4>1. status'[q] = draft[q].status
        BY <1>2, <3>1, <3>4, PublishRow
      <4>2. DraftLedger
        BY DEF IInv
      <4> QED BY <2>1, <3>2, <3>3, <3>4, <4>1, <4>2 DEF DraftLedger
    <3>5. CASE draft[q].by # s
      <4>1. status'[q] = status[q]
        BY <1>2, <3>1, <3>5, PublishRow
      <4>2. WithdrawalLedger
        BY DEF IInv, Committed
      <4> QED BY <3>2, <3>3, <3>5, <4>1, <4>2 DEF WithdrawalLedger
    <3> QED BY <3>4, <3>5
  <2>3. ASSUME NEW r \in Settlements, status'[r] \in {"succeeded", "collected"}
        PROVE  <<r, "settled">> \in ledger'
    <3>1. r \in Refs /\ "settled" \in Kinds
      BY DEF Refs, Kinds
    <3>2. (<<r, "settled">> \in ledger')
             <=> (<<r, "settled">> \in ledger \/ (draft[r].by = s /\ "settled" \in draft[r].posts))
      BY <1>2, <3>1, PublishEntry
    <3>3. status'[r] = IF draft[r].by = s THEN draft[r].status ELSE status[r]
      BY <1>2, <3>1, PublishRow
    <3>4. DraftPaid /\ PaidIsPosted
      BY DEF IInv, Committed
    <3> QED BY <2>1, <2>3, <3>2, <3>3, <3>4 DEF DraftPaid, PaidIsPosted
  <2> QED BY <2>2, <2>3 DEF Committed, WithdrawalLedger, PaidIsPosted
<1> QED  BY <1>1, <1>2, OnlyCommitsPublish

\* Goto moves one session.
LEMMA GotoEffect ==
  ASSUME TypeOK, NEW s \in Actors, NEW step, Goto(s, step)
  PROVE  pc'[s] = step /\ \A u \in Actors : u # s => pc'[u] = pc[u]
BY DEF TypeOK, Goto

\* WriteRow changes one row.
LEMMA WriteRowEffect ==
  ASSUME TypeOK, NEW s \in Actors, NEW r \in Refs, NEW st, NEW posts, WriteRow(s, r, st, posts)
  PROVE  /\ draft'[r].by = s /\ draft'[r].status = st
         /\ draft'[r].posts = (IF draft[r].by = s THEN draft[r].posts ELSE {}) \cup posts
         /\ \A x \in Refs : x # r => draft'[x] = draft[x]
BY DEF TypeOK, WriteRow, Posts

\* A write without an entry keeps the entries the session has already posted.
LEMMA WriteStatusEffect ==
  ASSUME TypeOK, NEW s \in Actors, NEW r \in Refs, NEW st, WriteRow(s, r, st, {})
  PROVE  /\ draft'[r].by = s /\ draft'[r].status = st
         /\ draft'[r].posts = IF draft[r].by = s THEN draft[r].posts ELSE {}
         /\ \A x \in Refs : x # r => draft'[x] = draft[x]
BY DEF TypeOK, WriteRow, Posts

\* SetBalance changes one wallet.
LEMMA SetBalanceEffect ==
  ASSUME TypeOK, NEW s \in Actors, NEW d \in Drivers, NEW amount, SetBalance(s, d, amount)
  PROVE  /\ walletDraft'[d].by = s /\ walletDraft'[d].balance = amount
         /\ \A x \in Drivers : x # d => walletDraft'[x] = walletDraft[x]
BY DEF TypeOK, SetBalance

\* The other sessions keep what they know when their drafts are left alone.
LEMMA OthersKnow ==
  ASSUME TypeOK, IInv, NEW u \in Actors, ledger \subseteq ledger',
         UNCHANGED <<pc[u], job[u], target[u], back[u], todo[u]>>,
         \A r \in Refs : draft[r].by = u => draft'[r] = draft[r],
         \A q \in Quotes : provider[q] \in {"rejected", "failed"} => provider'[q] = provider[q]
  PROVE  Knows(u)'
<1>1. Knows(u)
  BY DEF IInv, Knowledge
<1>2. pc[u] \in {"reserveWallet", "commitReserve"} => job[u] \in Refs
  BY DEF TypeOK, Refs
<1> QED  BY <1>1, <1>2 DEF Knows

\* Marking a top-up or a cash ride says nothing of withdrawals.
LEMMA MarkSettlementInv ==
  ASSUME TypeOK, IInv, NEW s \in Actors, MarkSettlement(s) PROVE Unlocked' /\ Knowledge'
<1> DEFINE r == job[s]
<1>1. r \in Refs /\ r \notin Quotes
  BY ConstantsAssumption DEF MarkSettlement, Refs, Settlements
<1>2. /\ pc[s] = "claim" /\ back[s] # "idle" /\ back[s] \in Backs
      /\ UNCHANGED <<walletDraft, ledger, provider, job, target, back, todo>>
  BY DEF MarkSettlement, IInv, Knowledge, Knows, TypeOK, task
<1>3. /\ draft'[r].by = s /\ \A x \in Refs : x # r => draft'[x] = draft[x]
  BY <1>1, WriteRowEffect DEF MarkSettlement
<1>4. /\ pc'[s] \in {"read", "commit", "sweepTopups", "sweepWithdrawals"}
      /\ \A u \in Actors : u # s => pc'[u] = pc[u]
  BY <1>2, GotoEffect DEF MarkSettlement, Backs
<1>5. \A u \in Actors : u # s => draft[r].by # u
  BY ConstantsAssumption DEF MarkSettlement, RowFree
<1>6. Unlocked'
  BY <1>2, <1>3, <1>4 DEF IInv, Unlocked
<1>7. ASSUME NEW u \in Actors PROVE Knows(u)'
  <2>1. CASE u = s
    BY <2>1, <1>2, <1>4 DEF IInv, Knowledge, Knows
  <2>2. CASE u # s
    BY <2>2, <1>2, <1>3, <1>4, <1>5, OthersKnow
  <2> QED BY <2>1, <2>2
<1> QED BY <1>6, <1>7 DEF Knowledge

\* WriteWallet and Refund differ in the amount alone.
LEMMA WalletWriteInv ==
  ASSUME TypeOK, IInv, NEW s \in Actors, pc[s] \in {"write", "refund"}, job[s] \in Refs,
         NEW amount, SetBalance(s, Owner[job[s]], amount), Goto(s, back[s]),
         UNCHANGED <<ledger, draft, provider, job, target, back, todo>>
  PROVE  Unlocked' /\ Knowledge'
<1>1. /\ back[s] # "idle" /\ back[s] \in Backs
  BY DEF IInv, Knowledge, Knows, TypeOK
<1>2. Owner[job[s]] \in Drivers
  BY ConstantsAssumption
<1>3. \A d \in Drivers : walletDraft'[d].by = s \/ walletDraft'[d] = walletDraft[d]
  BY <1>2, SetBalanceEffect
<1>4. /\ pc'[s] \in {"commit", "sweepTopups", "sweepWithdrawals"}
      /\ \A u \in Actors : u # s => pc'[u] = pc[u]
  BY <1>1, GotoEffect DEF Backs
<1>5. Unlocked'
  BY <1>3, <1>4 DEF IInv, Unlocked
<1>6. ASSUME NEW u \in Actors PROVE Knows(u)'
  <2>1. CASE u = s
    BY <2>1, <1>4 DEF IInv, Knowledge, Knows
  <2>2. CASE u # s
    BY <2>2, <1>4, OthersKnow
  <2> QED BY <2>1, <2>2
<1> QED BY <1>5, <1>6 DEF Knowledge

\* A marked withdrawal is coherent: the row lock makes RowStatus current.
LEMMA MarkWithdrawalInv ==
  ASSUME TypeOK, IInv, NEW s \in Actors, MarkWithdrawal(s)
  PROVE Unlocked' /\ Knowledge' /\ DraftLedger' /\ DraftPaid' /\ DraftCovered'
<1> DEFINE q == job[s]
<1>1. q \in Refs /\ q \in Quotes /\ q \notin Settlements
  BY ConstantsAssumption DEF MarkWithdrawal, Refs
<1>2. /\ pc[s] = "claim" /\ back[s] # "idle" /\ back[s] \in Backs
      /\ <<q, "reserved">> \in ledger
      /\ target[s] \in {"processing"} \cup Final
      /\ target[s] = "released" => provider[q] \in {"rejected", "failed"}
      /\ UNCHANGED <<wallet, walletDraft, status, ledger, provider, job, target, back, todo>>
  BY <1>1 DEF MarkWithdrawal, IInv, Knowledge, Knows, TypeOK, task
<1>3. /\ draft'[q].by = s /\ \A x \in Refs : x # q => draft'[x] = draft[x]
      /\ RowStatus(s, q) \in Final =>
            /\ draft'[q].status = RowStatus(s, q)
            /\ draft'[q].posts = (IF draft[q].by = s THEN draft[q].posts ELSE {})
      /\ RowStatus(s, q) \notin Final =>
            /\ draft'[q].status = target[s]
            /\ draft'[q].posts = (IF draft[q].by = s THEN draft[q].posts ELSE {})
                                   \cup ({target[s]} \cap Final)
  <2>1. CASE RowStatus(s, q) \in Final
    <3>1. WriteRow(s, q, RowStatus(s, q), {})
      BY <2>1 DEF MarkWithdrawal, Ended
    <3> QED BY <2>1, <3>1, <1>1, WriteStatusEffect
  <2>2. CASE RowStatus(s, q) \notin Final
    <3>1. WriteRow(s, q, target[s], {target[s]} \cap Final)
      BY <2>2 DEF MarkWithdrawal, Ended
    <3> QED BY <2>2, <3>1, <1>1, WriteRowEffect
  <2> QED BY <2>1, <2>2
<1>4. /\ pc'[s] \in {"refund", "commit", "sweepTopups", "sweepWithdrawals"}
      /\ \A u \in Actors : u # s => pc'[u] = pc[u]
  BY <1>2, GotoEffect DEF MarkWithdrawal, Backs
<1>5. \A u \in Actors : u # s => draft[q].by # u
  BY ConstantsAssumption DEF MarkWithdrawal, RowFree
<1>6. Unlocked'
  BY <1>2, <1>3, <1>4 DEF IInv, Unlocked
<1>7. ASSUME NEW u \in Actors PROVE Knows(u)'
  <2>1. CASE u = s
    BY <2>1, <1>2, <1>4 DEF IInv, Knowledge, Knows
  <2>2. CASE u # s
    BY <2>2, <1>2, <1>3, <1>4, <1>5, OthersKnow
  <2> QED BY <2>1, <2>2
<1>8. DraftLedger'
  <2> SUFFICES ASSUME NEW x \in Quotes, draft'[x].by # Nobody
               PROVE /\ (<<x, "reserved">> \in ledger \/ "reserved" \in draft'[x].posts)
                          <=> (draft'[x].status # "none")
                     /\ \A st \in Final :
                          (<<x, st>> \in ledger \/ st \in draft'[x].posts) <=> (draft'[x].status = st)
                     /\ status[x] \in Final => draft'[x].status = status[x]
                     /\ draft'[x].status = "released" => provider[x] \in {"rejected", "failed"}
    BY <1>2 DEF DraftLedger
  <2>1. CASE x # q
    <3>1. x \in Refs
      BY DEF Refs
    <3> QED BY <2>1, <3>1, <1>3 DEF IInv, DraftLedger
  <2>2. CASE x = q
    <3>1. s # Nobody
      BY ConstantsAssumption
    <3>2. CASE draft[q].by = s
      <4>1. /\ RowStatus(s, q) = draft[q].status
            /\ (<<q, "reserved">> \in ledger \/ "reserved" \in draft[q].posts)
                  <=> (draft[q].status # "none")
            /\ \A st \in Final : (<<q, st>> \in ledger \/ st \in draft[q].posts) <=> (draft[q].status = st)
            /\ status[q] \in Final => draft[q].status = status[q]
            /\ draft[q].status = "released" => provider[q] \in {"rejected", "failed"}
        BY <3>1, <3>2, <1>1 DEF IInv, DraftLedger, RowStatus
      <4> HIDE DEF q
      <4> QED BY <2>2, <3>2, <4>1, <1>2, <1>3 DEF Final
    <3>3. CASE draft[q].by # s
      BY <2>2, <3>3, <1>1, <1>2, <1>3 DEF IInv, Committed, WithdrawalLedger,
           ReleasedIsNotPaidOut, RowStatus, Final
    <3> QED BY <3>2, <3>3
  <2> QED BY <2>1, <2>2
<1>9. DraftPaid'
  BY <1>1, <1>2, <1>3 DEF IInv, DraftPaid, Refs
<1>10. DraftCovered'
  <2> SUFFICES ASSUME NEW x \in Quotes, NEW u \in Actors,
                      draft'[x].by = u, "reserved" \in draft'[x].posts
               PROVE  /\ pc'[u] = "commitReserve"
                      /\ walletDraft[Owner[x]].by = u
                      /\ walletDraft[Owner[x]].balance = wallet[Owner[x]] - Amount[x]
                      /\ walletDraft[Owner[x]].balance >= 0
    BY <1>2 DEF DraftCovered
  <2>1. CASE x = q
    <3>1. "reserved" \in draft[q].posts /\ draft[q].by = s
      BY <2>1, <1>3 DEF Final
    <3> QED BY <3>1, <1>1, <1>2 DEF IInv, DraftCovered
  <2>2. CASE x # q
    <3>1. draft'[x] = draft[x]
      BY <2>2, <1>3 DEF Refs
    <3>2. pc[u] = "commitReserve" /\ u # s
      BY <3>1, <1>2 DEF IInv, DraftCovered
    <3> QED BY <3>1, <3>2, <1>4 DEF IInv, DraftCovered
  <2> QED BY <2>1, <2>2
<1> QED BY <1>6, <1>7, <1>8, <1>9, <1>10 DEF Knowledge

\* Locking a quote copies the committed row, which is coherent.
LEMMA LockQuoteInv ==
  ASSUME TypeOK, IInv, NEW s \in Actors, LockQuote(s) PROVE DraftLedger'
<1> DEFINE q == job[s]
<1>1. pc[s] = "reserve" /\ q \in Quotes /\ q \in Refs
  BY DEF LockQuote, TypeOK, Refs
<1>2. UNCHANGED <<status, ledger, provider>>
  BY DEF LockQuote
<1>3. draft[q].by # s
  BY <1>1 DEF IInv, Unlocked
<1>4. /\ draft'[q].status = status[q] /\ draft'[q].posts = {}
      /\ \A x \in Refs : x # q => draft'[x] = draft[x]
  <2>1. WriteRow(s, q, status[q], {})
    BY DEF LockQuote
  <2> QED BY <2>1, <1>1, <1>3, WriteRowEffect
<1>5. ASSUME NEW x \in Quotes, draft'[x].by # Nobody
      PROVE /\ (<<x, "reserved">> \in ledger \/ "reserved" \in draft'[x].posts)
                 <=> (draft'[x].status # "none")
            /\ \A st \in Final :
                 (<<x, st>> \in ledger \/ st \in draft'[x].posts) <=> (draft'[x].status = st)
            /\ status[x] \in Final => draft'[x].status = status[x]
            /\ draft'[x].status = "released" => provider[x] \in {"rejected", "failed"}
  <2>1. CASE x # q
    <3>1. x \in Refs
      BY DEF Refs
    <3> QED BY <2>1, <3>1, <1>4, <1>5 DEF IInv, DraftLedger
  <2>2. CASE x = q
    BY <2>2, <1>4 DEF IInv, Committed, WithdrawalLedger, ReleasedIsNotPaidOut
  <2> QED BY <2>1, <2>2
<1> QED BY <1>2, <1>5 DEF DraftLedger

\* What the sweep reads of DiddiPay is what it goes on to apply.
LEMMA SweepInv ==
  ASSUME TypeOK, IInv, NEW s \in Actors,
         (\E r \in Remote : SweepRow(s, r)) \/ ListWithdrawals(s)
  PROVE  Knowledge'
<1>1. UNCHANGED <<ledger, draft, provider>>
  BY DEF SweepRow, ListWithdrawals, db
<1>2. ASSUME NEW u \in Actors, u # s PROVE Knows(u)'
  <2>1. UNCHANGED <<pc[u], job[u], target[u], back[u], todo[u]>>
    BY <1>2 DEF SweepRow, ListWithdrawals, Apply, Goto, TypeOK
  <2> QED BY <1>1, <2>1, OthersKnow
<1>3. Knows(s)
  BY DEF IInv, Knowledge
<1>4. ASSUME NEW r \in Remote, SweepRow(s, r) PROVE Knows(s)'
  <2>1. /\ pc[s] \in {"sweepTopups", "sweepWithdrawals"} /\ r \in todo[s]
        /\ todo'[s] = todo[s] \ {r}
    BY <1>4 DEF SweepRow, SweepStep, TypeOK
  <2>2. CASE News(r)
    <3>1. /\ pc'[s] = "claim" /\ job'[s] = r /\ target'[s] = Target(r, provider[r])
          /\ back'[s] # "idle"
      BY <1>4, <2>2 DEF SweepRow, Apply, Goto, SweepStep, TypeOK
    <3>2. r \in Quotes => provider[r] \in Answered
      BY <2>2, ConstantsAssumption DEF News, Settlements
    <3> QED BY <1>1, <1>3, <2>1, <3>1, <3>2 DEF Knows, Target, Answered, Final
  <2>3. CASE ~News(r)
    <3>1. UNCHANGED <<pc, job, target, back>>
      BY <1>4, <2>3 DEF SweepRow
    <3> QED BY <1>1, <1>3, <2>1, <3>1 DEF Knows
  <2> QED BY <2>2, <2>3
<1>5. ASSUME ListWithdrawals(s) PROVE Knows(s)'
  <2>1. /\ pc'[s] = "sweepWithdrawals" /\ UNCHANGED <<job, target, back>>
        /\ \A q \in todo'[s] \cap Quotes : status[q] # "none"
    BY <1>5 DEF ListWithdrawals, Goto, TypeOK
  <2> QED BY <1>1, <2>1 DEF Knows, IInv, Committed, WithdrawalLedger
<1> QED BY <1>2, <1>4, <1>5 DEF Knowledge

\* A commit never publishes a release that DiddiPay has not made final.
LEMMA PublishInv ==
  ASSUME TypeOK, IInv, NEW s \in Actors, Publish(s), UNCHANGED provider
  PROVE  /\ ReleasedIsNotPaidOut'
         /\ ledger \subseteq ledger'
         /\ \A r \in Refs : draft'[r] = IF draft[r].by = s THEN NoDraft ELSE draft[r]
<1>1. s # Nobody
  BY ConstantsAssumption
<1>2. ASSUME NEW q \in Quotes, status'[q] = "released"
      PROVE  provider[q] \in {"rejected", "failed"}
  <2>1. status'[q] = IF draft[q].by = s THEN draft[q].status ELSE status[q]
    BY PublishRow DEF Refs
  <2> QED BY <1>1, <1>2, <2>1 DEF IInv, DraftLedger, ReleasedIsNotPaidOut
<1>3. ledger \subseteq ledger'
  BY DEF Publish
<1> QED BY <1>2, <1>3, PublishRow DEF ReleasedIsNotPaidOut

\* After the commit of a reservation its entry is in the ledger.
LEMMA CommitReservationInv ==
  ASSUME TypeOK, IInv, NEW s \in Actors, CommitReservation(s) PROVE Knowledge'
<1>1. /\ ledger \subseteq ledger' /\ UNCHANGED <<provider, job, target, back, todo>>
      /\ \A r \in Refs : draft'[r] = IF draft[r].by = s THEN NoDraft ELSE draft[r]
  BY PublishInv DEF CommitReservation, task
<1>2. pc'[s] = "send" /\ \A u \in Actors : u # s => pc'[u] = pc[u]
  BY GotoEffect DEF CommitReservation
<1>3. ASSUME NEW u \in Actors PROVE Knows(u)'
  <2>1. CASE u # s
    BY <2>1, <1>1, <1>2, OthersKnow
  <2>2. CASE u = s
    <3>1. /\ pc[s] = "commitReserve" /\ job[s] \in Quotes /\ job[s] \in Refs /\ s # Nobody
      BY ConstantsAssumption DEF CommitReservation, TypeOK, Refs
    <3>2. draft[job[s]].by = s /\ draft[job[s]].status # "none"
      BY <3>1 DEF IInv, Knowledge, Knows
    <3>3. <<job[s], "reserved">> \in ledger \/ "reserved" \in draft[job[s]].posts
      BY <3>1, <3>2 DEF IInv, DraftLedger
    <3>4. <<job[s], "reserved">> \in ledger'
      BY <3>1, <3>2, <3>3, PublishEntry DEF CommitReservation, Kinds
    <3> QED BY <2>2, <1>1, <1>2, <3>4 DEF IInv, Knowledge, Knows
  <2> QED BY <2>1, <2>2
<1> QED BY <1>3 DEF Knowledge

\* DiddiPay decides of a payout once.
LEMMA DecidePayoutInv ==
  ASSUME TypeOK, IInv, NEW q \in Quotes, DecidePayout(q) PROVE IInv'
<1>1. UNCHANGED <<db, pc, task>>
  BY DEF DecidePayout
<1>2. /\ provider[q] = "requested"
      /\ \A x \in Quotes : x # q => provider'[x] = provider[x]
      /\ \A x \in Quotes : provider[x] \in {"rejected", "failed"} => provider'[x] = provider[x]
  BY DEF DecidePayout, TypeOK, Remote
<1>3. ASSUME NEW u \in Actors PROVE Knows(u)'
  BY <1>1, <1>2, OthersKnow DEF db, task
<1>4. DraftLedger' /\ ReleasedIsNotPaidOut'
  BY <1>1, <1>2 DEF IInv, DraftLedger, ReleasedIsNotPaidOut, db
<1>5. PayoutNeedsReservation'
  BY <1>1, <1>2 DEF IInv, PayoutNeedsReservation, db
<1>6. Unlocked' /\ DraftPaid' /\ DraftCovered' /\ Committed'
  BY <1>1 DEF IInv, Unlocked, DraftPaid, DraftCovered, Committed, WithdrawalLedger,
       PaidIsPosted, db
<1> QED BY <1>3, <1>4, <1>5, <1>6 DEF IInv, Knowledge

\* Writing the balance disturbs no row.
LEMMA WriteWalletInv ==
  ASSUME TypeOK, IInv, NEW s \in Actors, WriteWallet(s) PROVE Unlocked' /\ Knowledge'
BY WalletWriteInv DEF WriteWallet, task, Settlements, Refs, TypeOK

\* Nor does a refund.
LEMMA RefundInv ==
  ASSUME TypeOK, IInv, NEW s \in Actors, Refund(s) PROVE Unlocked' /\ Knowledge'
BY WalletWriteInv DEF Refund, task, Refs, TypeOK

\* The invariant is preserved.  A step that needs an argument has a lemma
\* above; what the step does not disturb follows from the definitions.
LEMMA InvNext ==
  ASSUME TypeOK, IInv, [Next]_vars  PROVE IInv'
<1>c. Committed'
  BY CommittedNext
<1> USE ConstantsAssumption
       DEF IInv, Unlocked, Knowledge, Knows, DraftLedger, DraftPaid, DraftCovered,
           PayoutNeedsReservation, ReleasedIsNotPaidOut, TypeOK, db, task, Steps, Backs,
           Statuses, Final, Refs, Settlements, Remote
<1>1. ASSUME NEW s \in Actors, NEW t \in Topups, CreateTopup(s, t)  PROVE IInv'
  BY <1>1, <1>c DEF CreateTopup, Apply, Goto
<1>2. ASSUME NEW s \in Actors, NEW e \in Events, Webhook(s, e)  PROVE IInv'
  BY <1>2, <1>c DEF Webhook, Emitted, Apply, Goto, Events, Target, Answered
<1>3. ASSUME NEW s \in Actors, NEW r \in CashRides, ConfirmCash(s, r)  PROVE IInv'
  BY <1>3, <1>c DEF ConfirmCash, Apply, Goto
<1>4. ASSUME NEW s \in Actors, NEW r \in Remote, AdminReconcile(s, r)  PROVE IInv'
  BY <1>4, <1>c DEF AdminReconcile, Apply, Goto, Target, Answered
<1>5. ASSUME NEW s \in Actors, NEW q \in Quotes, RequestWithdrawal(s, q)  PROVE IInv'
  BY <1>5, <1>c DEF RequestWithdrawal, Goto
<1>6. ASSUME NEW s \in Actors, MarkSettlement(s)  PROVE IInv'
  <2>1. Unlocked' /\ Knowledge'
    BY <1>6, MarkSettlementInv
  <2>2. DraftLedger'
    BY <1>6 DEF MarkSettlement, WriteRow, Posts, Posted, RowFree, Goto, Paid
  <2>3. DraftPaid'
    BY <1>6 DEF MarkSettlement, WriteRow, Posts, Posted, RowFree, Goto, Paid
  <2>4. DraftCovered'
    BY <1>6 DEF MarkSettlement, WriteRow, Posts, Posted, RowFree, Goto, Paid
  <2>5. PayoutNeedsReservation' /\ ReleasedIsNotPaidOut'
    BY <1>6 DEF MarkSettlement, WriteRow, Posts, Posted, RowFree, Goto, Paid
  <2> QED  BY <1>c, <2>1, <2>2, <2>3, <2>4, <2>5
<1>7. ASSUME NEW s \in Actors, ReadWallet(s)  PROVE IInv'
  BY <1>7, <1>c DEF ReadWallet, Goto
<1>8. ASSUME NEW s \in Actors, WriteWallet(s)  PROVE IInv'
  <2>1. Unlocked' /\ Knowledge'
    BY <1>8, WriteWalletInv
  <2>2. DraftLedger' /\ DraftPaid' /\ DraftCovered' /\ PayoutNeedsReservation'
        /\ ReleasedIsNotPaidOut'
    BY <1>8 DEF WriteWallet, SetBalance, WalletFree, Goto
  <2> QED  BY <1>c, <2>1, <2>2
<1>9. ASSUME NEW s \in Actors, MarkWithdrawal(s)  PROVE IInv'
  <2>1. Unlocked' /\ Knowledge' /\ DraftLedger' /\ DraftPaid' /\ DraftCovered'
    BY <1>9, MarkWithdrawalInv
  <2>2. PayoutNeedsReservation' /\ ReleasedIsNotPaidOut'
    BY <1>9 DEF MarkWithdrawal, WriteRow, Posts, RowStatus, RowFree, Ended, Goto
  <2> QED  BY <1>c, <2>1, <2>2
<1>10. ASSUME NEW s \in Actors, Refund(s)  PROVE IInv'
  <2>1. Unlocked' /\ Knowledge'
    BY <1>10, RefundInv
  <2>2. DraftLedger' /\ DraftPaid' /\ DraftCovered' /\ PayoutNeedsReservation'
        /\ ReleasedIsNotPaidOut'
    BY <1>10 DEF Refund, SetBalance, WalletFree, Goto
  <2> QED  BY <1>c, <2>1, <2>2
<1>11. ASSUME NEW s \in Actors, LockQuote(s)  PROVE IInv'
  <2>1. DraftLedger'
    BY <1>11, LockQuoteInv
  <2>2. Unlocked' /\ Knowledge' /\ DraftPaid' /\ DraftCovered' /\ PayoutNeedsReservation'
        /\ ReleasedIsNotPaidOut'
    BY <1>11 DEF LockQuote, WriteRow, Posts, RowFree, Goto
  <2> QED  BY <1>c, <2>1, <2>2
<1>12. ASSUME NEW s \in Actors, ReserveFunds(s)  PROVE IInv'
  <2>1. Unlocked'
    BY <1>12 DEF ReserveFunds, WriteRow, SetBalance, Balance, WalletFree, Posts, Goto
  <2>2. Knowledge'
    BY <1>12 DEF ReserveFunds, WriteRow, SetBalance, Balance, WalletFree, Posts, Goto
  <2>3. DraftLedger'
    BY <1>12 DEF ReserveFunds, WriteRow, SetBalance, Balance, WalletFree, Posts, Goto
  <2>4. DraftPaid'
    BY <1>12 DEF ReserveFunds, WriteRow, SetBalance, Balance, WalletFree, Posts, Goto
  <2>5. DraftCovered'
    BY <1>12 DEF ReserveFunds, WriteRow, SetBalance, Balance, WalletFree, Posts, Goto
  <2>6. PayoutNeedsReservation'
    BY <1>12 DEF ReserveFunds, WriteRow, SetBalance, Balance, WalletFree, Posts, Goto
  <2>7. ReleasedIsNotPaidOut'
    BY <1>12 DEF ReserveFunds, WriteRow, SetBalance, Balance, WalletFree, Posts, Goto
  <2> QED  BY <1>c, <2>1, <2>2, <2>3, <2>4, <2>5, <2>6, <2>7
<1>13. ASSUME NEW s \in Actors, RefuseWithdrawal(s)  PROVE IInv'
  BY <1>13, <1>c, SMTT(60) DEF RefuseWithdrawal, Rollback, Release, Reset, Goto, NoDraft, NoWalletDraft
<1>14. ASSUME NEW s \in Actors, SendPayout(s)  PROVE IInv'
  BY <1>14, <1>c DEF SendPayout, Goto
<1>15. ASSUME NEW s \in Actors, PayoutReply(s)  PROVE IInv'
  BY <1>15, <1>c DEF PayoutReply, Apply, Goto, Target, Answered
<1>16. ASSUME NEW s \in Actors, PayoutTimeout(s)  PROVE IInv'
  BY <1>16, <1>c DEF PayoutTimeout, Reset, Goto
<1>17. ASSUME NEW s \in Actors, BeginSweep(s)  PROVE IInv'
  BY <1>17, <1>c DEF BeginSweep, Goto
<1>18. ASSUME NEW s \in Actors, NEW r \in Remote, SweepRow(s, r)  PROVE IInv'
  <2>1. Knowledge'
    BY <1>18, SweepInv
  <2>2. Unlocked' /\ DraftLedger' /\ DraftPaid' /\ DraftCovered'
        /\ PayoutNeedsReservation' /\ ReleasedIsNotPaidOut'
    BY <1>18 DEF SweepRow, News, SweepStep, Apply, Goto, Target, Answered
  <2> QED  BY <1>c, <2>1, <2>2
<1>19. ASSUME NEW s \in Actors, NEW r \in Remote, SkipRow(s, r)  PROVE IInv'
  BY <1>19, <1>c DEF SkipRow
<1>20. ASSUME NEW s \in Actors, ListWithdrawals(s)  PROVE IInv'
  <2>1. Knowledge'
    BY <1>20, SweepInv
  <2>2. Unlocked' /\ DraftLedger' /\ DraftPaid' /\ DraftCovered'
        /\ PayoutNeedsReservation' /\ ReleasedIsNotPaidOut'
    BY <1>20 DEF ListWithdrawals, Goto
  <2> QED  BY <1>c, <2>1, <2>2
<1>21. ASSUME NEW s \in Actors, SweepDone(s)  PROVE IInv'
  BY <1>21, <1>c DEF SweepDone, Goto
<1>22. ASSUME NEW s \in Actors, Commit(s)  PROVE IInv'
  <2>1. ReleasedIsNotPaidOut'
    BY <1>22, PublishInv DEF Commit
  <2>2. Unlocked'
    BY <1>22 DEF Commit, Publish, Release, Reset, Goto, Balance, RowStatus, Posts,
         NoDraft, NoWalletDraft
  <2>3. Knowledge'
    BY <1>22 DEF Commit, Publish, Release, Reset, Goto, Balance, RowStatus, Posts,
         NoDraft, NoWalletDraft
  <2>4. DraftLedger'
    BY <1>22 DEF Commit, Publish, Release, Reset, Goto, Balance, RowStatus, Posts,
         NoDraft, NoWalletDraft
  <2>5. DraftPaid'
    BY <1>22 DEF Commit, Publish, Release, Reset, Goto, Balance, RowStatus, Posts,
         NoDraft, NoWalletDraft
  <2>6. DraftCovered'
    BY <1>22 DEF Commit, Publish, Release, Reset, Goto, Balance, RowStatus, Posts,
         NoDraft, NoWalletDraft
  <2>7. PayoutNeedsReservation'
    BY <1>22 DEF Commit, Publish, Release, Reset, Goto, Balance, RowStatus, Posts,
         NoDraft, NoWalletDraft
  <2> QED  BY <1>c, <2>1, <2>2, <2>3, <2>4, <2>5, <2>6, <2>7
<1>23. ASSUME NEW s \in Actors, CommitReservation(s)  PROVE IInv'
  <2>1. Knowledge'
    BY <1>23, CommitReservationInv
  <2>2. ReleasedIsNotPaidOut'
    BY <1>23, PublishInv DEF CommitReservation
  <2>3. Unlocked'
    BY <1>23 DEF CommitReservation, Publish, Release, Goto, Balance, RowStatus, Posts,
         NoDraft, NoWalletDraft
  <2>4. DraftLedger'
    BY <1>23 DEF CommitReservation, Publish, Release, Goto, Balance, RowStatus, Posts,
         NoDraft, NoWalletDraft
  <2>5. DraftPaid'
    BY <1>23 DEF CommitReservation, Publish, Release, Goto, Balance, RowStatus, Posts,
         NoDraft, NoWalletDraft
  <2>6. DraftCovered'
    BY <1>23 DEF CommitReservation, Publish, Release, Goto, Balance, RowStatus, Posts,
         NoDraft, NoWalletDraft
  <2>7. PayoutNeedsReservation'
    BY <1>23 DEF CommitReservation, Publish, Release, Goto, Balance, RowStatus, Posts,
         NoDraft, NoWalletDraft
  <2> QED  BY <1>c, <2>1, <2>2, <2>3, <2>4, <2>5, <2>6, <2>7
<1>24. ASSUME NEW s \in Actors, Abort(s)  PROVE IInv'
  BY <1>24, <1>c, SMTT(60) DEF Abort, Rollback, Release, Reset, Goto, NoDraft, NoWalletDraft
<1>25. ASSUME NEW s \in Actors, DeadlockAbort(s)  PROVE IInv'
  BY <1>25, <1>c, SMTT(60) DEF DeadlockAbort, Rollback, Release, Reset, Goto, NoDraft, NoWalletDraft
<1>26. ASSUME NEW q \in Quotes, DecidePayout(q)  PROVE IInv'
  BY <1>26, DecidePayoutInv
<1>27. ASSUME NEW r \in Remote, Conclude(r)  PROVE IInv'
  BY <1>27, <1>c DEF Conclude
<1>28. CASE UNCHANGED vars
  BY <1>28, <1>c DEF vars
<1> QED
  BY <1>1, <1>2, <1>3, <1>4, <1>5, <1>6, <1>7, <1>8, <1>9, <1>10, <1>11, <1>12, <1>13,
       <1>14, <1>15, <1>16, <1>17, <1>18, <1>19, <1>20, <1>21, <1>22, <1>23, <1>24, <1>25,
       <1>26, <1>27, <1>28 DEF Next, Start, Continue, Fail, Diddipay, Actors

\* The invariant holds when nothing has happened.
LEMMA InvInit == Init => IInv
<1> SUFFICES ASSUME Init  PROVE IInv
  OBVIOUS
<1> USE ConstantsAssumption DEF Init, Actors, Refs, Settlements, Remote
<1>1. Unlocked
  BY DEF Unlocked, NoDraft, NoWalletDraft
<1>2. Knowledge
  BY DEF Knowledge, Knows
<1>3. DraftLedger /\ DraftPaid
  BY DEF DraftLedger, DraftPaid, NoDraft
<1>4. DraftCovered
  BY DEF DraftCovered, NoDraft
<1>5. Committed
  BY DEF Committed, WithdrawalLedger, PaidIsPosted, Final
<1>6. PayoutNeedsReservation /\ ReleasedIsNotPaidOut
  BY DEF PayoutNeedsReservation, ReleasedIsNotPaidOut
<1> QED  BY <1>1, <1>2, <1>3, <1>4, <1>5, <1>6 DEF IInv

----------------------------------------------------------------------------
(* The theorems. *)

\* Every variable keeps its type, whatever the sessions do.
THEOREM TypeCorrect == Spec => []TypeOK
BY TypeInit, TypeNext, PTL DEF Spec

\* The inductive invariant holds in every state the code can reach.
THEOREM Invariant == Spec => [](TypeOK /\ IInv)
<1>1. Init => TypeOK /\ IInv
  BY TypeInit, InvInit
<1>2. TypeOK /\ IInv /\ [Next]_vars => TypeOK' /\ IInv'
  BY TypeNext, InvNext
<1> QED  BY <1>1, <1>2, PTL DEF Spec

\* The status of a withdrawal and its ledger entries agree in every state.
THEOREM WithdrawalLedgerHolds == Spec => []WithdrawalLedger
<1>1. IInv => WithdrawalLedger
  BY DEF IInv, Committed
<1> QED  BY <1>1, Invariant, PTL

\* A row shown as paid or collected has its ledger entry.
THEOREM PaidIsPostedHolds == Spec => []PaidIsPosted
<1>1. IInv => PaidIsPosted
  BY DEF IInv, Committed
<1> QED  BY <1>1, Invariant, PTL

\* DiddiPay is asked for no payout before its reservation is committed.
THEOREM PayoutNeedsReservationHolds == Spec => []PayoutNeedsReservation
<1>1. IInv => PayoutNeedsReservation
  BY DEF IInv
<1> QED  BY <1>1, Invariant, PTL

\* An amount given back is not paid out as well.
THEOREM ReleasedIsNotPaidOutHolds == Spec => []ReleasedIsNotPaidOut
<1>1. IInv => ReleasedIsNotPaidOut
  BY DEF IInv
<1> QED  BY <1>1, Invariant, PTL

\* A withdrawal that has ended never changes again.
THEOREM FinalWithdrawalStaysHolds == Spec => FinalWithdrawalStays
<1>1. ASSUME TypeOK, IInv, [Next]_vars
      PROVE  \A q \in Quotes : status[q] \in Final => status'[q] = status[q]
  <2>1. ASSUME NEW s \in Actors, Publish(s), NEW q \in Quotes, status[q] \in Final
        PROVE  status'[q] = status[q]
    <3>1. s # Nobody /\ q \in Refs
      BY ConstantsAssumption DEF Refs
    <3>2. status'[q] = IF draft[q].by = s THEN draft[q].status ELSE status[q]
      BY <1>1, <2>1, <3>1, PublishRow
    <3> QED BY <1>1, <2>1, <3>1, <3>2 DEF IInv, DraftLedger
  <2> QED BY <1>1, <2>1, OnlyCommitsPublish
<1> QED  BY <1>1, Invariant, PTL DEF Spec, FinalWithdrawalStays

\* A reservation takes its amount from a balance that covers it.
THEOREM ReservationIsCoveredHolds == Spec => ReservationIsCovered
<1>1. ASSUME TypeOK, IInv, [Next]_vars
      PROVE  \A q \in Quotes : <<q, "reserved">> \in ledger' \ ledger =>
                /\ wallet'[Owner[q]] = wallet[Owner[q]] - Amount[q]
                /\ wallet'[Owner[q]] >= 0
  <2>1. ASSUME NEW s \in Actors, Publish(s), NEW q \in Quotes,
               <<q, "reserved">> \in ledger' \ ledger
        PROVE  /\ wallet'[Owner[q]] = wallet[Owner[q]] - Amount[q]
               /\ wallet'[Owner[q]] >= 0
    <3>1. q \in Refs /\ "reserved" \in Kinds /\ Owner[q] \in Drivers
      BY ConstantsAssumption DEF Refs, Kinds
    <3>2. draft[q].by = s /\ "reserved" \in draft[q].posts
      BY <2>1, <3>1, PublishEntry
    <3>3. wallet'[Owner[q]] = Balance(s, Owner[q])
      BY <2>1, <3>1 DEF Publish
    <3> QED BY <1>1, <3>2, <3>3 DEF IInv, DraftCovered, Balance
  <2> QED BY <1>1, <2>1, OnlyCommitsPublish
<1> QED  BY <1>1, Invariant, PTL DEF Spec, ReservationIsCovered
================================================================================

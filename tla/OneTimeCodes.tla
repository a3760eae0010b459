------------------------------- MODULE OneTimeCodes -------------------------------
(***************************************************************************)
(* What the service lets somebody use once: the code sent to a phone to open *)
(* a session (modules/auth), the code sent to a driver to confirm a          *)
(* withdrawal (modules/payment), and the link by which a browser comes back  *)
(* from a payment.                                                           *)
(*                                                                          *)
(* One phone, one driver and one link.  Requests run in transactions: those  *)
(* of a withdrawal lock the code, the quote and the wallet, in this order;   *)
(* those of a phone the code they consume.                                    *)
(***************************************************************************)
EXTENDS Integers, FiniteSets, Sequences

CONSTANTS
    Sessions,      \* the requests that can be open at the same time
    Quotes,        \* withdrawal quotes of the driver
    QuoteEnd,      \* when they expire
    Balance,       \* what the wallet holds, in withdrawals
    MaxAttempts,   \* driver_withdrawal_otp_max_attempts
    Lifetime,      \* how long a code lives
    Retry,         \* the delay between two codes
    MaxTime,       \* bound: the clock
    MaxCodes,      \* bound: codes sent
    MaxRequests,   \* bound: requests one after the other
    MaxTogether,   \* bound: requests, once two of them are open together
    None

ASSUME CodesAssumption ==
    /\ {QuoteEnd, Balance, MaxAttempts, Lifetime, Retry, MaxTime, MaxCodes,
        MaxRequests, MaxTogether} \subseteq Nat
    /\ None \notin Sessions \cup Quotes \cup Nat

VARIABLES
    now,
    codes,       \* auth.otp_codes and payment.driver_withdrawal_verifications
    account,     \* auth.users: the row of the phone
    withdrawal,  \* payment.driver_withdrawals: the code each quote was used with
    balance,     \* payment.driver_wallets
    locks,       \* the session that has locked a code, a quote or the wallet
    tokens,      \* tokens have been issued for the phone
    pc, job,     \* the step of each session, and its request
    read,        \* what it has read: the code it verifies, the account, the clock
    spent,       \* history: the quote each code was consumed for
    overlapped,  \* history: two requests have been open at the same time
    requests,
    link,        \* Redis: the context of the return link
    binder,      \* the request that binds the payment to it
    verified     \* history: answers that recognised the link

Kinds == {"phone", "withdrawal"}
Accounts == {"absent", "pending", "active", "suspended"}
Codes == [kind : Kinds, sent : 0 .. MaxTime, attempts : 0 .. MaxAttempts, consumed : BOOLEAN]
Code(kind, at) == [kind |-> kind, sent |-> at, attempts |-> 0, consumed |-> FALSE]
Used(x) == [kind |-> x.kind, sent |-> x.sent, attempts |-> x.attempts, consumed |-> TRUE]
Ids == 1 .. Len(codes)
Resources == {<<"code", c>> : c \in 1 .. MaxCodes} \cup {<<"quote", q>> : q \in Quotes} \cup {<<"wallet">>}

Ask(kind) == [act |-> "ask", kind |-> kind, code |-> 0, quote |-> None, right |-> FALSE]
Verify(right) == [act |-> "verify", kind |-> "phone", code |-> 0, quote |-> None, right |-> right]
Withdraw(c, q, right) ==
    [act |-> "withdraw", kind |-> "withdrawal", code |-> c, quote |-> q, right |-> right]
NoJob == [act |-> "none", kind |-> "phone", code |-> 0, quote |-> None, right |-> FALSE]
Jobs == {Ask(k) : k \in Kinds} \cup {Verify(b) : b \in BOOLEAN}
        \cup {Withdraw(c, q, b) : c \in 1 .. MaxCodes, q \in Quotes, b \in BOOLEAN}

requestVars == <<codes, account, withdrawal, balance, locks, tokens, pc, job, read,
                 spent, overlapped, requests>>
linkVars == <<link, binder, verified>>
vars == <<now, requestVars, linkVars>>

TypeOK ==
    /\ now \in 0 .. MaxTime /\ codes \in Seq(Codes) /\ Len(codes) <= MaxCodes
    /\ account \in Accounts
    /\ withdrawal \in [Quotes -> 0 .. MaxCodes] /\ balance \in 0 .. Balance
    /\ locks \in [Resources -> Sessions \cup {None}]
    /\ tokens \in BOOLEAN
    /\ pc \in [Sessions -> {"idle", "send", "account", "activate", "token",
                            "lock", "reserve", "refuse", "commit"}]
    /\ job \in [Sessions -> Jobs \cup {NoJob}]
    /\ read \in [Sessions -> [code : 0 .. MaxCodes, account : {"none"} \cup Accounts, at : 0 .. MaxTime]]
    /\ spent \in [1 .. MaxCodes -> Quotes \cup {None}]
    /\ overlapped \in BOOLEAN /\ requests \in Nat
    /\ link \in {"none", "open", "bound", "gone"}
    /\ binder \in {"none", "create", "bind", "set", "done"} /\ verified \in Nat

Unread == [code |-> 0, account |-> "none", at |-> 0]
Init ==
    /\ now = 0 /\ codes = <<>> /\ account \in Accounts
    /\ withdrawal = [q \in Quotes |-> 0] /\ balance = Balance
    /\ locks = [r \in Resources |-> None] /\ tokens = FALSE
    /\ pc = [s \in Sessions |-> "idle"] /\ job = [s \in Sessions |-> NoJob]
    /\ read = [s \in Sessions |-> Unread]
    /\ spent = [c \in 1 .. MaxCodes |-> None]
    /\ overlapped = FALSE /\ requests = 0
    /\ link = "none" /\ binder = "none" /\ verified = 0
-----------------------------------------------------------------------------
(* Requests *)

Before(c, d) == codes[c].sent < codes[d].sent \/ (codes[c].sent = codes[d].sent /\ c < d)
Latest(set) == {c \in set : \A d \in set \ {c} : Before(d, c)}
OfKind(kind) == {c \in Ids : codes[c].kind = kind}
\* find_latest_unconsumed: an older code comes back when the newer is consumed.
LatestUnconsumed == Latest({c \in OfKind("phone") : ~codes[c].consumed})
LatestOf(kind) == IF kind = "phone" THEN LatestUnconsumed ELSE Latest(OfKind(kind))
Expired(c, at) == codes[c].sent + Lifetime <= at

RateLimited(kind) ==
    \E c \in LatestOf(kind) : ~codes[c].consumed /\ ~Expired(c, now) /\ now - codes[c].sent < Retry

\* What a request checks before its first write or lock, and where it goes; it
\* looks at the clock once, here.
Admitted(j) ==
    CASE j.act = "ask" -> ~RateLimited(j.kind)
      [] j.act = "verify" -> j.right /\ \E c \in LatestUnconsumed : ~Expired(c, now)
      [] j.act = "withdraw" -> j.code \in OfKind("withdrawal") /\ withdrawal[j.quote] = 0
First(j) == CASE j.act = "ask" -> "send" [] j.act = "verify" -> "account" [] OTHER -> "lock"

Begin(s, j) ==
    /\ pc[s] = "idle"
    /\ overlapped' = (overlapped \/ \E t \in Sessions \ {s} : pc[t] # "idle")
    /\ requests < IF overlapped' THEN MaxTogether ELSE MaxRequests
    /\ Admitted(j)
    /\ requests' = requests + 1
    /\ pc' = [pc EXCEPT ![s] = First(j)] /\ job' = [job EXCEPT ![s] = j]
    /\ read' = [read EXCEPT ![s] =
          [code |-> IF j.act = "verify" THEN CHOOSE c \in LatestUnconsumed : TRUE ELSE 0,
           account |-> "none", at |-> now]]
    /\ UNCHANGED <<now, codes, account, withdrawal, balance, locks, tokens, spent, linkVars>>

\* The end of a request: its locks go with its transaction.
Close(s) ==
    /\ pc' = [pc EXCEPT ![s] = "idle"] /\ job' = [job EXCEPT ![s] = NoJob]
    /\ read' = [read EXCEPT ![s] = Unread]
    /\ locks' = [r \in Resources |-> IF locks[r] = s THEN None ELSE locks[r]]

\* The code is committed before it is sent; the delivery may fail.
Send(s) ==
    /\ pc[s] = "send" /\ Len(codes) < MaxCodes
    /\ codes' = Append(codes, Code(job[s].kind, read[s].at))
    /\ Close(s)
    /\ UNCHANGED <<now, account, withdrawal, balance, tokens, spent, overlapped, requests,
                   linkVars>>
ConsumeCode(c) == codes' = [codes EXCEPT ![c] = Used(codes[c])]

\* Mutant: it is only read.
LocksNothing(s, c) == UNCHANGED locks
\* The row of a code is locked, or waited for.
LockCode(s, c) == locks[<<"code", c>>] = None /\ locks' = [locks EXCEPT ![<<"code", c>>] = s]
-----------------------------------------------------------------------------
(* The phone: register, verify_otp *)

Register ==
    /\ account = "absent" /\ account' = "pending"
    /\ UNCHANGED <<now, codes, withdrawal, balance, locks, tokens, pc, job, read, spent,
                   overlapped, requests, linkVars>>

\* mark_consumed flushes its UPDATE, unless another request has consumed the
\* code; then the account is read.
ReadAccount(s) ==
    LET c == read[s].code IN
    /\ pc[s] = "account"
    /\ IF codes[c].consumed THEN UNCHANGED locks ELSE LockCode(s, c)
    /\ read' = [read EXCEPT ![s] = [code |-> c, account |-> account, at |-> read[s].at]]
    /\ pc' = [pc EXCEPT ![s] = "activate"]
    /\ UNCHANGED <<now, codes, account, withdrawal, balance, tokens, job, spent,
                   overlapped, requests, linkVars>>

\* Mutant: the token leaves before the commit.
EarlyToken(s) ==
    /\ pc[s] = "activate" /\ tokens' = TRUE
    /\ pc' = [pc EXCEPT ![s] = "token"]
    /\ locks' = [k \in Resources |-> IF locks[k] = s THEN None ELSE locks[k]]
    /\ UNCHANGED <<now, codes, account, withdrawal, balance, job, read, spent,
                   overlapped, requests, linkVars>>
\* The commit.  A new row is refused when the phone has got one meanwhile; an
\* account found active or suspended is left so, and gets its token.
Activate(s) ==
    /\ pc[s] = "activate"
    /\ read[s].account = "absent" => account = "absent"
    /\ account' = IF read[s].account \in {"absent", "pending"} THEN "active" ELSE account
    /\ ConsumeCode(read[s].code)
    /\ pc' = [pc EXCEPT ![s] = "token"]
    /\ locks' = [k \in Resources |-> IF locks[k] = s THEN None ELSE locks[k]]
    /\ UNCHANGED <<now, withdrawal, balance, tokens, job, read, spent, overlapped,
                   requests, linkVars>>

IssueToken(s) ==
    /\ pc[s] = "token" /\ tokens' = TRUE
    /\ Close(s)
    /\ UNCHANGED <<now, codes, account, withdrawal, balance, spent, overlapped, requests,
                   linkVars>>
-----------------------------------------------------------------------------
(* The withdrawal: request_withdrawal *)

Usable(c, at) == ~codes[c].consumed /\ ~Expired(c, at) /\ codes[c].attempts < MaxAttempts

\* consume_withdrawal_verification: FOR UPDATE.
Present(s) ==
    LET c == job[s].code IN
    /\ pc[s] = "lock"
    /\ LockCode(s, c)
    /\ Usable(c, read[s].at)
    /\ pc' = [pc EXCEPT ![s] = IF job[s].right THEN "reserve" ELSE "refuse"]
    /\ UNCHANGED <<now, codes, account, withdrawal, balance, tokens, job, read, spent,
                   overlapped, requests, linkVars>>

\* The attempt is counted in the row, and an error is raised: the transaction
\* of the request is rolled back, and the count with it.
Refuse(s) ==
    /\ pc[s] = "refuse"
    /\ Close(s)
    /\ UNCHANGED <<now, codes, account, withdrawal, balance, tokens, spent, overlapped, requests,
                   linkVars>>

\* reserve_withdrawal_from_quote: the quote, then the wallet, are locked.  A
\* quote that has its withdrawal leads to it.
Reserve(s) ==
    LET q == job[s].quote IN
    /\ pc[s] = "reserve"
    /\ locks[<<"quote", q>>] = None
    /\ \/ withdrawal[q] # 0 /\ locks' = [locks EXCEPT ![<<"quote", q>>] = s]
       \/ /\ withdrawal[q] = 0 /\ read[s].at < QuoteEnd
          /\ locks[<<"wallet">>] = None /\ balance > 0
          /\ locks' = [locks EXCEPT ![<<"quote", q>>] = s, ![<<"wallet">>] = s]
    /\ pc' = [pc EXCEPT ![s] = "commit"]
    /\ UNCHANGED <<now, codes, account, withdrawal, balance, tokens, job, read, spent,
                   overlapped, requests, linkVars>>

Commit(s) ==
    LET c == job[s].code q == job[s].quote IN
    /\ pc[s] = "commit"
    /\ ConsumeCode(c)
    /\ spent' = [spent EXCEPT ![c] = q]
    /\ IF withdrawal[q] = 0
       THEN withdrawal' = [withdrawal EXCEPT ![q] = c] /\ balance' = balance - 1
       ELSE UNCHANGED <<withdrawal, balance>>
    /\ Close(s)
    /\ UNCHANGED <<now, account, tokens, overlapped, requests, linkVars>>

\* An error, a refusal of the database or a crash, before the commit.
\* Mutant: the consumption of the code is kept.
KeepsConsumption(s) ==
    /\ pc[s] \in {"send", "account", "activate", "lock", "reserve", "commit"}
    /\ IF pc[s] \in {"reserve", "commit"} THEN ConsumeCode(job[s].code) ELSE UNCHANGED codes
    /\ Close(s)
    /\ UNCHANGED <<now, account, withdrawal, balance, tokens, spent, overlapped, requests,
                   linkVars>>
Fail(s) ==
    /\ pc[s] \in {"send", "account", "activate", "lock", "reserve", "commit"}
    /\ Close(s)
    /\ UNCHANGED <<now, codes, account, withdrawal, balance, tokens, spent, overlapped,
                   requests, linkVars>>

Tick ==
    /\ now < MaxTime /\ now' = now + 1
    /\ UNCHANGED <<requestVars, linkVars>>
-----------------------------------------------------------------------------
(* The return link *)

CreateLink ==
    /\ binder = "none" /\ binder' = "create" /\ link' = "open"
    /\ UNCHANGED <<now, requestVars, verified>>

\* bind_payment_intent: the context is read, its delay is read, and it is set
\* again as it was read.
ReadLink ==
    /\ binder = "create"
    /\ binder' = IF link = "open" THEN "bind" ELSE "done"
    /\ UNCHANGED <<now, requestVars, link, verified>>
ReadDelay ==
    /\ binder = "bind"
    /\ binder' = IF link = "open" THEN "set" ELSE "done"
    /\ UNCHANGED <<now, requestVars, link, verified>>
SetLink ==
    /\ binder = "set" /\ binder' = "done" /\ link' = "bound"
    /\ UNCHANGED <<now, requestVars, verified>>

Follow == verified' = IF link = "bound" THEN verified + 1 ELSE verified
\* Mutant: the context is read, and stays.
LooksUp ==
    /\ link \in {"open", "bound"} /\ verified < 2
    /\ Follow
    /\ UNCHANGED <<now, requestVars, link, binder>>
\* consume: GETDEL, whatever the context holds.
ConsumeLink ==
    /\ link \in {"open", "bound"}
    /\ Follow /\ link' = "gone"
    /\ UNCHANGED <<now, requestVars, binder>>

ExpireLink ==
    /\ link \in {"open", "bound"} /\ link' = "gone"
    /\ UNCHANGED <<now, requestVars, binder, verified>>

Next ==
    \/ \E s \in Sessions :
          \/ \E j \in Jobs : Begin(s, j)
          \/ Send(s) \/ ReadAccount(s) \/ Activate(s) \/ IssueToken(s)
          \/ Present(s) \/ Refuse(s) \/ Reserve(s) \/ Commit(s) \/ Fail(s)
    \/ Register \/ Tick
    \/ CreateLink \/ ReadLink \/ ReadDelay \/ SetLink \/ ConsumeLink \/ ExpireLink

Spec == Init /\ [][Next]_vars
-----------------------------------------------------------------------------
(* Properties *)

\* A code confirms one withdrawal, whatever the requests that present it at the
\* same time and the quotes they present it for.
OneWithdrawalPerCode ==
    \A q, r \in Quotes : withdrawal[q] # 0 /\ withdrawal[q] = withdrawal[r] => q = r

\* A failure never costs the driver his code: a code of a withdrawal is
\* consumed exactly when the quote it was presented for has a withdrawal.
ConsumedMeansReserved ==
    \A c \in OfKind("withdrawal") :
        /\ codes[c].consumed <=> spent[c] # None
        /\ spent[c] # None => withdrawal[spent[c]] # 0

\* Whoever holds a token finds his account verified, since the next request may
\* come before the end of the one that issued it: active, or suspended, as a
\* suspended account gets tokens too and is refused where it uses them.  And a
\* verification that has read the account earlier never moves one that is
\* active or suspended.
TokenMeansVerified ==
    /\ [](tokens => account \in {"active", "suspended"})
    /\ [][account \notin {"active", "suspended"}]_account

\* A return link is recognised at most once, though its context is written
\* again while a browser may be consuming it.
LinkVerifiesOnce == verified <= 1
=============================================================================

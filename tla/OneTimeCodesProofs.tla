---------------------------- MODULE OneTimeCodesProofs ----------------------------
(***************************************************************************)
(* Proofs about OneTimeCodes, for any sessions, quotes, balance, delays and  *)
(* number of codes: a code confirms one withdrawal and is only consumed with *)
(* it, a token comes after the account is verified, a link is recognised once. *)
(***************************************************************************)
EXTENDS OneTimeCodes, SequenceTheorems, TLAPS

Steps == {"idle", "send", "account", "activate", "token", "lock", "reserve", "refuse", "commit"}
Reads == [code : 0 .. MaxCodes, account : {"none"} \cup Accounts,
          at : 0 .. MaxTime]

\* A request for a withdrawal that has been accepted holds its code, which
\* nobody has consumed; one that is about to commit holds the wallet, unless
\* the quote has its withdrawal.
Presents(s) ==
    /\ pc[s] \in {"lock", "reserve", "refuse", "commit"} =>
          /\ job[s].code \in Ids /\ codes[job[s].code].kind = "withdrawal"
          /\ job[s].quote \in Quotes
    /\ pc[s] \in {"reserve", "refuse", "commit"} =>
          locks[<<"code", job[s].code>>] = s /\ ~codes[job[s].code].consumed
    /\ pc[s] = "commit" /\ withdrawal[job[s].quote] = 0 =>
          locks[<<"wallet">>] = s /\ balance > 0

\* A request of the phone works on a code of the phone.
Verifies(s) ==
    pc[s] \in {"account", "activate"} =>
        read[s].code \in Ids /\ codes[read[s].code].kind = "phone"

Waiting == \A s \in Sessions : Presents(s) /\ Verifies(s)

\* The code of a withdrawal is consumed, and a code is consumed for a
\* withdrawal that exists.
Spending ==
    /\ \A q \in Quotes : withdrawal[q] # 0 =>
          /\ withdrawal[q] \in Ids /\ codes[withdrawal[q]].kind = "withdrawal"
          /\ codes[withdrawal[q]].consumed
    /\ \A c \in 1 .. MaxCodes : spent[c] # None =>
          /\ c \in Ids /\ codes[c].kind = "withdrawal" /\ codes[c].consumed
          /\ withdrawal[spent[c]] # 0
    /\ \A c \in Ids : codes[c].kind = "withdrawal" /\ codes[c].consumed => spent[c] # None

\* What a verification has read of the account still tells what it may be.
Settled == {"active", "suspended"}
Knows(s) ==
    pc[s] = "activate" =>
        /\ read[s].account # "none"
        /\ read[s].account = "pending" => account \in {"pending", "active"}
        /\ read[s].account \in Settled => account = read[s].account

Issued ==
    /\ tokens \/ (\E s \in Sessions : pc[s] = "token") => account \in Settled
    /\ \A s \in Sessions : Knows(s)

LinkInv ==
    /\ binder # "done" => link # "bound" /\ verified = 0
    /\ link = "bound" => verified = 0
    /\ verified <= 1

IInv ==
    /\ TypeOK
    /\ Waiting
    /\ Spending
    /\ OneWithdrawalPerCode
    /\ Issued
    /\ LinkInv

----------------------------------------------------------------------------
(* Codes and jobs. *)

LEMMA CodeType ==
  ASSUME TypeOK, NEW c \in Ids
  PROVE  /\ codes[c] \in Codes /\ c \in 1 .. MaxCodes
         /\ <<"code", c>> \in Resources
BY CodesAssumption DEF TypeOK, Ids, Resources

\* What the jobs of each request say.
LEMMA JobTypes ==
  ASSUME NEW j \in Jobs
  PROVE  /\ j.act = "ask" => j.kind \in Kinds
         /\ j.act = "withdraw" => j.quote \in Quotes
         /\ j.act \in {"ask", "verify", "withdraw"}
BY DEF Jobs, Ask, Verify, Withdraw

\* Consuming a code keeps the codes and their kinds.
LEMMA ConsumeKeeps ==
  ASSUME TypeOK, NEW c \in Ids, ConsumeCode(c)
  PROVE  /\ codes' \in Seq(Codes) /\ Len(codes') = Len(codes) /\ Ids' = Ids
         /\ codes'[c].consumed
         /\ \A d \in Ids : codes'[d].kind = codes[d].kind
         /\ \A d \in Ids \ {c} : codes'[d] = codes[d]
<1>1. codes \in Seq(Codes) /\ c \in 1 .. Len(codes) /\ codes[c] \in Codes
  BY DEF TypeOK, Ids
<1>2. Used(codes[c]) \in Codes
  BY <1>1 DEF Used, Codes
<1>3. codes' = [codes EXCEPT ![c] = Used(codes[c])]
  BY DEF ConsumeCode
<1>4. Used(codes[c]).kind = codes[c].kind /\ Used(codes[c]).consumed
  BY DEF Used
<1> QED BY <1>1, <1>2, <1>3, <1>4 DEF Ids

\* A code that is sent is the last one.
LEMMA SendAppends ==
  ASSUME TypeOK, NEW s \in Sessions, Send(s)
  PROVE  /\ codes' \in Seq(Codes) /\ Len(codes') = Len(codes) + 1 /\ Len(codes') <= MaxCodes
         /\ Ids' = Ids \cup {Len(codes) + 1}
         /\ \A c \in Ids : codes'[c] = codes[c]
         /\ ~codes'[Len(codes) + 1].consumed
<1> DEFINE new == Code(job[s].kind, read[s].at)
<1>1. job[s].kind \in Kinds
  BY JobTypes DEF TypeOK, Send, NoJob, Kinds, Jobs, Ask, Verify, Withdraw
<1>2. read[s].at \in 0 .. MaxTime
  BY DEF TypeOK
<1>3. new \in Codes /\ ~new.consumed
  BY <1>1, <1>2, CodesAssumption DEF Code, Codes
<1>4. codes' = Append(codes, new) /\ codes \in Seq(Codes) /\ Len(codes) < MaxCodes
  BY DEF Send, TypeOK
<1> HIDE DEF new
<1> QED BY <1>3, <1>4, CodesAssumption DEF Ids

----------------------------------------------------------------------------
(* Sessions. *)

\* What a step of one session leaves alone for the others.
Aside(s) == \A u \in Sessions \ {s} : pc'[u] = pc[u] /\ job'[u] = job[u] /\ read'[u] = read[u]

LEMMA CloseEffect ==
  ASSUME TypeOK, NEW s \in Sessions, Close(s)
  PROVE  /\ Aside(s) /\ pc'[s] = "idle"
         /\ pc' \in [Sessions -> Steps] /\ job' \in [Sessions -> Jobs \cup {NoJob}]
         /\ read' \in [Sessions -> Reads]
         /\ locks' \in [Resources -> Sessions \cup {None}]
         /\ \A k \in Resources : locks[k] # s => locks'[k] = locks[k]
<1>1. Unread \in Reads
  BY CodesAssumption DEF Unread, Reads
<1>2. read \in [Sessions -> Reads] /\ pc \in [Sessions -> Steps]
      /\ job \in [Sessions -> Jobs \cup {NoJob}] /\ locks \in [Resources -> Sessions \cup {None}]
  BY DEF TypeOK, Steps, Reads
<1> HIDE DEF Unread
<1> QED BY <1>1, <1>2 DEF Close, Aside, Steps

\* What a request begins with.
LEMMA BeginEffect ==
  ASSUME TypeOK, NEW s \in Sessions, NEW j \in Jobs, Begin(s, j)
  PROVE  /\ Aside(s) /\ pc[s] = "idle" /\ pc'[s] \in {"send", "account", "lock"}
         /\ job'[s] = j
         /\ pc' \in [Sessions -> Steps] /\ job' \in [Sessions -> Jobs \cup {NoJob}]
         /\ read' \in [Sessions -> Reads]
         /\ pc'[s] = "lock" => j.code \in OfKind("withdrawal") /\ j.quote \in Quotes
         /\ pc'[s] = "account" => read'[s].code \in OfKind("phone")
<1> DEFINE c == IF j.act = "verify" THEN CHOOSE x \in LatestUnconsumed : TRUE ELSE 0
           new == [code |-> c, account |-> "none", at |-> now]
<1>1. LatestUnconsumed \subseteq OfKind("phone")
  BY DEF LatestUnconsumed, Latest
<1>2. j.act = "verify" => LatestUnconsumed # {}
  BY DEF Begin, Admitted
<1>3. j.act = "verify" => c \in OfKind("phone")
  BY <1>1, <1>2
<1>4. c \in 0 .. MaxCodes
  <2>1. OfKind("phone") \subseteq 0 .. MaxCodes
    BY CodesAssumption DEF OfKind, Ids, TypeOK
  <2>2. CASE j.act = "verify"
    BY <1>3, <2>1, <2>2
  <2>3. CASE j.act # "verify"
    BY <2>3, CodesAssumption
  <2> QED BY <2>2, <2>3
<1>5. read' = [read EXCEPT ![s] = new] /\ job' = [job EXCEPT ![s] = j]
      /\ pc' = [pc EXCEPT ![s] = First(j)] /\ pc[s] = "idle" /\ Admitted(j)
  BY DEF Begin
<1> HIDE DEF c
<1>6. new \in Reads /\ new.code = c
  BY <1>4 DEF Reads, TypeOK
<1>7. \/ j.act = "ask" /\ First(j) = "send"
      \/ j.act = "verify" /\ First(j) = "account"
      \/ j.act = "withdraw" /\ First(j) = "lock"
  BY JobTypes DEF First
<1> HIDE DEF new
<1>8. read \in [Sessions -> Reads] /\ pc \in [Sessions -> Steps]
      /\ job \in [Sessions -> Jobs \cup {NoJob}]
  BY DEF TypeOK, Steps, Reads
<1>9. j.act = "withdraw" => j.code \in OfKind("withdrawal") /\ j.quote \in Quotes
  BY <1>5, JobTypes DEF Admitted
<1>10. pc'[s] = First(j) /\ job'[s] = j /\ read'[s] = new /\ Aside(s)
  BY <1>5, <1>8 DEF Aside
<1>11. pc'[s] \in {"send", "account", "lock"} /\ (pc'[s] = "lock" => j.act = "withdraw")
       /\ (pc'[s] = "account" => j.act = "verify")
  BY <1>7, <1>10
<1>12. /\ pc' \in [Sessions -> Steps] /\ job' \in [Sessions -> Jobs \cup {NoJob}]
       /\ read' \in [Sessions -> Reads]
  BY <1>5, <1>6, <1>8, <1>10, <1>11 DEF Steps
<1> QED BY <1>3, <1>5, <1>6, <1>9, <1>10, <1>11, <1>12

----------------------------------------------------------------------------
(* The initial states and the types. *)

LEMMA InitInv == Init => IInv
<1> SUFFICES ASSUME Init PROVE IInv
  OBVIOUS
<1>1. Unread \in Reads
  BY CodesAssumption DEF Unread, Reads
<1>2. read \in [Sessions -> Reads]
  BY <1>1 DEF Init
<1>3. codes = <<>> /\ codes \in Seq(Codes) /\ Len(codes) = 0
  BY DEF Init
<1>4. TypeOK
  <2>1. now = 0 /\ balance = Balance /\ requests = 0 /\ verified = 0 /\ NoJob \in Jobs \cup {NoJob}
    BY DEF Init
  <2>2. now \in 0 .. MaxTime /\ balance \in 0 .. Balance /\ Len(codes) <= MaxCodes
        /\ 0 \in 0 .. MaxCodes
    BY <1>3, <2>1, CodesAssumption
  <2>3. locks \in [Resources -> Sessions \cup {None}]
    BY DEF Init
  <2>4. spent \in [1 .. MaxCodes -> Quotes \cup {None}] /\ withdrawal \in [Quotes -> 0 .. MaxCodes]
    BY <2>2 DEF Init
  <2>5. pc \in [Sessions -> Steps] /\ job \in [Sessions -> Jobs \cup {NoJob}]
    BY DEF Init, Steps
  <2>6. tokens \in BOOLEAN /\ overlapped \in BOOLEAN /\ link = "none" /\ binder = "none"
        /\ account \in Accounts
    BY DEF Init
  <2> QED BY <1>2, <1>3, <2>1, <2>2, <2>3, <2>4, <2>5, <2>6 DEF TypeOK, Reads, Steps
<1>5. Waiting /\ Issued /\ LinkInv
  BY DEF Init, Knows, Waiting, Presents, Verifies, Issued, LinkInv
<1>6. Spending /\ OneWithdrawalPerCode
  BY <1>3 DEF Init, Spending, OneWithdrawalPerCode, Ids
<1> QED BY <1>4, <1>5, <1>6 DEF IInv

\* What a session does not touch, and the return link.
LEMMA TypeRest ==
  ASSUME TypeOK, UNCHANGED <<now, account, withdrawal, balance, tokens, overlapped, requests,
                             linkVars>>
  PROVE  /\ now' \in 0 .. MaxTime /\ account' \in Accounts
         /\ withdrawal' \in [Quotes -> 0 .. MaxCodes] /\ balance' \in 0 .. Balance
         /\ tokens' \in BOOLEAN /\ overlapped' \in BOOLEAN /\ requests' \in Nat
         /\ link' \in {"none", "open", "bound", "gone"}
         /\ binder' \in {"none", "create", "bind", "set", "done"} /\ verified' \in Nat
<1>1. /\ now' = now /\ account' = account /\ withdrawal' = withdrawal /\ balance' = balance
      /\ tokens' = tokens /\ overlapped' = overlapped /\ requests' = requests
      /\ link' = link /\ binder' = binder /\ verified' = verified
  BY DEF linkVars
<1>2. /\ now \in 0 .. MaxTime /\ account \in Accounts
      /\ withdrawal \in [Quotes -> 0 .. MaxCodes] /\ balance \in 0 .. Balance
      /\ tokens \in BOOLEAN /\ overlapped \in BOOLEAN /\ requests \in Nat
      /\ link \in {"none", "open", "bound", "gone"}
      /\ binder \in {"none", "create", "bind", "set", "done"} /\ verified \in Nat
  BY DEF TypeOK
<1> QED BY <1>1, <1>2

\* A request goes to its next step.
LEMMA GotoEffect ==
  ASSUME TypeOK, NEW s \in Sessions, NEW step \in Steps, pc' = [pc EXCEPT ![s] = step]
  PROVE  /\ pc' \in [Sessions -> Steps] /\ pc'[s] = step
         /\ \A u \in Sessions \ {s} : pc'[u] = pc[u]
BY DEF TypeOK, Steps

LEMMA LockEffect ==
  ASSUME TypeOK, NEW s \in Sessions, NEW c \in Ids, LockCode(s, c)
  PROVE  /\ locks' \in [Resources -> Sessions \cup {None}]
         /\ locks[<<"code", c>>] = None /\ locks'[<<"code", c>>] = s
         /\ \A k \in Resources : k # <<"code", c>> => locks'[k] = locks[k]
<1> DEFINE k == <<"code", c>>
<1>1. k \in Resources
  BY CodeType
<1>2. locks[k] = None /\ locks' = [locks EXCEPT ![k] = s]
  BY DEF LockCode
<1> HIDE DEF k
<1>3. /\ locks' \in [Resources -> Sessions \cup {None}] /\ locks'[k] = s
      /\ \A r \in Resources : r # k => locks'[r] = locks[r]
  BY <1>1, <1>2 DEF TypeOK
<1> QED BY <1>2, <1>3 DEF k

\* reserve_withdrawal_from_quote: nobody had the quote; the wallet, where it
\* is needed, was free and had money.
LEMMA ReserveEffect ==
  ASSUME IInv, NEW s \in Sessions, Reserve(s)
  PROVE  /\ job[s].quote \in Quotes
         /\ locks' \in [Resources -> Sessions \cup {None}]
         /\ \A k \in Resources : locks[k] \notin {s, None} => locks'[k] = locks[k]
         /\ \A k \in Resources : locks[k] = s => locks'[k] = s
         /\ withdrawal[job[s].quote] = 0 => locks'[<<"wallet">>] = s /\ balance > 0
<1> DEFINE q == job[s].quote
           k == <<"quote", q>>
           w == <<"wallet">>
<1>1. q \in Quotes
  BY DEF IInv, Waiting, Presents, Reserve
<1>2. k \in Resources /\ w \in Resources /\ locks \in [Resources -> Sessions \cup {None}]
  BY <1>1 DEF Resources, IInv, TypeOK
<1>3. /\ locks[k] = None
      /\ \/ withdrawal[q] # 0 /\ locks' = [locks EXCEPT ![k] = s]
         \/ /\ withdrawal[q] = 0 /\ locks[w] = None /\ balance > 0
            /\ locks' = [locks EXCEPT ![k] = s, ![w] = s]
  BY DEF Reserve
<1> HIDE DEF k, w, q
<1>4. /\ locks' \in [Resources -> Sessions \cup {None}]
      /\ \A r \in Resources : locks[r] \notin {s, None} => locks'[r] = locks[r]
      /\ \A r \in Resources : locks[r] = s => locks'[r] = s
      /\ withdrawal[q] = 0 => locks'[w] = s /\ balance > 0
  BY <1>2, <1>3
<1> QED BY <1>1, <1>4 DEF q, w

LEMMA TypeStep == IInv /\ [Next]_vars => TypeOK'
<1> SUFFICES ASSUME IInv, [Next]_vars PROVE TypeOK'
  OBVIOUS
<1> TypeOK
  BY DEF IInv
<1>1. ASSUME NEW s \in Sessions, NEW j \in Jobs, Begin(s, j) PROVE TypeOK'
  <2>1. /\ pc' \in [Sessions -> Steps] /\ job' \in [Sessions -> Jobs \cup {NoJob}]
        /\ read' \in [Sessions -> Reads]
    BY <1>1, BeginEffect
  <2>2. /\ overlapped' \in BOOLEAN /\ requests' \in Nat
        /\ UNCHANGED <<now, codes, account, withdrawal, balance, locks, tokens, spent, linkVars>>
    BY <1>1 DEF Begin, TypeOK
  <2> QED BY <2>1, <2>2 DEF TypeOK, linkVars, Steps, Reads
<1>2. ASSUME NEW s \in Sessions, Send(s) PROVE TypeOK'
  <2>1. codes' \in Seq(Codes) /\ Len(codes') <= MaxCodes
    BY <1>2, SendAppends
  <2>2. Close(s) /\ UNCHANGED <<now, account, withdrawal, balance, tokens, spent, overlapped,
                                requests, linkVars>>
    BY <1>2 DEF Send
  <2> QED BY <2>1, <2>2, CloseEffect, TypeRest DEF TypeOK, Steps, Reads
<1>3. ASSUME Register PROVE TypeOK'
  BY <1>3 DEF Register, Accounts, TypeOK, linkVars
<1>4. ASSUME NEW s \in Sessions, ReadAccount(s) PROVE TypeOK'
  <2> DEFINE c == read[s].code
             new == [code |-> c, account |-> account, at |-> read[s].at]
  <2>1. c \in Ids /\ new \in Reads
    BY <1>4 DEF IInv, Waiting, Verifies, ReadAccount, TypeOK, Reads
  <2>2. locks' \in [Resources -> Sessions \cup {None}]
    <3>1. LockCode(s, c) \/ UNCHANGED locks
      BY <1>4 DEF ReadAccount
    <3> QED BY <2>1, <3>1, LockEffect DEF TypeOK
  <2>3. /\ pc' = [pc EXCEPT ![s] = "activate"] /\ read' = [read EXCEPT ![s] = new]
        /\ UNCHANGED <<now, codes, account, withdrawal, balance, tokens, job, spent, overlapped,
                       requests, linkVars>>
    BY <1>4 DEF ReadAccount
  <2> HIDE DEF new, c
  <2>4. read' \in [Sessions -> Reads]
    BY <2>1, <2>3 DEF TypeOK, Reads
  <2>5. pc' \in [Sessions -> Steps]
    BY <2>3, GotoEffect DEF Steps
  <2> QED BY <2>2, <2>3, <2>4, <2>5, TypeRest DEF TypeOK, Steps, Reads
<1>5. ASSUME NEW s \in Sessions, Activate(s) PROVE TypeOK'
  <2>1. codes' \in Seq(Codes) /\ Len(codes') = Len(codes)
    BY <1>5, ConsumeKeeps DEF IInv, Waiting, Verifies, Activate
  <2>2. pc' = [pc EXCEPT ![s] = "token"] /\ account' \in Accounts
        /\ locks' = [k \in Resources |-> IF locks[k] = s THEN None ELSE locks[k]]
        /\ UNCHANGED <<now, withdrawal, balance, tokens, job, read, spent, overlapped, requests,
                       linkVars>>
    BY <1>5 DEF Activate, TypeOK, Accounts
  <2>3. pc' \in [Sessions -> Steps]
    BY <2>2, GotoEffect DEF Steps
  <2>4. locks' \in [Resources -> Sessions \cup {None}]
    BY <2>2 DEF TypeOK
  <2> QED BY <2>1, <2>2, <2>3, <2>4 DEF TypeOK, Steps, linkVars
<1>6. ASSUME NEW s \in Sessions, IssueToken(s) PROVE TypeOK'
  <2>1. Close(s) /\ tokens' = TRUE
        /\ UNCHANGED <<now, codes, account, withdrawal, balance, spent, overlapped, requests,
                       linkVars>>
    BY <1>6 DEF IssueToken
  <2> QED BY <2>1, CloseEffect DEF TypeOK, linkVars, Steps, Reads
<1>7. ASSUME NEW s \in Sessions, Present(s) PROVE TypeOK'
  <2>1. job[s].code \in Ids
    BY <1>7 DEF IInv, Waiting, Presents, Present
  <2>2. locks' \in [Resources -> Sessions \cup {None}]
    BY <1>7, <2>1, LockEffect DEF Present
  <2>3. pc' \in [Sessions -> Steps]
    BY <1>7, GotoEffect DEF Present, Steps
  <2> QED BY <1>7, <2>2, <2>3, TypeRest DEF TypeOK, Present, Steps
<1>8. ASSUME NEW s \in Sessions, Refuse(s) \/ Fail(s) PROVE TypeOK'
  <2>1. Close(s) /\ UNCHANGED <<now, codes, account, withdrawal, balance, tokens, spent,
                                overlapped, requests, linkVars>>
    BY <1>8 DEF Refuse, Fail
  <2> QED BY <2>1, CloseEffect, TypeRest DEF TypeOK, Steps, Reads
<1>9. ASSUME NEW s \in Sessions, Reserve(s) PROVE TypeOK'
  <2>1. locks' \in [Resources -> Sessions \cup {None}]
    BY <1>9, ReserveEffect
  <2>2. pc' \in [Sessions -> Steps]
    BY <1>9, GotoEffect DEF Reserve, Steps
  <2>3. UNCHANGED <<now, codes, account, withdrawal, balance, tokens, job, read, spent,
                    overlapped, requests, linkVars>>
    BY <1>9 DEF Reserve
  <2> QED BY <2>1, <2>2, <2>3, TypeRest DEF TypeOK, Steps
<1>10. ASSUME NEW s \in Sessions, Commit(s) PROVE TypeOK'
  <2> DEFINE c == job[s].code
             q == job[s].quote
  <2>1. c \in Ids /\ q \in Quotes /\ pc[s] = "commit" /\ (withdrawal[q] = 0 => balance > 0)
    BY <1>10 DEF IInv, Waiting, Presents, Commit
  <2>2. /\ ConsumeCode(c) /\ Close(s) /\ spent' = [spent EXCEPT ![c] = q]
        /\ \/ withdrawal[q] = 0 /\ withdrawal' = [withdrawal EXCEPT ![q] = c]
              /\ balance' = balance - 1
           \/ UNCHANGED <<withdrawal, balance>>
        /\ UNCHANGED <<now, account, tokens, overlapped, requests, linkVars>>
    BY <1>10 DEF Commit
  <2>3. c \in 1 .. MaxCodes /\ codes' \in Seq(Codes) /\ Len(codes') = Len(codes)
    BY <2>1, <2>2, CodeType, ConsumeKeeps
  <2> HIDE DEF c, q
  <2>4. spent' \in [1 .. MaxCodes -> Quotes \cup {None}]
    BY <2>1, <2>2, <2>3 DEF TypeOK
  <2>5. withdrawal' \in [Quotes -> 0 .. MaxCodes]
    BY <2>1, <2>2, <2>3 DEF TypeOK
  <2>6. balance' \in 0 .. Balance
    <3>1. balance \in 0 .. Balance /\ Balance \in Nat
      BY CodesAssumption DEF TypeOK
    <3> QED BY <2>1, <2>2, <3>1
  <2> QED BY <2>2, <2>3, <2>4, <2>5, <2>6, CloseEffect DEF TypeOK, linkVars, Steps, Reads
<1>11. ASSUME Tick PROVE TypeOK'
  <2>1. now' \in 0 .. MaxTime
    BY <1>11, CodesAssumption DEF Tick, TypeOK
  <2> QED BY <1>11, <2>1 DEF Tick, TypeOK, requestVars, linkVars
<1>12. ASSUME CreateLink \/ ReadLink \/ ReadDelay \/ SetLink \/ ConsumeLink \/ ExpireLink
       PROVE  TypeOK'
  <2>1. UNCHANGED <<now, requestVars>>
    BY <1>12 DEF CreateLink, ReadLink, ReadDelay, SetLink, ConsumeLink, ExpireLink
  <2>2. /\ link' \in {"none", "open", "bound", "gone"}
        /\ binder' \in {"none", "create", "bind", "set", "done"} /\ verified' \in Nat
    BY <1>12 DEF CreateLink, ReadLink, ReadDelay, SetLink, ConsumeLink, ExpireLink, Follow, TypeOK
  <2> QED BY <2>1, <2>2 DEF TypeOK, requestVars
<1>13. CASE UNCHANGED vars
  BY <1>13 DEF vars, requestVars, linkVars, TypeOK
<1> QED BY <1>1, <1>2, <1>3, <1>4, <1>5, <1>6, <1>7, <1>8, <1>9, <1>10, <1>11, <1>12, <1>13
        DEF Next

----------------------------------------------------------------------------
(* The requests that wait. *)

\* A request goes on waiting while the codes of withdrawals that it has locked,
\* and the wallet, are left alone.
LEMMA OtherWaits ==
  ASSUME IInv, NEW u \in Sessions, pc'[u] = pc[u], job'[u] = job[u], read'[u] = read[u],
         Ids \subseteq Ids', \A c \in Ids : codes'[c].kind = codes[c].kind,
         \A c \in Ids : locks[<<"code", c>>] = u /\ codes[c].kind = "withdrawal" =>
             locks'[<<"code", c>>] = u /\ codes'[c].consumed = codes[c].consumed,
         locks[<<"wallet">>] = u => locks'[<<"wallet">>] = u /\ balance' = balance,
         \A q \in Quotes : withdrawal[q] # 0 => withdrawal'[q] # 0
  PROVE  (Presents(u) /\ Verifies(u))'
<1>1. Verifies(u)'
  BY DEF IInv, Waiting, Verifies
<1>2. Presents(u)
  BY DEF IInv, Waiting
<1> DEFINE c == job[u].code
           q == job[u].quote
<1>3. CASE pc[u] \notin {"lock", "reserve", "refuse", "commit"}
  BY <1>1, <1>3 DEF Presents
<1>4. CASE pc[u] \in {"lock", "reserve", "refuse", "commit"}
  <2>1. c \in Ids /\ codes[c].kind = "withdrawal" /\ q \in Quotes
    BY <1>2, <1>4 DEF Presents
  <2>2. c \in Ids' /\ codes'[c].kind = "withdrawal"
    BY <2>1
  <2>3. pc[u] \in {"reserve", "refuse", "commit"} =>
           locks'[<<"code", c>>] = u /\ ~codes'[c].consumed
    BY <1>2, <2>1 DEF Presents
  <2>4. pc[u] = "commit" /\ withdrawal'[q] = 0 => locks'[<<"wallet">>] = u /\ balance' > 0
    BY <1>2, <2>1 DEF Presents
  <2> QED BY <1>1, <2>1, <2>2, <2>3, <2>4 DEF Presents
<1> QED BY <1>3, <1>4

LEMMA WaitingFrom ==
  ASSUME NEW s \in Sessions, (Presents(s) /\ Verifies(s))',
         \A u \in Sessions \ {s} : (Presents(u) /\ Verifies(u))'
  PROVE  Waiting'
BY DEF Waiting

\* The keys of the locks.
LEMMA Keys ==
  ASSUME IInv
  PROVE  /\ \A c \in Ids : <<"code", c>> \in Resources
         /\ <<"wallet">> \in Resources
         /\ \A c \in Ids : <<"wallet">> # <<"code", c>>
<1>1. \A c \in Ids : <<"code", c>> \in Resources
  BY CodeType DEF IInv
<1>2. <<"wallet">> \in Resources
  BY DEF Resources
<1> QED BY <1>1, <1>2

\* The end of a request disturbs nobody else, as long as it only consumes a
\* code of its own.
LEMMA CloseWaits ==
  ASSUME IInv, NEW s \in Sessions, Close(s), Ids \subseteq Ids',
         \A c \in Ids : codes'[c].kind = codes[c].kind,
         \A c \in Ids : locks[<<"code", c>>] # s => codes'[c].consumed = codes[c].consumed,
         locks[<<"wallet">>] # s => balance' = balance,
         \A q \in Quotes : withdrawal[q] # 0 => withdrawal'[q] # 0
  PROVE  Waiting'
<1>1. /\ Aside(s) /\ pc'[s] = "idle"
      /\ \A k \in Resources : locks[k] # s => locks'[k] = locks[k]
  BY CloseEffect DEF IInv
<1>2. (Presents(s) /\ Verifies(s))'
  BY <1>1 DEF Presents, Verifies
<1>3. ASSUME NEW u \in Sessions \ {s} PROVE (Presents(u) /\ Verifies(u))'
  BY <1>1, Keys, OtherWaits DEF Aside
<1> QED BY <1>2, <1>3, WaitingFrom

LEMMA WaitingStep == IInv /\ [Next]_vars => Waiting'
<1> SUFFICES ASSUME IInv, [Next]_vars PROVE Waiting'
  OBVIOUS
<1> TypeOK
  BY DEF IInv
<1>1. ASSUME NEW s \in Sessions, NEW j \in Jobs, Begin(s, j) PROVE Waiting'
  <2>1. UNCHANGED <<codes, locks, balance, withdrawal>> /\ Ids' = Ids
    BY <1>1 DEF Begin, Ids
  <2>2. /\ Aside(s) /\ pc'[s] \in {"send", "account", "lock"} /\ job'[s] = j
        /\ pc'[s] = "lock" => j.code \in OfKind("withdrawal") /\ j.quote \in Quotes
        /\ pc'[s] = "account" => read'[s].code \in OfKind("phone")
    BY <1>1, BeginEffect
  <2>3. (Presents(s) /\ Verifies(s))'
    BY <2>1, <2>2 DEF Presents, Verifies, OfKind
  <2>4. ASSUME NEW u \in Sessions \ {s} PROVE (Presents(u) /\ Verifies(u))'
    BY <2>1, <2>2, OtherWaits DEF Aside
  <2> QED BY <2>3, <2>4, WaitingFrom
<1>2. ASSUME NEW s \in Sessions, Send(s) PROVE Waiting'
  <2>1. Ids' = Ids \cup {Len(codes) + 1} /\ \A c \in Ids : codes'[c] = codes[c]
    BY <1>2, SendAppends
  <2>2. Close(s) /\ UNCHANGED <<balance, withdrawal>>
    BY <1>2 DEF Send
  <2> QED BY <2>1, <2>2, CloseWaits
<1>3. ASSUME NEW s \in Sessions, ReadAccount(s) PROVE Waiting'
  <2> DEFINE c == read[s].code
             new == [code |-> c, account |-> account, at |-> read[s].at]
  <2>1. c \in Ids /\ codes[c].kind = "phone" /\ pc[s] = "account"
    BY <1>3 DEF IInv, Waiting, Verifies, ReadAccount
  <2>2. UNCHANGED <<codes, balance, withdrawal, job>> /\ Ids' = Ids
        /\ pc' = [pc EXCEPT ![s] = "activate"] /\ read' = [read EXCEPT ![s] = new]
        /\ (LockCode(s, c) \/ UNCHANGED locks)
    BY <1>3 DEF ReadAccount, Ids
  <2>3. new.code = c
    OBVIOUS
  <2> HIDE DEF c, new
  <2>4. Aside(s) /\ pc'[s] = "activate" /\ read'[s].code = c
    BY <2>2, <2>3 DEF Aside, TypeOK
  <2>5. (Presents(s) /\ Verifies(s))'
    BY <2>1, <2>2, <2>4 DEF Presents, Verifies
  <2>6. \A k \in Resources : locks[k] # None => locks'[k] = locks[k]
    BY <2>1, <2>2, LockEffect
  <2>7. ASSUME NEW u \in Sessions \ {s} PROVE (Presents(u) /\ Verifies(u))'
    BY <2>2, <2>4, <2>6, Keys, OtherWaits, CodesAssumption DEF Aside
  <2> QED BY <2>5, <2>7, WaitingFrom
<1>4. ASSUME NEW s \in Sessions, Activate(s) PROVE Waiting'
  <2> DEFINE c == read[s].code
  <2>1. c \in Ids /\ codes[c].kind = "phone"
    BY <1>4 DEF IInv, Waiting, Verifies, Activate
  <2>2. /\ Ids' = Ids /\ \A d \in Ids : codes'[d].kind = codes[d].kind
        /\ \A d \in Ids \ {c} : codes'[d] = codes[d]
    BY <1>4, <2>1, ConsumeKeeps DEF Activate
  <2>3. /\ UNCHANGED <<balance, withdrawal, job, read>>
        /\ pc' = [pc EXCEPT ![s] = "token"]
        /\ \A k \in Resources : locks[k] # s => locks'[k] = locks[k]
    BY <1>4 DEF Activate
  <2> HIDE DEF c
  <2>4. Aside(s) /\ pc'[s] = "token"
    BY <2>3 DEF Aside, TypeOK
  <2>5. (Presents(s) /\ Verifies(s))'
    BY <2>4 DEF Presents, Verifies
  <2>6. ASSUME NEW u \in Sessions \ {s} PROVE (Presents(u) /\ Verifies(u))'
    BY <2>1, <2>2, <2>3, <2>4, Keys, OtherWaits DEF Aside
  <2> QED BY <2>5, <2>6, WaitingFrom
<1>5. ASSUME NEW s \in Sessions, IssueToken(s) \/ Refuse(s) \/ Fail(s) PROVE Waiting'
  <2>1. Close(s) /\ UNCHANGED <<codes, balance, withdrawal>> /\ Ids' = Ids
    BY <1>5 DEF IssueToken, Refuse, Fail, Ids
  <2> QED BY <2>1, CloseWaits
<1>6. ASSUME NEW s \in Sessions, Present(s) PROVE Waiting'
  <2> DEFINE c == job[s].code
  <2>1. c \in Ids /\ codes[c].kind = "withdrawal" /\ job[s].quote \in Quotes
    BY <1>6 DEF IInv, Waiting, Presents, Present
  <2>2. /\ UNCHANGED <<codes, balance, withdrawal, job, read>> /\ Ids' = Ids
        /\ pc' = [pc EXCEPT ![s] = IF job[s].right THEN "reserve" ELSE "refuse"]
        /\ LockCode(s, c) /\ ~codes[c].consumed
    BY <1>6 DEF Present, Usable, Ids
  <2>3. Aside(s) /\ pc'[s] \in {"reserve", "refuse"}
    BY <2>2 DEF Aside, TypeOK
  <2>4. /\ locks'[<<"code", c>>] = s /\ locks[<<"code", c>>] = None
        /\ \A k \in Resources : k # <<"code", c>> => locks'[k] = locks[k]
    BY <2>1, <2>2, LockEffect
  <2>5. (Presents(s) /\ Verifies(s))'
    BY <2>1, <2>2, <2>3, <2>4 DEF Presents, Verifies
  <2>6. \A k \in Resources : locks[k] # None => locks'[k] = locks[k]
    BY <2>4
  <2> HIDE DEF c
  <2>7. ASSUME NEW u \in Sessions \ {s} PROVE (Presents(u) /\ Verifies(u))'
    BY <2>2, <2>3, <2>6, Keys, OtherWaits, CodesAssumption DEF Aside
  <2> QED BY <2>5, <2>7, WaitingFrom
<1>7. ASSUME NEW s \in Sessions, Reserve(s) PROVE Waiting'
  <2>1. UNCHANGED <<codes, balance, withdrawal, job, read>> /\ Ids' = Ids
        /\ pc[s] = "reserve" /\ pc' = [pc EXCEPT ![s] = "commit"]
    BY <1>7 DEF Reserve, Ids
  <2>2. Aside(s) /\ pc'[s] = "commit"
    BY <2>1 DEF Aside, TypeOK
  <2>3. /\ \A k \in Resources : locks[k] \notin {s, None} => locks'[k] = locks[k]
        /\ \A k \in Resources : locks[k] = s => locks'[k] = s
        /\ withdrawal[job[s].quote] = 0 => locks'[<<"wallet">>] = s /\ balance > 0
    BY <1>7, ReserveEffect
  <2>4. (Presents(s) /\ Verifies(s))'
    <3>1. Presents(s)
      BY DEF IInv, Waiting
    <3> QED BY <2>1, <2>2, <2>3, <3>1, Keys DEF Presents, Verifies
  <2>5. ASSUME NEW u \in Sessions \ {s} PROVE (Presents(u) /\ Verifies(u))'
    BY <2>1, <2>2, <2>3, Keys, OtherWaits, CodesAssumption DEF Aside
  <2> QED BY <2>4, <2>5, WaitingFrom
<1>8. ASSUME NEW s \in Sessions, Commit(s) PROVE Waiting'
  <2> DEFINE c == job[s].code
             q == job[s].quote
  <2>1. /\ c \in Ids /\ q \in Quotes /\ locks[<<"code", c>>] = s
        /\ withdrawal[q] = 0 => locks[<<"wallet">>] = s
    BY <1>8 DEF IInv, Waiting, Presents, Commit
  <2>2. /\ ConsumeCode(c) /\ Close(s)
        /\ \/ withdrawal[q] = 0 /\ withdrawal' = [withdrawal EXCEPT ![q] = c]
           \/ UNCHANGED <<withdrawal, balance>>
    BY <1>8 DEF Commit
  <2>3. /\ Ids' = Ids /\ \A d \in Ids : codes'[d].kind = codes[d].kind
        /\ \A d \in Ids \ {c} : codes'[d] = codes[d]
    BY <2>1, <2>2, ConsumeKeeps
  <2>4. \A d \in Ids : locks[<<"code", d>>] # s => codes'[d].consumed = codes[d].consumed
    BY <2>1, <2>3
  <2> HIDE DEF c, q
  <2>5. locks[<<"wallet">>] # s => balance' = balance
    BY <2>1, <2>2
  <2>6. \A r \in Quotes : withdrawal[r] # 0 => withdrawal'[r] # 0
    BY <2>1, <2>2 DEF TypeOK
  <2> QED BY <2>2, <2>3, <2>4, <2>5, <2>6, CloseWaits
<1>9. CASE UNCHANGED <<codes, locks, balance, withdrawal, pc, job, read>>
  BY <1>9 DEF IInv, Waiting, Presents, Verifies, Ids
<1> QED BY <1>1, <1>2, <1>3, <1>4, <1>5, <1>6, <1>7, <1>8, <1>9
        DEF Next, Register, Tick, CreateLink, ReadLink, ReadDelay, SetLink, ConsumeLink,
            ExpireLink, requestVars, vars

----------------------------------------------------------------------------
(* What is spent, and what is known of an account and of a link. *)

\* The reservation that commits is the first withdrawal of its code.
LEMMA CommitEffect ==
  ASSUME IInv, NEW s \in Sessions, Commit(s)
  PROVE  \E c \in Ids, q \in Quotes :
            /\ c \in 1 .. MaxCodes /\ codes[c].kind = "withdrawal" /\ ~codes[c].consumed
            /\ Ids' = Ids /\ codes'[c].consumed
            /\ \A d \in Ids : codes'[d].kind = codes[d].kind
            /\ \A d \in Ids \ {c} : codes'[d] = codes[d]
            /\ spent' = [spent EXCEPT ![c] = q]
            /\ \/ withdrawal[q] = 0 /\ withdrawal' = [withdrawal EXCEPT ![q] = c]
               \/ withdrawal[q] # 0 /\ withdrawal' = withdrawal
<1> DEFINE c == job[s].code
           q == job[s].quote
<1>1. c \in Ids /\ q \in Quotes /\ codes[c].kind = "withdrawal" /\ ~codes[c].consumed
  BY DEF IInv, Waiting, Presents, Commit
<1>2. ConsumeCode(c) /\ spent' = [spent EXCEPT ![c] = q]
      /\ \/ withdrawal[q] = 0 /\ withdrawal' = [withdrawal EXCEPT ![q] = c]
         \/ withdrawal[q] # 0 /\ withdrawal' = withdrawal
  BY DEF Commit
<1>3. /\ Ids' = Ids /\ codes'[c].consumed
      /\ \A d \in Ids : codes'[d].kind = codes[d].kind
      /\ \A d \in Ids \ {c} : codes'[d] = codes[d]
  BY <1>1, <1>2, ConsumeKeeps DEF IInv
<1>4. c \in 1 .. MaxCodes
  BY <1>1, CodeType DEF IInv
<1> HIDE DEF c, q
<1> QED BY <1>1, <1>2, <1>3, <1>4

LEMMA SpendingStep == IInv /\ [Next]_vars => Spending' /\ OneWithdrawalPerCode'
<1> SUFFICES ASSUME IInv, [Next]_vars PROVE Spending' /\ OneWithdrawalPerCode'
  OBVIOUS
<1> Spending /\ OneWithdrawalPerCode
  BY DEF IInv
<1>1. CASE UNCHANGED <<codes, withdrawal, spent>>
  BY <1>1 DEF Spending, OneWithdrawalPerCode, Ids
<1>2. ASSUME NEW s \in Sessions, Send(s) PROVE Spending' /\ OneWithdrawalPerCode'
  <2>1. /\ Ids' = Ids \cup {Len(codes) + 1} /\ \A c \in Ids : codes'[c] = codes[c]
        /\ ~codes'[Len(codes) + 1].consumed
    BY <1>2, SendAppends DEF IInv
  <2>2. UNCHANGED <<withdrawal, spent>>
    BY <1>2 DEF Send
  <2> QED BY <2>1, <2>2 DEF Spending, OneWithdrawalPerCode
<1>3. ASSUME NEW s \in Sessions, Activate(s) PROVE Spending' /\ OneWithdrawalPerCode'
  <2> DEFINE c == read[s].code
  <2>1. c \in Ids /\ codes[c].kind = "phone"
    BY <1>3 DEF IInv, Waiting, Verifies, Activate
  <2>2. /\ Ids' = Ids /\ \A d \in Ids : codes'[d].kind = codes[d].kind
        /\ \A d \in Ids \ {c} : codes'[d] = codes[d]
    BY <1>3, <2>1, ConsumeKeeps DEF IInv, Activate
  <2>3. UNCHANGED <<withdrawal, spent>>
    BY <1>3 DEF Activate
  <2> HIDE DEF c
  <2> QED BY <2>1, <2>2, <2>3 DEF Spending, OneWithdrawalPerCode
<1>4. ASSUME NEW s \in Sessions, Commit(s) PROVE Spending' /\ OneWithdrawalPerCode'
  <2>1. PICK c \in Ids, q \in Quotes :
            /\ c \in 1 .. MaxCodes /\ codes[c].kind = "withdrawal" /\ ~codes[c].consumed
            /\ Ids' = Ids /\ codes'[c].consumed
            /\ \A d \in Ids : codes'[d].kind = codes[d].kind
            /\ \A d \in Ids \ {c} : codes'[d] = codes[d]
            /\ spent' = [spent EXCEPT ![c] = q]
            /\ \/ withdrawal[q] = 0 /\ withdrawal' = [withdrawal EXCEPT ![q] = c]
               \/ withdrawal[q] # 0 /\ withdrawal' = withdrawal
    BY <1>4, CommitEffect
  <2>2. /\ withdrawal \in [Quotes -> 0 .. MaxCodes] /\ q # None /\ c # 0
        /\ spent \in [1 .. MaxCodes -> Quotes \cup {None}]
    <3>1. c # 0 /\ q # None
      BY <2>1, CodesAssumption
    <3>2. /\ withdrawal \in [Quotes -> 0 .. MaxCodes]
          /\ spent \in [1 .. MaxCodes -> Quotes \cup {None}]
      BY DEF IInv, TypeOK
    <3> QED BY <3>1, <3>2
  <2>3. spent'[c] = q /\ withdrawal'[q] # 0 /\ \A d \in 1 .. MaxCodes \ {c} : spent'[d] = spent[d]
    BY <2>1, <2>2
  <2>4. \A r \in Quotes : withdrawal[r] # c
    BY <2>1, <2>2 DEF Spending
  <2>5. \A r \in Quotes : withdrawal'[r] = withdrawal[r] \/ (r = q /\ withdrawal'[r] = c)
    BY <2>1, <2>2
  <2>6. \A r \in Quotes : withdrawal[r] # 0 => withdrawal'[r] # 0
    BY <2>2, <2>5
  <2>7. OneWithdrawalPerCode'
    BY <2>4, <2>5 DEF OneWithdrawalPerCode
  <2>8. \A r \in Quotes : withdrawal'[r] # 0 =>
           /\ withdrawal'[r] \in Ids' /\ codes'[withdrawal'[r]].kind = "withdrawal"
           /\ codes'[withdrawal'[r]].consumed
    <3>1. TAKE r \in Quotes
    <3>2. CASE withdrawal'[r] = c
      BY <2>1, <3>2
    <3>3. CASE withdrawal'[r] = withdrawal[r]
      <4>1. withdrawal[r] # 0 => withdrawal[r] \in Ids \ {c}
        BY <2>4 DEF Spending
      <4>2. withdrawal[r] # 0 => codes'[withdrawal[r]] = codes[withdrawal[r]]
        BY <2>1, <4>1
      <4>3. Ids' = Ids
        BY <2>1
      <4> QED BY <3>3, <4>1, <4>2, <4>3 DEF Spending
    <3> QED BY <2>5, <3>2, <3>3
  <2>9. \A d \in 1 .. MaxCodes : spent'[d] # None =>
           /\ d \in Ids' /\ codes'[d].kind = "withdrawal" /\ codes'[d].consumed
           /\ withdrawal'[spent'[d]] # 0
    <3>1. TAKE d \in 1 .. MaxCodes
    <3>2. CASE d = c
      BY <2>1, <2>3, <3>2
    <3>3. CASE d # c
      BY <2>1, <2>2, <2>3, <2>6, <3>3 DEF Spending
    <3> QED BY <3>2, <3>3
  <2>10. \A d \in Ids' : codes'[d].kind = "withdrawal" /\ codes'[d].consumed => spent'[d] # None
    <3>1. Ids \subseteq 1 .. MaxCodes
      BY CodeType DEF IInv
    <3>2. TAKE d \in Ids'
    <3>3. CASE d = c
      BY <2>2, <2>3, <3>3
    <3>4. CASE d # c
      <4>1. codes'[d] = codes[d] /\ spent'[d] = spent[d] /\ d \in Ids
        BY <2>1, <2>3, <3>1, <3>4
      <4> QED BY <4>1 DEF Spending
    <3> QED BY <3>3, <3>4
  <2> QED BY <2>7, <2>8, <2>9, <2>10 DEF Spending
<1> QED BY <1>1, <1>2, <1>3, <1>4
        DEF Next, Begin, Register, ReadAccount, IssueToken, Present, Refuse, Reserve, Fail, Tick,
            CreateLink, ReadLink, ReadDelay, SetLink, ConsumeLink, ExpireLink, requestVars, vars

\* A verification takes an account that is not verified to active.
LEMMA Verifying ==
  ASSUME IInv, NEW s \in Sessions, Activate(s)
  PROVE  account' \in Settled /\ (account \in Settled => account' = account)
<1>1. Knows(s) /\ pc[s] = "activate" /\ read[s].account \in {"none"} \cup Accounts
  BY DEF IInv, Issued, Activate, TypeOK
<1>2. CASE read[s].account \in {"absent", "pending"}
  BY <1>1, <1>2 DEF Activate, Knows, Settled
<1>3. CASE read[s].account \in Settled
  BY <1>1, <1>3 DEF Activate, Knows, Settled
<1> QED BY <1>1, <1>2, <1>3 DEF Knows, Accounts, Settled

LEMMA IssuedStep == IInv /\ [Next]_vars => Issued'
<1> SUFFICES ASSUME IInv, [Next]_vars PROVE Issued'
  OBVIOUS
<1> TypeOK /\ Issued
  BY DEF IInv
<1>1. ASSUME NEW s \in Sessions, NEW j \in Jobs, Begin(s, j) PROVE Issued'
  <2>1. Aside(s) /\ pc'[s] \notin {"token", "activate"} /\ UNCHANGED <<account, tokens>>
    BY <1>1, BeginEffect DEF Begin
  <2> QED BY <2>1 DEF Issued, Knows, Aside
<1>2. ASSUME NEW s \in Sessions, Activate(s) PROVE Issued'
  <2>1. account' \in Settled /\ (account \in Settled => account' = account)
    BY <1>2, Verifying
  <2>2. pc' = [pc EXCEPT ![s] = "token"] /\ read' = read
        /\ (account' = account \/ account' = "active")
    BY <1>2 DEF Activate
  <2>3. pc'[s] = "token" /\ \A u \in Sessions \ {s} : pc'[u] = pc[u]
    BY <2>2, GotoEffect DEF Steps
  <2> QED BY <2>1, <2>2, <2>3 DEF Issued, Knows, Settled
<1>3. ASSUME NEW s \in Sessions, IssueToken(s) PROVE Issued'
  <2>1. account' = account /\ account \in Settled /\ Close(s)
    BY <1>3 DEF IssueToken, Issued
  <2> QED BY <2>1, CloseEffect DEF Issued, Knows, Aside
<1>4. ASSUME NEW s \in Sessions, Send(s) \/ Refuse(s) \/ Fail(s) \/ Commit(s) PROVE Issued'
  <2>1. Close(s) /\ UNCHANGED <<account, tokens>>
    BY <1>4 DEF Send, Refuse, Fail, Commit
  <2> QED BY <2>1, CloseEffect DEF Issued, Knows, Aside
<1>5. ASSUME NEW s \in Sessions, ReadAccount(s) PROVE Issued'
  <2> DEFINE new == [code |-> read[s].code, account |-> account, at |-> read[s].at]
  <2>1. UNCHANGED <<account, tokens>> /\ pc' = [pc EXCEPT ![s] = "activate"]
        /\ read' = [read EXCEPT ![s] = new]
    BY <1>5 DEF ReadAccount
  <2>2. read'[s].account = account /\ \A u \in Sessions \ {s} : read'[u] = read[u]
    BY <2>1 DEF TypeOK
  <2>3. account \in Accounts
    BY DEF TypeOK
  <2> HIDE DEF new
  <2>4. pc'[s] = "activate" /\ \A u \in Sessions \ {s} : pc'[u] = pc[u]
    BY <2>1, GotoEffect DEF Steps
  <2>5. Knows(s)'
    BY <2>1, <2>2, <2>3 DEF Knows, Accounts
  <2>6. ASSUME NEW u \in Sessions \ {s} PROVE Knows(u)'
    BY <2>1, <2>2, <2>4 DEF Knows, Issued
  <2> QED BY <2>1, <2>4, <2>5, <2>6 DEF Issued
<1>6. ASSUME NEW s \in Sessions, Present(s) \/ Reserve(s) PROVE Issued'
  <2>1. UNCHANGED <<account, tokens, read>>
        /\ \E step \in Steps \ {"token", "activate"} : pc' = [pc EXCEPT ![s] = step]
    BY <1>6 DEF Present, Reserve, Steps
  <2> QED BY <2>1, GotoEffect DEF Issued, Knows
<1>7. ASSUME Register PROVE Issued'
  BY <1>7 DEF Register, Issued, Knows, Settled
<1>8. CASE UNCHANGED <<account, tokens, pc, read>>
  BY <1>8 DEF Issued, Knows
<1> QED BY <1>1, <1>2, <1>3, <1>4, <1>5, <1>6, <1>7, <1>8
        DEF Next, Tick, CreateLink, ReadLink, ReadDelay, SetLink, ConsumeLink, ExpireLink,
            requestVars, vars

LEMMA LinkStep == IInv /\ [Next]_vars => LinkInv'
<1> SUFFICES ASSUME IInv, [Next]_vars PROVE LinkInv'
  OBVIOUS
<1> LinkInv /\ verified \in Nat
  BY DEF IInv, TypeOK
<1>1. CASE UNCHANGED linkVars
  BY <1>1 DEF LinkInv, linkVars
<1>2. CASE CreateLink \/ ReadLink \/ ReadDelay \/ SetLink \/ ConsumeLink \/ ExpireLink
  BY <1>2 DEF LinkInv, CreateLink, ReadLink, ReadDelay, SetLink, ConsumeLink, ExpireLink, Follow
<1> QED BY <1>1, <1>2
        DEF Next, Begin, Send, Register, ReadAccount, Activate, IssueToken, Present, Refuse,
            Reserve, Commit, Fail, Tick, vars

LEMMA InvStep == IInv /\ [Next]_vars => IInv'
BY TypeStep, WaitingStep, SpendingStep, IssuedStep, LinkStep DEF IInv

LEMMA Inv == Spec => []IInv
BY InitInv, InvStep, PTL DEF Spec

----------------------------------------------------------------------------
(* Theorems. *)

\* Codes, accounts, withdrawals, locks and requests keep their types.
THEOREM Typing == Spec => []TypeOK
<1>1. IInv => TypeOK
  BY DEF IInv
<1> QED BY <1>1, Inv, PTL

\* A code confirms one withdrawal, whatever the requests that present it at the
\* same time and the quotes they present it for
\* (consume_withdrawal_verification).
THEOREM CodeConfirmsOnce == Spec => []OneWithdrawalPerCode
<1>1. IInv => OneWithdrawalPerCode
  BY DEF IInv
<1> QED BY <1>1, Inv, PTL

\* A failure before the commit never costs the driver the code: it is consumed
\* exactly when the quote it was presented for has a withdrawal
\* (reserve_withdrawal_from_quote).
THEOREM FailureKeepsTheCode == Spec => []ConsumedMeansReserved
<1>1. IInv => ConsumedMeansReserved
  BY CodeType DEF IInv, Spending, ConsumedMeansReserved, OfKind
<1> QED BY <1>1, Inv, PTL

\* Whoever holds a token finds the account verified, active or suspended, though
\* the token leaves before the end of its request and others may register or
\* verify meanwhile; and a verification that has read the account before never
\* moves one that is active or suspended (verify_otp).
THEOREM TokenAfterAccount == Spec => TokenMeansVerified
<1>1. IInv => (tokens => account \in {"active", "suspended"})
  BY DEF IInv, Issued, Settled
<1>2. IInv /\ [Next]_vars => [account \notin {"active", "suspended"}]_account
  <2> SUFFICES ASSUME IInv, [Next]_vars, account' # account
               PROVE  account \notin {"active", "suspended"}
    OBVIOUS
  <2>1. (\E s \in Sessions : Activate(s)) \/ Register
    BY DEF Next, Begin, Send, ReadAccount, IssueToken, Present, Refuse, Reserve, Commit, Fail, Tick,
           CreateLink, ReadLink, ReadDelay, SetLink, ConsumeLink, ExpireLink, requestVars, vars
  <2>2. CASE \E s \in Sessions : Activate(s)
    BY <2>2, Verifying DEF Settled
  <2>3. CASE Register
    BY <2>3 DEF Register
  <2> QED BY <2>1, <2>2, <2>3
<1> QED BY <1>1, <1>2, Inv, PTL DEF Spec, TokenMeansVerified

\* A return link is recognised at most once, though its context is written
\* again while a browser may be consuming it (bind_payment_intent, consume).
THEOREM LinkRecognisedOnce == Spec => []LinkVerifiesOnce
<1>1. IInv => LinkVerifiesOnce
  BY DEF IInv, LinkInv, LinkVerifiesOnce
<1> QED BY <1>1, Inv, PTL
=============================================================================

--------------------------- MODULE DriverDossierProofs ---------------------------
(***************************************************************************)
(* Proofs about DriverDossier, for any vehicles, documents, requests, keys   *)
(* and failures: a command takes effect once for its key, whatever overlaps; *)
(* and while requests do not overlap, what is active has been reviewed and   *)
(* what is refused says why.  What is published is what the reconciler would *)
(* compute, and says whom his dossiers let work.                             *)
(***************************************************************************)
EXTENDS DriverDossier, TLAPS

\* A request that is open has been accepted, and one with a key is a command.
Busy(s) ==
    /\ pc[s] # "idle" => op[s] \in Accepted
    /\ key[s] # None => op[s].act \in Commands

TInv == TypeOK /\ \A s \in Sessions : Busy(s)

----------------------------------------------------------------------------
(* Rows *)

LEMMA RowIs ==
  ASSUME NEW st \in {"absent", "pending", "active", "rejected"},
         NEW kyc \in {"pending", "approved", "rejected"}, NEW act \in BOOLEAN,
         NEW files \in SUBSET Docs,
         NEW rev \in [Docs -> {"none", "pending", "approved", "rejected"}]
  PROVE  Row(st, kyc, act, files, rev) \in Rows
BY DEF Row, Rows

LEMMA AbsentIs == Absent \in Rows /\ NoOp \notin Ops /\ \A x \in Dossiers : Absent.status = "absent"
<1>1. NoReview \in [Docs -> {"none", "pending", "approved", "rejected"}]
  BY DEF NoReview
<1>2. Absent \in Rows
  BY <1>1, RowIs DEF Absent
<1> QED BY <1>2 DEF Absent, Row, NoOp, Ops, Acts

LEMMA OpIs ==
  ASSUME NEW o \in Accepted
  PROVE  /\ o \in Ops /\ o.act \in Acts /\ o.on \in Dossiers
         /\ o.plus \in SUBSET Docs /\ o.minus \in SUBSET Docs
         /\ o.plus \cup o.minus \subseteq Papers[o.on] /\ o.plus \cap o.minus = {}
         /\ o.act = "reject" => o.minus # {}
BY DEF Accepted, Ops

LEMMA DecisionsAre ==
  ASSUME NEW r \in Rows, NEW yes, NEW no
  PROVE  Decisions(r, yes, no) \in [Docs -> {"none", "pending", "approved", "rejected"}]
BY DEF Decisions, Rows

LEMMA EffectIs ==
  ASSUME NEW o \in Accepted, NEW r \in Rows
  PROVE  Effect(o, r) \in Rows
<1>1. /\ o.plus \in SUBSET Docs /\ o.minus \in SUBSET Docs /\ o.act \in Acts
  BY OpIs
<1>2. r.files \in SUBSET Docs /\ r.kyc \in {"pending", "approved", "rejected"} /\ r.active \in BOOLEAN
      /\ r.reviews \in [Docs -> {"none", "pending", "approved", "rejected"}]
  BY DEF Rows
<1>3. /\ NoReview \in [Docs -> {"none", "pending", "approved", "rejected"}]
      /\ Resubmission(r, o) \in [Docs -> {"none", "pending", "approved", "rejected"}]
  BY <1>2 DEF NoReview, Resubmission
<1>4. /\ Created(o) \in Rows /\ Registered(o) \in Rows
  BY <1>1, <1>3, RowIs DEF Created, Registered
<1>5. ProfileResubmitted(r, o) \in Rows /\ VehicleResubmitted(r, o) \in Rows
  <2>1. Replaced(r, o) \in SUBSET Docs
    BY <1>1, <1>2 DEF Replaced
  <2> QED BY <1>2, <1>3, <2>1, RowIs DEF ProfileResubmitted, VehicleResubmitted
<1>6. ProfileApproved(r, o) \in Rows /\ VehicleApproved(r, o) \in Rows
  BY <1>2, DecisionsAre, RowIs DEF ProfileApproved, VehicleApproved
<1>7. ProfileRejected(r, o) \in Rows /\ VehicleRejected(r, o) \in Rows
  BY <1>2, DecisionsAre, RowIs DEF ProfileRejected, VehicleRejected
<1>8. Assigned(r) \in Rows
  BY <1>2, RowIs DEF Assigned
<1> QED BY <1>4, <1>5, <1>6, <1>7, <1>8 DEF Effect

LEMMA MergedIs ==
  ASSUME TInv, NEW s \in Sessions, pc[s] = "write"
  PROVE  Merged(s) \in Rows
<1>1. copy[s] \in Rows /\ seen[s] \in Rows /\ row[op[s].on] \in Rows
  BY OpIs DEF TInv, TypeOK, Busy
<1> DEFINE mine == copy[s]
           read == seen[s]
           now == row[op[s].on]
<1>2. /\ Column(mine.status, read.status, now.status) \in {"absent", "pending", "active", "rejected"}
      /\ Column(mine.kyc, read.kyc, now.kyc) \in {"pending", "approved", "rejected"}
      /\ Column(mine.active, read.active, now.active) \in BOOLEAN
      /\ Column(mine.reviews, read.reviews, now.reviews)
            \in [Docs -> {"none", "pending", "approved", "rejected"}]
      /\ mine.reviews \in [Docs -> {"none", "pending", "approved", "rejected"}]
  BY <1>1 DEF Column, Rows
<1> HIDE DEF mine, read, now
<1> QED BY <1>2, RowIs DEF Merged, mine, read, now

----------------------------------------------------------------------------
(* Types *)

LEMMA TypeInit == Init => TInv
<1> SUFFICES ASSUME Init PROVE TInv
  OBVIOUS
<1>1. /\ row \in [Dossiers -> Rows] /\ copy \in [Sessions -> Rows]
      /\ seen \in [Sessions -> Rows] /\ profile \in [Sessions -> Rows]
  BY AbsentIs DEF Init
<1>2. /\ requests \in 0 .. MaxRequests /\ faults \in 0 .. MaxFaults
      /\ executed \in [Keys -> Nat]
  BY DossierAssumption DEF Init
<1>3. /\ cmd \in [Keys -> [state : {"free", "pending", "done"}, op : Ops \cup {NoOp}]]
      /\ audited \in [Keys -> SUBSET (Commands \X BOOLEAN)]
      /\ holder \in [Dossiers -> Sessions \cup {None}]
  BY DEF Init, Free
<1>4. TypeOK
  BY <1>1, <1>2, <1>3 DEF Init, TypeOK, Statuses
<1>5. \A s \in Sessions : Busy(s)
  BY DEF Init, Busy
<1> QED BY <1>4, <1>5 DEF TInv

\* A session that is closed has nothing and holds nothing, and the others keep
\* what they have.
LEMMA ClosedWith ==
  ASSUME TInv, NEW s \in Sessions, Close(s), row' \in [Dossiers -> Rows], published' \in Statuses,
         audited' \in [Keys -> SUBSET (Commands \X BOOLEAN)],
         cmd' \in [Keys -> [state : {"free", "pending", "done"}, op : Ops \cup {NoOp}]],
         overlapped' \in BOOLEAN, lost' \in BOOLEAN, executed' \in [Keys -> Nat],
         requests' \in 0 .. MaxRequests, faults' \in 0 .. MaxFaults
  PROVE  TInv'
<1>1. Absent \in Rows
  BY AbsentIs
<1>2. /\ pc' \in [Sessions -> {"idle", "save", "write", "commit", "complete"}]
      /\ op' \in [Sessions -> Ops \cup {NoOp}] /\ key' \in [Sessions -> Keys \cup {None}]
      /\ copy' \in [Sessions -> Rows] /\ seen' \in [Sessions -> Rows]
      /\ profile' \in [Sessions -> Rows] /\ told' \in [Sessions -> Statuses]
  BY <1>1 DEF Close, Goto, TInv, TypeOK, Statuses
<1>3. /\ pc'[s] = "idle" /\ key'[s] = None
      /\ \A t \in Sessions \ {s} : pc'[t] = pc[t] /\ op'[t] = op[t] /\ key'[t] = key[t]
  BY DEF Close, Goto, TInv, TypeOK
<1>4. \A x \in Dossiers : holder'[x] = None \/ (holder'[x] = holder[x] /\ holder[x] # s)
  BY DEF Close
<1>5. holder' \in [Dossiers -> Sessions \cup {None}]
  BY DEF Close, TInv, TypeOK
<1>6. \A t \in Sessions : /\ pc'[t] \in {"save", "write", "commit"} => op'[t] \in Ops
                          /\ pc'[t] = "complete" => key'[t] \in Keys
                          /\ pc'[t] = "idle" => key'[t] = None
  BY <1>3 DEF TInv, TypeOK
<1>7. \A x \in Dossiers : holder'[x] # None => pc'[holder'[x]] = "commit" /\ op'[holder'[x]].on = x
  BY <1>3, <1>4 DEF TInv, TypeOK
<1>8. TypeOK'
  BY <1>2, <1>5, <1>6, <1>7 DEF TypeOK
<1>9. \A t \in Sessions : Busy(t)'
  BY <1>3 DEF TInv, Busy
<1> QED BY <1>8, <1>9 DEF TInv

LEMMA BeginTyped ==
  ASSUME TInv, NEW s \in Sessions, NEW o \in Accepted, NEW k \in Keys \cup {None}, Begin(s, o, k)
  PROVE  TInv'
<1> USE DEF rows, local, history, counts
<1>1. o \in Ops /\ o.on \in Dossiers
  BY OpIs
<1>2. row[o.on] \in Rows /\ row[Profile] \in Rows /\ Effect(o, row[o.on]) \in Rows
  BY <1>1, EffectIs DEF TInv, TypeOK, Dossiers
<1>3. /\ pc' \in [Sessions -> {"idle", "save", "write", "commit", "complete"}]
      /\ op' \in [Sessions -> Ops \cup {NoOp}] /\ key' \in [Sessions -> Keys \cup {None}]
      /\ copy' \in [Sessions -> Rows] /\ seen' \in [Sessions -> Rows]
      /\ profile' \in [Sessions -> Rows]
  BY <1>1, <1>2 DEF Begin, Goto, TInv, TypeOK
<1>4. /\ pc[s] = "idle" /\ pc'[s] \in {"save", "write"} /\ op'[s] = o /\ key'[s] = k
      /\ \A t \in Sessions \ {s} : pc'[t] = pc[t] /\ op'[t] = op[t] /\ key'[t] = key[t]
  BY DEF Begin, Goto, TInv, TypeOK
<1>5. k # None => o.act \in Commands
  BY DEF Begin, Reserve
<1>6. cmd' \in [Keys -> [state : {"free", "pending", "done"}, op : Ops \cup {NoOp}]]
  <2>1. \/ cmd' = cmd
        \/ k \in Keys /\ cmd' = [cmd EXCEPT ![k] = [state |-> "pending", op |-> o]]
    BY DEF Begin, Reserve
  <2> QED BY <1>1, <2>1 DEF TInv, TypeOK
<1>7. requests' \in 0 .. MaxRequests /\ overlapped' \in BOOLEAN
  <2>1. requests \in Nat /\ requests < MaxRequests /\ requests' = requests + 1
    BY DossierAssumption DEF Begin, TInv, TypeOK
  <2>2. requests' \in 0 .. MaxRequests
    BY <2>1, DossierAssumption
  <2>3. overlapped' \in BOOLEAN
    BY DEF Begin, TInv, TypeOK
  <2> QED BY <2>2, <2>3
<1>8. \A x \in Dossiers : holder[x] # None => holder[x] # s
  BY <1>4 DEF TInv, TypeOK
<1>9. TypeOK'
  BY <1>1, <1>3, <1>4, <1>6, <1>7, <1>8 DEF Begin, TInv, TypeOK
<1>10. \A t \in Sessions : Busy(t)'
  BY <1>4, <1>5 DEF TInv, Busy
<1> QED BY <1>9, <1>10 DEF TInv

LEMMA SaveTyped ==
  ASSUME TInv, NEW s \in Sessions, Save(s)
  PROVE  TInv'
<1> USE DEF rows, history, counts
<1>1. row[op[s].on] \in Rows /\ op[s] \in Ops
  BY OpIs DEF Save, TInv, TypeOK, Busy
<1>2. /\ pc[s] = "save" /\ pc'[s] = "write"
      /\ \A t \in Sessions \ {s} : pc'[t] = pc[t]
      /\ pc' \in [Sessions -> {"idle", "save", "write", "commit", "complete"}]
      /\ seen' \in [Sessions -> Rows]
  BY <1>1 DEF Save, Goto, TInv, TypeOK
<1>3. TypeOK'
  BY <1>1, <1>2 DEF Save, TInv, TypeOK
<1>4. \A t \in Sessions : Busy(t)'
  BY <1>2 DEF Save, TInv, Busy
<1> QED BY <1>3, <1>4 DEF TInv

LEMMA WriteTyped ==
  ASSUME TInv, NEW s \in Sessions, Write(s)
  PROVE  TInv'
<1> USE DEF rows, history, counts
<1>1. op[s] \in Ops /\ op[s].on \in Dossiers
  BY OpIs DEF Write, TInv, Busy
<1>2. Merged(s) \in Rows
  BY MergedIs DEF Write
<1>3. /\ pc[s] = "write" /\ pc'[s] = "commit"
      /\ \A t \in Sessions \ {s} : pc'[t] = pc[t]
      /\ pc' \in [Sessions -> {"idle", "save", "write", "commit", "complete"}]
  BY DEF Write, Goto, TInv, TypeOK
<1>4. copy' \in [Sessions -> Rows]
  BY <1>2 DEF Write, TInv, TypeOK
<1>5. told' \in [Sessions -> Statuses]
  <2>1. \A p, v : OperationalStatus(p, v) \in Statuses
    BY DEF OperationalStatus, Statuses
  <2>2. PICK v \in Found([row EXCEPT ![op[s].on] = copy'[s]]) :
            told' = [told EXCEPT ![s] = IF op[s].act \in {"touch", "assign"} THEN "none"
                                        ELSE OperationalStatus(Loaded(s, copy[s]), v)]
    BY DEF Write
  <2>3. "none" \in Statuses
    BY DEF Statuses
  <2> QED BY <2>1, <2>2, <2>3 DEF TInv, TypeOK
<1>6. /\ holder' \in [Dossiers -> Sessions \cup {None}]
      /\ holder'[op[s].on] = s /\ \A x \in Dossiers \ {op[s].on} : holder'[x] = holder[x]
  BY <1>1 DEF Write, TInv, TypeOK
<1>7. \A x \in Dossiers : holder'[x] # None => pc'[holder'[x]] = "commit" /\ op'[holder'[x]].on = x
  BY <1>1, <1>3, <1>6 DEF Write, TInv, TypeOK
<1>8. TypeOK'
  BY <1>1, <1>3, <1>4, <1>5, <1>6, <1>7 DEF Write, TInv, TypeOK
<1>9. \A t \in Sessions : Busy(t)'
  BY <1>3 DEF Write, TInv, Busy
<1> QED BY <1>8, <1>9 DEF TInv

LEMMA CommitTyped ==
  ASSUME TInv, NEW s \in Sessions, Commit(s)
  PROVE  TInv'
<1> USE DEF local, counts
<1>1. op[s] \in Ops /\ op[s].on \in Dossiers /\ copy[s] \in Rows /\ told[s] \in Statuses
  BY OpIs DEF Commit, TInv, TypeOK, Busy
<1>2. row' \in [Dossiers -> Rows] /\ published' \in Statuses
  BY <1>1 DEF Commit, TInv, TypeOK
<1>3. CASE key[s] = None
  BY <1>2, <1>3, ClosedWith DEF Commit, TInv, TypeOK
<1>4. CASE key[s] # None
  <2>1. key[s] \in Keys /\ op[s].act \in Commands /\ pc[s] = "commit"
    BY <1>4 DEF Commit, TInv, TypeOK, Busy
  <2>2. executed' \in [Keys -> Nat]
    BY <1>4, <2>1 DEF Commit, TInv, TypeOK
  <2>3. audited' \in [Keys -> SUBSET (Commands \X BOOLEAN)]
    <3> DEFINE mark == <<op[s].act, op[s].on = Profile>>
           marks == Commands \X BOOLEAN
    <3>1. mark \in marks
      BY <2>1, Zenon
    <3>2. audited' = [audited EXCEPT ![key[s]] = @ \cup {mark}]
      BY <1>4 DEF Commit, Audit
    <3>3. audited \in [Keys -> SUBSET marks]
      BY DEF TInv, TypeOK
    <3> HIDE DEF mark, marks
    <3>4. audited' \in [Keys -> SUBSET marks]
      BY <2>1, <3>1, <3>2, <3>3
    <3> QED BY <3>4 DEF marks
  <2>4. /\ pc'[s] = "complete" /\ \A t \in Sessions \ {s} : pc'[t] = pc[t]
        /\ pc' \in [Sessions -> {"idle", "save", "write", "commit", "complete"}]
        /\ UNCHANGED <<op, key, copy, seen, profile, told>>
    BY <1>4 DEF Commit, Goto, TInv, TypeOK
  <2>5. /\ holder' \in [Dossiers -> Sessions \cup {None}]
        /\ \A x \in Dossiers : holder'[x] # None => holder'[x] = holder[x] /\ holder[x] # s
    <3>1. holder' = [holder EXCEPT ![op[s].on] = None]
      BY <1>4 DEF Commit
    <3>2. /\ holder \in [Dossiers -> Sessions \cup {None}]
          /\ \A x \in Dossiers \ {op[s].on} : holder[x] # s
      BY DossierAssumption DEF TInv, TypeOK
    <3> QED BY <3>1, <3>2
  <2>6. \A t \in Sessions : /\ pc'[t] \in {"save", "write", "commit"} => op'[t] \in Ops
                            /\ pc'[t] = "complete" => key'[t] \in Keys
                            /\ pc'[t] = "idle" => key'[t] = None
    BY <2>1, <2>4 DEF TInv, TypeOK
  <2>7. \A x \in Dossiers : holder'[x] # None => pc'[holder'[x]] = "commit" /\ op'[holder'[x]].on = x
    BY <2>4, <2>5 DEF TInv, TypeOK
  <2>8. UNCHANGED <<cmd, overlapped, lost, requests, faults>>
    BY DEF Commit
  <2>9. TypeOK'
    BY <1>2, <2>2, <2>3, <2>4, <2>5, <2>6, <2>7, <2>8 DEF TInv, TypeOK
  <2>10. \A t \in Sessions : Busy(t)'
    BY <2>1, <2>4 DEF TInv, Busy
  <2> QED BY <2>9, <2>10 DEF TInv
<1> QED BY <1>3, <1>4

LEMMA Faulty ==
  ASSUME TInv, Fault
  PROVE  faults' \in 0 .. MaxFaults
<1>1. faults \in Nat /\ faults < MaxFaults /\ faults' = faults + 1
  BY DossierAssumption DEF Fault, TInv, TypeOK
<1> QED BY <1>1, DossierAssumption

LEMMA Released ==
  ASSUME TInv, NEW k \in Keys \cup {None}, Release(k)
  PROVE  cmd' \in [Keys -> [state : {"free", "pending", "done"}, op : Ops \cup {NoOp}]]
<1>1. Free \in [state : {"free", "pending", "done"}, op : Ops \cup {NoOp}]
  BY DEF Free
<1> QED BY <1>1 DEF Release, TInv, TypeOK

LEMMA EndsTyped ==
  ASSUME TInv, NEW s \in Sessions, Finish(s) \/ Fail(s) \/ Forget(s) \/ Crash(s)
  PROVE  TInv'
<1> USE DEF rows, history, counts
<1>1. CASE Finish(s)
  <2>1. key[s] \in Keys /\ op[s] \in Ops \cup {NoOp}
    BY <1>1 DEF Finish, TInv, TypeOK
  <2>2. cmd' \in [Keys -> [state : {"free", "pending", "done"}, op : Ops \cup {NoOp}]]
    BY <1>1, <2>1 DEF Finish, TInv, TypeOK
  <2> QED BY <1>1, <2>2, ClosedWith DEF Finish, TInv, TypeOK
<1>2. CASE Fail(s)
  <2>1. faults' \in 0 .. MaxFaults
    BY <1>2, Faulty DEF Fail, TInv, TypeOK
  <2>2. key[s] \in Keys \cup {None}
    BY DEF TInv, TypeOK
  <2>3. cmd' \in [Keys -> [state : {"free", "pending", "done"}, op : Ops \cup {NoOp}]]
    BY <1>2, <2>2, Released DEF Fail
  <2> QED BY <1>2, <2>1, <2>3, ClosedWith DEF Fail, TInv, TypeOK
<1>3. CASE Forget(s)
  <2>1. faults' \in 0 .. MaxFaults
    BY <1>3, Faulty DEF Forget
  <2>2. key[s] \in Keys \cup {None}
    BY DEF TInv, TypeOK
  <2>3. cmd' \in [Keys -> [state : {"free", "pending", "done"}, op : Ops \cup {NoOp}]]
    BY <1>3, <2>2, Released DEF Forget
  <2> QED BY <1>3, <2>1, <2>3, ClosedWith DEF Forget, TInv, TypeOK
<1>4. CASE Crash(s)
  <2>1. faults' \in 0 .. MaxFaults
    BY <1>4, Faulty DEF Crash
  <2> QED BY <1>4, <2>1, ClosedWith DEF Crash, TInv, TypeOK
<1> QED BY <1>1, <1>2, <1>3, <1>4

LEMMA ExpireTyped ==
  ASSUME TInv, NEW k \in Keys, Expire(k)
  PROVE  TInv'
<1> USE DEF rows, local
<1>1. faults' \in 0 .. MaxFaults
  BY Faulty DEF Expire
<1>2. cmd' \in [Keys -> [state : {"free", "pending", "done"}, op : Ops \cup {NoOp}]]
  BY DEF Expire, Free, TInv, TypeOK
<1>3. TypeOK'
  BY <1>1, <1>2 DEF Expire, TInv, TypeOK
<1>4. \A t \in Sessions : Busy(t)'
  BY DEF Expire, TInv, Busy
<1> QED BY <1>3, <1>4 DEF TInv

LEMMA TypeNext == TInv /\ [Next]_vars => TInv'
<1> SUFFICES ASSUME TInv, [Next]_vars PROVE TInv'
  OBVIOUS
<1>1. CASE UNCHANGED vars
  BY <1>1 DEF vars, rows, local, history, counts, TInv, TypeOK, Busy
<1>2. ASSUME NEW s \in Sessions, NEW o \in Accepted, NEW k \in Keys \cup {None}, Begin(s, o, k)
      PROVE  TInv'
  BY <1>2, BeginTyped
<1>3. ASSUME NEW s \in Sessions,
             \/ Save(s) \/ Write(s) \/ Commit(s) \/ Finish(s)
             \/ Fail(s) \/ Forget(s) \/ Crash(s)
      PROVE  TInv'
  BY <1>3, SaveTyped, WriteTyped, CommitTyped, EndsTyped
<1>4. ASSUME NEW k \in Keys, Expire(k) PROVE TInv'
  BY <1>4, ExpireTyped
<1> QED BY <1>1, <1>2, <1>3, <1>4 DEF Next

LEMMA TypeAlways == Spec => []TInv
BY TypeInit, TypeNext, PTL DEF Spec

\* Dossiers, commands and requests keep their types, and a row that is locked
\* is locked by a request that is about to commit it.
THEOREM Typing == Spec => []TypeOK
<1>1. TInv => TypeOK
  BY DEF TInv
<1> QED BY <1>1, TypeAlways, PTL

----------------------------------------------------------------------------
(* Once per key *)

\* A request holds the reservation of its key alone, and has no effect under it
\* before its commit; a key that is free has been used for none.  Redis may lose
\* this: then only the record remains.
Reserved(s) ==
    key[s] # None =>
        /\ cmd[key[s]] # Free
        /\ \A t \in Sessions : key[t] = key[s] => t = s
        /\ pc[s] \in {"save", "write", "commit"} => executed[key[s]] = 0
Reserves ==
    /\ \A s \in Sessions : Reserved(s)
    /\ \A k \in Keys : cmd[k] = Free => executed[k] = 0

KInv == TInv /\ (~lost => Reserves) /\ OncePerKey

LEMMA KeyInit == Init => KInv
<1> SUFFICES ASSUME Init PROVE KInv
  OBVIOUS
<1>1. TInv
  BY TypeInit
<1>2. Reserves
  BY DEF Init, Reserves, Reserved
<1>3. OncePerKey
  BY DEF Init, OncePerKey
<1> QED BY <1>1, <1>2, <1>3 DEF KInv

\* The session that ends gives its key up, and no effect is made.
LEMMA KeyClosed ==
  ASSUME KInv, TInv', NEW s \in Sessions, Close(s), UNCHANGED <<executed, audited>>,
         lost => lost',
         ~lost' => /\ \A k \in Keys : k # key[s] => cmd'[k] = cmd[k]
                   /\ key[s] # None /\ cmd'[key[s]] = Free => executed[key[s]] = 0
  PROVE  KInv'
<1>1. key'[s] = None /\ \A t \in Sessions \ {s} : key'[t] = key[t] /\ pc'[t] = pc[t]
  BY DEF Close, Goto, KInv, TInv, TypeOK
<1>2. ASSUME ~lost' PROVE Reserves'
  <2>1. Reserves
    BY <1>2 DEF KInv
  <2>2. ASSUME NEW t \in Sessions, key'[t] # None PROVE Reserved(t)'
    <3>1. t # s /\ key'[t] = key[t] /\ key[t] \in Keys /\ pc'[t] = pc[t]
      BY <1>1, <2>2 DEF KInv, TInv, TypeOK
    <3>2. key[t] # key[s]
      BY <2>1, <2>2, <3>1 DEF Reserves, Reserved
    <3> QED BY <1>1, <1>2, <2>1, <2>2, <3>1, <3>2 DEF Reserves, Reserved
  <2>3. \A k \in Keys : cmd'[k] = Free => executed'[k] = 0
    BY <1>2, <2>1, DossierAssumption DEF Reserves
  <2> QED BY <2>2, <2>3 DEF Reserves, Reserved
<1>3. OncePerKey'
  BY DEF KInv, OncePerKey
<1> QED BY <1>2, <1>3 DEF KInv

LEMMA KeyBegin ==
  ASSUME KInv, TInv', NEW s \in Sessions, NEW o \in Accepted, NEW k \in Keys \cup {None},
         Begin(s, o, k)
  PROVE  KInv'
<1> USE DEF rows, local, history, counts
<1>1. /\ key'[s] = k /\ pc'[s] \in {"save", "write"}
      /\ \A t \in Sessions \ {s} : key'[t] = key[t] /\ pc'[t] = pc[t]
      /\ UNCHANGED <<executed, audited, lost>>
  BY DEF Begin, Goto, KInv, TInv, TypeOK
<1>2. \/ k = None /\ cmd' = cmd
      \/ /\ k \in Keys /\ cmd[k] = Free /\ cmd'[k] # Free
         /\ \A j \in Keys \ {k} : cmd'[j] = cmd[j]
  BY DossierAssumption DEF Begin, Reserve, Unused, Free, KInv, TInv, TypeOK
<1>3. ASSUME ~lost PROVE Reserves'
  <2>1. Reserves
    BY <1>3 DEF KInv
  <2>2. \A t \in Sessions : key[t] \in Keys \cup {None}
    BY DEF KInv, TInv, TypeOK
  <2>3. k # None => \A t \in Sessions : key[t] # k
    BY <1>2, <2>1 DEF Reserves, Reserved
  <2>4. \A t \in Sessions : Reserved(t)'
    BY <1>1, <1>2, <2>1, <2>2, <2>3 DEF Reserves, Reserved
  <2>5. \A j \in Keys : cmd'[j] = Free => executed'[j] = 0
    BY <1>1, <1>2, <2>1 DEF Reserves
  <2> QED BY <2>4, <2>5 DEF Reserves
<1>4. OncePerKey'
  BY <1>1 DEF KInv, OncePerKey
<1> QED BY <1>1, <1>3, <1>4 DEF KInv

\* Save and Write do not touch keys.
LEMMA KeyWorks ==
  ASSUME KInv, TInv', NEW s \in Sessions, Save(s) \/ Write(s)
  PROVE  KInv'
<1> USE DEF rows, history, counts
<1>1. /\ pc[s] \in {"save", "write"} /\ \A t \in Sessions \ {s} : pc'[t] = pc[t]
      /\ UNCHANGED <<key, cmd, executed, audited, lost>>
  BY DEF Save, Write, Goto, KInv, TInv, TypeOK
<1>2. ~lost => Reserves'
  BY <1>1 DEF KInv, Reserves, Reserved
<1>3. OncePerKey'
  BY <1>1 DEF KInv, OncePerKey
<1> QED BY <1>1, <1>2, <1>3 DEF KInv

LEMMA KeyCommit ==
  ASSUME KInv, TInv', NEW s \in Sessions, Commit(s)
  PROVE  KInv'
<1> USE DEF local, counts
<1>1. UNCHANGED <<cmd, lost>> /\ pc[s] = "commit"
  BY DEF Commit
<1>2. CASE key[s] = None
  BY <1>1, <1>2, KeyClosed DEF Commit
<1>3. CASE key[s] # None
  <2>1. key[s] \in Keys /\ executed[key[s]] \in Nat
    BY <1>3 DEF KInv, TInv, TypeOK
  <2>2. /\ executed'[key[s]] = executed[key[s]] + 1
        /\ \A k \in Keys \ {key[s]} : executed'[k] = executed[k] /\ audited'[k] = audited[k]
        /\ audited'[key[s]] # {}
        /\ key' = key /\ pc'[s] = "complete" /\ \A t \in Sessions \ {s} : pc'[t] = pc[t]
    <3> DEFINE mark == <<op[s].act, op[s].on = Profile>>
    <3>1. audited' = [audited EXCEPT ![key[s]] = @ \cup {mark}]
      BY <1>3 DEF Commit, Audit
    <3> HIDE DEF mark
    <3> QED BY <1>3, <2>1, <3>1 DEF Commit, Goto, KInv, TInv, TypeOK
  <2>3. ASSUME ~lost PROVE Reserves'
    <3>1. Reserves
      BY <2>3 DEF KInv
    <3>2. \A t \in Sessions \ {s} : key[t] # key[s] /\ key[t] \in Keys \cup {None}
      BY <1>3, <3>1 DEF Reserves, Reserved, KInv, TInv, TypeOK
    <3>3. \A t \in Sessions : Reserved(t)'
      BY <1>1, <2>2, <3>1, <3>2 DEF Reserves, Reserved
    <3>4. \A k \in Keys : cmd'[k] = Free => executed'[k] = 0
      BY <1>1, <1>3, <2>2, <3>1 DEF Reserves, Reserved
    <3> QED BY <3>3, <3>4 DEF Reserves
  <2>4. ~lost => executed[key[s]] = 0
    BY <1>1, <1>3 DEF KInv, Reserves, Reserved
  <2>5. OncePerKey'
    BY <1>1, <2>1, <2>2, <2>4 DEF KInv, OncePerKey
  <2> QED BY <1>1, <2>3, <2>5 DEF KInv
<1> QED BY <1>2, <1>3

LEMMA KeyEnds ==
  ASSUME KInv, TInv', NEW s \in Sessions, Finish(s) \/ Fail(s) \/ Forget(s) \/ Crash(s)
  PROVE  KInv'
<1> USE DEF rows, history, counts
<1>1. CASE Finish(s)
  <2>1. /\ \A k \in Keys : k # key[s] => cmd'[k] = cmd[k]
        /\ key[s] \in Keys /\ cmd'[key[s]] # Free
    BY <1>1 DEF Finish, Free, KInv, TInv, TypeOK
  <2> QED BY <1>1, <2>1, KeyClosed DEF Finish
<1>2. CASE Fail(s)
  <2>1. \A k \in Keys : k # key[s] => cmd'[k] = cmd[k]
    BY <1>2 DEF Fail, Release, KInv, TInv, TypeOK
  <2>2. ~lost /\ key[s] # None => executed[key[s]] = 0
    BY <1>2 DEF Fail, KInv, Reserves, Reserved
  <2> QED BY <1>2, <2>1, <2>2, KeyClosed DEF Fail
<1>3. CASE Forget(s)
  BY <1>3, KeyClosed DEF Forget
<1>4. CASE Crash(s)
  <2>1. key[s] # None /\ ~lost => cmd[key[s]] # Free
    BY DEF KInv, Reserves, Reserved
  <2> QED BY <1>4, <2>1, KeyClosed DEF Crash
<1> QED BY <1>1, <1>2, <1>3, <1>4

LEMMA KeyNext == KInv /\ [Next]_vars => KInv'
<1> SUFFICES ASSUME KInv, [Next]_vars PROVE KInv'
  OBVIOUS
<1>1. TInv'
  BY TypeNext DEF KInv
<1>2. CASE UNCHANGED vars
  BY <1>1, <1>2 DEF vars, rows, local, history, counts, KInv, Reserves, Reserved, OncePerKey
<1>3. ASSUME NEW s \in Sessions, NEW o \in Accepted, NEW k \in Keys \cup {None}, Begin(s, o, k)
      PROVE  KInv'
  BY <1>1, <1>3, KeyBegin
<1>4. ASSUME NEW s \in Sessions,
             \/ Save(s) \/ Write(s) \/ Commit(s) \/ Finish(s)
             \/ Fail(s) \/ Forget(s) \/ Crash(s)
      PROVE  KInv'
  BY <1>1, <1>4, KeyWorks, KeyCommit, KeyEnds
<1>5. ASSUME NEW k \in Keys, Expire(k) PROVE KInv'
  BY <1>1, <1>5 DEF Expire, KInv, OncePerKey, rows
<1> QED BY <1>2, <1>3, <1>4, <1>5 DEF Next

\* A command takes effect at most once for its key, whatever requests overlap,
\* fail or die, as long as Redis keeps the reservations; and the audit records
\* an effect under each key exactly when there is one, whatever Redis loses.
THEOREM CommandOnce == Spec => []OncePerKey
<1>1. KInv => OncePerKey
  BY DEF KInv
<1> QED BY <1>1, KeyInit, KeyNext, PTL DEF Spec

----------------------------------------------------------------------------
(* Reviews *)

\* A dossier that is active has been reviewed, and one that is refused says why.
Good(x, r) ==
    /\ r.status = "active" =>
          Complete(r, x) /\ AllApproved(r.reviews, x) /\ (x = Profile => r.kyc = "approved")
    /\ x = Profile /\ r.kyc = "rejected" => \E d \in Papers[x] : r.reviews[d] = "rejected"
    /\ x \in Vehicles /\ r.status = "rejected" => \E d \in Required[x] : r.reviews[d] = "rejected"

LEMMA PapersAre ==
  ASSUME NEW x \in Dossiers
  PROVE  Papers[x] \subseteq Docs /\ Required[x] \subseteq Papers[x] /\ Required[x] \subseteq Docs
BY DossierAssumption

\* An operation that was admitted makes a good dossier of a good one.
LEMMA EffectGood ==
  ASSUME NEW o \in Accepted, NEW r \in Rows, Good(o.on, r), o.act = "approve" => MayApprove(o, r)
  PROVE  Good(o.on, Effect(o, r))
<1> DEFINE x == o.on
<1>1. /\ x \in Dossiers /\ o.act \in Acts /\ o.plus \cup o.minus \subseteq Papers[x]
      /\ o.plus \cap o.minus = {} /\ (o.act = "reject" => o.minus # {})
      /\ Papers[x] \subseteq Docs /\ Required[x] \subseteq Papers[x]
  BY OpIs, PapersAre
<1> HIDE DEF x
<1>2. CASE o.act \in {"create", "register"}
  BY <1>2, OpIs DEF Effect, Created, Registered, Row, Good
<1>3. CASE o.act = "resubmit"
  <2>1. \/ x = Profile /\ Effect(o, r) = ProfileResubmitted(r, o)
        \/ x \in Vehicles /\ x # Profile /\ Effect(o, r) = VehicleResubmitted(r, o)
    BY <1>1, <1>3, DossierAssumption DEF Effect, Dossiers, x
  <2> QED BY <2>1 DEF ProfileResubmitted, VehicleResubmitted, Row, Good, x
<1>4. CASE o.act = "approve"
  <2> DEFINE given == Decisions(r, Granted(o), {})
  <2>1. Complete(r, x) /\ AllApproved(given, x)
    BY <1>4 DEF MayApprove, x
  <2>2. \/ x = Profile /\ Effect(o, r) = Row("active", "approved", r.active, r.files, given)
        \/ x \in Vehicles /\ x # Profile /\ Effect(o, r) = Row("active", r.kyc, TRUE, r.files, given)
    BY <1>1, <1>4, DossierAssumption DEF Effect, Dossiers, ProfileApproved, VehicleApproved, x
  <2> HIDE DEF given
  <2>3. /\ Effect(o, r).status = "active" /\ Effect(o, r).files = r.files
        /\ Effect(o, r).reviews = given /\ (x = Profile => Effect(o, r).kyc = "approved")
    BY <2>2 DEF Row
  <2> QED BY <2>1, <2>3 DEF Good, Complete, x
<1>5. CASE o.act = "reject"
  <2> DEFINE given == Decisions(r, o.plus, o.minus)
  <2>1. \A d \in o.minus : given[d] = "rejected"
    BY <1>1 DEF Decisions
  <2>2. CASE x = Profile
    <3>1. Effect(o, r) = Row("pending", "rejected", r.active, r.files, given)
      BY <1>5, <2>2 DEF Effect, ProfileRejected, x
    <3>2. \E d \in Papers[x] : given[d] = "rejected"
      BY <1>1, <1>5, <2>1
    <3>3. x \notin Vehicles
      BY <2>2, DossierAssumption
    <3> QED BY <3>1, <3>2, <3>3 DEF Row, Good, x
  <2>3. CASE x # Profile
    <3>1. Effect(o, r) = VehicleRejected(r, o)
      BY <1>5, <2>3 DEF Effect, x
    <3>2. /\ Effect(o, r).reviews = given /\ Effect(o, r).files = r.files
          /\ Effect(o, r).status = IF \E d \in Required[x] : given[d] = "rejected" THEN "rejected"
                                   ELSE IF r.status = "active" THEN "active" ELSE "pending"
      BY <3>1 DEF VehicleRejected, Row, x
    <3>3. \A d \in Required[x] : given[d] \in {"approved", "rejected", r.reviews[d]}
      BY <1>1 DEF Decisions
    <3> HIDE DEF given
    <3>4. Effect(o, r).status = "active" => Complete(r, x) /\ AllApproved(given, x)
      BY <3>2, <3>3 DEF Good, AllApproved, x
    <3> QED BY <2>3, <3>2, <3>4 DEF Good, Complete, x
  <2> QED BY <2>2, <2>3
<1>6. CASE o.act = "assign"
  <2>1. Effect(o, r) = Assigned(r) /\ x # Profile
    BY <1>6, DossierAssumption DEF Effect, Accepted, x
  <2>2. CASE r.status = "active"
    BY <2>1, <2>2 DEF Assigned
  <2>3. CASE r.status # "active"
    <3>1. Effect(o, r).status = "pending"
      BY <2>1, <2>3 DEF Assigned, Row
    <3> QED BY <2>1, <3>1 DEF Good, x
  <2> QED BY <2>2, <2>3
<1>7. CASE o.act = "touch"
  BY <1>7 DEF Effect
<1> QED BY <1>1, <1>2, <1>3, <1>4, <1>5, <1>6, <1>7 DEF Acts

\* While requests do not overlap, the one that is open has read what is still
\* there, and was admitted on it.
Prepared(s) ==
    LET o == op[s] r == row[op[s].on] IN
    /\ pc[s] \in {"save", "write"} =>
          /\ copy[s] = Effect(o, r) /\ (o.act = "approve" => MayApprove(o, r))
          /\ pc[s] = "write" => seen[s] = r
    /\ pc[s] = "commit" => Good(o.on, copy[s])
Alone ==
    /\ \A s, t \in Sessions : pc[s] # "idle" /\ pc[t] # "idle" => s = t
    /\ \A s \in Sessions : Prepared(s)
    /\ \A x \in Dossiers : Good(x, row[x])
RInv == TInv /\ (~overlapped => Alone)

LEMMA ReviewInit == Init => RInv
<1> SUFFICES ASSUME Init PROVE RInv
  OBVIOUS
<1>1. TInv
  BY TypeInit
<1>2. Absent.status = "absent" /\ Absent.kyc = "pending"
  BY DEF Absent, Row
<1>3. \A x \in Dossiers : Good(x, row[x])
  BY <1>2 DEF Init, Good
<1>4. Alone
  BY <1>3 DEF Init, Alone, Prepared
<1> QED BY <1>1, <1>4 DEF RInv

LEMMA ReviewBegin ==
  ASSUME RInv, TInv', NEW s \in Sessions, NEW o \in Accepted, NEW k \in Keys \cup {None},
         Begin(s, o, k)
  PROVE  RInv'
<1> USE DEF rows, history
<1> SUFFICES ASSUME ~overlapped' PROVE Alone'
  BY DEF RInv
<1>1. ~overlapped /\ \A t \in Sessions \ {s} : pc[t] = "idle"
  BY DEF Begin, RInv, TInv, TypeOK
<1>2. /\ op'[s] = o /\ copy'[s] = Effect(o, row[o.on]) /\ seen'[s] = row[o.on]
      /\ pc'[s] \in {"save", "write"} /\ row' = row
      /\ \A t \in Sessions \ {s} : pc'[t] = pc[t]
  BY DEF Begin, Goto, RInv, TInv, TypeOK
<1>3. o.act = "approve" => MayApprove(o, row[o.on])
  BY DEF Begin, Admitted
<1>4. Prepared(s)'
  BY <1>2, <1>3 DEF Prepared
<1>5. \A t \in Sessions \ {s} : Prepared(t)'
  BY <1>1, <1>2 DEF Prepared
<1> QED BY <1>1, <1>2, <1>4, <1>5 DEF RInv, Alone

LEMMA ReviewSave ==
  ASSUME RInv, TInv', NEW s \in Sessions, Save(s)
  PROVE  RInv'
<1> USE DEF rows, history
<1> SUFFICES ASSUME ~overlapped' PROVE Alone'
  BY DEF RInv
<1>1. Alone /\ pc[s] = "save" /\ row' = row /\ op' = op /\ copy' = copy
  BY DEF Save, RInv
<1>2. /\ pc'[s] = "write" /\ seen'[s] = row[op[s].on]
      /\ \A t \in Sessions \ {s} : pc'[t] = pc[t] /\ pc[t] = "idle"
  BY <1>1 DEF Save, Goto, RInv, TInv, TypeOK, Alone
<1>3. Prepared(s)'
  BY <1>1, <1>2 DEF Alone, Prepared
<1>4. \A t \in Sessions \ {s} : Prepared(t)'
  BY <1>2 DEF Prepared
<1> QED BY <1>1, <1>2, <1>3, <1>4 DEF Alone

\* What an undisturbed request writes is what it made of the dossier.
LEMMA MergedAlone ==
  ASSUME TInv, NEW s \in Sessions, pc[s] = "write", Prepared(s)
  PROVE  Merged(s) = copy[s]
<1> DEFINE r == row[op[s].on]
           mine == copy[s]
<1>1. op[s] \in Accepted /\ r \in Rows /\ mine = Effect(op[s], r) /\ seen[s] = r /\ mine \in Rows
  BY OpIs DEF TInv, TypeOK, Busy, Prepared
<1>2. op[s].act = "resubmit" /\ op[s].on \in Dossiers => op[s].plus \subseteq mine.files
  <2>1. ASSUME op[s].act = "resubmit"
        PROVE  mine.files = Replaced(r, op[s])
    BY <1>1, <2>1 DEF Effect, ProfileResubmitted, VehicleResubmitted, Row
  <2> QED BY <2>1 DEF Replaced
<1>3. op[s].on \in Dossiers
  BY <1>1, OpIs
<1>4. \A a, b : Column(a, b, b) = a
  BY DEF Column
<1>5. {d \in Docs : \/ op[s].act = "resubmit" /\ d \in op[s].plus
                    \/ Column(d \in mine.files, d \in r.files, d \in r.files)} = mine.files
  <2>1. mine.files \subseteq Docs
    BY <1>1 DEF Rows
  <2>2. \A d \in Docs : Column(d \in mine.files, d \in r.files, d \in r.files) <=> d \in mine.files
    BY DEF Column
  <2> QED BY <1>2, <1>3, <2>1, <2>2
<1>6. Merged(s) = Row(mine.status, mine.kyc, mine.active, mine.files, mine.reviews)
  BY <1>1, <1>4, <1>5 DEF Merged
<1>7. mine = Row(mine.status, mine.kyc, mine.active, mine.files, mine.reviews)
  BY <1>1 DEF Rows, Row
<1> QED BY <1>6, <1>7

LEMMA ReviewWrite ==
  ASSUME RInv, TInv', NEW s \in Sessions, Write(s)
  PROVE  RInv'
<1> USE DEF rows, history
<1> SUFFICES ASSUME ~overlapped' PROVE Alone'
  BY DEF RInv
<1>1. Alone /\ pc[s] = "write" /\ row' = row /\ op' = op
  BY DEF Write, RInv
<1>2. pc'[s] = "commit" /\ \A t \in Sessions \ {s} : pc'[t] = pc[t] /\ pc[t] = "idle"
  BY <1>1 DEF Write, Goto, RInv, TInv, TypeOK, Alone
<1>3. copy'[s] = copy[s]
  BY <1>1, MergedAlone DEF Write, RInv, TInv, TypeOK, Alone
<1>4. op[s] \in Accepted /\ row[op[s].on] \in Rows /\ Good(op[s].on, row[op[s].on])
  BY <1>1, OpIs DEF RInv, TInv, TypeOK, Busy, Alone
<1>5. Good(op[s].on, copy[s])
  BY <1>1, <1>4, EffectGood DEF Alone, Prepared
<1>6. Prepared(s)'
  BY <1>1, <1>2, <1>3, <1>5 DEF Prepared
<1>7. \A t \in Sessions \ {s} : Prepared(t)'
  BY <1>2 DEF Prepared
<1> QED BY <1>1, <1>2, <1>6, <1>7 DEF Alone

LEMMA ReviewCommit ==
  ASSUME RInv, TInv', NEW s \in Sessions, Commit(s)
  PROVE  RInv'
<1> SUFFICES ASSUME ~overlapped' PROVE Alone'
  BY DEF RInv
<1>1. Alone /\ pc[s] = "commit" /\ op[s].on \in Dossiers
  BY OpIs DEF Commit, RInv, TInv, Busy
<1>2. pc'[s] \in {"idle", "complete"} /\ \A t \in Sessions \ {s} : pc'[t] = pc[t] /\ pc[t] = "idle"
  BY <1>1 DEF Commit, Close, Goto, RInv, TInv, TypeOK, Alone
<1>3. \A t \in Sessions : Prepared(t)'
  BY <1>2 DEF Prepared
<1>4. \A x \in Dossiers : row'[x] = IF x = op[s].on THEN copy[s] ELSE row[x]
  BY DEF Commit, RInv, TInv, TypeOK
<1>5. \A x \in Dossiers : Good(x, row[x])'
  BY <1>1, <1>4 DEF Alone, Prepared, Good
<1> QED BY <1>2, <1>3, <1>5 DEF Alone

LEMMA ReviewEnds ==
  ASSUME RInv, TInv', NEW s \in Sessions, Finish(s) \/ Fail(s) \/ Forget(s) \/ Crash(s)
  PROVE  RInv'
<1> USE DEF rows, history
<1> SUFFICES ASSUME ~overlapped' PROVE Alone'
  BY DEF RInv
<1>1. Alone /\ row' = row /\ Close(s) /\ pc[s] # "idle"
  BY DEF Finish, Fail, Forget, Crash, RInv
<1>2. pc'[s] = "idle" /\ \A t \in Sessions \ {s} : pc'[t] = pc[t] /\ pc[t] = "idle"
  BY <1>1 DEF Close, Goto, RInv, TInv, TypeOK, Alone
<1> QED BY <1>1, <1>2 DEF Alone, Prepared

LEMMA ReviewNext == RInv /\ [Next]_vars => RInv'
<1> SUFFICES ASSUME RInv, [Next]_vars PROVE RInv'
  OBVIOUS
<1>1. TInv'
  BY TypeNext DEF RInv
<1>2. CASE UNCHANGED vars
  BY <1>1, <1>2 DEF vars, rows, local, history, counts, RInv, Alone, Prepared
<1>3. ASSUME NEW s \in Sessions, NEW o \in Accepted, NEW k \in Keys \cup {None}, Begin(s, o, k)
      PROVE  RInv'
  BY <1>1, <1>3, ReviewBegin
<1>4. ASSUME NEW s \in Sessions,
             \/ Save(s) \/ Write(s) \/ Commit(s) \/ Finish(s)
             \/ Fail(s) \/ Forget(s) \/ Crash(s)
      PROVE  RInv'
  BY <1>1, <1>4, ReviewSave, ReviewWrite, ReviewCommit, ReviewEnds
<1>5. ASSUME NEW k \in Keys, Expire(k) PROVE RInv'
  BY <1>1, <1>5 DEF Expire, RInv, Alone, Prepared, rows, local
<1> QED BY <1>2, <1>3, <1>4, <1>5 DEF Next

LEMMA ReviewAlways == Spec => []RInv
BY ReviewInit, ReviewNext, PTL DEF Spec

\* Whatever documents are required, submitted, cleared, approved and refused,
\* and in whatever order, an active profile or vehicle holds all it must hold,
\* approved as it stands, as long as requests do not overlap.
THEOREM ReviewedBeforeActive == Spec => []ActiveIsReviewed
<1>1. RInv => ActiveIsReviewed
  BY DEF RInv, Alone, Good, ActiveIsReviewed, Approved
<1> QED BY <1>1, ReviewAlways, PTL

\* As long as requests do not overlap, a driver who is refused finds the
\* document that was refused, whatever decisions came before and after.
THEOREM RefusalIsExplained == Spec => []RejectionNamesDocument
<1>1. RInv => RejectionNamesDocument
  BY DEF RInv, Alone, Good, RejectionNamesDocument, Dossiers
<1> QED BY <1>1, ReviewAlways, PTL

----------------------------------------------------------------------------
(* What is published *)

\* A status computed from rows: the profile's, and that of a vehicle that is
\* found.
Computed(r, st) == \E v \in Found(r) : st = OperationalStatus(r[Profile], v)

\* While requests do not overlap, the open one works on what is there; the
\* status it will publish is computed from the rows as it leaves them.
Announces(s) ==
    LET o == op[s]
        after == [row EXCEPT ![op[s].on] = copy[s]]
    IN  /\ Exists(copy[s]) /\ (o.on = Profile => copy[s].status # "rejected")
        /\ o.act = "create" \/ Exists(row[Profile])
        /\ profile[s] = row[Profile]
        /\ pc[s] = "commit" =>
              IF o.act \in {"touch", "assign"}
              THEN told[s] = "none" /\ copy[s] = Effect(o, row[o.on])
              ELSE Computed(after, told[s])

\* The status that is published was computed from the rows as they are, or a
\* vehicle has been taken off the road since; who is said to be only offline has
\* a vehicle he may work with all the same.
Stands ==
    /\ row[Profile].status # "rejected"
    /\ \A v \in Vehicles : Exists(row[v]) => Exists(row[Profile])
    /\ Exists(row[Profile]) =>
          \/ Computed(row, published)
          \/ \E v \in Vehicles : Exists(row[v]) /\ ~row[v].active
    /\ published = "offline" => \E v \in Vehicles : Cleared(v)
Current ==
    /\ \A s \in Sessions : pc[s] \in {"save", "write", "commit"} => Announces(s)
    /\ Stands
CInv == RInv /\ (~overlapped => Current)

LEMMA EffectExists ==
  ASSUME NEW o \in Accepted, NEW r \in Rows, o.act \notin {"create", "register"} => Exists(r),
         o.on = Profile => r.status # "rejected"
  PROVE  Exists(Effect(o, r)) /\ (o.on = Profile => Effect(o, r).status # "rejected")
<1>1. o.act \in Acts /\ o.on \in Dossiers /\ r.status \in {"absent", "pending", "active", "rejected"}
  BY OpIs DEF Rows
<1>2. CASE o.act \in {"create", "register"}
  BY <1>2 DEF Effect, Created, Registered, Row, Exists
<1>3. CASE o.act = "resubmit"
  BY <1>3 DEF Effect, ProfileResubmitted, VehicleResubmitted, Row, Exists
<1>4. CASE o.act = "approve"
  BY <1>4 DEF Effect, ProfileApproved, VehicleApproved, Row, Exists
<1>5. CASE o.act = "reject"
  BY <1>5 DEF Effect, ProfileRejected, VehicleRejected, Row, Exists
<1>6. CASE o.act = "assign"
  BY <1>6 DEF Effect, Assigned, Row, Exists
<1>7. CASE o.act = "touch"
  BY <1>7 DEF Effect, Exists
<1> QED BY <1>1, <1>2, <1>3, <1>4, <1>5, <1>6, <1>7 DEF Acts

LEMMA NothingFound ==
  ASSUME NEW r, \A v \in Vehicles : ~Exists(r[v])
  PROVE  Found(r) = {Absent}
BY DEF Found, Active

\* A driver only has to go online when his profile and a vehicle are active.
LEMMA OfflineIs ==
  ASSUME NEW p \in Rows, NEW v \in Rows, Exists(p), p.status # "rejected",
         p.status = "active" => p.kyc # "rejected"
  PROVE  OperationalStatus(p, v) = "offline" <=> p.status = "active" /\ v.status = "active"
<1>1. /\ p.status \in {"pending", "active"}
      /\ v.status \in {"absent", "pending", "active", "rejected"}
  BY DEF Rows, Exists
<1> QED BY <1>1 DEF OperationalStatus, Exists

LEMMA FoundRows ==
  ASSUME NEW r \in [Dossiers -> Rows]
  PROVE  Found(r) \subseteq Rows /\ Found(r) # {}
<1>1. Active(r) \subseteq Rows
  BY DEF Active, Dossiers
<1> QED BY <1>1, AbsentIs DEF Found

\* What is found is a vehicle on the road, or nothing.
LEMMA FoundVehicle ==
  ASSUME NEW r, NEW v \in Found(r), v.status = "active"
  PROVE  \E w \in Vehicles : v = r[w] /\ r[w].active /\ r[w].status = "active"
BY AbsentIs, DossierAssumption DEF Found, Active, Dossiers, Exists

\* What is computed from the rows says who may work.
LEMMA ComputedSays ==
  ASSUME NEW r \in [Dossiers -> Rows], Computed(r, "offline"),
         Exists(r[Profile]), r[Profile].status # "rejected", Good(Profile, r[Profile])
  PROVE  \E w \in Vehicles : r[Profile].status = "active" /\ r[w].active /\ r[w].status = "active"
<1>1. PICK v \in Found(r) : OperationalStatus(r[Profile], v) = "offline"
  BY DEF Computed
<1>2. v \in Rows /\ r[Profile] \in Rows
  BY <1>1, FoundRows DEF Dossiers
<1>3. r[Profile].status = "active" /\ v.status = "active"
  BY <1>1, <1>2, OfflineIs DEF Good
<1> QED BY <1>3, FoundVehicle

LEMMA CurrentInit == Init => CInv
<1> SUFFICES ASSUME Init PROVE CInv
  OBVIOUS
<1>1. RInv
  BY ReviewInit
<1>2. \A x \in Dossiers : row[x] = Absent
  BY DEF Init
<1>3. Absent.status = "absent" /\ ~Exists(Absent)
  BY DEF Absent, Row, Exists
<1>4. \A v \in Vehicles : ~Exists(row[v])
  BY <1>2, <1>3 DEF Dossiers
<1>6. row[Profile] = Absent /\ published = "none" /\ \A s \in Sessions : pc[s] = "idle"
  BY <1>2 DEF Init, Dossiers
<1>7. Current
  BY <1>3, <1>4, <1>6 DEF Current, Stands
<1> QED BY <1>1, <1>7 DEF CInv


LEMMA StandsOn ==
  ASSUME Stands, row' = row, published' = published
  PROVE  Stands'
BY DEF Stands, Computed, Found, Active, Cleared, Exists

LEMMA CurrentBegin ==
  ASSUME CInv, RInv', NEW s \in Sessions, NEW o \in Accepted, NEW k \in Keys \cup {None},
         Begin(s, o, k)
  PROVE  CInv'
<1> USE DEF rows, history
<1> SUFFICES ASSUME ~overlapped' PROVE Current'
  BY DEF CInv
<1>1. /\ ~overlapped /\ Current /\ Stands /\ row' = row /\ published' = published
      /\ \A t \in Sessions \ {s} : pc'[t] = "idle"
  <2>1. ~overlapped /\ \A t \in Sessions \ {s} : pc[t] = "idle"
    BY DEF Begin, CInv, RInv, TInv, TypeOK
  <2>2. \A t \in Sessions \ {s} : pc'[t] = pc[t]
    BY DEF Begin, Goto, CInv, RInv, TInv, TypeOK
  <2> QED BY <2>1, <2>2 DEF Begin, CInv, Current
<1>2. /\ op'[s] = o /\ copy'[s] = Effect(o, row[o.on]) /\ profile'[s] = row[Profile]
      /\ pc'[s] \in {"save", "write"}
  BY DEF Begin, Goto, CInv, RInv, TInv, TypeOK
<1>3. /\ o.act \in Acts /\ o.on \in Dossiers /\ row[o.on] \in Rows
      /\ o.act = "create" => o.on = Profile
      /\ o.act = "register" => o.on \in Vehicles
  BY OpIs DEF CInv, RInv, TInv, TypeOK, Accepted
<1>4. /\ o.act \notin {"create", "register"} => Exists(row[o.on])
      /\ o.act = "register" => Exists(row[Profile])
  BY <1>3 DEF Begin, Admitted, MayApprove, Acts
<1>5. o.act = "create" \/ Exists(row[Profile])
  BY <1>1, <1>3, <1>4 DEF Stands, Dossiers
<1>6. Exists(copy'[s]) /\ (o.on = Profile => copy'[s].status # "rejected")
  BY <1>1, <1>2, <1>3, <1>4, EffectExists DEF Stands
<1>7. Announces(s)'
  BY <1>1, <1>2, <1>5, <1>6 DEF Announces, Exists
<1>8. Stands'
  BY <1>1, StandsOn
<1> QED BY <1>1, <1>7, <1>8 DEF Current

LEMMA CurrentSave ==
  ASSUME CInv, RInv', NEW s \in Sessions, Save(s)
  PROVE  CInv'
<1> USE DEF rows, history
<1> SUFFICES ASSUME ~overlapped' PROVE Current'
  BY DEF CInv
<1>1. /\ Alone /\ Current /\ Stands /\ row' = row /\ published' = published /\ op' = op
      /\ copy' = copy /\ profile' = profile /\ pc[s] = "save"
  BY DEF Save, CInv, Current, RInv
<1>2. pc'[s] = "write" /\ \A t \in Sessions \ {s} : pc'[t] = "idle"
  BY <1>1 DEF Save, Goto, CInv, RInv, TInv, TypeOK, Alone
<1>3. Announces(s)'
  BY <1>1, <1>2 DEF Current, Announces, Exists
<1>4. Stands'
  BY <1>1, StandsOn
<1> QED BY <1>2, <1>3, <1>4 DEF Current

LEMMA CurrentWrite ==
  ASSUME CInv, RInv', NEW s \in Sessions, Write(s)
  PROVE  CInv'
<1> USE DEF rows, history
<1> SUFFICES ASSUME ~overlapped' PROVE Current'
  BY DEF CInv
<1>1. /\ Alone /\ Current /\ Stands /\ row' = row /\ published' = published /\ op' = op
      /\ profile' = profile /\ pc[s] = "write" /\ TInv
  BY DEF Write, CInv, Current, RInv
<1>2. pc'[s] = "commit" /\ \A t \in Sessions \ {s} : pc'[t] = "idle"
  BY <1>1 DEF Write, Goto, TInv, TypeOK, Alone
<1>3. copy'[s] = copy[s] /\ copy[s] = Effect(op[s], row[op[s].on])
  BY <1>1, MergedAlone DEF Write, TInv, TypeOK, Alone, Prepared
<1>4. Announces(s) /\ op[s].on \in Dossiers
  BY <1>1, OpIs DEF Current, TInv, Busy
<1> DEFINE after == [row EXCEPT ![op[s].on] = copy[s]]
<1>5. after[Profile] = Loaded(s, copy[s])
  BY <1>1, <1>4 DEF Loaded, Announces, TInv, TypeOK, Dossiers
<1>6. PICK v \in Found([row EXCEPT ![op[s].on] = copy'[s]]) :
         told'[s] = IF op[s].act \in {"touch", "assign"} THEN "none"
                    ELSE OperationalStatus(Loaded(s, copy[s]), v)
  BY <1>1 DEF Write, TInv, TypeOK
<1>7. v \in Found(after)
  BY <1>3, <1>6
<1> HIDE DEF after
<1>8. IF op[s].act \in {"touch", "assign"}
      THEN told'[s] = "none" /\ copy[s] = Effect(op[s], row[op[s].on])
      ELSE Computed(after, told'[s])
  BY <1>3, <1>5, <1>6, <1>7 DEF Computed
<1>9. IF op[s].act \in {"touch", "assign"}
      THEN told'[s] = "none" /\ copy'[s] = Effect(op'[s], row'[op'[s].on])
      ELSE Computed([row' EXCEPT ![op'[s].on] = copy'[s]], told'[s])
  BY <1>1, <1>3, <1>8 DEF after
<1>10. Computed([row EXCEPT ![op[s].on] = copy[s]], told[s])'
         = Computed([row' EXCEPT ![op'[s].on] = copy'[s]], told'[s])
  BY DEF Computed, Found, Active, Exists
<1>11. Announces(s)'
  BY <1>1, <1>3, <1>4, <1>9, <1>10 DEF Announces, Exists
<1>12. Stands'
  BY <1>1, StandsOn
<1> QED BY <1>2, <1>11, <1>12 DEF Current

\* A vehicle that a partner takes over, or that is only touched, either stays
\* as it was or was not, and is not, verified.
LEMMA QuietEffect ==
  ASSUME NEW o \in Accepted, o.act \in {"touch", "assign"}, NEW r \in Rows
  PROVE  \/ Effect(o, r) = r
         \/ /\ o.on \in Vehicles /\ r.status # "active" /\ Exists(Effect(o, r))
            /\ Effect(o, r).status # "active" /\ ~Effect(o, r).active
BY DEF Effect, Assigned, Row, Exists, Accepted

LEMMA CommitPublishes ==
  ASSUME CInv, RInv', ~overlapped, NEW s \in Sessions, Commit(s)
  PROVE  Stands'
<1>1. Alone /\ Stands /\ TInv /\ TypeOK /\ TypeOK' /\ Alone' /\ pc[s] = "commit"
  BY DEF Commit, CInv, Current, RInv, TInv
<1>2. op[s] \in Accepted /\ op[s].on \in Dossiers /\ Announces(s) /\ copy[s] \in Rows
  BY <1>1, OpIs DEF TInv, Busy, TypeOK, CInv, Current
<1> DEFINE x == op[s].on
           after == [row EXCEPT ![op[s].on] = copy[s]]
<1>3. row' = after /\ published' = IF told[s] = "none" THEN published ELSE told[s]
  BY DEF Commit
<1>4. /\ after[x] = copy[s] /\ \A y \in Dossiers \ {x} : after[y] = row[y]
      /\ after \in [Dossiers -> Rows]
  BY <1>1, <1>2 DEF TypeOK
<1>5. /\ Exists(after[Profile]) /\ after[Profile].status # "rejected"
      /\ op[s].act = "create" => x = Profile
  BY <1>1, <1>2, <1>4 DEF Announces, Stands, Dossiers, Accepted
<1>6. Good(Profile, after[Profile])
  BY <1>1, <1>3 DEF Alone, Dossiers
<1>7. CASE op[s].act \notin {"touch", "assign"}
  <2>1. Computed(after, told[s])
    BY <1>1, <1>2, <1>7 DEF Announces
  <2>2. told[s] # "none"
    BY <2>1 DEF Computed, OperationalStatus
  <2>3. told[s] = "offline" =>
           \E v \in Vehicles : after[Profile].status = "active" /\ after[v].active /\ after[v].status = "active"
    BY <1>4, <1>5, <1>6, <2>1, ComputedSays
  <2> HIDE DEF after
  <2>4. Computed(row', published') /\ published' = told[s]
    BY <1>3, <2>1, <2>2
  <2>5. Computed(row, published)' <=> Computed(row', published')
    BY DEF Computed, Found, Active, Exists
  <2>6. published' = "offline" => (\E v \in Vehicles : Cleared(v))'
    BY <1>3, <2>3, <2>4 DEF Cleared
  <2> QED BY <1>3, <1>5, <2>4, <2>5, <2>6 DEF Stands, Exists
<1>8. CASE op[s].act \in {"touch", "assign"}
  <2>1. published' = published /\ copy[s] = Effect(op[s], row[x]) /\ row[x] \in Rows
    BY <1>1, <1>2, <1>3, <1>8 DEF Announces, TypeOK
  <2>2. CASE copy[s] = row[x]
    <3>1. row' = row
      BY <1>1, <1>2, <1>3, <2>2 DEF TypeOK
    <3> QED BY <1>1, <2>1, <3>1, StandsOn
  <2>3. CASE copy[s] # row[x]
    <3>1. /\ x \in Vehicles /\ row[x].status # "active" /\ Exists(copy[s])
          /\ copy[s].status # "active" /\ ~copy[s].active
      BY <1>2, <1>8, <2>1, <2>3, QuietEffect
    <3>2. x # Profile /\ row'[Profile] = row[Profile] /\ row'[x] = copy[s]
      BY <1>3, <1>4, <3>1, DossierAssumption DEF Dossiers
    <3>3. Exists(row[Profile])
      BY <1>1, <1>3, <1>5, <3>2
    <3>4. \A v \in Vehicles : Cleared(v) => Cleared(v)'
      BY <1>3, <1>4, <3>1, <3>2 DEF Cleared, Dossiers
    <3>5. row[Profile].status # "rejected"
      BY <1>1 DEF Stands
    <3>6. published' = "offline" => (\E v \in Vehicles : Cleared(v))'
      BY <1>1, <2>1, <3>4 DEF Stands
    <3> QED BY <1>1, <2>1, <3>1, <3>2, <3>3, <3>5, <3>6 DEF Stands, Exists
  <2> QED BY <2>2, <2>3
<1> QED BY <1>7, <1>8


LEMMA CurrentEnds ==
  ASSUME CInv, RInv', NEW s \in Sessions,
         Commit(s) \/ Finish(s) \/ Fail(s) \/ Forget(s) \/ Crash(s)
  PROVE  CInv'
<1> SUFFICES ASSUME ~overlapped' PROVE Current'
  BY DEF CInv
<1>1. /\ ~overlapped /\ Alone /\ Stands
  BY DEF Commit, Finish, Fail, Forget, Crash, history, CInv, Current, RInv
<1>2. /\ pc[s] # "idle" /\ pc'[s] \in {"idle", "complete"}
      /\ \A t \in Sessions \ {s} : pc'[t] = pc[t]
  BY DEF Commit, Finish, Fail, Forget, Crash, Close, Goto, CInv, RInv, TInv, TypeOK
<1>3. \A t \in Sessions : pc'[t] \in {"idle", "complete"}
  BY <1>1, <1>2 DEF Alone
<1>4. Stands'
  <2>1. CASE Commit(s)
    BY <1>1, <2>1, CommitPublishes
  <2>2. CASE Finish(s) \/ Fail(s) \/ Forget(s) \/ Crash(s)
    BY <1>1, <2>2, StandsOn DEF Finish, Fail, Forget, Crash, rows
  <2> QED BY <2>1, <2>2
<1> QED BY <1>3, <1>4 DEF Current

LEMMA CurrentNext == CInv /\ [Next]_vars => CInv'
<1> SUFFICES ASSUME CInv, [Next]_vars PROVE CInv'
  OBVIOUS
<1>1. RInv'
  BY ReviewNext DEF CInv
<1>2. ASSUME UNCHANGED <<rows, pc, local, overlapped>> PROVE CInv'
  <2>1. \A s \in Sessions : Announces(s) => Announces(s)'
    <3>1. /\ row' = row /\ op' = op /\ copy' = copy /\ told' = told
          /\ pc' = pc /\ profile' = profile
      BY <1>2 DEF rows, local
    <3>2. SUFFICES ASSUME NEW s \in Sessions, Announces(s) PROVE Announces(s)'
      OBVIOUS
    <3>3. CASE pc[s] # "commit" \/ op[s].act \in {"touch", "assign"}
      BY <3>1, <3>2, <3>3 DEF Announces, Exists
    <3>4. CASE pc[s] = "commit" /\ op[s].act \notin {"touch", "assign"}
      BY <3>1, <3>2, <3>4 DEF Announces, Computed, Found, Active, Exists
    <3> QED BY <3>3, <3>4
  <2>2. Stands => Stands'
    BY <1>2, StandsOn DEF rows
  <2> QED BY <1>1, <1>2, <2>1, <2>2 DEF CInv, Current
<1>3. CASE UNCHANGED vars
  BY <1>2, <1>3 DEF vars, history
<1>4. ASSUME NEW k \in Keys, Expire(k) PROVE CInv'
  BY <1>2, <1>4 DEF Expire
<1>5. ASSUME NEW s \in Sessions, NEW o \in Accepted, NEW k \in Keys \cup {None}, Begin(s, o, k)
      PROVE  CInv'
  BY <1>1, <1>5, CurrentBegin
<1>6. ASSUME NEW s \in Sessions,
             \/ Save(s) \/ Write(s) \/ Commit(s) \/ Finish(s)
             \/ Fail(s) \/ Forget(s) \/ Crash(s)
      PROVE  CInv'
  BY <1>1, <1>6, CurrentSave, CurrentWrite, CurrentEnds
<1> QED BY <1>3, <1>4, <1>5, <1>6 DEF Next

LEMMA CurrentAlways == Spec => []CInv
BY CurrentInit, CurrentNext, PTL DEF Spec

\* As long as requests do not overlap, the reconciliation finds the status that
\* was published, for any vehicles that are all on the road.
THEOREM NothingToReconcile == Spec => []ReconcilerAgrees
<1>1. CInv => ReconcilerAgrees
  <2> SUFFICES ASSUME CInv, ~overlapped, Exists(row[Profile]),
                      \A v \in Vehicles : Exists(row[v]) => row[v].active
               PROVE  \E v \in Candidates : published = CandidateStatus(row[Profile], v)
    BY DEF ReconcilerAgrees
  <2>1. Computed(row, published)
    BY DEF CInv, Current, Stands
  <2>2. Found(row) \subseteq Candidates
    BY DEF Found, Active, Candidates
  <2>3. \A p, v : OperationalStatus(p, v) = CandidateStatus(p, v)
    BY DEF OperationalStatus, CandidateStatus
  <2> QED BY <2>1, <2>2, <2>3 DEF Computed
<1> QED BY <1>1, CurrentAlways, PTL

\* As long as requests do not overlap, a driver of any vehicles is published as
\* one who only has to go online when resolve_driver lets him through with one of
\* them, and when it does with all of them.
THEOREM PublishedIsCleared == Spec => []ToldWhoIsCleared
<1>1. CInv => ToldWhoIsCleared
  <2> SUFFICES ASSUME CInv, ~overlapped PROVE
        LET own == {v \in Vehicles : Exists(row[v])} IN
        /\ published = "offline" => \E v \in own : Cleared(v)
        /\ own # {} /\ (\A v \in own : Cleared(v)) => published = "offline"
    BY DEF ToldWhoIsCleared
  <2> DEFINE own == {v \in Vehicles : Exists(row[v])}
  <2>1. Stands /\ row \in [Dossiers -> Rows] /\ Good(Profile, row[Profile])
    BY DEF CInv, Current, RInv, TInv, TypeOK, Alone, Dossiers
  <2>2. published = "offline" => \E v \in own : Cleared(v)
    BY <2>1 DEF Stands, Cleared, Exists
  <2>3. ASSUME own # {}, \A v \in own : Cleared(v) PROVE published = "offline"
    <3>1. Exists(row[Profile]) /\ Computed(row, published)
      BY <2>1, <2>3 DEF Stands, Cleared
    <3>2. PICK w \in Found(row) : published = OperationalStatus(row[Profile], w)
      BY <3>1 DEF Computed
    <3>3. Active(row) # {}
      BY <2>3 DEF Active, Cleared
    <3>4. w.status = "active" /\ row[Profile].status = "active"
      BY <2>3, <3>2, <3>3 DEF Found, Active, Cleared
    <3>5. w \in Rows /\ row[Profile] \in Rows
      BY <2>1, <3>2, FoundRows DEF Dossiers
    <3> QED BY <2>1, <3>1, <3>2, <3>4, <3>5, OfflineIs DEF Good, Stands
  <2> QED BY <2>2, <2>3
<1> QED BY <1>1, CurrentAlways, PTL
=============================================================================

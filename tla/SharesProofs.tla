----------------------------- MODULE SharesProofs -----------------------------
(***************************************************************************)
(* Theorems about Shares, for any number of requests, people, accounts and *)
(* shares.                                                                 *)
(*                                                                         *)
(* The properties speak of committed rows, which change when a request     *)
(* commits what it decided earlier.  The inductive invariant says of each  *)
(* request what its session still promises (TxOK): the row it has loaded   *)
(* keeps its owner and its address as long as it exists, the row it will   *)
(* write is addressed to somebody else than its owner, and what it has     *)
(* flushed is locked, so that neither the row nor the accounts it names    *)
(* can go before it commits (FlushedOK and Apart).                         *)
(***************************************************************************)
EXTENDS Shares, TLAPS

Stages == {"idle", "start", "recipient", "received", "flush", "commit"}

(* Locks and references of a request, by its state.                        *)
Locks(p, j, x) ==
    {u \in Uuid : \/ p = "commit" /\ j.op # "delete" /\ u = j.uuid
                  \/ p = "commit" /\ j.op = "delete"
                       /\ (u \in x.doomed \/ u \in Cascade(j.actor))
                  \/ p = "flush" /\ j.op = "delete" /\ u \in x.doomed}

RefIds(j, x) == CASE j.op = "create" -> {x.row.owner, x.row.to} \ {Absent}
                  [] j.op = "accept" -> {x.row.to} \ {x.base.to}
                  [] OTHER           -> {}

(* Accounts that exist have different addresses.                           *)
AccountsOK == \A a, b \in live : email[a] = email[b] => a = b

RowOK(row) == /\ email[row.owner] # Absent
              /\ row.email # email[row.owner]
              /\ row.to # Absent => email[row.to] = row.email

RowsOK == \A u \in Stored : RowOK(shares[u])

(* What a deletion has selected covers what its account had received when  *)
(* it began.                                                               *)
DeletionOK(p, j, x) ==
    /\ \A u \in x.doomed : shares[u] # Absent
    /\ j.actor \in live => \A u \in j.known :
         /\ p = "start" => shares[u] = Gone \/ u \in Received(j.actor)
         /\ p \in {"received", "flush", "commit"} => u \in x.doomed \/ shares[u] = Gone

(* A row loaded and changed.                                               *)
AnswerOK(j, x) ==
    /\ x.base \in Row /\ x.row \in Row
    /\ shares[j.uuid] # Absent
    /\ j.uuid \in Stored => /\ shares[j.uuid].owner = x.base.owner
                            /\ shares[j.uuid].email = x.base.email
    /\ x.row.owner = x.base.owner /\ x.row.email = x.base.email
    /\ j.op = "accept" => /\ x.base.status = "pending" /\ x.row.status = "accepted"
                          /\ x.row.to = j.actor /\ email[j.actor] = x.base.email
                          /\ j.uuid \notin j.known
    /\ j.op = "revoke" => /\ x.base.status # "revoked" /\ x.row.status = "revoked"
                          /\ x.row.to = x.base.to /\ x.base.owner = j.actor

(* A row to be inserted.                                                   *)
CreateOK(p, j, x) ==
    /\ x.row \in Row
    /\ x.row.owner = j.actor /\ x.row.status = "pending"
    /\ j.actor \in live \/ p = "commit" => x.row.email # email[j.actor]
    /\ x.row.to # Absent => email[x.row.to] = x.row.email

FlushedOK(j, x) ==
    /\ RefIds(j, x) \subseteq live
    /\ j.op = "create" => shares[j.uuid] = Absent
    /\ j.op \in {"accept", "revoke"} => j.uuid \in Stored

(* A request whose next statement is p.                                    *)
TxOK(p, j, x) ==
    /\ p # "idle" => /\ j.op \in Ops /\ j.actor \in Account
                     /\ email[j.actor] # Absent
                     /\ j.op # "delete" => j.uuid \in Uuid
                     /\ j.op = "create" => j.email \in Person
    /\ p \in {"idle", "start"} => x.doomed = {}
    /\ p = "recipient" => j.op = "create"
    /\ p = "received" => j.op = "delete"
    /\ j.op = "accept" => \A u \in j.known : /\ shares[u] # Absent
                                             /\ u \in Stored => shares[u].status # "pending"
    /\ j.op = "delete" => DeletionOK(p, j, x)
    /\ p \in {"flush", "commit"} => /\ j.op \in {"accept", "revoke"} => AnswerOK(j, x)
                                    /\ j.op = "create" => CreateOK(p, j, x)
    /\ p = "commit" => FlushedOK(j, x)

ReqOK(r) == TxOK(pc[r], job[r], tx[r])

(* Two requests: row locks are exclusive, and an account does not go while *)
(* a flushed row names it.                                                 *)
Apart(p, j, x, p2, j2, x2) ==
    /\ Locks(p, j, x) \cap Locks(p2, j2, x2) = {}
    /\ p = "commit" /\ p2 = "commit" /\ j.op = "delete" => j.actor \notin RefIds(j2, x2)

PairOK(q, r) == Apart(pc[q], job[q], tx[q], pc[r], job[r], tx[r])

Inv == /\ TypeOK
       /\ AccountsOK
       /\ RowsOK
       /\ \A r \in Req : ReqOK(r)
       /\ \A q, r \in Req : q # r => PairOK(q, r)

-----------------------------------------------------------------------------
LEMMA Typed ==
    ASSUME Inv, NEW r \in Req
    PROVE  /\ pc[r] \in Stages /\ job[r] \in Job /\ tx[r] \in Tx
           /\ TxOK(pc[r], job[r], tx[r])
  BY DEF Inv, TypeOK, Stages, ReqOK

LEMMA Nulls == NoJob \in Job /\ NoTx \in Tx
  BY DEF NoJob, NoTx, Job, Tx, Ops

LEMMA IdleOK == TxOK("idle", NoJob, NoTx) /\ Locks("idle", NoJob, NoTx) = {}
  BY DEF TxOK, NoJob, NoTx, Locks

(* A step of one request that commits nothing: its own new state must be   *)
(* in order, and apart from those of the others.                           *)
LEMMA Local ==
    ASSUME Inv, NEW r \in Req, NEW p \in Stages, NEW j \in Job, NEW x \in Tx,
           UNCHANGED <<email, live, shares>>,
           pc' = [pc EXCEPT ![r] = p], job' = [job EXCEPT ![r] = j],
           tx' = [tx EXCEPT ![r] = x],
           TxOK(p, j, x),
           \A q \in Req \ {r} : /\ Apart(p, j, x, pc[q], job[q], tx[q])
                                /\ Apart(pc[q], job[q], tx[q], p, j, x)
    PROVE  Inv'
<1>1. TypeOK
  BY DEF Inv
<1>2. TypeOK'
  BY <1>1 DEF TypeOK, Stages
<1>3. AccountsOK' /\ RowsOK'
  BY DEF Inv, AccountsOK, RowsOK, RowOK, Stored
<1>4. \A q \in Req : /\ pc'[q] = IF q = r THEN p ELSE pc[q]
                     /\ job'[q] = IF q = r THEN j ELSE job[q]
                     /\ tx'[q] = IF q = r THEN x ELSE tx[q]
  BY <1>1 DEF TypeOK
<1>5. ASSUME NEW q \in Req PROVE ReqOK(q)'
  <2>1. TxOK(pc'[q], job'[q], tx'[q])
    BY <1>4 DEF Inv, ReqOK
  <2> QED
    BY <2>1 DEF ReqOK, TxOK, DeletionOK, AnswerOK, CreateOK, FlushedOK, Stored, Received
<1>6. ASSUME NEW q \in Req, NEW o \in Req, q # o PROVE PairOK(q, o)'
  <2>1. Apart(pc'[q], job'[q], tx'[q], pc'[o], job'[o], tx'[o])
    BY <1>4, <1>6 DEF Inv, PairOK
  <2> QED
    BY <2>1 DEF PairOK, Apart, Locks, Cascade, Owned, Received, Stored
<1> QED
  BY <1>2, <1>3, <1>5, <1>6 DEF Inv

(* As long as the request holds no lock, it is apart from any other.       *)
LEMMA Quiet ==
    ASSUME Inv, NEW r \in Req, NEW p \in Stages, NEW j \in Job, NEW x \in Tx,
           UNCHANGED <<email, live, shares>>,
           pc' = [pc EXCEPT ![r] = p], job' = [job EXCEPT ![r] = j],
           tx' = [tx EXCEPT ![r] = x],
           TxOK(p, j, x), p # "commit", p = "flush" => j.op # "delete"
    PROVE  Inv'
<1>1. Locks(p, j, x) = {}
  BY DEF Locks
<1>2. \A q \in Req \ {r} : /\ Apart(p, j, x, pc[q], job[q], tx[q])
                           /\ Apart(pc[q], job[q], tx[q], p, j, x)
  BY <1>1 DEF Apart
<1> QED
  BY <1>2, Local

LEMMA EndOK ==
    ASSUME Inv, NEW r \in Req, End(r), UNCHANGED <<email, live, shares>>
    PROVE  Inv'
<1>1. "idle" \in Stages /\ "idle" # "commit" /\ "idle" # "flush"
  BY DEF Stages
<1> QED
  BY <1>1, Nulls, IdleOK, Quiet DEF End

LEMMA BegunOK ==
    ASSUME NEW j, NEW x, x.doomed = {},
           j.op \in Ops, j.actor \in Account, email[j.actor] # Absent,
           j.op # "delete" => j.uuid \in Uuid,
           j.op = "create" => j.email \in Person,
           j.op = "accept" => \A u \in j.known : /\ shares[u] # Absent
                                                 /\ u \in Stored => shares[u].status # "pending",
           j.op = "delete" => DeletionOK("start", j, x)
    PROVE  TxOK("start", j, x)
  BY DEF TxOK

LEMMA BeginOK ==
    ASSUME Inv, NEW r \in Req, NEW j \in Job,
           pc[r] = "idle", j.actor \in live,
           pc' = [pc EXCEPT ![r] = "start"], job' = [job EXCEPT ![r] = j],
           UNCHANGED <<email, live, shares, tx>>,
           j.op \in Ops,
           j.op # "delete" => j.uuid \in Uuid,
           j.op = "create" => j.email \in Person,
           j.op = "accept" => j.known = Revoked,
           j.op = "delete" => j.known = Received(j.actor)
    PROVE  Inv'
<1>1. tx[r] \in Tx /\ tx' = [tx EXCEPT ![r] = tx[r]] /\ tx[r].doomed = {}
  BY Typed DEF Inv, TypeOK, TxOK
<1>2. j.actor \in Account /\ email[j.actor] # Absent
  BY DEF Inv, TypeOK
<1>3. \A u \in Stored : shares[u] # Absent
  BY ValuesAreApart DEF Stored
<1>4. j.op = "accept" => \A u \in j.known : /\ shares[u] # Absent
                                            /\ u \in Stored => shares[u].status # "pending"
  BY <1>3 DEF Revoked
<1>5. j.op = "delete" => DeletionOK("start", j, tx[r])
  BY <1>1 DEF DeletionOK
<1>6. TxOK("start", j, tx[r])
  BY <1>1, <1>2, <1>4, <1>5, BegunOK
<1>7. "start" \in Stages
  BY DEF Stages
<1> QED
  BY <1>1, <1>6, <1>7, Quiet

LEMMA BeginsOK ==
    ASSUME Inv, NEW r \in Req,
           BeginCreate(r) \/ BeginAccept(r) \/ BeginRevoke(r) \/ BeginDelete(r)
    PROVE  Inv'
<1>0. Revoked \in SUBSET Uuid /\ \A a \in Account : Received(a) \in SUBSET Uuid
  BY DEF Revoked, Received, Stored
<1>1. CASE BeginCreate(r)
  <2> PICK a \in Account, u \in Uuid, b \in Account \cup {Absent}, p \in Person, pay \in BOOLEAN :
        Begin(r, a, [NoJob EXCEPT !.op = "create", !.uuid = u, !.to = b,
                                  !.email = p, !.payload = pay])
    BY <1>1 DEF BeginCreate
  <2> DEFINE j == [[NoJob EXCEPT !.op = "create", !.uuid = u, !.to = b, !.email = p, !.payload = pay] EXCEPT !.actor = a]
  <2>1. /\ j \in Job /\ j.op = "create" /\ j.actor = a /\ j.uuid = u /\ j.email = p
    BY DEF NoJob, Job, Ops
  <2>2. /\ pc[r] = "idle" /\ j.actor \in live /\ j.op \in Ops
        /\ pc' = [pc EXCEPT ![r] = "start"] /\ job' = [job EXCEPT ![r] = j]
        /\ UNCHANGED <<email, live, shares, tx>>
    BY <2>1 DEF Begin, Ops
  <2> HIDE DEF j
  <2> QED
    BY <2>1, <2>2, BeginOK
<1>2. CASE BeginAccept(r)
  <2> PICK a \in Account, u \in Uuid :
        Begin(r, a, [NoJob EXCEPT !.op = "accept", !.uuid = u, !.known = Revoked])
    BY <1>2 DEF BeginAccept
  <2> DEFINE j == [[NoJob EXCEPT !.op = "accept", !.uuid = u, !.known = Revoked] EXCEPT !.actor = a]
  <2>1. /\ j \in Job /\ j.op = "accept" /\ j.actor = a /\ j.uuid = u /\ j.known = Revoked
    BY <1>0 DEF NoJob, Job, Ops
  <2>2. /\ pc[r] = "idle" /\ j.actor \in live /\ j.op \in Ops
        /\ pc' = [pc EXCEPT ![r] = "start"] /\ job' = [job EXCEPT ![r] = j]
        /\ UNCHANGED <<email, live, shares, tx>>
    BY <2>1 DEF Begin, Ops
  <2> HIDE DEF j
  <2> QED
    BY <2>1, <2>2, BeginOK
<1>3. CASE BeginRevoke(r)
  <2> PICK a \in Account, u \in Uuid :
        Begin(r, a, [NoJob EXCEPT !.op = "revoke", !.uuid = u])
    BY <1>3 DEF BeginRevoke
  <2> DEFINE j == [[NoJob EXCEPT !.op = "revoke", !.uuid = u] EXCEPT !.actor = a]
  <2>1. /\ j \in Job /\ j.op = "revoke" /\ j.actor = a /\ j.uuid = u
    BY DEF NoJob, Job, Ops
  <2>2. /\ pc[r] = "idle" /\ j.actor \in live /\ j.op \in Ops
        /\ pc' = [pc EXCEPT ![r] = "start"] /\ job' = [job EXCEPT ![r] = j]
        /\ UNCHANGED <<email, live, shares, tx>>
    BY <2>1 DEF Begin, Ops
  <2> HIDE DEF j
  <2> QED
    BY <2>1, <2>2, BeginOK
<1>4. CASE BeginDelete(r)
  <2> PICK a \in Account :
        Begin(r, a, [NoJob EXCEPT !.op = "delete", !.known = Received(a)])
    BY <1>4 DEF BeginDelete
  <2> DEFINE j == [[NoJob EXCEPT !.op = "delete", !.known = Received(a)] EXCEPT !.actor = a]
  <2>1. /\ j \in Job /\ j.op = "delete" /\ j.actor = a /\ j.known = Received(a)
    BY <1>0 DEF NoJob, Job, Ops
  <2>2. /\ pc[r] = "idle" /\ j.actor \in live /\ j.op \in Ops
        /\ pc' = [pc EXCEPT ![r] = "start"] /\ job' = [job EXCEPT ![r] = j]
        /\ UNCHANGED <<email, live, shares, tx>>
    BY <2>1 DEF Begin, Ops
  <2> HIDE DEF j
  <2> QED
    BY <2>1, <2>2, BeginOK
<1> QED
  BY <1>1, <1>2, <1>3, <1>4

-----------------------------------------------------------------------------
LEMMA CheckUuidOK ==
    ASSUME Inv, NEW r \in Req, CheckUuid(r)
    PROVE  Inv'
<1>1. job[r] \in Job /\ tx[r] \in Tx /\ TxOK("start", job[r], tx[r]) /\ job[r].op = "create"
  BY Typed DEF CheckUuid
<1>2. TxOK("recipient", job[r], tx[r])
  BY <1>1 DEF TxOK
<1>3. "recipient" \in Stages /\ job' = [job EXCEPT ![r] = job[r]]
  BY DEF Stages, Inv, TypeOK, CheckUuid, Go
<1> QED
  BY <1>1, <1>2, <1>3, Quiet DEF CheckUuid, Go

(* The row a create will insert is addressed to somebody else, unless the  *)
(* account of its owner has gone.                                          *)
LEMMA FindRecipientOK ==
    ASSUME Inv, NEW r \in Req, FindRecipient(r)
    PROVE  Inv'
<1>1. job[r] \in Job /\ tx[r] \in Tx /\ TxOK("recipient", job[r], tx[r])
  BY Typed DEF FindRecipient
<1>2. job[r].op = "create" /\ job[r].actor \in Account /\ job[r].email \in Person
      /\ job[r].uuid \in Uuid /\ email[job[r].actor] # Absent
  BY <1>1 DEF TxOK, Ops
<1>3. PICK to \in Recipients(r) \cup {Absent} :
        /\ Go(r, "flush", [tx[r] EXCEPT !.row = NewShare(r, to)])
        /\ to = Absent => Recipients(r) = {} /\ job[r].to = Absent
  <2>1. Absent \notin Recipients(r)
    BY ValuesAreApart DEF Recipients, AccountsOf, Inv, TypeOK
  <2> QED
    BY <2>1 DEF FindRecipient
<1> DEFINE row == NewShare(r, to)
           x == [tx[r] EXCEPT !.row = row]
<1>4. /\ to \in live \cup {Absent} /\ live \subseteq Account
      /\ \A a \in live : email[a] \in Person
      /\ to # Absent => to # job[r].actor
  BY <1>3 DEF Recipients, AccountsOf, SelfShare, FindRecipient, Inv, TypeOK
<1>5. /\ row.owner = job[r].actor /\ row.to = to /\ row.status = "pending"
      /\ row.email = IF job[r].to # Absent THEN email[to] ELSE job[r].email
      /\ row.payload = job[r].payload
  BY DEF NewShare
<1>6. row.to # Absent => email[row.to] = row.email
  BY <1>3, <1>5 DEF Recipients, AccountsOf
<1>7. row \in Row
  BY <1>1, <1>2, <1>3, <1>4 DEF NewShare, Row, Job
<1>8. job[r].actor \in live => row.email # email[job[r].actor]
  <2>1. CASE to # Absent
    BY <2>1, <1>4, <1>5, <1>6 DEF Inv, AccountsOK
  <2>2. CASE to = Absent
    BY <2>2, <1>3, <1>5 DEF Recipients, AccountsOf
  <2> QED
    BY <2>1, <2>2
<1>9. x \in Tx /\ x.row = row /\ x.base = tx[r].base /\ x.doomed = tx[r].doomed
  BY <1>1, <1>7 DEF Tx
<1>10. TxOK("flush", job[r], x)
  BY <1>1, <1>2, <1>5, <1>6, <1>7, <1>8, <1>9 DEF TxOK, CreateOK
<1>11. "flush" \in Stages /\ job' = [job EXCEPT ![r] = job[r]]
  BY <1>3 DEF Stages, Inv, TypeOK, Go
<1>12. pc' = [pc EXCEPT ![r] = "flush"] /\ tx' = [tx EXCEPT ![r] = x]
       /\ UNCHANGED <<email, live, shares>>
  BY <1>3 DEF Go
<1> HIDE DEF x
<1> QED
  BY <1>1, <1>2, <1>9, <1>10, <1>11, <1>12, Quiet

LEMMA ReadShareOK ==
    ASSUME Inv, NEW r \in Req, ReadShare(r)
    PROVE  Inv'
<1> DEFINE row == shares[job[r].uuid]
           new == Change(r, row)
           x == [tx[r] EXCEPT !.base = row, !.row = new]
<1>1. job[r] \in Job /\ tx[r] \in Tx /\ TxOK("start", job[r], tx[r])
      /\ job[r].op \in {"accept", "revoke"} /\ job[r].uuid \in Stored
  BY Typed DEF ReadShare, Answers
<1>2. row \in Row /\ RowOK(row) /\ row # Absent
  BY <1>1, ValuesAreApart DEF Stored, Inv, RowsOK
<1>3. Allowed(r, row)
  BY DEF ReadShare
<1>4. job[r].actor \in Account /\ email[job[r].actor] \in Person
  BY <1>1 DEF TxOK, Inv, TypeOK
<1>5. job[r].op = "accept" => /\ row.status = "pending" /\ row.email = email[job[r].actor]
                              /\ job[r].uuid \notin job[r].known
  BY <1>1, <1>2, <1>3, <1>4, ValuesAreApart DEF Allowed, RowOK, TxOK
<1>6. job[r].op = "revoke" => row.status # "revoked" /\ row.owner = job[r].actor
  BY <1>3 DEF Allowed
<1>7. /\ new \in Row /\ new.owner = row.owner /\ new.email = row.email
      /\ job[r].op = "accept" => new.status = "accepted" /\ new.to = job[r].actor
      /\ job[r].op = "revoke" => new.status = "revoked" /\ new.to = row.to
  BY <1>1, <1>2, <1>4, <1>5 DEF Change, Row
<1>8. x \in Tx /\ x.base = row /\ x.row = new /\ x.doomed = tx[r].doomed
  BY <1>1, <1>2, <1>7 DEF Tx
<1>9. AnswerOK(job[r], x)
  BY <1>1, <1>2, <1>5, <1>6, <1>7, <1>8 DEF AnswerOK
<1>10. TxOK("flush", job[r], x)
  BY <1>1, <1>9 DEF TxOK
<1>11. "flush" \in Stages /\ job' = [job EXCEPT ![r] = job[r]]
  BY DEF Stages, Inv, TypeOK, Go, ReadShare
<1>12. pc' = [pc EXCEPT ![r] = "flush"] /\ tx' = [tx EXCEPT ![r] = x]
       /\ UNCHANGED <<email, live, shares>>
  BY DEF Go, ReadShare
<1> HIDE DEF x
<1> QED
  BY <1>1, <1>8, <1>10, <1>11, <1>12, Quiet

-----------------------------------------------------------------------------
LEMMA SelectReceivedOK ==
    ASSUME Inv, NEW r \in Req, SelectReceived(r)
    PROVE  Inv'
<1> PICK D : D = Received(job[r].actor)
  OBVIOUS
<1> DEFINE x == [tx[r] EXCEPT !.doomed = D]
<1>1. job[r] \in Job /\ tx[r] \in Tx /\ TxOK("start", job[r], tx[r]) /\ job[r].op = "delete"
  BY Typed DEF SelectReceived
<1>2. D \in SUBSET Uuid /\ \A u \in D : shares[u] # Absent
  BY ValuesAreApart DEF Received, Stored
<1>3. x \in Tx /\ x.doomed = D
  BY <1>1, <1>2 DEF Tx
<1> HIDE DEF x
<1>4. DeletionOK("received", job[r], x)
  BY <1>1, <1>2, <1>3 DEF TxOK, DeletionOK
<1>5. TxOK("received", job[r], x)
  BY <1>1, <1>4 DEF TxOK
<1>6. "received" \in Stages /\ job' = [job EXCEPT ![r] = job[r]]
  BY DEF Stages, Inv, TypeOK, Go, SelectReceived
<1>7. pc' = [pc EXCEPT ![r] = "received"] /\ tx' = [tx EXCEPT ![r] = x]
      /\ UNCHANGED <<email, live, shares>>
  BY DEF Go, SelectReceived, Doomed, x
<1> QED
  BY <1>1, <1>3, <1>5, <1>6, <1>7, Quiet

(* The locks of a request, as the model and as the invariant see them.     *)
LEMMA LocksAre ==
    ASSUME Inv, NEW q \in Req
    PROVE  LockedRows(q) = Locks(pc[q], job[q], tx[q])
<1>1. job[q] \in Job /\ tx[q] \in Tx /\ TxOK(pc[q], job[q], tx[q])
  BY Typed
<1>2. Cascade(job[q].actor) \subseteq Uuid /\ tx[q].doomed \subseteq Uuid
  BY <1>1 DEF Cascade, Owned, Received, Stored, Tx
<1>3. pc[q] = "commit" /\ job[q].op # "delete" => job[q].uuid \in Uuid
  BY <1>1 DEF TxOK
<1> QED
  BY <1>2, <1>3 DEF LockedRows, Locks

LEMMA DeleteReceivedOK ==
    ASSUME Inv, NEW r \in Req, DeleteReceived(r)
    PROVE  Inv'
<1>1. job[r] \in Job /\ tx[r] \in Tx /\ TxOK("received", job[r], tx[r])
      /\ pc[r] = "received"
  BY Typed DEF DeleteReceived
<1>2. job[r].op = "delete" /\ DeletionOK("received", job[r], tx[r])
  BY <1>1 DEF TxOK
<1>3. DeletionOK("flush", job[r], tx[r])
  BY <1>2 DEF DeletionOK
<1>4. TxOK("flush", job[r], tx[r])
  BY <1>1, <1>2, <1>3 DEF TxOK
<1>5. ASSUME NEW q \in Req \ {r}
      PROVE  /\ Apart("flush", job[r], tx[r], pc[q], job[q], tx[q])
             /\ Apart(pc[q], job[q], tx[q], "flush", job[r], tx[r])
  <2>1. LockedRows(q) \cap tx[r].doomed = {}
    BY <1>1, <1>2 DEF DeleteReceived, Waits, WantedRows
  <2>2. Locks("flush", job[r], tx[r]) \subseteq tx[r].doomed
    BY DEF Locks
  <2> QED
    BY <2>1, <2>2, LocksAre DEF Apart
<1>6. /\ "flush" \in Stages /\ job' = [job EXCEPT ![r] = job[r]]
      /\ tx' = [tx EXCEPT ![r] = tx[r]] /\ pc' = [pc EXCEPT ![r] = "flush"]
      /\ UNCHANGED <<email, live, shares>>
  BY DEF Stages, Inv, TypeOK, Go, DeleteReceived
<1> QED
  BY <1>1, <1>4, <1>5, <1>6, Local

LEMMA FlushOK ==
    ASSUME Inv, NEW r \in Req, Flush(r)
    PROVE  Inv'
<1>1. job[r] \in Job /\ tx[r] \in Tx /\ TxOK("flush", job[r], tx[r])
      /\ pc[r] = "flush" /\ job[r].op \in Ops
  BY Typed DEF Flush, TxOK
<1>2. Refs(r) = RefIds(job[r], tx[r])
  BY DEF Refs, RefIds
<1>3. FlushedOK(job[r], tx[r])
  <2>1. RefIds(job[r], tx[r]) \subseteq live
    BY <1>2 DEF Flush, Broken
  <2>2. job[r].op = "create" => shares[job[r].uuid] = Absent
    BY DEF Flush, Broken
  <2>3. job[r].op \in {"accept", "revoke"} => job[r].uuid \in Stored
    BY <1>1 DEF Flush, Broken, Answers, TxOK, AnswerOK, Inv, TypeOK, Stored
  <2> QED
    BY <2>1, <2>2, <2>3 DEF FlushedOK
<1>4. job[r].op = "create" => CreateOK("commit", job[r], tx[r])
  <2> HAVE job[r].op = "create"
  <2>1. CreateOK("flush", job[r], tx[r]) /\ job[r].actor # Absent
    BY <1>1, ValuesAreApart DEF TxOK
  <2>2. job[r].actor \in live
    BY <2>1, <1>3 DEF FlushedOK, RefIds, CreateOK
  <2> QED
    BY <2>1, <2>2 DEF CreateOK
<1>5. job[r].op = "delete" => DeletionOK("commit", job[r], tx[r])
  BY <1>1 DEF TxOK, DeletionOK
<1>6. TxOK("commit", job[r], tx[r])
  BY <1>1, <1>3, <1>4, <1>5 DEF TxOK
<1>7. ASSUME NEW q \in Req \ {r}
      PROVE  /\ Apart("commit", job[r], tx[r], pc[q], job[q], tx[q])
             /\ Apart(pc[q], job[q], tx[q], "commit", job[r], tx[r])
  <2>1. LockedRows(q) \cap WantedRows(r) = {} /\ ~AccountsMeet(q, r)
    BY DEF Flush, Waits
  <2>2. Locks("commit", job[r], tx[r]) \subseteq Locks("flush", job[r], tx[r]) \cup WantedRows(r)
    BY <1>1 DEF Locks, WantedRows
  <2>3. Locks("flush", job[r], tx[r]) \cap Locks(pc[q], job[q], tx[q]) = {}
    BY <1>1 DEF Inv, PairOK, Apart
  <2>4. Locks("commit", job[r], tx[r]) \cap Locks(pc[q], job[q], tx[q]) = {}
    BY <2>1, <2>2, <2>3, LocksAre
  <2>5. pc[q] = "commit" => /\ job[q].op = "delete" => job[q].actor \notin RefIds(job[r], tx[r])
                            /\ job[r].op = "delete" => job[r].actor \notin RefIds(job[q], tx[q])
    BY <2>1, <1>1 DEF AccountsMeet, Refs, RefIds
  <2> QED
    BY <2>4, <2>5 DEF Apart
<1>8. /\ "commit" \in Stages /\ job' = [job EXCEPT ![r] = job[r]]
      /\ tx' = [tx EXCEPT ![r] = tx[r]] /\ pc' = [pc EXCEPT ![r] = "commit"]
      /\ UNCHANGED <<email, live, shares>>
  BY DEF Stages, Inv, TypeOK, Go, Flush
<1> QED
  BY <1>1, <1>6, <1>7, <1>8, Local

-----------------------------------------------------------------------------
(* What a step of somebody else may do to the rows and accounts without    *)
(* breaking the promises of q: accounts keep their address, rows keep      *)
(* their owner and address, a row is never pending again, only goes, and   *)
(* is taken from its recipient only when that account goes.                *)
LEMMA FrameOK ==
    ASSUME Inv, NEW q \in Req,
           pc'[q] = pc[q], job'[q] = job[q], tx'[q] = tx[q],
           \A a \in Account : email[a] # Absent =>
                /\ email'[a] = email[a]
                /\ a \in live' => a \in live,
           \A u \in Uuid : /\ shares[u] # Absent => shares'[u] # Absent
                           /\ u \in Stored => u \in Stored' \/ shares'[u] = Gone
                           /\ u \in Stored' => u \in Stored \/ shares[u] = Absent
                           /\ shares[u] = Gone => shares'[u] = Gone,
           \A u \in Stored : u \in Stored' =>
                /\ shares'[u].owner = shares[u].owner
                /\ shares'[u].email = shares[u].email
                /\ shares'[u].status = "pending" => shares[u].status = "pending"
                /\ shares[u].to \in live' => shares'[u].to = shares[u].to,
           pc[q] = "commit" =>
                /\ RefIds(job[q], tx[q]) \subseteq live'
                /\ job[q].op = "create" => shares'[job[q].uuid] = Absent
                /\ job[q].op \in {"accept", "revoke"} => job[q].uuid \in Stored'
    PROVE  ReqOK(q)'
<1> PICK p, j, x : p = pc[q] /\ j = job[q] /\ x = tx[q]
  OBVIOUS
<1>1. TxOK(p, j, x) /\ j.known \subseteq Uuid /\ x.doomed \subseteq Uuid
  BY Typed DEF Job, Tx
<1>2. Stored \subseteq Uuid /\ \A u \in Uuid : u \in Stored => shares[u] \in Row /\ shares[u] # Absent
  BY ValuesAreApart DEF Stored
<1>3. p # "idle" => /\ j.actor \in Account /\ email[j.actor] # Absent
                    /\ email'[j.actor] = email[j.actor]
                    /\ j.actor \in live' => j.actor \in live
  BY <1>1 DEF TxOK
<1>4. j.op = "accept" => \A u \in j.known :
        /\ shares'[u] # Absent
        /\ u \in Stored' => shares'[u].status # "pending"
  BY <1>1 DEF TxOK
<1>5. j.op = "delete" => DeletionOK(p, j, x)'
  <2> HAVE j.op = "delete"
  <2>1. DeletionOK(p, j, x)
    BY <1>1 DEF TxOK
  <2>2. \A u \in x.doomed : shares'[u] # Absent
    BY <2>1, <1>1 DEF DeletionOK
  <2>3. ASSUME j.actor \in live', p = "start", NEW u \in j.known
        PROVE  shares'[u] = Gone \/ u \in Received(j.actor)'
    <3>1. shares[u] = Gone \/ u \in Received(j.actor)
      BY <2>1, <2>3, <1>3 DEF DeletionOK
    <3>2. u \in Received(j.actor) /\ u \in Stored' => shares'[u].to = j.actor
      BY <2>3 DEF Received
    <3> QED
      BY <3>1, <3>2, <1>1, <1>2 DEF Received
  <2>4. ASSUME j.actor \in live', p \in {"received", "flush", "commit"}, NEW u \in j.known
        PROVE  u \in x.doomed \/ shares'[u] = Gone
    BY <2>1, <2>4, <1>1, <1>3 DEF DeletionOK
  <2> QED
    BY <2>2, <2>3, <2>4 DEF DeletionOK
<1>6. p \in {"flush", "commit"} /\ j.op \in {"accept", "revoke"} => AnswerOK(j, x)'
  <2> SUFFICES ASSUME p \in {"flush", "commit"}, j.op \in {"accept", "revoke"}
               PROVE  AnswerOK(j, x)'
    OBVIOUS
  <2>1. AnswerOK(j, x) /\ j.uuid \in Uuid
    BY <1>1 DEF TxOK
  <2>2. shares'[j.uuid] # Absent
    BY <2>1 DEF AnswerOK
  <2>3. j.uuid \in Stored' => /\ shares'[j.uuid].owner = x.base.owner
                              /\ shares'[j.uuid].email = x.base.email
    BY <2>1 DEF AnswerOK
  <2> QED
    BY <2>1, <2>2, <2>3, <1>3 DEF AnswerOK
<1>7. p \in {"flush", "commit"} /\ j.op = "create" => CreateOK(p, j, x)'
  <2> SUFFICES ASSUME p \in {"flush", "commit"}, j.op = "create"
               PROVE  CreateOK(p, j, x)'
    OBVIOUS
  <2>1. CreateOK(p, j, x) /\ x.row \in Row
    BY <1>1 DEF TxOK, CreateOK
  <2>2. x.row.to # Absent => email'[x.row.to] = x.row.email
    <3>1. x.row.to \in Account \cup {Absent} /\ x.row.email # Absent
      BY <2>1, ValuesAreApart DEF Row
    <3> QED
      BY <3>1, <2>1 DEF CreateOK
  <2> QED
    BY <2>1, <2>2, <1>3 DEF CreateOK
<1>8. p = "commit" => FlushedOK(j, x)'
  BY DEF FlushedOK, RefIds
<1>9. TxOK(p, j, x)'
  BY <1>1, <1>3, <1>4, <1>5, <1>6, <1>7, <1>8 DEF TxOK
<1> QED
  BY <1>9 DEF ReqOK

(* The locks of the others do not grow when r ends.                        *)
LEMMA PairsOK ==
    ASSUME Inv, NEW r \in Req, End(r), TypeOK',
           \A q \in Req \ {r} : pc[q] = "commit" /\ job[q].op = "delete" =>
                \A u \in Stored' : job[q].actor \in {shares'[u].owner, shares'[u].to} =>
                                      u \in Cascade(job[q].actor)
    PROVE  \A q, o \in Req : q # o => PairOK(q, o)'
<1> SUFFICES ASSUME NEW q \in Req, NEW o \in Req, q # o
             PROVE  PairOK(q, o)'
  OBVIOUS
<1>1. \A i \in Req : /\ pc'[i] = IF i = r THEN "idle" ELSE pc[i]
                     /\ job'[i] = IF i = r THEN NoJob ELSE job[i]
                     /\ tx'[i] = IF i = r THEN NoTx ELSE tx[i]
  BY DEF End, Inv, TypeOK
<1>2. Apart(pc[q], job[q], tx[q], pc[o], job[o], tx[o])
  BY DEF Inv, PairOK
<1> PICK p, j, x, p2, j2, x2 : /\ p = pc[q] /\ j = job[q] /\ x = tx[q]
                               /\ p2 = pc[o] /\ j2 = job[o] /\ x2 = tx[o]
  OBVIOUS
<1>3. CASE q = r \/ o = r
  BY <1>1, <1>3 DEF PairOK, Apart, Locks, NoJob
<1>4. CASE q # r /\ o # r
  <2>1. p = "commit" /\ j.op = "delete" => Cascade(j.actor)' \subseteq Cascade(j.actor)
    <3>1. p = "commit" /\ j.op = "delete" =>
            \A u \in Stored' : j.actor \in {shares'[u].owner, shares'[u].to} => u \in Cascade(j.actor)
      BY <1>4
    <3> QED
      BY <3>1 DEF Cascade, Owned, Received
  <2>2. p2 = "commit" /\ j2.op = "delete" => Cascade(j2.actor)' \subseteq Cascade(j2.actor)
    <3>1. p2 = "commit" /\ j2.op = "delete" =>
            \A u \in Stored' : j2.actor \in {shares'[u].owner, shares'[u].to} => u \in Cascade(j2.actor)
      BY <1>4
    <3> QED
      BY <3>1 DEF Cascade, Owned, Received
  <2>3. Locks(p, j, x)' \subseteq Locks(p, j, x)
    BY <2>1 DEF Locks
  <2>4. Locks(p2, j2, x2)' \subseteq Locks(p2, j2, x2)
    BY <2>2 DEF Locks
  <2>5. Apart(p, j, x, p2, j2, x2)'
    BY <1>2, <2>3, <2>4 DEF Apart, RefIds
  <2> QED
    BY <1>1, <1>4, <2>5 DEF PairOK
<1> QED
  BY <1>3, <1>4

-----------------------------------------------------------------------------
(* What a commit stores, and what of it is new.                            *)
CommittedRow(j, x, u, new) ==
    /\ RowOK(new)
    /\ j.op = "create" => shares[u] = Absent /\ {new.owner, new.to} \ {Absent} = RefIds(j, x)
    /\ j.op # "create" =>
         /\ u \in Stored
         /\ new.owner = shares[u].owner /\ new.email = shares[u].email
         /\ new.to = shares[u].to \/ new.to \in RefIds(j, x)
         /\ shares[u].to \in live => new.to = shares[u].to
         /\ \/ /\ new.status = "accepted"
               /\ email[j.actor] = shares[u].email /\ u \notin j.known
            \/ new.status = "revoked" /\ j.actor = shares[u].owner

LEMMA CommitsRow ==
    ASSUME Inv, NEW r \in Req, CommitShare(r)
    PROVE  \E u \in Uuid, new \in Row :
             /\ u = job[r].uuid /\ shares' = [shares EXCEPT ![u] = new]
             /\ CommittedRow(job[r], tx[r], u, new)
<1> PICK j, x : j = job[r] /\ x = tx[r]
  OBVIOUS
<1>1. j \in Job /\ x \in Tx /\ TxOK("commit", j, x) /\ j.op # "delete"
  BY Typed DEF CommitShare
<1>2. FlushedOK(j, x) /\ j.uuid \in Uuid /\ j.actor \in Account /\ email[j.actor] # Absent
  BY <1>1 DEF TxOK
<1>3. CASE j.op = "create"
  <2>1. CreateOK("commit", j, x)
    BY <1>1, <1>3 DEF TxOK
  <2>2. x.row \in Row /\ shares' = [shares EXCEPT ![j.uuid] = x.row]
    BY <2>1, <1>3 DEF CreateOK, CommitShare
  <2>3. CommittedRow(j, x, j.uuid, x.row)
    BY <2>1, <1>2, <1>3 DEF CommittedRow, CreateOK, RowOK, FlushedOK, RefIds
  <2> QED
    BY <1>2, <2>2, <2>3
<1>4. CASE j.op \in {"accept", "revoke"}
  <2>1. AnswerOK(j, x) /\ j.uuid \in Stored
    BY <1>1, <1>2, <1>4 DEF TxOK, FlushedOK
  <2> PICK old : old = shares[j.uuid]
    OBVIOUS
  <2> DEFINE new == Merged(x.base, x.row, old)
  <2>2. old \in Row /\ RowOK(old)
    BY <2>1 DEF Stored, Inv, RowsOK
  <2>3. /\ x.base \in Row /\ x.row \in Row
        /\ old.owner = x.base.owner /\ old.email = x.base.email
        /\ x.row.owner = x.base.owner /\ x.row.email = x.base.email
    BY <2>1 DEF AnswerOK
  <2>4. new \in Row
    BY <2>2, <2>3 DEF Merged, Column, Row
  <2>5. /\ new.owner = old.owner /\ new.email = old.email
        /\ new.to = IF x.row.to = x.base.to THEN old.to ELSE x.row.to
        /\ new.status = IF x.row.status = x.base.status THEN old.status ELSE x.row.status
    BY <2>3 DEF Merged, Column
  <2>6. shares' = [shares EXCEPT ![j.uuid] = new]
    BY <1>4 DEF CommitShare
  <2> HIDE DEF new
  <2>7. j.op = "accept" => /\ x.row.to = j.actor /\ email[j.actor] = old.email
                           /\ new.status = "accepted" /\ j.uuid \notin j.known
    BY <2>1, <2>3, <2>5 DEF AnswerOK
  <2>8. j.op = "revoke" => /\ new.to = old.to /\ new.status = "revoked"
                           /\ j.actor = old.owner
    BY <2>1, <2>3, <2>5 DEF AnswerOK
  <2>9. new.to # old.to => j.op = "accept" /\ new.to = j.actor /\ new.to \in RefIds(j, x)
    BY <1>4, <2>5, <2>7, <2>8 DEF RefIds
  <2>10. old.to \in live => new.to = old.to
    <3>1. j.actor # old.to /\ j.op = "accept" /\ new.to = j.actor /\ new.to # old.to
             /\ old.to \in live => FALSE
      <4> HAVE j.actor # old.to /\ j.op = "accept" /\ new.to = j.actor /\ new.to # old.to
                 /\ old.to \in live
      <4>1. j.actor \in live
        BY <2>9, <1>2 DEF FlushedOK
      <4>2. email[old.to] = old.email
        BY <2>2, ValuesAreApart DEF RowOK, Inv, TypeOK
      <4> QED
        BY <4>1, <4>2, <2>7 DEF Inv, AccountsOK
    <3> QED
      BY <3>1, <2>9
  <2>11. RowOK(new)
    BY <2>2, <2>5, <2>7, <2>9 DEF RowOK
  <2>12. CommittedRow(j, x, j.uuid, new)
    BY <1>4, <2>1, <2>5, <2>7, <2>8, <2>9, <2>10, <2>11 DEF CommittedRow
  <2> QED
    BY <1>2, <2>4, <2>6, <2>12
<1> QED
  BY <1>1, <1>3, <1>4 DEF TxOK, Ops

(* A request that has ended is in order.                                   *)
LEMMA EndedOK ==
    ASSUME Inv, NEW r \in Req, End(r)
    PROVE  /\ ReqOK(r)'
           /\ \A q \in Req \ {r} : pc'[q] = pc[q] /\ job'[q] = job[q] /\ tx'[q] = tx[q]
           /\ pc' \in [Req -> Stages] /\ job' \in [Req -> Job] /\ tx' \in [Req -> Tx]
<1>1. pc'[r] = "idle" /\ job'[r] = NoJob /\ tx'[r] = NoTx
  BY DEF End, Inv, TypeOK
<1>2. ReqOK(r)'
  BY <1>1 DEF ReqOK, TxOK, NoJob, NoTx
<1> QED
  BY <1>2, Nulls DEF End, Inv, TypeOK, Stages

LEMMA CommitShareOK ==
    ASSUME Inv, NEW r \in Req, CommitShare(r)
    PROVE  Inv'
<1> PICK u \in Uuid, new \in Row : /\ u = job[r].uuid /\ shares' = [shares EXCEPT ![u] = new]
                                   /\ CommittedRow(job[r], tx[r], u, new)
  BY CommitsRow
<1>1. /\ pc[r] = "commit" /\ job[r].op # "delete" /\ End(r)
      /\ UNCHANGED <<email, live>>
      /\ TxOK("commit", job[r], tx[r])
  BY Typed DEF CommitShare
<1>2. \A v \in Uuid : shares'[v] = IF v = u THEN new ELSE shares[v]
  BY DEF Inv, TypeOK
<1>3. new # Absent /\ new # Gone
  BY ValuesAreApart
<1>4. Stored' = Stored \cup {u}
  BY <1>2 DEF Stored
<1>5. TypeOK'
  <2>1. shares' \in [Uuid -> Row \cup {Absent, Gone}]
    BY DEF Inv, TypeOK
  <2> QED
    BY <1>1, <2>1, EndedOK DEF Inv, TypeOK, Stages
<1>6. AccountsOK'
  BY <1>1 DEF Inv, AccountsOK
<1>7. RowsOK'
  BY <1>1, <1>2, <1>4 DEF Inv, RowsOK, RowOK, CommittedRow
<1>8. ASSUME NEW q \in Req \ {r}, pc[q] = "commit"
      PROVE  u \notin Locks(pc[q], job[q], tx[q])
  <2>1. u \in Locks("commit", job[r], tx[r])
    BY <1>1 DEF Locks
  <2> QED
    BY <1>1, <2>1 DEF Inv, PairOK, Apart
<1>9. ASSUME NEW q \in Req \ {r} PROVE ReqOK(q)'
  <2>1. \A a \in Account : email[a] # Absent => email'[a] = email[a] /\ (a \in live' => a \in live)
    BY <1>1
  <2>2. ~(u \in Stored) => shares[u] = Absent
    BY DEF CommittedRow
  <2>3. \A v \in Uuid : /\ shares[v] # Absent => shares'[v] # Absent
                        /\ v \in Stored => v \in Stored' \/ shares'[v] = Gone
                        /\ v \in Stored' => v \in Stored \/ shares[v] = Absent
                        /\ shares[v] = Gone => shares'[v] = Gone
    BY <1>2, <1>3, <1>4, <2>2, ValuesAreApart DEF Stored
  <2>4. \A v \in Stored : v \in Stored' =>
          /\ shares'[v].owner = shares[v].owner
          /\ shares'[v].email = shares[v].email
          /\ shares'[v].status = "pending" => shares[v].status = "pending"
          /\ shares[v].to \in live' => shares'[v].to = shares[v].to
    <3>1. u \in Stored => shares[u] # Absent
      BY ValuesAreApart DEF Stored
    <3>2. u \in Stored => /\ new.owner = shares[u].owner /\ new.email = shares[u].email
                          /\ new.status # "pending"
                          /\ shares[u].to \in live => new.to = shares[u].to
      BY <3>1 DEF CommittedRow
    <3> QED
      BY <1>1, <1>2, <3>2 DEF Stored
  <2>5. pc[q] = "commit" => /\ RefIds(job[q], tx[q]) \subseteq live'
                            /\ job[q].op = "create" => shares'[job[q].uuid] = Absent
                            /\ job[q].op \in {"accept", "revoke"} => job[q].uuid \in Stored'
    <3> HAVE pc[q] = "commit"
    <3>1. TxOK("commit", job[q], tx[q])
      BY Typed
    <3>2. job[q].op # "delete" => job[q].uuid \in Uuid /\ job[q].uuid # u
      BY <3>1, <1>8 DEF TxOK, Locks
    <3> QED
      BY <1>1, <1>2, <1>4, <3>1, <3>2 DEF TxOK, FlushedOK
  <2>6. pc'[q] = pc[q] /\ job'[q] = job[q] /\ tx'[q] = tx[q]
    BY <1>1, EndedOK
  <2> QED
    BY <2>1, <2>3, <2>4, <2>5, <2>6, FrameOK
<1>10. ASSUME NEW q \in Req \ {r}, pc[q] = "commit", job[q].op = "delete",
              NEW v \in Stored', job[q].actor \in {shares'[v].owner, shares'[v].to}
       PROVE  v \in Cascade(job[q].actor)
  <2>1. CASE v # u
    BY <1>2, <1>4, <1>10, <2>1 DEF Cascade, Owned, Received, Stored
  <2>2. CASE v = u
    <3>1. job[q].actor \in {new.owner, new.to} /\ job[q].actor # Absent
      BY <1>2, <1>10, <2>2, Typed, ValuesAreApart DEF TxOK
    <3>2. job[q].actor \notin RefIds(job[r], tx[r])
      BY <1>1, <1>10 DEF Inv, PairOK, Apart
    <3>3. u \in Stored /\ job[q].actor \in {shares[u].owner, shares[u].to}
      BY <3>1, <3>2 DEF CommittedRow
    <3> QED
      BY <2>2, <3>3 DEF Cascade, Owned, Received
  <2> QED
    BY <2>1, <2>2
<1>11. \A q, o \in Req : q # o => PairOK(q, o)'
  BY <1>1, <1>5, <1>10, PairsOK
<1>12. ReqOK(r)'
  BY <1>1, EndedOK
<1> QED
  BY <1>5, <1>6, <1>7, <1>9, <1>11, <1>12 DEF Inv

(* A deletion marks what it has selected and what its account owns, and    *)
(* unnames the account in what else was addressed to it.                   *)
LEMMA Deletes ==
    ASSUME Inv, NEW r \in Req, CommitDelete(r), NEW u \in Uuid
    PROVE  /\ u \in tx[r].doomed \cup Owned(job[r].actor) => shares'[u] = Gone
           /\ u \notin tx[r].doomed \cup Owned(job[r].actor) =>
                IF u \in Received(job[r].actor)
                THEN /\ shares'[u] \in Row /\ shares'[u].to = Absent
                     /\ shares'[u].owner = shares[u].owner
                     /\ shares'[u].email = shares[u].email
                     /\ shares'[u].status = shares[u].status
                ELSE shares'[u] = shares[u]
<1>1. shares'[u] = AfterDeletion(r, u)
  BY DEF CommitDelete
<1>2. u \in Received(job[r].actor) => shares[u] \in Row
  BY DEF Received, Stored
<1> QED
  BY <1>1, <1>2 DEF AfterDeletion, Row

LEMMA CommitDeleteOK ==
    ASSUME Inv, NEW r \in Req, CommitDelete(r)
    PROVE  Inv'
<1> PICK A, D : A = job[r].actor /\ D = tx[r].doomed
  OBVIOUS
<1>1. /\ pc[r] = "commit" /\ job[r].op = "delete" /\ End(r)
      /\ email' = email /\ live' = live \ {A}
      /\ TxOK("commit", job[r], tx[r])
  BY Typed DEF CommitDelete
<1>2. A \in Account /\ D \subseteq Uuid /\ \A u \in D : shares[u] # Absent
  BY <1>1, Typed DEF TxOK, DeletionOK, Tx
<1>3. \A u \in Uuid :
        /\ u \in D \cup Owned(A) => shares'[u] = Gone
        /\ u \notin D \cup Owned(A) =>
             IF u \in Received(A)
             THEN /\ shares'[u] \in Row /\ shares'[u].to = Absent
                  /\ shares'[u].owner = shares[u].owner
                  /\ shares'[u].email = shares[u].email
                  /\ shares'[u].status = shares[u].status
             ELSE shares'[u] = shares[u]
  BY Deletes
<1>4. Stored = {u \in Uuid : shares[u] \in Row} /\ Stored' = {u \in Uuid : shares'[u] \in Row}
  BY DEF Stored
<1>5. Owned(A) \subseteq Stored /\ Received(A) \subseteq Stored
  BY DEF Owned, Received
<1>6. Stored' = Stored \ (D \cup Owned(A))
  BY <1>3, <1>4, <1>5, ValuesAreApart
<1>7. TypeOK'
  <2>1. \A u \in Uuid : shares'[u] \in Row \cup {Absent, Gone}
    BY <1>3 DEF Inv, TypeOK
  <2>2. shares' \in [Uuid -> Row \cup {Absent, Gone}]
    BY <2>1 DEF CommitDelete
  <2> QED
    BY <1>1, <2>2, EndedOK DEF Inv, TypeOK, Stages
<1>8. AccountsOK'
  BY <1>1 DEF Inv, AccountsOK
<1>9. RowsOK'
  BY <1>1, <1>3, <1>4, <1>6 DEF Inv, RowsOK, RowOK
<1>10. ASSUME NEW q \in Req \ {r} PROVE ReqOK(q)'
  <2>1. \A a \in Account : email[a] # Absent => email'[a] = email[a] /\ (a \in live' => a \in live)
    BY <1>1
  <2>2. \A v \in Uuid : /\ shares[v] # Absent => shares'[v] # Absent
                        /\ v \in Stored => v \in Stored' \/ shares'[v] = Gone
                        /\ v \in Stored' => v \in Stored \/ shares[v] = Absent
                        /\ shares[v] = Gone => shares'[v] = Gone
    BY <1>3, <1>4, <1>5, <1>6, ValuesAreApart
  <2>3. \A v \in Stored : v \in Stored' =>
          /\ shares'[v].owner = shares[v].owner
          /\ shares'[v].email = shares[v].email
          /\ shares'[v].status = "pending" => shares[v].status = "pending"
          /\ shares[v].to \in live' => shares'[v].to = shares[v].to
    BY <1>1, <1>3, <1>4, <1>6 DEF Received
  <2>4. pc[q] = "commit" => /\ RefIds(job[q], tx[q]) \subseteq live'
                            /\ job[q].op = "create" => shares'[job[q].uuid] = Absent
                            /\ job[q].op \in {"accept", "revoke"} => job[q].uuid \in Stored'
    <3> HAVE pc[q] = "commit"
    <3>1. TxOK("commit", job[q], tx[q])
      BY Typed
    <3>2. FlushedOK(job[q], tx[q])
      BY <3>1 DEF TxOK
    <3>3. RefIds(job[q], tx[q]) \subseteq live'
      BY <1>1, <3>2 DEF FlushedOK, Inv, PairOK, Apart
    <3>4. job[q].op # "delete" => job[q].uuid \in Locks("commit", job[q], tx[q])
      BY <3>1 DEF TxOK, Locks
    <3>5. job[q].op # "delete" => job[q].uuid \in Uuid /\ job[q].uuid \notin Locks("commit", job[r], tx[r])
      BY <1>1, <3>1, <3>4 DEF Inv, PairOK, Apart, TxOK
    <3>6. job[q].op # "delete" => job[q].uuid \notin D \cup Owned(A) \cup Received(A)
      BY <1>1, <3>5 DEF Locks, Cascade
    <3> QED
      BY <1>3, <1>4, <3>2, <3>3, <3>5, <3>6 DEF FlushedOK
  <2>5. pc'[q] = pc[q] /\ job'[q] = job[q] /\ tx'[q] = tx[q]
    BY <1>1, EndedOK
  <2> QED
    BY <2>1, <2>2, <2>3, <2>4, <2>5, FrameOK
<1>11. ASSUME NEW q \in Req \ {r}, pc[q] = "commit", job[q].op = "delete",
              NEW v \in Stored', job[q].actor \in {shares'[v].owner, shares'[v].to}
       PROVE  v \in Cascade(job[q].actor)
  <2>1. job[q].actor # Absent
    BY <1>11, Typed, ValuesAreApart DEF TxOK
  <2>2. v \in Stored /\ job[q].actor \in {shares[v].owner, shares[v].to}
    BY <1>3, <1>4, <1>6, <1>11, <2>1
  <2> QED
    BY <2>2 DEF Cascade, Owned, Received
<1>12. \A q, o \in Req : q # o => PairOK(q, o)'
  BY <1>1, <1>7, <1>11, PairsOK
<1>13. ReqOK(r)'
  BY <1>1, EndedOK
<1> QED
  BY <1>7, <1>8, <1>9, <1>10, <1>12, <1>13 DEF Inv

LEMMA RegisterOK ==
    ASSUME Inv, NEW p \in Person, Register(p)
    PROVE  Inv'
<1> PICK a \in Account : /\ email[a] = Absent /\ email' = [email EXCEPT ![a] = p]
                         /\ live' = live \cup {a}
  BY DEF Register
<1>1. /\ UNCHANGED <<shares, pc, job, tx>> /\ AccountsOf(p) = {}
      /\ email \in [Account -> Person \cup {Absent}]
      /\ live \subseteq Account /\ p # Absent
  BY ValuesAreApart DEF Register, Inv, TypeOK
<1>2. \A b \in Account : email'[b] = IF b = a THEN p ELSE email[b]
  BY <1>1
<1>3. TypeOK'
  BY <1>1, <1>2 DEF Inv, TypeOK
<1>4. AccountsOK'
  BY <1>1, <1>2 DEF Inv, AccountsOK, AccountsOf
<1>5. RowsOK'
  <2>1. Stored' = Stored
    BY <1>1 DEF Stored
  <2>2. ASSUME NEW u \in Stored PROVE RowOK(shares[u])'
    <3>1. RowOK(shares[u]) /\ shares[u] \in Row
      BY DEF Inv, RowsOK, Stored
    <3>2. shares[u].owner \in Account /\ shares[u].to \in Account \cup {Absent}
          /\ shares[u].email # Absent
      BY <3>1, ValuesAreApart DEF Row
    <3> QED
      BY <1>1, <1>2, <3>1, <3>2 DEF RowOK
  <2> QED
    BY <1>1, <2>1, <2>2 DEF RowsOK
<1>6. ASSUME NEW q \in Req PROVE ReqOK(q)'
  <2>1. \A b \in Account : email[b] # Absent => email'[b] = email[b] /\ (b \in live' => b \in live)
    BY <1>2
  <2>2. Stored' = Stored
    BY <1>1 DEF Stored
  <2>3. pc[q] = "commit" => /\ RefIds(job[q], tx[q]) \subseteq live'
                            /\ job[q].op = "create" => shares'[job[q].uuid] = Absent
                            /\ job[q].op \in {"accept", "revoke"} => job[q].uuid \in Stored'
    BY <1>1, <2>2, Typed DEF TxOK, FlushedOK
  <2>4. \A v \in Stored : shares[v].to \in live' => shares'[v].to = shares[v].to
    BY <1>1
  <2> QED
    BY <1>1, <2>1, <2>2, <2>3, <2>4, FrameOK
<1>7. ASSUME NEW q \in Req, NEW o \in Req, q # o PROVE PairOK(q, o)'
  <2>1. Stored' = Stored /\ \A b : Cascade(b)' = Cascade(b)
    BY <1>1 DEF Stored, Cascade, Owned, Received
  <2> PICK i, j, x, i2, j2, x2 : /\ i = pc[q] /\ j = job[q] /\ x = tx[q]
                                 /\ i2 = pc[o] /\ j2 = job[o] /\ x2 = tx[o]
    OBVIOUS
  <2>2. Apart(i, j, x, i2, j2, x2)
    BY <1>7 DEF Inv, PairOK
  <2>3. Apart(i, j, x, i2, j2, x2)'
    BY <2>1, <2>2 DEF Apart, Locks, RefIds
  <2> QED
    BY <1>1, <2>3 DEF PairOK
<1> QED
  BY <1>3, <1>4, <1>5, <1>6, <1>7 DEF Inv

-----------------------------------------------------------------------------
LEMMA InitOK == Init => Inv
<1> SUFFICES ASSUME Init PROVE Inv
  OBVIOUS
<1>1. TypeOK /\ Stored = {} /\ live = {}
  BY Nulls, ValuesAreApart DEF Init, TypeOK, Stored
<1>2. AccountsOK /\ RowsOK
  BY <1>1 DEF AccountsOK, RowsOK
<1>3. \A r \in Req : pc[r] = "idle" /\ job[r] = NoJob /\ tx[r] = NoTx
  BY DEF Init
<1>4. \A r \in Req : ReqOK(r)
  BY <1>3, IdleOK DEF ReqOK
<1>5. \A q, r \in Req : PairOK(q, r)
  BY <1>3, IdleOK DEF PairOK, Apart
<1> QED
  BY <1>1, <1>2, <1>4, <1>5 DEF Inv

LEMMA StillOK ==
    ASSUME Inv, UNCHANGED vars
    PROVE  Inv'
<1>1. TypeOK' /\ AccountsOK' /\ RowsOK' /\ \A r \in Req : ReqOK(r)'
  BY DEF vars, Inv, TypeOK, AccountsOK, RowsOK, RowOK, ReqOK, TxOK, DeletionOK, AnswerOK,
     CreateOK, FlushedOK, Stored, Received
<1>2. \A q, r \in Req : q # r => PairOK(q, r)'
  BY DEF vars, Inv, PairOK, Apart, Locks, Cascade, Owned, Received, Stored
<1> QED
  BY <1>1, <1>2 DEF Inv

LEMMA StepOK == Inv /\ [Next]_vars => Inv'
<1> SUFFICES ASSUME Inv, [Next]_vars PROVE Inv'
  OBVIOUS
<1>1. CASE UNCHANGED vars
  BY <1>1, StillOK
<1>2. ASSUME NEW p \in Person, Register(p) PROVE Inv'
  BY <1>2, RegisterOK
<1>3. ASSUME NEW r \in Req,
             BeginCreate(r) \/ BeginAccept(r) \/ BeginRevoke(r) \/ BeginDelete(r)
      PROVE  Inv'
  BY <1>3, BeginsOK
<1>4. ASSUME NEW r \in Req, CheckUuid(r) \/ FindRecipient(r) \/ ReadShare(r)
      PROVE  Inv'
  BY <1>4, CheckUuidOK, FindRecipientOK, ReadShareOK
<1>5. ASSUME NEW r \in Req, Refuse(r) \/ StatementError(r) \/ Abort(r) PROVE Inv'
  BY <1>5, EndOK DEF Refuse, StatementError, Abort
<1>6. ASSUME NEW r \in Req, SelectReceived(r) \/ DeleteReceived(r) \/ Flush(r)
      PROVE  Inv'
  BY <1>6, SelectReceivedOK, DeleteReceivedOK, FlushOK
<1>7. ASSUME NEW r \in Req, CommitShare(r) \/ CommitDelete(r) PROVE Inv'
  BY <1>7, CommitShareOK, CommitDeleteOK
<1> QED
  BY <1>1, <1>2, <1>3, <1>4, <1>5, <1>6, <1>7 DEF Next

LEMMA Invariance == Spec => []Inv
<1> QED
  BY InitOK, StepOK, PTL DEF Spec

(* Rows change only when a request commits.                                *)
LEMMA OnlyCommitsWrite ==
    ASSUME [Next]_vars
    PROVE  \/ UNCHANGED shares
           \/ \E r \in Req : CommitShare(r) \/ CommitDelete(r)
<1>1. ASSUME NEW r \in Req, NEW a, NEW asked, Begin(r, a, asked) PROVE UNCHANGED shares
  BY <1>1 DEF Begin
<1>2. ASSUME NEW r \in Req, NEW next, NEW state, Go(r, next, state) PROVE UNCHANGED shares
  BY <1>2 DEF Go
<1>3. ASSUME NEW r \in Req, BeginCreate(r) \/ BeginAccept(r) \/ BeginRevoke(r) \/ BeginDelete(r)
      PROVE  UNCHANGED shares
  BY <1>1, <1>3, Zenon DEF BeginCreate, BeginAccept, BeginRevoke, BeginDelete
<1>4. ASSUME NEW r \in Req, CheckUuid(r) \/ FindRecipient(r) \/ ReadShare(r)
      PROVE  UNCHANGED shares
  BY <1>2, <1>4, Zenon DEF CheckUuid, FindRecipient, ReadShare
<1>5. ASSUME NEW r \in Req, SelectReceived(r) \/ DeleteReceived(r) \/ Flush(r)
      PROVE  UNCHANGED shares
  BY <1>2, <1>5, Zenon DEF SelectReceived, DeleteReceived, Flush
<1>6. ASSUME NEW r \in Req, Refuse(r) \/ StatementError(r) \/ Abort(r) PROVE UNCHANGED shares
  BY <1>6 DEF Refuse, StatementError, Abort
<1>7. ASSUME NEW p \in Person, Register(p) PROVE UNCHANGED shares
  BY <1>7 DEF Register
<1>8. CASE UNCHANGED vars
  BY <1>8 DEF vars
<1>9. CASE Next
  BY <1>3, <1>4, <1>5, <1>6, <1>7, <1>9 DEF Next
<1> QED
  BY <1>8, <1>9

-----------------------------------------------------------------------------
(* Type correctness.                                                       *)
THEOREM TypeCorrect == Spec => []TypeOK
<1>1. Inv => TypeOK
  BY DEF Inv
<1> QED
  BY <1>1, Invariance, PTL

(* No share is addressed to its owner, however the look-up of the          *)
(* recipient, the deletion of accounts and new registrations interleave:   *)
(* the foreign key fails the insert of an owner whose account has gone.    *)
THEOREM NobodySharesWithThemselves == Spec => []NoSelfShare
<1>1. Inv => NoSelfShare
  BY DEF Inv, RowsOK, RowOK, NoSelfShare
<1> QED
  BY <1>1, Invariance, PTL

(* A share keeps its owner and its addressee: an acceptance that overlaps  *)
(* anything else writes only what it changed, and by then the address      *)
(* still is that of the accepting account.                                 *)
THEOREM SharesStayAddressed == Spec => AddresseeKept
<1> DEFINE Kept == \A u \in Stored : u \in Stored' =>
                     /\ shares'[u].owner = shares[u].owner
                     /\ shares'[u].email = shares[u].email
                     /\ shares'[u].to # Absent => email[shares'[u].to] = shares[u].email
<1>1. ASSUME Inv, [Next]_vars PROVE Kept
  <2>1. ASSUME NEW u \in Stored
        PROVE  shares[u].to # Absent => email[shares[u].to] = shares[u].email
    BY <1>1 DEF Inv, RowsOK, RowOK
  <2>2. CASE UNCHANGED shares
    BY <2>1, <2>2
  <2>3. ASSUME NEW r \in Req, CommitShare(r) PROVE Kept
    <3> PICK u \in Uuid, new \in Row : /\ shares' = [shares EXCEPT ![u] = new]
                                       /\ CommittedRow(job[r], tx[r], u, new)
      BY <1>1, <2>3, CommitsRow
    <3>1. \A v \in Uuid : shares'[v] = IF v = u THEN new ELSE shares[v]
      BY <1>1 DEF Inv, TypeOK
    <3>2. u \in Stored => /\ new.owner = shares[u].owner /\ new.email = shares[u].email
                          /\ new.to # Absent => email[new.to] = new.email
      BY ValuesAreApart DEF CommittedRow, RowOK, Stored
    <3> QED
      BY <2>1, <3>1, <3>2 DEF Stored
  <2>4. ASSUME NEW r \in Req, CommitDelete(r) PROVE Kept
    BY <1>1, <2>1, <2>4, Deletes, ValuesAreApart DEF Stored
  <2> QED
    BY <1>1, <2>2, <2>3, <2>4, OnlyCommitsWrite
<1>2. ASSUME Inv, [Next]_vars PROVE [Kept]_vars
  BY <1>1, <1>2
<1> QED
  BY <1>2, Invariance, PTL DEF Spec, AddresseeKept

(* Shares are accepted by their addressee and revoked by their owner, and  *)
(* none becomes pending again.                                             *)
THEOREM StatusesMoveRightly == Spec => StatusMovesRightly
<1> DEFINE Right == \A u \in Stored : u \in Stored' /\ shares'[u].status # shares[u].status =>
                      \E r \in Req :
                        /\ CommitShare(r) /\ job[r].uuid = u
                        /\ \/ /\ shares'[u].status = "accepted"
                              /\ email[job[r].actor] = shares[u].email
                              /\ u \notin job[r].known
                           \/ /\ shares'[u].status = "revoked"
                              /\ job[r].actor = shares[u].owner
<1>1. ASSUME Inv, [Next]_vars PROVE Right
  <2>1. CASE UNCHANGED shares
    BY <2>1
  <2>2. ASSUME NEW r \in Req, CommitShare(r) PROVE Right
    <3> PICK u \in Uuid, new \in Row : /\ u = job[r].uuid /\ shares' = [shares EXCEPT ![u] = new]
                                       /\ CommittedRow(job[r], tx[r], u, new)
      BY <1>1, <2>2, CommitsRow
    <3>1. \A v \in Uuid : shares'[v] = IF v = u THEN new ELSE shares[v]
      BY <1>1 DEF Inv, TypeOK
    <3>2. u \in Stored => \/ /\ new.status = "accepted"
                             /\ email[job[r].actor] = shares[u].email /\ u \notin job[r].known
                          \/ new.status = "revoked" /\ job[r].actor = shares[u].owner
      BY ValuesAreApart DEF CommittedRow, Stored
    <3> QED
      BY <2>2, <3>1, <3>2 DEF Stored
  <2>3. ASSUME NEW r \in Req, CommitDelete(r) PROVE Right
    BY <1>1, <2>3, Deletes, ValuesAreApart DEF Stored
  <2> QED
    BY <1>1, <2>1, <2>2, <2>3, OnlyCommitsWrite
<1>2. ASSUME Inv, [Next]_vars PROVE [Right]_vars
  BY <1>1, <1>2
<1> QED
  BY <1>2, Invariance, PTL DEF Spec, StatusMovesRightly

(* A deletion takes with it every share its account owned, and every one   *)
(* it had received when the deletion began; none names it afterwards.      *)
THEOREM DeletionsLeaveNothing == Spec => NothingLingers
<1> DEFINE Left == \A r \in Req : CommitDelete(r) /\ job[r].actor \in live =>
                      \A u \in Stored' : /\ u \notin job[r].known
                                         /\ job[r].actor \notin {shares'[u].owner, shares'[u].to}
<1>1. ASSUME Inv, NEW r \in Req, CommitDelete(r), job[r].actor \in live, NEW u \in Stored'
      PROVE  /\ u \notin job[r].known
             /\ job[r].actor \notin {shares'[u].owner, shares'[u].to}
  <2>1. u \in Uuid /\ shares'[u] \in Row
    BY DEF Stored
  <2>2. u \notin tx[r].doomed /\ u \notin Owned(job[r].actor)
    BY <1>1, <2>1, Deletes, ValuesAreApart
  <2>3. DeletionOK("commit", job[r], tx[r]) /\ job[r].actor # Absent
    BY <1>1, Typed, ValuesAreApart DEF CommitDelete, TxOK
  <2>4. shares[u] # Gone
    BY <1>1, <2>1, <2>2, Deletes, ValuesAreApart DEF Received, Stored
  <2>5. u \notin job[r].known
    BY <1>1, <2>2, <2>3, <2>4 DEF DeletionOK
  <2>6. u \in Stored
    BY <1>1, <2>1, <2>2, Deletes DEF Received, Stored
  <2>7. job[r].actor \notin {shares'[u].owner, shares'[u].to}
    BY <1>1, <2>1, <2>2, <2>3, <2>6, Deletes DEF Owned, Received
  <2> QED
    BY <2>5, <2>7
<1>2. ASSUME Inv, [Next]_vars PROVE [Left]_vars
  BY <1>1, <1>2
<1> QED
  BY <1>2, Invariance, PTL DEF Spec, NothingLingers
=============================================================================

------------------------- MODULE AuthSessionsProofs -------------------------
(***************************************************************************)
(* Proofs about AuthSessions, for any number of concurrent requests, of    *)
(* tokens, passwords and salts.                                            *)
(***************************************************************************)
EXTENDS AuthSessions, TLAPS, WellFoundedInduction

(* The statements a request of each operation goes through.                *)
Stages(op) ==
    CASE op = "none"     -> {"idle"}
      [] op = "register" -> {"read", "insert", "commit", "reply"}
      [] op = "login"    -> {"read", "insert", "commit", "reply"}
      [] op = "refresh"  -> {"lock", "insert", "select", "write", "commit", "reply"}
      [] op = "logout"   -> {"read", "write", "commit", "reply"}
      [] op = "rekey"    -> {"read", "user", "select", "write", "commit", "reply"}
      [] op = "delete"   -> {"read", "select", "write", "user", "cascade",
                             "commit", "reply"}

JobOK(r) ==
    /\ pc[r] \in Stages(job[r].op)
    /\ job[r].op \in {"refresh", "logout"} => job[r].token \in Token
    /\ job[r].op \in {"register", "rekey"} => job[r].new \in Hash
    /\ job[r].op \in {"register", "login"} => job[r].token = Absent
    /\ pc[r] \in {"idle", "read", "lock"} => tx[r] = NoTx
    /\ job[r].op \in {"login", "rekey", "delete"} /\ pc[r] # "read" =>
         tx[r].user \in User
    /\ tx[r].issue # Absent =>
         job[r].op \in {"register", "login", "refresh"} /\ pc[r] \in {"commit", "reply"}
    /\ job[r].op \in {"register", "login"} /\ pc[r] = "commit" => tx[r].issue # Absent

(* Whatever a request has decided to write it has locked, and the rows it  *)
(* updates are there.                                                      *)
LocksOK(r) ==
    /\ pc[r] \notin {"write", "reply"} => tx[r].seen \subseteq tx[r].held
    /\ pc[r] \in {"insert", "commit"} /\ job[r].op # "delete" =>
         tx[r].seen \subseteq Stored

(* A refresh that rotates holds its token, and the token is live; one that *)
(* wipes holds it too.                                                     *)
Rotates(r) == /\ job[r].op = "refresh"
              /\ pc[r] = "insert" \/ (pc[r] = "commit" /\ tx[r].issue # Absent)

Wipes(r) == job[r].op = "refresh" /\ pc[r] \in {"select", "write"}

TokenOK(r) == /\ Rotates(r) => tx[r].seen = {job[r].token} /\ job[r].token \in LiveTokens
              /\ Wipes(r) => job[r].token \in Stored \cap tx[r].held

(* A token about to be stored is known to nobody else.                     *)
Pending(r) == pc[r] = "commit" /\ tx[r].issue # Absent

IssueOK(r) == Pending(r) =>
    /\ tx[r].issue \in issued \ Stored
    /\ \A t \in Stored : tokens[t].root # tx[r].issue

(* What a request has locked of the account row stays as it was read.      *)
SameUser(r) == user # Absent /\ user.id = tx[r].user.id

AccountOK(r) ==
    /\ job[r].op = "register" /\ pc[r] = "commit" => "del" \in tx[r].held /\ user = Absent
    /\ job[r].op = "login" /\ pc[r] = "commit" => "key" \in tx[r].held /\ SameUser(r)
    /\ job[r].op = "refresh" /\ Pending(r) => "key" \in tx[r].held
    /\ job[r].op = "rekey" /\ pc[r] \in {"select", "write", "commit"} =>
         "upd" \in tx[r].held /\ SameUser(r)
    /\ job[r].op = "delete" /\ pc[r] \in {"cascade", "commit"} => "del" \in tx[r].held
    /\ job[r].op = "delete" /\ pc[r] = "commit" =>
         \A t \in Stored : tokens[t].owner = tx[r].user.id => t \in tx[r].seen

(* A wipe or a rekey has selected every live token it could know of.       *)
KnownOK(r) ==
    /\ job[r].known \subseteq issued
    /\ (job[r].op = "rekey" \/ (job[r].op = "refresh" /\ tx[r].issue = Absent))
         /\ pc[r] \in {"write", "commit"} => job[r].known \cap LiveTokens \subseteq tx[r].seen
    /\ Wiped(r) => job[r].known \cap LiveTokens = {}

ReqOK(r) == /\ JobOK(r) /\ LocksOK(r) /\ TokenOK(r)
            /\ IssueOK(r) /\ AccountOK(r) /\ KnownOK(r)

(* Two requests hold no locks that exclude each other, and issue different *)
(* tokens, of which the other has not heard.                               *)
PairOK(q, r) ==
    /\ \A a \in tx[q].held, b \in tx[r].held : ~Clash(a, b)
    /\ Pending(q) => /\ tx[q].issue \notin job[r].known
                     /\ Pending(r) => tx[q].issue # tx[r].issue

StoredOK == \A t \in Stored : t \in issued /\ tokens[t].root \in issued

Inv == /\ TypeOK
       /\ StoredOK
       /\ OneLivePerLogin
       /\ TokensHaveOwner
       /\ \A r \in Req : ReqOK(r)
       /\ \A q, r \in Req : q # r => PairOK(q, r)

-----------------------------------------------------------------------------
LEMMA NothingTyped ==
    /\ NoJob \in Job /\ NoJob.op = "none" /\ NoJob.known = {}
    /\ NoTx \in Tx /\ NoTx.seen = {} /\ NoTx.held = {} /\ NoTx.issue = Absent
BY DEF NoJob, NoTx, Job, Tx

LEMMA ClashIsSymmetric == \A a, b : Clash(a, b) <=> Clash(b, a)
BY DEF Clash

LEMMA InvInit == Init => Inv
<1> SUFFICES ASSUME Init PROVE Inv
  OBVIOUS
<1>1. TypeOK
  BY NothingTyped DEF Init, TypeOK
<1>2. Stored = {}
  BY DEF Init, Stored
<1>3. StoredOK /\ OneLivePerLogin /\ TokensHaveOwner
  BY <1>2 DEF StoredOK, OneLivePerLogin, TokensHaveOwner, LiveTokens
<1>4. ASSUME NEW r \in Req PROVE ReqOK(r)
  <2>1. pc[r] = "idle" /\ job[r] = NoJob /\ tx[r] = NoTx
    BY DEF Init
  <2> QED BY <2>1, NothingTyped
          DEF ReqOK, JobOK, Stages, LocksOK, TokenOK, Rotates, Wipes, IssueOK,
              Pending, AccountOK, KnownOK, Wiped
<1>5. ASSUME NEW q \in Req, NEW r \in Req PROVE PairOK(q, r)
  BY NothingTyped DEF Init, PairOK, Pending
<1> QED BY <1>1, <1>3, <1>4, <1>5 DEF Inv

-----------------------------------------------------------------------------
(* Steps that write one request's part of the state and no row.            *)
LEMMA Frame ==
    ASSUME NEW q \in Req, ReqOK(q),
           pc'[q] = pc[q], job'[q] = job[q], tx'[q] = tx[q],
           UNCHANGED <<user, tokens>>, issued \subseteq issued'
    PROVE  ReqOK(q)'
<1>1. Stored' = Stored /\ LiveTokens' = LiveTokens
  BY DEF Stored, LiveTokens
<1>2. JobOK(q)' /\ LocksOK(q)' /\ TokenOK(q)' /\ AccountOK(q)'
  BY <1>1 DEF ReqOK, JobOK, LocksOK, TokenOK, Rotates, Wipes, AccountOK,
              Pending, SameUser
<1>3. IssueOK(q)' /\ KnownOK(q)'
  BY <1>1 DEF ReqOK, IssueOK, Pending, KnownOK, Wiped
<1> QED BY <1>2, <1>3 DEF ReqOK

Stage == {"idle", "read", "lock", "insert", "user", "select",
          "write", "cascade", "commit", "reply"}

LEMMA InvLocal ==
    ASSUME Inv, NEW r \in Req, NEW newPc \in Stage,
           NEW newJob \in Job, NEW newTx \in Tx,
           pc' = [pc EXCEPT ![r] = newPc],
           job' = [job EXCEPT ![r] = newJob],
           tx' = [tx EXCEPT ![r] = newTx],
           UNCHANGED <<user, tokens, expired>>,
           issued \subseteq issued', issued' \subseteq Token,
           ReqOK(r)',
           \A q \in Req \ {r} : (PairOK(q, r) /\ PairOK(r, q))'
    PROVE  Inv'
<1>1. TypeOK'
  BY DEF Inv, TypeOK, Stage
<1>2. Stored' = Stored /\ LiveTokens' = LiveTokens
  BY DEF Stored, LiveTokens
<1>3. StoredOK'
  BY <1>2 DEF Inv, StoredOK
<1>4. OneLivePerLogin' /\ TokensHaveOwner'
  BY <1>2 DEF Inv, OneLivePerLogin, TokensHaveOwner
<1>5. \A q \in Req \ {r} : pc'[q] = pc[q] /\ job'[q] = job[q] /\ tx'[q] = tx[q]
  BY DEF Inv, TypeOK
<1>6. \A q \in Req : ReqOK(q)'
  BY <1>5, Frame DEF Inv
<1>7. ASSUME NEW p \in Req, NEW q \in Req, p # q PROVE PairOK(p, q)'
  <2>1. CASE p = r \/ q = r
    BY <1>7, <2>1
  <2>2. CASE p # r /\ q # r
    BY <1>5, <1>7, <2>2 DEF Inv, PairOK, Pending
  <2> QED BY <2>1, <2>2
<1> QED BY <1>1, <1>3, <1>4, <1>6, <1>7 DEF Inv

LEMMA InvBegin ==
    ASSUME Inv, NEW r \in Req, NEW first, NEW asked \in Job, Begin(r, first, asked),
           first \in {"read", "lock"}, first \in Stages(asked.op),
           asked.op \in {"refresh", "logout"} => asked.token \in Token,
           asked.op \in {"register", "rekey"} => asked.new \in Hash,
           asked.op \in {"register", "login"} => asked.token = Absent
    PROVE  Inv'
<1> DEFINE newJob == [asked EXCEPT !.known = Stored]
<1>1. /\ newJob \in Job
      /\ newJob.op = asked.op /\ newJob.token = asked.token
      /\ newJob.new = asked.new /\ newJob.known = Stored
  BY DEF Job, Stored
<1>2. /\ pc[r] = "idle" /\ tx[r] = NoTx
      /\ pc'[r] = first /\ job'[r] = newJob /\ tx'[r] = NoTx
  BY DEF Inv, TypeOK, ReqOK, JobOK, Begin
<1> HIDE DEF newJob
<1>3. Stored \subseteq issued
  BY DEF Inv, StoredOK
<1>4. ReqOK(r)'
  <2>0. first = "lock" => asked.op \notin {"login", "rekey", "delete"}
    BY DEF Stages
  <2>1. JobOK(r)'
    BY <1>1, <1>2, <2>0, NothingTyped DEF JobOK
  <2>2. LocksOK(r)' /\ TokenOK(r)' /\ IssueOK(r)' /\ AccountOK(r)'
    BY <1>1, <1>2, NothingTyped
       DEF LocksOK, TokenOK, Rotates, Wipes, IssueOK, Pending, AccountOK
  <2>3. KnownOK(r)'
    BY <1>1, <1>2, <1>3 DEF KnownOK, Wiped, Begin
  <2> QED BY <2>1, <2>2, <2>3 DEF ReqOK
<1>5. ASSUME NEW q \in Req \ {r} PROVE (PairOK(q, r) /\ PairOK(r, q))'
  <2>1. pc'[q] = pc[q] /\ job'[q] = job[q] /\ tx'[q] = tx[q]
    BY DEF Begin, Inv, TypeOK
  <2>2. PairOK(q, r)'
    BY <1>1, <1>2, <2>1, NothingTyped DEF PairOK, Pending, Inv, ReqOK, IssueOK
  <2>3. PairOK(r, q)'
    BY <1>2, <2>1, NothingTyped DEF PairOK, Pending
  <2> QED BY <2>2, <2>3
<1>6. tx' = [tx EXCEPT ![r] = NoTx]
  BY <1>2 DEF Begin, Inv, TypeOK
<1>7. /\ issued \subseteq issued' /\ issued' \subseteq Token
      /\ pc' = [pc EXCEPT ![r] = first] /\ job' = [job EXCEPT ![r] = newJob]
      /\ UNCHANGED <<user, tokens, expired>>
  BY DEF Begin, Inv, TypeOK, newJob
<1> QED BY <1>1, <1>4, <1>5, <1>6, <1>7, NothingTyped, InvLocal DEF Stage

LEMMA InvBegins ==
    ASSUME Inv, NEW r \in Req,
           \/ BeginRegister(r) \/ BeginLogin(r) \/ BeginRefresh(r)
           \/ BeginLogout(r) \/ BeginRekey(r) \/ BeginDelete(r)
    PROVE  Inv'
<1>1. CASE BeginRegister(r)
  <2>1. PICK h \in Hash :
             Begin(r, "read", [NoJob EXCEPT !.op = "register", !.new = h])
    BY <1>1 DEF BeginRegister
  <2> DEFINE asked == [NoJob EXCEPT !.op = "register", !.new = h]
  <2>2. /\ asked \in Job /\ asked.op = "register"
        /\ asked.new = h /\ asked.token = Absent
    BY DEF NoJob, Job, Ops
  <2> HIDE DEF asked
  <2> QED BY <2>1, <2>2, InvBegin DEF Stages, asked
<1>2. CASE BeginLogin(r)
  <2>1. PICK h \in Hash :
             Begin(r, "read", [NoJob EXCEPT !.op = "login", !.hash = h])
    BY <1>2 DEF BeginLogin
  <2> DEFINE asked == [NoJob EXCEPT !.op = "login", !.hash = h]
  <2>2. asked \in Job /\ asked.op = "login" /\ asked.token = Absent
    BY DEF NoJob, Job, Ops
  <2> HIDE DEF asked
  <2> QED BY <2>1, <2>2, InvBegin DEF Stages, asked
<1>3. CASE BeginRefresh(r)
  <2>1. PICK t \in issued :
             Begin(r, "lock", [NoJob EXCEPT !.op = "refresh", !.token = t])
    BY <1>3 DEF BeginRefresh
  <2> DEFINE asked == [NoJob EXCEPT !.op = "refresh", !.token = t]
  <2>2. t \in Token
    BY DEF Inv, TypeOK
  <2>3. asked \in Job /\ asked.op = "refresh" /\ asked.token = t
    BY <2>2 DEF NoJob, Job, Ops
  <2> HIDE DEF asked
  <2> QED BY <2>1, <2>2, <2>3, InvBegin DEF Stages, asked
<1>4. CASE BeginLogout(r)
  <2>1. PICK t \in issued :
             Begin(r, "read", [NoJob EXCEPT !.op = "logout", !.token = t])
    BY <1>4 DEF BeginLogout
  <2> DEFINE asked == [NoJob EXCEPT !.op = "logout", !.token = t]
  <2>2. t \in Token
    BY DEF Inv, TypeOK
  <2>3. asked \in Job /\ asked.op = "logout" /\ asked.token = t
    BY <2>2 DEF NoJob, Job, Ops
  <2> HIDE DEF asked
  <2> QED BY <2>1, <2>2, <2>3, InvBegin DEF Stages, asked
<1>5. CASE BeginRekey(r)
  <2>1. PICK h \in Hash, p \in Pw, s \in Salt \cup {Absent} :
             Begin(r, "read",
                   [NoJob EXCEPT !.op = "rekey", !.hash = h, !.salt = s,
                      !.new = [pw |-> p, salt |-> IF s = Absent THEN h.salt ELSE s]])
    BY <1>5 DEF BeginRekey
  <2> DEFINE new == [pw |-> p, salt |-> IF s = Absent THEN h.salt ELSE s]
  <2>2. new \in Hash
    BY DEF Hash
  <2> HIDE DEF new
  <2> DEFINE asked == [NoJob EXCEPT !.op = "rekey", !.hash = h, !.salt = s, !.new = new]
  <2>3. asked \in Job /\ asked.op = "rekey" /\ asked.new = new
    BY <2>2 DEF NoJob, Job, Ops
  <2> HIDE DEF asked
  <2>4. Begin(r, "read", asked)
    BY <2>1 DEF asked, new
  <2> QED BY <2>2, <2>3, <2>4, InvBegin DEF Stages
<1>6. CASE BeginDelete(r)
  <2>1. PICK h \in Hash :
             Begin(r, "read", [NoJob EXCEPT !.op = "delete", !.hash = h])
    BY <1>6 DEF BeginDelete
  <2> DEFINE asked == [NoJob EXCEPT !.op = "delete", !.hash = h]
  <2>2. asked \in Job /\ asked.op = "delete"
    BY DEF NoJob, Job, Ops
  <2> HIDE DEF asked
  <2> QED BY <2>1, <2>2, InvBegin DEF Stages, asked
<1> QED BY <1>1, <1>2, <1>3, <1>4, <1>5, <1>6

LEMMA InvEnd ==
    ASSUME Inv, NEW r \in Req, End(r)
    PROVE  Inv'
<1>1. pc'[r] = "idle" /\ job'[r] = NoJob /\ tx'[r] = NoTx
  BY DEF End, Inv, TypeOK
<1>2. ReqOK(r)'
  BY <1>1, NothingTyped
     DEF ReqOK, JobOK, Stages, LocksOK, TokenOK, Rotates, Wipes, IssueOK,
         Pending, AccountOK, KnownOK, Wiped
<1>3. ASSUME NEW q \in Req \ {r} PROVE (PairOK(q, r) /\ PairOK(r, q))'
  BY <1>1, NothingTyped DEF PairOK, Pending
<1> QED BY <1>2, <1>3, NothingTyped, InvLocal DEF End, Stage, Inv, TypeOK

-----------------------------------------------------------------------------
(* The statements of a transaction that is not at its commit: nothing is   *)
(* stored, and what it locks anew was granted.                             *)
LEMMA InvGo ==
    ASSUME Inv, NEW r \in Req, NEW next \in Stage, NEW newTx \in Tx,
           Go(r, next, newTx), issued' = issued, newTx.issue = Absent,
           \A b \in newTx.held : b \in tx[r].held \/ (b \in Wants(r) /\ Granted(r)),
           ReqOK(r)'
    PROVE  Inv'
<1>1. pc'[r] = next /\ tx'[r] = newTx /\ job'[r] = job[r]
  BY DEF Go, Inv, TypeOK
<1>2. ASSUME NEW q \in Req \ {r} PROVE (PairOK(q, r) /\ PairOK(r, q))'
  <2>1. pc'[q] = pc[q] /\ job'[q] = job[q] /\ tx'[q] = tx[q]
    BY DEF Go, Inv, TypeOK
  <2>2. PairOK(q, r) /\ PairOK(r, q)
    BY DEF Inv
  <2>3. ASSUME NEW a \in tx[q].held, NEW b \in newTx.held PROVE ~Clash(a, b)
    <3>1. CASE b \in tx[r].held
      BY <2>2, <3>1 DEF PairOK
    <3>2. CASE b \in Wants(r) /\ Granted(r)
      BY <3>2, ClashIsSymmetric DEF Granted, Blocks
    <3> QED BY <3>1, <3>2
  <2>4. PairOK(q, r)'
    BY <1>1, <2>1, <2>2, <2>3 DEF PairOK, Pending
  <2>5. PairOK(r, q)'
    BY <1>1, <2>1, <2>3, ClashIsSymmetric DEF PairOK, Pending
  <2> QED BY <2>4, <2>5
<1>3. /\ pc' = [pc EXCEPT ![r] = next] /\ tx' = [tx EXCEPT ![r] = newTx]
      /\ job' = [job EXCEPT ![r] = job[r]] /\ job[r] \in Job
      /\ UNCHANGED <<user, tokens, expired>>
      /\ issued \subseteq issued' /\ issued' \subseteq Token
  BY DEF Go, Inv, TypeOK
<1> QED BY <1>2, <1>3, InvLocal

(* What the proofs below use of a request that is under way.               *)
LEMMA Underway ==
    ASSUME Inv, NEW r \in Req
    PROVE  /\ tx[r] \in Tx /\ job[r] \in Job /\ ReqOK(r)
           /\ job[r].op \in Ops \cup {"none"} /\ pc[r] \in Stages(job[r].op)
           /\ pc[r] \notin {"commit", "reply"} => tx[r].issue = Absent
           /\ pc[r] \notin {"write", "reply"} => tx[r].seen \subseteq tx[r].held
BY DEF Inv, TypeOK, ReqOK, JobOK, LocksOK, Job

LEMMA InvReadUser ==
    ASSUME Inv, NEW r \in Req, ReadUser(r)
    PROVE  Inv'
<1> DEFINE x == [tx[r] EXCEPT !.user = user]
           next == AfterRead(job[r].op)
<1>1. /\ pc[r] = "read" /\ tx[r] = NoTx
      /\ job[r].op \in {"register", "login", "rekey", "delete"}
  <2>1. pc[r] = "read" /\ job[r].op # "logout"
    BY DEF ReadUser
  <2> QED BY <2>1, Underway DEF ReqOK, JobOK, Stages, Ops
<1>2. x \in Tx /\ x.user = user /\ x.seen = {} /\ x.issue = Absent /\ x.held = {}
  BY <1>1, NothingTyped DEF Inv, TypeOK, Tx
<1>3. next \in Stage /\ next \in Stages(job[r].op) /\ next \in {"insert", "user", "select"}
  BY <1>1 DEF AfterRead, Stage, Stages
<1>4. job[r].op # "register" => user \in User
  BY DEF ReadUser, Accepted, Inv, TypeOK
<1>5. next = "user" => job[r].op = "rekey"
  BY <1>1 DEF AfterRead
<1>6. next = "select" => job[r].op = "delete"
  BY <1>1 DEF AfterRead
<1> HIDE DEF x, next
<1>7. /\ Go(r, next, x) /\ issued' = issued
      /\ pc'[r] = next /\ job'[r] = job[r] /\ tx'[r] = x
  BY DEF ReadUser, Go, Inv, TypeOK, x, next
<1>8. ReqOK(r)'
  <2>1. JobOK(r)'
    BY <1>1, <1>2, <1>3, <1>4, <1>7, Underway DEF ReqOK, JobOK
  <2>2. LocksOK(r)' /\ TokenOK(r)' /\ IssueOK(r)'
    BY <1>1, <1>2, <1>3, <1>7
       DEF LocksOK, TokenOK, Rotates, Wipes, IssueOK, Pending
  <2>3. AccountOK(r)'
    BY <1>1, <1>2, <1>3, <1>5, <1>6, <1>7 DEF AccountOK, Pending
  <2>4. KnownOK(r)'
    BY <1>2, <1>3, <1>7, Underway DEF ReqOK, KnownOK, Wiped
  <2> QED BY <2>1, <2>2, <2>3, <2>4 DEF ReqOK
<1> QED BY <1>2, <1>3, <1>7, <1>8, InvGo

LEMMA InvReadToken ==
    ASSUME Inv, NEW r \in Req, ReadToken(r)
    PROVE  Inv'
<1> DEFINE x == [tx[r] EXCEPT !.seen = {job[r].token} \cap LiveTokens]
<1>0. pc[r] = "read" /\ job[r].op = "logout"
  BY DEF ReadToken
<1>1. pc[r] = "read" /\ tx[r] = NoTx /\ job[r].op = "logout"
  BY <1>0, Underway DEF ReqOK, JobOK
<1>2. x \in Tx /\ x.issue = Absent /\ x.held = {}
  BY <1>1, NothingTyped DEF Tx, LiveTokens, Stored
<1> HIDE DEF x
<1>3. /\ Go(r, "write", x) /\ issued' = issued
      /\ pc'[r] = "write" /\ job'[r] = job[r] /\ tx'[r] = x
  BY DEF ReadToken, Go, Inv, TypeOK, x
<1>4. ReqOK(r)'
  <2>1. JobOK(r)'
    BY <1>1, <1>2, <1>3, Underway DEF ReqOK, JobOK, Stages
  <2>2. LocksOK(r)' /\ TokenOK(r)' /\ IssueOK(r)' /\ AccountOK(r)'
    BY <1>1, <1>2, <1>3
       DEF LocksOK, TokenOK, Rotates, Wipes, IssueOK, Pending, AccountOK
  <2>3. KnownOK(r)'
    BY <1>1, <1>2, <1>3, Underway DEF ReqOK, KnownOK, Wiped
  <2> QED BY <2>1, <2>2, <2>3 DEF ReqOK
<1> QED BY <1>2, <1>3, <1>4, InvGo DEF Stage

LEMMA InvLockToken ==
    ASSUME Inv, NEW r \in Req, LockToken(r)
    PROVE  Inv'
<1> DEFINE t == job[r].token
<1>1. /\ pc[r] = "lock" /\ tx[r] = NoTx /\ job[r].op = "refresh"
      /\ t \in Token /\ Granted(r) /\ Wants(r) = {t}
  <2>1. pc[r] = "lock" /\ Granted(r)
    BY DEF LockToken
  <2>2. job[r].op = "refresh"
    BY <2>1, Underway DEF Stages, Ops
  <2> QED BY <2>1, <2>2, Underway DEF ReqOK, JobOK, Wants
<1>2. t \in Stored /\ (Rotatable(t) => t \in LiveTokens)
  BY DEF LockToken, Rotatable, Reused, Revoked, LiveTokens
<1>3. CASE Rotatable(t) /\ Go(r, "insert", [Holding(r, {t}) EXCEPT !.seen = {t}])
  <2> DEFINE x == [Holding(r, {t}) EXCEPT !.seen = {t}]
  <2>1. /\ x \in Tx /\ x.issue = Absent
        /\ x.held = {t} /\ x.seen = {t}
    BY <1>1, NothingTyped DEF Holding, Tx, Lock
  <2> HIDE DEF x
  <2>2. /\ Go(r, "insert", x) /\ issued' = issued
        /\ pc'[r] = "insert" /\ job'[r] = job[r] /\ tx'[r] = x
    BY <1>3 DEF LockToken, Go, Inv, TypeOK, x
  <2>3. ReqOK(r)'
    <3>1. JobOK(r)'
      BY <1>1, <2>1, <2>2 DEF JobOK, Stages
    <3>2. LocksOK(r)' /\ IssueOK(r)' /\ AccountOK(r)'
      BY <1>1, <1>2, <2>1, <2>2
         DEF LocksOK, IssueOK, Pending, AccountOK, Stored, Go
    <3>3. TokenOK(r)'
      BY <1>1, <1>2, <1>3, <2>1, <2>2
         DEF TokenOK, Rotates, Wipes, LiveTokens, Stored, Go
    <3>4. KnownOK(r)'
      BY <1>1, <2>1, <2>2, Underway DEF ReqOK, KnownOK, Wiped
    <3> QED BY <3>1, <3>2, <3>3, <3>4 DEF ReqOK
  <2> QED BY <1>1, <2>1, <2>2, <2>3, InvGo DEF Stage
<1>4. CASE Reused(t) /\ Go(r, "select", Holding(r, {t}))
  <2> DEFINE x == Holding(r, {t})
  <2>1. /\ x \in Tx /\ x.issue = Absent
        /\ x.held = {t} /\ x.seen = {}
    BY <1>1, NothingTyped DEF Holding, Tx, Lock
  <2> HIDE DEF x
  <2>2. /\ Go(r, "select", x) /\ issued' = issued
        /\ pc'[r] = "select" /\ job'[r] = job[r] /\ tx'[r] = x
    BY <1>4 DEF LockToken, Go, Inv, TypeOK, x
  <2>3. ReqOK(r)'
    <3>1. JobOK(r)'
      BY <1>1, <2>1, <2>2 DEF JobOK, Stages
    <3>2. LocksOK(r)' /\ IssueOK(r)' /\ AccountOK(r)'
      BY <1>1, <2>1, <2>2 DEF LocksOK, IssueOK, Pending, AccountOK
    <3>3. TokenOK(r)'
      BY <1>1, <1>2, <2>1, <2>2 DEF TokenOK, Rotates, Wipes, Stored, Go
    <3>4. KnownOK(r)'
      BY <1>1, <2>1, <2>2, Underway DEF ReqOK, KnownOK, Wiped
    <3> QED BY <3>1, <3>2, <3>3, <3>4 DEF ReqOK
  <2> QED BY <1>1, <2>1, <2>2, <2>3, InvGo DEF Stage
<1> QED BY <1>3, <1>4 DEF LockToken

LEMMA InvInsert ==
    ASSUME Inv, NEW r \in Req, Insert(r)
    PROVE  Inv'
<1> DEFINE mode == IF job[r].op = "register" THEN "del" ELSE "key"
<1>1. /\ pc[r] = "insert" /\ Granted(r) /\ RowThere(r) /\ Wants(r) = {mode}
      /\ job[r].op \in {"register", "login", "refresh"}
  <2>1. pc[r] = "insert" /\ Granted(r) /\ RowThere(r)
    BY DEF Insert
  <2>2. job[r].op \in {"register", "login", "refresh"}
    BY <2>1, Underway DEF Stages, Ops
  <2> QED BY <2>1, <2>2 DEF Wants
<1>2. PICK t \in Token \ issued :
           /\ issued' = issued \cup {t}
           /\ Go(r, "commit", [Holding(r, Wants(r)) EXCEPT !.issue = t])
  BY DEF Insert
<1> DEFINE x == [Holding(r, Wants(r)) EXCEPT !.issue = t]
<1>3. /\ x \in Tx /\ x.issue = t /\ x.user = tx[r].user
      /\ x.held = tx[r].held \cup {mode} /\ x.seen = tx[r].seen
  BY <1>1, Underway DEF Holding, Tx, Lock
<1>4. /\ pc'[r] = "commit" /\ job'[r] = job[r] /\ tx'[r] = x
      /\ UNCHANGED <<user, tokens>>
  BY <1>2 DEF Go, Inv, TypeOK
<1> HIDE DEF x
<1>5. Stored' = Stored /\ LiveTokens' = LiveTokens
  BY <1>4 DEF Stored, LiveTokens
<1>6. t # Absent
  BY <1>2, AbsentIsNoValue
<1>7. ReqOK(r)'
  <2>1. JobOK(r)'
    BY <1>1, <1>3, <1>4, <1>6, Underway DEF ReqOK, JobOK, Stages
  <2>2. LocksOK(r)'
    BY <1>1, <1>3, <1>4, <1>5, Underway DEF ReqOK, LocksOK
  <2>3. TokenOK(r)'
    BY <1>1, <1>3, <1>4, <1>5, Underway DEF ReqOK, TokenOK, Rotates, Wipes
  <2>4. IssueOK(r)'
    BY <1>2, <1>3, <1>4, <1>5 DEF IssueOK, Pending, Inv, StoredOK
  <2>5. AccountOK(r)'
    BY <1>1, <1>3, <1>4 DEF AccountOK, RowThere, SameUser
  <2>6. KnownOK(r)'
    BY <1>1, <1>2, <1>3, <1>4, <1>6, Underway DEF ReqOK, KnownOK, Wiped
  <2> QED BY <2>1, <2>2, <2>3, <2>4, <2>5, <2>6 DEF ReqOK
<1>8. ASSUME NEW q \in Req \ {r} PROVE (PairOK(q, r) /\ PairOK(r, q))'
  <2>1. pc'[q] = pc[q] /\ job'[q] = job[q] /\ tx'[q] = tx[q]
    BY <1>2 DEF Go, Inv, TypeOK
  <2>2. PairOK(q, r) /\ PairOK(r, q) /\ ReqOK(q)
    BY DEF Inv
  <2>3. ASSUME NEW a \in tx[q].held, NEW b \in x.held PROVE ~Clash(a, b)
    <3>1. CASE b \in tx[r].held
      BY <2>2, <3>1 DEF PairOK
    <3>2. CASE b \in Wants(r)
      BY <1>1, <3>2, ClashIsSymmetric DEF Granted, Blocks
    <3> QED BY <1>1, <1>3, <3>1, <3>2
  <2>4. t \notin job[q].known /\ (Pending(q) => tx[q].issue # t)
    BY <1>2, <2>2 DEF ReqOK, KnownOK, IssueOK
  <2>5. PairOK(q, r)'
    BY <1>3, <1>4, <2>1, <2>2, <2>3, <2>4 DEF PairOK, Pending
  <2>6. PairOK(r, q)'
    BY <1>3, <1>4, <2>1, <2>3, <2>4, ClashIsSymmetric DEF PairOK, Pending
  <2> QED BY <2>5, <2>6
<1>9. /\ pc' = [pc EXCEPT ![r] = "commit"] /\ tx' = [tx EXCEPT ![r] = x]
      /\ job' = [job EXCEPT ![r] = job[r]] /\ job[r] \in Job
      /\ UNCHANGED <<user, tokens, expired>>
      /\ issued \subseteq issued' /\ issued' \subseteq Token
  BY <1>2 DEF Go, Inv, TypeOK, x
<1> QED BY <1>3, <1>7, <1>8, <1>9, InvLocal DEF Stage

LEMMA InvUpdateUser ==
    ASSUME Inv, NEW r \in Req, UpdateUser(r)
    PROVE  Inv'
<1> DEFINE x == Holding(r, Wants(r))
<1>1. /\ pc[r] = "user" /\ job[r].op = "rekey" /\ Granted(r) /\ RowThere(r)
      /\ Wants(r) = {"upd"}
  BY DEF UpdateUser, Wants
<1>2. /\ x \in Tx /\ x.issue = Absent /\ x.user = tx[r].user
      /\ x.held = tx[r].held \cup {"upd"} /\ x.seen = tx[r].seen
  BY <1>1, Underway DEF Holding, Tx, Lock
<1>3. /\ Go(r, "select", x) /\ issued' = issued
      /\ pc'[r] = "select" /\ job'[r] = job[r] /\ tx'[r] = x
  BY DEF UpdateUser, Go, Inv, TypeOK
<1> HIDE DEF x
<1>4. ReqOK(r)'
  <2>1. JobOK(r)'
    BY <1>1, <1>2, <1>3, Underway DEF ReqOK, JobOK, Stages
  <2>2. LocksOK(r)' /\ TokenOK(r)' /\ IssueOK(r)'
    BY <1>1, <1>2, <1>3, Underway
       DEF LocksOK, TokenOK, Rotates, Wipes, IssueOK, Pending
  <2>3. AccountOK(r)'
    BY <1>1, <1>2, <1>3 DEF AccountOK, RowThere, SameUser, Go
  <2>4. KnownOK(r)'
    BY <1>1, <1>2, <1>3, Underway DEF ReqOK, KnownOK, Wiped
  <2> QED BY <2>1, <2>2, <2>3, <2>4 DEF ReqOK
<1> QED BY <1>1, <1>2, <1>3, <1>4, InvGo DEF Stage

LEMMA InvSelectTokens ==
    ASSUME Inv, NEW r \in Req, SelectTokens(r)
    PROVE  Inv'
<1> DEFINE selected == IF job[r].op = "delete" THEN OfOwner(r)
                       ELSE OfOwner(r) \cap LiveTokens
           x == [tx[r] EXCEPT !.seen = selected]
<1>1. pc[r] = "select" /\ job[r].op \in {"refresh", "rekey", "delete"}
  <2>1. pc[r] = "select"
    BY DEF SelectTokens
  <2> QED BY <2>1, Underway DEF Stages, Ops
<1>2. selected \subseteq Token
  BY DEF OfOwner, Stored
<1>3. OfOwner(r) = Stored \/ job[r].op = "delete"
  <2>1. CASE job[r].op = "refresh"
    BY <1>1, <2>1, Underway
       DEF ReqOK, TokenOK, Wipes, OfOwner, Owner, Inv, TokensHaveOwner
  <2>2. CASE job[r].op = "rekey"
    BY <1>1, <2>2, Underway
       DEF ReqOK, AccountOK, SameUser, OfOwner, Owner, Inv, TokensHaveOwner
  <2> QED BY <1>1, <2>1, <2>2
<1>4. LiveTokens \subseteq selected \/ job[r].op = "delete"
  BY <1>3 DEF LiveTokens
<1> HIDE DEF selected
<1>5. /\ x \in Tx /\ x.issue = Absent /\ x.user = tx[r].user
      /\ x.held = tx[r].held /\ x.seen = selected
  BY <1>1, <1>2, Underway DEF Tx
<1>6. /\ Go(r, "write", x) /\ issued' = issued
      /\ pc'[r] = "write" /\ job'[r] = job[r] /\ tx'[r] = x
      /\ UNCHANGED <<user, tokens>>
  BY DEF SelectTokens, Go, Inv, TypeOK, selected
<1>7. Stored' = Stored /\ LiveTokens' = LiveTokens
  BY <1>6 DEF Stored, LiveTokens
<1> HIDE DEF x
<1>8. ReqOK(r)'
  <2>1. JobOK(r)'
    BY <1>1, <1>5, <1>6, Underway DEF ReqOK, JobOK, Stages
  <2>2. LocksOK(r)' /\ TokenOK(r)' /\ IssueOK(r)'
    BY <1>1, <1>5, <1>6, <1>7, Underway
       DEF ReqOK, LocksOK, TokenOK, Rotates, Wipes, IssueOK, Pending
  <2>3. AccountOK(r)'
    BY <1>1, <1>5, <1>6, Underway DEF ReqOK, AccountOK, SameUser, Pending
  <2>4. KnownOK(r)'
    BY <1>1, <1>4, <1>5, <1>6, <1>7, Underway DEF ReqOK, KnownOK, Wiped
  <2> QED BY <2>1, <2>2, <2>3, <2>4 DEF ReqOK
<1> QED BY <1>5, <1>6, <1>8, InvGo DEF Stage

LEMMA InvWriteTokens ==
    ASSUME Inv, NEW r \in Req, WriteTokens(r)
    PROVE  Inv'
<1> DEFINE x == Holding(r, Wants(r))
           next == IF job[r].op = "delete" THEN "user" ELSE "commit"
<1>1. /\ pc[r] = "write" /\ Granted(r) /\ RowsThere(r) /\ Wants(r) = tx[r].seen
      /\ job[r].op \in {"refresh", "logout", "rekey", "delete"}
  <2>1. pc[r] = "write" /\ Granted(r) /\ RowsThere(r)
    BY DEF WriteTokens
  <2> QED BY <2>1, Underway DEF Stages, Ops, Wants
<1>2. /\ x \in Tx /\ x.issue = Absent /\ x.user = tx[r].user
      /\ x.held = tx[r].held \cup tx[r].seen /\ x.seen = tx[r].seen
  BY <1>1, Underway DEF Holding, Tx, Lock
<1>3. /\ Go(r, next, x) /\ issued' = issued
      /\ pc'[r] = next /\ job'[r] = job[r] /\ tx'[r] = x
      /\ UNCHANGED <<user, tokens>>
  BY DEF WriteTokens, Go, Inv, TypeOK
<1>4. Stored' = Stored /\ LiveTokens' = LiveTokens
  BY <1>3 DEF Stored, LiveTokens
<1> HIDE DEF x
<1>5. ReqOK(r)'
  <2>1. JobOK(r)'
    BY <1>1, <1>2, <1>3, Underway DEF ReqOK, JobOK, Stages
  <2>2. LocksOK(r)' /\ TokenOK(r)' /\ IssueOK(r)'
    BY <1>1, <1>2, <1>3, <1>4
       DEF LocksOK, RowsThere, TokenOK, Rotates, Wipes, IssueOK, Pending
  <2>3. AccountOK(r)'
    BY <1>1, <1>2, <1>3, Underway DEF ReqOK, AccountOK, SameUser, Pending
  <2>4. KnownOK(r)'
    BY <1>1, <1>2, <1>3, <1>4, Underway DEF ReqOK, KnownOK, Wiped
  <2> QED BY <2>1, <2>2, <2>3, <2>4 DEF ReqOK
<1> QED BY <1>1, <1>2, <1>3, <1>5, InvGo DEF Stage

LEMMA InvDeleteUser ==
    ASSUME Inv, NEW r \in Req, DeleteUser(r)
    PROVE  Inv'
<1> DEFINE x == Holding(r, Wants(r))
<1>1. /\ pc[r] = "user" /\ job[r].op = "delete" /\ Granted(r)
      /\ Wants(r) = {"del"}
  BY DEF DeleteUser, Wants
<1>2. /\ x \in Tx /\ x.issue = Absent /\ x.user = tx[r].user
      /\ x.held = tx[r].held \cup {"del"} /\ x.seen = tx[r].seen
  BY <1>1, Underway DEF Holding, Tx, Lock
<1>3. /\ Go(r, "cascade", x) /\ issued' = issued
      /\ pc'[r] = "cascade" /\ job'[r] = job[r] /\ tx'[r] = x
  BY DEF DeleteUser, Go, Inv, TypeOK
<1> HIDE DEF x
<1>4. ReqOK(r)'
  <2>1. JobOK(r)'
    BY <1>1, <1>2, <1>3, Underway DEF ReqOK, JobOK, Stages
  <2>2. LocksOK(r)' /\ TokenOK(r)' /\ IssueOK(r)'
    BY <1>1, <1>2, <1>3, Underway
       DEF LocksOK, TokenOK, Rotates, Wipes, IssueOK, Pending
  <2>3. AccountOK(r)' /\ KnownOK(r)'
    BY <1>1, <1>2, <1>3, Underway DEF ReqOK, AccountOK, KnownOK, Wiped
  <2> QED BY <2>1, <2>2, <2>3 DEF ReqOK
<1> QED BY <1>1, <1>2, <1>3, <1>4, InvGo DEF Stage

LEMMA InvCascade ==
    ASSUME Inv, NEW r \in Req, Cascade(r)
    PROVE  Inv'
<1> DEFINE gone == {t \in Stored : tokens[t].owner = tx[r].user.id}
           x == [Holding(r, gone) EXCEPT !.seen = @ \cup gone]
<1>1. /\ pc[r] = "cascade" /\ job[r].op = "delete" /\ Granted(r) /\ Wants(r) = gone
  <2>1. pc[r] = "cascade" /\ Granted(r)
    BY DEF Cascade
  <2>2. job[r].op = "delete"
    BY <2>1, Underway DEF Stages, Ops
  <2>3. Wants(r) = gone
    BY <2>1 DEF Wants
  <2> QED BY <2>1, <2>2, <2>3
<1>2. /\ x \in Tx /\ x.issue = Absent /\ x.user = tx[r].user
      /\ x.held = tx[r].held \cup gone /\ x.seen = tx[r].seen \cup gone
  BY <1>1, Underway DEF Holding, Tx, Lock, Stored
<1>3. /\ Go(r, "commit", x) /\ issued' = issued
      /\ pc'[r] = "commit" /\ job'[r] = job[r] /\ tx'[r] = x
      /\ UNCHANGED <<user, tokens>>
  BY <1>1 DEF Cascade, Go, Inv, TypeOK
<1>4. Stored' = Stored
  BY <1>3 DEF Stored
<1> HIDE DEF x
<1>5. ReqOK(r)'
  <2>1. JobOK(r)'
    BY <1>1, <1>2, <1>3, Underway DEF ReqOK, JobOK, Stages
  <2>2. LocksOK(r)' /\ TokenOK(r)' /\ IssueOK(r)'
    BY <1>1, <1>2, <1>3, Underway
       DEF LocksOK, TokenOK, Rotates, Wipes, IssueOK, Pending
  <2>3. AccountOK(r)'
    BY <1>1, <1>2, <1>3, <1>4, Underway DEF ReqOK, AccountOK
  <2>4. KnownOK(r)'
    BY <1>1, <1>2, <1>3, Underway DEF ReqOK, KnownOK, Wiped
  <2> QED BY <2>1, <2>2, <2>3, <2>4 DEF ReqOK
<1> QED BY <1>1, <1>2, <1>3, <1>5, InvGo DEF Stage

-----------------------------------------------------------------------------
(* The commit.                                                             *)

(* What a commit does to the rows.                                         *)
LEMMA CommitRows ==
    ASSUME Inv, NEW r \in Req, Commit(r)
    PROVE  /\ tokens \in [Token -> TokenRow \cup {Absent}]
           /\ tokens' \in [Token -> TokenRow \cup {Absent}]
           /\ tx[r].issue \in Token => tokens'[tx[r].issue] = NewRow(r)
           /\ \A t \in Token : t # tx[r].issue /\ t \notin tx[r].seen =>
                tokens'[t] = tokens[t]
           /\ \A t \in tx[r].seen : t # tx[r].issue =>
                IF job[r].op = "delete" THEN tokens'[t] = Absent
                ELSE /\ tokens'[t] \in TokenRow /\ tokens'[t].revoked
                     /\ tokens'[t].owner = tokens[t].owner
                     /\ tokens'[t].root = tokens[t].root
                     /\ tokens'[t].from = tokens[t].from
<1>1. /\ tokens \in [Token -> TokenRow \cup {Absent}]
      /\ tx[r] \in Tx /\ job[r] \in Job /\ tx[r].seen \subseteq Token
      /\ pc[r] = "commit" /\ ReqOK(r)
  BY DEF Inv, TypeOK, Tx, Commit
<1>2. \A t \in Stored : t \in Token /\ tokens[t] \in TokenRow
  BY <1>1 DEF Stored
<1>3. tx[r].issue # Absent => NewRow(r) \in TokenRow
  <2> SUFFICES ASSUME tx[r].issue # Absent PROVE NewRow(r) \in TokenRow
    OBVIOUS
  <2>1. tx[r].issue \in Token
    BY <1>1 DEF Tx
  <2>2. job[r].op \in {"register", "login", "refresh"}
    BY <1>1 DEF ReqOK, JobOK
  <2>3. job[r].op = "refresh" =>
          /\ job[r].token \in Token
          /\ tokens[job[r].token] \in TokenRow
    BY <1>1, <1>2 DEF ReqOK, TokenOK, Rotates, LiveTokens
  <2>4. job[r].op = "login" => tx[r].user \in User
    BY <1>1 DEF ReqOK, JobOK
  <2>5. job[r].token \in Token \cup {Absent}
    BY <1>1 DEF Job
  <2> QED BY <2>1, <2>2, <2>3, <2>4, <2>5 DEF NewRow, Owner, TokenRow, User
<1>4. \A t \in tx[r].seen : job[r].op # "delete" => tokens[t] \in TokenRow
  BY <1>1, <1>2 DEF ReqOK, LocksOK
<1>5. tokens' = [t \in Token |->
         IF t = tx[r].issue THEN NewRow(r)
         ELSE IF t \notin tx[r].seen THEN tokens[t]
         ELSE IF job[r].op = "delete" THEN Absent
         ELSE [tokens[t] EXCEPT !.revoked = TRUE]]
  BY DEF Commit
<1>6. ASSUME NEW t \in tx[r].seen, job[r].op # "delete"
      PROVE  LET row == [tokens[t] EXCEPT !.revoked = TRUE]
             IN  /\ row \in TokenRow /\ row.revoked
                 /\ row.owner = tokens[t].owner /\ row.root = tokens[t].root
                 /\ row.from = tokens[t].from
  BY <1>4, <1>6 DEF TokenRow
<1>7. tx[r].issue \in Token => tokens'[tx[r].issue] = NewRow(r)
  BY <1>5
<1>8. \A t \in Token : t # tx[r].issue /\ t \notin tx[r].seen =>
         tokens'[t] = tokens[t]
  BY <1>5
<1>9. ASSUME NEW t \in tx[r].seen, t # tx[r].issue
      PROVE  IF job[r].op = "delete" THEN tokens'[t] = Absent
             ELSE /\ tokens'[t] \in TokenRow /\ tokens'[t].revoked
                  /\ tokens'[t].owner = tokens[t].owner
                  /\ tokens'[t].root = tokens[t].root
                  /\ tokens'[t].from = tokens[t].from
  BY <1>1, <1>5, <1>6, <1>9
<1>10. tokens' \in [Token -> TokenRow \cup {Absent}]
  <2>1. ASSUME NEW t \in Token PROVE tokens'[t] \in TokenRow \cup {Absent}
    <3>1. CASE t = tx[r].issue
      BY <1>3, <1>7, <3>1, AbsentIsNoValue
    <3>2. CASE t # tx[r].issue
      BY <1>1, <1>8, <1>9, <3>2
    <3> QED BY <3>1, <3>2
  <2> QED BY <1>5, <2>1
<1> QED BY <1>1, <1>7, <1>8, <1>9, <1>10

(* The same, for the tokens stored and live.                               *)
LEMMA CommitStored ==
    ASSUME Inv, NEW r \in Req, Commit(r)
    PROVE  /\ Stored' \subseteq Stored \cup {tx[r].issue}
           /\ Stored \ tx[r].seen \subseteq Stored'
           /\ job[r].op # "delete" => Stored \subseteq Stored'
           /\ job[r].op = "delete" => Stored' \subseteq Stored \ tx[r].seen
           /\ LiveTokens' \subseteq (LiveTokens \ tx[r].seen) \cup {tx[r].issue}
           /\ tx[r].issue \notin Stored
           /\ \A t \in Stored' : t # tx[r].issue =>
                /\ tokens'[t].owner = tokens[t].owner
                /\ tokens'[t].root = tokens[t].root
                /\ tokens'[t].from = tokens[t].from
<1>1. /\ tx[r].seen \subseteq Token /\ tx[r].issue \in Token \cup {Absent}
      /\ pc[r] = "commit" /\ ReqOK(r)
  BY DEF Inv, TypeOK, Tx, Commit
<1>2. tx[r].issue \notin Stored
  BY <1>1, AbsentIsNoValue DEF ReqOK, IssueOK, Pending, Stored
<1>3. job[r].op # "delete" => tx[r].seen \subseteq Stored
  BY <1>1 DEF ReqOK, LocksOK
<1>4. job[r].op = "delete" => tx[r].issue = Absent
  BY <1>1 DEF ReqOK, JobOK
<1>5. Absent \notin Token /\ Absent \notin TokenRow
  BY AbsentIsNoValue
<1>6. Stored' = {t \in Token : tokens'[t] # Absent}
  BY DEF Stored
<1>7. /\ Stored' \subseteq Stored \cup {tx[r].issue}
      /\ Stored \ tx[r].seen \subseteq Stored'
  BY <1>1, <1>2, <1>3, <1>5, <1>6, CommitRows DEF Stored
<1>8. job[r].op # "delete" => Stored \subseteq Stored'
  BY <1>1, <1>2, <1>5, <1>6, CommitRows DEF Stored
<1>9. job[r].op = "delete" => Stored' \subseteq Stored \ tx[r].seen
  BY <1>1, <1>4, <1>5, <1>6, CommitRows DEF Stored
<1>10. ASSUME NEW t \in Stored', t # tx[r].issue
       PROVE  /\ tokens'[t].owner = tokens[t].owner
              /\ tokens'[t].root = tokens[t].root
              /\ tokens'[t].from = tokens[t].from
  <2>1. t \in Token /\ tokens'[t] # Absent
    BY <1>6
  <2> QED BY <1>10, <2>1, CommitRows
<1>11. LiveTokens' \subseteq (LiveTokens \ tx[r].seen) \cup {tx[r].issue}
  <2> SUFFICES ASSUME NEW t \in LiveTokens', t # tx[r].issue
               PROVE  t \in LiveTokens \ tx[r].seen
    OBVIOUS
  <2>1. t \in Stored /\ t \in Stored' /\ t \in Token /\ ~tokens'[t].revoked
    BY <1>6, <1>7 DEF LiveTokens
  <2>2. t \notin tx[r].seen
    BY <1>6, <2>1, CommitRows
  <2> QED BY <2>1, <2>2, CommitRows DEF LiveTokens
<1> QED BY <1>2, <1>7, <1>8, <1>9, <1>10, <1>11

(* What another request has locked, a commit leaves as it is.              *)
LEMMA CommitSparesLocked ==
    ASSUME Inv, NEW r \in Req, Commit(r), NEW q \in Req \ {r}
    PROVE  /\ \A t \in tx[q].held \cap Stored : t \in Stored' /\ tokens'[t] = tokens[t]
           /\ {"upd", "del"} \cap tx[q].held # {} => user' = user
           /\ "key" \in tx[q].held /\ user # Absent =>
                user' # Absent /\ user'.id = user.id
           /\ "del" \in tx[q].held => Stored' \subseteq Stored
<1>1. /\ tx[r] \in Tx /\ job[r] \in Job /\ ReqOK(r) /\ pc[r] = "commit"
      /\ \A a \in tx[q].held, b \in tx[r].held : ~Clash(a, b)
      /\ job[r].op \in Ops /\ user \in User \cup {Absent}
  BY Underway DEF Inv, TypeOK, PairOK, Commit, Stages
<1>2. ASSUME NEW t \in tx[q].held \cap Stored
      PROVE  t \in Stored' /\ tokens'[t] = tokens[t]
  <2>1. t \in Token /\ t # "key" /\ t # tx[r].issue
    BY ModesAreNoTokens, CommitStored DEF Stored
  <2>2. t \notin tx[r].seen
    BY <1>1, <2>1 DEF ReqOK, LocksOK, Clash
  <2> QED BY <2>1, <2>2, CommitRows DEF Stored
<1>3. \/ user' = user
      \/ "del" \in tx[r].held
      \/ /\ "upd" \in tx[r].held /\ user # Absent
         /\ user' = Rekeyed(r)
  <2>1. CASE job[r].op = "register"
    BY <1>1, <2>1 DEF ReqOK, AccountOK
  <2>2. CASE job[r].op = "rekey"
    BY <1>1, <2>2 DEF ReqOK, AccountOK, SameUser, Commit, NewUser
  <2>3. CASE job[r].op = "delete"
    BY <1>1, <2>3 DEF ReqOK, AccountOK
  <2>4. CASE job[r].op \in {"login", "refresh", "logout"}
    BY <1>1, <2>4 DEF Commit, NewUser
  <2> QED BY <1>1, <2>1, <2>2, <2>3, <2>4 DEF Ops
<1>4. {"upd", "del"} \cap tx[q].held # {} => user' = user
  BY <1>1, <1>3 DEF Clash
<1>5. "key" \in tx[q].held /\ user # Absent => user' # Absent /\ user'.id = user.id
  <2>1. "key" \in tx[q].held => "del" \notin tx[r].held
    BY <1>1 DEF Clash
  <2>2. Rekeyed(r) \in User => Rekeyed(r) # Absent
    BY AbsentIsNoValue
  <2>3. user # Absent /\ job[r].op = "rekey" => Rekeyed(r) \in User
    <3> SUFFICES ASSUME user \in User, job[r].op = "rekey" PROVE Rekeyed(r) \in User
      BY <1>1
    <3>1. job[r].new \in Hash /\ job[r].salt \in Salt \cup {Absent}
      BY <1>1 DEF ReqOK, JobOK, Job
    <3> QED BY <3>1 DEF Rekeyed, Column, User
  <2>4. Rekeyed(r).id = user.id
    BY DEF Rekeyed
  <2>5. job[r].op # "rekey" => user' = user \/ "del" \in tx[r].held
    BY <1>1 DEF ReqOK, AccountOK, Commit, NewUser, Ops
  <2> QED BY <1>3, <2>1, <2>2, <2>3, <2>4, <2>5
<1>6. "del" \in tx[q].held => Stored' \subseteq Stored
  <2>1. tx[r].issue # Absent => {"key", "del"} \cap tx[r].held # {}
    BY <1>1 DEF ReqOK, JobOK, AccountOK, Pending
  <2>2. "del" \in tx[q].held => tx[r].issue = Absent
    BY <1>1, <2>1 DEF Clash
  <2> QED BY <2>2, CommitStored, AbsentIsNoValue DEF Stored
<1> QED BY <1>2, <1>4, <1>5, <1>6

(* The account row after a commit, and its tokens.                         *)
LEMMA CommitAccount ==
    ASSUME Inv, NEW r \in Req, Commit(r)
    PROVE  user' \in User \cup {Absent} /\ TokensHaveOwner'
<1>1. /\ tx[r] \in Tx /\ job[r] \in Job /\ ReqOK(r) /\ pc[r] = "commit"
      /\ job[r].op \in Ops /\ user \in User \cup {Absent}
      /\ user' = NewUser(r)
  BY Underway DEF Inv, TypeOK, Commit, Stages
<1>2. \A t \in Stored : user # Absent /\ tokens[t].owner = user.id
  BY DEF Inv, TokensHaveOwner
<1>3. tx[r].issue \in Stored' =>
        tx[r].issue \in Token /\ tokens'[tx[r].issue] = NewRow(r)
  BY CommitRows DEF Stored
<1>4. CASE job[r].op = "register"
  <2>1. /\ user = Absent /\ tx[r].issue \in Token /\ job[r].new \in Hash
    BY <1>1, <1>4 DEF ReqOK, AccountOK, JobOK, Tx
  <2>2. /\ user' = [id |-> tx[r].issue, auth |-> job[r].new,
                    vkey |-> job[r].new, salt |-> job[r].new.salt]
        /\ job[r].new.salt \in Salt
    BY <1>1, <1>4, <2>1 DEF NewUser, Hash
  <2>3. user' \in User
    BY <2>1, <2>2 DEF User
  <2>4. ASSUME NEW t \in Stored' PROVE tokens'[t].owner = user'.id
    <3>1. t = tx[r].issue
      BY <1>2, <2>1, CommitStored
    <3> QED BY <1>3, <1>4, <2>2, <3>1 DEF NewRow
  <2> QED BY <2>3, <2>4, AbsentIsNoValue DEF TokensHaveOwner
<1>5. CASE job[r].op \in {"login", "refresh", "logout"}
  <2>1. user' = user
    BY <1>1, <1>5 DEF NewUser
  <2>2. ASSUME NEW t \in Stored' PROVE user # Absent /\ tokens'[t].owner = user.id
    <3>1. CASE t = tx[r].issue
      <4>1. t \in Token /\ t # Absent /\ tokens'[t] = NewRow(r)
        BY <1>3, <3>1, AbsentIsNoValue
      <4>2. CASE job[r].op = "login"
        BY <1>1, <3>1, <4>1, <4>2
           DEF ReqOK, AccountOK, SameUser, NewRow, Owner
      <4>3. CASE job[r].op = "refresh"
        <5>1. job[r].token \in Stored
          BY <1>1, <3>1, <4>1, <4>3 DEF ReqOK, TokenOK, Rotates, LiveTokens
        <5> QED BY <1>2, <4>1, <4>3, <5>1 DEF NewRow, Owner
      <4>4. job[r].op # "logout"
        BY <1>1, <3>1, <4>1 DEF ReqOK, JobOK
      <4> QED BY <1>5, <4>2, <4>3, <4>4
    <3>2. CASE t # tx[r].issue
      BY <1>2, <3>2, CommitStored
    <3> QED BY <3>1, <3>2
  <2> QED BY <1>1, <2>1, <2>2 DEF TokensHaveOwner
<1>6. CASE job[r].op \in {"rekey", "delete"}
  <2>1. tx[r].issue = Absent
    BY <1>1, <1>6 DEF ReqOK, JobOK
  <2>2. Stored' \subseteq Stored
    BY <2>1, CommitStored, AbsentIsNoValue DEF Stored
  <2>3. \A t \in Stored' : user # Absent /\ tokens'[t].owner = user.id
    BY <1>2, <2>1, <2>2, CommitStored, AbsentIsNoValue DEF Stored
  <2>4. CASE job[r].op = "rekey"
    <3>1. /\ user' = Rekeyed(r) /\ user \in User
          /\ job[r].new \in Hash /\ job[r].salt \in Salt \cup {Absent}
      BY <1>1, <2>4 DEF NewUser, ReqOK, AccountOK, SameUser, JobOK, Job
    <3>2. user' \in User /\ user'.id = user.id
      BY <3>1 DEF Rekeyed, Column, User
    <3> QED BY <2>3, <3>2, AbsentIsNoValue DEF TokensHaveOwner
  <2>5. CASE job[r].op = "delete" /\ SameUser(r)
    <3>1. user' = Absent
      BY <1>1, <2>5 DEF NewUser, SameUser
    <3>2. Stored \subseteq tx[r].seen
      BY <1>1, <1>2, <2>5 DEF ReqOK, AccountOK, SameUser
    <3>3. Stored' = {}
      BY <2>5, <3>2, CommitStored
    <3> QED BY <3>1, <3>3 DEF TokensHaveOwner
  <2>6. CASE job[r].op = "delete" /\ ~SameUser(r)
    <3>1. user' = user
      BY <1>1, <2>6 DEF NewUser, SameUser
    <3> QED BY <1>1, <2>3, <3>1 DEF TokensHaveOwner
  <2> QED BY <1>6, <2>4, <2>5, <2>6
<1> QED BY <1>1, <1>4, <1>5, <1>6 DEF Ops

(* A token is stored with the root of the one it replaces, and that one is *)
(* revoked; without one, it starts a login of its own.                     *)
LEMMA CommitRotates ==
    ASSUME Inv, NEW r \in Req, Commit(r)
    PROVE  StoredOK' /\ OneLivePerLogin'
<1> DEFINE new == tx[r].issue
<1>1. ReqOK(r) /\ pc[r] = "commit" /\ issued' = issued
  BY Underway DEF Commit
<1>2. ASSUME new \in Stored'
      PROVE  /\ tokens'[new] = NewRow(r) /\ new \in issued
             /\ \A t \in Stored : tokens[t].root # new
             /\ \/ /\ job[r].op = "refresh" /\ job[r].token \in LiveTokens
                   /\ tx[r].seen = {job[r].token}
                   /\ tokens'[new].root = tokens[job[r].token].root
                \/ tokens'[new].root = new
  <2>1. new \in Token /\ new # Absent
    BY <1>2, AbsentIsNoValue DEF Stored
  <2>2. tokens'[new] = NewRow(r)
    BY <2>1, CommitRows
  <2>3. /\ new \in issued
        /\ \A t \in Stored : tokens[t].root # new
        /\ job[r].op \in {"register", "login", "refresh"}
    BY <1>1, <2>1 DEF ReqOK, IssueOK, Pending, JobOK
  <2>4. job[r].op = "refresh" =>
          job[r].token \in LiveTokens /\ tx[r].seen = {job[r].token}
    BY <1>1, <2>1 DEF ReqOK, TokenOK, Rotates
  <2> QED BY <2>2, <2>3, <2>4 DEF NewRow
<1> HIDE DEF new
<1>3. \A t \in Stored : t \in issued /\ tokens[t].root \in issued
  BY DEF Inv, StoredOK
<1>4. /\ Stored' \subseteq Stored \cup {new}
      /\ LiveTokens' \subseteq (LiveTokens \ tx[r].seen) \cup {new}
      /\ \A t \in Stored' : t # new => tokens'[t].root = tokens[t].root
  BY CommitStored DEF new
<1>5. StoredOK'
  <2> SUFFICES ASSUME NEW t \in Stored' PROVE t \in issued /\ tokens'[t].root \in issued
    BY <1>1 DEF StoredOK
  <2>1. CASE t = new
    BY <1>2, <1>3, <2>1 DEF LiveTokens
  <2>2. CASE t # new
    BY <1>3, <1>4, <2>2
  <2> QED BY <2>1, <2>2
<1>6. OneLivePerLogin'
  <2>1. LiveTokens \subseteq Stored /\ LiveTokens' \subseteq Stored'
    BY DEF LiveTokens
  <2>2. ASSUME NEW t \in LiveTokens', t # new, new \in Stored'
        PROVE  tokens'[t].root # tokens'[new].root
    <3>1. t \in LiveTokens \ tx[r].seen /\ tokens'[t].root = tokens[t].root
      BY <1>4, <2>1, <2>2
    <3> QED BY <1>2, <2>1, <2>2, <3>1 DEF Inv, OneLivePerLogin
  <2>3. ASSUME NEW t \in LiveTokens', NEW u \in LiveTokens', t # new, u # new,
               tokens'[t].root = tokens'[u].root
        PROVE  t = u
    <3>1. /\ t \in LiveTokens /\ tokens'[t].root = tokens[t].root
          /\ u \in LiveTokens /\ tokens'[u].root = tokens[u].root
      BY <1>4, <2>1, <2>3
    <3> QED BY <2>3, <3>1 DEF Inv, OneLivePerLogin
  <2> QED BY <2>1, <2>2, <2>3 DEF OneLivePerLogin
<1> QED BY <1>5, <1>6

(* The request itself has nothing more to do.                              *)
LEMMA CommitSelf ==
    ASSUME Inv, NEW r \in Req, Commit(r)
    PROVE  /\ ReqOK(r)' /\ pc'[r] = "reply" /\ job' = job /\ tx'[r].held = {}
           /\ tx' \in [Req -> Tx]
<1> DEFINE x == [tx[r] EXCEPT !.held = {}]
<1>1. /\ tx[r] \in Tx /\ ReqOK(r) /\ pc[r] = "commit" /\ job' = job
      /\ issued' = issued /\ tx \in [Req -> Tx]
  BY Underway DEF Commit, Inv, TypeOK
<1>2. /\ x \in Tx /\ x.held = {} /\ x.user = tx[r].user
      /\ x.issue = tx[r].issue /\ x.seen = tx[r].seen
  BY <1>1 DEF Tx
<1>3. pc'[r] = "reply" /\ tx' = [tx EXCEPT ![r] = x] /\ tx'[r] = x
  BY DEF Commit, Inv, TypeOK
<1> HIDE DEF x
<1>4. JobOK(r)'
  BY <1>1, <1>2, <1>3, Underway DEF ReqOK, JobOK, Stages, Ops
<1>5. LocksOK(r)' /\ TokenOK(r)' /\ IssueOK(r)' /\ AccountOK(r)'
  BY <1>3 DEF LocksOK, TokenOK, Rotates, Wipes, IssueOK, Pending, AccountOK
<1>6. KnownOK(r)'
  <2> SUFFICES ASSUME Wiped(r)' PROVE job[r].known \cap LiveTokens' = {}
    BY <1>1, <1>3 DEF ReqOK, KnownOK
  <2>1. tx[r].issue = Absent
    BY <1>1, <1>2, <1>3 DEF Wiped, ReqOK, JobOK
  <2>2. job[r].known \cap LiveTokens \subseteq tx[r].seen
    BY <1>1, <1>2, <1>3, <2>1 DEF Wiped, ReqOK, KnownOK
  <2>3. LiveTokens' \subseteq LiveTokens \ tx[r].seen
    BY <2>1, CommitStored, AbsentIsNoValue DEF LiveTokens, Stored
  <2> QED BY <2>2, <2>3
<1> QED BY <1>1, <1>2, <1>3, <1>4, <1>5, <1>6 DEF ReqOK

(* The others keep their part of the invariant.                            *)
LEMMA CommitOthers ==
    ASSUME Inv, NEW r \in Req, Commit(r), NEW q \in Req \ {r}
    PROVE  ReqOK(q)'
<1>1. /\ pc'[q] = pc[q] /\ job'[q] = job[q] /\ tx'[q] = tx[q] /\ issued' = issued
      /\ ReqOK(q) /\ PairOK(r, q) /\ PairOK(q, r) /\ ReqOK(r) /\ pc[r] = "commit"
      /\ tx[q] \in Tx
  BY DEF Commit, Inv, TypeOK
<1>2. /\ \A t \in tx[q].held \cap Stored : t \in Stored' /\ tokens'[t] = tokens[t]
      /\ {"upd", "del"} \cap tx[q].held # {} => user' = user
      /\ "key" \in tx[q].held /\ user # Absent => user' # Absent /\ user'.id = user.id
      /\ "del" \in tx[q].held => Stored' \subseteq Stored
  BY CommitSparesLocked
<1>3. JobOK(q)'
  BY <1>1 DEF ReqOK, JobOK
<1>4. LocksOK(q)'
  BY <1>1, <1>2 DEF ReqOK, LocksOK
<1>5. TokenOK(q)'
  BY <1>1, <1>2 DEF ReqOK, TokenOK, Rotates, Wipes, LocksOK, LiveTokens
<1>6. IssueOK(q)'
  <2> SUFFICES ASSUME Pending(q)
               PROVE  /\ tx[q].issue \in issued \ Stored'
                      /\ \A t \in Stored' : tokens'[t].root # tx[q].issue
    BY <1>1 DEF IssueOK, Pending
  <2>1. /\ tx[q].issue \in issued \ Stored /\ tx[q].issue # tx[r].issue
        /\ \A t \in Stored : tokens[t].root # tx[q].issue
    BY <1>1 DEF ReqOK, IssueOK, PairOK, Pending
  <2>2. ASSUME NEW t \in Stored' PROVE tokens'[t].root # tx[q].issue
    <3>1. CASE t # tx[r].issue
      BY <2>1, <3>1, CommitStored
    <3>2. CASE t = tx[r].issue
      <4>1. t \in Token /\ t # Absent /\ tokens'[t] = NewRow(r)
        BY <3>2, CommitRows, AbsentIsNoValue DEF Stored
      <4>2. job[r].op = "refresh" => job[r].token \in Stored
        BY <1>1, <3>2, <4>1 DEF ReqOK, TokenOK, Rotates, LiveTokens
      <4> QED BY <2>1, <3>2, <4>1, <4>2 DEF NewRow
    <3> QED BY <3>1, <3>2
  <2> QED BY <2>1, <2>2, CommitStored
<1>7. AccountOK(q)'
  <2>1. SameUser(q) /\ {"key", "upd"} \cap tx[q].held # {} => SameUser(q)'
    BY <1>1, <1>2 DEF SameUser
  <2>2. "del" \in tx[q].held =>
          \A t \in Stored' : t \in Stored /\ tokens'[t].owner = tokens[t].owner
    <3>1. "del" \in tx[q].held => Stored' \subseteq Stored
      BY <1>2
    <3> QED BY <3>1, CommitStored
  <2> QED BY <1>1, <1>2, <2>1, <2>2 DEF ReqOK, AccountOK, Pending
<1>8. KnownOK(q)'
  <2>1. job[q].known \cap LiveTokens' \subseteq job[q].known \cap LiveTokens
    <3>1. tx[r].issue \in LiveTokens' => tx[r].issue \notin job[q].known
      BY <1>1, AbsentIsNoValue DEF PairOK, Pending, LiveTokens, Stored
    <3> QED BY <3>1, CommitStored
  <2> QED BY <1>1, <2>1 DEF ReqOK, KnownOK, Wiped
<1> QED BY <1>3, <1>4, <1>5, <1>6, <1>7, <1>8 DEF ReqOK

LEMMA InvCommit ==
    ASSUME Inv, NEW r \in Req, Commit(r)
    PROVE  Inv'
<1>1. TypeOK'
  BY CommitRows, CommitAccount, CommitSelf DEF Commit, Inv, TypeOK
<1>2. StoredOK' /\ OneLivePerLogin' /\ TokensHaveOwner'
  BY CommitRotates, CommitAccount
<1>3. \A q \in Req : ReqOK(q)'
  BY CommitSelf, CommitOthers
<1>4. ASSUME NEW p \in Req, NEW q \in Req, p # q PROVE PairOK(p, q)'
  <2>1. \A s \in Req \ {r} : pc'[s] = pc[s] /\ tx'[s] = tx[s]
    BY DEF Commit, Inv, TypeOK
  <2>2. pc'[r] = "reply" /\ tx'[r].held = {} /\ job' = job
    BY CommitSelf
  <2>3. PairOK(p, q)
    BY <1>4 DEF Inv
  <2> QED BY <1>4, <2>1, <2>2, <2>3 DEF PairOK, Pending
<1> QED BY <1>1, <1>2, <1>3, <1>4 DEF Inv

-----------------------------------------------------------------------------
LEMMA InvEnds ==
    ASSUME Inv, NEW r \in Req,
           \/ RejectUser(r) \/ RefuseToken(r) \/ Reply(r)
           \/ StatementError(r) \/ Victim(r) \/ Abort(r)
    PROVE  Inv'
BY InvEnd DEF RejectUser, RefuseToken, Reply, StatementError, Victim, Abort

LEMMA InvExpire ==
    ASSUME Inv, NEW t \in Token, Expire(t)
    PROVE  Inv'
<1>1. TypeOK'
  BY DEF Expire, Inv, TypeOK
<1>2. /\ UNCHANGED <<user, tokens, issued, pc, job, tx>>
      /\ Stored' = Stored /\ LiveTokens' = LiveTokens
  BY DEF Expire, Stored, LiveTokens
<1>3. (StoredOK /\ OneLivePerLogin /\ TokensHaveOwner)'
  BY <1>2 DEF Inv, StoredOK, OneLivePerLogin, TokensHaveOwner
<1>4. \A q \in Req : ReqOK(q)'
  BY <1>2, Frame DEF Inv
<1>5. ASSUME NEW p \in Req, NEW q \in Req, p # q PROVE PairOK(p, q)'
  BY <1>2, <1>5 DEF Inv, PairOK, Pending
<1> QED BY <1>1, <1>3, <1>4, <1>5 DEF Inv

LEMMA InvStutter ==
    ASSUME Inv, UNCHANGED vars
    PROVE  Inv'
<1>1. TypeOK'
  BY DEF vars, Inv, TypeOK
<1>2. /\ UNCHANGED <<user, tokens, issued, pc, job, tx>>
      /\ Stored' = Stored /\ LiveTokens' = LiveTokens
  BY DEF vars, Stored, LiveTokens
<1>3. (StoredOK /\ OneLivePerLogin /\ TokensHaveOwner)'
  BY <1>2 DEF Inv, StoredOK, OneLivePerLogin, TokensHaveOwner
<1>4. \A q \in Req : ReqOK(q)'
  BY <1>2, Frame DEF Inv
<1>5. ASSUME NEW p \in Req, NEW q \in Req, p # q PROVE PairOK(p, q)'
  BY <1>2, <1>5 DEF Inv, PairOK, Pending
<1> QED BY <1>1, <1>3, <1>4, <1>5 DEF Inv

LEMMA InvNext == Inv /\ [Next]_vars => Inv'
<1> SUFFICES ASSUME Inv, [Next]_vars PROVE Inv'
  OBVIOUS
<1>1. CASE UNCHANGED vars
  BY <1>1, InvStutter
<1>2. ASSUME NEW t \in Token, Expire(t) PROVE Inv'
  BY <1>2, InvExpire
<1>3. ASSUME NEW r \in Req,
             \/ BeginRegister(r) \/ BeginLogin(r) \/ BeginRefresh(r)
             \/ BeginLogout(r) \/ BeginRekey(r) \/ BeginDelete(r)
             \/ Proceed(r) \/ Abort(r)
      PROVE  Inv'
  <2>1. CASE Proceed(r)
    BY <2>1, InvReadUser, InvReadToken, InvLockToken, InvInsert, InvUpdateUser,
       InvSelectTokens, InvWriteTokens, InvDeleteUser, InvCascade, InvCommit,
       InvEnds
       DEF Proceed
  <2>2. CASE Abort(r)
    BY <2>2, InvEnds
  <2> QED BY <1>3, <2>1, <2>2, InvBegins
<1> QED BY <1>1, <1>2, <1>3 DEF Next

LEMMA Invariance == Spec => []Inv
BY InvInit, InvNext, PTL DEF Spec

-----------------------------------------------------------------------------
(* Every variable of the accounts model always has its type.               *)
THEOREM TypeCorrect == Spec => []TypeOK
BY Invariance, PTL DEF Inv

(* The row lock in refresh() makes rotation one for one: of the tokens     *)
(* that descend from one login at most one can be exchanged, whatever      *)
(* requests race.                                                          *)
THEOREM RotationIsOneForOne == Spec => []OneLivePerLogin
BY Invariance, PTL DEF Inv

(* Every stored token belongs to the account that is there: a login or a   *)
(* refresh that races delete_account() leaves no token behind.             *)
THEOREM NoTokenOutlivesItsAccount == Spec => []TokensHaveOwner
BY Invariance, PTL DEF Inv

(* When the answer to a reused token, or to a rekey, goes out, no token    *)
(* that was stored when the request came in is live.                       *)
THEOREM WipesCoverKnownTokens == Spec => []WipeCoversKnown
<1>1. Inv => WipeCoversKnown
  BY DEF Inv, ReqOK, KnownOK, WipeCoversKnown
<1> QED BY <1>1, Invariance, PTL

(* No step of any request exchanges a token that is revoked.               *)
LEMMA NextIsBarren ==
    Inv /\ [Next]_vars => \A t \in Revoked : Children(t)' \subseteq Children(t)
<1> SUFFICES ASSUME Inv, [Next]_vars, NEW t \in Revoked, NEW u \in Children(t)'
             PROVE  u \in Children(t)
  OBVIOUS
<1>1. u \in Stored' /\ tokens'[u].from = t /\ t \in Token
  BY DEF Children, Revoked, Stored
<1>2. CASE tokens' = tokens
  BY <1>1, <1>2 DEF Children, Stored
<1>3. ASSUME NEW r \in Req, Commit(r) PROVE u \in Children(t)
  <2>1. CASE u # tx[r].issue
    <3>1. u \in Stored /\ tokens'[u].from = tokens[u].from
      BY <1>1, <1>3, <2>1, CommitStored
    <3> QED BY <1>1, <3>1 DEF Children
  <2>2. CASE u = tx[r].issue
    <3>1. u \in Token /\ u # Absent /\ tokens'[u] = NewRow(r)
      BY <1>1, <1>3, <2>2, CommitRows, AbsentIsNoValue DEF Stored
    <3>2. job[r].token = t
      BY <1>1, <3>1 DEF NewRow
    <3>3. ReqOK(r) /\ pc[r] = "commit" /\ t # Absent
      BY <1>1, <1>3, AbsentIsNoValue DEF Commit, Inv
    <3>4. job[r].op = "refresh"
      BY <2>2, <3>1, <3>2, <3>3 DEF ReqOK, JobOK
    <3>5. t \in LiveTokens
      BY <2>2, <3>1, <3>2, <3>3, <3>4 DEF ReqOK, TokenOK, Rotates
    <3> QED BY <3>5 DEF Revoked
  <2> QED BY <2>1, <2>2
<1>4. CASE UNCHANGED vars
  BY <1>2, <1>4 DEF vars
<1>5. ASSUME NEW s \in Token, Expire(s) PROVE tokens' = tokens
  BY <1>5 DEF Expire
<1>6. ASSUME NEW r \in Req,
             \/ BeginRegister(r) \/ BeginLogin(r) \/ BeginRefresh(r)
             \/ BeginLogout(r) \/ BeginRekey(r) \/ BeginDelete(r)
      PROVE  tokens' = tokens
  BY <1>6 DEF BeginRegister, BeginLogin, BeginRefresh, BeginLogout, BeginRekey,
              BeginDelete, Begin
<1>7. ASSUME NEW r \in Req, Proceed(r) \/ Abort(r), ~Commit(r) PROVE tokens' = tokens
  BY <1>7 DEF Proceed, Abort, ReadUser, RejectUser, ReadToken, LockToken,
              RefuseToken, Insert, UpdateUser, SelectTokens, WriteTokens,
              DeleteUser, Cascade, Reply, StatementError, Victim, Go, End
<1> QED BY <1>2, <1>3, <1>4, <1>5, <1>6, <1>7 DEF Next

(* A token that was rotated, logged out or wiped is never exchanged again. *)
THEOREM RevokedTokensAreBarren == Spec => RevokedIsBarren
BY Invariance, NextIsBarren, PTL DEF Spec, RevokedIsBarren

-----------------------------------------------------------------------------
(* Promises that hold as long as certain requests do not overlap.          *)

(* A step of a request that is under way, other than its commit, stores    *)
(* nothing and moves that request only.                                    *)
LEMMA Moves ==
    ASSUME Inv, NEW r \in Req, Proceed(r) \/ Abort(r), ~Commit(r)
    PROVE  /\ UNCHANGED <<user, tokens>> /\ issued \subseteq issued'
           /\ \A q \in Req \ {r} : /\ pc'[q] = pc[q] /\ job'[q] = job[q]
                                   /\ tx'[q] = tx[q]
           /\ \/ pc'[r] = "idle" /\ job'[r] = NoJob /\ tx'[r] = NoTx
              \/ /\ job'[r] = job[r]
                 /\ \/ ReadUser(r) \/ ReadToken(r) \/ LockToken(r) \/ Insert(r)
                    \/ UpdateUser(r) \/ SelectTokens(r) \/ WriteTokens(r)
                    \/ DeleteUser(r) \/ Cascade(r)
<1>0. /\ pc \in [Req -> Stage] /\ job \in [Req -> Job] /\ tx \in [Req -> Tx]
  BY DEF Inv, TypeOK, Stage
<1>1. CASE \/ RejectUser(r) \/ RefuseToken(r) \/ Reply(r)
           \/ StatementError(r) \/ Victim(r) \/ Abort(r)
  <2>1. End(r)
    BY <1>1 DEF RejectUser, RefuseToken, Reply, StatementError, Victim, Abort
  <2> QED BY <1>0, <2>1 DEF End
<1>2. CASE \/ ReadUser(r) \/ ReadToken(r) \/ LockToken(r) \/ Insert(r)
           \/ UpdateUser(r) \/ SelectTokens(r) \/ WriteTokens(r)
           \/ DeleteUser(r) \/ Cascade(r)
  <2>1. issued \subseteq issued' /\ \E next \in Stage, x \in Tx \cup {tx'[r]} : Go(r, next, x)
    <3>1. CASE ReadUser(r)
      <4>1. Go(r, AfterRead(job[r].op), [tx[r] EXCEPT !.user = user]) /\ issued' = issued
        BY <3>1 DEF ReadUser
      <4>2. AfterRead(job[r].op) \in Stage
        BY <3>1, Underway DEF ReadUser, AfterRead, Stage, Stages, Ops
      <4> QED BY <1>0, <4>1, <4>2 DEF Go
    <3>2. CASE ReadToken(r)
      BY <1>0, <3>2 DEF ReadToken, Go, Stage
    <3>3. CASE LockToken(r)
      BY <1>0, <3>3 DEF LockToken, Go, Stage
    <3>4. CASE Insert(r)
      BY <1>0, <3>4 DEF Insert, Go, Stage
    <3>5. CASE UpdateUser(r) \/ SelectTokens(r)
      BY <1>0, <3>5 DEF UpdateUser, SelectTokens, Go, Stage
    <3>6. CASE WriteTokens(r)
      BY <1>0, <3>6 DEF WriteTokens, Go, Stage
    <3>7. CASE DeleteUser(r) \/ Cascade(r)
      BY <1>0, <3>7 DEF DeleteUser, Cascade, Go, Stage
    <3> QED BY <1>2, <3>1, <3>2, <3>3, <3>4, <3>5, <3>6, <3>7
  <2> QED BY <1>0, <1>2, <2>1 DEF Go
<1> QED BY <1>1, <1>2 DEF Proceed

(* The way of a rekey after its read.                                      *)
LEMMA RekeyMoves ==
    ASSUME Inv, NEW r \in Req, Proceed(r) \/ Abort(r), ~Commit(r),
           job'[r].op = "rekey"
    PROVE  /\ job'[r] = job[r]
           /\ \/ /\ pc[r] = "read" /\ pc'[r] = "user" /\ Accepted(r)
                 /\ tx'[r].user = user
              \/ /\ pc[r] = "user" /\ pc'[r] = "select"
                 /\ tx'[r].user = tx[r].user
              \/ /\ SelectTokens(r) /\ pc[r] = "select" /\ pc'[r] = "write"
                 /\ tx'[r].user = tx[r].user
                 /\ tx'[r].seen = OfOwner(r) \cap LiveTokens
              \/ /\ pc[r] = "write" /\ pc'[r] = "commit"
                 /\ tx'[r].user = tx[r].user /\ tx'[r].seen = tx[r].seen
<1>0. /\ pc \in [Req -> Stage] /\ job \in [Req -> Job] /\ tx \in [Req -> Tx]
      /\ tx[r] \in Tx
  BY DEF Inv, TypeOK, Stage
<1>1. /\ job'[r] = job[r] /\ job[r].op = "rekey"
      /\ \/ ReadUser(r) \/ ReadToken(r) \/ LockToken(r) \/ Insert(r)
         \/ UpdateUser(r) \/ SelectTokens(r) \/ WriteTokens(r)
         \/ DeleteUser(r) \/ Cascade(r)
  BY Moves, NothingTyped
<1>2. pc[r] \in {"read", "user", "select", "write", "commit", "reply"}
  BY <1>1, Underway DEF Stages
<1>3. CASE ReadUser(r)
  <2>1. /\ pc[r] = "read" /\ Accepted(r)
        /\ Go(r, "user", [tx[r] EXCEPT !.user = user])
    BY <1>1, <1>3 DEF ReadUser, AfterRead
  <2> QED BY <1>0, <1>1, <2>1 DEF Go, Tx
<1>4. CASE UpdateUser(r)
  BY <1>0, <1>1, <1>4 DEF UpdateUser, Go, Holding, Tx
<1>5. CASE SelectTokens(r)
  <2>1. pc[r] = "select" /\ Go(r, "write", [tx[r] EXCEPT !.seen = OfOwner(r) \cap LiveTokens])
    BY <1>1, <1>5 DEF SelectTokens
  <2> QED BY <1>0, <1>1, <1>5, <2>1 DEF Go, Tx
<1>6. CASE WriteTokens(r)
  <2>1. pc[r] = "write" /\ Go(r, "commit", Holding(r, Wants(r)))
    BY <1>1, <1>6 DEF WriteTokens
  <2> QED BY <1>0, <1>1, <2>1 DEF Go, Holding, Tx
<1>7. CASE ReadToken(r) \/ LockToken(r) \/ Insert(r) \/ DeleteUser(r) \/ Cascade(r)
  BY <1>1, <1>2, <1>7 DEF ReadToken, LockToken, Insert, DeleteUser, Cascade
<1> QED BY <1>1, <1>3, <1>4, <1>5, <1>6, <1>7

(* Where every step of the specification falls.                            *)
LEMMA Cases ==
    ASSUME Inv, [Next]_vars
    PROVE  \/ UNCHANGED <<user, tokens, issued, pc, job, tx>>
           \/ \E r \in Req : Commit(r)
           \/ \E r \in Req : /\ ~Commit(r)
                             /\ \/ Proceed(r) \/ Abort(r)
                                \/ BeginRegister(r) \/ BeginLogin(r) \/ BeginRefresh(r)
                                \/ BeginLogout(r) \/ BeginRekey(r) \/ BeginDelete(r)
BY DEF Next, Expire, vars

LEMMA Begins ==
    ASSUME Inv, NEW r \in Req,
           \/ BeginRegister(r) \/ BeginLogin(r) \/ BeginRefresh(r)
           \/ BeginLogout(r) \/ BeginRekey(r) \/ BeginDelete(r)
    PROVE  /\ UNCHANGED <<user, tokens, issued, tx>>
           /\ pc[r] = "idle" /\ pc'[r] \in {"read", "lock"} /\ tx[r] = NoTx
           /\ \A q \in Req \ {r} : pc'[q] = pc[q] /\ job'[q] = job[q]
<1>0. /\ pc \in [Req -> Stage] /\ job \in [Req -> Job]
      /\ pc[r] = "idle" => tx[r] = NoTx
  BY Underway DEF Inv, TypeOK, Stage, ReqOK, JobOK
<1>1. /\ UNCHANGED <<user, tokens, issued, tx>> /\ pc[r] = "idle"
      /\ \E first \in {"read", "lock"} : pc' = [pc EXCEPT ![r] = first]
  BY DEF BeginRegister, BeginLogin, BeginRefresh, BeginLogout, BeginRekey,
         BeginDelete, Begin
<1>2. \A q \in Req \ {r} : job'[q] = job[q]
  BY <1>0 DEF BeginRegister, BeginLogin, BeginRefresh, BeginLogout, BeginRekey,
              BeginDelete, Begin
<1> QED BY <1>0, <1>1, <1>2

-----------------------------------------------------------------------------
(* A rekey that no login and no refresh overlaps: whatever is live when it *)
(* selects stays all that is live.                                         *)
RekeysAlone == \A q, r \in Req : job[q].op = "rekey" =>
                                   job[r].op \notin {"login", "refresh"}

CoversOK(r) == job[r].op = "rekey" /\ pc[r] \in {"write", "commit"} =>
                 LiveTokens \subseteq tx[r].seen

RekeysCover == \A r \in Req : CoversOK(r)

LEMMA CoversNext ==
    Inv /\ Inv' /\ RekeysAlone /\ RekeysCover /\ [Next]_vars => RekeysCover'
<1> SUFFICES ASSUME Inv, Inv', RekeysAlone, RekeysCover, [Next]_vars,
                    NEW r \in Req, job'[r].op = "rekey", pc'[r] \in {"write", "commit"}
             PROVE  LiveTokens' \subseteq tx'[r].seen
  BY DEF RekeysCover, CoversOK
<1>1. ASSUME job'[r] = job[r], pc'[r] = pc[r], tx'[r] = tx[r],
             LiveTokens' \subseteq LiveTokens
      PROVE  LiveTokens' \subseteq tx'[r].seen
  BY <1>1 DEF RekeysCover, CoversOK
<1>2. CASE UNCHANGED <<user, tokens, issued, pc, job, tx>>
  BY <1>1, <1>2 DEF LiveTokens, Stored
<1>3. ASSUME NEW q \in Req, Commit(q) PROVE LiveTokens' \subseteq tx'[r].seen
  <2>1. q # r
    BY <1>3, CommitSelf
  <2>2. /\ job'[r] = job[r] /\ pc'[r] = pc[r] /\ tx'[r] = tx[r]
        /\ job[r].op = "rekey" /\ SameUser(r)
    BY <1>3, <2>1, Underway DEF Commit, Inv, TypeOK, ReqOK, AccountOK
  <2>3. job[q].op \notin {"login", "refresh"}
    BY <2>2 DEF RekeysAlone
  <2>4. job[q].op # "register"
    BY <1>3, <2>2, Underway DEF Commit, ReqOK, AccountOK, SameUser
  <2>5. tx[q].issue = Absent
    BY <2>3, <2>4, Underway DEF ReqOK, JobOK
  <2>6. LiveTokens' \subseteq LiveTokens
    BY <1>3, <2>5, CommitStored, AbsentIsNoValue DEF LiveTokens, Stored
  <2> QED BY <1>1, <2>2, <2>6
<1>4. ASSUME NEW q \in Req, ~Commit(q), Proceed(q) \/ Abort(q)
      PROVE  LiveTokens' \subseteq tx'[r].seen
  <2>1. LiveTokens' = LiveTokens
    BY <1>4, Moves DEF LiveTokens, Stored
  <2>2. CASE q # r
    BY <1>1, <1>4, <2>1, <2>2, Moves
  <2>3. CASE q = r
    <3>1. CASE SelectTokens(r) /\ tx'[r].seen = OfOwner(r) \cap LiveTokens
      <4>1. job[r].op = "rekey" /\ pc[r] = "select"
        BY <1>4, <2>3, <3>1, RekeyMoves DEF SelectTokens
      <4>2. user # Absent /\ user.id = tx[r].user.id
        BY <4>1, Underway DEF ReqOK, AccountOK, SameUser
      <4>3. OfOwner(r) = Stored
        BY <4>1, <4>2 DEF OfOwner, Owner, Inv, TokensHaveOwner
      <4> QED BY <2>1, <3>1, <4>3 DEF LiveTokens
    <3>2. CASE pc[r] = "write" /\ tx'[r].seen = tx[r].seen
      BY <1>4, <2>1, <2>3, <3>2, RekeyMoves DEF RekeysCover, CoversOK
    <3> QED BY <1>4, <2>3, <3>1, <3>2, RekeyMoves
  <2> QED BY <2>2, <2>3
<1>5. ASSUME NEW q \in Req,
             \/ BeginRegister(q) \/ BeginLogin(q) \/ BeginRefresh(q)
             \/ BeginLogout(q) \/ BeginRekey(q) \/ BeginDelete(q)
      PROVE  LiveTokens' \subseteq tx'[r].seen
  <2>1. q # r
    BY <1>5, Begins
  <2> QED BY <1>1, <1>5, <2>1, Begins DEF LiveTokens, Stored
<1> QED BY <1>2, <1>3, <1>4, <1>5, Cases

(* A rekey that no login and no refresh overlaps ends every session: when  *)
(* it has committed, no token is live.                                     *)
THEOREM RekeysEndSessions == Spec /\ []RekeysAlone => RekeyEndsSessions
<1>1. Init => RekeysCover
  BY DEF Init, RekeysCover, CoversOK
<1>2. Inv /\ RekeysCover /\ [Next]_vars =>
        [\A r \in Req : Commit(r) /\ job[r].op = "rekey" => LiveTokens' = {}]_vars
  <2> SUFFICES ASSUME Inv, RekeysCover, NEW r \in Req, Commit(r), job[r].op = "rekey"
               PROVE  LiveTokens' = {}
    OBVIOUS
  <2>1. LiveTokens \subseteq tx[r].seen /\ tx[r].issue = Absent
    BY Underway DEF Commit, RekeysCover, CoversOK, ReqOK, JobOK
  <2> QED BY <2>1, CommitStored, AbsentIsNoValue DEF LiveTokens, Stored
<1> QED BY <1>1, <1>2, CoversNext, Invariance, PTL DEF Spec, RekeyEndsSessions

-----------------------------------------------------------------------------
(* A reuse that no other refresh overlaps: no token of its login can come  *)
(* up between the select of the wipe and its commit.                       *)
RefreshesApart == \A q, r \in Req : job[q].op = "refresh" /\ job[r].op = "refresh" => q = r

Wiping(r) == /\ job[r].op = "refresh" /\ tx[r].issue = Absent
             /\ pc[r] \in {"write", "commit"}

WipeOK(r) == Wiping(r) =>
    /\ job[r].token \in Stored \cap tx[r].held
    /\ \A t \in LiveTokens :
         tokens[t].root = tokens[job[r].token].root => t \in tx[r].seen

WipesCover == \A r \in Req : WipeOK(r)

LEMMA WipeMoves ==
    ASSUME Inv, NEW r \in Req, Proceed(r) \/ Abort(r), ~Commit(r), Wiping(r)'
    PROVE  /\ job'[r] = job[r]
           /\ \/ /\ Wipes(r) /\ pc[r] = "select" /\ tx'[r].held = tx[r].held
                 /\ tx'[r].seen = OfOwner(r) \cap LiveTokens
              \/ /\ Wiping(r) /\ tx[r].held \subseteq tx'[r].held
                 /\ tx'[r].seen = tx[r].seen
<1>0. /\ pc \in [Req -> Stage] /\ job \in [Req -> Job] /\ tx \in [Req -> Tx]
      /\ tx[r] \in Tx
  BY DEF Inv, TypeOK, Stage
<1>1. /\ job'[r] = job[r] /\ job[r].op = "refresh"
      /\ \/ ReadUser(r) \/ ReadToken(r) \/ LockToken(r) \/ Insert(r)
         \/ UpdateUser(r) \/ SelectTokens(r) \/ WriteTokens(r)
         \/ DeleteUser(r) \/ Cascade(r)
  BY Moves, NothingTyped DEF Wiping
<1>2. pc[r] \in {"lock", "insert", "select", "write", "commit", "reply"}
  BY <1>1, Underway DEF Stages
<1>3. pc'[r] \in {"write", "commit"} /\ tx'[r].issue = Absent
  BY DEF Wiping
<1>4. CASE LockToken(r)
  BY <1>0, <1>3, <1>4 DEF LockToken, Go
<1>5. CASE Insert(r)
  <2>1. PICK t \in Token \ issued : Go(r, "commit", [Holding(r, Wants(r)) EXCEPT !.issue = t])
    BY <1>5 DEF Insert
  <2>2. tx'[r].issue = t
    BY <1>0, <2>1 DEF Go, Holding, Tx
  <2> QED BY <1>3, <2>1, <2>2, AbsentIsNoValue
<1>6. CASE SelectTokens(r)
  <2>1. pc[r] = "select" /\ Go(r, "write", [tx[r] EXCEPT !.seen = OfOwner(r) \cap LiveTokens])
    BY <1>1, <1>6 DEF SelectTokens
  <2> QED BY <1>0, <1>1, <2>1 DEF Go, Tx, Wipes
<1>7. CASE WriteTokens(r)
  <2>1. pc[r] = "write" /\ Go(r, "commit", Holding(r, Wants(r)))
    BY <1>1, <1>7 DEF WriteTokens
  <2>2. tx[r].issue = Absent
    BY <2>1, Underway
  <2> QED BY <1>0, <1>1, <2>1, <2>2 DEF Go, Holding, Tx, Wiping
<1>8. CASE ReadUser(r) \/ ReadToken(r) \/ UpdateUser(r) \/ DeleteUser(r) \/ Cascade(r)
  BY <1>1, <1>2, <1>8 DEF ReadUser, ReadToken, UpdateUser, DeleteUser, Cascade
<1> QED BY <1>1, <1>4, <1>5, <1>6, <1>7, <1>8

LEMMA WipesNext ==
    Inv /\ RefreshesApart /\ WipesCover /\ [Next]_vars => WipesCover'
<1> SUFFICES ASSUME Inv, RefreshesApart, WipesCover, [Next]_vars,
                    NEW r \in Req, Wiping(r)'
             PROVE  /\ job'[r].token \in Stored' \cap tx'[r].held
                    /\ \A t \in LiveTokens' :
                         tokens'[t].root = tokens'[job'[r].token].root => t \in tx'[r].seen
  BY DEF WipesCover, WipeOK
<1>1. WipeOK(r)
  BY DEF WipesCover
<1>2. CASE UNCHANGED <<user, tokens, issued, pc, job, tx>>
  BY <1>1, <1>2 DEF WipeOK, Wiping, LiveTokens, Stored
<1>3. ASSUME NEW q \in Req, Commit(q)
      PROVE  /\ job'[r].token \in Stored' \cap tx'[r].held
             /\ \A t \in LiveTokens' :
                  tokens'[t].root = tokens'[job'[r].token].root => t \in tx'[r].seen
  <2>1. q # r
    BY <1>3, CommitSelf DEF Wiping
  <2>2. /\ job'[r] = job[r] /\ pc'[r] = pc[r] /\ tx'[r] = tx[r] /\ Wiping(r)
    BY <1>3, <2>1 DEF Commit, Inv, TypeOK, Wiping
  <2> DEFINE old == job[r].token
  <2>3. old \in Stored \cap tx[r].held
    BY <1>1, <2>2 DEF WipeOK
  <2>4. old \in Stored' /\ tokens'[old] = tokens[old]
    BY <1>3, <2>1, <2>3, CommitSparesLocked
  <2>5. ASSUME NEW t \in LiveTokens', t = tx[q].issue
        PROVE  tokens'[t].root # tokens[old].root
    <3>1. t \in Token /\ t # Absent /\ tokens'[t] = NewRow(q)
      BY <1>3, <2>5, CommitRows, AbsentIsNoValue DEF LiveTokens, Stored
    <3>2. job[q].op # "refresh"
      BY <2>1, <2>2 DEF RefreshesApart, Wiping
    <3>3. tokens'[t].root = t
      BY <2>5, <3>1, <3>2 DEF NewRow
    <3>4. Pending(q) /\ IssueOK(q)
      BY <1>3, <2>5, <3>1, Underway DEF Commit, Pending, ReqOK
    <3> QED BY <2>3, <2>5, <3>3, <3>4 DEF IssueOK
  <2>6. ASSUME NEW t \in LiveTokens', t # tx[q].issue, tokens'[t].root = tokens[old].root
        PROVE  t \in tx[r].seen
    <3>1. t \in LiveTokens /\ tokens'[t].root = tokens[t].root
      BY <1>3, <2>6, CommitStored DEF LiveTokens
    <3> QED BY <1>1, <2>2, <2>6, <3>1 DEF WipeOK
  <2> QED BY <2>2, <2>3, <2>4, <2>5, <2>6
<1>4. ASSUME NEW q \in Req, ~Commit(q), Proceed(q) \/ Abort(q)
      PROVE  /\ job'[r].token \in Stored' \cap tx'[r].held
             /\ \A t \in LiveTokens' :
                  tokens'[t].root = tokens'[job'[r].token].root => t \in tx'[r].seen
  <2>1. tokens' = tokens /\ Stored' = Stored /\ LiveTokens' = LiveTokens
    BY <1>4, Moves DEF LiveTokens, Stored
  <2>2. CASE q # r
    <3>1. pc'[r] = pc[r] /\ job'[r] = job[r] /\ tx'[r] = tx[r]
      BY <1>4, <2>2, Moves
    <3> QED BY <1>1, <2>1, <3>1 DEF WipeOK, Wiping
  <2>3. CASE q = r
    <3>0. job'[r] = job[r]
      BY <1>4, <2>3, WipeMoves
    <3>1. CASE /\ Wipes(r) /\ tx'[r].held = tx[r].held
               /\ tx'[r].seen = OfOwner(r) \cap LiveTokens
      <4>1. job[r].token \in Stored \cap tx[r].held /\ job[r].op = "refresh"
        BY <3>1, Underway DEF ReqOK, TokenOK, Wipes
      <4>2. OfOwner(r) = Stored
        BY <4>1 DEF OfOwner, Owner, Inv, TokensHaveOwner
      <4> QED BY <2>1, <3>0, <3>1, <4>1, <4>2 DEF LiveTokens
    <3>2. CASE /\ Wiping(r) /\ tx[r].held \subseteq tx'[r].held
               /\ tx'[r].seen = tx[r].seen
      BY <1>1, <2>1, <3>0, <3>2 DEF WipeOK
    <3> QED BY <1>4, <2>3, <3>1, <3>2, WipeMoves
  <2> QED BY <2>2, <2>3
<1>5. ASSUME NEW q \in Req,
             \/ BeginRegister(q) \/ BeginLogin(q) \/ BeginRefresh(q)
             \/ BeginLogout(q) \/ BeginRekey(q) \/ BeginDelete(q)
      PROVE  /\ job'[r].token \in Stored' \cap tx'[r].held
             /\ \A t \in LiveTokens' :
                  tokens'[t].root = tokens'[job'[r].token].root => t \in tx'[r].seen
  <2>1. q # r
    BY <1>5, Begins DEF Wiping
  <2>2. /\ UNCHANGED <<user, tokens, issued, tx>> /\ job'[r] = job[r] /\ pc'[r] = pc[r]
    BY <1>5, <2>1, Begins
  <2> QED BY <1>1, <2>2 DEF WipeOK, Wiping, LiveTokens, Stored
<1> QED BY <1>2, <1>3, <1>4, <1>5, Cases

(* A reuse that no other refresh overlaps ends the login it belongs to:    *)
(* when the wipe has committed, no token that descends from it is live.    *)
THEOREM ReusesEndTheLogin == Spec /\ []RefreshesApart => ReuseEndsTheLogin
<1>1. Init => WipesCover
  BY DEF Init, WipesCover, WipeOK, Wiping
<1>2. Inv /\ WipesCover /\ [Next]_vars =>
        [\A r \in Req : Commit(r) /\ job[r].op = "refresh" /\ tx[r].issue = Absent =>
           \A t \in Stored' :
             tokens'[t].root = tokens[job[r].token].root => tokens'[t].revoked]_vars
  <2> SUFFICES ASSUME Inv, WipesCover, NEW r \in Req, Commit(r), job[r].op = "refresh",
                      tx[r].issue = Absent, NEW t \in Stored',
                      tokens'[t].root = tokens[job[r].token].root
               PROVE  tokens'[t].revoked
    OBVIOUS
  <2>1. WipeOK(r) /\ Wiping(r)
    BY DEF Commit, WipesCover, Wiping
  <2>2. t \in Stored /\ t # tx[r].issue /\ tokens'[t].root = tokens[t].root
    BY CommitStored, AbsentIsNoValue DEF Stored
  <2>3. CASE t \in tx[r].seen
    BY <2>2, <2>3, CommitRows
  <2>4. CASE t \notin tx[r].seen
    <3>1. t \notin LiveTokens
      BY <2>1, <2>2, <2>4 DEF WipeOK
    <3>2. tokens'[t] = tokens[t]
      BY <2>2, <2>4, CommitRows DEF Stored
    <3> QED BY <2>2, <3>1, <3>2 DEF LiveTokens
  <2> QED BY <2>3, <2>4
<1> QED BY <1>1, <1>2, WipesNext, Invariance, PTL DEF Spec, ReuseEndsTheLogin

-----------------------------------------------------------------------------
(* Rekeys that do not overlap.  An account's id is never used again, so an *)
(* account with the id a rekey has read is the account it has read.        *)
RekeysApart == \A q, r \in Req : job[q].op = "rekey" /\ job[r].op = "rekey" => q = r

Ids == (IF user = Absent THEN {} ELSE {user.id})
         \cup {tx[q].user.id : q \in {p \in Req : tx[p].user # Absent}}

IdsOK == /\ Ids \subseteq issued
         /\ \A r \in Req : Pending(r) => tx[r].issue \notin Ids

(* What a step that stores nothing does to the ids and the new tokens.     *)
LEMMA MovesIds ==
    ASSUME Inv, NEW r \in Req, Proceed(r) \/ Abort(r), ~Commit(r)
    PROVE  /\ tx'[r].user \in {tx[r].user, user, Absent}
           /\ Pending(r)' => tx'[r].issue \notin issued \/
                             (Pending(r) /\ tx'[r].issue = tx[r].issue)
<1>0. tx[r] \in Tx /\ tx \in [Req -> Tx] /\ pc \in [Req -> Stage]
  BY DEF Inv, TypeOK, Stage
<1>1. CASE pc'[r] = "idle" /\ tx'[r] = NoTx
  BY <1>1, NothingTyped DEF NoTx, Pending
<1>2. CASE ReadUser(r)
  <2>1. Go(r, AfterRead(job[r].op), [tx[r] EXCEPT !.user = user]) /\ tx[r].issue = Absent
    BY <1>2, Underway DEF ReadUser
  <2> QED BY <1>0, <2>1 DEF Go, Pending, Tx
<1>3. CASE Insert(r)
  <2>1. PICK t \in Token \ issued : Go(r, "commit", [Holding(r, Wants(r)) EXCEPT !.issue = t])
    BY <1>3 DEF Insert
  <2> QED BY <1>0, <2>1 DEF Go, Holding, Pending, Tx
<1>4. CASE ReadToken(r) \/ LockToken(r)
  <2>1. tx[r].issue = Absent
    BY <1>4, Underway DEF ReadToken, LockToken
  <2>2. CASE ReadToken(r)
    BY <1>0, <2>1, <2>2 DEF ReadToken, Go, Pending, Tx
  <2>3. CASE LockToken(r)
    <3>1. \/ Go(r, "insert", [Holding(r, {job[r].token}) EXCEPT !.seen = {job[r].token}])
          \/ Go(r, "select", Holding(r, {job[r].token}))
      BY <2>3 DEF LockToken
    <3>2. CASE Go(r, "insert", [Holding(r, {job[r].token}) EXCEPT !.seen = {job[r].token}])
      BY <1>0, <2>1, <3>2 DEF Go, Holding, Pending, Tx
    <3>3. CASE Go(r, "select", Holding(r, {job[r].token}))
      BY <1>0, <2>1, <3>3 DEF Go, Holding, Pending, Tx
    <3> QED BY <3>1, <3>2, <3>3
  <2> QED BY <1>4, <2>2, <2>3
<1>5. CASE UpdateUser(r) \/ SelectTokens(r) \/ WriteTokens(r) \/ DeleteUser(r) \/ Cascade(r)
  <2>1. tx[r].issue = Absent
    BY <1>5, Underway DEF UpdateUser, SelectTokens, WriteTokens, DeleteUser, Cascade
  <2>2. CASE UpdateUser(r)
    BY <1>0, <2>1, <2>2 DEF UpdateUser, Go, Holding, Pending, Tx
  <2>3. CASE SelectTokens(r)
    BY <1>0, <2>1, <2>3 DEF SelectTokens, Go, Pending, Tx
  <2>4. CASE WriteTokens(r)
    BY <1>0, <2>1, <2>4 DEF WriteTokens, Go, Holding, Pending, Tx
  <2>5. CASE DeleteUser(r)
    BY <1>0, <2>1, <2>5 DEF DeleteUser, Go, Holding, Pending, Tx
  <2>6. CASE Cascade(r)
    BY <1>0, <2>1, <2>6 DEF Cascade, Go, Holding, Pending, Tx
  <2> QED BY <1>5, <2>2, <2>3, <2>4, <2>5, <2>6
<1> QED BY <1>1, <1>2, <1>3, <1>4, <1>5, Moves

(* What a commit makes of the account.                                     *)
LEMMA CommitUser ==
    ASSUME Inv, NEW r \in Req, Commit(r)
    PROVE  \/ user' \in {user, Absent} /\ job[r].op # "rekey"
           \/ /\ job[r].op = "register" /\ Pending(r)
              /\ user' = [id |-> tx[r].issue, auth |-> job[r].new,
                          vkey |-> job[r].new, salt |-> job[r].new.salt]
           \/ /\ job[r].op = "rekey" /\ SameUser(r) /\ user \in User
              /\ user' = Rekeyed(r)
<1>1. /\ user' = NewUser(r) /\ pc[r] = "commit" /\ job[r].op \in Ops
  BY Underway DEF Commit, Stages
<1>2. CASE job[r].op = "register"
  BY <1>1, <1>2, Underway DEF NewUser, Pending, ReqOK, JobOK
<1>3. CASE job[r].op = "rekey"
  BY <1>1, <1>3, Underway DEF NewUser, ReqOK, AccountOK, SameUser, Inv, TypeOK
<1>4. CASE job[r].op \in {"login", "refresh", "logout", "delete"}
  BY <1>1, <1>4 DEF NewUser
<1> QED BY <1>1, <1>2, <1>3, <1>4 DEF Ops

LEMMA IdsNext == Inv /\ IdsOK /\ [Next]_vars => IdsOK'
<1> SUFFICES ASSUME Inv, IdsOK, [Next]_vars PROVE IdsOK'
  OBVIOUS
<1>1. CASE UNCHANGED <<user, tokens, issued, pc, job, tx>>
  BY <1>1 DEF IdsOK, Ids, Pending
<1>2. ASSUME NEW r \in Req, Commit(r) PROVE IdsOK'
  <2>1. /\ issued' = issued /\ pc'[r] = "reply" /\ tx'[r].user = tx[r].user
        /\ \A q \in Req \ {r} : pc'[q] = pc[q] /\ tx'[q] = tx[q]
    BY <1>2 DEF Commit, Inv, TypeOK, Tx
  <2>2. \A q \in Req : tx'[q].user = tx[q].user
    BY <2>1
  <2>3. \A q \in Req : Pending(q)' => q # r /\ Pending(q) /\ tx'[q].issue = tx[q].issue
    BY <2>1 DEF Pending
  <2>4. CASE Ids' \subseteq Ids
    BY <2>1, <2>3, <2>4 DEF IdsOK
  <2>5. CASE /\ Pending(r) /\ user' # Absent /\ user'.id = tx[r].issue
    <3>1. Ids' \subseteq Ids \cup {tx[r].issue}
      BY <2>2, <2>5 DEF Ids
    <3>2. tx[r].issue \in issued
      BY <2>5, Underway DEF ReqOK, IssueOK
    <3>3. \A q \in Req \ {r} : Pending(q) => tx[q].issue # tx[r].issue
      BY <2>5 DEF Inv, PairOK
    <3> QED BY <2>1, <2>3, <3>1, <3>2, <3>3 DEF IdsOK
  <2>6. CASE user' \in {user, Absent}
    BY <2>2, <2>4, <2>6 DEF Ids
  <2>7. CASE user' = Rekeyed(r) /\ SameUser(r)
    BY <2>2, <2>4, <2>7 DEF Ids, Rekeyed, SameUser
  <2>8. CASE /\ Pending(r)
             /\ user' = [id |-> tx[r].issue, auth |-> job[r].new,
                         vkey |-> job[r].new, salt |-> job[r].new.salt]
    <3>1. user' \in User \cup {Absent} /\ tx[r].issue # Absent
      BY <1>2, <2>8, CommitAccount DEF Pending
    <3>2. user'.id = tx[r].issue
      BY <2>8
    <3>3. CASE user' = Absent
      BY <2>6, <3>3
    <3> QED BY <2>5, <2>8, <3>2, <3>3
  <2> QED BY <1>2, <2>6, <2>7, <2>8, CommitUser
<1>3. ASSUME NEW r \in Req, ~Commit(r), Proceed(r) \/ Abort(r) PROVE IdsOK'
  <2>1. /\ user' = user /\ issued \subseteq issued'
        /\ \A q \in Req \ {r} : pc'[q] = pc[q] /\ tx'[q] = tx[q]
    BY <1>3, Moves
  <2>2. Ids' \subseteq Ids
    BY <1>3, <2>1, MovesIds DEF Ids
  <2>3. \A q \in Req \ {r} : Pending(q)' => Pending(q) /\ tx'[q].issue = tx[q].issue
    BY <2>1 DEF Pending
  <2>4. ASSUME NEW q \in Req, Pending(q)' PROVE tx'[q].issue \notin Ids
    BY <1>3, <2>3, <2>4, MovesIds DEF IdsOK
  <2> QED BY <2>1, <2>2, <2>4 DEF IdsOK
<1>4. ASSUME NEW r \in Req,
             \/ BeginRegister(r) \/ BeginLogin(r) \/ BeginRefresh(r)
             \/ BeginLogout(r) \/ BeginRekey(r) \/ BeginDelete(r)
      PROVE  IdsOK'
  <2>1. /\ UNCHANGED <<user, tokens, issued, tx>>
        /\ pc'[r] \in {"read", "lock"}
        /\ \A q \in Req \ {r} : pc'[q] = pc[q]
    BY <1>4, Begins
  <2> QED BY <2>1 DEF IdsOK, Ids, Pending
<1> QED BY <1>1, <1>2, <1>3, <1>4, Cases

LEMMA IdsOnce == Spec => []IdsOK
<1>1. Init => IdsOK
  BY NothingTyped DEF Init, IdsOK, Ids, Pending, NoTx
<1> QED BY <1>1, IdsNext, Invariance, PTL DEF Spec

(* The account a rekey is about is the one it has checked and read.        *)
RekeyOK(r) == job[r].op = "rekey" =>
    /\ job[r].hash \in Hash
    /\ job[r].new.salt = IF job[r].salt = Absent THEN job[r].hash.salt ELSE job[r].salt
    /\ pc[r] \in {"user", "select", "write", "commit"} =>
         /\ tx[r].user.auth = job[r].hash
         /\ SameUser(r) => user = tx[r].user

Credentials == CredentialsAgree /\ \A r \in Req : RekeyOK(r)

LEMMA AskedToRekey ==
    ASSUME Inv, NEW r \in Req, BeginRekey(r)
    PROVE  /\ job'[r].hash \in Hash
           /\ job'[r].new.salt =
                IF job'[r].salt = Absent THEN job'[r].hash.salt ELSE job'[r].salt
<1>1. PICK h \in Hash, p \in Pw, s \in Salt \cup {Absent} :
           Begin(r, "read",
                 [NoJob EXCEPT !.op = "rekey", !.hash = h, !.salt = s,
                    !.new = [pw |-> p, salt |-> IF s = Absent THEN h.salt ELSE s]])
  BY DEF BeginRekey
<1> DEFINE new == [pw |-> p, salt |-> IF s = Absent THEN h.salt ELSE s]
<1>2. new.salt = IF s = Absent THEN h.salt ELSE s
  OBVIOUS
<1> HIDE DEF new
<1> DEFINE asked == [[NoJob EXCEPT !.op = "rekey", !.hash = h, !.salt = s, !.new = new]
                       EXCEPT !.known = Stored]
<1>3. asked.hash = h /\ asked.salt = s /\ asked.new = new
  BY DEF NoJob
<1> HIDE DEF asked
<1>4. job'[r] = asked
  BY <1>1 DEF Begin, asked, new, Inv, TypeOK
<1> QED BY <1>2, <1>3, <1>4

LEMMA CredentialsNext ==
    Inv /\ IdsOK /\ RekeysApart /\ Credentials /\ [Next]_vars => Credentials'
<1> SUFFICES ASSUME Inv, IdsOK, RekeysApart, Credentials, [Next]_vars PROVE Credentials'
  OBVIOUS
<1>1. CASE UNCHANGED <<user, tokens, issued, pc, job, tx>>
  BY <1>1 DEF Credentials, CredentialsAgree, RekeyOK, SameUser
<1>2. ASSUME NEW q \in Req, Commit(q) PROVE Credentials'
  <2>1. /\ job' = job /\ pc'[q] = "reply"
        /\ \A r \in Req \ {q} : pc'[r] = pc[r] /\ tx'[r] = tx[r]
    BY <1>2 DEF Commit, Inv, TypeOK
  <2>2. CredentialsAgree'
    <3>1. CASE user' \in {user, Absent}
      BY <3>1 DEF Credentials, CredentialsAgree
    <3>2. CASE user' = [id |-> tx[q].issue, auth |-> job[q].new,
                        vkey |-> job[q].new, salt |-> job[q].new.salt]
      BY <3>2 DEF CredentialsAgree
    <3>3. CASE job[q].op = "rekey" /\ SameUser(q) /\ user' = Rekeyed(q)
      <4>1. /\ user # Absent /\ user = tx[q].user /\ user.auth = job[q].hash
            /\ job[q].new.salt = IF job[q].salt = Absent THEN job[q].hash.salt
                                 ELSE job[q].salt
        BY <1>2, <3>3 DEF Commit, Credentials, RekeyOK, SameUser
      <4>2. user'.auth = job[q].new /\ user'.vkey = job[q].new
        BY <3>3, <4>1 DEF Rekeyed, Column
      <4>3. user'.salt = IF job[q].salt = Absent THEN user.salt ELSE job[q].salt
        BY <3>3, <4>1 DEF Rekeyed, Column
      <4>4. user.salt = job[q].hash.salt
        BY <4>1 DEF Credentials, CredentialsAgree
      <4> QED BY <4>1, <4>2, <4>3, <4>4 DEF CredentialsAgree
    <3> QED BY <1>2, <3>1, <3>2, <3>3, CommitUser
  <2>3. ASSUME NEW r \in Req PROVE RekeyOK(r)'
    <3>1. CASE r = q
      BY <2>1, <3>1 DEF Credentials, RekeyOK
    <3>2. CASE r # q /\ job[r].op = "rekey" /\ pc[r] \in {"user", "select", "write", "commit"}
      <4>1. job[q].op # "rekey"
        BY <3>2 DEF RekeysApart
      <4>2. CASE user' \in {user, Absent}
        BY <2>1, <3>2, <4>2 DEF Credentials, RekeyOK, SameUser
      <4>3. CASE Pending(q) /\ user' = [id |-> tx[q].issue, auth |-> job[q].new,
                                        vkey |-> job[q].new, salt |-> job[q].new.salt]
        <5>1. tx[r].user \in User /\ tx[r].user # Absent
          BY <3>2, Underway, AbsentIsNoValue DEF ReqOK, JobOK
        <5>2. tx[r].user.id \in Ids /\ tx[q].issue \notin Ids
          BY <4>3, <5>1 DEF Ids, IdsOK
        <5>3. ~SameUser(r)'
          BY <2>1, <3>2, <4>3, <5>2 DEF SameUser
        <5> QED BY <2>1, <3>2, <5>3 DEF Credentials, RekeyOK
      <4> QED BY <1>2, <4>1, <4>2, <4>3, CommitUser
    <3>3. CASE r # q /\ ~(job[r].op = "rekey" /\ pc[r] \in {"user", "select", "write", "commit"})
      BY <2>1, <3>3 DEF Credentials, RekeyOK
    <3> QED BY <3>1, <3>2, <3>3
  <2> QED BY <2>2, <2>3 DEF Credentials
<1>3. ASSUME NEW q \in Req, ~Commit(q), Proceed(q) \/ Abort(q) PROVE Credentials'
  <2>1. /\ user' = user
        /\ \A r \in Req \ {q} : pc'[r] = pc[r] /\ job'[r] = job[r] /\ tx'[r] = tx[r]
    BY <1>3, Moves
  <2>2. CredentialsAgree'
    BY <2>1 DEF Credentials, CredentialsAgree
  <2>3. ASSUME NEW r \in Req \ {q} PROVE RekeyOK(r)'
    BY <2>1 DEF Credentials, RekeyOK, SameUser
  <2>4. RekeyOK(q)'
    <3> SUFFICES ASSUME job'[q].op = "rekey" PROVE RekeyOK(q)'
      BY DEF RekeyOK
    <3>1. job'[q] = job[q] /\ RekeyOK(q)
      BY <1>3, RekeyMoves DEF Credentials
    <3>2. CASE Accepted(q) /\ tx'[q].user = user
      BY <2>1, <3>1, <3>2 DEF RekeyOK, SameUser, Accepted
    <3>3. CASE tx'[q].user = tx[q].user /\ pc[q] \in {"user", "select", "write"}
      BY <2>1, <3>1, <3>3 DEF RekeyOK, SameUser
    <3> QED BY <1>3, <3>2, <3>3, RekeyMoves
  <2> QED BY <2>2, <2>3, <2>4 DEF Credentials
<1>4. ASSUME NEW q \in Req,
             \/ BeginRegister(q) \/ BeginLogin(q) \/ BeginRefresh(q)
             \/ BeginLogout(q) \/ BeginRekey(q) \/ BeginDelete(q)
      PROVE  Credentials'
  <2>1. /\ user' = user /\ tx' = tx /\ pc'[q] \in {"read", "lock"}
        /\ \A r \in Req \ {q} : pc'[r] = pc[r] /\ job'[r] = job[r]
    BY <1>4, Begins
  <2>2. CredentialsAgree'
    BY <2>1 DEF Credentials, CredentialsAgree
  <2>3. ASSUME NEW r \in Req \ {q} PROVE RekeyOK(r)'
    BY <2>1 DEF Credentials, RekeyOK, SameUser
  <2>4. CASE BeginRekey(q)
    BY <2>1, <2>2, <2>3, <2>4, AskedToRekey DEF Credentials, RekeyOK
  <2>5. CASE ~BeginRekey(q)
    <3>1. job'[q].op # "rekey"
      BY <1>4, <2>5 DEF BeginRegister, BeginLogin, BeginRefresh, BeginLogout,
                        BeginDelete, Begin, NoJob, Inv, TypeOK
    <3> QED BY <2>2, <2>3, <3>1 DEF Credentials, RekeyOK
  <2> QED BY <2>4, <2>5
<1> QED BY <1>1, <1>2, <1>3, <1>4, Cases

(* As long as rekeys do not overlap, the stored salt is the one of the     *)
(* stored auth_hash, and the stored vault key opens with that credential,  *)
(* whatever else overlaps a rekey: a deletion, a new registration of the   *)
(* address, a login.                                                       *)
THEOREM CredentialsStayTogether == Spec /\ []RekeysApart => []CredentialsAgree
<1>1. Init => Credentials
  BY NothingTyped DEF Init, Credentials, CredentialsAgree, RekeyOK
<1>2. Credentials => CredentialsAgree
  BY DEF Credentials
<1> QED BY <1>1, <1>2, CredentialsNext, IdsOnce, Invariance, PTL DEF Spec

-----------------------------------------------------------------------------
(* The locks never stand still.  The requests that hold locks and wait for *)
(* others are refreshes about to issue (they wait for the account alone),  *)
(* wipes, rekeys and deletions.  Two that wait for each other are a        *)
(* deadlock, which PostgreSQL ends; a longer circle there is none: a wipe  *)
(* or a rekey waits only for wipes that have selected their tokens after   *)
(* it, and a deletion a wipe waits for is known to the rekey before it.    *)
InWipe(r)   == job[r].op = "refresh" /\ pc[r] = "write"
InRekey(r)  == job[r].op = "rekey" /\ pc[r] = "write"
Selected(r) == InWipe(r) \/ InRekey(r)
InDelete(r) == job[r].op = "delete" /\ pc[r] \in {"write", "user"}

(* What a request holds before its commit.                                 *)
Held(r) ==
    CASE job[r].op = "refresh" /\ pc[r] \in {"insert", "select", "write"} -> {job[r].token}
      [] job[r].op = "rekey" /\ pc[r] \in {"select", "write"} -> {"upd"}
      [] job[r].op = "delete" /\ pc[r] = "user" -> tx[r].seen
      [] job[r].op = "delete" /\ pc[r] = "cascade" -> tx[r].seen \cup {"del"}
      [] OTHER -> {}

HoldsOK(r) == pc[r] # "commit" => tx[r].held = Held(r)

(* The tokens it has selected.                                             *)
SeenOK(r) ==
    /\ tx[r].seen \subseteq issued
    /\ job[r].op = "refresh" /\ pc[r] \in {"select", "write"} => job[r].token \in Revoked
    /\ Selected(r) => tx[r].seen \subseteq Stored
    /\ job[r].op = "delete" /\ pc[r] # "reply" =>
         \A t \in tx[r].seen \cap Stored : tokens[t].owner = tx[r].user.id

(* A token about to be stored has been selected by nobody.                 *)
UnseenOK(q, r) == Pending(q) => tx[q].issue \notin tx[r].seen

(* A deletion knows all tokens a rekey has selected, or was the first to   *)
(* select: then the rekey knows its tokens, as far as they are live.       *)
OrderOK(k, d) == InRekey(k) /\ InDelete(d) =>
    \/ tx[k].seen \subseteq tx[d].seen
    \/ tx[d].seen \cap LiveTokens \subseteq tx[k].seen

(* age: when a request has selected its tokens.                            *)
WaitOK(age) ==
    \A q, r \in Req : q # r /\ Selected(q) /\ InWipe(r) /\ job[r].token \in tx[q].seen =>
                        age[q] < age[r]

KnowsOK(age) ==
    \A k, w, d \in Req : InRekey(k) /\ InWipe(w) /\ InDelete(d) /\ age[k] < age[w] =>
        \/ tx[k].seen \subseteq tx[d].seen
        \/ tx[d].seen \cap tx[w].seen \subseteq tx[k].seen

AgesOK == \E n \in Nat : \E age \in [Req -> 0 .. n] : WaitOK(age) /\ KnowsOK(age)

LocksInv == /\ \A r \in Req : HoldsOK(r) /\ SeenOK(r)
            /\ \A q, r \in Req : UnseenOK(q, r) /\ OrderOK(q, r)
            /\ AgesOK

-----------------------------------------------------------------------------
(* The statements, by what they lock and select.                           *)
Locking(r) ==
    \/ /\ pc[r] = "read" /\ job[r].op \in {"register", "login", "rekey", "delete"}
       /\ pc'[r] = AfterRead(job[r].op)
       /\ tx'[r].seen = {} /\ tx'[r].held = {} /\ tx'[r].issue = Absent
    \/ /\ pc[r] = "read" /\ job[r].op = "logout" /\ pc'[r] = "write"
       /\ tx'[r].seen \subseteq Stored /\ tx'[r].held = {} /\ tx'[r].issue = Absent
    \/ /\ pc[r] = "lock" /\ job[r].op = "refresh"
       /\ tx'[r].held = {job[r].token} /\ tx'[r].issue = Absent
       /\ \/ pc'[r] = "insert" /\ tx'[r].seen = {job[r].token} /\ job[r].token \in LiveTokens
          \/ pc'[r] = "select" /\ tx'[r].seen = {} /\ job[r].token \in Revoked
    \/ /\ pc[r] = "insert" /\ pc'[r] = "commit" /\ tx'[r].issue \notin issued
       /\ job[r].op \in {"register", "login", "refresh"}
       /\ tx'[r].seen = tx[r].seen
    \/ /\ pc[r] = "user" /\ pc'[r] = "select" /\ job[r].op = "rekey"
       /\ tx'[r].held = tx[r].held \cup {"upd"} /\ tx'[r].seen = tx[r].seen
       /\ tx'[r].user = tx[r].user /\ tx'[r].issue = Absent
    \/ /\ SelectTokens(r)
       /\ pc[r] = "select" /\ pc'[r] = "write" /\ job[r].op \in {"refresh", "rekey", "delete"}
       /\ tx'[r].held = tx[r].held /\ tx'[r].user = tx[r].user /\ tx'[r].issue = Absent
       /\ tx'[r].seen = IF job[r].op = "delete" THEN OfOwner(r)
                        ELSE OfOwner(r) \cap LiveTokens
    \/ /\ pc[r] = "write" /\ job[r].op \in {"refresh", "rekey", "logout", "delete"}
       /\ pc'[r] = IF job[r].op = "delete" THEN "user" ELSE "commit"
       /\ tx'[r].held = tx[r].held \cup tx[r].seen /\ tx'[r].seen = tx[r].seen
       /\ tx'[r].user = tx[r].user /\ tx'[r].issue = Absent
    \/ /\ pc[r] = "user" /\ pc'[r] = "cascade" /\ job[r].op = "delete"
       /\ tx'[r].held = tx[r].held \cup {"del"} /\ tx'[r].seen = tx[r].seen
       /\ tx'[r].user = tx[r].user /\ tx'[r].issue = Absent
    \/ /\ pc[r] = "cascade" /\ pc'[r] = "commit" /\ job[r].op = "delete"
       /\ tx'[r].seen = tx[r].seen \cup {t \in Stored : tokens[t].owner = tx[r].user.id}
       /\ tx'[r].user = tx[r].user /\ tx'[r].issue = Absent

LEMMA Statements ==
    ASSUME Inv, NEW r \in Req, Proceed(r) \/ Abort(r), ~Commit(r)
    PROVE  /\ UNCHANGED <<user, tokens>> /\ issued \subseteq issued'
           /\ \A q \in Req \ {r} : /\ pc'[q] = pc[q] /\ job'[q] = job[q]
                                   /\ tx'[q] = tx[q]
           /\ \/ pc'[r] = "idle" /\ job'[r] = NoJob /\ tx'[r] = NoTx
              \/ job'[r] = job[r] /\ Locking(r)
<1>0. /\ pc \in [Req -> Stage] /\ job \in [Req -> Job] /\ tx \in [Req -> Tx]
      /\ tx[r] \in Tx
  BY DEF Inv, TypeOK, Stage
<1>1. /\ pc[r] \in Stages(job[r].op) /\ job[r].op \in Ops \cup {"none"}
      /\ pc[r] \notin {"commit", "reply"} => tx[r].issue = Absent
      /\ pc[r] \in {"read", "lock"} => tx[r] = NoTx
  BY Underway DEF ReqOK, JobOK
<1>2. ASSUME job'[r] = job[r],
             \/ ReadUser(r) \/ ReadToken(r) \/ LockToken(r) \/ Insert(r)
             \/ UpdateUser(r) \/ SelectTokens(r) \/ WriteTokens(r)
             \/ DeleteUser(r) \/ Cascade(r)
      PROVE  Locking(r)
  <2>1. CASE ReadUser(r)
    <3>1. /\ pc[r] = "read" /\ job[r].op # "logout" /\ tx[r] = NoTx
          /\ Go(r, AfterRead(job[r].op), [tx[r] EXCEPT !.user = user])
      BY <1>1, <2>1 DEF ReadUser
    <3>2. job[r].op \in {"register", "login", "rekey", "delete"}
      BY <1>1, <3>1 DEF Stages, Ops
    <3>3. /\ pc'[r] = AfterRead(job[r].op)
          /\ tx'[r].seen = {} /\ tx'[r].held = {} /\ tx'[r].issue = Absent
      BY <1>0, <3>1, NothingTyped DEF Go, Tx
    <3> QED BY <3>1, <3>2, <3>3 DEF Locking
  <2>2. CASE ReadToken(r)
    <3>1. /\ pc[r] = "read" /\ job[r].op = "logout" /\ tx[r] = NoTx
          /\ Go(r, "write", [tx[r] EXCEPT !.seen = {job[r].token} \cap LiveTokens])
      BY <1>1, <2>2 DEF ReadToken
    <3>2. /\ pc'[r] = "write" /\ tx'[r].held = {} /\ tx'[r].issue = Absent
          /\ tx'[r].seen \subseteq Stored
      BY <1>0, <3>1, NothingTyped DEF Go, Tx, LiveTokens
    <3> QED BY <3>1, <3>2 DEF Locking
  <2>3. CASE LockToken(r)
    <3>1. /\ pc[r] = "lock" /\ tx[r] = NoTx /\ tx[r].held = {} /\ tx[r].seen = {}
          /\ tx[r].issue = Absent
      BY <1>1, <2>3, NothingTyped DEF LockToken
    <3>2. job[r].op = "refresh"
      BY <1>1, <3>1 DEF Stages, Ops
    <3>3. CASE /\ Rotatable(job[r].token)
               /\ Go(r, "insert", [Holding(r, {job[r].token}) EXCEPT !.seen = {job[r].token}])
      <4>1. /\ pc'[r] = "insert" /\ tx'[r].held = {job[r].token}
            /\ tx'[r].seen = {job[r].token} /\ tx'[r].issue = Absent
        BY <1>0, <3>1, <3>3 DEF Go, Holding, Tx
      <4> QED BY <3>1, <3>2, <3>3, <4>1 DEF Locking, Rotatable
    <3>4. CASE /\ Reused(job[r].token)
               /\ Go(r, "select", Holding(r, {job[r].token}))
      <4>1. /\ pc'[r] = "select" /\ tx'[r].held = {job[r].token}
            /\ tx'[r].seen = {} /\ tx'[r].issue = Absent
        BY <1>0, <3>1, <3>4 DEF Go, Holding, Tx
      <4> QED BY <3>1, <3>2, <3>4, <4>1 DEF Locking, Reused
    <3> QED BY <2>3, <3>3, <3>4 DEF LockToken
  <2>4. CASE Insert(r)
    <3>1. PICK t \in Token \ issued :
                 /\ pc[r] = "insert"
                 /\ Go(r, "commit", [Holding(r, Wants(r)) EXCEPT !.issue = t])
      BY <2>4 DEF Insert
    <3>2. job[r].op \in {"register", "login", "refresh"}
      BY <1>1, <3>1 DEF Stages, Ops
    <3>3. pc'[r] = "commit" /\ tx'[r].issue = t /\ tx'[r].seen = tx[r].seen
      BY <1>0, <3>1 DEF Go, Holding, Tx
    <3> QED BY <3>1, <3>2, <3>3 DEF Locking
  <2>5. CASE UpdateUser(r)
    <3>1. /\ pc[r] = "user" /\ job[r].op = "rekey"
          /\ Go(r, "select", Holding(r, {"upd"}))
      BY <2>5 DEF UpdateUser, Wants
    <3>2. /\ pc'[r] = "select" /\ tx'[r].held = tx[r].held \cup {"upd"}
          /\ tx'[r].seen = tx[r].seen /\ tx'[r].user = tx[r].user
          /\ tx'[r].issue = tx[r].issue
      BY <1>0, <3>1 DEF Go, Holding, Tx
    <3> QED BY <1>1, <3>1, <3>2 DEF Locking
  <2>6. CASE SelectTokens(r)
    <3> DEFINE rows == IF job[r].op = "delete" THEN OfOwner(r)
                       ELSE OfOwner(r) \cap LiveTokens
    <3>1. /\ pc[r] = "select" /\ Go(r, "write", [tx[r] EXCEPT !.seen = rows])
      BY <2>6 DEF SelectTokens
    <3> HIDE DEF rows
    <3>2. job[r].op \in {"refresh", "rekey", "delete"}
      BY <1>1, <3>1 DEF Stages, Ops
    <3>3. /\ pc'[r] = "write" /\ tx'[r].held = tx[r].held /\ tx'[r].seen = rows
          /\ tx'[r].user = tx[r].user /\ tx'[r].issue = tx[r].issue
      BY <1>0, <3>1 DEF Go, Tx
    <3> QED BY <1>1, <2>6, <3>1, <3>2, <3>3 DEF Locking, rows
  <2>7. CASE WriteTokens(r)
    <3>1. /\ pc[r] = "write"
          /\ Go(r, IF job[r].op = "delete" THEN "user" ELSE "commit", Holding(r, tx[r].seen))
      BY <2>7 DEF WriteTokens, Wants
    <3>2. job[r].op \in {"refresh", "rekey", "logout", "delete"}
      BY <1>1, <3>1 DEF Stages, Ops
    <3>3. /\ pc'[r] = IF job[r].op = "delete" THEN "user" ELSE "commit"
          /\ tx'[r].held = tx[r].held \cup tx[r].seen /\ tx'[r].seen = tx[r].seen
          /\ tx'[r].user = tx[r].user /\ tx'[r].issue = tx[r].issue
      BY <1>0, <3>1 DEF Go, Holding, Tx
    <3> QED BY <1>1, <3>1, <3>2, <3>3 DEF Locking
  <2>8. CASE DeleteUser(r)
    <3>1. /\ pc[r] = "user" /\ job[r].op = "delete"
          /\ Go(r, "cascade", Holding(r, {"del"}))
      BY <2>8 DEF DeleteUser, Wants
    <3>2. /\ pc'[r] = "cascade" /\ tx'[r].held = tx[r].held \cup {"del"}
          /\ tx'[r].seen = tx[r].seen /\ tx'[r].user = tx[r].user
          /\ tx'[r].issue = tx[r].issue
      BY <1>0, <3>1 DEF Go, Holding, Tx
    <3> QED BY <1>1, <3>1, <3>2 DEF Locking
  <2>9. CASE Cascade(r)
    <3> DEFINE rows == {t \in Stored : tokens[t].owner = tx[r].user.id}
    <3>1. /\ pc[r] = "cascade"
          /\ Go(r, "commit", [Holding(r, rows) EXCEPT !.seen = @ \cup rows])
      BY <2>9 DEF Cascade, Wants
    <3> HIDE DEF rows
    <3>2. job[r].op = "delete"
      BY <1>1, <3>1 DEF Stages, Ops
    <3>3. /\ pc'[r] = "commit" /\ tx'[r].seen = tx[r].seen \cup rows
          /\ tx'[r].user = tx[r].user /\ tx'[r].issue = tx[r].issue
      BY <1>0, <3>1 DEF Go, Holding, Tx
    <3> QED BY <1>1, <3>1, <3>2, <3>3 DEF Locking, rows
  <2> QED BY <1>2, <2>1, <2>2, <2>3, <2>4, <2>5, <2>6, <2>7, <2>8, <2>9
<1> QED BY <1>2, Moves

-----------------------------------------------------------------------------
LEMMA HoldsSelf ==
    ASSUME Inv, NEW r \in Req, HoldsOK(r), Locking(r), job'[r] = job[r]
    PROVE  HoldsOK(r)'
<1>1. job[r].op \in Ops \cup {"none"} /\ pc[r] \in Stages(job[r].op)
  BY Underway
<1> QED BY <1>1 DEF HoldsOK, Held, Locking, AfterRead

LEMMA SeenSelf ==
    ASSUME Inv, NEW r \in Req, SeenOK(r), Locking(r), job'[r] = job[r],
           tokens' = tokens, issued \subseteq issued'
    PROVE  SeenOK(r)'
<1>0. Stored' = Stored /\ LiveTokens' = LiveTokens /\ Revoked' = Revoked
  BY DEF Stored, LiveTokens, Revoked
<1>1. Stored \subseteq issued /\ LiveTokens \subseteq Stored
  BY DEF Inv, StoredOK, LiveTokens
<1>2. /\ pc[r] = "select" /\ job[r].op \in {"refresh", "rekey", "delete"} =>
           OfOwner(r) \subseteq Stored
      /\ job[r].op = "delete" => \A t \in OfOwner(r) : tokens[t].owner = tx[r].user.id
  BY DEF OfOwner, Owner
<1>3. tx'[r].seen \subseteq issued
  BY <1>1, <1>2 DEF SeenOK, Locking
<1>4. job[r].op = "refresh" /\ pc'[r] \in {"select", "write"} => job[r].token \in Revoked
  BY DEF SeenOK, Locking, AfterRead
<1>5. Selected(r)' => tx'[r].seen \subseteq Stored
  BY <1>2 DEF Selected, InWipe, InRekey, Locking, AfterRead
<1>6. job[r].op = "delete" /\ pc'[r] # "reply" =>
        \A t \in tx'[r].seen \cap Stored : tokens[t].owner = tx'[r].user.id
  <2> SUFFICES ASSUME job[r].op = "delete", NEW t \in tx'[r].seen \cap Stored
               PROVE  tokens[t].owner = tx'[r].user.id
    OBVIOUS
  <2>1. pc[r] # "reply"
    BY DEF Locking
  <2> QED BY <1>2, <2>1 DEF SeenOK, Locking
<1> QED BY <1>0, <1>3, <1>4, <1>5, <1>6 DEF SeenOK

LEMMA SeenOwners ==
    ASSUME Inv, LocksInv, NEW q \in Req, Commit(q), NEW r \in Req \ {q},
           job[r].op = "delete", pc[r] # "reply", NEW t \in tx[r].seen \cap Stored'
    PROVE  tokens'[t].owner = tx[r].user.id
<1>1. /\ pc[q] = "commit" /\ tx[q].issue \in Token \cup {Absent} /\ t \in Token
      /\ SeenOK(r) /\ UnseenOK(q, r)
  BY Underway DEF Commit, LocksInv, Stored, Tx
<1>2. t # tx[q].issue
  BY <1>1, AbsentIsNoValue DEF UnseenOK, Pending
<1>3. t \in Stored /\ tokens[t].owner = tx[r].user.id
  BY <1>1, <1>2, CommitStored DEF SeenOK
<1>4. tokens'[t].owner = tokens[t].owner
  BY <1>1, <1>2, <1>3, CommitStored, CommitRows DEF Stored
<1> QED BY <1>3, <1>4

(* A commit of another leaves the tokens a request has selected as they    *)
(* were needed.                                                            *)
LEMMA SeenOther ==
    ASSUME Inv, LocksInv, NEW q \in Req, Commit(q), NEW r \in Req \ {q}
    PROVE  SeenOK(r)'
<1>1. /\ pc'[r] = pc[r] /\ job'[r] = job[r] /\ tx'[r] = tx[r] /\ issued' = issued
      /\ pc[q] = "commit" /\ ReqOK(q) /\ ReqOK(r) /\ SeenOK(q) /\ SeenOK(r)
      /\ \A a \in tx[r].held, b \in tx[q].held : ~Clash(a, b)
  BY Underway DEF Commit, Inv, TypeOK, LocksInv, PairOK
<1>2. job[r].op = "refresh" /\ pc[r] \in {"select", "write"} => job[r].token \in Revoked'
  BY <1>1, CommitSparesLocked
     DEF SeenOK, ReqOK, TokenOK, Wipes, Revoked, LiveTokens
<1>3. CASE job[q].op # "delete"
  <2>1. Stored \subseteq Stored'
    BY <1>3, CommitStored
  <2> QED BY <1>1, <1>2, <1>3, <2>1, SeenOwners DEF SeenOK, Selected, InWipe, InRekey
<1>4. CASE job[q].op = "delete"
  <2>1. ~InRekey(r)
    BY <1>1, <1>4 DEF InRekey, ReqOK, AccountOK, Clash
  <2>2. ASSUME InWipe(r) PROVE tx[r].seen \subseteq Stored'
    <3> SUFFICES ASSUME NEW x \in tx[r].seen, x \notin Stored' PROVE FALSE
      OBVIOUS
    <3>1. x \in Stored /\ job[r].token \in Stored \cap tx[r].held
      BY <1>1, <2>2 DEF SeenOK, Selected, InWipe, ReqOK, TokenOK, Wipes
    <3>2. x \in tx[q].seen
      BY <3>1, CommitStored
    <3>3. tokens[x].owner = tx[q].user.id
      BY <1>1, <1>4, <3>1, <3>2 DEF SeenOK
    <3>4. tokens[job[r].token].owner = tx[q].user.id
      BY <3>1, <3>3 DEF Inv, TokensHaveOwner
    <3>5. job[r].token \in tx[q].held
      BY <1>1, <1>4, <3>1, <3>4 DEF ReqOK, AccountOK, LocksOK
    <3>6. job[r].token # "key"
      BY <3>1, ModesAreNoTokens DEF Stored
    <3> QED BY <1>1, <3>1, <3>5, <3>6 DEF Clash
  <2> QED BY <1>1, <1>2, <2>1, <2>2, SeenOwners DEF SeenOK, Selected, InWipe, InRekey
<1> QED BY <1>3, <1>4

(* As long as nobody selects, the ages stay right.                         *)
LEMMA AgesKept ==
    ASSUME AgesOK,
           \A r \in Req : /\ InWipe(r)' => InWipe(r)
                          /\ InRekey(r)' => InRekey(r)
                          /\ InDelete(r)' => InDelete(r)
                          /\ Selected(r)' \/ InDelete(r)' =>
                               tx'[r].seen = tx[r].seen /\ job'[r] = job[r]
    PROVE  AgesOK'
<1>1. PICK n \in Nat : \E age \in [Req -> 0 .. n] : WaitOK(age) /\ KnowsOK(age)
  BY DEF AgesOK
<1>2. PICK age \in [Req -> 0 .. n] : WaitOK(age) /\ KnowsOK(age)
  BY <1>1
<1>3. WaitOK(age)'
  BY <1>2 DEF WaitOK, Selected
<1>4. KnowsOK(age)'
  BY <1>2 DEF KnowsOK, Selected
<1> QED BY <1>3, <1>4 DEF AgesOK

(* A wipe or a rekey that selects is the youngest.                         *)
LEMMA AgesSelect ==
    ASSUME Inv, LocksInv, NEW r \in Req, job[r].op \in {"refresh", "rekey"},
           pc[r] = "select", pc'[r] = "write", job'[r] = job[r],
           tx'[r].seen = OfOwner(r) \cap LiveTokens,
           \A q \in Req \ {r} : pc'[q] = pc[q] /\ job'[q] = job[q] /\ tx'[q] = tx[q]
    PROVE  AgesOK'
<1>1. PICK n \in Nat : \E age \in [Req -> 0 .. n] : WaitOK(age) /\ KnowsOK(age)
  BY DEF LocksInv, AgesOK
<1>2. PICK old \in [Req -> 0 .. n] : WaitOK(old) /\ KnowsOK(old)
  BY <1>1
<1> DEFINE age == [old EXCEPT ![r] = n + 1]
<1>3. /\ age \in [Req -> 0 .. n + 1] /\ n + 1 \in Nat /\ age[r] = n + 1
      /\ \A q \in Req \ {r} : age[q] = old[q] /\ age[q] \in 0 .. n
  BY <1>1, <1>2
<1> HIDE DEF age
<1>4. WaitOK(age)'
  <2> SUFFICES ASSUME NEW q \in Req, NEW p \in Req, q # p, Selected(q)', InWipe(p)',
                      job'[p].token \in tx'[q].seen
               PROVE  age[q] < age[p]
    BY DEF WaitOK
  <2>1. CASE p = r
    BY <1>1, <1>3, <2>1
  <2>2. CASE q = r
    <3>1. InWipe(p) /\ job[p].token \in Revoked
      BY <2>2 DEF InWipe, LocksInv, SeenOK
    <3> QED BY <2>2, <3>1 DEF Revoked
  <2>3. CASE q # r /\ p # r
    BY <1>2, <1>3, <2>3 DEF WaitOK, Selected, InWipe, InRekey
  <2> QED BY <2>1, <2>2, <2>3
<1>5. KnowsOK(age)'
  <2> SUFFICES ASSUME NEW k \in Req, NEW w \in Req, NEW d \in Req,
                      InRekey(k)', InWipe(w)', InDelete(d)', age[k] < age[w]
               PROVE  \/ tx'[k].seen \subseteq tx'[d].seen
                      \/ tx'[d].seen \cap tx'[w].seen \subseteq tx'[k].seen
    BY DEF KnowsOK
  <2>1. d # r /\ InDelete(d)
    BY DEF InDelete
  <2>2. CASE k = r
    <3>1. w # r
      BY <2>2 DEF InRekey, InWipe
    <3> QED BY <1>1, <1>3, <2>2, <3>1
  <2>3. CASE k # r /\ w = r
    <3>1. InRekey(k)
      BY <2>3 DEF InRekey
    <3>2. OrderOK(k, d)
      BY DEF LocksInv
    <3>3. tx'[w].seen \subseteq LiveTokens
      BY <2>3
    <3> QED BY <2>1, <2>3, <3>1, <3>2, <3>3 DEF OrderOK
  <2>4. CASE k # r /\ w # r
    BY <1>2, <1>3, <2>1, <2>4 DEF KnowsOK, InRekey, InWipe
  <2> QED BY <2>2, <2>3, <2>4
<1> QED BY <1>3, <1>4, <1>5 DEF AgesOK

(* A deletion that selects knows all that rekeys under way have selected,  *)
(* or nothing at all.                                                      *)
LEMMA DeletionKnows ==
    ASSUME Inv, LocksInv, NEW d \in Req, NEW k \in Req, InRekey(k), job[d].op = "delete"
    PROVE  tx[k].seen \subseteq OfOwner(d) \/ OfOwner(d) = {}
<1>1. tx[k].seen \subseteq Stored
  BY DEF LocksInv, SeenOK, Selected
<1>2. \A t \in Stored : tokens[t].owner = user.id
  BY DEF Inv, TokensHaveOwner
<1> QED BY <1>1, <1>2 DEF OfOwner, Owner

LEMMA AgesDelete ==
    ASSUME Inv, LocksInv, NEW r \in Req, job[r].op = "delete",
           pc[r] = "select", pc'[r] = "write", job'[r] = job[r],
           tx'[r].seen = OfOwner(r),
           \A q \in Req \ {r} : pc'[q] = pc[q] /\ job'[q] = job[q] /\ tx'[q] = tx[q]
    PROVE  AgesOK'
<1>1. PICK n \in Nat : \E age \in [Req -> 0 .. n] : WaitOK(age) /\ KnowsOK(age)
  BY DEF LocksInv, AgesOK
<1>2. PICK age \in [Req -> 0 .. n] : WaitOK(age) /\ KnowsOK(age)
  BY <1>1
<1>3. \A q \in Req : /\ InWipe(q)' => q # r /\ InWipe(q)
                     /\ InRekey(q)' => q # r /\ InRekey(q)
                     /\ InDelete(q)' => q = r \/ InDelete(q)
  BY DEF InWipe, InRekey, InDelete
<1>4. WaitOK(age)'
  BY <1>2, <1>3 DEF WaitOK, Selected
<1>5. KnowsOK(age)'
  <2> SUFFICES ASSUME NEW k \in Req, NEW w \in Req, NEW d \in Req,
                      InRekey(k)', InWipe(w)', InDelete(d)', age[k] < age[w]
               PROVE  \/ tx'[k].seen \subseteq tx'[d].seen
                      \/ tx'[d].seen \cap tx'[w].seen \subseteq tx'[k].seen
    BY DEF KnowsOK
  <2>1. CASE d = r
    BY <1>3, <2>1, DeletionKnows
  <2>2. CASE d # r
    BY <1>2, <1>3, <2>2 DEF KnowsOK
  <2> QED BY <2>1, <2>2
<1> QED BY <1>1, <1>4, <1>5 DEF AgesOK

LEMMA AgesStep ==
    ASSUME Inv, LocksInv, NEW r \in Req, Proceed(r) \/ Abort(r), ~Commit(r)
    PROVE  AgesOK'
<1>1. \A q \in Req \ {r} : pc'[q] = pc[q] /\ job'[q] = job[q] /\ tx'[q] = tx[q]
  BY Statements
<1>2. CASE pc[r] = "select" /\ pc'[r] = "write"
  <2>1. job'[r] = job[r] /\ Locking(r)
    BY <1>2, Statements
  <2>2. /\ job[r].op \in {"refresh", "rekey", "delete"}
        /\ tx'[r].seen = IF job[r].op = "delete" THEN OfOwner(r)
                         ELSE OfOwner(r) \cap LiveTokens
    BY <1>2, <2>1 DEF Locking
  <2> QED BY <1>1, <1>2, <2>1, <2>2, AgesSelect, AgesDelete
<1>3. CASE ~(pc[r] = "select" /\ pc'[r] = "write")
  <2>1. pc'[r] = "idle" \/ (job'[r] = job[r] /\ Locking(r))
    BY Statements
  <2>2. /\ InWipe(r)' => InWipe(r)
        /\ InRekey(r)' => InRekey(r)
        /\ InDelete(r)' => InDelete(r)
        /\ Selected(r)' \/ InDelete(r)' => tx'[r].seen = tx[r].seen /\ job'[r] = job[r]
    BY <1>3, <2>1 DEF InWipe, InRekey, InDelete, Selected, Locking, AfterRead
  <2>3. \A q \in Req : /\ InWipe(q)' => InWipe(q)
                       /\ InRekey(q)' => InRekey(q)
                       /\ InDelete(q)' => InDelete(q)
                       /\ Selected(q)' \/ InDelete(q)' =>
                            tx'[q].seen = tx[q].seen /\ job'[q] = job[q]
    BY <1>1, <2>2 DEF InWipe, InRekey, InDelete
  <2>4. AgesOK
    BY DEF LocksInv
  <2> QED BY <2>3, <2>4, AgesKept
<1> QED BY <1>2, <1>3

LEMMA UnseenStep ==
    ASSUME Inv, LocksInv, NEW p \in Req, Proceed(p) \/ Abort(p), ~Commit(p),
           NEW q \in Req, NEW r \in Req
    PROVE  UnseenOK(q, r)'
<1> SUFFICES ASSUME Pending(q)' PROVE tx'[q].issue \notin tx'[r].seen
  BY DEF UnseenOK
<1>1. /\ \A o \in Req \ {p} : pc'[o] = pc[o] /\ job'[o] = job[o] /\ tx'[o] = tx[o]
      /\ (pc'[p] = "idle" /\ tx'[p].seen = {}) \/ Locking(p)
  BY Statements, NothingTyped
<1>2. CASE q = p
  <2>1. tx'[p].issue \notin issued /\ tx'[p].seen = tx[p].seen
    BY <1>1, <1>2 DEF Pending, Locking, AfterRead
  <2>2. tx'[r].seen = tx[r].seen /\ tx[r].seen \subseteq issued
    BY <1>1, <2>1 DEF LocksInv, SeenOK
  <2> QED BY <1>2, <2>1, <2>2
<1>3. CASE q # p
  <2>1. /\ Pending(q) /\ tx'[q].issue = tx[q].issue
        /\ tx[q].issue \notin tx[r].seen /\ tx[q].issue \notin Stored
    BY <1>1, <1>3, Underway DEF Pending, LocksInv, UnseenOK, ReqOK, IssueOK
  <2>2. Locking(p) => tx'[p].seen \subseteq tx[p].seen \cup Stored
    BY DEF Locking, LiveTokens, OfOwner
  <2> QED BY <1>1, <2>1, <2>2
<1> QED BY <1>2, <1>3

LEMMA OrderStep ==
    ASSUME Inv, LocksInv, NEW p \in Req, Proceed(p) \/ Abort(p), ~Commit(p),
           NEW k \in Req, NEW d \in Req
    PROVE  OrderOK(k, d)'
<1> SUFFICES ASSUME InRekey(k)', InDelete(d)'
             PROVE  \/ tx'[k].seen \subseteq tx'[d].seen
                    \/ tx'[d].seen \cap LiveTokens' \subseteq tx'[k].seen
  BY DEF OrderOK
<1>1. /\ \A o \in Req \ {p} : pc'[o] = pc[o] /\ job'[o] = job[o] /\ tx'[o] = tx[o]
      /\ pc'[p] = "idle" \/ (job'[p] = job[p] /\ Locking(p))
      /\ tokens' = tokens
  BY Statements
<1>2. LiveTokens' = LiveTokens
  BY <1>1 DEF LiveTokens, Stored
<1>3. CASE k = p
  <2>1. /\ pc[p] = "select" /\ job[p].op = "rekey"
        /\ tx'[p].seen = OfOwner(p) \cap LiveTokens
    BY <1>1, <1>3 DEF InRekey, Locking, AfterRead
  <2>2. user # Absent /\ user.id = Owner(p)
    BY <2>1, Underway DEF ReqOK, AccountOK, SameUser, Owner
  <2>3. LiveTokens \subseteq OfOwner(p)
    BY <2>2 DEF LiveTokens, OfOwner, Inv, TokensHaveOwner
  <2> QED BY <1>2, <1>3, <2>1, <2>3
<1>4. CASE k # p /\ d = p
  <2>1. InRekey(k) /\ tx'[k].seen = tx[k].seen
    BY <1>1, <1>4 DEF InRekey
  <2>2. CASE pc[p] = "select"
    <3>1. job[p].op = "delete" /\ tx'[p].seen = OfOwner(p)
      BY <1>1, <1>4, <2>2 DEF InDelete, Locking
    <3> QED BY <1>4, <2>1, <3>1, DeletionKnows
  <2>3. CASE pc[p] # "select"
    <3>1. InDelete(p) /\ tx'[p].seen = tx[p].seen
      BY <1>1, <1>4, <2>3 DEF InDelete, Locking, AfterRead
    <3> QED BY <1>2, <1>4, <2>1, <3>1 DEF LocksInv, OrderOK
  <2> QED BY <2>2, <2>3
<1>5. CASE k # p /\ d # p
  BY <1>1, <1>2, <1>5 DEF LocksInv, OrderOK, InRekey, InDelete
<1> QED BY <1>3, <1>4, <1>5

LEMMA LocksStep ==
    ASSUME Inv, LocksInv, NEW p \in Req, Proceed(p) \/ Abort(p), ~Commit(p)
    PROVE  LocksInv'
<1>1. /\ tokens' = tokens /\ issued \subseteq issued'
      /\ \A r \in Req \ {p} : pc'[r] = pc[r] /\ job'[r] = job[r] /\ tx'[r] = tx[r]
  BY Statements
<1>2. Stored' = Stored /\ Revoked' = Revoked
  BY <1>1 DEF Stored, LiveTokens, Revoked
<1>3. ASSUME NEW r \in Req \ {p} PROVE HoldsOK(r)' /\ SeenOK(r)'
  BY <1>1, <1>2 DEF LocksInv, HoldsOK, Held, SeenOK, Selected, InWipe, InRekey
<1>4. HoldsOK(p)' /\ SeenOK(p)'
  <2>1. CASE pc'[p] = "idle" /\ job'[p] = NoJob /\ tx'[p] = NoTx
    BY <2>1, NothingTyped DEF HoldsOK, Held, SeenOK, Selected, InWipe, InRekey
  <2>2. CASE job'[p] = job[p] /\ Locking(p)
    BY <1>1, <2>2, HoldsSelf, SeenSelf DEF LocksInv
  <2> QED BY <2>1, <2>2, Statements
<1> QED BY <1>3, <1>4, AgesStep, UnseenStep, OrderStep DEF LocksInv

LEMMA LocksCommit ==
    ASSUME Inv, LocksInv, NEW p \in Req, Commit(p)
    PROVE  LocksInv'
<1>1. /\ pc[p] = "commit" /\ pc'[p] = "reply" /\ job' = job /\ issued' = issued
      /\ tx'[p].held = {} /\ tx'[p].seen = tx[p].seen /\ tx[p].issue \in Token \cup {Absent}
      /\ \A r \in Req \ {p} : pc'[r] = pc[r] /\ tx'[r] = tx[r]
  BY DEF Commit, Inv, TypeOK, Tx
<1>2. ASSUME NEW r \in Req \ {p} PROVE HoldsOK(r)' /\ SeenOK(r)'
  BY <1>1, SeenOther DEF LocksInv, HoldsOK, Held
<1>3. HoldsOK(p)' /\ SeenOK(p)'
  BY <1>1 DEF HoldsOK, Held, SeenOK, Selected, InWipe, InRekey, LocksInv
<1>4. ASSUME NEW q \in Req, NEW r \in Req PROVE UnseenOK(q, r)'
  <2>1. Pending(q)' => Pending(q) /\ tx'[q].issue = tx[q].issue
    BY <1>1 DEF Pending
  <2>2. tx'[r].seen = tx[r].seen
    BY <1>1
  <2> QED BY <2>1, <2>2 DEF LocksInv, UnseenOK
<1>5. ASSUME NEW k \in Req, NEW d \in Req PROVE OrderOK(k, d)'
  <2> SUFFICES ASSUME InRekey(k)', InDelete(d)'
               PROVE  \/ tx'[k].seen \subseteq tx'[d].seen
                      \/ tx'[d].seen \cap LiveTokens' \subseteq tx'[k].seen
    BY DEF OrderOK
  <2>1. /\ k # p /\ d # p /\ InRekey(k) /\ InDelete(d)
        /\ tx'[k].seen = tx[k].seen /\ tx'[d].seen = tx[d].seen
    BY <1>1 DEF InRekey, InDelete
  <2>2. tx[p].issue \notin tx[d].seen \/ tx[p].issue = Absent
    BY <1>1 DEF LocksInv, UnseenOK, Pending
  <2>3. LiveTokens' \subseteq LiveTokens \cup {tx[p].issue} /\ Absent \notin LiveTokens'
    BY CommitStored, AbsentIsNoValue DEF LiveTokens, Stored
  <2> QED BY <2>1, <2>2, <2>3 DEF LocksInv, OrderOK
<1>6. AgesOK'
  <2>1. \A r \in Req : /\ InWipe(r)' => InWipe(r)
                       /\ InRekey(r)' => InRekey(r)
                       /\ InDelete(r)' => InDelete(r)
                       /\ Selected(r)' \/ InDelete(r)' =>
                            tx'[r].seen = tx[r].seen /\ job'[r] = job[r]
    BY <1>1 DEF InWipe, InRekey, InDelete
  <2> QED BY <2>1, AgesKept DEF LocksInv
<1> QED BY <1>2, <1>3, <1>4, <1>5, <1>6 DEF LocksInv

LEMMA LocksBegin ==
    ASSUME Inv, LocksInv, NEW p \in Req,
           \/ BeginRegister(p) \/ BeginLogin(p) \/ BeginRefresh(p)
           \/ BeginLogout(p) \/ BeginRekey(p) \/ BeginDelete(p)
    PROVE  LocksInv'
<1>1. /\ UNCHANGED <<user, tokens, issued, tx>>
      /\ pc[p] = "idle" /\ pc'[p] \in {"read", "lock"} /\ tx[p] = NoTx
      /\ \A r \in Req \ {p} : pc'[r] = pc[r] /\ job'[r] = job[r]
  BY Begins
<1>2. Stored' = Stored /\ LiveTokens' = LiveTokens /\ Revoked' = Revoked
  BY <1>1 DEF Stored, LiveTokens, Revoked
<1>3. ASSUME NEW r \in Req \ {p} PROVE HoldsOK(r)' /\ SeenOK(r)'
  BY <1>1, <1>2 DEF LocksInv, HoldsOK, Held, SeenOK, Selected, InWipe, InRekey
<1>4. HoldsOK(p)' /\ SeenOK(p)'
  BY <1>1, NothingTyped DEF HoldsOK, Held, SeenOK, Selected, InWipe, InRekey
<1>5. \A q, r \in Req : UnseenOK(q, r)'
  BY <1>1 DEF LocksInv, UnseenOK, Pending
<1>6. \A q, r \in Req : OrderOK(q, r)'
  BY <1>1, <1>2 DEF LocksInv, OrderOK, InRekey, InDelete
<1>7. AgesOK'
  <2>1. \A r \in Req : /\ InWipe(r)' => InWipe(r)
                       /\ InRekey(r)' => InRekey(r)
                       /\ InDelete(r)' => InDelete(r)
                       /\ Selected(r)' \/ InDelete(r)' =>
                            tx'[r].seen = tx[r].seen /\ job'[r] = job[r]
    BY <1>1 DEF InWipe, InRekey, InDelete, Selected
  <2> QED BY <2>1, AgesKept DEF LocksInv
<1> QED BY <1>3, <1>4, <1>5, <1>6, <1>7 DEF LocksInv

LEMMA LocksNext == Inv /\ LocksInv /\ [Next]_vars => LocksInv'
<1> SUFFICES ASSUME Inv, LocksInv, [Next]_vars PROVE LocksInv'
  OBVIOUS
<1>1. CASE UNCHANGED <<user, tokens, issued, pc, job, tx>>
  <2>1. Stored' = Stored /\ LiveTokens' = LiveTokens /\ Revoked' = Revoked
    BY <1>1 DEF Stored, LiveTokens, Revoked
  <2>2. \A r \in Req : HoldsOK(r)' /\ SeenOK(r)'
    BY <1>1, <2>1 DEF LocksInv, HoldsOK, Held, SeenOK, Selected, InWipe, InRekey
  <2>3. \A q, r \in Req : UnseenOK(q, r)' /\ OrderOK(q, r)'
    BY <1>1, <2>1 DEF LocksInv, UnseenOK, Pending, OrderOK, InRekey, InDelete
  <2>4. AgesOK'
    BY <1>1, AgesKept DEF LocksInv, InWipe, InRekey, InDelete, Selected
  <2> QED BY <2>2, <2>3, <2>4 DEF LocksInv
<1> QED BY <1>1, Cases, LocksStep, LocksCommit, LocksBegin

LEMMA LocksInit == Init => LocksInv
<1> SUFFICES ASSUME Init PROVE LocksInv
  OBVIOUS
<1>1. \A r \in Req : pc[r] = "idle" /\ job[r] = NoJob /\ tx[r] = NoTx
  BY DEF Init
<1>2. \A r \in Req : HoldsOK(r) /\ SeenOK(r)
  BY <1>1, NothingTyped DEF HoldsOK, Held, SeenOK, Selected, InWipe, InRekey
<1>3. \A q, r \in Req : UnseenOK(q, r) /\ OrderOK(q, r)
  BY <1>1 DEF UnseenOK, Pending, OrderOK, InRekey
<1>4. AgesOK
  <2>1. [r \in Req |-> 0] \in [Req -> 0 .. 0] /\ 0 \in Nat
    OBVIOUS
  <2>2. WaitOK([r \in Req |-> 0]) /\ KnowsOK([r \in Req |-> 0])
    BY <1>1 DEF WaitOK, KnowsOK, Selected, InWipe, InRekey
  <2> QED BY <2>1, <2>2 DEF AgesOK
<1> QED BY <1>2, <1>3, <1>4 DEF LocksInv

-----------------------------------------------------------------------------
(* Of some requests one is the youngest.                                   *)
LEMMA Youngest ==
    ASSUME NEW n \in Nat, NEW age \in [Req -> 0 .. n], NEW S \in SUBSET Req, S # {}
    PROVE  \E w \in S : \A v \in S : age[v] <= age[w]
<1> DEFINE Less == OpToRel(<, Nat)
           T == {n - age[v] : v \in S}
<1>1. T \subseteq Nat /\ T # {}
  OBVIOUS
<1>2. IsWellFoundedOn(Less, Nat)
  BY NatLessThanWellFounded
<1>3. \A i, j \in Nat : i < j => <<i, j>> \in Less
  BY DEF OpToRel
<1> HIDE DEF Less
<1>4. \E x \in T : \A y \in T : <<y, x>> \notin Less
  BY <1>1, <1>2, WFMin
<1>5. PICK w \in S : \A v \in S : <<n - age[v], n - age[w]>> \notin Less
  BY <1>4
<1>6. ASSUME NEW v \in S PROVE age[v] <= age[w]
  <2>1. age[v] \in 0 .. n /\ age[w] \in 0 .. n /\ n - age[v] \in Nat /\ n - age[w] \in Nat
    OBVIOUS
  <2>2. ~(n - age[v] < n - age[w])
    BY <1>3, <1>5, <2>1
  <2> QED BY <2>1, <2>2
<1> QED BY <1>6

(* Which locks exclude each other.                                         *)
LEMMA Clashes ==
    /\ \A a \in Token : \A b : Clash(a, b) <=> a = b
    /\ \A b : Clash("key", b) <=> b = "del"
    /\ \A b : Clash("del", b) <=> b \in {"key", "upd", "del"}
<1>1. ASSUME NEW a, NEW b
      PROVE  Clash(a, b) <=> \/ a = b /\ a # "key"
                             \/ (a = "upd" /\ b = "del") \/ (a = "del" /\ b = "upd")
                             \/ (a = "key" /\ b = "del") \/ (a = "del" /\ b = "key")
  <2>1. ASSUME NEW c, NEW d, c # d
        PROVE  {a, b} = {c, d} <=> ((a = c /\ b = d) \/ (a = d /\ b = c))
    <3>1. ASSUME {a, b} = {c, d} PROVE (a = c /\ b = d) \/ (a = d /\ b = c)
      <4>1. c \in {a, b} /\ d \in {a, b} /\ a \in {c, d} /\ b \in {c, d}
        BY <3>1
      <4> QED BY <2>1, <4>1
    <3> QED BY <3>1
  <2>2. "upd" # "del" /\ "key" # "del"
    OBVIOUS
  <2>3. /\ {a, b} = {"upd", "del"} <=> ((a = "upd" /\ b = "del") \/ (a = "del" /\ b = "upd"))
        /\ {a, b} = {"key", "del"} <=> ((a = "key" /\ b = "del") \/ (a = "del" /\ b = "key"))
    BY <2>1, <2>2
  <2> QED BY <2>3 DEF Clash
<1>2. \A a \in Token : a # "key" /\ a # "upd" /\ a # "del"
  BY ModesAreNoTokens
<1> QED BY <1>1, <1>2

(* The requests that hold locks and wait for others.                       *)
InRotation(r) == job[r].op = "refresh" /\ pc[r] = "insert"
InDelUser(r)  == job[r].op = "delete" /\ pc[r] = "user"
InCascade(r)  == job[r].op = "delete" /\ pc[r] = "cascade"

LEMMA Waiters ==
    ASSUME Inv, LocksInv, NEW r \in Req, Wants(r) # {}, tx[r].held # {}
    PROVE  InRotation(r) \/ InWipe(r) \/ InRekey(r) \/ InDelUser(r) \/ InCascade(r)
<1>1. pc[r] \in {"lock", "insert", "user", "write", "cascade"}
  BY Underway DEF Wants
<1>2. Held(r) # {}
  BY <1>1 DEF LocksInv, HoldsOK
<1> QED BY <1>1, <1>2 DEF Held, InRotation, InWipe, InRekey, InDelUser, InCascade

(* What each of them holds, and waits for.                                 *)
LEMMA Holdings ==
    ASSUME Inv, LocksInv, NEW r \in Req
    PROVE  /\ InRotation(r) => Wants(r) = {"key"} /\ tx[r].held \subseteq Token
           /\ InWipe(r) => /\ Wants(r) = tx[r].seen /\ tx[r].seen \subseteq Stored
                           /\ tx[r].held = {job[r].token} /\ job[r].token \in Stored
           /\ InRekey(r) => /\ Wants(r) = tx[r].seen /\ tx[r].seen \subseteq Stored
                            /\ tx[r].held = {"upd"}
           /\ InDelUser(r) => /\ Wants(r) = {"del"} /\ tx[r].held = tx[r].seen
                              /\ tx[r].seen \subseteq Token
           /\ InCascade(r) => /\ "del" \in tx[r].held
                              /\ Wants(r) # {} => Wants(r) = Stored
<1>1. /\ HoldsOK(r) /\ SeenOK(r) /\ TokenOK(r) /\ issued \subseteq Token
      /\ LiveTokens \subseteq Stored /\ Stored \subseteq Token
  BY DEF LocksInv, Inv, ReqOK, TypeOK, LiveTokens, Stored
<1>2. InRotation(r) => Wants(r) = {"key"} /\ tx[r].held \subseteq Token
  BY <1>1 DEF InRotation, Wants, HoldsOK, Held, TokenOK, Rotates
<1>3. InWipe(r) => /\ Wants(r) = tx[r].seen /\ tx[r].seen \subseteq Stored
                   /\ tx[r].held = {job[r].token} /\ job[r].token \in Stored
  BY <1>1 DEF InWipe, Wants, HoldsOK, Held, SeenOK, Selected, Revoked
<1>4. InRekey(r) => /\ Wants(r) = tx[r].seen /\ tx[r].seen \subseteq Stored
                    /\ tx[r].held = {"upd"}
  BY <1>1 DEF InRekey, Wants, HoldsOK, Held, SeenOK, Selected
<1>5. InDelUser(r) => /\ Wants(r) = {"del"} /\ tx[r].held = tx[r].seen
                      /\ tx[r].seen \subseteq Token
  BY <1>1 DEF InDelUser, Wants, HoldsOK, Held, SeenOK
<1>6. InCascade(r) => /\ "del" \in tx[r].held
                      /\ Wants(r) # {} => Wants(r) = Stored
  <2> SUFFICES ASSUME InCascade(r)
               PROVE  "del" \in tx[r].held /\ (Wants(r) # {} => Wants(r) = Stored)
    OBVIOUS
  <2>1. Wants(r) = {t \in Stored : tokens[t].owner = tx[r].user.id}
    BY DEF InCascade, Wants
  <2>2. \A t \in Stored : tokens[t].owner = user.id
    BY DEF Inv, TokensHaveOwner
  <2> QED BY <1>1, <2>1, <2>2 DEF InCascade, HoldsOK, Held
<1> QED BY <1>2, <1>3, <1>4, <1>5, <1>6

(* A group every one of which waits for another of it, and no two of which *)
(* wait for each other.                                                    *)
Circle(group) ==
    /\ group \subseteq Req /\ group # {}
    /\ \A r \in group : \E q \in group : Blocks(q, r)
    /\ \A q, r \in group : ~(Blocks(q, r) /\ Blocks(r, q))

LEMMA CircleWaits ==
    ASSUME Inv, LocksInv, NEW group, Circle(group), NEW r \in group
    PROVE  \E q \in group :
             /\ q # r /\ \E a \in Wants(r), b \in tx[q].held : Clash(a, b)
             /\ InRotation(q) \/ InWipe(q) \/ InRekey(q) \/ InDelUser(q) \/ InCascade(q)
<1>1. PICK q \in group : Blocks(q, r)
  BY DEF Circle
<1>2. \E p \in group : Blocks(p, q)
  BY DEF Circle
<1>3. q \in Req /\ tx[q].held # {} /\ Wants(q) # {}
  BY <1>1, <1>2 DEF Blocks, Circle
<1> QED BY <1>1, <1>3, Waiters DEF Blocks

(* Whoever waits for selected tokens is older than a wipe it waits for.    *)
LEMMA WaitsForYounger ==
    ASSUME Inv, LocksInv, NEW age, WaitOK(age), NEW q \in Req, NEW r \in Req,
           Selected(r), InWipe(q), q # r,
           NEW a \in Wants(r), NEW b \in tx[q].held, Clash(a, b)
    PROVE  age[r] < age[q]
<1>1. /\ Wants(r) = tx[r].seen /\ tx[r].seen \subseteq Stored
      /\ tx[q].held = {job[q].token}
  BY Holdings DEF Selected
<1>2. a = b
  BY <1>1, Clashes DEF Stored
<1> QED BY <1>1, <1>2 DEF WaitOK

(* There is no circle with a deletion that cascades: it wants all tokens,  *)
(* so it waits for wipes only, and the youngest of them waits for it.      *)
LEMMA NoCascadeInCircle ==
    ASSUME Inv, LocksInv, NEW group, Circle(group), NEW d \in group, InCascade(d)
    PROVE  FALSE
<1>0. group \subseteq Req /\ d \in Req /\ Stored \subseteq Token
  BY DEF Circle, Stored
<1>1. "del" \in tx[d].held /\ Wants(d) = Stored
  BY <1>0, CircleWaits, Holdings
<1>2. \A q \in group : ~InRekey(q) /\ (InCascade(q) => q = d)
  <2> SUFFICES ASSUME NEW q \in group, q # d, "upd" \in tx[q].held \/ "del" \in tx[q].held
               PROVE  FALSE
    BY <1>0, Holdings DEF InRekey, InCascade
  <2>1. \A a \in tx[d].held, b \in tx[q].held : ~Clash(a, b)
    BY <1>0 DEF Inv, PairOK
  <2> QED BY <1>1, <2>1, Clashes
<1>3. ASSUME NEW q \in group, q # d, NEW b \in tx[q].held, b \in Stored
      PROVE  ~InRotation(q) /\ ~InDelUser(q)
  <2> SUFFICES ASSUME InRotation(q) \/ InDelUser(q) PROVE FALSE
    OBVIOUS
  <2>1. Blocks(q, d)
    BY <1>0, <1>1, <1>3, Clashes DEF Blocks
  <2>2. Wants(q) = {"key"} \/ Wants(q) = {"del"}
    BY <1>0, Holdings
  <2>3. Blocks(d, q)
    BY <1>1, <1>3, <2>2, Clashes DEF Blocks
  <2> QED BY <2>1, <2>3 DEF Circle
<1>4. PICK n \in Nat : \E age \in [Req -> 0 .. n] : WaitOK(age) /\ KnowsOK(age)
  BY DEF LocksInv, AgesOK
<1>5. PICK age \in [Req -> 0 .. n] : WaitOK(age) /\ KnowsOK(age)
  BY <1>4
<1> DEFINE wipes == {w \in group : InWipe(w)}
<1>6. wipes # {} /\ wipes \subseteq Req
  <2>1. PICK q \in group :
             /\ q # d /\ \E a \in Wants(d), b \in tx[q].held : Clash(a, b)
             /\ InRotation(q) \/ InWipe(q) \/ InRekey(q) \/ InDelUser(q) \/ InCascade(q)
    BY CircleWaits
  <2>2. \E b \in tx[q].held : b \in Stored
    BY <1>0, <1>1, <2>1, Clashes
  <2> QED BY <1>0, <1>2, <1>3, <2>1, <2>2
<1>7. PICK w \in wipes : \A v \in wipes : age[v] <= age[w]
  BY <1>4, <1>6, Youngest
<1>8. PICK q \in group :
           /\ q # w /\ \E a \in Wants(w), b \in tx[q].held : Clash(a, b)
           /\ InRotation(q) \/ InWipe(q) \/ InRekey(q) \/ InDelUser(q) \/ InCascade(q)
  BY CircleWaits
<1>9. Wants(w) \subseteq Stored /\ job[w].token \in Stored \cap tx[w].held
  BY <1>0, Holdings
<1>10. PICK b \in tx[q].held : b \in Wants(w)
  BY <1>0, <1>8, <1>9, Clashes
<1>11. CASE q = d
  <2>1. Blocks(d, w) /\ Blocks(w, d)
    BY <1>0, <1>1, <1>8, <1>9, <1>11, Clashes DEF Blocks
  <2> QED BY <2>1 DEF Circle
<1>12. CASE InWipe(q)
  <2>1. age[w] < age[q] /\ age[q] <= age[w] /\ age[q] \in Int /\ age[w] \in Int
    BY <1>0, <1>4, <1>5, <1>7, <1>8, <1>12, WaitsForYounger DEF Selected
  <2> QED BY <2>1
<1> QED BY <1>2, <1>3, <1>8, <1>9, <1>10, <1>11, <1>12

(* Nor is there any other: refreshes that rotate wait for cascades only,   *)
(* deletions for a rekey, a rekey for a wipe, and the youngest wipe for a  *)
(* deletion, which then holds a token that the rekey waits for.            *)
LEMMA NoCircle ==
    ASSUME Inv, LocksInv, NEW group, Circle(group)
    PROVE  FALSE
<1>0. group \subseteq Req /\ Stored \subseteq Token
  BY DEF Circle, Stored
<1>1. \A q \in group : ~InCascade(q)
  BY NoCascadeInCircle
<1>2. ASSUME NEW r \in group
      PROVE  \E q \in group :
               /\ q # r /\ \E a \in Wants(r), b \in tx[q].held : Clash(a, b)
               /\ InRotation(q) \/ InWipe(q) \/ InRekey(q) \/ InDelUser(q)
  BY <1>1, CircleWaits
<1>3. ASSUME NEW q \in group, "del" \in tx[q].held,
             InRotation(q) \/ InWipe(q) \/ InRekey(q) \/ InDelUser(q)
      PROVE  FALSE
  BY <1>0, <1>3, Holdings, ModesAreNoTokens
<1>4. \A r \in group : ~InRotation(r)
  <2> SUFFICES ASSUME NEW r \in group, InRotation(r) PROVE FALSE
    OBVIOUS
  <2>1. Wants(r) = {"key"}
    BY <1>0, Holdings
  <2> QED BY <1>2, <1>3, <2>1, Clashes
<1>5. ASSUME NEW d \in group, InDelUser(d)
      PROVE  \E k \in group : InRekey(k) /\ Blocks(k, d)
  <2>1. PICK q \in group :
             /\ q # d /\ \E a \in Wants(d), b \in tx[q].held : Clash(a, b)
             /\ InRotation(q) \/ InWipe(q) \/ InRekey(q) \/ InDelUser(q)
    BY <1>2
  <2>2. \E b \in tx[q].held : b \in {"key", "upd", "del"}
    BY <1>0, <1>5, <2>1, Holdings, Clashes
  <2>3. InRekey(q)
    BY <1>0, <2>1, <2>2, Holdings, ModesAreNoTokens
  <2> QED BY <2>1, <2>3 DEF Blocks
<1>6. \A j, k \in group : InRekey(j) /\ InRekey(k) => j = k
  <2> SUFFICES ASSUME NEW j \in group, NEW k \in group, j # k, InRekey(j), InRekey(k)
               PROVE  FALSE
    OBVIOUS
  <2>1. "upd" \in tx[j].held /\ "upd" \in tx[k].held /\ Clash("upd", "upd")
    BY <1>0, Holdings DEF Clash
  <2> QED BY <1>0, <2>1 DEF Inv, PairOK
<1>7. PICK n \in Nat : \E age \in [Req -> 0 .. n] : WaitOK(age) /\ KnowsOK(age)
  BY DEF LocksInv, AgesOK
<1>8. PICK age \in [Req -> 0 .. n] : WaitOK(age) /\ KnowsOK(age)
  BY <1>7
<1> DEFINE waiters == {r \in group : Selected(r)}
<1>9. waiters # {} /\ waiters \subseteq Req
  <2>1. PICK r \in group : TRUE
    BY DEF Circle
  <2>2. \E q \in group : InWipe(q) \/ InRekey(q) \/ InDelUser(q)
    BY <1>2, <1>4, <2>1
  <2> QED BY <1>0, <1>5, <2>2 DEF Selected
<1>10. PICK w \in waiters : \A v \in waiters : age[v] <= age[w]
  BY <1>7, <1>9, Youngest
<1>11. ASSUME NEW r \in waiters
       PROVE  \/ \E q \in waiters : InWipe(q) /\ age[r] < age[q]
              \/ \E d \in group : /\ InDelUser(d) /\ Blocks(d, r)
                                  /\ tx[d].seen \cap tx[r].seen # {}
  <2>1. PICK q \in group :
             /\ q # r /\ \E a \in Wants(r), b \in tx[q].held : Clash(a, b)
             /\ InRotation(q) \/ InWipe(q) \/ InRekey(q) \/ InDelUser(q)
    BY <1>2
  <2>2. Wants(r) = tx[r].seen /\ tx[r].seen \subseteq Stored
    BY <1>0, Holdings DEF Selected
  <2>3. CASE InWipe(q)
    BY <1>0, <1>8, <2>1, <2>3, WaitsForYounger DEF Selected
  <2>4. CASE InRekey(q)
    BY <1>0, <2>1, <2>2, <2>4, Holdings, Clashes, ModesAreNoTokens
  <2>5. CASE InDelUser(q)
    <3>1. tx[q].held = tx[q].seen
      BY <1>0, <2>5, Holdings
    <3> QED BY <1>0, <2>1, <2>2, <2>5, <3>1, Clashes DEF Blocks
  <2> QED BY <1>4, <2>1, <2>3, <2>4, <2>5
<1>12. \A v \in waiters : age[v] \in Int
  BY <1>7, <1>8, <1>9
<1>13. PICK d \in group : /\ InDelUser(d) /\ Blocks(d, w)
                          /\ tx[d].seen \cap tx[w].seen # {}
  BY <1>10, <1>11, <1>12
<1>14. PICK k \in group : InRekey(k) /\ Blocks(k, d)
  BY <1>5, <1>13
<1>15. ~Blocks(d, k) /\ k # w /\ InWipe(w)
  BY <1>6, <1>13, <1>14 DEF Circle, Selected
<1>16. age[k] < age[w]
  <2>1. k \in waiters
    BY <1>14 DEF Selected
  <2>2. ~\E e \in group : InDelUser(e) /\ Blocks(e, k)
    <3> SUFFICES ASSUME NEW e \in group, InDelUser(e), Blocks(e, k) PROVE FALSE
      OBVIOUS
    <3>1. PICK j \in group : InRekey(j) /\ Blocks(j, e)
      BY <1>5
    <3> QED BY <1>6, <1>14, <3>1 DEF Circle
  <2>3. PICK q \in waiters : age[k] < age[q]
    BY <1>11, <2>1, <2>2
  <2> QED BY <1>10, <1>12, <2>1, <2>3
<1>17. /\ tx[d].held = tx[d].seen /\ Wants(k) = tx[k].seen /\ tx[k].seen \subseteq Stored
       /\ d # k
  BY <1>0, <1>13, <1>14, Holdings DEF InDelUser, InRekey
<1>18. tx[d].seen \cap tx[k].seen # {}
  <2>1. \/ tx[k].seen \subseteq tx[d].seen
        \/ tx[d].seen \cap tx[w].seen \subseteq tx[k].seen
    BY <1>0, <1>8, <1>13, <1>14, <1>15, <1>16 DEF KnowsOK, InDelUser, InDelete
  <2>2. tx[k].seen # {}
    BY <1>2, <1>14, <1>17
  <2> QED BY <1>13, <2>1, <2>2
<1>19. Blocks(d, k)
  BY <1>0, <1>17, <1>18, Clashes DEF Blocks
<1> QED BY <1>15, <1>19

LEMMA PairsOnly == Inv /\ LocksInv => DeadlocksArePairs
<1> SUFFICES ASSUME Inv, LocksInv, NEW group \in SUBSET UnderWay, group # {},
                    \A r \in group : /\ \E q \in Req : Blocks(q, r) /\ q \notin UnderWay \ group
                                     /\ ~\E q \in group : Blocks(q, r) /\ Blocks(r, q)
             PROVE  FALSE
  BY DEF DeadlocksArePairs
<1>1. ASSUME NEW q \in Req, pc[q] = "idle" PROVE tx[q].held = {}
  BY <1>1 DEF LocksInv, HoldsOK, Held
<1>2. ASSUME NEW r \in group PROVE \E q \in group : Blocks(q, r)
  <2>1. PICK q \in Req : Blocks(q, r) /\ q \notin UnderWay \ group
    OBVIOUS
  <2> QED BY <1>1, <2>1 DEF Blocks, UnderWay
<1> QED BY <1>2, NoCircle DEF Circle, UnderWay

LEMMA LocksInvariance == Spec => []LocksInv
<1>1. Init => LocksInv
  BY LocksInit
<1>2. Inv /\ LocksInv /\ [Next]_vars => LocksInv'
  BY LocksNext
<1> QED BY <1>1, <1>2, Invariance, PTL DEF Spec

(* However many requests race, a circle of requests that wait for each     *)
(* other's locks contains two that wait for each other.                    *)
THEOREM LocksNeverCircle == Spec => []DeadlocksArePairs
<1>1. Inv /\ LocksInv => DeadlocksArePairs
  BY PairsOnly
<1> QED BY <1>1, Invariance, LocksInvariance, PTL
=============================================================================

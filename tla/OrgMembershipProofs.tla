------------------------- MODULE OrgMembershipProofs -------------------------
(***************************************************************************)
(* Theorems about OrgMembership, for any number of requests, people and    *)
(* rows.                                                                   *)
(*                                                                         *)
(* The properties speak of the committed rows.  They are kept by commits   *)
(* that mix what a request decided long ago with what is stored now, so    *)
(* the inductive invariant says what each pending request may still write: *)
(* never a row of the owner, always under the address the row was made     *)
(* for, and a user_id only while no other row has it.                      *)
(***************************************************************************)
EXTENDS OrgMembership, TLAPS

Pending == {"flush", "commit"}

Written(x) == IF x.base # Absent /\ x.base.user = x.mem.user
              THEN {} ELSE {x.mem.user} \ {Absent}

(* The committed rows: those of the owner, and the others.                 *)
RowsOK ==
    /\ org = Absent => Stored = {}
    /\ org # Absent => \E s \in Stored : members[s].email = org
    /\ \A s \in Stored :
         /\ members[s].user \in {Absent, members[s].email}
         /\ members[s].role = "owner" <=> members[s].email = org
         /\ members[s].email = org => members[s].user = org /\ members[s].status = "active"
    /\ \A s, t \in Stored : s # t /\ members[s].user # Absent
                               => members[t].user # members[s].user

(* A row read and changed, not yet committed.                              *)
PendingOK(j, x) ==
    /\ x.slot \in Slot /\ x.mem \in Row
    /\ x.mem.user \in {Absent, x.mem.email}
    /\ x.mem.status = "active" => \/ j.actor = x.mem.email
                                  \/ x.base # Absent /\ x.base.status = "active"
    /\ x.base = Absent => members[x.slot] = Absent
    /\ x.base # Absent => /\ members[x.slot] # Absent
                          /\ x.base.email = x.mem.email
                          /\ members[x.slot].email = x.mem.email
    /\ j.op = "create" => /\ x.base = Absent
                          /\ x.mem.user = j.actor /\ x.mem.email = j.actor
                          /\ x.mem.role = "owner" /\ x.mem.status = "active"
    /\ j.op # "create" => /\ org # Absent
                          /\ x.mem.role # "owner" /\ x.mem.email # org

FlushedOK(j, x) ==
    /\ \A s \in Stored \ {x.slot} : members[s].user \notin Written(x)
    /\ j.op = "create" => org = Absent

(* A request whose next statement is p.                                    *)
TxOK(p, j, x) ==
    /\ j.role # "owner"
    /\ p # "idle" => j.actor \in User
    /\ j.op = "invite" => j.email \in User
    /\ j.op \in {"accept", "role", "remove", "revoke"} => j.slot \in Stored
    /\ p = "lookup" => j.op = "invite" /\ org # Absent
    /\ p = "target" => /\ j.op \in {"invite", "role", "remove", "revoke"}
                       /\ org # Absent
                       /\ x.recipient \in {Absent, j.email}
    /\ p \notin Pending => x.slot = Absent /\ x.base = Absent
    /\ p \in {"idle", "check", "lookup"} => x.recipient = Absent
    /\ p \in Pending => PendingOK(j, x)
    /\ p = "commit" => FlushedOK(j, x)

ReqOK(r) == TxOK(pc[r], job[r], tx[r])

(* Two requests: ids of new rows are distinct; row locks and the unique    *)
(* keys keep apart what has been written.                                  *)
Apart(p, j, x, p2, j2, x2) ==
    /\ p \in Pending /\ x.base = Absent => x2.slot # x.slot
    /\ p = "commit" /\ p2 = "commit" => /\ x2.slot # x.slot
                                        /\ Written(x) \cap Written(x2) = {}
                                        /\ j.op # "create" \/ j2.op # "create"

PairOK(q, r) == Apart(pc[q], job[q], tx[q], pc[r], job[r], tx[r])

Inv == /\ TypeOK
       /\ RowsOK
       /\ \A r \in Req : ReqOK(r)
       /\ \A q, r \in Req : q # r => PairOK(q, r)

Stages == {"idle", "check", "lookup", "target", "flush", "commit"}

-----------------------------------------------------------------------------
(* A step of one request that commits nothing: its own new state must be   *)
(* in order, and apart from those of the others.                           *)
LEMMA Local ==
    ASSUME Inv, NEW r \in Req, NEW p \in Stages, NEW j \in Job, NEW x \in Tx,
           registered' \subseteq User, members' = members, org' = org,
           pc' = [pc EXCEPT ![r] = p], job' = [job EXCEPT ![r] = j],
           tx' = [tx EXCEPT ![r] = x],
           TxOK(p, j, x),
           \A q \in Req \ {r} : /\ Apart(p, j, x, pc[q], job[q], tx[q])
                                /\ Apart(pc[q], job[q], tx[q], p, j, x)
    PROVE  Inv'
<1>1. TypeOK
  BY DEF Inv
<1>2. TypeOK'
  BY <1>1 DEF TypeOK, Stages
<1>3. RowsOK'
  BY DEF Inv, RowsOK, Stored
<1>4. \A q \in Req : /\ pc'[q] = IF q = r THEN p ELSE pc[q]
                     /\ job'[q] = IF q = r THEN j ELSE job[q]
                     /\ tx'[q] = IF q = r THEN x ELSE tx[q]
  BY <1>1 DEF TypeOK
<1>5. ASSUME NEW q \in Req PROVE ReqOK(q)'
  <2>1. TxOK(pc'[q], job'[q], tx'[q])
    BY <1>4 DEF Inv, ReqOK
  <2> QED
    BY <2>1 DEF ReqOK, TxOK, PendingOK, FlushedOK, Stored
<1>6. ASSUME NEW q \in Req, NEW o \in Req, q # o PROVE PairOK(q, o)'
  <2>1. Apart(pc'[q], job'[q], tx'[q], pc'[o], job'[o], tx'[o])
    BY <1>4, <1>6 DEF Inv, PairOK
  <2> QED
    BY <2>1 DEF PairOK
<1> QED
  BY <1>2, <1>3, <1>5, <1>6 DEF Inv

(* As long as the request has no row to write, it is apart from any other. *)
LEMMA Quiet ==
    ASSUME Inv, NEW r \in Req, NEW p \in Stages \ Pending, NEW j \in Job, NEW x \in Tx,
           registered' \subseteq User, members' = members, org' = org,
           pc' = [pc EXCEPT ![r] = p], job' = [job EXCEPT ![r] = j],
           tx' = [tx EXCEPT ![r] = x],
           TxOK(p, j, x)
    PROVE  Inv'
<1>1. ASSUME NEW q \in Req \ {r} PROVE /\ Apart(p, j, x, pc[q], job[q], tx[q])
                                       /\ Apart(pc[q], job[q], tx[q], p, j, x)
  <2>1. x.slot = Absent
    BY DEF TxOK
  <2>2. pc[q] \in Pending => tx[q].slot \in Slot
    BY DEF Inv, ReqOK, TxOK, PendingOK
  <2> QED
    BY <2>1, <2>2, AbsentIsNoValue DEF Apart, Pending
<1> QED
  BY <1>1, Local

LEMMA Typed == Inv => TypeOK /\ \A r \in Req : pc[r] \in Stages /\ job[r] \in Job /\ tx[r] \in Tx
  BY DEF Inv, TypeOK, Stages

LEMMA Nulls == NoJob \in Job /\ NoTx \in Tx
  BY DEF NoJob, NoTx, Job, Tx, Ops, Role

LEMMA EndOK ==
    ASSUME Inv, NEW r \in Req, End(r), UNCHANGED <<registered, org, members>>
    PROVE  Inv'
<1>1. NoJob \in Job /\ NoTx \in Tx
  BY Nulls
<1>2. TxOK("idle", NoJob, NoTx)
  BY DEF TxOK, NoJob, NoTx, Pending
<1>3. "idle" \in Stages \ Pending /\ registered' \subseteq User
  BY DEF Stages, Pending, Inv, TypeOK
<1> QED
  BY <1>1, <1>2, <1>3, Quiet DEF End

LEMMA BeginOK ==
    ASSUME Inv, NEW r \in Req, NEW asked \in Job, Begin(r, asked),
           asked.role # "owner", asked.op = "invite" => asked.email \in User,
           asked.op \in {"accept", "role", "remove", "revoke"} => asked.slot \in Stored
    PROVE  Inv'
<1>1. tx[r] \in Tx /\ tx' = [tx EXCEPT ![r] = tx[r]] /\ registered' \subseteq User
  BY DEF Inv, TypeOK, Begin
<1>2. TxOK("check", asked, tx[r])
  BY DEF Inv, TypeOK, ReqOK, TxOK, Begin, Pending
<1>3. "check" \in Stages \ Pending
  BY DEF Stages, Pending
<1> QED
  BY <1>1, <1>2, <1>3, Quiet DEF Begin

LEMMA BeginsOK ==
    ASSUME Inv, NEW r \in Req,
           \/ BeginCreate(r) \/ BeginInvite(r) \/ BeginAccept(r)
           \/ BeginRole(r) \/ BeginRemove(r) \/ BeginLeave(r)
    PROVE  Inv'
<1>0. Stored \subseteq Slot
  BY DEF Stored
<1>1. CASE BeginCreate(r)
  <2> PICK u \in User : Begin(r, By("create", u))
    BY <1>1 DEF BeginCreate
  <2>1. By("create", u) \in Job /\ By("create", u).role = "member"
        /\ By("create", u).op = "create"
    BY DEF By, NoJob, Job, Ops, Role
  <2> QED BY <2>1, BeginOK
<1>2. CASE BeginLeave(r)
  <2> PICK u \in User : Begin(r, By("leave", u))
    BY <1>2 DEF BeginLeave
  <2>1. By("leave", u) \in Job /\ By("leave", u).role = "member"
        /\ By("leave", u).op = "leave"
    BY DEF By, NoJob, Job, Ops, Role
  <2> QED BY <2>1, BeginOK
<1>3. CASE BeginInvite(r)
  <2> PICK u \in User, email \in User, role \in {"admin", "member"} :
        Begin(r, [By("invite", u) EXCEPT !.email = email, !.role = role])
    BY <1>3 DEF BeginInvite
  <2> DEFINE asked == [By("invite", u) EXCEPT !.email = email, !.role = role]
  <2>1. asked \in Job /\ asked.role = role /\ asked.op = "invite" /\ asked.email = email
    BY DEF By, NoJob, Job, Ops, Role
  <2> QED BY <2>1, BeginOK
<1>4. CASE BeginAccept(r)
  <2> PICK u \in User, s \in Stored : Begin(r, [By("accept", u) EXCEPT !.slot = s])
    BY <1>4 DEF BeginAccept
  <2> DEFINE asked == [By("accept", u) EXCEPT !.slot = s]
  <2>1. asked \in Job /\ asked.role = "member" /\ asked.slot = s /\ asked.op # "invite"
    BY <1>0 DEF By, NoJob, Job, Ops, Role
  <2> QED BY <2>1, BeginOK
<1>5. CASE BeginRole(r)
  <2> PICK u \in User, s \in Stored, role \in {"admin", "member"} :
        Begin(r, [By("role", u) EXCEPT !.slot = s, !.role = role])
    BY <1>5 DEF BeginRole
  <2> DEFINE asked == [By("role", u) EXCEPT !.slot = s, !.role = role]
  <2>1. asked \in Job /\ asked.role = role /\ asked.slot = s /\ asked.op # "invite"
    BY <1>0 DEF By, NoJob, Job, Ops, Role
  <2> QED BY <2>1, BeginOK
<1>6. CASE BeginRemove(r)
  <2> PICK u \in User, s \in Stored, op \in {"remove", "revoke"} :
        Begin(r, [By(op, u) EXCEPT !.slot = s])
    BY <1>6 DEF BeginRemove
  <2> DEFINE asked == [By(op, u) EXCEPT !.slot = s]
  <2>1. asked \in Job /\ asked.role = "member" /\ asked.slot = s /\ asked.op # "invite"
    BY <1>0 DEF By, NoJob, Job, Ops, Role
  <2> QED BY <2>1, BeginOK
<1> QED
  BY <1>1, <1>2, <1>3, <1>4, <1>5, <1>6

-----------------------------------------------------------------------------
LEMMA CheckActorOK ==
    ASSUME Inv, NEW r \in Req, CheckActor(r)
    PROVE  Inv'
<1> PICK s \in Slot :
      /\ Entitled(r, s)
      /\ Go(r, IF job[r].op = "invite" THEN "lookup" ELSE "target",
            [tx[r] EXCEPT !.me = s, !.rank = members[s].role])
  BY DEF CheckActor
<1> DEFINE p == IF job[r].op = "invite" THEN "lookup" ELSE "target"
           x == [tx[r] EXCEPT !.me = s, !.rank = members[s].role]
<1>1. s \in Stored /\ members[s] \in Row
  BY DEF Entitled, Memberships, Inv, TypeOK, Stored
<1>2. job[r] \in Job /\ tx[r] \in Tx /\ ReqOK(r) /\ org # Absent
  BY <1>1, Typed DEF Inv, RowsOK
<1>3. x \in Tx /\ x.slot = tx[r].slot /\ x.base = tx[r].base /\ x.recipient = tx[r].recipient
  BY <1>1, <1>2 DEF Tx, Row
<1>4. job[r].op \in {"invite", "role", "remove", "revoke"} /\ pc[r] = "check"
  BY DEF CheckActor, ByMember
<1>5. TxOK(p, job[r], x)
  BY <1>2, <1>3, <1>4 DEF ReqOK, TxOK, Pending
<1>6. p \in Stages \ Pending /\ registered' \subseteq User
      /\ job' = [job EXCEPT ![r] = job[r]]
  BY DEF Stages, Pending, Inv, TypeOK, Go
<1> QED
  BY <1>2, <1>3, <1>5, <1>6, Quiet DEF Go

LEMMA LookupOK ==
    ASSUME Inv, NEW r \in Req, Lookup(r)
    PROVE  Inv'
<1> DEFINE c == IF job[r].email \in registered THEN job[r].email ELSE Absent
           x == [tx[r] EXCEPT !.recipient = c]
<1>1. job[r] \in Job /\ tx[r] \in Tx /\ ReqOK(r) /\ pc[r] = "lookup"
  BY Typed DEF Inv, Lookup
<1>2. job[r].op = "invite" /\ org # Absent
  BY <1>1 DEF ReqOK, TxOK
<1>3. c \in User \cup {Absent} /\ c \in {Absent, job[r].email}
  BY <1>1 DEF Inv, TypeOK, Job
<1>4. x \in Tx /\ x.slot = tx[r].slot /\ x.base = tx[r].base /\ x.recipient = c
  BY <1>1, <1>3 DEF Tx
<1>5. TxOK("target", job[r], x)
  BY <1>1, <1>2, <1>3, <1>4 DEF ReqOK, TxOK, Pending
<1>6. "target" \in Stages \ Pending /\ registered' \subseteq User
      /\ job' = [job EXCEPT ![r] = job[r]]
  BY DEF Stages, Pending, Inv, TypeOK, Go, Lookup
<1> QED
  BY <1>1, <1>4, <1>5, <1>6, Quiet DEF Go, Lookup

(* A request that has read the row it will change.                         *)
LEMMA LoadedOK ==
    ASSUME Inv, NEW r \in Req, NEW s \in Stored, NEW mem \in Row,
           Go(r, "flush", [tx[r] EXCEPT !.slot = s, !.base = members[s], !.mem = mem]),
           pc[r] # "idle", job[r].op # "create", mem.email = members[s].email,
           mem.user \in {Absent, mem.email},
           mem.role # "owner", mem.email # org,
           mem.status = "active" => \/ job[r].actor = mem.email
                                    \/ members[s].status = "active"
    PROVE  Inv'
<1> DEFINE x == [tx[r] EXCEPT !.slot = s, !.base = members[s], !.mem = mem]
<1>1. job[r] \in Job /\ tx[r] \in Tx /\ ReqOK(r)
      /\ s \in Slot /\ members[s] \in Row /\ members[s] # Absent
  BY Typed DEF Inv, TypeOK, Stored
<1>2. x \in Tx /\ x.slot = s /\ x.base = members[s] /\ x.mem = mem
  BY <1>1 DEF Tx
<1>3. org # Absent
  BY DEF Inv, RowsOK
<1>4. PendingOK(job[r], x)
  BY <1>1, <1>2, <1>3 DEF PendingOK
<1>5. TxOK("flush", job[r], x)
  BY <1>1, <1>4 DEF ReqOK, TxOK, Pending
<1>6. ASSUME NEW q \in Req \ {r}
      PROVE  /\ Apart("flush", job[r], x, pc[q], job[q], tx[q])
             /\ Apart(pc[q], job[q], tx[q], "flush", job[r], x)
  <2>1. pc[q] \in Pending /\ tx[q].base = Absent => members[tx[q].slot] = Absent
    BY DEF Inv, ReqOK, TxOK, PendingOK
  <2> QED
    BY <2>1, <1>1, <1>2 DEF Apart
<1>7. "flush" \in Stages /\ registered' \subseteq User
      /\ job' = [job EXCEPT ![r] = job[r]]
  BY DEF Stages, Inv, TypeOK, Go
<1> HIDE DEF x
<1>8. pc' = [pc EXCEPT ![r] = "flush"] /\ tx' = [tx EXCEPT ![r] = x]
      /\ members' = members /\ org' = org
  BY DEF Go, x
<1> QED
  BY <1>1, <1>2, <1>5, <1>6, <1>7, <1>8, Local

(* A request that will insert a row under a fresh id.                      *)
LEMMA InsertingOK ==
    ASSUME Inv, NEW r \in Req, NEW s \in Fresh, NEW mem \in Row,
           Go(r, "flush", [tx[r] EXCEPT !.slot = s, !.mem = mem]),
           pc[r] \notin Pending \cup {"idle"}, mem.user \in {Absent, mem.email},
           mem.status = "active" => job[r].actor = mem.email,
           job[r].op = "create" => /\ mem.user = job[r].actor /\ mem.email = job[r].actor
                                   /\ mem.role = "owner" /\ mem.status = "active",
           job[r].op # "create" => org # Absent /\ mem.role # "owner" /\ mem.email # org
    PROVE  Inv'
<1> DEFINE x == [tx[r] EXCEPT !.slot = s, !.mem = mem]
<1>1. job[r] \in Job /\ tx[r] \in Tx /\ ReqOK(r) /\ tx[r].base = Absent
      /\ s \in Slot /\ members[s] = Absent
  BY Typed DEF Inv, ReqOK, TxOK, Fresh, Stored
<1>2. x \in Tx /\ x.slot = s /\ x.base = Absent /\ x.mem = mem
  BY <1>1 DEF Tx
<1>4. PendingOK(job[r], x)
  BY <1>1, <1>2 DEF PendingOK
<1>5. TxOK("flush", job[r], x)
  BY <1>1, <1>4 DEF ReqOK, TxOK, Pending
<1>6. ASSUME NEW q \in Req \ {r}
      PROVE  /\ Apart("flush", job[r], x, pc[q], job[q], tx[q])
             /\ Apart(pc[q], job[q], tx[q], "flush", job[r], x)
  BY <1>2 DEF Apart, Fresh
<1>7. "flush" \in Stages /\ registered' \subseteq User
      /\ job' = [job EXCEPT ![r] = job[r]]
  BY DEF Stages, Inv, TypeOK, Go
<1> HIDE DEF x
<1>8. pc' = [pc EXCEPT ![r] = "flush"] /\ tx' = [tx EXCEPT ![r] = x]
      /\ members' = members /\ org' = org
  BY DEF Go, x
<1> QED
  BY <1>1, <1>2, <1>5, <1>6, <1>7, <1>8, Local

LEMMA ReadTargetOK ==
    ASSUME Inv, NEW r \in Req, ReadTarget(r)
    PROVE  Inv'
<1> PICK s \in Target(r) :
      /\ Allowed(r, s)
      /\ Go(r, "flush", [tx[r] EXCEPT !.slot = s, !.base = members[s],
                                      !.mem = Change(r, members[s])])
  BY DEF ReadTarget
<1>1. job[r] \in Job /\ ReqOK(r) /\ AtTarget(r)
  BY Typed DEF Inv, ReadTarget
<1>2. job[r].op \in {"accept", "role", "remove", "revoke", "leave"}
  BY <1>1 DEF AtTarget, ReqOK, TxOK
<1>3. s \in Stored
  BY <1>1, <1>2 DEF Target, Memberships, ReqOK, TxOK
<1> DEFINE row == members[s]
           mem == Change(r, row)
<1>4. row \in Row /\ row # Absent /\ RowsOK
  BY <1>3 DEF Inv, TypeOK, Stored
<1>5. /\ row.user \in {Absent, row.email}
      /\ row.role = "owner" <=> row.email = org
      /\ row.email = org => row.user = org /\ row.status = "active"
  BY <1>3, <1>4 DEF RowsOK
<1>6. row.role # "owner" /\ row.email # org
  BY <1>2, <1>4, <1>5 DEF Allowed, Manages, IsOwner
<1>7. /\ mem \in Row /\ mem.email = row.email
      /\ mem.user \in {Absent, mem.email}
      /\ mem.role # "owner"
      /\ mem.status = "active" => job[r].actor = mem.email \/ row.status = "active"
  <2>1. CASE job[r].op = "accept"
    <3>1. mem = [row EXCEPT !.user = job[r].actor, !.status = "active"]
      BY <2>1 DEF Change
    <3>2. row.email = job[r].actor /\ job[r].actor \in User \cup {Absent}
      BY <2>1, <1>1 DEF Allowed, Job
    <3> QED
      BY <3>1, <3>2, <1>4, <1>6 DEF Row
  <2>2. CASE job[r].op = "role"
    <3>1. mem = [row EXCEPT !.role = job[r].role]
      BY <2>2 DEF Change
    <3>2. job[r].role \in Role /\ job[r].role # "owner"
      BY <1>1 DEF Job, ReqOK, TxOK
    <3> QED
      BY <3>1, <3>2, <1>4, <1>5 DEF Row
  <2>3. CASE job[r].op \in {"remove", "revoke", "leave"}
    <3>1. mem = [row EXCEPT !.status = "revoked"]
      BY <2>3 DEF Change
    <3> QED
      BY <3>1, <1>4, <1>5, <1>6 DEF Row
  <2> QED
    BY <1>2, <2>1, <2>2, <2>3
<1> HIDE DEF mem, row
<1>8. Go(r, "flush", [tx[r] EXCEPT !.slot = s, !.base = members[s], !.mem = mem])
  BY DEF mem, row
<1>9. job[r].op # "create" /\ members[s] = row /\ pc[r] # "idle"
  BY <1>1, <1>2 DEF row, AtTarget
<1> QED
  BY <1>3, <1>6, <1>7, <1>8, <1>9, LoadedOK

LEMMA ReadOrgOK ==
    ASSUME Inv, NEW r \in Req, ReadOrg(r)
    PROVE  Inv'
<1> PICK s \in Fresh : Go(r, "flush", [tx[r] EXCEPT !.slot = s, !.mem = FirstRow(r)])
  BY DEF ReadOrg
<1>1. pc[r] = "check" /\ job[r].op = "create" /\ job[r].actor \in User
  BY DEF ReadOrg, Inv, ReqOK, TxOK
<1> DEFINE mem == FirstRow(r)
<1>2. /\ mem \in Row
      /\ mem.user = job[r].actor /\ mem.email = job[r].actor
      /\ mem.role = "owner" /\ mem.status = "active"
  BY <1>1 DEF FirstRow, Row, Role
<1> HIDE DEF mem
<1>3. Go(r, "flush", [tx[r] EXCEPT !.slot = s, !.mem = mem]) /\ pc[r] \notin Pending \cup {"idle"}
  BY <1>1 DEF mem, Pending
<1> QED
  BY <1>1, <1>2, <1>3, InsertingOK

(* The address is not the owner's: the owner's row is not revoked, so it   *)
(* would have refused the invitation.                                      *)
LEMMA ReadInvitedOK ==
    ASSUME Inv, NEW r \in Req, ReadInvited(r)
    PROVE  Inv'
<1> DEFINE mem == Invitation(r)
<1>1. /\ pc[r] = "target" /\ job[r].op = "invite" /\ job[r].email \in User
      /\ org # Absent /\ tx[r].recipient \in {Absent, job[r].email}
      /\ job[r].role \in Role /\ job[r].role # "owner"
  <2>1. ReqOK(r) /\ job[r] \in Job /\ pc[r] = "target" /\ job[r].op = "invite"
    BY Typed DEF ReadInvited, Inv
  <2> QED
    BY <2>1 DEF ReqOK, TxOK, Job
<1>2. /\ mem \in Row /\ mem.email = job[r].email /\ mem.user \in {Absent, mem.email}
      /\ mem.role # "owner" /\ mem.status = "invited"
  BY <1>1 DEF Invitation, Row
<1>3. PICK s \in Slot :
        \/ s \in Revived(r) /\ Go(r, "flush", [tx[r] EXCEPT !.slot = s, !.base = members[s],
                                                            !.mem = mem])
        \/ /\ Matches(r) = {} /\ s \in Fresh
           /\ Go(r, "flush", [tx[r] EXCEPT !.slot = s, !.mem = mem])
  BY DEF ReadInvited, Revived, Matches, Fresh, Stored
<1> HIDE DEF mem
<1>4. CASE s \in Revived(r)
  <2>1. s \in Stored /\ members[s].status = "revoked"
        /\ (members[s].email = job[r].email \/ members[s].user = job[r].email)
    BY <1>1, <1>4, AbsentIsNoValue DEF Revived, Matches
  <2>2. /\ members[s].user \in {Absent, members[s].email}
        /\ members[s].email # org
    BY <2>1 DEF Inv, RowsOK
  <2>3. members[s].email = job[r].email
    BY <1>1, <2>1, <2>2, AbsentIsNoValue
  <2>4. Go(r, "flush", [tx[r] EXCEPT !.slot = s, !.base = members[s], !.mem = mem])
    BY <1>3, <1>4 DEF Revived
  <2> QED
    BY <1>1, <1>2, <2>1, <2>2, <2>3, <2>4, LoadedOK
<1>5. CASE s \notin Revived(r)
  <2>1. Matches(r) = {} /\ s \in Fresh /\ Go(r, "flush", [tx[r] EXCEPT !.slot = s, !.mem = mem])
    BY <1>3, <1>5
  <2>2. mem.email # org
    BY <1>1, <1>2, <2>1 DEF Inv, RowsOK, Matches
  <2>3. pc[r] \notin Pending \cup {"idle"}
    BY <1>1 DEF Pending
  <2> QED
    BY <1>1, <1>2, <2>1, <2>2, <2>3, InsertingOK
<1> QED
  BY <1>4, <1>5

-----------------------------------------------------------------------------
LEMMA FlushOK ==
    ASSUME Inv, NEW r \in Req, Flush(r)
    PROVE  Inv'
<1>1. job[r] \in Job /\ tx[r] \in Tx /\ ReqOK(r) /\ pc[r] = "flush"
  BY Typed DEF Inv, Flush
<1>2. NewUser(r) = Written(tx[r])
  BY DEF NewUser, Written
<1>3. FlushedOK(job[r], tx[r])
  BY <1>2 DEF FlushedOK, Flush, Broken
<1>4. TxOK("commit", job[r], tx[r])
  BY <1>1, <1>3 DEF ReqOK, TxOK, Pending
<1>5. ASSUME NEW q \in Req \ {r}
      PROVE  /\ Apart("commit", job[r], tx[r], pc[q], job[q], tx[q])
             /\ Apart(pc[q], job[q], tx[q], "commit", job[r], tx[r])
  <2>1. pc[q] = "commit" => ~Collides(q, r)
    BY DEF Flush, Waits, Flushed
  <2>2. ~Collides(q, r) => /\ tx[q].slot # tx[r].slot
                           /\ Written(tx[r]) \cap Written(tx[q]) = {}
                           /\ job[q].op # "create" \/ job[r].op # "create"
    BY <1>2 DEF Collides, Written
  <2>3. /\ Apart("flush", job[r], tx[r], pc[q], job[q], tx[q])
        /\ Apart(pc[q], job[q], tx[q], "flush", job[r], tx[r])
    BY <1>1 DEF Inv, PairOK
  <2> QED
    BY <2>1, <2>2, <2>3 DEF Apart, Pending
<1>6. /\ "commit" \in Stages /\ registered' \subseteq User
      /\ job' = [job EXCEPT ![r] = job[r]]
      /\ pc' = [pc EXCEPT ![r] = "commit"] /\ tx' = [tx EXCEPT ![r] = tx[r]]
      /\ members' = members /\ org' = org
  BY DEF Stages, Inv, TypeOK, Go, Flush
<1> QED
  BY <1>1, <1>4, <1>5, <1>6, Local

(* What a commit makes of the row: of the new row's columns, each is the   *)
(* request's or the stored one.                                            *)
LEMMA MergedOK ==
    ASSUME Inv, NEW r \in Req, Commit(r)
    PROVE  /\ tx[r].slot \in Slot /\ Merged(r) \in Row
           /\ Merged(r).email = tx[r].mem.email
           /\ Merged(r).user \in {Absent, tx[r].mem.email}
           /\ \/ Merged(r).user = Absent
              \/ Merged(r).user \in Written(tx[r])
              \/ tx[r].slot \in Stored /\ Merged(r).user = members[tx[r].slot].user
           /\ tx[r].slot \in Stored => members[tx[r].slot].email = tx[r].mem.email
           /\ IF job[r].op = "create"
              THEN Merged(r) = tx[r].mem /\ Merged(r).role = "owner"
              ELSE Merged(r).role # "owner"
           /\ Merged(r).status = "active" =>
                \/ job[r].actor = Merged(r).email
                \/ tx[r].slot \in Stored /\ members[tx[r].slot].status = "active"
<1> DEFINE x == tx[r]
           old == members[x.slot]
<1>1. PendingOK(job[r], x)
  BY DEF Commit, Flushed, Inv, ReqOK, TxOK, Pending
<1>2. x \in Tx /\ x.slot \in Slot /\ x.mem \in Row
  BY <1>1, Typed DEF PendingOK
<1>3. CASE x.base = Absent
  <2>1. Merged(r) = x.mem /\ x.slot \notin Stored
    BY <1>1, <1>3 DEF Merged, PendingOK, Stored
  <2>2. Written(x) = {x.mem.user} \ {Absent}
    BY <1>3 DEF Written
  <2> QED
    BY <1>1, <1>2, <1>3, <2>1, <2>2 DEF PendingOK
<1>4. CASE x.base # Absent
  <2>1. /\ job[r].op # "create" /\ x.slot \in Stored
        /\ x.base.email = x.mem.email /\ old.email = x.mem.email
        /\ x.mem.user \in {Absent, x.mem.email}
        /\ x.mem.role # "owner" /\ x.mem.email # org
        /\ x.mem.status = "active" => \/ job[r].actor = x.mem.email
                                      \/ x.base.status = "active"
    BY <1>1, <1>2, <1>4 DEF PendingOK, Stored
  <2>2. old \in Row /\ x.base \in Row
    BY <1>2, <1>4, <2>1 DEF Inv, TypeOK, Stored, Tx
  <2>3. old.user \in {Absent, old.email} /\ old.role # "owner"
    BY <2>1 DEF Inv, RowsOK
  <2>4. Merged(r) = [user   |-> Column(x.base.user, x.mem.user, old.user),
                     email  |-> Column(x.base.email, x.mem.email, old.email),
                     role   |-> Column(x.base.role, x.mem.role, old.role),
                     status |-> Column(x.base.status, x.mem.status, old.status)]
    BY <1>4 DEF Merged
  <2>5. x.base.user # x.mem.user => Written(x) = {x.mem.user} \ {Absent}
    BY DEF Written
  <2> HIDE DEF x, old
  <2>6. /\ Merged(r) \in Row /\ Merged(r).email = old.email
        /\ Merged(r).user = IF x.mem.user = x.base.user THEN old.user ELSE x.mem.user
        /\ Merged(r).role \in {x.mem.role, old.role}
        /\ Merged(r).status = IF x.mem.status = x.base.status THEN old.status ELSE x.mem.status
    BY <1>2, <2>1, <2>2, <2>4 DEF Column, Row
  <2>7. /\ x.slot \in Slot /\ Merged(r) \in Row
        /\ Merged(r).email = x.mem.email
        /\ Merged(r).user \in {Absent, x.mem.email}
        /\ \/ Merged(r).user = Absent
           \/ Merged(r).user \in Written(x)
           \/ x.slot \in Stored /\ Merged(r).user = old.user
        /\ Merged(r).role # "owner" /\ job[r].op # "create"
        /\ Merged(r).status = "active" =>
                \/ job[r].actor = Merged(r).email
                \/ x.slot \in Stored /\ old.status = "active"
    BY <1>2, <2>1, <2>3, <2>5, <2>6
  <2> QED
    BY <2>1, <2>7 DEF x, old
<1> QED
  BY <1>3, <1>4

(* A commit is the one step that changes rows: the new row is in order,    *)
(* and what the others may still write stays in order.                     *)
LEMMA CommitOK ==
    ASSUME Inv, NEW r \in Req, Commit(r)
    PROVE  Inv'
<1> DEFINE s0 == tx[r].slot
           new == Merged(r)
           old == members[s0]
           person == tx[r].mem.email
<1>1. /\ s0 \in Slot /\ new \in Row
      /\ new.email = person /\ new.user \in {Absent, person}
      /\ \/ new.user = Absent \/ new.user \in Written(tx[r])
         \/ s0 \in Stored /\ new.user = old.user
      /\ s0 \in Stored => old.email = person
      /\ job[r].op # "create" => new.role # "owner"
  BY MergedOK
<1>2. /\ PendingOK(job[r], tx[r]) /\ FlushedOK(job[r], tx[r])
      /\ pc[r] = "commit" /\ TypeOK /\ job[r] \in Job
  BY Typed DEF Commit, Flushed, Inv, ReqOK, TxOK, Pending
<1>3. job[r].op = "create" =>
        /\ org = Absent /\ Stored = {} /\ job[r].actor \in User
        /\ person = job[r].actor /\ new.user = person
        /\ new.role = "owner" /\ new.status = "active"
  <2>1. job[r].op = "create" => new = tx[r].mem
    BY MergedOK
  <2>2. job[r].actor \in User
    BY <1>2 DEF Inv, ReqOK, TxOK
  <2> QED
    BY <2>1, <2>2, <1>2 DEF PendingOK, FlushedOK, Inv, RowsOK
<1>4. job[r].op # "create" => org # Absent /\ person # org
  BY <1>2 DEF PendingOK
<1>5. /\ members' = [members EXCEPT ![s0] = new]
      /\ org' = IF job[r].op = "create" THEN job[r].actor ELSE org
      /\ pc' = [pc EXCEPT ![r] = "idle"] /\ job' = [job EXCEPT ![r] = NoJob]
      /\ tx' = [tx EXCEPT ![r] = NoTx] /\ registered' = registered
  BY DEF Commit, End
<1>6. s0 \notin Stored => \A q \in Req : pc[q] \in Pending /\ tx[q].slot = s0 => q = r
  <2>1. s0 \notin Stored => tx[r].base = Absent
    BY <1>1, <1>2 DEF PendingOK, Stored
  <2> QED
    BY <1>2, <2>1 DEF Inv, PairOK, Apart, Pending
<1>7. new # Absent
  BY <1>1, AbsentIsNoValue
<1>8. \A q \in Req : q # r /\ pc[q] = "commit" =>
        /\ tx[q].slot # s0 /\ Written(tx[r]) \cap Written(tx[q]) = {}
        /\ job[r].op # "create" \/ job[q].op # "create"
  BY <1>2 DEF Inv, PairOK, Apart
<1> HIDE DEF new, person, s0, old
<1>9. Stored' = Stored \cup {s0} /\ members'[s0] = new
      /\ \A s \in Slot \ {s0} : members'[s] = members[s]
  BY <1>1, <1>2, <1>5, <1>7 DEF Stored, TypeOK
<1>10. TypeOK'
  BY <1>1, <1>2, <1>3, <1>5, Nulls DEF TypeOK
<1>11. RowsOK'
  <2>1. Stored \subseteq Slot /\ RowsOK
    BY DEF Stored, Inv
  <2>2. ASSUME NEW s \in Stored', s # s0
        PROVE  s \in Stored /\ members'[s] = members[s]
    BY <1>9, <2>1, <2>2
  <2>3. org' # Absent /\ \E s \in Stored' : members'[s].email = org'
    <3>1. CASE job[r].op = "create"
      BY <3>1, <1>1, <1>3, <1>5, <1>9, AbsentIsNoValue
    <3>2. CASE job[r].op # "create"
      <4>1. PICK s \in Stored : members[s].email = org
        BY <3>2, <1>4, <2>1 DEF RowsOK
      <4>2. s # s0
        BY <3>2, <4>1, <1>1, <1>4 DEF old
      <4> QED
        BY <3>2, <4>1, <4>2, <1>4, <1>5, <1>9, <2>1
    <3> QED
      BY <3>1, <3>2
  <2>4. ASSUME NEW s \in Stored'
        PROVE  /\ members'[s].user \in {Absent, members'[s].email}
               /\ members'[s].role = "owner" <=> members'[s].email = org'
               /\ members'[s].email = org' => /\ members'[s].user = org'
                                              /\ members'[s].status = "active"
    <3>1. CASE s = s0
      BY <3>1, <1>1, <1>3, <1>4, <1>5, <1>9
    <3>2. CASE s # s0
      <4>1. s \in Stored /\ members'[s] = members[s] /\ org' = org
        BY <3>2, <2>2, <1>3, <1>5
      <4> QED
        BY <4>1, <2>1 DEF RowsOK
    <3> QED
      BY <3>1, <3>2
  <2>5. \A t \in Stored \ {s0} : new.user # Absent => members[t].user # new.user
    <3>1. \A t \in Stored \ {s0} : members[t].user \notin Written(tx[r])
      BY <1>2 DEF FlushedOK, s0
    <3>2. s0 \in Stored /\ new.user = old.user /\ new.user # Absent
            => \A t \in Stored \ {s0} : members[t].user # new.user
      BY <2>1 DEF RowsOK, old
    <3> QED
      BY <3>1, <3>2, <1>1
  <2>6. ASSUME NEW s \in Stored', NEW t \in Stored', s # t, members'[s].user # Absent
        PROVE  members'[t].user # members'[s].user
    <3>1. CASE s = s0
      BY <3>1, <2>6, <2>2, <2>5, <1>9
    <3>2. CASE t = s0
      <4>1. s \in Stored \ {s0} /\ members'[s] = members[s] /\ members'[t] = new
        BY <3>2, <2>6, <2>2, <1>9
      <4> QED
        BY <4>1, <2>5, <2>6
    <3>3. CASE s # s0 /\ t # s0
      BY <3>3, <2>6, <2>1, <2>2 DEF RowsOK
    <3> QED
      BY <3>1, <3>2, <3>3
  <2> QED
    BY <2>3, <2>4, <2>6 DEF RowsOK
<1>12. ASSUME NEW q \in Req PROVE ReqOK(q)'
  <2>1. CASE q = r
    <3>1. pc'[q] = "idle" /\ job'[q] = NoJob /\ tx'[q] = NoTx
      BY <2>1, <1>2, <1>5 DEF TypeOK
    <3> QED
      BY <3>1 DEF ReqOK, TxOK, NoJob, NoTx, Pending
  <2>2. CASE q # r
    <3>0. PICK p, j, x : p = pc[q] /\ j = job[q] /\ x = tx[q]
      OBVIOUS
    <3>1. pc'[q] = p /\ job'[q] = j /\ tx'[q] = x /\ TxOK(p, j, x)
      BY <3>0, <2>2, <1>2, <1>5 DEF TypeOK, Inv, ReqOK
    <3>2. org # Absent => org' # Absent
      BY <1>3, <1>5
    <3>3. ASSUME PendingOK(j, x), p \in Pending PROVE PendingOK(j, x)'
      <4>1. s0 \notin Stored => x.slot # s0
        BY <3>0, <1>6, <2>2, <3>3
      <4>2. x.base = Absent => members'[x.slot] = Absent
        <5>1. x.base = Absent => x.slot # s0
          BY <3>0, <2>2, <3>3, <1>2 DEF Inv, PairOK, Apart, s0
        <5> QED
          BY <5>1, <3>3, <1>9 DEF PendingOK
      <4>3. x.base # Absent => /\ members'[x.slot] # Absent
                              /\ members'[x.slot].email = x.mem.email
        <5>1. CASE x.slot = s0
          BY <5>1, <4>1, <3>3, <1>1, <1>7, <1>9 DEF PendingOK, old
        <5>2. CASE x.slot # s0
          BY <5>2, <3>3, <1>9 DEF PendingOK
        <5> QED
          BY <5>1, <5>2
      <4>4. j.op # "create" => org' # Absent /\ x.mem.email # org'
        BY <3>3, <1>3, <1>5 DEF PendingOK
      <4> QED
        BY <3>3, <4>2, <4>3, <4>4 DEF PendingOK
    <3>4. ASSUME FlushedOK(j, x), p = "commit" PROVE FlushedOK(j, x)'
      <4>1. x.slot # s0 /\ Written(tx[r]) \cap Written(x) = {}
            /\ (job[r].op # "create" \/ j.op # "create")
        BY <3>0, <2>2, <3>4, <1>8
      <4>2. new.user \notin Written(x)
        <5>1. Absent \notin Written(x)
          BY DEF Written
        <5>2. s0 \in Stored => old.user \notin Written(x)
          BY <3>4, <4>1 DEF FlushedOK, old
        <5> QED
          BY <5>1, <5>2, <4>1, <1>1
      <4>3. \A s \in Stored' \ {x.slot} : members'[s].user \notin Written(x)
        <5>1. Stored \subseteq Slot
          BY DEF Stored
        <5> QED
          BY <5>1, <3>4, <4>2, <1>9 DEF FlushedOK
      <4>4. j.op = "create" => org' = Absent
        BY <3>4, <4>1, <1>5 DEF FlushedOK
      <4> QED
        BY <4>3, <4>4 DEF FlushedOK, Written
    <3>5. TxOK(p, j, x)'
      BY <3>1, <3>2, <3>3, <3>4, <1>9 DEF TxOK, Pending
    <3> QED
      BY <3>1, <3>5 DEF ReqOK
  <2> QED
    BY <2>1, <2>2
<1>13. ASSUME NEW q \in Req, NEW o \in Req, q # o PROVE PairOK(q, o)'
  <2>1. \A i \in Req : /\ pc'[i] = IF i = r THEN "idle" ELSE pc[i]
                       /\ job'[i] = IF i = r THEN NoJob ELSE job[i]
                       /\ tx'[i] = IF i = r THEN NoTx ELSE tx[i]
    BY <1>2, <1>5 DEF TypeOK
  <2>2. NoTx.slot = Absent
    BY DEF NoTx
  <2>3. pc[q] \in Pending => tx[q].slot \in Slot
    BY DEF Inv, ReqOK, TxOK, PendingOK
  <2>4. Apart(pc[q], job[q], tx[q], pc[o], job[o], tx[o])
    BY <1>13 DEF Inv, PairOK
  <2>5. Apart(pc'[q], job'[q], tx'[q], pc'[o], job'[o], tx'[o])
    <3>1. CASE q = r
      BY <3>1, <1>13, <2>1 DEF Apart, Pending
    <3>2. CASE o = r
      BY <3>2, <1>13, <2>1, <2>2, <2>3, AbsentIsNoValue DEF Apart, Pending
    <3>3. CASE q # r /\ o # r
      BY <3>3, <2>1, <2>4
    <3> QED
      BY <3>1, <3>2, <3>3
  <2> QED
    BY <2>5 DEF PairOK
<1> QED
  BY <1>10, <1>11, <1>12, <1>13 DEF Inv

-----------------------------------------------------------------------------
LEMMA InitOK == Init => Inv
<1> SUFFICES ASSUME Init PROVE Inv
  OBVIOUS
<1>1. TypeOK /\ Stored = {}
  BY Nulls DEF Init, TypeOK, Stored
<1>2. RowsOK
  BY <1>1 DEF Init, RowsOK
<1>3. \A r \in Req : pc[r] = "idle" /\ job[r] = NoJob /\ tx[r] = NoTx
  BY DEF Init
<1>4. TxOK("idle", NoJob, NoTx)
  BY DEF TxOK, NoJob, NoTx, Pending
<1>5. \A q, r \in Req : PairOK(q, r)
  BY <1>3 DEF PairOK, Apart, Pending
<1> QED
  BY <1>1, <1>2, <1>3, <1>4, <1>5 DEF Inv, ReqOK

(* Nothing but registered changes.                                         *)
LEMMA StillOK ==
    ASSUME Inv, registered' \subseteq User, UNCHANGED <<org, members, pc, job, tx>>
    PROVE  Inv'
<1>1. TypeOK' /\ RowsOK'
  BY DEF Inv, TypeOK, RowsOK, Stored
<1>2. ASSUME NEW r \in Req PROVE ReqOK(r)'
  BY DEF Inv, ReqOK, TxOK, PendingOK, FlushedOK, Stored
<1>3. ASSUME NEW q \in Req, NEW r \in Req, q # r PROVE PairOK(q, r)'
  BY <1>3 DEF Inv, PairOK, Apart
<1> QED
  BY <1>1, <1>2, <1>3 DEF Inv

LEMMA StepOK == Inv /\ [Next]_vars => Inv'
<1> SUFFICES ASSUME Inv, [Next]_vars PROVE Inv'
  OBVIOUS
<1>1. CASE UNCHANGED vars
  BY <1>1, StillOK DEF vars, Inv, TypeOK
<1>2. ASSUME NEW u \in User, Register(u) PROVE Inv'
  BY <1>2, StillOK DEF Register, Inv, TypeOK
<1>3. ASSUME NEW r \in Req,
             \/ BeginCreate(r) \/ BeginInvite(r) \/ BeginAccept(r)
             \/ BeginRole(r) \/ BeginRemove(r) \/ BeginLeave(r)
      PROVE  Inv'
  BY <1>3, BeginsOK
<1>4. ASSUME NEW r \in Req, Proceed(r) PROVE Inv'
  <2>1. CASE CheckActor(r)      BY <2>1, CheckActorOK
  <2>2. CASE ReadOrg(r)         BY <2>2, ReadOrgOK
  <2>3. CASE ReadTarget(r)      BY <2>3, ReadTargetOK
  <2>4. CASE Lookup(r)          BY <2>4, LookupOK
  <2>5. CASE ReadInvited(r)     BY <2>5, ReadInvitedOK
  <2>6. CASE Refuse(r)          BY <2>6, EndOK DEF Refuse
  <2>7. CASE Flush(r)           BY <2>7, FlushOK
  <2>8. CASE StatementError(r)  BY <2>8, EndOK DEF StatementError
  <2>9. CASE Commit(r)          BY <2>9, CommitOK
  <2> QED
    BY <1>4, <2>1, <2>2, <2>3, <2>4, <2>5, <2>6, <2>7, <2>8, <2>9 DEF Proceed
<1>5. ASSUME NEW r \in Req, Abort(r) PROVE Inv'
  BY <1>5, EndOK DEF Abort
<1> QED
  BY <1>1, <1>2, <1>3, <1>4, <1>5 DEF Next

LEMMA Invariance == Spec => []Inv
<1> QED
  BY InitOK, StepOK, PTL DEF Spec

-----------------------------------------------------------------------------
(* Type correctness.                                                       *)
THEOREM TypeCorrect == Spec => []TypeOK
<1>1. Inv => TypeOK
  BY DEF Inv
<1> QED
  BY <1>1, Invariance, PTL

(* The organisation keeps its owner, for any number of overlapping         *)
(* requests: no role change, removal or revocation, and no second create,  *)
(* takes the owner's membership away or adds another owner.                *)
THEOREM TheOwnerStays == Spec => []OwnerStays
<1>1. Inv => OwnerStays
  <2> SUFFICES ASSUME Inv PROVE OwnerStays
    OBVIOUS
  <2>1. RowsOK
    BY DEF Inv
  <2>2. ASSUME NEW s \in Stored PROVE members[s].user = org <=> members[s].email = org
    BY <2>1 DEF RowsOK
  <2> QED
    BY <2>1, <2>2 DEF RowsOK, OwnerStays
<1> QED
  BY <1>1, Invariance, PTL

(* A membership is of the person it was addressed to, and of one person    *)
(* there is at most one: the unique key keeps overlapping invitations and  *)
(* acceptances apart.                                                      *)
THEOREM MembershipsArePersonal == Spec => []MembersAreThemselves
<1>1. Inv => MembersAreThemselves
  BY DEF Inv, RowsOK, MembersAreThemselves
<1> QED
  BY <1>1, Invariance, PTL

(* Only a person's own accept, or the creation of the organisation, makes  *)
(* the person an active member, whatever an UPDATE of selected columns     *)
(* overwrites.                                                             *)
THEOREM NobodyIsMadeAMember == Spec => JoiningIsOnesOwn
<1> DEFINE Own == \A s \in Slot : IsActive(members'[s]) /\ ~IsActive(members[s]) =>
                    \E r \in Req : Commit(r) /\ job[r].actor = members'[s].email
<1>1. ASSUME Inv, [Next]_vars PROVE [Own]_vars
  <2>1. CASE \E r \in Req : Commit(r)
    <3> PICK r \in Req : Commit(r)
      BY <2>1
    <3> SUFFICES ASSUME NEW s \in Slot, IsActive(members'[s]), ~IsActive(members[s])
                 PROVE  Commit(r) /\ job[r].actor = members'[s].email
      OBVIOUS
    <3>1. members' = [members EXCEPT ![tx[r].slot] = Merged(r)]
      BY DEF Commit
    <3>2. s = tx[r].slot /\ members'[s] = Merged(r)
      BY <1>1, <3>1 DEF Inv, TypeOK
    <3>3. ~(tx[r].slot \in Stored /\ members[tx[r].slot].status = "active")
      BY <3>2 DEF IsActive, Stored
    <3>4. Merged(r).status = "active"
      BY <3>2 DEF IsActive
    <3> QED
      BY <1>1, <3>2, <3>3, <3>4, MergedOK
  <2>2. CASE ~\E r \in Req : Commit(r)
    <3>1. members' = members
      BY <1>1, <2>2 DEF Next, vars, Register, BeginCreate, BeginInvite, BeginAccept,
         BeginRole, BeginRemove, BeginLeave, Begin, Proceed, CheckActor, ReadOrg,
         ReadTarget, Lookup, ReadInvited, Refuse, Flush, StatementError, Abort, Go
    <3> QED
      BY <3>1
  <2> QED
    BY <2>1, <2>2
<1> QED
  BY <1>1, Invariance, PTL DEF Spec, JoiningIsOnesOwn

-----------------------------------------------------------------------------
(* Promises that other requests can break, and only by a commit on a row   *)
(* that the request has read and not yet written.                          *)

(* A step of one request that stores nothing moves that request only.      *)
LEMMA Moves ==
    ASSUME Inv, NEW r \in Req, ~Commit(r),
           \/ BeginCreate(r) \/ BeginInvite(r) \/ BeginAccept(r)
           \/ BeginRole(r) \/ BeginRemove(r) \/ BeginLeave(r)
           \/ Proceed(r) \/ Abort(r)
    PROVE  /\ UNCHANGED <<org, members>>
           /\ \A q \in Req \ {r} : /\ pc'[q] = pc[q] /\ job'[q] = job[q]
                                   /\ tx'[q] = tx[q]
           /\ \/ pc'[r] \in {"idle", "check"}
              \/ /\ job'[r] = job[r]
                 /\ \/ CheckActor(r) \/ ReadOrg(r) \/ ReadTarget(r) \/ Lookup(r)
                    \/ ReadInvited(r) \/ Flush(r)
<1>0. /\ pc \in [Req -> Stages] /\ job \in [Req -> Job] /\ tx \in [Req -> Tx]
  BY DEF Inv, TypeOK, Stages
<1>1. CASE \/ BeginCreate(r) \/ BeginInvite(r) \/ BeginAccept(r)
           \/ BeginRole(r) \/ BeginRemove(r) \/ BeginLeave(r)
  <2>1. /\ UNCHANGED <<org, members, tx>> /\ pc' = [pc EXCEPT ![r] = "check"]
        /\ \E asked : job' = [job EXCEPT ![r] = asked]
    BY <1>1 DEF BeginCreate, BeginInvite, BeginAccept, BeginRole, BeginRemove,
                BeginLeave, Begin
  <2> QED BY <1>0, <2>1
<1>2. CASE Refuse(r) \/ StatementError(r) \/ Abort(r)
  BY <1>0, <1>2 DEF Refuse, StatementError, Abort, End
<1>3. CASE \/ CheckActor(r) \/ ReadOrg(r) \/ ReadTarget(r) \/ Lookup(r)
           \/ ReadInvited(r) \/ Flush(r)
  <2>1. \E p, x : Go(r, p, x)
    BY <1>3 DEF CheckActor, ReadOrg, ReadTarget, Lookup, ReadInvited, Flush
  <2> QED BY <1>0, <1>3, <2>1 DEF Go
<1> QED BY <1>1, <1>2, <1>3 DEF Proceed

LEMMA Cases ==
    ASSUME [Next]_vars
    PROVE  \/ UNCHANGED <<org, members, pc, job, tx>>
           \/ \E r \in Req : Commit(r)
           \/ \E r \in Req : /\ ~Commit(r)
                             /\ \/ BeginCreate(r) \/ BeginInvite(r) \/ BeginAccept(r)
                                \/ BeginRole(r) \/ BeginRemove(r) \/ BeginLeave(r)
                                \/ Proceed(r) \/ Abort(r)
BY DEF Next, Register, vars

(* What a commit does to the state.                                        *)
LEMMA Commits ==
    ASSUME Inv, NEW q \in Req, Commit(q)
    PROVE  /\ pc[q] = "commit" /\ pc'[q] = "idle" /\ tx[q].slot \in Slot
           /\ members'[tx[q].slot] = Merged(q) /\ Merged(q) # Absent
           /\ \A s \in Slot \ {tx[q].slot} : members'[s] = members[s]
           /\ org' = IF job[q].op = "create" THEN job[q].actor ELSE org
           /\ job[q].op = "create" => org = Absent
           /\ \A r \in Req \ {q} : /\ pc'[r] = pc[r] /\ job'[r] = job[r]
                                   /\ tx'[r] = tx[r]
<1>1. tx[q].slot \in Slot /\ Merged(q) \in Row
  BY MergedOK
<1>2. /\ pc \in [Req -> Stages] /\ job \in [Req -> Job] /\ tx \in [Req -> Tx]
      /\ members \in [Slot -> Row \cup {Absent}]
  BY DEF Inv, TypeOK, Stages
<1>3. pc[q] = "commit" /\ FlushedOK(job[q], tx[q])
  BY DEF Commit, Flushed, Inv, ReqOK, TxOK
<1> QED BY <1>1, <1>2, <1>3, AbsentIsNoValue DEF Commit, End, FlushedOK

(* The row a request has read for changing.                                *)
LEMMA Loads ==
    ASSUME Inv, NEW r \in Req, ReadTarget(r)
    PROVE  \E s \in Stored :
             /\ Allowed(r, s) /\ pc'[r] = "flush"
             /\ job[r].op \in {"accept", "role", "remove", "revoke", "leave"}
             /\ job[r].op \in {"role", "remove", "revoke"} => pc[r] = "target"
             /\ tx'[r].slot = s /\ tx'[r].base = members[s]
             /\ tx'[r].rank = tx[r].rank
<1> PICK s \in Target(r) :
      /\ Allowed(r, s)
      /\ Go(r, "flush", [tx[r] EXCEPT !.slot = s, !.base = members[s],
                                      !.mem = Change(r, members[s])])
  BY DEF ReadTarget
<1>1. ReqOK(r) /\ AtTarget(r) /\ tx[r] \in Tx
  BY Typed DEF Inv, ReadTarget
<1>2. job[r].op \in {"accept", "role", "remove", "revoke", "leave"}
  BY <1>1 DEF AtTarget, ReqOK, TxOK
<1>3. s \in Stored
  BY <1>1, <1>2 DEF Target, Memberships, ReqOK, TxOK
<1>4. job[r].op \in {"role", "remove", "revoke"} => pc[r] = "target"
  BY <1>1 DEF AtTarget
<1>5. /\ pc'[r] = "flush" /\ tx'[r].slot = s /\ tx'[r].base = members[s]
      /\ tx'[r].rank = tx[r].rank
  BY <1>1 DEF Go, Inv, TypeOK, Tx
<1> WITNESS s \in Stored
<1> QED BY <1>2, <1>3, <1>4, <1>5

LEMMA InviteLoads ==
    ASSUME Inv, NEW r \in Req, ReadInvited(r)
    PROVE  /\ pc[r] = "target" /\ pc'[r] = "flush" /\ job[r].op = "invite"
           /\ tx'[r].mem = Invitation(r)
           /\ \/ /\ tx'[r].slot \in Revived(r)
                 /\ tx'[r].base = members[tx'[r].slot]
              \/ tx'[r].base = Absent /\ Matches(r) = {}
<1>1. pc[r] = "target" /\ job[r].op = "invite" /\ tx[r] \in Tx /\ tx[r].base = Absent
  BY Typed DEF ReadInvited, Inv, ReqOK, TxOK, Pending
<1>2. PICK s \in Slot :
        \/ s \in Revived(r) /\ Go(r, "flush", [tx[r] EXCEPT !.slot = s, !.base = members[s],
                                                            !.mem = Invitation(r)])
        \/ /\ Matches(r) = {}
           /\ Go(r, "flush", [tx[r] EXCEPT !.slot = s, !.mem = Invitation(r)])
  BY DEF ReadInvited, Revived, Matches, Fresh, Stored
<1>3. CASE s \in Revived(r) /\ Go(r, "flush", [tx[r] EXCEPT !.slot = s, !.base = members[s],
                                                            !.mem = Invitation(r)])
  BY <1>1, <1>3 DEF Go, Inv, TypeOK, Tx
<1>4. CASE /\ Matches(r) = {}
           /\ Go(r, "flush", [tx[r] EXCEPT !.slot = s, !.mem = Invitation(r)])
  BY <1>1, <1>4 DEF Go, Inv, TypeOK, Tx
<1> QED BY <1>2, <1>3, <1>4

-----------------------------------------------------------------------------
(* The owner is the one whose membership has the rank of owner.            *)
RankOK(r) ==
    job[r].op \in {"role", "remove"} /\ pc[r] \in {"target", "flush", "commit"} =>
      tx[r].rank = "admin" \/ job[r].actor = org

(* The row a request will change passed the checks when it was read.       *)
LoadOK(r) == pc[r] \in Pending =>
    /\ job[r].op \in {"accept", "revoke"} =>
         tx[r].base # Absent /\ tx[r].base.status = "invited"
    /\ job[r].op = "leave" => tx[r].base # Absent /\ tx[r].base.email = job[r].actor
    /\ job[r].op \in {"role", "remove"} =>
         /\ tx[r].base # Absent
         /\ tx[r].base.role = "admin" => job[r].actor = org
    /\ job[r].op = "invite" /\ tx[r].base # Absent => tx[r].base.status = "revoked"
    /\ job[r].op \in Ops

LoadsOK == \A r \in Req : RankOK(r) /\ LoadOK(r)

(* The organisation's owner changes under no request that has got past its *)
(* first check.                                                            *)
LEMMA OrgStays ==
    ASSUME Inv, NEW q \in Req, Commit(q), NEW r \in Req,
           \/ pc[r] = "target"
           \/ pc[r] \in Pending /\ job[r].op # "create"
    PROVE  org # Absent /\ org' = org
<1>1. org # Absent
  BY DEF Inv, ReqOK, TxOK, PendingOK
<1> QED BY <1>1, Commits

LEMMA LoadsNext ==
    Inv /\ LoadsOK /\ [Next]_vars => LoadsOK'
<1> SUFFICES ASSUME Inv, LoadsOK, [Next]_vars PROVE LoadsOK'
  OBVIOUS
<1>1. CASE UNCHANGED <<org, members, pc, job, tx>>
  BY <1>1 DEF LoadsOK, RankOK, LoadOK, Pending
<1>2. ASSUME NEW q \in Req, Commit(q) PROVE LoadsOK'
  <2>2. ASSUME NEW r \in Req \ {q}, job[r].op \in {"role", "remove"},
               pc[r] \in {"target", "flush", "commit"}
        PROVE  RankOK(r)'
    BY <1>2, <2>2, OrgStays, Commits DEF LoadsOK, RankOK, Pending
  <2>3. ASSUME NEW r \in Req \ {q}, pc[r] \in Pending PROVE LoadOK(r)'
    <3>1. job'[r] = job[r] /\ tx'[r] = tx[r]
      BY <1>2, Commits
    <3>2. job[r].op \in {"role", "remove"} => org' = org
      BY <1>2, <2>3, OrgStays
    <3>3. LoadOK(r)
      BY DEF LoadsOK
    <3> QED BY <2>3, <3>1, <3>2, <3>3 DEF LoadOK
  <2>4. ASSUME NEW r \in Req PROVE RankOK(r)' /\ LoadOK(r)'
    <3>1. CASE r = q
      BY <1>2, <3>1, Commits DEF RankOK, LoadOK, Pending
    <3>2. CASE r # q
      BY <1>2, <2>2, <2>3, <3>2, Commits DEF RankOK, LoadOK
    <3> QED BY <3>1, <3>2
  <2> QED BY <2>4 DEF LoadsOK
<1>3. ASSUME NEW q \in Req, ~Commit(q),
             \/ BeginCreate(q) \/ BeginInvite(q) \/ BeginAccept(q)
             \/ BeginRole(q) \/ BeginRemove(q) \/ BeginLeave(q)
             \/ Proceed(q) \/ Abort(q)
      PROVE  LoadsOK'
  <2>0. /\ org' = org /\ members' = members /\ tx[q] \in Tx /\ job[q] \in Job
        /\ RankOK(q) /\ LoadOK(q) /\ ReqOK(q)
        /\ \A r \in Req \ {q} : pc'[r] = pc[r] /\ job'[r] = job[r] /\ tx'[r] = tx[r]
    BY <1>3, Moves, Typed DEF LoadsOK, Inv
  <2>1. ASSUME NEW r \in Req \ {q} PROVE RankOK(r)' /\ LoadOK(r)'
    BY <2>0 DEF LoadsOK, RankOK, LoadOK
  <2>2. RankOK(q)' /\ LoadOK(q)'
    <3>1. CASE pc'[q] \in {"idle", "check"}
      BY <3>1 DEF RankOK, LoadOK, Pending
    <3>2. CASE CheckActor(q) /\ job'[q] = job[q]
      <4>1. PICK s \in Slot :
              /\ Entitled(q, s)
              /\ Go(q, IF job[q].op = "invite" THEN "lookup" ELSE "target",
                    [tx[q] EXCEPT !.me = s, !.rank = members[s].role])
        BY <3>2 DEF CheckActor
      <4>2. /\ tx'[q].rank = members[s].role /\ job[q].op # "leave"
            /\ pc'[q] \notin Pending
        BY <2>0, <3>2, <4>1 DEF Go, Inv, TypeOK, Tx, CheckActor, Pending
      <4>3. /\ s \in Stored /\ members[s].user = job[q].actor
            /\ members[s].role \in {"owner", "admin"}
        BY <4>1, <4>2 DEF Entitled, Memberships
      <4>4. members[s].role = "owner" => members[s].user = org
        BY <4>3 DEF Inv, RowsOK
      <4> QED BY <2>0, <3>2, <4>2, <4>3, <4>4 DEF RankOK, LoadOK
    <3>3. CASE ReadOrg(q) /\ job'[q] = job[q]
      <4>1. job[q].op = "create" /\ tx[q].base = Absent /\ tx'[q].base = Absent
        BY <2>0, <3>3 DEF ReadOrg, Go, Inv, TypeOK, Tx, TxOK, ReqOK, Pending
      <4> QED BY <3>3, <4>1 DEF RankOK, LoadOK, Ops
    <3>4. CASE ReadTarget(q) /\ job'[q] = job[q]
      <4>1. PICK s \in Stored :
              /\ Allowed(q, s) /\ pc'[q] = "flush"
              /\ job[q].op \in {"accept", "role", "remove", "revoke", "leave"}
              /\ job[q].op \in {"role", "remove", "revoke"} => pc[q] = "target"
              /\ tx'[q].slot = s /\ tx'[q].base = members[s]
              /\ tx'[q].rank = tx[q].rank
        BY <3>4, Loads
      <4>2. RankOK(q)'
        BY <2>0, <3>4, <4>1 DEF RankOK
      <4>3. members[s] # Absent
        BY DEF Stored
      <4>4. /\ job[q].op \in {"accept", "revoke"} => members[s].status = "invited"
            /\ job[q].op = "leave" => members[s].user = job[q].actor
        BY <4>1 DEF Allowed, Entitled, Memberships
      <4>6. job[q].op = "leave" => members[s].email = job[q].actor
        <5>1. job[q].actor \in User /\ members[s].user \in {Absent, members[s].email}
          BY <2>0, <3>4 DEF Inv, RowsOK, ReqOK, TxOK, ReadTarget, AtTarget
        <5> QED BY <4>4, <5>1, AbsentIsNoValue
      <4>5. job[q].op \in {"role", "remove"} /\ members[s].role = "admin" =>
              job[q].actor = org
        BY <2>0, <4>1 DEF Allowed, Manages, RankOK
      <4> QED BY <2>0, <3>4, <4>1, <4>2, <4>3, <4>4, <4>5, <4>6 DEF LoadOK, Ops
    <3>5. CASE Lookup(q) /\ job'[q] = job[q]
      BY <2>0, <3>5 DEF Lookup, Go, Inv, TypeOK, RankOK, LoadOK, Pending, ReqOK, TxOK
    <3>6. CASE ReadInvited(q) /\ job'[q] = job[q]
      <4>1. /\ job'[q].op = "invite"
            /\ \/ /\ tx'[q].base = members[tx'[q].slot]
                  /\ members[tx'[q].slot].status = "revoked"
               \/ tx'[q].base = Absent
        BY <3>6, InviteLoads DEF Revived
      <4> QED BY <2>0, <4>1 DEF RankOK, LoadOK, Ops
    <3>7. CASE Flush(q) /\ job'[q] = job[q]
      <4>1. pc[q] = "flush" /\ tx'[q] = tx[q] /\ pc'[q] = "commit"
        BY <2>0, <3>7 DEF Flush, Go, Inv, TypeOK, Stages
      <4> QED BY <2>0, <3>7, <4>1 DEF RankOK, LoadOK, Pending
    <3> QED BY <1>3, <3>1, <3>2, <3>3, <3>4, <3>5, <3>6, <3>7, Moves
  <2> QED BY <2>1, <2>2 DEF LoadsOK
<1> QED BY <1>1, <1>2, <1>3, Cases

LEMMA LoadsInit == Init => LoadsOK
BY DEF Init, LoadsOK, RankOK, LoadOK, Pending

(* An active admin's row is changed only by the owner or by the admin, or  *)
(* by a request that read the row before it was that of an active admin:   *)
(* no other overlap lets one admin manage another.                         *)
THEOREM AdminsManageNoAdmins == Spec => AdminsArePeers
<1> DEFINE Peers == \A s \in Stored : IsAdmin(members[s]) =>
                      \/ members'[s] = members[s]
                      \/ \E r \in Req : /\ Commit(r) /\ tx[r].slot = s
                                        /\ \/ job[r].actor \in {org, members[s].email}
                                           \/ ~IsAdmin(tx[r].base)
<1>1. ASSUME Inv, LoadsOK, [Next]_vars PROVE [Peers]_vars
  <2> SUFFICES ASSUME NEW s \in Stored, members'[s] # members[s]
               PROVE  \E r \in Req : /\ Commit(r) /\ tx[r].slot = s
                                     /\ \/ job[r].actor \in {org, members[s].email}
                                        \/ ~IsAdmin(tx[r].base)
    OBVIOUS
  <2>1. PICK r \in Req : Commit(r)
    BY <1>1, Cases, Moves
  <2>2. pc[r] = "commit" /\ s = tx[r].slot
    BY <1>1, <2>1, Commits DEF Stored
  <2>3. LoadOK(r) /\ PendingOK(job[r], tx[r])
    BY <1>1, <2>2 DEF LoadsOK, Inv, ReqOK, TxOK, Pending
  <2>4. ASSUME IsAdmin(tx[r].base) PROVE job[r].actor \in {org, members[s].email}
    <3>1. /\ tx[r].base # Absent /\ tx[r].base.status = "active"
          /\ tx[r].base.role = "admin"
      BY <2>4 DEF IsAdmin, IsActive
    <3>2. job[r].op \in {"role", "remove", "leave"}
      BY <2>2, <2>3, <3>1 DEF LoadOK, PendingOK, Pending, Ops
    <3>3. tx[r].base.email = members[s].email
      BY <2>2, <2>3, <3>1 DEF PendingOK
    <3> QED BY <2>2, <2>3, <3>1, <3>2, <3>3 DEF LoadOK, Pending
  <2> QED BY <2>1, <2>2, <2>4
<1> QED BY <1>1, LoadsInit, LoadsNext, Invariance, PTL DEF Spec, AdminsArePeers

-----------------------------------------------------------------------------
(* No commit changes a row that another request, still under way, has read *)
(* and means to change.                                                    *)
TargetsApart ==
    \A q, r \in Req : Commit(q) /\ q # r /\ pc[r] # "idle" => tx[r].slot # tx[q].slot

(* So the row a request has read is still as it was.                       *)
FreshOK(r) == pc[r] \in Pending /\ tx[r].base # Absent =>
                members[tx[r].slot] = tx[r].base

AllFresh == \A r \in Req : FreshOK(r)

LEMMA FreshNext ==
    Inv /\ AllFresh /\ [Next]_vars /\ [TargetsApart]_vars => AllFresh'
<1> SUFFICES ASSUME Inv, AllFresh, [Next]_vars, [TargetsApart]_vars PROVE AllFresh'
  OBVIOUS
<1>1. CASE UNCHANGED <<org, members, pc, job, tx>>
  BY <1>1 DEF AllFresh, FreshOK
<1>2. ASSUME NEW q \in Req, Commit(q) PROVE AllFresh'
  <2>1. TargetsApart
    BY <1>2, Commits DEF vars
  <2>2. ASSUME NEW r \in Req \ {q}, pc[r] \in Pending PROVE FreshOK(r)'
    <3>1. tx[r].slot \in Slot /\ tx[r].slot # tx[q].slot
      BY <1>2, <2>1, <2>2 DEF TargetsApart, Inv, ReqOK, TxOK, PendingOK, Pending
    <3>2. members'[tx[r].slot] = members[tx[r].slot] /\ tx'[r] = tx[r]
      BY <1>2, <3>1, Commits
    <3> QED BY <2>2, <3>2 DEF AllFresh, FreshOK
  <2>3. FreshOK(q)'
    BY <1>2, Commits DEF FreshOK, Pending
  <2>4. \A r \in Req \ {q} : pc'[r] = pc[r]
    BY <1>2, Commits
  <2> QED BY <2>2, <2>3, <2>4 DEF AllFresh, FreshOK
<1>3. ASSUME NEW q \in Req, ~Commit(q),
             \/ BeginCreate(q) \/ BeginInvite(q) \/ BeginAccept(q)
             \/ BeginRole(q) \/ BeginRemove(q) \/ BeginLeave(q)
             \/ Proceed(q) \/ Abort(q)
      PROVE  AllFresh'
  <2>0. /\ members' = members /\ tx[q] \in Tx /\ FreshOK(q)
        /\ \A r \in Req \ {q} : pc'[r] = pc[r] /\ tx'[r] = tx[r]
    BY <1>3, Moves, Typed DEF AllFresh
  <2>1. \A r \in Req \ {q} : FreshOK(r)'
    BY <2>0 DEF AllFresh, FreshOK
  <2>2. FreshOK(q)'
    <3>1. CASE pc'[q] \in {"idle", "check"}
      BY <3>1 DEF FreshOK, Pending
    <3>2. CASE CheckActor(q) \/ Lookup(q)
      <4>1. pc'[q] \in {"lookup", "target"}
        BY <3>2 DEF CheckActor, Lookup, Go, Inv, TypeOK
      <4> QED BY <4>1 DEF FreshOK, Pending
    <3>3. CASE ReadOrg(q)
      <4>1. tx'[q].base = Absent
        BY <2>0, <3>3 DEF ReadOrg, Go, Inv, TypeOK, Tx, TxOK, ReqOK, Pending
      <4> QED BY <4>1 DEF FreshOK
    <3>4. CASE ReadTarget(q)
      BY <2>0, <3>4, Loads DEF FreshOK
    <3>5. CASE ReadInvited(q)
      BY <2>0, <3>5, InviteLoads DEF FreshOK
    <3>6. CASE Flush(q)
      <4>1. pc[q] = "flush" /\ tx'[q] = tx[q]
        BY <2>0, <3>6 DEF Flush, Go, Inv, TypeOK
      <4> QED BY <2>0, <4>1 DEF FreshOK, Pending
    <3> QED BY <1>3, <3>1, <3>2, <3>3, <3>4, <3>5, <3>6, Moves
  <2> QED BY <2>1, <2>2 DEF AllFresh
<1> QED BY <1>1, <1>2, <1>3, Cases

LEMMA FreshInit == Init => AllFresh
BY DEF Init, AllFresh, FreshOK, Pending

-----------------------------------------------------------------------------
(* No two invitations of the same address are under way.                   *)
InvitesApart ==
    \A q, r \in Req :
        pc[q] # "idle" /\ job[q].op = "invite" /\ pc[r] # "idle" /\ job[r].op = "invite"
            => q = r \/ job[q].email # job[r].email

(* One row for each address: an invitation changes the only row of its     *)
(* address, or adds the first.                                             *)
OneRowEach == \A s, t \in Stored : members[s].email = members[t].email => s = t

StrangerOK(r) == pc[r] \in Pending /\ job[r].op = "invite" =>
    /\ tx[r].mem.email = job[r].email
    /\ \A s \in Stored : members[s].email = job[r].email => s = tx[r].slot

StrangersOK == OneRowEach /\ \A r \in Req : StrangerOK(r)

LEMMA StrangersNext ==
    Inv /\ LoadsOK /\ InvitesApart /\ StrangersOK /\ [Next]_vars => StrangersOK'
<1> SUFFICES ASSUME Inv, LoadsOK, InvitesApart, StrangersOK, [Next]_vars
             PROVE  StrangersOK'
  OBVIOUS
<1>1. CASE UNCHANGED <<org, members, pc, job, tx>>
  BY <1>1 DEF StrangersOK, StrangerOK, OneRowEach, Stored
<1>2. ASSUME NEW q \in Req, Commit(q) PROVE StrangersOK'
  <2> DEFINE s0 == tx[q].slot
             e  == tx[q].mem.email
  <2>0. /\ s0 \in Slot /\ Merged(q).email = e
        /\ s0 \in Stored => members[s0].email = e
        /\ members'[s0] = Merged(q) /\ Merged(q) # Absent
        /\ \A s \in Slot \ {s0} : members'[s] = members[s]
    BY <1>2, MergedOK, Commits
  <2>1. pc[q] = "commit" /\ PendingOK(job[q], tx[q]) /\ LoadOK(q)
    BY <1>2, Commits DEF Inv, ReqOK, TxOK, Pending, LoadsOK
  <2>2. /\ Stored' = Stored \cup {s0}
        /\ members'[s0].email = e
        /\ \A s \in Stored : members'[s].email = members[s].email
    BY <2>0 DEF Stored
  <2>3. \A s \in Stored : members[s].email = e => s = s0
    <3>1. CASE s0 \in Stored
      BY <2>0, <3>1 DEF StrangersOK, OneRowEach
    <3>2. CASE s0 \notin Stored
      <4>1. tx[q].base = Absent
        BY <2>1, <3>2 DEF PendingOK, Stored
      <4>2. job[q].op \in {"create", "invite"}
        BY <2>1, <4>1 DEF LoadOK, Pending, Ops
      <4>3. CASE job[q].op = "create"
        BY <1>2, <4>3, Commits DEF Inv, RowsOK
      <4>4. CASE job[q].op = "invite"
        BY <2>1, <4>4 DEF StrangersOK, StrangerOK, Pending
      <4> QED BY <4>2, <4>3, <4>4
    <3> QED BY <3>1, <3>2
  <2>4. OneRowEach'
    <3> SUFFICES ASSUME NEW s \in Stored \cup {s0}, NEW t \in Stored \cup {s0},
                        members'[s].email = members'[t].email
                 PROVE  s = t
      BY <2>2 DEF OneRowEach
    <3>1. CASE s = s0 \/ t = s0
      BY <2>2, <2>3, <3>1
    <3>2. CASE s # s0 /\ t # s0
      BY <2>2, <3>2 DEF StrangersOK, OneRowEach
    <3> QED BY <3>1, <3>2
  <2>5. ASSUME NEW r \in Req \ {q}, pc[r] \in Pending, job[r].op = "invite"
        PROVE  StrangerOK(r)'
    <3>1. StrangerOK(r) /\ job'[r] = job[r] /\ tx'[r] = tx[r]
      BY <1>2, Commits DEF StrangersOK
    <3>2. CASE s0 \in Stored
      BY <2>2, <2>5, <3>1, <3>2 DEF StrangerOK
    <3>3. CASE s0 \notin Stored
      <4>1. tx[q].base = Absent
        BY <2>1, <3>3 DEF PendingOK, Stored
      <4>2. job[q].op \in {"create", "invite"}
        BY <2>1, <4>1 DEF LoadOK, Pending, Ops
      <4>3. job[q].op # "create"
        BY <1>2, <2>5, OrgStays, Commits
      <4>4. e = job[q].email /\ e # job[r].email
        BY <2>1, <2>5, <4>2, <4>3
           DEF StrangersOK, StrangerOK, InvitesApart, Pending
      <4> QED BY <2>2, <2>5, <3>1, <4>4 DEF StrangerOK
    <3> QED BY <3>2, <3>3
  <2>6. ASSUME NEW r \in Req PROVE StrangerOK(r)'
    <3>1. CASE r = q
      BY <1>2, <3>1, Commits DEF StrangerOK, Pending
    <3>2. CASE r # q
      BY <1>2, <2>5, <3>2, Commits DEF StrangerOK
    <3> QED BY <3>1, <3>2
  <2> QED BY <2>4, <2>6 DEF StrangersOK
<1>3. ASSUME NEW q \in Req, ~Commit(q),
             \/ BeginCreate(q) \/ BeginInvite(q) \/ BeginAccept(q)
             \/ BeginRole(q) \/ BeginRemove(q) \/ BeginLeave(q)
             \/ Proceed(q) \/ Abort(q)
      PROVE  StrangersOK'
  <2>0. /\ members' = members /\ Stored' = Stored /\ tx[q] \in Tx
        /\ OneRowEach /\ StrangerOK(q) /\ ReqOK(q)
        /\ \A r \in Req \ {q} : pc'[r] = pc[r] /\ job'[r] = job[r] /\ tx'[r] = tx[r]
    BY <1>3, Moves, Typed DEF StrangersOK, Stored, Inv
  <2>1. OneRowEach' /\ \A r \in Req \ {q} : StrangerOK(r)'
    BY <2>0 DEF StrangersOK, StrangerOK, OneRowEach
  <2>2. StrangerOK(q)'
    <3>1. CASE pc'[q] \in {"idle", "check"}
      BY <3>1 DEF StrangerOK, Pending
    <3>2. CASE CheckActor(q) \/ Lookup(q)
      <4>1. pc'[q] \in {"lookup", "target"}
        BY <3>2 DEF CheckActor, Lookup, Go, Inv, TypeOK
      <4> QED BY <4>1 DEF StrangerOK, Pending
    <3>3. CASE (ReadOrg(q) \/ ReadTarget(q)) /\ job'[q] = job[q]
      <4>1. job[q].op # "invite"
        BY <3>3, Loads DEF ReadOrg
      <4> QED BY <3>3, <4>1 DEF StrangerOK
    <3>4. CASE ReadInvited(q) /\ job'[q] = job[q]
      <4>1. tx'[q].mem.email = job[q].email
        <5>1. tx'[q].mem = Invitation(q)
          BY <3>4, InviteLoads
        <5>2. Invitation(q).email = job[q].email
          BY DEF Invitation
        <5> QED BY <5>1, <5>2
      <4>2. tx[q].recipient \in {Absent, job[q].email}
        BY <2>0, <3>4, InviteLoads DEF ReqOK, TxOK
      <4>3. CASE Matches(q) = {}
        BY <2>0, <3>4, <4>1, <4>3 DEF Matches, StrangerOK
      <4>4. CASE tx'[q].slot \in Revived(q)
        <5>1. /\ tx'[q].slot \in Stored
              /\ \/ members[tx'[q].slot].email = job[q].email
                 \/ /\ members[tx'[q].slot].user = job[q].email
                    /\ tx[q].recipient # Absent
          BY <4>2, <4>4 DEF Revived, Matches
        <5>2. members[tx'[q].slot].user \in {Absent, members[tx'[q].slot].email}
          BY <5>1 DEF Inv, RowsOK
        <5>3. members[tx'[q].slot].email = job[q].email
          BY <4>2, <5>1, <5>2
        <5> QED BY <2>0, <3>4, <4>1, <5>1, <5>3 DEF StrangerOK, OneRowEach
      <4> QED BY <3>4, <4>3, <4>4, InviteLoads
    <3>5. CASE Flush(q) /\ job'[q] = job[q]
      <4>1. pc[q] = "flush" /\ tx'[q] = tx[q]
        BY <2>0, <3>5 DEF Flush, Go, Inv, TypeOK
      <4> QED BY <2>0, <3>5, <4>1 DEF StrangerOK, Pending
    <3> QED BY <1>3, <3>1, <3>2, <3>3, <3>4, <3>5, Moves
  <2> QED BY <2>1, <2>2 DEF StrangersOK
<1> QED BY <1>1, <1>2, <1>3, Cases

LEMMA StrangersInit == Init => StrangersOK
BY DEF Init, StrangersOK, OneRowEach, StrangerOK, Stored, Pending

(* Nobody who is invited or a member is invited again, unless two          *)
(* invitations of the address overlap, or a row changed between a          *)
(* request's read of it and its commit.                                    *)
THEOREM StrangersAreInvited ==
    Spec /\ []InvitesApart /\ [][TargetsApart]_vars => OnlyStrangersAreInvited
<1>1. Inv /\ LoadsOK /\ AllFresh /\ StrangersOK =>
        [\A r \in Req : Commit(r) /\ job[r].op = "invite" =>
           \A s \in Stored : members[s].email = job[r].email
                               => members[s].status = "revoked"]_vars
  <2> SUFFICES ASSUME Inv, LoadsOK, AllFresh, StrangersOK, NEW r \in Req, Commit(r),
                      job[r].op = "invite", NEW s \in Stored, members[s].email = job[r].email
               PROVE  members[s].status = "revoked"
    OBVIOUS
  <2>1. pc[r] \in Pending /\ s = tx[r].slot /\ members[s] # Absent
    BY DEF Commit, Flushed, Pending, StrangersOK, StrangerOK, Stored
  <2>2. LoadOK(r) /\ PendingOK(job[r], tx[r])
    BY <2>1 DEF LoadsOK, Inv, ReqOK, TxOK
  <2>3. FreshOK(r)
    BY DEF AllFresh
  <2> QED BY <2>1, <2>2, <2>3 DEF LoadOK, FreshOK, PendingOK
<1> QED BY <1>1, LoadsInit, LoadsNext, FreshInit, FreshNext, StrangersInit, StrangersNext, Invariance, PTL
        DEF Spec, OnlyStrangersAreInvited

-----------------------------------------------------------------------------
(* Requests one after the other.                                           *)
OneAtATime == \A q, r \in Req : pc[q] # "idle" /\ pc[r] # "idle" => q = r

LEMMA SerialIsApart == OneAtATime => TargetsApart /\ InvitesApart
<1>1. \A q \in Req : Commit(q) => pc[q] # "idle"
  BY DEF Commit, Flushed
<1>2. OneAtATime => TargetsApart
  BY <1>1 DEF OneAtATime, TargetsApart
<1> QED BY <1>2 DEF OneAtATime, InvitesApart

(* Of requests that follow one another nobody is invited twice, however    *)
(* many there are and whatever they ask.                                   *)
THEOREM SerialInvitationsAreFirst == Spec /\ []OneAtATime => OnlyStrangersAreInvited
<1>1. OneAtATime => [TargetsApart]_vars /\ InvitesApart
  BY SerialIsApart
<1>2. []OneAtATime => [][TargetsApart]_vars /\ []InvitesApart
  BY <1>1, PTL
<1> QED BY <1>2, StrangersAreInvited, PTL
=============================================================================

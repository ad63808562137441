--------------------------- MODULE VaultSyncProofs ---------------------------
(***************************************************************************)
(* Proofs about VaultSync, for every account, any number of devices and    *)
(* concurrent requests, and every revision bound.                          *)
(***************************************************************************)
EXTENDS VaultSync, TLAPS

(* What a request was asked: a sync or a create names whole versions, a    *)
(* REST route one row and only that.                                       *)
JobOK(r) ==
    /\ pc[r] # "idle" => job[r].op \in Ops
    /\ job[r].op \in {"sync", "create"} =>
         job[r].push \in [Item -> Version \cup {Absent}]
    /\ job[r].op \in Ops \ {"sync"} => \E i \in Item : Pushed(r) = {i}
    /\ pc[r] = "work" /\ job[r].op # "sync" => ses[r].todo = {}

Loaded(r, i) == /\ pc[r] = "work"
                /\ i \in Pushed(r)
                /\ LoadOf(TableOf[i]) \notin ses[r].todo

(* What the handler makes of a row it loaded.                              *)
Result(r, i) ==
    IF job[r].op = "sync"
    THEN Upsert(ses[r].base[i], job[r].push[i], job[r].txAt, job[r].now)
    ELSE Edit(job[r].op, ses[r].base[i], job[r].push[i], job[r].txAt, job[r].now)

(* A session has nothing of a row it did not load; of a row it loaded it   *)
(* has the result of the handler, and the lock only if there is something  *)
(* to write, the column can hold it, and nobody inserted the row meanwhile.*)
(* A row once committed is never gone.                                     *)
RowOK(r, i) ==
    /\ ~Loaded(r, i) => /\ ses[r].base[i] = Absent
                        /\ ses[r].mem[i] = Absent
                        /\ i \notin ses[r].held
    /\ Loaded(r, i) => /\ ses[r].mem[i] = Result(r, i)
                       /\ job[r].op = "sync" \/ Accepts(job[r].op, ses[r].base[i])
    /\ ses[r].base[i] # Absent => db[i] # Absent
    /\ i \in ses[r].held => /\ ses[r].mem[i] # ses[r].base[i]
                            /\ Fits(ses[r].mem[i])
                            /\ ses[r].base[i] = Absent => db[i] = Absent

Disjoint == \A r, q \in Req : r # q => ses[r].held \cap ses[q].held = {}

Inv == /\ TypeOK
       /\ Disjoint
       /\ \A r \in Req : JobOK(r) /\ \A i \in Item : RowOK(r, i)

-----------------------------------------------------------------------------
(* Types of the operators.                                                 *)
LEMMA EmptyTyped == /\ Empty \in [Item -> Row \cup {Absent}]
                    /\ Empty \in [Item -> Draft \cup {Absent}]
                    /\ Empty \in [Item -> Body \cup {Absent}]
                    /\ Empty \in [Item -> Version \cup {Absent}]
BY DEF Empty

LEMMA RowIsDraft == Row \subseteq Draft
BY BodiesAreTyped DEF Row, Draft

LEMMA VersionIsBody == Version \subseteq Body
BY DEF Version, Body

LEMMA VerTyped == \A row \in Draft \cup {Absent} : Ver(row) \in Version \cup {Absent}
BY DEF Ver, Draft, Version

LEMMA StampTyped ==
    ASSUME NEW v \in Version, NEW t \in Nat
    PROVE  Stamp(v, t) \in Draft
BY DEF Stamp, Version, Draft

LEMMA UpsertTyped ==
    ASSUME NEW old \in Row \cup {Absent}, NEW v \in Version,
           NEW txAt \in Nat, NEW now \in Nat
    PROVE  Upsert(old, v, txAt, now) \in Draft
BY RowIsDraft, StampTyped DEF Upsert

LEMMA EditTyped ==
    ASSUME NEW op \in {"create", "patch", "delete"},
           NEW old \in Row \cup {Absent}, NEW body \in Body,
           op = "create" => body \in Version, Accepts(op, old),
           NEW txAt \in Nat, NEW now \in Nat
    PROVE  Edit(op, old, body, txAt, now) \in Draft
<1>1. CASE op = "create"
  BY <1>1, StampTyped DEF Edit
<1>2. CASE op = "patch"
  <2>1. old \in Draft
    BY <1>2, RowIsDraft DEF Accepts, Live
  <2>2. Overlay(old, body) \in Version
    BY <2>1, AbsentIsNoValue DEF Overlay, Sent, Draft, Body, Version
  <2> QED BY <1>2, <2>2, StampTyped DEF Edit
<1>3. CASE op = "delete"
  <2>1. old \in Draft
    BY <1>3, RowIsDraft DEF Accepts, Live
  <2>2. Tombstone(old) \in Version
    BY <2>1 DEF Tombstone, Draft, Version
  <2> QED BY <1>3, <2>2, StampTyped DEF Edit
<1> QED BY <1>1, <1>2, <1>3

LEMMA ResultTyped ==
    ASSUME TypeOK, NEW r \in Req, NEW i \in Item,
           JobOK(r), RowOK(r, i), Loaded(r, i)
    PROVE  ses[r].mem[i] \in Draft
<1>1. /\ ses[r].base[i] \in Row \cup {Absent}
      /\ job[r].push[i] \in Body
      /\ job[r].txAt \in Nat /\ job[r].now \in Nat
      /\ job[r].op \in Ops
      /\ job[r].op \in {"sync", "create"} => job[r].push[i] \in Version
  BY DEF TypeOK, JobOK, Loaded, Pushed, Session, Job
<1>2. CASE job[r].op = "sync"
  <2>1. Upsert(ses[r].base[i], job[r].push[i], job[r].txAt, job[r].now) \in Draft
    BY <1>1, <1>2, UpsertTyped
  <2> QED BY <1>2, <2>1 DEF RowOK, Result
<1>3. CASE job[r].op # "sync"
  BY <1>1, <1>3, EditTyped DEF RowOK, Result, Ops
<1> QED BY <1>2, <1>3

(* The row another statement of the session sees: its own where it holds   *)
(* the lock, the committed one elsewhere.                                  *)
LEMMA SeenTyped ==
    ASSUME TypeOK, NEW r \in Req, NEW i \in Item, JobOK(r), RowOK(r, i)
    PROVE  /\ Seen(r, i) \in Row \cup {Absent}
           /\ i \in ses[r].held => Seen(r, i) # Absent
           /\ Seen(r, i) = Absent => db[i] = Absent
<1>1. /\ db[i] \in Row \cup {Absent}
      /\ ses[r].base[i] \in Row \cup {Absent}
  BY DEF TypeOK, Session
<1>2. Absent \notin Row
  BY AbsentIsNoRow, RowIsDraft
<1>3. CASE i \notin ses[r].held
  BY <1>1, <1>3 DEF Seen
<1>4. CASE i \in ses[r].held
  <2>1. ses[r].mem[i] \in Row
    <3>1. ses[r].mem[i] \in Draft /\ Fits(ses[r].mem[i])
      BY <1>4, ResultTyped DEF RowOK
    <3> QED BY <3>1, AbsentIsNoRow, BodiesAreTyped DEF Fits, Row, Draft
  <2>2. CASE ses[r].base[i] = Absent
    BY <1>2, <1>4, <2>1, <2>2 DEF Seen, Merged
  <2>3. CASE ses[r].base[i] # Absent
    <3>1. db[i] \in Row /\ ses[r].base[i] \in Row
      BY <1>1, <2>3 DEF RowOK
    <3>2. Merged(r, i) \in Row
      BY <2>1, <2>3, <3>1 DEF Merged, Column, Row
    <3> QED BY <1>2, <1>4, <3>2 DEF Seen
  <2> QED BY <2>2, <2>3
<1> QED BY <1>3, <1>4

-----------------------------------------------------------------------------
(* The inductive invariant.                                                *)
LEMMA NothingTyped == /\ NoJob \in Job /\ NoSes \in Session /\ NoRsp \in Reply
                      /\ \A i \in Item : /\ NoSes.base[i] = Absent
                                         /\ NoSes.mem[i] = Absent
                                         /\ i \notin NoSes.held
                      /\ NoJob.op = "none"
BY EmptyTyped DEF NoJob, NoSes, NoRsp, Job, Session, Reply, Empty

LEMMA InvInit == Init => Inv
<1> SUFFICES ASSUME Init PROVE Inv
  OBVIOUS
<1>1. TypeOK
  BY EmptyTyped, NothingTyped DEF Init, TypeOK
<1>2. Disjoint
  BY DEF Init, Disjoint, NoSes
<1>3. ASSUME NEW r \in Req PROVE JobOK(r) /\ \A i \in Item : RowOK(r, i)
  BY NothingTyped DEF Init, JobOK, RowOK, Loaded, Ops
<1> QED BY <1>1, <1>2, <1>3 DEF Inv

(* A request that does not move keeps its part of the invariant as long as *)
(* no row goes and none of its inserts is overtaken.                       *)
LEMMA Frame ==
    ASSUME NEW q \in Req, JobOK(q), \A i \in Item : RowOK(q, i),
           pc'[q] = pc[q], job'[q] = job[q], ses'[q] = ses[q],
           \A i \in Item : db[i] # Absent => db'[i] # Absent,
           \A i \in ses[q].held : db'[i] = db[i]
    PROVE  JobOK(q)' /\ (\A i \in Item : RowOK(q, i))'
<1>1. JobOK(q)'
  BY DEF JobOK, Pushed
<1>2. ASSUME NEW i \in Item PROVE RowOK(q, i)'
  BY DEF RowOK, Loaded, Pushed, Result
<1> QED BY <1>1, <1>2

LEMMA InvBegin ==
    ASSUME Inv, NEW r \in Req, NEW op \in Ops, NEW d \in Dev \cup {Absent},
           NEW push \in [Item -> Body \cup {Absent}], NEW since \in Nat,
           op \in {"sync", "create"} => push \in [Item -> Version \cup {Absent}],
           op # "sync" => \E i \in Item : {j \in Item : push[j] # Absent} = {i},
           Begin(r, op, d, push, since)
    PROVE  Inv'
<1> DEFINE new == [op |-> op, dev |-> d, push |-> push, since |-> since,
                   txAt |-> clock', now |-> 0]
<1>0. TypeOK /\ Disjoint
  BY DEF Inv
<1>1. /\ clock' \in Nat /\ job' = [job EXCEPT ![r] = new]
      /\ pc[r] = "idle" /\ pc' = [pc EXCEPT ![r] = "begun"]
      /\ UNCHANGED <<db, ses, rsp, cursor, told>>
  BY <1>0 DEF Begin, TypeOK
<1>2. new \in Job
  BY <1>1 DEF Job
<1>3. TypeOK'
  BY <1>0, <1>1, <1>2 DEF TypeOK
<1>4. Disjoint'
  BY <1>0, <1>1 DEF Disjoint
<1>5. ASSUME NEW q \in Req PROVE (JobOK(q) /\ \A i \in Item : RowOK(q, i))'
  <2>1. CASE q # r
    BY <1>0, <1>1, <2>1, Frame DEF Inv, TypeOK
  <2>2. CASE q = r
    <3>1. job'[r] = new /\ pc'[r] = "begun"
      BY <1>0, <1>1 DEF TypeOK
    <3>2. JobOK(r)'
      BY <3>1 DEF JobOK, Ops, Pushed
    <3>3. ASSUME NEW i \in Item PROVE RowOK(r, i)'
      BY <1>1, <3>1 DEF Inv, RowOK, Loaded
    <3> QED BY <2>2, <3>2, <3>3
  <2> QED BY <2>1, <2>2
<1> QED BY <1>3, <1>4, <1>5 DEF Inv

LEMMA InvBegins ==
    ASSUME Inv, NEW r \in Req,
           BeginSync(r) \/ BeginCreate(r) \/ BeginPatch(r) \/ BeginDelete(r)
    PROVE  Inv'
<1>0. Absent \notin Version
  BY VersionIsBody, AbsentIsNoValue
<1>1. CASE BeginSync(r)
  <2>1. PICK d \in Dev, batch \in Batches : Begin(r, "sync", d, batch, cursor[d])
    BY <1>1 DEF BeginSync
  <2>2. /\ batch \in [Item -> Version \cup {Absent}]
        /\ batch \in [Item -> Body \cup {Absent}]
    BY BodiesAreTyped, VersionIsBody
  <2>3. cursor[d] \in Nat
    BY DEF Inv, TypeOK
  <2> QED BY <2>1, <2>2, <2>3, InvBegin DEF Ops
<1>2. CASE BeginCreate(r)
  <2>1. PICK i \in Item, v \in Creates :
             Begin(r, "create", Absent, [Empty EXCEPT ![i] = v], 0)
    BY <1>2 DEF BeginCreate
  <2> DEFINE push == [Empty EXCEPT ![i] = v]
  <2>2. /\ push \in [Item -> Version \cup {Absent}]
        /\ push \in [Item -> Body \cup {Absent}]
        /\ {j \in Item : push[j] # Absent} = {i}
    BY <1>0, EmptyTyped, BodiesAreTyped, VersionIsBody DEF Empty
  <2> HIDE DEF push
  <2> QED BY <2>1, <2>2, InvBegin DEF Ops, push
<1>3. CASE BeginPatch(r)
  <2>1. PICK i \in Editable, body \in Patches :
             Begin(r, "patch", Absent, [Empty EXCEPT ![i] = body], 0)
    BY <1>3 DEF BeginPatch
  <2> DEFINE push == [Empty EXCEPT ![i] = body]
  <2>2. /\ push \in [Item -> Body \cup {Absent}]
        /\ {j \in Item : push[j] # Absent} = {i}
        /\ i \in Item
    BY EmptyTyped, BodiesAreTyped, AbsentIsNoValue DEF Empty
  <2> QED BY <2>1, <2>2, InvBegin DEF Ops
<1>4. CASE BeginDelete(r)
  <2>1. PICK i \in Item :
             Begin(r, "delete", Absent, [Empty EXCEPT ![i] = NoFields], 0)
    BY <1>4 DEF BeginDelete
  <2> DEFINE push == [Empty EXCEPT ![i] = NoFields]
  <2>2. NoFields \in Body
    BY DEF NoFields, Body
  <2>3. /\ push \in [Item -> Body \cup {Absent}]
        /\ {j \in Item : push[j] # Absent} = {i}
    BY <2>2, EmptyTyped, AbsentIsNoValue DEF Empty
  <2> QED BY <2>1, <2>3, InvBegin DEF Ops
<1> QED BY <1>1, <1>2, <1>3, <1>4

-----------------------------------------------------------------------------
(* The end of a request, however it comes.                                 *)
LEMMA InvEnd ==
    ASSUME Inv, NEW r \in Req, End(r), cursor' \in [Dev -> Nat],
           told' \in [Dev -> [Item -> Version \cup {Absent}]]
    PROVE  Inv'
<1>0. TypeOK /\ Disjoint
  BY DEF Inv
<1>1. TypeOK'
  BY <1>0, NothingTyped DEF End, TypeOK
<1>2. /\ ses'[r] = NoSes /\ pc'[r] = "idle" /\ job'[r] = NoJob /\ db' = db
      /\ \A q \in Req \ {r} : /\ ses'[q] = ses[q] /\ pc'[q] = pc[q]
                              /\ job'[q] = job[q]
  BY <1>0 DEF End, TypeOK
<1>3. Disjoint'
  BY <1>0, <1>2 DEF Disjoint, NoSes
<1>4. ASSUME NEW q \in Req PROVE (JobOK(q) /\ \A i \in Item : RowOK(q, i))'
  <2>1. CASE q # r
    BY <1>2, <2>1, Frame DEF Inv
  <2>2. CASE q = r
    <3>1. JobOK(r)'
      BY <1>2, NothingTyped DEF JobOK, Ops
    <3>2. ASSUME NEW i \in Item PROVE RowOK(r, i)'
      BY <1>2, NothingTyped DEF RowOK, Loaded
    <3> QED BY <2>2, <3>1, <3>2
  <2> QED BY <2>1, <2>2
<1> QED BY <1>1, <1>3, <1>4 DEF Inv

LEMMA InvEnds ==
    ASSUME Inv, NEW r \in Req,
           \/ Deliver(r) \/ Lose(r) \/ Reject(r) \/ StatementError(r) \/ Abort(r)
    PROVE  Inv'
<1>1. End(r)
  BY DEF Deliver, Lose, Reject, StatementError, Abort
<1>2. /\ cursor \in [Dev -> Nat] /\ told \in [Dev -> [Item -> Version \cup {Absent}]]
      /\ rsp[r].top \in Nat /\ rsp[r].rows \in [Item -> Version \cup {Absent}]
  BY DEF Inv, TypeOK, Reply
<1>3. CASE UNCHANGED <<cursor, told>>
  BY <1>1, <1>2, <1>3, InvEnd
<1>4. CASE ~UNCHANGED <<cursor, told>>
  <2>1. /\ cursor' = [cursor EXCEPT ![job[r].dev] = rsp[r].top]
        /\ told' = [told EXCEPT ![job[r].dev] = [i \in Item |->
                     IF rsp[r].rows[i] = Absent THEN told[job[r].dev][i]
                     ELSE rsp[r].rows[i]]]
    BY <1>4 DEF Deliver, Lose, Reject, StatementError, Abort
  <2>2. cursor' \in [Dev -> Nat]
    BY <1>2, <2>1
  <2>3. told' \in [Dev -> [Item -> Version \cup {Absent}]]
    BY <1>2, <2>1
  <2> QED BY <1>1, <2>2, <2>3, InvEnd
<1> QED BY <1>3, <1>4

-----------------------------------------------------------------------------
(* The steps of the handlers.                                              *)
LEMMA StepsTyped == \A r \in Req : Steps(r) \subseteq 1..9
BY TablesAreTyped DEF Steps, LoadOf, PullOf, TopOf, Table, Pushed

(* A step that writes one request's part of the state and no row.          *)
LEMMA InvLocal ==
    ASSUME Inv, NEW r \in Req, NEW newPc \in {"begun", "work"},
           NEW newJob \in Job, NEW newSes \in Session, NEW newRsp \in Reply,
           clock' \in Nat, UNCHANGED <<db, cursor, told>>,
           pc' = [pc EXCEPT ![r] = newPc], job' = [job EXCEPT ![r] = newJob],
           ses' = [ses EXCEPT ![r] = newSes], rsp' = [rsp EXCEPT ![r] = newRsp],
           \A q \in Req \ {r} : newSes.held \cap ses[q].held = {},
           JobOK(r)', \A i \in Item : RowOK(r, i)'
    PROVE  Inv'
<1>0. TypeOK /\ Disjoint
  BY DEF Inv
<1>1. TypeOK'
  BY <1>0 DEF TypeOK
<1>2. /\ ses'[r] = newSes
      /\ \A q \in Req \ {r} : /\ ses'[q] = ses[q] /\ pc'[q] = pc[q]
                              /\ job'[q] = job[q]
  BY <1>0 DEF TypeOK
<1>3. Disjoint'
  BY <1>0, <1>2 DEF Disjoint
<1>4. ASSUME NEW q \in Req PROVE (JobOK(q) /\ \A i \in Item : RowOK(q, i))'
  <2>1. CASE q # r
    BY <1>2, <2>1, Frame DEF Inv
  <2>2. CASE q = r
    BY <2>2
  <2> QED BY <2>1, <2>2
<1> QED BY <1>1, <1>3, <1>4 DEF Inv

LEMMA InvStartSync ==
    ASSUME Inv, NEW r \in Req, StartSync(r) PROVE Inv'
<1> DEFINE newJob == [job[r] EXCEPT !.now = clock']
           newSes == [ses[r] EXCEPT !.todo = Steps(r)]
<1>0. TypeOK /\ pc[r] = "begun" /\ job[r].op = "sync"
  BY DEF Inv, StartSync
<1>1. /\ clock' = clock + 1 /\ clock' \in Nat
      /\ job' = [job EXCEPT ![r] = newJob]
      /\ ses' = [ses EXCEPT ![r] = newSes]
      /\ pc' = [pc EXCEPT ![r] = "work"]
      /\ UNCHANGED <<db, rsp, cursor, told>>
  BY <1>0 DEF StartSync, ReadClock, TypeOK
<1>2. newJob \in Job /\ newJob.op = job[r].op /\ newJob.push = job[r].push
  BY <1>0, <1>1 DEF TypeOK, Job
<1>3. /\ newSes \in Session /\ newSes.base = ses[r].base
      /\ newSes.mem = ses[r].mem /\ newSes.held = ses[r].held
      /\ newSes.todo = Steps(r)
  BY <1>0, StepsTyped DEF TypeOK, Session
<1>4. /\ job'[r] = newJob /\ ses'[r] = newSes /\ pc'[r] = "work"
      /\ rsp' = [rsp EXCEPT ![r] = rsp[r]] /\ rsp[r] \in Reply
  BY <1>0, <1>1 DEF TypeOK
<1>5. JobOK(r)'
  BY <1>0, <1>2, <1>4 DEF Inv, JobOK, Pushed
<1>6. ASSUME NEW i \in Item PROVE RowOK(r, i)'
  <2>1. ~Loaded(r, i) /\ RowOK(r, i)
    BY <1>0 DEF Loaded, Inv
  <2>2. ~Loaded(r, i)'
    BY <1>2, <1>3, <1>4 DEF Loaded, Steps, Pushed
  <2> QED BY <1>1, <1>3, <1>4, <2>1, <2>2 DEF RowOK
<1>7. \A q \in Req \ {r} : newSes.held \cap ses[q].held = {}
  BY <1>3 DEF Inv, Disjoint
<1>8. /\ newJob \in Job /\ newSes \in Session
  BY <1>2, <1>3
<1>9. /\ job' = [job EXCEPT ![r] = newJob] /\ ses' = [ses EXCEPT ![r] = newSes]
  BY <1>1
<1> HIDE DEF newJob, newSes
<1> QED BY <1>1, <1>4, <1>5, <1>6, <1>7, <1>8, <1>9, InvLocal

LEMMA InvEditRow ==
    ASSUME Inv, NEW r \in Req, EditRow(r) PROVE Inv'
<1>0. /\ TypeOK /\ pc[r] = "begun" /\ job[r].op # "sync"
      /\ clock' = clock + 1 /\ clock' \in Nat
      /\ UNCHANGED <<db, rsp, cursor, told>>
  BY DEF Inv, EditRow, ReadClock, TypeOK
<1>1. PICK i \in Pushed(r) :
        /\ Accepts(job[r].op, db[i])
        /\ ses' = [ses EXCEPT ![r] =
             [NoSes EXCEPT !.base = [Empty EXCEPT ![i] = db[i]],
                           !.mem  = [Empty EXCEPT ![i] =
                               Edit(job[r].op, db[i], job[r].push[i],
                                    job[r].txAt, clock')]]]
  BY DEF EditRow
<1> DEFINE newJob == [job[r] EXCEPT !.now = clock']
           made   == Edit(job[r].op, db[i], job[r].push[i], job[r].txAt, clock')
           newSes == [NoSes EXCEPT !.base = [Empty EXCEPT ![i] = db[i]],
                                   !.mem  = [Empty EXCEPT ![i] = made]]
<1>2. /\ newJob \in Job /\ newJob.op = job[r].op /\ newJob.push = job[r].push
      /\ newJob.txAt = job[r].txAt /\ newJob.now = clock'
      /\ job' = [job EXCEPT ![r] = newJob]
  <2>1. job[r] \in Job
    BY <1>0 DEF TypeOK
  <2>2. job' = [job EXCEPT ![r] = newJob]
    BY DEF EditRow, ReadClock
  <2> QED BY <1>0, <2>1, <2>2 DEF Job
<1>3. /\ i \in Item /\ Pushed(r) = {i} /\ job[r].op \in {"create", "patch", "delete"}
      /\ job[r].push[i] \in Body /\ job[r].txAt \in Nat
      /\ job[r].op = "create" => job[r].push[i] \in Version
      /\ db[i] \in Row \cup {Absent}
  BY <1>0, <1>1 DEF Inv, JobOK, Ops, Pushed, TypeOK, Job
<1>4. made \in Draft
  BY <1>0, <1>1, <1>3, EditTyped
<1>5. /\ newSes \in Session /\ newSes.held = {} /\ newSes.todo = {}
      /\ \A j \in Item : /\ newSes.base[j] = (IF j = i THEN db[i] ELSE Absent)
                         /\ newSes.mem[j] = (IF j = i THEN made ELSE Absent)
  BY <1>3, <1>4, EmptyTyped, NothingTyped DEF NoSes, Session, Empty
<1>6. /\ job'[r] = newJob /\ ses'[r] = newSes /\ pc'[r] = "work"
      /\ pc' = [pc EXCEPT ![r] = "work"] /\ ses' = [ses EXCEPT ![r] = newSes]
      /\ rsp' = [rsp EXCEPT ![r] = rsp[r]] /\ rsp[r] \in Reply
  BY <1>0, <1>1, <1>2 DEF TypeOK, EditRow
<1> HIDE DEF newJob, newSes
<1>7. JobOK(r)'
  BY <1>0, <1>2, <1>5, <1>6 DEF Inv, JobOK, Pushed
<1>8. ASSUME NEW j \in Item PROVE RowOK(r, j)'
  <2>1. Loaded(r, j)' <=> j = i
    BY <1>2, <1>3, <1>5, <1>6 DEF Loaded, Pushed
  <2>2. CASE j # i
    BY <1>5, <1>6, <2>1, <2>2 DEF RowOK
  <2>3. CASE j = i
    <3>1. Result(r, i)' = made
      BY <1>0, <1>2, <1>3, <1>5, <1>6 DEF Result
    <3>2. made # Absent
      BY <1>4, AbsentIsNoRow
    <3> QED BY <1>0, <1>1, <1>2, <1>3, <1>5, <1>6, <2>1, <2>3, <3>1, <3>2 DEF RowOK
  <2> QED BY <2>2, <2>3
<1>9. \A q \in Req \ {r} : newSes.held \cap ses[q].held = {}
  BY <1>5
<1> QED BY <1>0, <1>2, <1>5, <1>6, <1>7, <1>8, <1>9, InvLocal

(* A step of a handler at work moves its session and its reply only.       *)
LEMMA InvSession ==
    ASSUME Inv, NEW r \in Req, NEW newSes \in Session, NEW newRsp \in Reply,
           UNCHANGED <<clock, db, pc, job, cursor, told>>,
           ses' = [ses EXCEPT ![r] = newSes], rsp' = [rsp EXCEPT ![r] = newRsp],
           \A q \in Req \ {r} : newSes.held \cap ses[q].held = {},
           newSes.todo \subseteq ses[r].todo,
           \A i \in Item : RowOK(r, i)'
    PROVE  Inv'
<1>0. TypeOK /\ Disjoint
  BY DEF Inv
<1>1. TypeOK'
  BY <1>0 DEF TypeOK
<1>2. /\ ses'[r] = newSes
      /\ \A q \in Req \ {r} : ses'[q] = ses[q]
  BY <1>0 DEF TypeOK
<1>3. Disjoint'
  BY <1>0, <1>2 DEF Disjoint
<1>4. ASSUME NEW q \in Req PROVE (JobOK(q) /\ \A i \in Item : RowOK(q, i))'
  <2>1. CASE q # r
    BY <1>2, <2>1, Frame DEF Inv
  <2>2. CASE q = r
    BY <1>2, <2>2 DEF Inv, JobOK, Pushed
  <2> QED BY <2>1, <2>2
<1> QED BY <1>1, <1>3, <1>4 DEF Inv

LEMMA InvLoad ==
    ASSUME Inv, NEW r \in Req, NEW t \in Table, Load(r, t) PROVE Inv'
<1> DEFINE here    == Pushed(r) \cap InTable(t)
           made(i) == Upsert(db[i], job[r].push[i], job[r].txAt, job[r].now)
           newSes  == [base |-> [i \in Item |-> IF i \in here THEN db[i] ELSE ses[r].base[i]],
                       mem  |-> [i \in Item |-> IF i \in here THEN made(i) ELSE ses[r].mem[i]],
                       held |-> ses[r].held,
                       todo |-> ses[r].todo \ {LoadOf(t)}]
<1>0. /\ TypeOK /\ pc[r] = "work" /\ LoadOf(t) \in ses[r].todo
      /\ job[r].op = "sync"
      /\ UNCHANGED <<clock, db, pc, job, rsp, cursor, told>>
      /\ ses' = [ses EXCEPT ![r] = newSes]
  BY DEF Inv, Load, Doing, JobOK
<1>1. ASSUME NEW i \in Item, i \in here PROVE made(i) \in Draft
  <2>1. /\ db[i] \in Row \cup {Absent} /\ job[r].push[i] \in Version
        /\ job[r].txAt \in Nat /\ job[r].now \in Nat
    BY <1>0, <1>1 DEF Inv, TypeOK, JobOK, Pushed, Job
  <2> QED BY <2>1, UpsertTyped
<1>2. newSes \in Session
  <2>1. ses[r] \in Session /\ db \in [Item -> Row \cup {Absent}]
    BY <1>0 DEF TypeOK
  <2> QED BY <1>1, <2>1 DEF Session
<1>3. /\ newSes.held = ses[r].held /\ newSes.todo = ses[r].todo \ {LoadOf(t)}
      /\ \A i \in Item :
           /\ newSes.base[i] = (IF i \in here THEN db[i] ELSE ses[r].base[i])
           /\ newSes.mem[i] = (IF i \in here THEN made(i) ELSE ses[r].mem[i])
  OBVIOUS
<1>4. /\ ses'[r] = newSes /\ job'[r] = job[r] /\ pc'[r] = "work"
      /\ rsp' = [rsp EXCEPT ![r] = rsp[r]]
      /\ rsp[r] \in Reply
  BY <1>0 DEF TypeOK
<1> HIDE DEF newSes
<1>6. ASSUME NEW i \in Item PROVE RowOK(r, i)'
  <2>1. RowOK(r, i)
    BY DEF Inv
  <2>2. CASE i \in here
    <3>1. ~Loaded(r, i) /\ i \notin ses[r].held
      BY <1>0, <2>1, <2>2 DEF Loaded, InTable, RowOK
    <3>2. Loaded(r, i)' /\ Result(r, i)' = made(i)
      BY <1>0, <1>3, <1>4, <2>2 DEF Loaded, InTable, Pushed, Result
    <3> QED BY <1>0, <1>3, <1>4, <2>2, <3>1, <3>2 DEF RowOK
  <2>3. CASE i \notin here
    <3>1. /\ Loaded(r, i)' <=> Loaded(r, i)
          /\ Result(r, i)' = Result(r, i)
          /\ ses'[r].base[i] = ses[r].base[i] /\ ses'[r].mem[i] = ses[r].mem[i]
          /\ ses'[r].held = ses[r].held
      <4>1. LoadOf(TableOf[i]) = LoadOf(t) => i \in InTable(t)
        BY DEF LoadOf, InTable
      <4> QED BY <1>0, <1>3, <1>4, <2>3, <4>1 DEF Loaded, Pushed, Result
    <3> QED BY <1>0, <1>4, <2>1, <3>1 DEF RowOK
  <2> QED BY <2>2, <2>3
<1>7. \A q \in Req \ {r} : newSes.held \cap ses[q].held = {}
  BY <1>3 DEF Inv, Disjoint
<1> QED BY <1>0, <1>2, <1>3, <1>4, <1>6, <1>7, InvSession

LEMMA InvFlush ==
    ASSUME Inv, NEW r \in Req, Flush(r) PROVE Inv'
<1> DEFINE newSes == [ses[r] EXCEPT !.held = @ \cup Pending(r)]
<1>0. /\ TypeOK /\ pc[r] = "work"
      /\ Pending(r) \cap HeldByOthers(r) = {}
      /\ \A i \in Pending(r) : ~Broken(r, i)
      /\ UNCHANGED <<clock, db, pc, job, rsp, cursor, told>>
      /\ ses' = [ses EXCEPT ![r] = newSes]
  BY DEF Inv, Flush
<1>1. Pending(r) \subseteq Item
  BY DEF Pending
<1>2. /\ newSes \in Session /\ newSes.base = ses[r].base
      /\ newSes.mem = ses[r].mem /\ newSes.todo = ses[r].todo
      /\ newSes.held = ses[r].held \cup Pending(r)
  <2>1. ses[r] \in Session
    BY <1>0 DEF TypeOK
  <2> QED BY <1>1, <2>1 DEF Session
<1>3. /\ ses'[r] = newSes /\ job'[r] = job[r] /\ pc'[r] = "work"
      /\ rsp' = [rsp EXCEPT ![r] = rsp[r]]
      /\ rsp[r] \in Reply
  BY <1>0 DEF TypeOK
<1> HIDE DEF newSes
<1>5. ASSUME NEW i \in Item PROVE RowOK(r, i)'
  <2>1. RowOK(r, i)
    BY DEF Inv
  <2>2. Loaded(r, i)' <=> Loaded(r, i)
    BY <1>0, <1>2, <1>3 DEF Loaded, Pushed
  <2>3. Result(r, i)' = Result(r, i)
    BY <1>2, <1>3 DEF Result
  <2>4. ~Loaded(r, i) => i \notin Pending(r)
    BY <2>1 DEF RowOK, Pending
  <2>5. i \in Pending(r) => /\ ses[r].mem[i] # ses[r].base[i]
                            /\ Fits(ses[r].mem[i])
                            /\ ses[r].base[i] = Absent => db[i] = Absent
    BY <1>0 DEF Pending, Broken
  <2> QED BY <1>0, <1>2, <1>3, <2>1, <2>2, <2>3, <2>4, <2>5 DEF RowOK
<1>6. \A q \in Req \ {r} : newSes.held \cap ses[q].held = {}
  BY <1>0, <1>2 DEF Inv, Disjoint, HeldByOthers
<1> QED BY <1>0, <1>2, <1>3, <1>5, <1>6, InvSession

(* Reading a table for the reply moves todo on and builds the reply.       *)
LEMMA InvRead ==
    ASSUME Inv, NEW r \in Req, NEW step \in 4..9, NEW newRsp \in Reply,
           pc[r] = "work", UNCHANGED <<clock, db, pc, job, cursor, told>>,
           ses' = [ses EXCEPT ![r].todo = @ \ {step}],
           rsp' = [rsp EXCEPT ![r] = newRsp]
    PROVE  Inv'
<1> DEFINE newSes == [ses[r] EXCEPT !.todo = @ \ {step}]
<1>0. TypeOK /\ ses' = [ses EXCEPT ![r] = newSes]
  BY DEF Inv
<1>1. /\ newSes \in Session /\ newSes.base = ses[r].base
      /\ newSes.mem = ses[r].mem /\ newSes.held = ses[r].held
      /\ newSes.todo = ses[r].todo \ {step}
  <2>1. ses[r] \in Session
    BY <1>0 DEF TypeOK
  <2> QED BY <2>1 DEF Session
<1>2. /\ ses'[r] = newSes /\ job'[r] = job[r] /\ pc'[r] = "work"
  BY <1>0 DEF TypeOK
<1> HIDE DEF newSes
<1>4. ASSUME NEW i \in Item PROVE RowOK(r, i)'
  <2>1. RowOK(r, i)
    BY DEF Inv
  <2>2. LoadOf(TableOf[i]) # step
    BY TablesAreTyped DEF LoadOf
  <2>3. Loaded(r, i)' <=> Loaded(r, i)
    BY <1>1, <1>2, <2>2 DEF Loaded, Pushed
  <2>4. Result(r, i)' = Result(r, i)
    BY <1>1, <1>2 DEF Result
  <2> QED BY <1>1, <1>2, <2>1, <2>3, <2>4 DEF RowOK
<1>5. \A q \in Req \ {r} : newSes.held \cap ses[q].held = {}
  BY <1>1 DEF Inv, Disjoint
<1> QED BY <1>0, <1>1, <1>4, <1>5, InvSession

LEMMA InvPull ==
    ASSUME Inv, NEW r \in Req, NEW t \in Table, Pull(r, t) PROVE Inv'
<1> DEFINE newRows == [i \in Item |->
                 IF i \notin InTable(t) THEN rsp[r].rows[i]
                 ELSE IF Changed(r, i) \/ i \in Lost(r)
                      THEN Ver(Object(r, i))
                      ELSE Absent]
           newRsp == [rsp[r] EXCEPT !.rows = newRows]
<1>0. /\ TypeOK /\ pc[r] = "work" /\ rsp[r] \in Reply
      /\ UNCHANGED <<clock, db, pc, job, cursor, told>>
      /\ ses' = [ses EXCEPT ![r].todo = @ \ {PullOf(t)}]
      /\ rsp' = [rsp EXCEPT ![r] = newRsp]
  BY DEF Inv, Pull, Doing, TypeOK
<1>1. ASSUME NEW i \in Item PROVE Ver(Object(r, i)) \in Version \cup {Absent}
  <2>1. Seen(r, i) \in Draft \cup {Absent}
    BY SeenTyped, RowIsDraft DEF Inv
  <2>2. ses[r].mem[i] \in Draft \cup {Absent}
    BY <1>0 DEF TypeOK, Session
  <2> QED BY <2>1, <2>2, VerTyped DEF Object
<1>2. newRsp \in Reply
  <2>1. newRows \in [Item -> Version \cup {Absent}]
    BY <1>0, <1>1 DEF Reply
  <2> HIDE DEF newRows
  <2> QED BY <1>0, <2>1 DEF Reply
<1>3. PullOf(t) \in 4..9
  BY DEF PullOf, Table
<1> HIDE DEF newRsp
<1> QED BY <1>0, <1>2, <1>3, InvRead

LEMMA InvTop ==
    ASSUME Inv, NEW r \in Req, NEW t \in Table, Top(r, t) PROVE Inv'
<1> DEFINE rows   == {i \in InTable(t) : Seen(r, i) # Absent}
           stamps == {rsp[r].top} \cup {Seen(r, i).upd : i \in rows}
<1>0. /\ TypeOK /\ pc[r] = "work" /\ rsp[r] \in Reply
      /\ UNCHANGED <<clock, db, pc, job, cursor, told>>
      /\ ses' = [ses EXCEPT ![r].todo = @ \ {TopOf(t)}]
  BY DEF Inv, Top, Doing, TypeOK
<1>1. PICK newest \in stamps : rsp' = [rsp EXCEPT ![r].top = newest]
  BY DEF Top
<1> DEFINE newRsp == [rsp[r] EXCEPT !.top = newest]
<1>2. newest \in Nat
  <2>1. ASSUME NEW i \in rows PROVE Seen(r, i).upd \in Nat
    BY <2>1, SeenTyped DEF Inv, InTable, Row
  <2> QED BY <1>0, <1>1, <2>1 DEF Reply
<1>3. newRsp \in Reply
  BY <1>0, <1>2 DEF Reply
<1>4. rsp' = [rsp EXCEPT ![r] = newRsp]
  BY <1>1
<1>5. TopOf(t) \in 4..9
  BY DEF TopOf, Table
<1> HIDE DEF newRsp
<1> QED BY <1>0, <1>3, <1>4, <1>5, InvRead

LEMMA InvCommit ==
    ASSUME Inv, NEW r \in Req, Commit(r) PROVE Inv'
<1>0. /\ TypeOK /\ Disjoint /\ pc[r] = "work"
      /\ db' = [i \in Item |-> Seen(r, i)]
      /\ pc' = [pc EXCEPT ![r] = "reply"] /\ ses' = [ses EXCEPT ![r] = NoSes]
      /\ UNCHANGED <<clock, job, rsp, cursor, told>>
  BY DEF Inv, Commit
<1>1. ASSUME NEW i \in Item
      PROVE  Seen(r, i) \in Row \cup {Absent} /\ (Seen(r, i) = Absent => db[i] = Absent)
  BY SeenTyped DEF Inv
<1>2. TypeOK'
  BY <1>0, <1>1, NothingTyped DEF TypeOK
<1>3. /\ ses'[r] = NoSes /\ pc'[r] = "reply" /\ job'[r] = job[r]
      /\ \A q \in Req \ {r} : /\ ses'[q] = ses[q] /\ pc'[q] = pc[q]
                              /\ job'[q] = job[q]
  BY <1>0 DEF TypeOK
<1>4. Disjoint'
  BY <1>0, <1>3 DEF Disjoint, NoSes
<1>5. ASSUME NEW q \in Req PROVE (JobOK(q) /\ \A i \in Item : RowOK(q, i))'
  <2>1. CASE q # r
    <3>1. ASSUME NEW i \in ses[q].held PROVE db'[i] = db[i]
      BY <1>0, <2>1, <3>1 DEF Disjoint, Seen, TypeOK, Session
    <3>2. JobOK(q) /\ \A i \in Item : RowOK(q, i)
      BY DEF Inv
    <3> QED BY <1>0, <1>1, <1>3, <2>1, <3>1, <3>2, Frame
  <2>2. CASE q = r
    <3>1. JobOK(r)'
      BY <1>0, <1>3 DEF Inv, JobOK, Pushed
    <3>2. ASSUME NEW i \in Item PROVE RowOK(r, i)'
      BY <1>3, NothingTyped DEF RowOK, Loaded
    <3> QED BY <2>2, <3>1, <3>2
  <2> QED BY <2>1, <2>2
<1> QED BY <1>2, <1>4, <1>5 DEF Inv

LEMMA InvStutter == ASSUME Inv, UNCHANGED vars PROVE Inv'
BY DEF Inv, TypeOK, Disjoint, JobOK, RowOK, Loaded, Pushed, Result, vars

LEMMA InvNext == Inv /\ [Next]_vars => Inv'
<1> SUFFICES ASSUME Inv, [Next]_vars PROVE Inv'
  OBVIOUS
<1>1. CASE UNCHANGED vars
  BY <1>1, InvStutter
<1>2. CASE Rest
  BY <1>2, InvStutter DEF Rest
<1>3. ASSUME NEW r \in Req,
             BeginSync(r) \/ BeginCreate(r) \/ BeginPatch(r) \/ BeginDelete(r)
      PROVE  Inv'
  BY <1>3, InvBegins
<1>4. ASSUME NEW r \in Req, Lose(r) \/ Abort(r) PROVE Inv'
  BY <1>4, InvEnds
<1>5. ASSUME NEW r \in Req, Proceed(r) PROVE Inv'
  <2>1. CASE StartSync(r)
    BY <2>1, InvStartSync
  <2>2. CASE EditRow(r)
    BY <2>2, InvEditRow
  <2>3. ASSUME NEW t \in Table, Load(r, t) PROVE Inv'
    BY <2>3, InvLoad
  <2>4. ASSUME NEW t \in Table, Pull(r, t) PROVE Inv'
    BY <2>4, InvPull
  <2>5. ASSUME NEW t \in Table, Top(r, t) PROVE Inv'
    BY <2>5, InvTop
  <2>6. CASE Flush(r)
    BY <2>6, InvFlush
  <2>7. CASE Commit(r)
    BY <2>7, InvCommit
  <2>8. CASE Deliver(r) \/ Reject(r) \/ StatementError(r)
    BY <2>8, InvEnds
  <2> QED BY <1>5, <2>1, <2>2, <2>3, <2>4, <2>5, <2>6, <2>7, <2>8 DEF Proceed
<1> QED BY <1>1, <1>2, <1>3, <1>4, <1>5 DEF Next

LEMMA Invariance == Spec => []Inv
BY InvInit, InvNext, PTL DEF Spec

(* Every variable keeps its type: whatever is pushed, incremented or raced *)
(* for, no committed revision is outside its column.                       *)
THEOREM TypeCorrect == Spec => []TypeOK
<1>1. Inv => TypeOK
  BY DEF Inv
<1> QED BY <1>1, Invariance, PTL

-----------------------------------------------------------------------------
(* What a commit makes of the rows.                                        *)

(* At the commit every pushed row is loaded, and locked if it changes.     *)
LEMMA AtCommit ==
    ASSUME Inv, NEW r \in Req, Commit(r), NEW i \in Item
    PROVE  /\ TypeOK /\ JobOK(r) /\ RowOK(r, i)
           /\ job[r].op \in Ops
           /\ i \in Pushed(r) <=> Loaded(r, i)
           /\ i \notin ses[r].held => ses[r].mem[i] = ses[r].base[i]
           /\ db'[i] = Seen(r, i)
<1>1. pc[r] = "work" /\ ses[r].todo = {} /\ Pending(r) = {}
  BY DEF Commit
<1>2. TypeOK /\ JobOK(r) /\ RowOK(r, i)
  BY DEF Inv
<1> QED BY <1>1, <1>2 DEF JobOK, Loaded, Pending, Commit

(* An UPDATE of the row that was loaded writes the whole row in memory.    *)
LEMMA UnracedRow ==
    ASSUME Inv, NEW r \in Req, Commit(r), NEW i \in Pushed(r),
           ses[r].base[i] = db[i]
    PROVE  db'[i] = Result(r, i)
<1>0. /\ i \in Item /\ RowOK(r, i) /\ Loaded(r, i) /\ db'[i] = Seen(r, i)
      /\ i \notin ses[r].held => ses[r].mem[i] = ses[r].base[i]
      /\ ses[r].mem[i] = Result(r, i) /\ ses[r].mem[i] \in Draft
  BY AtCommit, ResultTyped DEF Pushed, RowOK
<1>1. CASE i \notin ses[r].held
  BY <1>0, <1>1 DEF Seen
<1>2. CASE i \in ses[r].held /\ ses[r].base[i] = Absent
  BY <1>0, <1>2 DEF Seen, Merged
<1>3. CASE i \in ses[r].held /\ ses[r].base[i] # Absent
  <2>1. ses[r].base[i] = db[i] /\ db[i] \in Row
    BY <1>0, <1>3, AtCommit DEF TypeOK
  <2>2. Merged(r, i) = [rev |-> ses[r].mem[i].rev, val |-> ses[r].mem[i].val,
                        del |-> ses[r].mem[i].del, upd |-> ses[r].mem[i].upd]
    BY <1>3, <2>1 DEF Merged, Column
  <2>3. Merged(r, i) = ses[r].mem[i]
    BY <1>0, <2>2 DEF Draft
  <2> QED BY <1>0, <1>3, <2>3 DEF Seen
<1> QED BY <1>1, <1>2, <1>3

(* A row the request is not about stays as it is.                          *)
LEMMA OtherRow ==
    ASSUME Inv, NEW r \in Req, Commit(r), NEW i \in Item, i \notin Pushed(r)
    PROVE  db'[i] = db[i]
BY AtCommit DEF RowOK, Seen

(* What last-write-wins makes of a stored version.                         *)
LEMMA UpsertIsWinner ==
    ASSUME NEW old \in Row \cup {Absent}, NEW v \in Version,
           NEW txAt \in Nat, NEW now \in Nat
    PROVE  Ver(Upsert(old, v, txAt, now)) = Store!Winner(Ver(old), v)
<1>1. Absent \notin Version /\ Absent \notin Row
  BY VersionIsBody, AbsentIsNoValue, RowIsDraft, AbsentIsNoRow
<1>2. \A t \in Nat : Ver(Stamp(v, t)) = v
  <2>1. \A t \in Nat : Stamp(v, t) # Absent
    BY StampTyped, AbsentIsNoRow
  <2> QED BY <2>1 DEF Ver, Stamp, Version
<1>3. CASE old = Absent
  BY <1>2, <1>3 DEF Upsert, Store!Winner, Ver
<1>4. CASE old # Absent
  <2>1. Ver(old) # Absent /\ Ver(old).rev = old.rev /\ old.rev \in Nat /\ v.rev \in Nat
    BY <1>1, <1>4 DEF Ver, Row, Version
  <2> QED BY <1>2, <1>4, <2>1 DEF Upsert, Store!Winner
<1> QED BY <1>3, <1>4

LEMMA EditIsPromised ==
    ASSUME NEW op \in {"create", "patch", "delete"}, NEW old \in Row \cup {Absent},
           NEW body \in Body, op = "create" => body \in Version,
           Accepts(op, old), NEW txAt \in Nat, NEW now \in Nat
    PROVE  /\ op = "create" => /\ Ver(old) = Absent
                               /\ Ver(Edit(op, old, body, txAt, now)) = body
           /\ op # "create" => Live(Ver(old))
           /\ op = "patch"  => Ver(Edit(op, old, body, txAt, now)) = Overlay(Ver(old), body)
           /\ op = "delete" => Ver(Edit(op, old, body, txAt, now)) = Tombstone(Ver(old))
<1>1. Edit(op, old, body, txAt, now) # Absent
  BY EditTyped, AbsentIsNoRow
<1>2. CASE op = "create"
  BY <1>1, <1>2 DEF Edit, Accepts, Ver, Stamp, Version
<1>3. CASE op # "create"
  <2>1. old \in Row /\ old # Absent /\ ~old.del
    BY <1>3 DEF Accepts, Live
  <2>2. /\ Ver(old) = [rev |-> old.rev, val |-> old.val, del |-> old.del]
        /\ Ver(old) # Absent
    <3>1. [rev |-> old.rev, val |-> old.val, del |-> old.del] \in Version
      BY <2>1, RowIsDraft DEF Draft, Version
    <3> QED BY <2>1, <3>1, VersionIsBody, AbsentIsNoValue DEF Ver
  <2>3. Live(Ver(old))
    BY <2>1, <2>2 DEF Live
  <2>4. CASE op = "patch"
    BY <1>1, <2>1, <2>2, <2>3, <2>4 DEF Edit, Ver, Stamp, Overlay
  <2>5. CASE op = "delete"
    BY <1>1, <2>1, <2>2, <2>3, <2>5 DEF Edit, Ver, Stamp, Tombstone
  <2> QED BY <1>3, <2>3, <2>4, <2>5
<1> QED BY <1>2, <1>3

LEMMA UnracedCommit ==
    ASSUME Inv, Inv', NEW r \in Req, Commit(r), Unraced(r)
    PROVE  Promise(r)
<1> DEFINE old == [i \in Item |-> Ver(db[i])]
           new == [i \in Item |-> Ver(db'[i])]
<1>0. /\ TypeOK /\ JobOK(r) /\ job[r].op \in Ops /\ job[r] \in Job
      /\ \A i \in Item : RowOK(r, i)
  BY DEF Inv, TypeOK, JobOK, Commit
<1>1. \A i \in Item : Fits(new[i])
  BY BodiesAreTyped DEF Inv, TypeOK, Fits, Ver, Row
<1>2. \A i \in Pushed(r) : db'[i] = Result(r, i) /\ ses[r].base[i] = db[i]
  BY UnracedRow DEF Unraced
<1>3. \A i \in Item \ Pushed(r) : new[i] = old[i]
  BY OtherRow
<1>4. CASE job[r].op = "sync"
  <2>1. ASSUME NEW i \in Pushed(r)
        PROVE  new[i] = Store!Winner(old[i], job[r].push[i])
    <3>1. /\ i \in Item /\ db[i] \in Row \cup {Absent} /\ job[r].push[i] \in Version
          /\ job[r].txAt \in Nat /\ job[r].now \in Nat
      BY <1>0, <1>4 DEF TypeOK, JobOK, Pushed, Job
    <3>2. db'[i] = Upsert(db[i], job[r].push[i], job[r].txAt, job[r].now)
      BY <1>2, <1>4 DEF Result
    <3> QED BY <3>1, <3>2, UpsertIsWinner
  <2>2. new = [i \in Item |-> IF job[r].push[i] = Absent THEN old[i]
                              ELSE Store!Winner(old[i], job[r].push[i])]
    BY <1>3, <2>1 DEF Pushed
  <2> QED BY <1>1, <1>4, <2>2 DEF Promise, Store!Push, Store!Fits, Fits
<1>5. CASE job[r].op # "sync"
  <2>1. PICK i \in Item : Pushed(r) = {i}
    BY <1>0, <1>5 DEF JobOK
  <2>2. /\ job[r].op \in {"create", "patch", "delete"}
        /\ job[r].push[i] \in Body /\ job[r].txAt \in Nat /\ job[r].now \in Nat
        /\ job[r].op = "create" => job[r].push[i] \in Version
        /\ db[i] \in Row \cup {Absent}
    BY <1>0, <1>5, <2>1 DEF TypeOK, JobOK, Pushed, Job, Ops
  <2>3. Accepts(job[r].op, db[i])
    BY <1>0, <1>2, <1>5, <2>1, AtCommit DEF RowOK
  <2>4. db'[i] = Edit(job[r].op, db[i], job[r].push[i], job[r].txAt, job[r].now)
    BY <1>2, <1>5, <2>1 DEF Result
  <2>5. new = [old EXCEPT ![i] = new[i]] /\ Fits(new[i])
    BY <1>1, <1>3, <2>1
  <2>6. CASE job[r].op = "create"
    <3>1. old[i] = Absent /\ new[i] = job[r].push[i]
      BY <2>2, <2>3, <2>4, <2>6, EditIsPromised
    <3> QED BY <2>1, <2>5, <2>6, <3>1 DEF Promise, Store!Create, Store!Put, Store!Fits, Fits
  <2>7. CASE job[r].op = "patch"
    <3>1. Live(old[i]) /\ new[i] = Overlay(old[i], job[r].push[i])
      BY <2>2, <2>3, <2>4, <2>7, EditIsPromised
    <3> QED BY <2>1, <2>5, <2>7, <3>1
            DEF Promise, Store!Patch, Store!Put, Store!Fits, Fits,
                Store!Live, Live, Store!Overlay, Overlay, Store!Sent, Sent
  <2>8. CASE job[r].op = "delete"
    <3>1. Live(old[i]) /\ new[i] = Tombstone(old[i])
      BY <2>2, <2>3, <2>4, <2>8, EditIsPromised
    <3> QED BY <2>1, <2>5, <2>8, <3>1
            DEF Promise, Store!Delete, Store!Put, Store!Fits, Fits,
                Store!Live, Live, Store!Tombstone, Tombstone
  <2> QED BY <2>2, <2>6, <2>7, <2>8
<1> QED BY <1>4, <1>5

(* A request whose rows nobody changed between its select and its commit   *)
(* is one step of the abstract store, whatever else runs at the same time: *)
(* the push is last-write-wins as a whole, an edit sees what it edits.     *)
THEOREM UnracedCommitsAreAtomic == Spec => UnracedCommitIsAtomic
<1>1. Inv /\ Inv' /\ [Next]_vars =>
        [\A r \in Req : Commit(r) /\ Unraced(r) => Promise(r)]_vars
  BY UnracedCommit
<1> QED BY <1>1, Invariance, PTL DEF Spec, UnracedCommitIsAtomic

LEMMA RetriedRow ==
    ASSUME Inv, NEW r \in Req, Commit(r), job[r].op = "sync",
           NEW i \in Pushed(r), Ver(db[i]) = job[r].push[i]
    PROVE  Ver(db'[i]) = Ver(db[i])
<1>0. /\ i \in Item /\ RowOK(r, i) /\ Loaded(r, i) /\ db'[i] = Seen(r, i)
      /\ job[r].push[i] # Absent
  BY AtCommit DEF Pushed
<1>1. CASE i \notin ses[r].held
  BY <1>0, <1>1 DEF Seen
<1>2. CASE i \in ses[r].held
  <2>1. ses[r].base[i] # Absent
    BY <1>0, <1>2 DEF RowOK, Ver
  <2>2. /\ ses[r].mem[i] = Stamp(job[r].push[i], job[r].now)
        /\ ses[r].mem[i] \in Draft
    BY <1>0, <1>2, <2>1, AtCommit, ResultTyped DEF RowOK, Result, Upsert
  <2>3. db[i] # Absent
    BY <1>0, <2>1 DEF RowOK
  <2>4. /\ db[i].rev = ses[r].mem[i].rev /\ db[i].val = ses[r].mem[i].val
        /\ db[i].del = ses[r].mem[i].del
    BY <2>2, <2>3 DEF Ver, Stamp
  <2>5. Seen(r, i) # Absent /\ Seen(r, i) = Merged(r, i)
    BY <1>0, <1>2, AtCommit, SeenTyped DEF Seen
  <2>6. /\ Merged(r, i).rev = db[i].rev /\ Merged(r, i).val = db[i].val
        /\ Merged(r, i).del = db[i].del
    BY <2>1, <2>4 DEF Merged, Column
  <2> QED BY <1>0, <2>3, <2>5, <2>6 DEF Ver
<1> QED BY <1>1, <1>2

(* Sending again what is stored already changes no stored version, in any  *)
(* interleaving.                                                           *)
THEOREM RetriesChangeNothing == Spec => RetryChangesNothing
<1>1. Inv /\ [Next]_vars =>
        [\A r \in Req : Commit(r) /\ job[r].op = "sync" =>
           \A i \in Pushed(r) :
             Ver(db[i]) = job[r].push[i] => Ver(db'[i]) = Ver(db[i])]_vars
  BY RetriedRow
<1> QED BY <1>1, Invariance, PTL DEF Spec, RetryChangesNothing

-----------------------------------------------------------------------------
(* The stamps.  Every reading of the clock is taken once: the stamps a     *)
(* request may still write lie after the cursor it was sent, no committed  *)
(* or loaded row carries them, and no other request has them.              *)
Stamps(r) == CASE pc[r] = "begun" -> {job[r].txAt}
               [] pc[r] = "work"  -> {job[r].txAt, job[r].now}
               [] OTHER           -> {}

(* What rows, replies and cursors carry has been read from the clock.      *)
Past == /\ \A d \in Dev : cursor[d] <= clock
        /\ \A i \in Item : db[i] # Absent => db[i].upd <= clock
        /\ \A r \in Req : rsp[r].top <= clock

Taken(r) ==
    /\ pc[r] \in {"begun", "work"} => job[r].since < job[r].txAt /\ job[r].txAt <= clock
    /\ pc[r] = "work" => job[r].txAt < job[r].now /\ job[r].now <= clock

Fresh(r) ==
    /\ \A i \in Item : db[i] # Absent => db[i].upd \notin Stamps(r)
    /\ \A i \in Item : ses[r].base[i] # Absent => ses[r].base[i].upd \notin Stamps(r)
    /\ \A q \in Req \ {r} : Stamps(q) \cap Stamps(r) = {}

TimeOK == Past /\ \A r \in Req : Taken(r) /\ Fresh(r)

(* A row the session changed carries the stamp of its insert or update.    *)
LEMMA HeldStamp ==
    ASSUME Inv, NEW r \in Req, NEW i \in ses[r].held
    PROVE  /\ i \in Item /\ Loaded(r, i)
           /\ ses[r].mem[i] # Absent
           /\ ses[r].mem[i].upd = IF ses[r].base[i] = Absent THEN job[r].txAt
                                                              ELSE job[r].now
<1>1. i \in Item
  BY DEF Inv, TypeOK, Session
<1>2. /\ TypeOK /\ JobOK(r) /\ RowOK(r, i) /\ Loaded(r, i)
      /\ ses[r].mem[i] = Result(r, i) /\ ses[r].mem[i] # ses[r].base[i]
  BY <1>1 DEF Inv, RowOK
<1>3. ses[r].mem[i] # Absent
  BY <1>1, <1>2, ResultTyped, AbsentIsNoRow
<1>4. CASE job[r].op = "sync"
  BY <1>1, <1>2, <1>3, <1>4 DEF Result, Upsert, Stamp
<1>5. CASE job[r].op # "sync"
  <2>1. /\ job[r].op \in {"create", "patch", "delete"}
        /\ Accepts(job[r].op, ses[r].base[i])
    BY <1>2, <1>5 DEF JobOK, Ops, Loaded, RowOK
  <2>2. job[r].op = "create" <=> ses[r].base[i] = Absent
    BY <2>1 DEF Accepts, Live
  <2>3. Result(r, i) = Edit(job[r].op, ses[r].base[i], job[r].push[i],
                            job[r].txAt, job[r].now)
    BY <1>5 DEF Result
  <2>4. CASE job[r].op = "create"
    BY <1>1, <1>2, <1>3, <2>2, <2>3, <2>4 DEF Edit, Stamp
  <2>5. CASE job[r].op = "patch"
    BY <1>1, <1>2, <1>3, <2>2, <2>3, <2>5 DEF Edit, Stamp
  <2>6. CASE job[r].op = "delete"
    BY <1>1, <1>2, <1>3, <2>2, <2>3, <2>6 DEF Edit, Stamp
  <2> QED BY <2>1, <2>4, <2>5, <2>6
<1> QED BY <1>1, <1>2, <1>3, <1>4, <1>5

(* The row a request sees carries the committed stamp or one of its own.   *)
LEMMA SeenStamp ==
    ASSUME Inv, NEW r \in Req, NEW i \in Item, Seen(r, i) # Absent
    PROVE  \/ db[i] # Absent /\ Seen(r, i).upd = db[i].upd
           \/ Seen(r, i).upd \in Stamps(r)
<1>1. CASE i \notin ses[r].held
  BY <1>1 DEF Seen
<1>2. CASE i \in ses[r].held
  <2>1. /\ ses[r].mem[i].upd \in Stamps(r)
        /\ ses[r].base[i] # Absent => db[i] # Absent
    BY <1>2, HeldStamp DEF Stamps, Loaded, Inv, RowOK
  <2>2. CASE ses[r].base[i] = Absent
    BY <1>2, <2>1, <2>2 DEF Seen, Merged
  <2>3. CASE ses[r].base[i] # Absent
    BY <1>2, <2>1, <2>3 DEF Seen, Merged, Column
  <2> QED BY <2>2, <2>3
<1> QED BY <1>1, <1>2

LEMMA StampsPast ==
    ASSUME TypeOK, NEW r \in Req, Taken(r)
    PROVE  Stamps(r) \subseteq Nat /\ \A s \in Stamps(r) : s <= clock
<1>1. clock \in Nat /\ job[r].txAt \in Nat /\ job[r].now \in Nat
  BY DEF TypeOK, Job
<1>2. CASE pc[r] = "begun"
  BY <1>1, <1>2 DEF Taken, Stamps
<1>3. CASE pc[r] = "work"
  BY <1>1, <1>3 DEF Taken, Stamps
<1>4. CASE pc[r] \notin {"begun", "work"}
  BY <1>4 DEF Stamps
<1> QED BY <1>2, <1>3, <1>4

(* A step of one request leaves the stamps of the others alone.            *)
LEMMA TimeStep ==
    ASSUME TypeOK, TypeOK', TimeOK, NEW r \in Req, clock <= clock',
           \A q \in Req \ {r} : /\ pc'[q] = pc[q] /\ job'[q] = job[q]
                                /\ ses'[q] = ses[q],
           \A q \in Req \ {r}, i \in Item :
              db'[i] # Absent => db'[i].upd \notin Stamps(q),
           Past', Taken(r)', Fresh(r)'
    PROVE  TimeOK'
<1>1. clock \in Nat /\ clock' \in Nat
  BY DEF TypeOK
<1>2. ASSUME NEW q \in Req, q # r PROVE Taken(q)' /\ Fresh(q)'
  <2>1. /\ pc'[q] = pc[q] /\ job'[q] = job[q] /\ ses'[q] = ses[q]
        /\ job[q] \in Job /\ Taken(q) /\ Fresh(q)
    BY <1>2 DEF TypeOK, TimeOK
  <2>2. Taken(q)'
    BY <1>1, <2>1 DEF Taken, Job
  <2>3. Stamps(q)' = Stamps(q)
    BY <2>1 DEF Stamps
  <2>4. ASSUME NEW p \in Req, p # q PROVE Stamps(p)' \cap Stamps(q)' = {}
    <3>1. CASE p = r
      BY <1>2, <3>1 DEF Fresh
    <3>2. CASE p # r
      <4>1. Stamps(p)' = Stamps(p)
        BY <3>2 DEF Stamps
      <4> QED BY <2>1, <2>3, <2>4, <4>1 DEF Fresh
    <3> QED BY <3>1, <3>2
  <2>5. Fresh(q)'
    BY <1>2, <2>1, <2>3, <2>4 DEF Fresh
  <2> QED BY <2>2, <2>5
<1> QED BY <1>2 DEF TimeOK

(* The next reading of the clock is nobody's stamp yet.                    *)
LEMMA OthersStamps ==
    ASSUME TypeOK, TimeOK, NEW r \in Req, NEW q \in Req \ {r},
           clock' = clock + 1, pc'[q] = pc[q], job'[q] = job[q]
    PROVE  Stamps(q)' = Stamps(q) /\ clock' \notin Stamps(q)
<1>1. Stamps(q)' = Stamps(q)
  BY DEF Stamps
<1>2. clock \in Nat /\ Taken(q)
  BY DEF TypeOK, TimeOK
<1>3. clock' \notin Stamps(q)
  <2> SUFFICES ASSUME clock' \in Stamps(q) PROVE FALSE
    OBVIOUS
  <2> QED BY <1>2, StampsPast
<1> QED BY <1>1, <1>3

LEMMA TimeInit == Init => TimeOK
<1> SUFFICES ASSUME Init PROVE TimeOK
  OBVIOUS
<1>1. Past
  BY DEF Init, Past, Empty, NoRsp
<1>2. ASSUME NEW r \in Req PROVE Taken(r) /\ Fresh(r)
  <2>1. \A q \in Req : Stamps(q) = {}
    BY DEF Init, Stamps
  <2> QED BY <2>1 DEF Init, Taken, Fresh
<1> QED BY <1>1, <1>2 DEF TimeOK

LEMMA TimeBegin ==
    ASSUME Inv, Inv', TimeOK, NEW r \in Req, NEW op, NEW d, NEW push,
           NEW since \in Nat, since <= clock, Begin(r, op, d, push, since)
    PROVE  TimeOK'
<1>0. /\ TypeOK /\ TypeOK' /\ clock' = clock + 1 /\ clock \in Nat
      /\ UNCHANGED <<db, ses, rsp, cursor, told>>
      /\ pc[r] = "idle"
      /\ \A q \in Req \ {r} : pc'[q] = pc[q] /\ job'[q] = job[q]
      /\ pc'[r] = "begun" /\ job'[r].txAt = clock' /\ job'[r].since = since
  BY DEF Inv, TypeOK, Begin
<1>1. /\ \A x \in Dev : cursor[x] \in Nat
      /\ \A i \in Item : db[i] # Absent => db[i].upd \in Nat
      /\ \A q \in Req : rsp[q].top \in Nat
  BY <1>0 DEF TypeOK, Row, Reply
<1>2. Past'
  BY <1>0, <1>1 DEF TimeOK, Past
<1>3. Taken(r)'
  BY <1>0 DEF Taken
<1>4. Stamps(r)' = {clock'}
  BY <1>0 DEF Stamps
<1>5. ASSUME NEW q \in Req \ {r} PROVE Stamps(q)' = Stamps(q) /\ clock' \notin Stamps(q)
  BY <1>0, OthersStamps
<1>6. \A i \in Item : ses[r].base[i] = Absent
  BY <1>0 DEF Inv, RowOK, Loaded
<1>7. \A i \in Item : db[i] # Absent => db[i].upd # clock'
  BY <1>0, <1>1 DEF TimeOK, Past
<1>8. Fresh(r)'
  BY <1>0, <1>4, <1>5, <1>6, <1>7 DEF Fresh
<1>9. \A q \in Req \ {r}, i \in Item : db'[i] # Absent => db'[i].upd \notin Stamps(q)
  BY <1>0 DEF TimeOK, Fresh
<1> QED BY <1>0, <1>2, <1>3, <1>8, <1>9, TimeStep

LEMMA TimeBegins ==
    ASSUME Inv, Inv', TimeOK, NEW r \in Req,
           BeginSync(r) \/ BeginCreate(r) \/ BeginPatch(r) \/ BeginDelete(r)
    PROVE  TimeOK'
<1>0. 0 \in Nat /\ 0 <= clock
  BY DEF Inv, TypeOK
<1>1. CASE BeginSync(r)
  <2>1. PICK d \in Dev, batch \in Batches : Begin(r, "sync", d, batch, cursor[d])
    BY <1>1 DEF BeginSync
  <2>2. cursor[d] \in Nat /\ cursor[d] <= clock
    BY DEF Inv, TypeOK, TimeOK, Past
  <2> QED BY <2>1, <2>2, TimeBegin
<1>2. CASE BeginCreate(r)
  <2>1. PICK i \in Item, v \in Creates :
             Begin(r, "create", Absent, [Empty EXCEPT ![i] = v], 0)
    BY <1>2 DEF BeginCreate
  <2> QED BY <1>0, <2>1, TimeBegin
<1>3. CASE BeginPatch(r)
  <2>1. PICK i \in Editable, body \in Patches :
             Begin(r, "patch", Absent, [Empty EXCEPT ![i] = body], 0)
    BY <1>3 DEF BeginPatch
  <2> QED BY <1>0, <2>1, TimeBegin
<1>4. CASE BeginDelete(r)
  <2>1. PICK i \in Item :
             Begin(r, "delete", Absent, [Empty EXCEPT ![i] = NoFields], 0)
    BY <1>4 DEF BeginDelete
  <2> QED BY <1>0, <2>1, TimeBegin
<1> QED BY <1>1, <1>2, <1>3, <1>4

(* The stamp of the updates.                                               *)
LEMMA TimeRead ==
    ASSUME Inv, Inv', TimeOK, NEW r \in Req, StartSync(r) \/ EditRow(r)
    PROVE  TimeOK'
<1>0. /\ TypeOK /\ TypeOK' /\ clock' = clock + 1 /\ clock \in Nat
      /\ UNCHANGED <<db, rsp, cursor, told>>
      /\ pc[r] = "begun" /\ pc'[r] = "work"
      /\ \A q \in Req \ {r} : /\ pc'[q] = pc[q] /\ job'[q] = job[q]
                              /\ ses'[q] = ses[q]
      /\ job'[r].txAt = job[r].txAt /\ job'[r].since = job[r].since
      /\ job'[r].now = clock' /\ job[r] \in Job
  <2>1. TypeOK /\ TypeOK' /\ clock \in Nat /\ job[r] \in Job
    BY DEF Inv, TypeOK
  <2>2. /\ ReadClock(r) /\ pc[r] = "begun" /\ pc' = [pc EXCEPT ![r] = "work"]
        /\ UNCHANGED <<db, rsp, cursor, told>>
    BY DEF StartSync, EditRow
  <2>3. \A q \in Req \ {r} : ses'[q] = ses[q]
    <3>1. CASE StartSync(r)
      BY <2>1, <3>1 DEF StartSync, TypeOK
    <3>2. CASE EditRow(r)
      BY <2>1, <3>2 DEF EditRow, TypeOK
    <3> QED BY <3>1, <3>2
  <2>4. job' = [job EXCEPT ![r] = [job[r] EXCEPT !.now = clock']]
    BY <2>2 DEF ReadClock
  <2>5. /\ \A q \in Req \ {r} : pc'[q] = pc[q] /\ job'[q] = job[q]
        /\ pc'[r] = "work" /\ job'[r] = [job[r] EXCEPT !.now = clock']
    BY <2>1, <2>2, <2>4 DEF TypeOK
  <2> QED BY <2>1, <2>2, <2>3, <2>5 DEF ReadClock, Job
<1>1. /\ \A x \in Dev : cursor[x] \in Nat
      /\ \A i \in Item : db[i] # Absent => db[i].upd \in Nat
      /\ \A q \in Req : rsp[q].top \in Nat
      /\ job[r].txAt \in Nat /\ job[r].since \in Nat
  BY <1>0 DEF TypeOK, Row, Reply, Job
<1>2. Past'
  BY <1>0, <1>1 DEF TimeOK, Past
<1>3. Taken(r)'
  BY <1>0, <1>1 DEF TimeOK, Taken
<1>4. Stamps(r)' = Stamps(r) \cup {clock'} /\ Stamps(r) = {job[r].txAt}
  BY <1>0 DEF Stamps
<1>5. ASSUME NEW q \in Req \ {r} PROVE Stamps(q)' = Stamps(q) /\ clock' \notin Stamps(q)
  BY <1>0, OthersStamps
<1>6. \A i \in Item : db[i] # Absent => db[i].upd \notin Stamps(r)'
  BY <1>0, <1>1, <1>4 DEF TimeOK, Past, Fresh
<1>7. \A i \in Item : ses'[r].base[i] # Absent => ses'[r].base[i] = db[i]
  <2>1. \A i \in Item : ses[r].base[i] = Absent
    BY <1>0 DEF Inv, RowOK, Loaded
  <2>2. CASE StartSync(r)
    <3>1. ses'[r].base = ses[r].base
      BY <2>2, <1>0 DEF StartSync, TypeOK, Session
    <3> QED BY <2>1, <3>1
  <2>3. CASE EditRow(r)
    <3>1. PICK i \in Pushed(r) : ses'[r].base = [Empty EXCEPT ![i] = db[i]]
      BY <2>3, <1>0 DEF EditRow, TypeOK, NoSes
    <3> QED BY <3>1 DEF Empty
  <2> QED BY <2>2, <2>3
<1>8. Fresh(r)'
  <2>1. \A q \in Req \ {r} : Stamps(q)' \cap Stamps(r)' = {}
    BY <1>4, <1>5 DEF TimeOK, Fresh
  <2> QED BY <1>0, <1>6, <1>7, <2>1 DEF Fresh
<1>9. \A q \in Req \ {r}, i \in Item : db'[i] # Absent => db'[i].upd \notin Stamps(q)
  BY <1>0 DEF TimeOK, Fresh
<1> QED BY <1>0, <1>2, <1>3, <1>8, <1>9, TimeStep

LEMMA TimeEnds ==
    ASSUME Inv, Inv', TimeOK, NEW r \in Req,
           \/ Deliver(r) \/ Lose(r) \/ Reject(r) \/ StatementError(r) \/ Abort(r)
    PROVE  TimeOK'
<1>0. /\ TypeOK /\ TypeOK' /\ End(r) /\ clock \in Nat
      /\ UNCHANGED <<clock, db>>
      /\ cursor' = cursor \/ cursor' = [cursor EXCEPT ![job[r].dev] = rsp[r].top]
  BY DEF Inv, TypeOK, End, Deliver, Lose, Reject, StatementError, Abort
<1>1. /\ \A q \in Req \ {r} : /\ pc'[q] = pc[q] /\ job'[q] = job[q]
                              /\ ses'[q] = ses[q] /\ rsp'[q] = rsp[q]
      /\ pc'[r] = "idle" /\ ses'[r] = NoSes /\ rsp'[r] = NoRsp
  BY <1>0 DEF End, TypeOK
<1>2. Past'
  <2>1. \A d \in Dev : cursor'[d] <= clock
    BY <1>0 DEF TimeOK, Past, TypeOK
  <2>2. \A q \in Req : rsp'[q].top <= clock
    BY <1>0, <1>1 DEF TimeOK, Past, NoRsp
  <2> QED BY <1>0, <2>1, <2>2 DEF TimeOK, Past
<1>3. Taken(r)' /\ Fresh(r)'
  <2>1. Stamps(r)' = {}
    BY <1>1 DEF Stamps
  <2> QED BY <1>1, <2>1 DEF Taken, Fresh
<1>4. \A q \in Req \ {r}, i \in Item : db'[i] # Absent => db'[i].upd \notin Stamps(q)
  BY <1>0 DEF TimeOK, Fresh
<1> QED BY <1>0, <1>1, <1>2, <1>3, <1>4, TimeStep

(* A step of a session: it may load rows and look for the newest stamp.    *)
LEMMA TimeSession ==
    ASSUME Inv, Inv', TimeOK, NEW r \in Req,
           UNCHANGED <<clock, db, pc, job, cursor, told>>,
           \A q \in Req \ {r} : ses'[q] = ses[q] /\ rsp'[q] = rsp[q],
           \A i \in Item : ses'[r].base[i] \in {ses[r].base[i], db[i]},
           rsp'[r].top <= clock
    PROVE  TimeOK'
<1>0. TypeOK /\ TypeOK' /\ clock \in Nat
  BY DEF Inv, TypeOK
<1>1. Past'
  BY DEF TimeOK, Past
<1>2. Taken(r)'
  BY DEF TimeOK, Taken
<1>3. Fresh(r)'
  <2>1. \A q \in Req : Stamps(q)' = Stamps(q)
    BY DEF Stamps
  <2> QED BY <2>1 DEF TimeOK, Fresh
<1>4. \A q \in Req \ {r}, i \in Item : db'[i] # Absent => db'[i].upd \notin Stamps(q)
  BY DEF TimeOK, Fresh
<1> QED BY <1>0, <1>1, <1>2, <1>3, <1>4, TimeStep

LEMMA SeenPast ==
    ASSUME Inv, TimeOK, NEW r \in Req, NEW i \in Item, Seen(r, i) # Absent
    PROVE  Seen(r, i).upd <= clock
BY SeenStamp, StampsPast DEF Inv, TimeOK, Past

LEMMA TimeTop ==
    ASSUME Inv, TimeOK, NEW r \in Req, NEW t \in Table, Top(r, t)
    PROVE  rsp'[r].top <= clock
<1> DEFINE rows   == {i \in InTable(t) : Seen(r, i) # Absent}
           stamps == {rsp[r].top} \cup {Seen(r, i).upd : i \in rows}
<1>1. PICK newest \in stamps : rsp' = [rsp EXCEPT ![r].top = newest]
  BY DEF Top
<1>2. rsp'[r].top = newest
  BY <1>1 DEF Inv, TypeOK, Reply
<1>3. \A i \in rows : Seen(r, i).upd <= clock
  BY SeenPast DEF InTable
<1> QED BY <1>1, <1>2, <1>3 DEF TimeOK, Past

LEMMA TimeWorks ==
    ASSUME Inv, Inv', TimeOK, NEW r \in Req,
           Flush(r) \/ \E t \in Table : Load(r, t) \/ Pull(r, t) \/ Top(r, t)
    PROVE  TimeOK'
<1>0. /\ TypeOK /\ UNCHANGED <<clock, db, pc, job, cursor, told>>
      /\ rsp[r].top <= clock
  BY DEF Inv, Flush, Load, Pull, Top, TimeOK, Past
<1>1. CASE Flush(r)
  <2>1. /\ rsp' = rsp /\ \A q \in Req \ {r} : ses'[q] = ses[q]
        /\ ses'[r].base = ses[r].base
    BY <1>0, <1>1 DEF Flush, TypeOK, Session
  <2> QED BY <1>0, <2>1, TimeSession
<1>2. ASSUME NEW t \in Table, Load(r, t) PROVE TimeOK'
  <2>1. /\ rsp' = rsp /\ \A q \in Req \ {r} : ses'[q] = ses[q]
        /\ \A i \in Item : ses'[r].base[i] \in {ses[r].base[i], db[i]}
    BY <1>0, <1>2 DEF Load, TypeOK
  <2> QED BY <1>0, <2>1, TimeSession
<1>3. ASSUME NEW t \in Table, Pull(r, t) PROVE TimeOK'
  <2>1. /\ \A q \in Req \ {r} : ses'[q] = ses[q] /\ rsp'[q] = rsp[q]
        /\ ses'[r].base = ses[r].base /\ rsp'[r].top = rsp[r].top
    BY <1>0, <1>3 DEF Pull, TypeOK, Session, Reply
  <2> QED BY <1>0, <2>1, TimeSession
<1>4. ASSUME NEW t \in Table, Top(r, t) PROVE TimeOK'
  <2>1. /\ \A q \in Req \ {r} : ses'[q] = ses[q] /\ rsp'[q] = rsp[q]
        /\ ses'[r].base = ses[r].base
    BY <1>0, <1>4 DEF Top, TypeOK, Session, Reply
  <2> QED BY <1>0, <1>4, <2>1, TimeTop, TimeSession
<1> QED BY <1>1, <1>2, <1>3, <1>4

LEMMA TimeCommit ==
    ASSUME Inv, Inv', TimeOK, NEW r \in Req, Commit(r)
    PROVE  TimeOK'
<1>0. /\ TypeOK /\ TypeOK' /\ clock \in Nat
      /\ UNCHANGED <<clock, job, rsp, cursor, told>>
      /\ \A i \in Item : db'[i] = Seen(r, i)
      /\ \A q \in Req \ {r} : pc'[q] = pc[q] /\ ses'[q] = ses[q]
      /\ pc'[r] = "reply" /\ ses'[r] = NoSes
  BY DEF Inv, TypeOK, Commit
<1>1. Past'
  BY <1>0, SeenPast DEF TimeOK, Past
<1>2. Taken(r)' /\ Fresh(r)'
  <2>1. Stamps(r)' = {}
    BY <1>0 DEF Stamps
  <2> QED BY <1>0, <2>1 DEF Taken, Fresh
<1>3. ASSUME NEW q \in Req \ {r}, NEW i \in Item, db'[i] # Absent
      PROVE  db'[i].upd \notin Stamps(q)
  BY <1>0, <1>3, SeenStamp DEF TimeOK, Fresh
<1> QED BY <1>0, <1>1, <1>2, <1>3, TimeStep

LEMMA TimeStutter == ASSUME TimeOK, UNCHANGED vars PROVE TimeOK'
BY DEF TimeOK, Past, Taken, Fresh, Stamps, vars

LEMMA TimeNext == Inv /\ Inv' /\ TimeOK /\ [Next]_vars => TimeOK'
<1> SUFFICES ASSUME Inv, Inv', TimeOK, [Next]_vars PROVE TimeOK'
  OBVIOUS
<1>1. CASE UNCHANGED vars \/ Rest
  BY <1>1, TimeStutter DEF Rest
<1>2. ASSUME NEW r \in Req,
             \/ BeginSync(r) \/ BeginCreate(r) \/ BeginPatch(r) \/ BeginDelete(r)
             \/ Proceed(r) \/ Lose(r) \/ Abort(r)
      PROVE  TimeOK'
  <2>1. CASE BeginSync(r) \/ BeginCreate(r) \/ BeginPatch(r) \/ BeginDelete(r)
    BY <2>1, TimeBegins
  <2>2. CASE StartSync(r) \/ EditRow(r)
    BY <2>2, TimeRead
  <2>3. CASE Flush(r) \/ \E t \in Table : Load(r, t) \/ Pull(r, t) \/ Top(r, t)
    BY <2>3, TimeWorks
  <2>4. CASE Commit(r)
    BY <2>4, TimeCommit
  <2>5. CASE Deliver(r) \/ Lose(r) \/ Reject(r) \/ StatementError(r) \/ Abort(r)
    BY <2>5, TimeEnds
  <2> QED BY <1>2, <2>1, <2>2, <2>3, <2>4, <2>5 DEF Proceed
<1> QED BY <1>1, <1>2 DEF Next

LEMMA Stamping == Spec => []TimeOK
BY Invariance, TimeInit, TimeNext, PTL DEF Spec

-----------------------------------------------------------------------------
(* The reply.                                                              *)
AtSync(r) == pc[r] = "work" /\ job[r].op = "sync"

(* Once a sync reads for the reply, every pushed row is loaded and the     *)
(* changed ones are written.                                               *)
Reading(r) == ~(4..9 \subseteq ses[r].todo)
PhaseOK(r) == AtSync(r) /\ Reading(r) => /\ ses[r].todo \cap Table = {}
                                         /\ Pending(r) = {}

(* A table that has been read for the reply answers its pushed rows, and   *)
(* the newest stamp so far is not behind the rows the sync wrote in it.    *)
AnswerOK(r) ==
    AtSync(r) =>
      /\ \A i \in Pushed(r) : PullOf(TableOf[i]) \notin ses[r].todo => Answered(r, i)
      /\ \A i \in ses[r].held :
           TopOf(TableOf[i]) \notin ses[r].todo => Seen(r, i).upd <= rsp[r].top

ReplyOK(r) == PhaseOK(r) /\ AnswerOK(r)

(* What others do touches neither the session nor the rows it has locked.  *)
LEMMA ReplyFrame ==
    ASSUME Inv, NEW q \in Req, ReplyOK(q),
           pc'[q] = pc[q], job'[q] = job[q], ses'[q] = ses[q], rsp'[q] = rsp[q],
           \A i \in ses[q].held : db'[i] = db[i]
    PROVE  ReplyOK(q)'
<1>1. \A i \in ses[q].held : Seen(q, i)' = Seen(q, i)
  BY DEF Seen, Merged
<1>2. PhaseOK(q)'
  BY DEF ReplyOK, PhaseOK, AtSync, Reading, Pending
<1>3. AnswerOK(q)'
  BY <1>1 DEF ReplyOK, AnswerOK, AtSync, Pushed, Answered
<1> QED BY <1>2, <1>3 DEF ReplyOK

(* A row the sync changed is newer than its cursor.                        *)
LEMMA WinnersArePulled ==
    ASSUME Inv, TimeOK, NEW r \in Req, NEW i \in ses[r].held
    PROVE  Changed(r, i)
<1>0. /\ i \in Item /\ Loaded(r, i) /\ ses[r].mem[i] # Absent
      /\ ses[r].mem[i].upd = IF ses[r].base[i] = Absent THEN job[r].txAt
                                                         ELSE job[r].now
  BY HeldStamp
<1>1. Seen(r, i) # Absent
  BY <1>0, SeenTyped DEF Inv
<1>2. /\ job[r].since \in Nat /\ job[r].txAt \in Nat /\ job[r].now \in Nat
      /\ job[r].since < job[r].txAt /\ job[r].since < job[r].now
      /\ ses[r].base[i] # Absent => ses[r].base[i].upd # job[r].now
  <2>1. pc[r] = "work" /\ Stamps(r) = {job[r].txAt, job[r].now}
    BY <1>0 DEF Loaded, Stamps
  <2>2. job[r].since \in Nat /\ job[r].txAt \in Nat /\ job[r].now \in Nat
    BY DEF Inv, TypeOK, Job
  <2>3. Taken(r) /\ Fresh(r)
    BY DEF TimeOK
  <2> QED BY <1>0, <2>1, <2>2, <2>3 DEF Taken, Fresh
<1>3. Seen(r, i).upd \in {job[r].txAt, job[r].now}
  <2>1. Seen(r, i) = Merged(r, i)
    BY DEF Seen
  <2>2. CASE ses[r].base[i] = Absent
    BY <1>0, <2>1, <2>2 DEF Merged
  <2>3. CASE ses[r].base[i] # Absent
    BY <1>0, <1>2, <2>1, <2>3 DEF Merged, Column
  <2> QED BY <2>2, <2>3
<1> QED BY <1>1, <1>2, <1>3 DEF Changed

(* The pull of a table answers the rows pushed to it.                      *)
LEMMA PullAnswers ==
    ASSUME Inv, TimeOK, NEW r \in Req, NEW t \in Table, Pull(r, t),
           job[r].op = "sync", ses[r].todo \cap Table = {},
           NEW i \in Pushed(r), TableOf[i] = t
    PROVE  Answered(r, i)'
<1>0. /\ i \in Item /\ TypeOK /\ JobOK(r) /\ RowOK(r, i) /\ pc[r] = "work"
      /\ Pending(r) = {}
  BY DEF Inv, Pushed, Pull, Doing
<1>1. Loaded(r, i)
  BY <1>0 DEF Loaded, LoadOf
<1> DEFINE item == job[r].push[i]
           base == ses[r].base[i]
           mem  == ses[r].mem[i]
<1>2. /\ item \in Version /\ item # Absent /\ item.rev \in Nat
      /\ base \in Row \cup {Absent} /\ base # Absent => base.rev \in Nat
      /\ mem = Upsert(base, item, job[r].txAt, job[r].now)
      /\ mem \in Draft /\ mem # Absent
  <2>1. item \in Version /\ item # Absent
    BY <1>0 DEF JobOK, Pushed
  <2>2. base \in Row \cup {Absent} /\ Absent \notin Row
    BY <1>0, RowIsDraft, AbsentIsNoRow DEF TypeOK, Session
  <2>3. mem = Upsert(base, item, job[r].txAt, job[r].now)
    BY <1>0, <1>1 DEF RowOK, Result
  <2>4. mem \in Draft /\ mem # Absent
    BY <1>0, <1>1, ResultTyped, AbsentIsNoRow
  <2> QED BY <2>1, <2>2, <2>3, <2>4 DEF Version, Row
<1>3. /\ job'[r] = job[r] /\ ses'[r].base = ses[r].base
      /\ rsp'[r].rows[i] = IF Changed(r, i) \/ i \in Lost(r) THEN Ver(mem) ELSE Absent
  BY <1>0, <1>2 DEF Pull, TypeOK, Session, Reply, InTable, Object
<1>4. Ver(mem) # Absent /\ Ver(mem).rev = mem.rev
  <2>1. Ver(mem) \in Version
    BY <1>2 DEF Ver, Draft, Version
  <2> QED BY <1>2, <2>1, VersionIsBody, AbsentIsNoValue DEF Ver
<1>5. CASE i \in Lost(r)
  BY <1>2, <1>3, <1>4, <1>5 DEF Lost, Upsert, Answered
<1>6. CASE i \notin Lost(r)
  <2>1. base = Absent \/ ~(item.rev < base.rev)
    BY <1>6 DEF Lost
  <2>2. CASE base # Absent /\ item = Ver(base)
    <3>1. mem = base
      BY <1>2, <2>2 DEF Upsert
    <3> QED BY <1>3, <1>4, <1>6, <2>2, <3>1 DEF Answered
  <2>3. CASE base = Absent \/ item # Ver(base)
    <3>1. Ver(mem) = item
      BY <1>2, <2>1, <2>3 DEF Upsert, Ver, Stamp, Version
    <3>2. mem # base
      BY <1>2, <2>3, <3>1
    <3>3. i \in ses[r].held
      BY <1>0, <3>2 DEF Pending
    <3>4. Changed(r, i)
      BY <3>3, WinnersArePulled
    <3> QED BY <1>2, <1>3, <1>4, <3>1, <3>4 DEF Answered
  <2> QED BY <2>2, <2>3
<1> QED BY <1>5, <1>6

LEMMA TopCovers ==
    ASSUME Inv, NEW r \in Req, NEW t \in Table, Top(r, t)
    PROVE  /\ rsp'[r].rows = rsp[r].rows
           /\ rsp[r].top <= rsp'[r].top
           /\ rsp'[r].top \in Nat
           /\ \A i \in Item : TableOf[i] = t /\ Seen(r, i) # Absent =>
                                Seen(r, i).upd <= rsp'[r].top
<1> DEFINE rows   == {i \in InTable(t) : Seen(r, i) # Absent}
           stamps == {rsp[r].top} \cup {Seen(r, i).upd : i \in rows}
<1>1. PICK newest \in stamps : /\ \A s \in stamps : s <= newest
                               /\ rsp' = [rsp EXCEPT ![r].top = newest]
  BY DEF Top
<1>2. rsp'[r].top = newest /\ rsp'[r].rows = rsp[r].rows
  BY <1>1 DEF Inv, TypeOK, Reply
<1>3. newest \in Nat
  <2>1. ASSUME NEW i \in rows PROVE Seen(r, i).upd \in Nat
    BY <2>1, SeenTyped DEF Inv, InTable, Row
  <2> QED BY <1>1, <2>1 DEF Inv, TypeOK, Reply
<1>4. ASSUME NEW i \in Item, TableOf[i] = t, Seen(r, i) # Absent
      PROVE  Seen(r, i).upd \in stamps
  BY <1>4 DEF InTable
<1> QED BY <1>1, <1>2, <1>3, <1>4

(* Before a sync reads for the reply there is nothing to answer.           *)
LEMMA NothingRead ==
    TypeOK => \A r \in Req : 4..9 \subseteq ses[r].todo => ReplyOK(r)
<1> SUFFICES ASSUME TypeOK, NEW r \in Req, 4..9 \subseteq ses[r].todo
             PROVE  ReplyOK(r)
  OBVIOUS
<1>1. ASSUME NEW i \in Item
      PROVE  PullOf(TableOf[i]) \in ses[r].todo /\ TopOf(TableOf[i]) \in ses[r].todo
  <2>1. TableOf[i] \in 1..3
    BY TablesAreTyped
  <2>2. PullOf(TableOf[i]) \in 4..9 /\ TopOf(TableOf[i]) \in 4..9
    BY <2>1 DEF PullOf, TopOf
  <2> QED BY <2>2
<1>2. ses[r].held \subseteq Item
  BY DEF TypeOK, Session
<1> QED BY <1>1, <1>2 DEF ReplyOK, PhaseOK, AnswerOK, Reading, Pushed

LEMMA NothingReadNext ==
    (TypeOK => \A r \in Req : 4..9 \subseteq ses[r].todo => ReplyOK(r))'
BY NothingRead, PTL

LEMMA ReplyInit == Init => \A r \in Req : ReplyOK(r)
BY DEF Init, ReplyOK, PhaseOK, AnswerOK, AtSync

(* The steps that come before the reading.                                 *)
LEMMA ReplyBefore ==
    ASSUME Inv, Inv', NEW r \in Req, ReplyOK(r),
           StartSync(r) \/ Flush(r) \/ \E t \in Table : Load(r, t)
    PROVE  ReplyOK(r)'
<1>0. TypeOK /\ TypeOK'
  BY DEF Inv
<1>1. CASE StartSync(r)
  <2>1. ses'[r].todo = Steps(r)
    BY <1>0, <1>1 DEF StartSync, TypeOK, Session
  <2>2. 4..9 \subseteq Steps(r)
    <3>1. ASSUME NEW s \in 4..9 PROVE s \in Steps(r)
      <4>1. CASE s \in 4..6
        <5>1. s - 3 \in Table /\ s = PullOf(s - 3)
          BY <4>1 DEF Table, PullOf
        <5> QED BY <5>1 DEF Steps
      <4>2. CASE s \in 7..9
        <5>1. s - 6 \in Table /\ s = TopOf(s - 6)
          BY <4>2 DEF Table, TopOf
        <5> QED BY <5>1 DEF Steps
      <4> QED BY <4>1, <4>2
    <3> QED BY <3>1
  <2>3. 4..9 \subseteq ses'[r].todo
    BY <2>1, <2>2
  <2> QED BY <1>0, <2>3, NothingReadNext
<1>2. CASE Flush(r)
  <2>1. CASE ~AtSync(r)
    BY <1>2, <2>1 DEF Flush, ReplyOK, PhaseOK, AnswerOK, AtSync
  <2>2. CASE AtSync(r)
    <3>1. 4..9 \subseteq ses[r].todo
      BY <1>2, <2>2 DEF Flush, ReplyOK, PhaseOK, Reading
    <3>2. ses'[r].todo = ses[r].todo
      BY <1>0, <1>2 DEF Flush, TypeOK, Session
    <3> QED BY <1>0, <3>1, <3>2, NothingReadNext
  <2> QED BY <2>1, <2>2
<1>3. ASSUME NEW t \in Table, Load(r, t) PROVE ReplyOK(r)'
  <2>0. LoadOf(t) \in ses[r].todo /\ LoadOf(t) = t /\ t \in 1..3 /\ AtSync(r)
    BY <1>0, <1>3 DEF Load, Doing, LoadOf, Table, Inv, JobOK, AtSync
  <2>1. 4..9 \subseteq ses[r].todo
    BY <2>0 DEF ReplyOK, PhaseOK, Reading, Table
  <2>2. ses'[r].todo = ses[r].todo \ {t}
    BY <1>0, <1>3, <2>0 DEF Load, TypeOK
  <2>3. 4..9 \subseteq ses'[r].todo
    BY <2>0, <2>1, <2>2
  <2> QED BY <1>0, <2>3, NothingReadNext
<1> QED BY <1>1, <1>2, <1>3

LEMMA ReplyReads ==
    ASSUME Inv, Inv', TimeOK, NEW r \in Req, ReplyOK(r), NEW t \in Table,
           Pull(r, t) \/ Top(r, t)
    PROVE  ReplyOK(r)'
<1>0. /\ TypeOK /\ TypeOK' /\ t \in 1..3 /\ pc[r] = "work" /\ ses[r].todo # {}
      /\ UNCHANGED <<clock, db, pc, job, cursor, told>>
      /\ Pending(r) = {}
  BY DEF Inv, Pull, Top, Doing, Table
<1>1. job[r].op = "sync" /\ AtSync(r)
  BY <1>0 DEF Inv, JobOK, AtSync
<1>2. \E step \in {PullOf(t), TopOf(t)} :
        /\ Doing(r, step)
        /\ ses' = [ses EXCEPT ![r].todo = @ \ {step}]
  BY DEF Pull, Top
<1>3. PICK step \in {PullOf(t), TopOf(t)} :
        /\ Doing(r, step)
        /\ ses' = [ses EXCEPT ![r].todo = @ \ {step}]
  BY <1>2
<1>4. step \in 4..9
  BY <1>0 DEF PullOf, TopOf
<1>5. /\ ses'[r].base = ses[r].base /\ ses'[r].mem = ses[r].mem
      /\ ses'[r].held = ses[r].held /\ ses'[r].todo = ses[r].todo \ {step}
  BY <1>0, <1>3 DEF TypeOK, Session
<1>6. ses[r].todo \cap Table = {}
  <2>1. ASSUME NEW s \in Table, s \in ses[r].todo PROVE FALSE
    BY <1>3, <1>4, <2>1 DEF Doing, Table
  <2> QED BY <2>1
<1>7. PhaseOK(r)'
  BY <1>0, <1>5, <1>6 DEF PhaseOK, Pending
<1>8. /\ \A i \in Item : Seen(r, i)' = Seen(r, i)
      /\ job'[r] = job[r] /\ Pushed(r)' = Pushed(r)
      /\ ses[r].held \subseteq Item
  BY <1>0, <1>5 DEF Seen, Merged, Pushed, TypeOK, Session
<1>9. CASE Pull(r, t)
  <2>1. /\ rsp'[r].top = rsp[r].top
        /\ \A i \in Item : TableOf[i] # t => rsp'[r].rows[i] = rsp[r].rows[i]
        /\ ses'[r].todo = ses[r].todo \ {PullOf(t)}
    BY <1>0, <1>9 DEF Pull, TypeOK, Session, Reply, InTable
  <2>2. ASSUME NEW i \in Pushed(r), PullOf(TableOf[i]) \notin ses'[r].todo
        PROVE  Answered(r, i)'
    <3>1. CASE TableOf[i] = t
      BY <1>1, <1>6, <1>9, <3>1, PullAnswers
    <3>2. CASE TableOf[i] # t
      <4>1. i \in Item /\ TableOf[i] \in 1..3
        BY TablesAreTyped DEF Pushed
      <4>2. PullOf(TableOf[i]) \notin ses[r].todo
        BY <1>0, <2>1, <2>2, <3>2, <4>1 DEF PullOf
      <4>3. Answered(r, i)
        BY <1>1, <4>2 DEF ReplyOK, AnswerOK
      <4> QED BY <1>5, <1>8, <2>1, <3>2, <4>1, <4>3 DEF Answered
    <3> QED BY <3>1, <3>2
  <2>3. ASSUME NEW i \in ses[r].held, TopOf(TableOf[i]) \notin ses'[r].todo
        PROVE  Seen(r, i).upd <= rsp[r].top
    <3>1. i \in Item /\ TableOf[i] \in 1..3
      BY <1>8, TablesAreTyped
    <3>2. TopOf(TableOf[i]) \notin ses[r].todo
      BY <1>0, <2>1, <2>3, <3>1 DEF PullOf, TopOf
    <3> QED BY <1>1, <3>2 DEF ReplyOK, AnswerOK
  <2>4. AnswerOK(r)'
    BY <1>5, <1>8, <2>1, <2>2, <2>3 DEF AnswerOK
  <2> QED BY <1>7, <2>4 DEF ReplyOK
<1>10. CASE Top(r, t)
  <2>1. /\ rsp'[r].rows = rsp[r].rows /\ rsp[r].top <= rsp'[r].top
        /\ rsp'[r].top \in Nat /\ rsp[r].top \in Nat
        /\ \A i \in Item : TableOf[i] = t /\ Seen(r, i) # Absent =>
                             Seen(r, i).upd <= rsp'[r].top
    BY <1>0, <1>10, TopCovers DEF TypeOK, Reply
  <2>2. ses'[r].todo = ses[r].todo \ {TopOf(t)}
    BY <1>0, <1>10 DEF Top, TypeOK, Session
  <2>3. ASSUME NEW i \in Pushed(r), PullOf(TableOf[i]) \notin ses'[r].todo
        PROVE  Answered(r, i)'
    <3>1. i \in Item /\ TableOf[i] \in 1..3
      BY TablesAreTyped DEF Pushed
    <3>2. PullOf(TableOf[i]) \notin ses[r].todo
      BY <1>0, <2>2, <2>3, <3>1 DEF PullOf, TopOf
    <3>3. Answered(r, i)
      BY <1>1, <3>2 DEF ReplyOK, AnswerOK
    <3> QED BY <1>5, <1>8, <2>1, <3>3 DEF Answered
  <2>4. ASSUME NEW i \in ses[r].held, TopOf(TableOf[i]) \notin ses'[r].todo
        PROVE  Seen(r, i).upd <= rsp'[r].top
    <3>1. i \in Item /\ TableOf[i] \in 1..3
      BY <1>8, TablesAreTyped
    <3>2. Seen(r, i) # Absent /\ Seen(r, i) \in Row \cup {Absent}
      BY <3>1, SeenTyped DEF Inv
    <3>3. CASE TableOf[i] = t
      BY <2>1, <3>1, <3>2, <3>3
    <3>4. CASE TableOf[i] # t
      <4>1. TopOf(TableOf[i]) \notin ses[r].todo
        BY <1>0, <2>2, <2>4, <3>1, <3>4 DEF TopOf
      <4>2. Seen(r, i).upd <= rsp[r].top
        BY <1>1, <4>1 DEF ReplyOK, AnswerOK
      <4>3. Seen(r, i).upd \in Nat
        BY <3>2 DEF Row
      <4> QED BY <2>1, <4>2, <4>3
    <3> QED BY <3>3, <3>4
  <2>5. AnswerOK(r)'
    BY <1>5, <1>8, <2>3, <2>4 DEF AnswerOK
  <2> QED BY <1>7, <2>5 DEF ReplyOK
<1> QED BY <1>9, <1>10

(* A step of one request.                                                  *)
LEMMA ReplyStep ==
    ASSUME Inv, Inv', TimeOK, NEW r \in Req, \A q \in Req : ReplyOK(q),
           \/ BeginSync(r) \/ BeginCreate(r) \/ BeginPatch(r) \/ BeginDelete(r)
           \/ Proceed(r) \/ Lose(r) \/ Abort(r)
    PROVE  \A q \in Req : ReplyOK(q)'
<1>0. TypeOK /\ TypeOK'
  BY DEF Inv
<1>1. CASE BeginSync(r) \/ BeginCreate(r) \/ BeginPatch(r) \/ BeginDelete(r)
  <2>1. /\ UNCHANGED <<db, ses, rsp>> /\ pc'[r] # "work"
        /\ \A q \in Req \ {r} : pc'[q] = pc[q] /\ job'[q] = job[q]
    BY <1>0, <1>1 DEF BeginSync, BeginCreate, BeginPatch, BeginDelete, Begin, TypeOK
  <2>2. ReplyOK(r)'
    BY <2>1 DEF ReplyOK, PhaseOK, AnswerOK, AtSync
  <2> QED BY <2>1, <2>2, ReplyFrame
<1>2. CASE StartSync(r) \/ Flush(r) \/ \E t \in Table : Load(r, t)
  <2>1. ReplyOK(r)'
    BY <1>2, ReplyBefore
  <2>2. /\ db' = db /\ rsp' = rsp
        /\ \A q \in Req \ {r} : /\ pc'[q] = pc[q] /\ job'[q] = job[q]
                                /\ ses'[q] = ses[q]
    BY <1>0, <1>2 DEF StartSync, ReadClock, Flush, Load, TypeOK
  <2> QED BY <2>1, <2>2, ReplyFrame
<1>3. CASE EditRow(r)
  <2>1. /\ db' = db /\ rsp' = rsp /\ job'[r].op # "sync"
        /\ \A q \in Req \ {r} : /\ pc'[q] = pc[q] /\ job'[q] = job[q]
                                /\ ses'[q] = ses[q]
    BY <1>0, <1>3 DEF EditRow, ReadClock, TypeOK, Job
  <2>2. ReplyOK(r)'
    BY <2>1 DEF ReplyOK, PhaseOK, AnswerOK, AtSync
  <2> QED BY <2>1, <2>2, ReplyFrame
<1>4. CASE \E t \in Table : Pull(r, t) \/ Top(r, t)
  <2>1. ReplyOK(r)'
    BY <1>4, ReplyReads
  <2>2. /\ UNCHANGED <<db, pc, job>>
        /\ \A q \in Req \ {r} : ses'[q] = ses[q] /\ rsp'[q] = rsp[q]
    BY <1>0, <1>4 DEF Pull, Top, TypeOK
  <2> QED BY <2>1, <2>2, ReplyFrame
<1>5. CASE Commit(r)
  <2>1. /\ UNCHANGED <<job, rsp>> /\ pc'[r] = "reply"
        /\ \A q \in Req \ {r} : pc'[q] = pc[q] /\ ses'[q] = ses[q]
        /\ \A i \in Item : db'[i] = Seen(r, i)
    BY <1>0, <1>5 DEF Commit, TypeOK
  <2>2. ASSUME NEW q \in Req \ {r}, NEW i \in ses[q].held PROVE db'[i] = db[i]
    <3>1. i \in Item /\ i \notin ses[r].held
      BY DEF Inv, TypeOK, Session, Disjoint
    <3> QED BY <2>1, <3>1 DEF Seen
  <2>3. ReplyOK(r)'
    BY <2>1 DEF ReplyOK, PhaseOK, AnswerOK, AtSync
  <2> QED BY <2>1, <2>2, <2>3, ReplyFrame
<1>6. CASE Deliver(r) \/ Lose(r) \/ Reject(r) \/ StatementError(r) \/ Abort(r)
  <2>1. End(r)
    BY <1>6 DEF Deliver, Lose, Reject, StatementError, Abort
  <2>2. /\ db' = db /\ pc'[r] = "idle"
        /\ \A q \in Req \ {r} : /\ pc'[q] = pc[q] /\ job'[q] = job[q]
                                /\ ses'[q] = ses[q] /\ rsp'[q] = rsp[q]
    BY <1>0, <2>1 DEF End, TypeOK
  <2>3. ReplyOK(r)'
    BY <2>2 DEF ReplyOK, PhaseOK, AnswerOK, AtSync
  <2> QED BY <2>2, <2>3, ReplyFrame
<1> QED BY <1>1, <1>2, <1>3, <1>4, <1>5, <1>6 DEF Proceed

Replies == \A r \in Req : ReplyOK(r)

LEMMA ReplyNext == Inv /\ Inv' /\ TimeOK /\ Replies /\ [Next]_vars => Replies'
<1> SUFFICES ASSUME Inv, Inv', TimeOK, Replies, [Next]_vars PROVE Replies'
  OBVIOUS
<1>1. CASE UNCHANGED vars \/ Rest
  <2>1. UNCHANGED vars
    BY <1>1 DEF Rest
  <2> QED BY <2>1, ReplyFrame DEF Replies, vars
<1>2. ASSUME NEW r \in Req,
             \/ BeginSync(r) \/ BeginCreate(r) \/ BeginPatch(r) \/ BeginDelete(r)
             \/ Proceed(r) \/ Lose(r) \/ Abort(r)
      PROVE  Replies'
  BY <1>2, ReplyStep DEF Replies
<1> QED BY <1>1, <1>2 DEF Next

LEMMA Replying == Spec => []Replies
<1>1. Init => Replies
  BY ReplyInit DEF Replies
<1> QED BY <1>1, ReplyNext, Invariance, Stamping, PTL DEF Spec

(* A sync that is about to commit has answered every item it was sent, as  *)
(* accepted, as beaten by the row it shows, or as stored already; and the  *)
(* cursor it will hand out is not behind its own writes.  This holds with  *)
(* any number of requests at work, because a row the sync changed is       *)
(* locked and carries a stamp newer than the cursor the device sent.       *)
THEOREM PushesAreAnswered == Spec => []PushAnswered
<1>1. Replies => PushAnswered
  <2> SUFFICES ASSUME Replies, NEW r \in Req, pc[r] = "work", job[r].op = "sync",
                      ses[r].todo = {}
               PROVE  /\ \A i \in Pushed(r) : Answered(r, i)
                      /\ \A i \in ses[r].held : Seen(r, i).upd <= rsp[r].top
    BY DEF PushAnswered
  <2> QED BY DEF Replies, ReplyOK, AnswerOK, AtSync
<1> QED BY <1>1, Replying, PTL
=============================================================================

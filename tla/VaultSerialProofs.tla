-------------------------- MODULE VaultSerialProofs --------------------------
(***************************************************************************)
(* What the personal vault promises while its requests do not get in each  *)
(* other's way: it is the abstract store, and a device's copy is current.  *)
(***************************************************************************)
EXTENDS VaultSyncProofs

-----------------------------------------------------------------------------
(* What a request was asked is what the abstract store may be asked.       *)
AskedOK(r) ==
    /\ job[r].op = "sync"   => job[r].push \in Batches
    /\ job[r].op = "create" => \A i \in Pushed(r) : job[r].push[i] \in Creates
    /\ job[r].op = "patch"  => \A i \in Pushed(r) : /\ i \in Editable
                                                    /\ job[r].push[i] \in Patches

Asked == \A r \in Req : AskedOK(r)

LEMMA AskedStep ==
    ASSUME Inv, Asked, NEW r \in Req,
           \/ BeginSync(r) \/ BeginCreate(r) \/ BeginPatch(r) \/ BeginDelete(r)
           \/ Proceed(r) \/ Lose(r) \/ Abort(r)
    PROVE  Asked'
<1>0. TypeOK /\ \A q \in Req : AskedOK(q)
  BY DEF Inv, Asked
<1>1. ASSUME \A q \in Req \ {r} : job'[q] = job[q],
             \/ job'[r].op = job[r].op /\ job'[r].push = job[r].push
             \/ AskedOK(r)'
      PROVE  Asked'
  <2>1. ASSUME NEW q \in Req \ {r} PROVE AskedOK(q)'
    BY <1>0, <1>1 DEF AskedOK, Pushed
  <2>2. AskedOK(r)'
    BY <1>0, <1>1 DEF AskedOK, Pushed
  <2> QED BY <2>1, <2>2 DEF Asked
<1>2. CASE BeginSync(r)
  <2>1. PICK d \in Dev, batch \in Batches : Begin(r, "sync", d, batch, cursor[d])
    BY <1>2 DEF BeginSync
  <2>2. /\ \A q \in Req \ {r} : job'[q] = job[q]
        /\ job'[r].op = "sync" /\ job'[r].push = batch
    BY <1>0, <2>1 DEF Begin, TypeOK
  <2>3. AskedOK(r)'
    BY <2>2 DEF AskedOK
  <2> QED BY <1>1, <2>2, <2>3
<1>3. CASE BeginCreate(r)
  <2>1. PICK i \in Item, v \in Creates :
             Begin(r, "create", Absent, [Empty EXCEPT ![i] = v], 0)
    BY <1>3 DEF BeginCreate
  <2>2. /\ \A q \in Req \ {r} : job'[q] = job[q]
        /\ job'[r].op = "create" /\ job'[r].push = [Empty EXCEPT ![i] = v]
    BY <1>0, <2>1 DEF Begin, TypeOK
  <2>3. AskedOK(r)'
    BY <2>2 DEF AskedOK, Pushed, Empty
  <2> QED BY <1>1, <2>2, <2>3
<1>4. CASE BeginPatch(r)
  <2>1. PICK i \in Editable, body \in Patches :
             Begin(r, "patch", Absent, [Empty EXCEPT ![i] = body], 0)
    BY <1>4 DEF BeginPatch
  <2>2. /\ \A q \in Req \ {r} : job'[q] = job[q]
        /\ job'[r].op = "patch" /\ job'[r].push = [Empty EXCEPT ![i] = body]
    BY <1>0, <2>1 DEF Begin, TypeOK
  <2>3. AskedOK(r)'
    BY <2>2 DEF AskedOK, Pushed, Empty
  <2> QED BY <1>1, <2>2, <2>3
<1>5. CASE BeginDelete(r)
  <2>1. PICK i \in Item :
             Begin(r, "delete", Absent, [Empty EXCEPT ![i] = NoFields], 0)
    BY <1>5 DEF BeginDelete
  <2>2. /\ \A q \in Req \ {r} : job'[q] = job[q]
        /\ job'[r].op = "delete"
    BY <1>0, <2>1 DEF Begin, TypeOK
  <2>3. AskedOK(r)'
    BY <2>2 DEF AskedOK
  <2> QED BY <1>1, <2>2, <2>3
<1>6. CASE StartSync(r) \/ EditRow(r)
  <2>1. /\ \A q \in Req \ {r} : job'[q] = job[q]
        /\ job'[r].op = job[r].op /\ job'[r].push = job[r].push
    <3>1. job' = [job EXCEPT ![r] = [job[r] EXCEPT !.now = clock']]
      BY <1>6 DEF StartSync, EditRow, ReadClock
    <3>2. job[r] \in Job /\ job \in [Req -> Job]
      BY <1>0 DEF TypeOK
    <3> QED BY <3>1, <3>2 DEF Job
  <2> QED BY <1>1, <2>1
<1>7. CASE Flush(r) \/ Commit(r) \/ \E t \in Table : Load(r, t) \/ Pull(r, t) \/ Top(r, t)
  <2>1. job' = job
    BY <1>7 DEF Flush, Commit, Load, Pull, Top
  <2> QED BY <1>1, <2>1
<1>8. CASE Deliver(r) \/ Lose(r) \/ Reject(r) \/ StatementError(r) \/ Abort(r)
  <2>1. End(r)
    BY <1>8 DEF Deliver, Lose, Reject, StatementError, Abort
  <2>2. /\ \A q \in Req \ {r} : job'[q] = job[q]
        /\ job'[r].op = "none"
    BY <1>0, <2>1, NothingTyped DEF End, TypeOK
  <2>3. AskedOK(r)'
    BY <2>2 DEF AskedOK
  <2> QED BY <1>1, <2>2, <2>3
<1> QED BY <1>2, <1>3, <1>4, <1>5, <1>6, <1>7, <1>8 DEF Proceed

LEMMA AskedNext == Inv /\ Asked /\ [Next]_vars => Asked'
<1> SUFFICES ASSUME Inv, Asked, [Next]_vars PROVE Asked'
  OBVIOUS
<1>1. CASE UNCHANGED vars \/ Rest
  BY <1>1 DEF Rest, vars, Asked, AskedOK, Pushed
<1>2. ASSUME NEW r \in Req,
             \/ BeginSync(r) \/ BeginCreate(r) \/ BeginPatch(r) \/ BeginDelete(r)
             \/ Proceed(r) \/ Lose(r) \/ Abort(r)
      PROVE  Asked'
  BY <1>2, AskedStep
<1> QED BY <1>1, <1>2 DEF Next

LEMMA Asking == Spec => []Asked
<1>1. Init => Asked
  BY NothingTyped DEF Init, Asked, AskedOK
<1> QED BY <1>1, AskedNext, Invariance, PTL DEF Spec

-----------------------------------------------------------------------------
(* The abstract store.                                                     *)
Mapped == [i \in Item |-> Ver(db[i])]

LEMMA PromiseIsNext ==
    ASSUME Inv, Asked, NEW r \in Req, job[r].op \in Ops, Promise(r)
    PROVE  Store!Next
<1>0. AskedOK(r) /\ Pushed(r) \subseteq Item
  BY DEF Asked, Pushed
<1>1. CASE job[r].op = "sync"
  BY <1>0, <1>1 DEF Promise, AskedOK, Store!Next
<1>2. CASE job[r].op = "create"
  BY <1>0, <1>2 DEF Promise, AskedOK, Store!Next
<1>3. CASE job[r].op = "patch"
  BY <1>0, <1>3 DEF Promise, AskedOK, Store!Next
<1>4. CASE job[r].op = "delete"
  BY <1>0, <1>4 DEF Promise, Store!Next
<1> QED BY <1>1, <1>2, <1>3, <1>4 DEF Ops

(* Only a commit writes rows.                                              *)
LEMMA OnlyCommitsWrite ==
    ASSUME [Next]_vars, ~\E r \in Req : Commit(r)
    PROVE  db' = db
<1>1. CASE UNCHANGED vars \/ Rest
  BY <1>1 DEF Rest, vars
<1>2. ASSUME NEW r \in Req,
             BeginSync(r) \/ BeginCreate(r) \/ BeginPatch(r) \/ BeginDelete(r)
      PROVE  db' = db
  BY <1>2 DEF BeginSync, BeginCreate, BeginPatch, BeginDelete, Begin
<1>3. ASSUME NEW r \in Req, Proceed(r) \/ Lose(r) \/ Abort(r)
      PROVE  db' = db
  BY <1>3 DEF Proceed, StartSync, EditRow, Reject, Load, Pull, Top, Flush,
              StatementError, Deliver, Lose, Abort, End
<1> QED BY <1>1, <1>2, <1>3 DEF Next

(* No commit meets a row that changed since its request read it.           *)
NoRace == \A r \in Req : Commit(r) => Unraced(r)

LEMMA StepIsStoreStep ==
    ASSUME Inv, Inv', Asked, [Next]_vars, NoRace
    PROVE  [Store!Next]_Mapped
<1>1. CASE \E r \in Req : Commit(r)
  <2>1. PICK r \in Req : Commit(r)
    BY <1>1
  <2>2. Promise(r)
    BY <2>1, UnracedCommit DEF NoRace
  <2>3. job[r].op \in Ops
    BY <2>1 DEF Inv, JobOK, Commit
  <2> QED BY <2>2, <2>3, PromiseIsNext
<1>2. CASE ~\E r \in Req : Commit(r)
  BY <1>2, OnlyCommitsWrite DEF Mapped
<1> QED BY <1>1, <1>2

LEMMA InitIsStoreInit == Init => Store!Init
BY DEF Init, Store!Init, Empty, Ver

(* As long as no commit overwrites what another request wrote after the    *)
(* first one read it, the vault is the abstract store: last-write-wins     *)
(* pushes that take effect as a whole, and REST routes that edit one row.  *)
THEOREM UncontendedIsVaultStore ==
    Spec /\ [][NoRace]_vars => IsVaultStore
<1>1. Inv /\ Inv' /\ Asked /\ [Next]_vars /\ [NoRace]_vars
        => [Store!Next]_Mapped
  <2>1. UNCHANGED vars => [Store!Next]_Mapped
    BY DEF vars, Mapped
  <2> QED BY <2>1, StepIsStoreStep
<1> QED BY <1>1, InitIsStoreInit, Invariance, Asking, PTL
        DEF Spec, IsVaultStore, Store!Spec, Mapped, NoRace

-----------------------------------------------------------------------------
(* Requests that do not overlap.                                           *)
OneAtATime == \A q, r \in Req : pc[q] # "idle" /\ pc[r] # "idle" => q = r

(* The rows a request loaded are the committed ones.                       *)
CurrentOK(r) == \A i \in Item : Loaded(r, i) => ses[r].base[i] = db[i]

(* The stamps of a request are newer than every cursor.                    *)
AheadOK(r) == pc[r] \in {"begun", "work"} => \A d \in Dev : cursor[d] < job[r].txAt

SinceOK(r) == pc[r] # "idle" /\ job[r].op = "sync" =>
                job[r].dev \in Dev /\ job[r].since = cursor[job[r].dev]

(* A table read for the reply shows each row as the commit leaves it, and  *)
(* omits only what the device was shown before.                            *)
ShowsOK(r) ==
    pc[r] \in {"work", "reply"} /\ job[r].op = "sync" =>
      \A i \in Item : pc[r] = "reply" \/ PullOf(TableOf[i]) \notin ses[r].todo =>
        IF rsp[r].rows[i] = Absent THEN ~Changed(r, i)
        ELSE rsp[r].rows[i] = Ver(Seen(r, i))

SerialOK(r) == CurrentOK(r) /\ AheadOK(r) /\ SinceOK(r) /\ ShowsOK(r)

Serial == ReplicaCurrent /\ \A r \in Req : SerialOK(r)

(* An idle request has nothing to keep.                                    *)
LEMMA IdleIsSerial == \A q \in Req : pc[q] = "idle" => SerialOK(q)
BY DEF SerialOK, CurrentOK, Loaded, AheadOK, SinceOK, ShowsOK

LEMMA IdleIsSerialNext == (\A q \in Req : pc[q] = "idle" => SerialOK(q))'
BY IdleIsSerial, PTL

(* So a step of one request is all there is to look at.                    *)
LEMMA SerialStep ==
    ASSUME OneAtATime', TypeOK', NEW r \in Req, pc'[r] # "idle",
           SerialOK(r)', ReplicaCurrent'
    PROVE  Serial'
<1>1. ASSUME NEW q \in Req PROVE SerialOK(q)'
  <2>1. CASE q = r
    BY <2>1
  <2>2. CASE q # r
    BY <2>2, IdleIsSerialNext DEF OneAtATime
  <2> QED BY <2>1, <2>2
<1> QED BY <1>1 DEF Serial

LEMMA SerialInit == Init => Serial
<1> SUFFICES ASSUME Init PROVE Serial
  OBVIOUS
<1>1. ReplicaCurrent
  BY DEF Init, ReplicaCurrent, Empty
<1> QED BY <1>1, IdleIsSerial DEF Init, Serial

LEMMA SerialBegin ==
    ASSUME Inv, Inv', TimeOK, Serial, OneAtATime', NEW r \in Req,
           BeginSync(r) \/ BeginCreate(r) \/ BeginPatch(r) \/ BeginDelete(r)
    PROVE  Serial'
<1>0. TypeOK /\ TypeOK' /\ clock \in Nat
  BY DEF Inv, TypeOK
<1>1. /\ UNCHANGED <<db, ses, rsp, cursor, told>> /\ pc'[r] = "begun"
      /\ clock' = clock + 1 /\ job'[r].txAt = clock'
  BY <1>0 DEF BeginSync, BeginCreate, BeginPatch, BeginDelete, Begin, TypeOK
<1>2. ReplicaCurrent'
  BY <1>1 DEF Serial, ReplicaCurrent
<1>3. CurrentOK(r)' /\ ShowsOK(r)'
  BY <1>1 DEF CurrentOK, Loaded, ShowsOK
<1>4. AheadOK(r)'
  BY <1>0, <1>1 DEF AheadOK, TimeOK, Past, TypeOK
<1>5. SinceOK(r)'
  <2>1. CASE BeginSync(r)
    BY <1>0, <1>1, <2>1 DEF BeginSync, Begin, TypeOK, SinceOK
  <2>2. CASE BeginCreate(r) \/ BeginPatch(r) \/ BeginDelete(r)
    <3>1. job'[r].op # "sync"
      BY <1>0, <2>2 DEF BeginCreate, BeginPatch, BeginDelete, Begin, TypeOK
    <3> QED BY <3>1 DEF SinceOK
  <2> QED BY <2>1, <2>2
<1> QED BY <1>0, <1>1, <1>2, <1>3, <1>4, <1>5, SerialStep DEF SerialOK

LEMMA SerialRead ==
    ASSUME Inv, Inv', Serial, OneAtATime', NEW r \in Req,
           StartSync(r) \/ EditRow(r)
    PROVE  Serial'
<1>0. TypeOK /\ TypeOK' /\ SerialOK(r)
  BY DEF Inv, Serial
<1>1. /\ UNCHANGED <<db, rsp, cursor, told>> /\ pc[r] = "begun" /\ pc'[r] = "work"
      /\ job'[r].txAt = job[r].txAt /\ job'[r].op = job[r].op
      /\ job'[r].since = job[r].since /\ job'[r].dev = job[r].dev
      /\ job'[r].push = job[r].push
  <2>1. job' = [job EXCEPT ![r] = [job[r] EXCEPT !.now = clock']]
    BY DEF StartSync, EditRow, ReadClock
  <2>2. job[r] \in Job /\ job \in [Req -> Job]
    BY <1>0 DEF TypeOK
  <2>3. /\ UNCHANGED <<db, rsp, cursor, told>> /\ pc[r] = "begun"
        /\ pc' = [pc EXCEPT ![r] = "work"]
    BY DEF StartSync, EditRow
  <2> QED BY <1>0, <2>1, <2>2, <2>3 DEF Job, TypeOK
<1>2. ReplicaCurrent'
  BY <1>1 DEF Serial, ReplicaCurrent
<1>3. AheadOK(r)' /\ SinceOK(r)'
  BY <1>0, <1>1 DEF SerialOK, AheadOK, SinceOK
<1>4. CASE StartSync(r)
  <2>1. ses'[r].todo = Steps(r) /\ ses'[r].base = ses[r].base
    BY <1>0, <1>4 DEF StartSync, TypeOK, Session
  <2>2. CurrentOK(r)'
    BY <1>1, <2>1 DEF CurrentOK, Loaded, Steps, Pushed
  <2>3. ASSUME NEW i \in Item PROVE PullOf(TableOf[i]) \in Steps(r)
    BY TablesAreTyped DEF Steps, Table
  <2>4. ShowsOK(r)'
    BY <1>1, <2>1, <2>3 DEF ShowsOK
  <2> QED BY <1>0, <1>1, <1>2, <1>3, <2>2, <2>4, SerialStep DEF SerialOK
<1>5. CASE EditRow(r)
  <2>1. PICK i \in Pushed(r) : ses'[r].base = [Empty EXCEPT ![i] = db[i]]
    BY <1>0, <1>5 DEF EditRow, TypeOK, NoSes
  <2>2. Pushed(r)' = {i} /\ i \in Item
    <3>1. \E j \in Item : Pushed(r) = {j}
      BY <1>0, <1>5 DEF EditRow, Inv, JobOK, Ops
    <3> QED BY <1>1, <2>1, <3>1 DEF Pushed
  <2>3. CurrentOK(r)'
    BY <1>1, <2>1, <2>2 DEF CurrentOK, Loaded, Empty
  <2>4. ShowsOK(r)'
    BY <1>1, <1>5 DEF ShowsOK, EditRow
  <2> QED BY <1>0, <1>1, <1>2, <1>3, <2>3, <2>4, SerialStep DEF SerialOK
<1> QED BY <1>4, <1>5

(* Before its reading a sync loads and writes.                             *)
LEMMA SerialBefore ==
    ASSUME Inv, Inv', Replies, Serial, OneAtATime', NEW r \in Req,
           Flush(r) \/ \E t \in Table : Load(r, t)
    PROVE  Serial'
<1>0. TypeOK /\ TypeOK' /\ SerialOK(r) /\ PhaseOK(r)
  BY DEF Inv, Serial, Replies, ReplyOK
<1>1. /\ UNCHANGED <<clock, db, pc, job, rsp, cursor, told>> /\ pc[r] = "work"
  BY DEF Flush, Load, Doing
<1>2. ReplicaCurrent'
  BY <1>1 DEF Serial, ReplicaCurrent
<1>3. AheadOK(r)' /\ SinceOK(r)'
  BY <1>0, <1>1 DEF SerialOK, AheadOK, SinceOK
<1>4. CurrentOK(r)'
  <2>1. CASE Flush(r)
    <3>1. ses'[r].todo = ses[r].todo /\ ses'[r].base = ses[r].base
      BY <1>0, <2>1 DEF Flush, TypeOK, Session
    <3> QED BY <1>0, <1>1, <3>1 DEF SerialOK, CurrentOK, Loaded, Pushed
  <2>2. ASSUME NEW t \in Table, Load(r, t) PROVE CurrentOK(r)'
    <3>1. ASSUME NEW i \in Item, Loaded(r, i)' PROVE ses'[r].base[i] = db[i]
      <4>1. /\ ses'[r].todo = ses[r].todo \ {LoadOf(t)}
            /\ ses'[r].base[i] = IF i \in Pushed(r) \cap InTable(t) THEN db[i]
                                 ELSE ses[r].base[i]
        BY <1>0, <2>2 DEF Load, TypeOK
      <4>2. i \in Pushed(r) /\ LoadOf(TableOf[i]) \notin ses'[r].todo
        BY <1>1, <3>1 DEF Loaded, Pushed
      <4>3. CASE TableOf[i] = t
        BY <4>1, <4>2, <4>3 DEF InTable
      <4>4. CASE TableOf[i] # t
        BY <1>0, <1>1, <4>1, <4>2, <4>4 DEF SerialOK, CurrentOK, Loaded, LoadOf, InTable
      <4> QED BY <4>3, <4>4
    <3> QED BY <1>1, <3>1 DEF CurrentOK
  <2> QED BY <2>1, <2>2
<1>5. ShowsOK(r)'
  <2>1. SUFFICES ASSUME job[r].op = "sync" PROVE 4..9 \subseteq ses'[r].todo
    <3>1. ASSUME NEW i \in Item PROVE PullOf(TableOf[i]) \in 4..9
      BY TablesAreTyped DEF PullOf
    <3> QED BY <1>1, <2>1, <3>1 DEF ShowsOK
  <2>2. 4..9 \subseteq ses[r].todo
    <3>1. CASE Flush(r)
      BY <1>0, <1>1, <2>1, <3>1 DEF Flush, PhaseOK, AtSync, Reading
    <3>2. ASSUME NEW t \in Table, Load(r, t) PROVE 4..9 \subseteq ses[r].todo
      BY <1>0, <1>1, <2>1, <3>2 DEF Load, Doing, LoadOf, PhaseOK, AtSync, Reading, Table
    <3> QED BY <3>1, <3>2
  <2>3. CASE Flush(r)
    BY <1>0, <2>2, <2>3 DEF Flush, TypeOK, Session
  <2>4. ASSUME NEW t \in Table, Load(r, t) PROVE 4..9 \subseteq ses'[r].todo
    <3>1. ses'[r].todo = ses[r].todo \ {t} /\ t \in 1..3
      BY <1>0, <2>4 DEF Load, TypeOK, LoadOf, Table
    <3> QED BY <2>2, <3>1
  <2> QED BY <2>3, <2>4
<1> QED BY <1>0, <1>1, <1>2, <1>3, <1>4, <1>5, SerialStep DEF SerialOK

(* What the session holds of a row is what its transaction sees.           *)
LEMMA ObjectIsSeen ==
    ASSUME Inv, NEW r \in Req, CurrentOK(r), Pending(r) = {}, NEW i \in Item
    PROVE  Object(r, i) = Seen(r, i)
<1>0. RowOK(r, i) /\ JobOK(r) /\ TypeOK
  BY DEF Inv
<1>1. CASE ~Loaded(r, i)
  BY <1>0, <1>1 DEF RowOK, Object
<1>2. CASE Loaded(r, i)
  <2>1. /\ ses[r].base[i] = db[i] /\ ses[r].mem[i] \in Draft
        /\ i \notin ses[r].held => ses[r].mem[i] = ses[r].base[i]
        /\ db[i] \in Row \cup {Absent}
    BY <1>0, <1>2, ResultTyped DEF CurrentOK, Pending, TypeOK
  <2>2. Object(r, i) = ses[r].mem[i]
    BY <2>1, AbsentIsNoRow DEF Object
  <2>3. CASE i \notin ses[r].held
    BY <2>1, <2>2, <2>3 DEF Seen
  <2>4. CASE i \in ses[r].held /\ db[i] = Absent
    BY <2>1, <2>2, <2>4 DEF Seen, Merged
  <2>5. CASE i \in ses[r].held /\ db[i] # Absent
    <3>1. Merged(r, i) = [rev |-> ses[r].mem[i].rev, val |-> ses[r].mem[i].val,
                          del |-> ses[r].mem[i].del, upd |-> ses[r].mem[i].upd]
      BY <2>1, <2>5 DEF Merged, Column
    <3>2. Merged(r, i) = ses[r].mem[i]
      BY <2>1, <3>1 DEF Draft
    <3> QED BY <2>2, <2>5, <3>2 DEF Seen
  <2> QED BY <2>3, <2>4, <2>5
<1> QED BY <1>1, <1>2

LEMMA SerialReply ==
    ASSUME Inv, Inv', Serial, OneAtATime', NEW r \in Req, NEW t \in Table,
           Pull(r, t) \/ Top(r, t)
    PROVE  Serial'
<1>0. TypeOK /\ TypeOK' /\ SerialOK(r)
  BY DEF Inv, Serial
<1>1. /\ UNCHANGED <<clock, db, pc, job, cursor, told>> /\ pc[r] = "work"
      /\ Pending(r) = {}
  BY DEF Pull, Top, Doing
<1>2. ReplicaCurrent'
  BY <1>1 DEF Serial, ReplicaCurrent
<1>3. AheadOK(r)' /\ SinceOK(r)'
  BY <1>0, <1>1 DEF SerialOK, AheadOK, SinceOK
<1>4. \E step \in {PullOf(t), TopOf(t)} : ses' = [ses EXCEPT ![r].todo = @ \ {step}]
  BY DEF Pull, Top
<1>5. /\ ses'[r].base = ses[r].base /\ ses'[r].mem = ses[r].mem
      /\ ses'[r].held = ses[r].held
  BY <1>0, <1>4 DEF TypeOK, Session
<1>6. CurrentOK(r)'
  <2>1. PICK step \in {PullOf(t), TopOf(t)} : ses' = [ses EXCEPT ![r].todo = @ \ {step}]
    BY <1>4
  <2>2. ses'[r].todo = ses[r].todo \ {step}
    BY <1>0, <2>1 DEF TypeOK, Session
  <2>3. \A i \in Item : LoadOf(TableOf[i]) # step
    BY TablesAreTyped DEF LoadOf, PullOf, TopOf, Table
  <2> QED BY <1>0, <1>1, <1>5, <2>2, <2>3 DEF SerialOK, CurrentOK, Loaded, Pushed
<1>7. /\ \A i \in Item : Seen(r, i)' = Seen(r, i) /\ (Changed(r, i)' <=> Changed(r, i))
      /\ job'[r] = job[r] /\ pc'[r] = "work"
  BY <1>1, <1>5 DEF Seen, Merged, Changed
<1>8. CASE Pull(r, t)
  <2>1. /\ ses'[r].todo = ses[r].todo \ {PullOf(t)}
        /\ \A i \in Item :
             rsp'[r].rows[i] = IF i \notin InTable(t) THEN rsp[r].rows[i]
                               ELSE IF Changed(r, i) \/ i \in Lost(r)
                                    THEN Ver(Object(r, i)) ELSE Absent
    BY <1>0, <1>8 DEF Pull, TypeOK, Session, Reply
  <2>2. ASSUME NEW i \in Item, job[r].op = "sync",
               PullOf(TableOf[i]) \notin ses'[r].todo
        PROVE  IF rsp'[r].rows[i] = Absent THEN ~Changed(r, i)
               ELSE rsp'[r].rows[i] = Ver(Seen(r, i))
    <3>1. CASE TableOf[i] = t
      <4>1. Object(r, i) = Seen(r, i)
        BY <1>0, <1>1, ObjectIsSeen DEF SerialOK
      <4>2. Seen(r, i) \in Row \cup {Absent}
        BY SeenTyped DEF Inv
      <4>3. Seen(r, i) # Absent => Ver(Seen(r, i)) # Absent
        <5>1. Seen(r, i) # Absent => Ver(Seen(r, i)) \in Version
          BY <4>2, RowIsDraft DEF Ver, Draft, Version
        <5> QED BY <5>1, VersionIsBody, AbsentIsNoValue
      <4> QED BY <2>1, <3>1, <4>1, <4>3 DEF InTable, Changed
    <3>2. CASE TableOf[i] # t
      <4>1. PullOf(TableOf[i]) \notin ses[r].todo
        BY <2>1, <2>2, <3>2, TablesAreTyped DEF PullOf, Table
      <4>2. rsp'[r].rows[i] = rsp[r].rows[i]
        BY <2>1, <3>2 DEF InTable
      <4> QED BY <1>0, <1>1, <2>2, <4>1, <4>2 DEF SerialOK, ShowsOK
    <3> QED BY <3>1, <3>2
  <2>3. ShowsOK(r)'
    BY <1>7, <2>2 DEF ShowsOK
  <2> QED BY <1>0, <1>1, <1>2, <1>3, <1>6, <2>3, SerialStep DEF SerialOK
<1>9. CASE Top(r, t)
  <2>1. ses'[r].todo = ses[r].todo \ {TopOf(t)} /\ rsp'[r].rows = rsp[r].rows
    BY <1>0, <1>9 DEF Top, TypeOK, Session, Reply
  <2>2. \A i \in Item : PullOf(TableOf[i]) # TopOf(t)
    BY TablesAreTyped DEF PullOf, TopOf, Table
  <2>3. ShowsOK(r)'
    BY <1>0, <1>1, <1>7, <2>1, <2>2 DEF SerialOK, ShowsOK
  <2> QED BY <1>0, <1>1, <1>2, <1>3, <1>6, <2>3, SerialStep DEF SerialOK
<1> QED BY <1>8, <1>9

LEMMA SerialCommit ==
    ASSUME Inv, Inv', TimeOK, Serial, OneAtATime', NEW r \in Req, Commit(r)
    PROVE  Serial'
<1>0. TypeOK /\ TypeOK' /\ SerialOK(r)
  BY DEF Inv, Serial
<1>1. /\ UNCHANGED <<clock, job, rsp, cursor, told>> /\ pc[r] = "work"
      /\ ses[r].todo = {} /\ Pending(r) = {} /\ pc'[r] = "reply"
      /\ ses'[r] = NoSes /\ \A i \in Item : db'[i] = Seen(r, i)
  BY <1>0 DEF Commit, TypeOK
<1>2. CurrentOK(r)' /\ AheadOK(r)' /\ SinceOK(r)'
  BY <1>0, <1>1 DEF SerialOK, CurrentOK, Loaded, AheadOK, SinceOK
<1>3. ShowsOK(r)'
  <2>1. \A i \in Item : Seen(r, i)' = Seen(r, i) /\ (Changed(r, i)' <=> Changed(r, i))
    BY <1>1 DEF Seen, Changed, NoSes
  <2> QED BY <1>0, <1>1, <2>1 DEF SerialOK, ShowsOK
<1>4. ReplicaCurrent'
  <2> SUFFICES ASSUME NEW d \in Dev, NEW i \in Item, db'[i] # Absent,
                      db'[i].upd <= cursor[d]
               PROVE  told[d][i] = Ver(db'[i])
    BY <1>1 DEF ReplicaCurrent
  <2>1. CASE i \notin ses[r].held
    BY <1>1, <2>1 DEF Seen, Serial, ReplicaCurrent
  <2>2. CASE i \in ses[r].held
    <3>1. /\ Loaded(r, i) /\ ses[r].mem[i] # Absent
          /\ ses[r].mem[i].upd \in {job[r].txAt, job[r].now}
      BY <2>2, HeldStamp
    <3>2. db'[i] = ses[r].mem[i]
      BY <1>0, <1>1, <3>1, ObjectIsSeen DEF SerialOK, Object
    <3>3. cursor[d] < job[r].txAt /\ job[r].txAt < job[r].now
      BY <1>0, <1>1 DEF SerialOK, AheadOK, TimeOK, Taken
    <3>4. cursor[d] \in Nat /\ job[r].txAt \in Nat /\ job[r].now \in Nat
      BY <1>0 DEF TypeOK, Job
    <3> QED BY <3>1, <3>2, <3>3, <3>4
  <2> QED BY <2>1, <2>2
<1> QED BY <1>0, <1>1, <1>2, <1>3, <1>4, SerialStep DEF SerialOK

(* The copy the device has after a reply.                                  *)
LEMMA SerialEnds ==
    ASSUME Inv, Inv', Serial, OneAtATime, NEW r \in Req, pc[r] # "idle",
           \/ Deliver(r) \/ Lose(r) \/ Reject(r) \/ StatementError(r) \/ Abort(r)
    PROVE  Serial'
<1>0. /\ TypeOK /\ TypeOK' /\ SerialOK(r) /\ ReplicaCurrent /\ End(r)
  BY DEF Inv, Serial, Deliver, Lose, Reject, StatementError, Abort
<1>1. db' = db /\ \A q \in Req : pc'[q] = "idle"
  BY <1>0 DEF End, TypeOK, OneAtATime
<1>2. ReplicaCurrent'
  <2>1. CASE UNCHANGED <<cursor, told>>
    BY <1>0, <1>1, <2>1 DEF ReplicaCurrent
  <2>2. CASE ~UNCHANGED <<cursor, told>>
    <3>1. /\ Deliver(r) /\ job[r].op = "sync" /\ pc[r] = "reply"
      BY <2>2 DEF Deliver, Lose, Reject, StatementError, Abort
    <3> DEFINE d == job[r].dev
    <3>2. /\ d \in Dev /\ job[r].since = cursor[d]
      BY <1>0, <3>1 DEF SerialOK, SinceOK
    <3>3. /\ \A x \in Dev \ {d} : cursor'[x] = cursor[x] /\ told'[x] = told[x]
          /\ \A i \in Item : told'[d][i] = IF rsp[r].rows[i] = Absent THEN told[d][i]
                                           ELSE rsp[r].rows[i]
      BY <1>0, <3>1, <3>2 DEF Deliver, TypeOK
    <3>4. ASSUME NEW i \in Item, db[i] # Absent PROVE told'[d][i] = Ver(db[i])
      <4>1. Seen(r, i) = db[i]
        BY <3>1 DEF Inv, RowOK, Loaded, Seen
      <4>2. CASE rsp[r].rows[i] # Absent
        BY <1>0, <3>1, <3>3, <4>1, <4>2 DEF SerialOK, ShowsOK
      <4>3. CASE rsp[r].rows[i] = Absent
        <5>1. ~Changed(r, i)
          BY <1>0, <3>1, <4>3 DEF SerialOK, ShowsOK
        <5>2. db[i].upd \in Nat /\ cursor[d] \in Nat
          BY <1>0, <3>2, <3>4 DEF TypeOK, Row
        <5>3. db[i].upd <= cursor[d]
          BY <3>2, <3>4, <4>1, <5>1, <5>2 DEF Changed
        <5> QED BY <1>0, <3>2, <3>3, <3>4, <4>3, <5>3 DEF ReplicaCurrent
      <4> QED BY <4>2, <4>3
    <3> QED BY <1>0, <1>1, <3>3, <3>4 DEF ReplicaCurrent
  <2> QED BY <2>1, <2>2
<1>3. \A q \in Req : SerialOK(q)'
  BY <1>1, IdleIsSerialNext
<1> QED BY <1>2, <1>3 DEF Serial

LEMMA SerialNext ==
    Inv /\ Inv' /\ TimeOK /\ Replies /\ OneAtATime /\ OneAtATime' /\ Serial
      /\ [Next]_vars => Serial'
<1> SUFFICES ASSUME Inv, Inv', TimeOK, Replies, OneAtATime, OneAtATime', Serial,
                    [Next]_vars
             PROVE  Serial'
  OBVIOUS
<1>1. CASE UNCHANGED vars \/ Rest
  <2>1. UNCHANGED vars
    BY <1>1 DEF Rest
  <2> QED BY <2>1 DEF vars, Serial, ReplicaCurrent, SerialOK, CurrentOK, Loaded,
                      Pushed, AheadOK, SinceOK, ShowsOK, Changed, Seen, Merged
<1>2. ASSUME NEW r \in Req,
             \/ BeginSync(r) \/ BeginCreate(r) \/ BeginPatch(r) \/ BeginDelete(r)
             \/ Proceed(r) \/ Lose(r) \/ Abort(r)
      PROVE  Serial'
  <2>1. CASE BeginSync(r) \/ BeginCreate(r) \/ BeginPatch(r) \/ BeginDelete(r)
    BY <2>1, SerialBegin
  <2>2. CASE StartSync(r) \/ EditRow(r)
    BY <2>2, SerialRead
  <2>3. CASE Flush(r) \/ \E t \in Table : Load(r, t)
    BY <2>3, SerialBefore
  <2>4. CASE \E t \in Table : Pull(r, t) \/ Top(r, t)
    BY <2>4, SerialReply
  <2>5. CASE Commit(r)
    BY <2>5, SerialCommit
  <2>6. CASE Deliver(r) \/ Lose(r) \/ Reject(r) \/ StatementError(r) \/ Abort(r)
    <3>1. pc[r] # "idle"
      BY <2>6 DEF Deliver, Lose, Reject, StatementError, Abort
    <3> QED BY <2>6, <3>1, SerialEnds
  <2> QED BY <1>2, <2>1, <2>2, <2>3, <2>4, <2>5, <2>6 DEF Proceed
<1> QED BY <1>1, <1>2 DEF Next

LEMMA Serially == Spec /\ []OneAtATime => []Serial
BY SerialInit, SerialNext, Invariance, Stamping, Replying, PTL DEF Spec

(* When requests do not overlap, a device whose cursor is at or past the   *)
(* stamp of a row has been shown that row as it is: the pull leaves out    *)
(* only rows the device had, and every later write is stamped past every   *)
(* cursor handed out.                                                      *)
THEOREM SerialReplicasAreCurrent == Spec /\ []OneAtATime => []ReplicaCurrent
<1>1. Serial => ReplicaCurrent
  BY DEF Serial
<1> QED BY <1>1, Serially, PTL

(* Requests that do not overlap never meet a changed row.                  *)
LEMMA SerialIsUncontended == Inv /\ Serial => NoRace
<1> SUFFICES ASSUME Inv, Serial, NEW r \in Req, Commit(r) PROVE Unraced(r)
  BY DEF NoRace
<1> QED BY AtCommit DEF Serial, SerialOK, CurrentOK, Unraced, Pushed

(* When requests do not overlap, the vault is the abstract store.          *)
THEOREM SerialIsVaultStore == Spec /\ []OneAtATime => IsVaultStore
BY UncontendedIsVaultStore, SerialIsUncontended, Serially, Invariance, PTL
=============================================================================

------------------------------ MODULE VaultSync ------------------------------
(***************************************************************************)
(* The personal vault as the API really serves it: every request is one    *)
(* PostgreSQL transaction at READ COMMITTED behind one SQLAlchemy session. *)
(* A request reads rows into the session, decides in memory, and writes    *)
(* back the columns that differ from what it read; other requests commit   *)
(* in between.  POST /sync does this table by table, then reads what       *)
(* changed since the device's cursor and the new cursor; the REST routes   *)
(* do it for one row.                                                      *)
(*                                                                         *)
(* A flush takes the row locks of one table in one step, the lists of a    *)
(* push name each uuid once, and a reply is sent after the commit.         *)
(***************************************************************************)
EXTENDS VaultData

CONSTANTS Dev,      \* devices of the account
          Req,      \* requests the server works on at the same time
          TableOf,  \* 1: collections, 2: entries, 3: attachments
          MaxClock  \* no request begins once the clock has passed this bound

ASSUME TablesAreTyped == TableOf \in [Item -> 1..3]
ASSUME ClockBound == MaxClock \in Nat

VARIABLES
  clock,   \* last clock reading; application and database share the clock
  db,      \* the committed rows
  pc,      \* where each request is
  job,     \* what each request was asked, and the stamps it writes
  ses,     \* its session: rows as loaded, rows in memory, rows it has locked
  rsp,     \* the reply under construction
  cursor,  \* since_revision each device will send next
  told     \* per device and row, the version a reply last showed it

vars == <<clock, db, pc, job, ses, rsp, cursor, told>>

Row == [rev : 1..MaxRev, val : Val, del : BOOLEAN, upd : Nat]

(* A row in memory may hold a revision that the column cannot.             *)
Draft == [rev : Nat \ {0}, val : Val, del : BOOLEAN, upd : Nat]

ASSUME AbsentIsNoRow == Absent \notin Draft

Ops == {"sync", "create", "patch", "delete"}

Job     == [op : Ops \cup {"none"}, dev : Dev \cup {Absent},
            push : [Item -> Body \cup {Absent}],
            since : Nat, txAt : Nat, now : Nat]
Session == [base : [Item -> Row \cup {Absent}], mem : [Item -> Draft \cup {Absent}],
            held : SUBSET Item, todo : SUBSET (1..9)]
Reply   == [rows : [Item -> Version \cup {Absent}], top : Nat]

Empty == [i \in Item |-> Absent]

NoJob == [op |-> "none", dev |-> Absent, push |-> Empty,
          since |-> 0, txAt |-> 0, now |-> 0]
NoSes == [base |-> Empty, mem |-> Empty, held |-> {}, todo |-> {}]
NoRsp == [rows |-> Empty, top |-> 0]

Stamp(v, t) == [rev |-> v.rev, val |-> v.val, del |-> v.del, upd |-> t]
Ver(row) == IF row = Absent THEN Absent
            ELSE [rev |-> row.rev, val |-> row.val, del |-> row.del]

Pushed(r) == {i \in Item : job[r].push[i] # Absent}
InTable(t) == {i \in Item : TableOf[i] = t}

(* The steps of a sync, in the order of the code: load the pushed rows of  *)
(* table t, pull the changes of table t, take the newest stamp of table t. *)
Table == 1..3
LoadOf(t) == t
PullOf(t) == 3 + t
TopOf(t)  == 6 + t
Steps(r)  == {LoadOf(TableOf[i]) : i \in Pushed(r)}
             \cup {PullOf(t) : t \in Table} \cup {TopOf(t) : t \in Table}

-----------------------------------------------------------------------------
(* What the handlers compute in memory.                                    *)

(* Mutants of Upsert: equal revisions keep the stored row; the server      *)
(* counts a revision of its own.                                           *)
UpsertKeepsEqual(old, v, txAt, now) ==
    IF old = Absent THEN Stamp(v, txAt)
    ELSE IF v.rev <= old.rev THEN old
    ELSE Stamp(v, now)
UpsertCounts(old, v, txAt, now) ==
    IF old = Absent THEN Stamp(v, txAt)
    ELSE IF v.rev < old.rev THEN old
    ELSE Stamp([v EXCEPT !.rev = @ + 1], now)

(* An item of a push against the row loaded for it: insert, overwrite, or  *)
(* leave alone (a lower revision, or an identical item).                   *)
Upsert(old, v, txAt, now) ==
    IF old = Absent THEN Stamp(v, txAt)
    ELSE IF v.rev < old.rev \/ v = Ver(old) THEN old
    ELSE Stamp(v, now)

(* Mutant of Lost: no echo of the winners.                                 *)
LostInSilence(r) == {}

(* The items that lost; the reply echoes the rows that beat them.          *)
Lost(r) == {i \in Pushed(r) : /\ ses[r].base[i] # Absent
                              /\ job[r].push[i].rev < ses[r].base[i].rev}

(* Mutant of Accepts: a tombstone can be edited.                           *)
AcceptsTombstones(op, old) == (op = "create") <=> (old = Absent)

Accepts(op, old) == IF op = "create" THEN old = Absent ELSE Live(old)

Edit(op, old, body, txAt, now) ==
    CASE op = "create" -> Stamp(body, txAt)
      [] op = "patch"  -> Stamp(Overlay(old, body), now)
      [] op = "delete" -> Stamp(Tombstone(old), now)

-----------------------------------------------------------------------------
(* What the session has to write, and what its transaction sees.           *)

(* The rows the next statement of the session writes first (autoflush).    *)
Pending(r) == {i \in Item \ ses[r].held : ses[r].mem[i] # ses[r].base[i]}

HeldByOthers(r) == UNION {ses[q].held : q \in Req \ {r}}

(* An UPDATE sets only the columns the session changed.                    *)
Column(base, mem, newest) == IF mem = base THEN newest ELSE mem

Merged(r, i) ==
    LET base == ses[r].base[i]
        mem  == ses[r].mem[i]
    IN  IF base = Absent THEN mem
        ELSE [rev |-> Column(base.rev, mem.rev, db[i].rev),
              val |-> Column(base.val, mem.val, db[i].val),
              del |-> Column(base.del, mem.del, db[i].del),
              upd |-> Column(base.upd, mem.upd, db[i].upd)]

Seen(r, i) == IF i \in ses[r].held THEN Merged(r, i) ELSE db[i]

(* The session never refreshes an object it already has.                   *)
Object(r, i) == IF ses[r].mem[i] # Absent THEN ses[r].mem[i] ELSE Seen(r, i)

(* Mutant of Changed: the pull leaves tombstones out.                      *)
ChangedAndLive(r, i) == Live(Seen(r, i)) /\ Seen(r, i).upd > job[r].since

(* A row the pull of a sync selects.                                       *)
Changed(r, i) == Seen(r, i) # Absent /\ Seen(r, i).upd > job[r].since

(* Mutant of Broken: no range check of the column.                         *)
BrokenByKeyOnly(r, i) == ses[r].base[i] = Absent /\ db[i] # Absent

(* The unique (user_id, uuid) of a row inserted meanwhile, or an INTEGER   *)
(* that overflows.                                                         *)
Broken(r, i) == \/ ses[r].base[i] = Absent /\ db[i] # Absent
                \/ ~Fits(ses[r].mem[i])

-----------------------------------------------------------------------------
Init ==
    /\ clock = 0
    /\ db = Empty
    /\ pc = [r \in Req |-> "idle"]
    /\ job = [r \in Req |-> NoJob]
    /\ ses = [r \in Req |-> NoSes]
    /\ rsp = [r \in Req |-> NoRsp]
    /\ cursor = [d \in Dev |-> 0]
    /\ told = [d \in Dev |-> Empty]

(* The first statement of a request (the lookup of the current user) opens *)
(* the transaction; now() in the database stays at this reading.           *)
Begin(r, op, d, push, since) ==
    /\ pc[r] = "idle"
    /\ clock < MaxClock
    /\ clock' = clock + 1
    /\ pc' = [pc EXCEPT ![r] = "begun"]
    /\ job' = [job EXCEPT ![r] = [op |-> op, dev |-> d, push |-> push,
                                  since |-> since, txAt |-> clock', now |-> 0]]
    /\ UNCHANGED <<db, ses, rsp, cursor, told>>

(* A device has one sync under way at a time and sends its last cursor.    *)
BeginSync(r) ==
    \E d \in Dev, batch \in Batches :
        /\ \A q \in Req : job[q].dev # d
        /\ Begin(r, "sync", d, batch, cursor[d])

BeginCreate(r) ==
    \E i \in Item, v \in Creates :
        Begin(r, "create", Absent, [Empty EXCEPT ![i] = v], 0)

BeginPatch(r) ==
    \E i \in Editable, body \in Patches :
        Begin(r, "patch", Absent, [Empty EXCEPT ![i] = body], 0)

NoFields == [rev |-> Absent, val |-> Absent, del |-> Absent]

BeginDelete(r) ==
    \E i \in Item :
        Begin(r, "delete", Absent, [Empty EXCEPT ![i] = NoFields], 0)

ReadClock(r) ==
    /\ clock' = clock + 1
    /\ job' = [job EXCEPT ![r].now = clock']

(* sync_vault takes the stamp of its updates before it reads a row.        *)
StartSync(r) ==
    /\ pc[r] = "begun" /\ job[r].op = "sync"
    /\ ReadClock(r)
    /\ pc' = [pc EXCEPT ![r] = "work"]
    /\ ses' = [ses EXCEPT ![r].todo = Steps(r)]
    /\ UNCHANGED <<db, rsp, cursor, told>>

(* The REST handlers read their row, check it, and take the stamp then.    *)
EditRow(r) ==
    /\ pc[r] = "begun" /\ job[r].op # "sync"
    /\ ReadClock(r)
    /\ \E i \in Pushed(r) :
         /\ Accepts(job[r].op, db[i])
         /\ ses' = [ses EXCEPT ![r] =
              [NoSes EXCEPT !.base = [Empty EXCEPT ![i] = db[i]],
                            !.mem  = [Empty EXCEPT ![i] =
                                Edit(job[r].op, db[i], job[r].push[i],
                                     job[r].txAt, clock')]]]
    /\ pc' = [pc EXCEPT ![r] = "work"]
    /\ UNCHANGED <<db, rsp, cursor, told>>

(* Mutant of Doing: the tables of a push are loaded in any order.          *)
DoingAnyLoad(r, step) ==
    /\ pc[r] = "work"
    /\ step \in ses[r].todo
    /\ step \in Table \/ \A other \in ses[r].todo : step <= other
    /\ Pending(r) = {}

Doing(r, step) == /\ pc[r] = "work"
                  /\ step \in ses[r].todo
                  /\ \A other \in ses[r].todo : step <= other
                  /\ Pending(r) = {}

(* The bulk select of the pushed rows of a table, and the upserts after it.*)
Load(r, t) ==
    /\ Doing(r, LoadOf(t))
    /\ LET here == Pushed(r) \cap InTable(t)
           made(i) == Upsert(db[i], job[r].push[i], job[r].txAt, job[r].now)
       IN  ses' = [ses EXCEPT ![r] =
             [base |-> [i \in Item |-> IF i \in here THEN db[i] ELSE @.base[i]],
              mem  |-> [i \in Item |-> IF i \in here THEN made(i) ELSE @.mem[i]],
              held |-> @.held,
              todo |-> @.todo \ {LoadOf(t)}]]
    /\ UNCHANGED <<clock, db, pc, job, rsp, cursor, told>>

(* The INSERTs and UPDATEs of the rows the session changed: they wait for  *)
(* the row locks and keep them to the end of the transaction.              *)
Flush(r) ==
    /\ pc[r] = "work"
    /\ Pending(r) # {}
    /\ Pending(r) \cap HeldByOthers(r) = {}
    /\ \A i \in Pending(r) : ~Broken(r, i)
    /\ ses' = [ses EXCEPT ![r].held = @ \cup Pending(r)]
    /\ UNCHANGED <<clock, db, pc, job, rsp, cursor, told>>

(* The rows of a table newer than the cursor, and the rows that won.       *)
Pull(r, t) ==
    /\ Doing(r, PullOf(t))
    /\ rsp' = [rsp EXCEPT ![r].rows = [i \in Item |->
                 IF i \notin InTable(t) THEN @[i]
                 ELSE IF Changed(r, i) \/ i \in Lost(r)
                      THEN Ver(Object(r, i))
                      ELSE Absent]]
    /\ ses' = [ses EXCEPT ![r].todo = @ \ {PullOf(t)}]
    /\ UNCHANGED <<clock, db, pc, job, cursor, told>>

(* max(updated_at) of a table, by a statement of its own.                  *)
Top(r, t) ==
    /\ Doing(r, TopOf(t))
    /\ LET rows   == {i \in InTable(t) : Seen(r, i) # Absent}
           stamps == {rsp[r].top} \cup {Seen(r, i).upd : i \in rows}
       IN  \E newest \in stamps :
             /\ \A s \in stamps : s <= newest
             /\ rsp' = [rsp EXCEPT ![r].top = newest]
    /\ ses' = [ses EXCEPT ![r].todo = @ \ {TopOf(t)}]
    /\ UNCHANGED <<clock, db, pc, job, cursor, told>>

Commit(r) ==
    /\ pc[r] = "work" /\ ses[r].todo = {} /\ Pending(r) = {}
    /\ db' = [i \in Item |-> Seen(r, i)]
    /\ pc' = [pc EXCEPT ![r] = "reply"]
    /\ ses' = [ses EXCEPT ![r] = NoSes]
    /\ UNCHANGED <<clock, job, rsp, cursor, told>>

End(r) ==
    /\ pc' = [pc EXCEPT ![r] = "idle"]
    /\ job' = [job EXCEPT ![r] = NoJob]
    /\ ses' = [ses EXCEPT ![r] = NoSes]
    /\ rsp' = [rsp EXCEPT ![r] = NoRsp]
    /\ UNCHANGED <<clock, db>>

(* The reply arrives: a sync moves the device's cursor and its copy.       *)
Deliver(r) ==
    /\ pc[r] = "reply"
    /\ IF job[r].op = "sync"
       THEN /\ cursor' = [cursor EXCEPT ![job[r].dev] = rsp[r].top]
            /\ told' = [told EXCEPT ![job[r].dev] = [i \in Item |->
                          IF rsp[r].rows[i] = Absent THEN @[i] ELSE rsp[r].rows[i]]]
       ELSE UNCHANGED <<cursor, told>>
    /\ End(r)

(* The reply is lost; the device knows nothing and will send again.        *)
Lose(r) == pc[r] = "reply" /\ End(r) /\ UNCHANGED <<cursor, told>>

(* 409 or 404: get_db rolls back.                                          *)
Reject(r) ==
    /\ pc[r] = "begun" /\ job[r].op # "sync"
    /\ \E i \in Pushed(r) : ~Accepts(job[r].op, db[i])
    /\ End(r) /\ UNCHANGED <<cursor, told>>

(* A statement of the flush is refused: 500, and get_db rolls back.        *)
StatementError(r) ==
    /\ pc[r] = "work"
    /\ \E i \in Pending(r) : Broken(r, i)
    /\ End(r) /\ UNCHANGED <<cursor, told>>

(* Any other exception (an attachment that fails its checks, a collection  *)
(* that is not there, a deadlock victim) or a crash: the transaction and   *)
(* the request are gone.                                                   *)
Abort(r) ==
    /\ pc[r] \in {"begun", "work"}
    /\ End(r) /\ UNCHANGED <<cursor, told>>

(* Past the bound nothing begins any more.                                 *)
Rest ==
    /\ clock >= MaxClock /\ \A r \in Req : pc[r] = "idle"
    /\ UNCHANGED vars

-----------------------------------------------------------------------------
Proceed(r) ==
    \/ StartSync(r) \/ EditRow(r) \/ Reject(r)
    \/ \E t \in Table : Load(r, t) \/ Pull(r, t) \/ Top(r, t)
    \/ Flush(r) \/ StatementError(r)
    \/ Commit(r) \/ Deliver(r)

Next ==
    \/ \E r \in Req : \/ BeginSync(r) \/ BeginCreate(r)
                      \/ BeginPatch(r) \/ BeginDelete(r)
                      \/ Proceed(r) \/ Lose(r) \/ Abort(r)
    \/ Rest

Spec == Init /\ [][Next]_vars

(* A request the server has begun is carried on; it need not fail.         *)
FairSpec == Spec /\ \A r \in Req : WF_vars(Proceed(r))

-----------------------------------------------------------------------------
(* PROPERTIES *)

(* Every variable has its type; in particular no committed revision is     *)
(* outside its column, whatever was pushed or incremented.                 *)
TypeOK ==
    /\ clock \in Nat
    /\ db \in [Item -> Row \cup {Absent}]
    /\ pc \in [Req -> {"idle", "begun", "work", "reply"}]
    /\ job \in [Req -> Job]
    /\ ses \in [Req -> Session]
    /\ rsp \in [Req -> Reply]
    /\ cursor \in [Dev -> Nat]
    /\ told \in [Dev -> [Item -> Version \cup {Absent}]]

(* A client that synced knows the fate of each item it pushed: the reply   *)
(* of a sync shows the item as accepted or the higher revision that beat   *)
(* it (even one older than the cursor), or the row was already the item.   *)
(* And the new cursor is not behind what the sync itself wrote, so the     *)
(* device does not fetch its own changes again.                            *)
Answered(r, i) ==
    LET item == job[r].push[i]
        row  == rsp[r].rows[i]
    IN  IF row = Absent THEN Ver(ses[r].base[i]) = item
        ELSE row = item \/ row.rev > item.rev

PushAnswered ==
    \A r \in Req : pc[r] = "work" /\ job[r].op = "sync" /\ ses[r].todo = {} =>
        /\ \A i \in Pushed(r) : Answered(r, i)
        /\ \A i \in ses[r].held : Seen(r, i).upd <= rsp[r].top

Store == INSTANCE VaultStore WITH store <- [i \in Item |-> Ver(db[i])]

(* The step of the abstract store that a request stands for.               *)
Promise(r) ==
    LET push == job[r].push
    IN  CASE job[r].op = "sync"   -> Store!Push(push)
          [] job[r].op = "create" -> \E i \in Pushed(r) : Store!Create(i, push[i])
          [] job[r].op = "patch"  -> \E i \in Pushed(r) : Store!Patch(i, push[i])
          [] job[r].op = "delete" -> \E i \in Pushed(r) : Store!Delete(i)

(* The rows a request is about are still the ones it loaded.               *)
Unraced(r) == \A i \in Pushed(r) : ses[r].base[i] = db[i]

(* A request whose rows nobody changed since it read them takes effect as  *)
(* one step of the abstract store: last-write-wins over the whole push,    *)
(* every column from the winner, all tables together, other rows kept.     *)
UnracedCommitIsAtomic == [][\A r \in Req : Commit(r) /\ Unraced(r) => Promise(r)]_vars

(* A push of what is already stored (a retry after a lost reply, or the    *)
(* same edit made twice) leaves the stored version as it is, whatever was  *)
(* committed between the select of the row and the commit.                 *)
RetryChangesNothing ==
    [][\A r \in Req : Commit(r) /\ job[r].op = "sync" =>
         \A i \in Pushed(r) :
             Ver(db[i]) = job[r].push[i] => Ver(db'[i]) = Ver(db[i])]_vars

(* Every request ends, also when it has to wait for the row locks of       *)
(* others: locks are taken table by table in one order and go with the     *)
(* transaction.                                                            *)
EveryRequestEnds == \A r \in Req : pc[r] # "idle" ~> pc[r] = "idle"

(* When requests do not overlap, the vault is the abstract store.          *)
IsVaultStore == Store!Spec

(* When requests do not overlap, a device whose cursor is at or past the   *)
(* stamp of a row has been shown that row as it is.                        *)
ReplicaCurrent ==
    \A d \in Dev, i \in Item :
        db[i] # Absent /\ db[i].upd <= cursor[d] => told[d][i] = Ver(db[i])
=============================================================================

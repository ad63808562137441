------------------------------- MODULE Shares -------------------------------
(***************************************************************************)
(* Shares of vault items between accounts, and what the deletion of an     *)
(* account does to them.  A share is addressed to an e-mail address and,   *)
(* if it has one, to its account; it is pending, then accepted or revoked. *)
(*                                                                         *)
(* A handler reads the row by a plain select, checks it in memory, and     *)
(* writes the columns it changed at its flush.  Deleting an account        *)
(* deletes the shares it has received, as selected at its beginning, then  *)
(* the account and with it the shares it owns; a share that is addressed   *)
(* to it by then loses recipient_user_id and keeps recipient_email.        *)
(*                                                                         *)
(* The snapshot is opaque; revision and updated_at are never read.  The    *)
(* listing changes nothing.  Clients draw uuids at random: the uuid of a   *)
(* deleted row is not used again.                                          *)
(***************************************************************************)
CONSTANTS Req,     \* requests the server works on at the same time
          Person,  \* people, named by their e-mail address
          Account, \* ids of accounts (bounds the registrations)
          Uuid,    \* ids of shares (bounds the shares)
          Absent,  \* no row, no value
          Gone     \* a row that was deleted

Row == [owner : Account, to : Account \cup {Absent}, email : Person,
        payload : BOOLEAN, status : {"pending", "accepted", "revoked"}]

ASSUME ValuesAreApart ==
    /\ Absent \notin Person \cup Account \cup Uuid \cup Row
    /\ Gone \notin Row /\ Gone # Absent

VARIABLES
  email,  \* the address each account was registered with
  live,   \* the accounts that exist
  shares, \* the committed rows
  pc,     \* the next statement of each request
  job,    \* what each request was asked
  tx      \* what its transaction has read, and will write

vars == <<email, live, shares, pc, job, tx>>

Ops == {"create", "accept", "revoke", "delete"}

(* to, email: recipient_user_id and recipient_email of the body; known is  *)
(* history: when it began, the revoked shares (accept), or the received    *)
(* ones (delete).                                                          *)
Job == [op : Ops \cup {"none"}, actor : Account \cup {Absent}, uuid : Uuid \cup {Absent},
        to : Account \cup {Absent}, email : Person \cup {Absent}, payload : BOOLEAN,
        known : SUBSET Uuid]

(* base, row: the share as loaded and as changed; doomed: those a deletion *)
(* has selected.                                                           *)
Tx == [base : Row \cup {Absent}, row : Row \cup {Absent}, doomed : SUBSET Uuid]

NoJob == [op |-> "none", actor |-> Absent, uuid |-> Absent, to |-> Absent,
          email |-> Absent, payload |-> FALSE, known |-> {}]
NoTx  == [base |-> Absent, row |-> Absent, doomed |-> {}]

Stored == {u \in Uuid : shares[u] \in Row}

Owned(a)    == {u \in Stored : shares[u].owner = a}
Received(a) == {u \in Stored : shares[u].to = a}
Revoked     == {u \in Stored : shares[u].status = "revoked"}

AccountsOf(p) == {a \in live : email[a] = p}

-----------------------------------------------------------------------------
Init ==
    /\ email = [a \in Account |-> Absent]
    /\ live = {}
    /\ shares = [u \in Uuid |-> Absent]
    /\ pc = [r \in Req |-> "idle"]
    /\ job = [r \in Req |-> NoJob]
    /\ tx = [r \in Req |-> NoTx]

(* A new id each time; one account per address.                            *)
Register(p) ==
    /\ AccountsOf(p) = {}
    /\ \E a \in Account :
         /\ email[a] = Absent
         /\ email' = [email EXCEPT ![a] = p]
         /\ live' = live \cup {a}
    /\ UNCHANGED <<shares, pc, job, tx>>

Begin(r, a, asked) ==
    /\ pc[r] = "idle"
    /\ a \in live
    /\ pc' = [pc EXCEPT ![r] = "start"]
    /\ job' = [job EXCEPT ![r] = [asked EXCEPT !.actor = a]]
    /\ UNCHANGED <<email, live, shares, tx>>

BeginCreate(r) ==
    \E a \in Account, u \in Uuid, b \in Account \cup {Absent}, p \in Person, pay \in BOOLEAN :
        /\ shares[u] # Gone
        /\ b # Absent => email[b] # Absent
        /\ Begin(r, a, [NoJob EXCEPT !.op = "create", !.uuid = u, !.to = b,
                                     !.email = p, !.payload = pay])

BeginAccept(r) ==
    \E a \in Account, u \in Uuid :
        Begin(r, a, [NoJob EXCEPT !.op = "accept", !.uuid = u, !.known = Revoked])

BeginRevoke(r) ==
    \E a \in Account, u \in Uuid : Begin(r, a, [NoJob EXCEPT !.op = "revoke", !.uuid = u])

BeginDelete(r) ==
    \E a \in Account : Begin(r, a, [NoJob EXCEPT !.op = "delete", !.known = Received(a)])

End(r) ==
    /\ pc' = [pc EXCEPT ![r] = "idle"]
    /\ job' = [job EXCEPT ![r] = NoJob]
    /\ tx' = [tx EXCEPT ![r] = NoTx]

Go(r, next, state) ==
    /\ pc' = [pc EXCEPT ![r] = next]
    /\ tx' = [tx EXCEPT ![r] = state]
    /\ UNCHANGED <<email, live, shares, job>>

-----------------------------------------------------------------------------
(* Create: is the uuid free, and who is the recipient?                     *)

CheckUuid(r) ==
    /\ pc[r] = "start" /\ job[r].op = "create"
    /\ shares[job[r].uuid] = Absent
    /\ Go(r, "recipient", tx[r])

(* An id that is given goes before the address.                            *)
Recipients(r) == IF job[r].to # Absent THEN {job[r].to} \cap live
                                       ELSE AccountsOf(job[r].email)

(* Mutants of NewShare: the address of the body is kept beside an id; the  *)
(* status is left out.                                                     *)
NewShareAsAsked(r, to) ==
    [owner |-> job[r].actor, to |-> to, email |-> job[r].email,
     payload |-> job[r].payload, status |-> "pending"]
NewShareUnstated(r, to) ==
    [owner |-> job[r].actor, to |-> to, email |-> job[r].email,
     payload |-> job[r].payload, status |-> Absent]

NewShare(r, to) ==
    [owner |-> job[r].actor, to |-> to,
     email |-> IF job[r].to # Absent THEN email[to] ELSE job[r].email,
     payload |-> job[r].payload, status |-> "pending"]

(* A mutant of SelfShare: the ids of the body are compared.                *)
SelfShareById(r) == job[r].to = job[r].actor

SelfShare(r) == job[r].actor \in Recipients(r)

FindRecipient(r) ==
    /\ pc[r] = "recipient" /\ ~SelfShare(r)
    /\ \/ \E to \in Recipients(r) : Go(r, "flush", [tx[r] EXCEPT !.row = NewShare(r, to)])
       \/ /\ Recipients(r) = {} /\ job[r].to = Absent
          /\ Go(r, "flush", [tx[r] EXCEPT !.row = NewShare(r, Absent)])

-----------------------------------------------------------------------------
(* Accept and revoke.                                                      *)

(* A mutant of Allowed: a share is accepted whatever its status.           *)
AllowedRevoked(r, row) ==
    CASE job[r].op = "accept" -> /\ row.to = job[r].actor \/ row.email = email[job[r].actor]
                                 /\ row.payload
      [] job[r].op = "revoke" -> row.owner = job[r].actor /\ row.status # "revoked"

Allowed(r, row) ==
    CASE job[r].op = "accept" -> /\ row.status = "pending"
                                 /\ row.to = job[r].actor \/ row.email = email[job[r].actor]
                                 /\ row.payload
      [] job[r].op = "revoke" -> row.owner = job[r].actor /\ row.status # "revoked"

Change(r, row) ==
    IF job[r].op = "accept"
    THEN [row EXCEPT !.to = job[r].actor, !.email = email[job[r].actor], !.status = "accepted"]
    ELSE [row EXCEPT !.status = "revoked"]

Answers(r) == job[r].op \in {"accept", "revoke"}

ReadShare(r) ==
    /\ pc[r] = "start" /\ Answers(r)
    /\ job[r].uuid \in Stored
    /\ LET row == shares[job[r].uuid]
       IN  /\ Allowed(r, row)
           /\ Go(r, "flush", [tx[r] EXCEPT !.base = row, !.row = Change(r, row)])

(* 400, 403, 404 or 409.                                                   *)
Refused(r) ==
    \/ pc[r] = "start" /\ job[r].op = "create" /\ shares[job[r].uuid] # Absent
    \/ pc[r] = "recipient" /\ (SelfShare(r) \/ (Recipients(r) = {} /\ job[r].to # Absent))
    \/ /\ pc[r] = "start" /\ Answers(r)
       /\ job[r].uuid \in Stored => ~Allowed(r, shares[job[r].uuid])

Refuse(r) == Refused(r) /\ End(r) /\ UNCHANGED <<email, live, shares>>

-----------------------------------------------------------------------------
(* Deletion of an account: select the received shares, and delete them.    *)

(* A mutant of Doomed: the foreign key alone deals with received shares.   *)
DoomedNone(r) == {}

Doomed(r) == Received(job[r].actor)

SelectReceived(r) ==
    /\ pc[r] = "start" /\ job[r].op = "delete"
    /\ Go(r, "received", [tx[r] EXCEPT !.doomed = Doomed(r)])

-----------------------------------------------------------------------------
(* Row locks, of shares and of accounts.                                   *)

(* The rows the last flush of a deletion writes, by itself or by cascade.  *)
Cascade(a) == Owned(a) \cup Received(a)

LockedRows(q) ==
    CASE pc[q] = "commit" /\ job[q].op # "delete" -> {job[q].uuid}
      [] pc[q] = "commit" /\ job[q].op = "delete" -> tx[q].doomed \cup Cascade(job[q].actor)
      [] pc[q] = "flush"  /\ job[q].op = "delete" -> tx[q].doomed
      [] OTHER -> {}

(* The rows the next statement of r writes.                                *)
WantedRows(r) ==
    CASE job[r].op # "delete"  -> {job[r].uuid}
      [] pc[r] = "received"    -> tx[r].doomed
      [] OTHER                 -> Cascade(job[r].actor)

(* The accounts whose ids it writes into a share: they must exist, and     *)
(* cannot go before it ends.                                               *)
Refs(r) == CASE job[r].op = "create" -> {tx[r].row.owner, tx[r].row.to} \ {Absent}
             [] job[r].op = "accept" -> {tx[r].row.to} \ {tx[r].base.to}
             [] OTHER                -> {}

AccountsMeet(q, r) ==
    /\ pc[q] = "commit" /\ pc[r] = "flush"
    /\ \/ job[q].op = "delete" /\ job[q].actor \in Refs(r)
       \/ job[r].op = "delete" /\ job[r].actor \in Refs(q)
       \/ job[q].op = "delete" /\ job[r].op = "delete" /\ job[q].actor = job[r].actor

Waits(r) == \E q \in Req \ {r} : \/ LockedRows(q) \cap WantedRows(r) # {}
                                 \/ AccountsMeet(q, r)

-----------------------------------------------------------------------------
(* The statements that write, and the commit.                              *)

(* A unique or foreign key is violated, or the row of an UPDATE is gone.   *)
Broken(r) == \/ job[r].op = "create" /\ shares[job[r].uuid] # Absent
             \/ Answers(r) /\ shares[job[r].uuid] = Gone
             \/ ~(Refs(r) \subseteq live)

(* A DELETE that finds no row only warns.                                  *)
DeleteReceived(r) ==
    /\ pc[r] = "received" /\ ~Waits(r)
    /\ Go(r, "flush", tx[r])

Flush(r) ==
    /\ pc[r] = "flush" /\ ~Waits(r) /\ ~Broken(r)
    /\ Go(r, "commit", tx[r])

StatementError(r) ==
    /\ pc[r] = "flush" /\ ~Waits(r) /\ Broken(r)
    /\ End(r) /\ UNCHANGED <<email, live, shares>>

(* An UPDATE sets only the columns the session changed.                    *)
Column(base, new, newest) == IF new = base THEN newest ELSE new

Merged(base, new, newest) ==
    [owner   |-> newest.owner,
     to      |-> Column(base.to, new.to, newest.to),
     email   |-> Column(base.email, new.email, newest.email),
     payload |-> newest.payload,
     status  |-> Column(base.status, new.status, newest.status)]

CommitShare(r) ==
    /\ pc[r] = "commit" /\ job[r].op # "delete"
    /\ shares' = [shares EXCEPT ![job[r].uuid] =
                    IF job[r].op = "create" THEN tx[r].row
                    ELSE Merged(tx[r].base, tx[r].row, shares[job[r].uuid])]
    /\ End(r) /\ UNCHANGED <<email, live>>

(* ON DELETE CASCADE for the owner, SET NULL for the recipient.            *)
AfterDeletion(r, u) ==
    IF u \in tx[r].doomed \cup Owned(job[r].actor) THEN Gone
    ELSE IF u \in Received(job[r].actor) THEN [shares[u] EXCEPT !.to = Absent]
    ELSE shares[u]

CommitDelete(r) ==
    /\ pc[r] = "commit" /\ job[r].op = "delete"
    /\ live' = live \ {job[r].actor}
    /\ shares' = [u \in Uuid |-> AfterDeletion(r, u)]
    /\ End(r) /\ UNCHANGED email

(* A crash, a lost connection, or two deletions that wait for each other's *)
(* rows, of which PostgreSQL fails one: nothing of the request stays.      *)
Abort(r) == pc[r] # "idle" /\ End(r) /\ UNCHANGED <<email, live, shares>>

Next ==
    \/ \E p \in Person : Register(p)
    \/ \E r \in Req :
         \/ BeginCreate(r) \/ BeginAccept(r) \/ BeginRevoke(r) \/ BeginDelete(r)
         \/ CheckUuid(r) \/ FindRecipient(r) \/ ReadShare(r) \/ Refuse(r)
         \/ SelectReceived(r) \/ DeleteReceived(r) \/ Flush(r) \/ StatementError(r)
         \/ CommitShare(r) \/ CommitDelete(r) \/ Abort(r)

Spec == Init /\ [][Next]_vars

-----------------------------------------------------------------------------
(* PROPERTIES *)

(* Every variable has its type.                                            *)
TypeOK ==
    /\ email \in [Account -> Person \cup {Absent}]
    /\ live \subseteq {a \in Account : email[a] # Absent}
    /\ shares \in [Uuid -> Row \cup {Absent, Gone}]
    /\ pc \in [Req -> {"idle", "start", "recipient", "received", "flush", "commit"}]
    /\ job \in [Req -> Job]
    /\ tx \in [Req -> Tx]

(* A share belongs to the person it was addressed to: the account it names *)
(* has the address it names, the owner and the address never change, and   *)
(* no deletion, new registration or acceptance hands it to somebody else.  *)
AddresseeKept ==
    [][\A u \in Stored : u \in Stored' =>
         /\ shares'[u].owner = shares[u].owner
         /\ shares'[u].email = shares[u].email
         /\ shares'[u].to # Absent => email[shares'[u].to] = shares[u].email]_vars

(* shares.py: "Cannot share with yourself": no share is addressed to the   *)
(* person who owns it, though the address is looked up before the row is   *)
(* inserted and the account may be deleted and registered anew between.    *)
NoSelfShare == \A u \in Stored : shares[u].email # email[shares[u].owner]

(* A share never becomes pending again; it is accepted only by the         *)
(* addressee, in a request that began before it was revoked, and revoked   *)
(* only by its owner, whatever overlaps.                                   *)
StatusMovesRightly ==
    [][\A u \in Stored : u \in Stored' /\ shares'[u].status # shares[u].status =>
         \E r \in Req :
           /\ CommitShare(r) /\ job[r].uuid = u
           /\ \/ /\ shares'[u].status = "accepted"
                 /\ email[job[r].actor] = shares[u].email
                 /\ u \notin job[r].known
              \/ /\ shares'[u].status = "revoked"
                 /\ job[r].actor = shares[u].owner]_vars

(* auth_service.py: "remove rows so orphaned invite state does not linger  *)
(* after the user is gone": of the shares an account owned, or had         *)
(* received when its deletion began, none outlives it, and none names it.  *)
NothingLingers ==
    [][\A r \in Req : CommitDelete(r) /\ job[r].actor \in live =>
         \A u \in Stored' : /\ u \notin job[r].known
                            /\ job[r].actor \notin {shares'[u].owner, shares'[u].to}]_vars
=============================================================================

---------------------------- MODULE OrgMembership ----------------------------
(***************************************************************************)
(* The members of one organisation under concurrent requests of /orgs and  *)
(* /invites.  A handler reads the caller's membership, then the row it is  *)
(* about, each by a plain select of its own, checks both in memory, and    *)
(* writes the columns it changed; it locks the row only when it writes.    *)
(*                                                                         *)
(* A person has one e-mail address and is named by it; "registered" says   *)
(* who has an account yet.  The keys wrapped for a member are opaque, and  *)
(* revision and updated_at are never read by the server: both are left out.*)
(***************************************************************************)
EXTENDS Naturals

CONSTANTS Req,    \* requests the server works on at the same time
          User,   \* people, named by their e-mail address
          Slot,   \* ids of membership rows (bounds the invitations)
          Absent  \* no row, no account, no organisation

Role == {"owner", "admin", "member"}
Row  == [user : User \cup {Absent}, email : User, role : Role,
         status : {"invited", "active", "revoked"}]

ASSUME AbsentIsNoValue == Absent \notin User /\ Absent \notin Slot /\ Absent \notin Row

VARIABLES
  registered, \* the people who have an account
  org,        \* owner_user_id of the organisation, or Absent
  members,    \* the committed membership rows
  pc,         \* the next statement of each request
  job,        \* what each request was asked
  tx          \* what its transaction has read, and will write

vars == <<registered, org, members, pc, job, tx>>

Ops == {"create", "invite", "accept", "role", "remove", "revoke", "leave"}

(* actor: the current user; slot: the member or invite named in the path;  *)
(* email, role: the body.                                                  *)
Job == [op : Ops \cup {"none"}, actor : User \cup {Absent}, slot : Slot \cup {Absent},
        email : User \cup {Absent}, role : Role]

(* me, rank: id and role of the actor's own membership; slot, base, mem:   *)
(* the row to write, as loaded (or Absent) and as changed.                 *)
Tx == [me : Slot \cup {Absent}, rank : Role, recipient : User \cup {Absent},
       slot : Slot \cup {Absent}, base : Row \cup {Absent}, mem : Row \cup {Absent}]

NoJob == [op |-> "none", actor |-> Absent, slot |-> Absent,
          email |-> Absent, role |-> "member"]
NoTx  == [me |-> Absent, rank |-> "member", recipient |-> Absent,
          slot |-> Absent, base |-> Absent, mem |-> Absent]

Stored == {s \in Slot : members[s] # Absent}

-----------------------------------------------------------------------------
Init ==
    /\ registered = {}
    /\ org = Absent
    /\ members = [s \in Slot |-> Absent]
    /\ pc = [r \in Req |-> "idle"]
    /\ job = [r \in Req |-> NoJob]
    /\ tx = [r \in Req |-> NoTx]

(* An account is created by /auth/register.                                *)
Register(u) ==
    /\ u \notin registered
    /\ registered' = registered \cup {u}
    /\ UNCHANGED <<org, members, pc, job, tx>>

Begin(r, asked) ==
    /\ pc[r] = "idle"
    /\ asked.actor \in registered
    /\ pc' = [pc EXCEPT ![r] = "check"]
    /\ job' = [job EXCEPT ![r] = asked]
    /\ UNCHANGED <<registered, org, members, tx>>

By(op, u) == [NoJob EXCEPT !.op = op, !.actor = u]

BeginCreate(r) == \E u \in User : Begin(r, By("create", u))

BeginInvite(r) ==
    \E u, email \in User, role \in {"admin", "member"} :
        Begin(r, [By("invite", u) EXCEPT !.email = email, !.role = role])

BeginAccept(r) ==
    \E u \in User, s \in Stored : Begin(r, [By("accept", u) EXCEPT !.slot = s])

BeginRole(r) ==
    \E u \in User, s \in Stored, role \in {"admin", "member"} :
        Begin(r, [By("role", u) EXCEPT !.slot = s, !.role = role])

BeginRemove(r) ==
    \E u \in User, s \in Stored, op \in {"remove", "revoke"} :
        Begin(r, [By(op, u) EXCEPT !.slot = s])

BeginLeave(r) == \E u \in User : Begin(r, By("leave", u))

End(r) ==
    /\ pc' = [pc EXCEPT ![r] = "idle"]
    /\ job' = [job EXCEPT ![r] = NoJob]
    /\ tx' = [tx EXCEPT ![r] = NoTx]

Go(r, next, state) ==
    /\ pc' = [pc EXCEPT ![r] = next]
    /\ tx' = [tx EXCEPT ![r] = state]
    /\ UNCHANGED <<registered, org, members, job>>

-----------------------------------------------------------------------------
(* The caller: an active member, and for all but leave one that manages.   *)

Memberships(u) ==
    {s \in Stored : members[s].user = u /\ members[s].status = "active"}

Entitled(r, s) == /\ s \in Memberships(job[r].actor)
                  /\ job[r].op = "leave" \/ members[s].role \in {"owner", "admin"}

ByMember(r) == job[r].op \in {"invite", "role", "remove", "revoke", "leave"}

(* Leave goes on with the row it has just read.                            *)
CheckActor(r) ==
    /\ pc[r] = "check" /\ ByMember(r) /\ job[r].op # "leave"
    /\ \E s \in Slot :
         /\ Entitled(r, s)
         /\ Go(r, IF job[r].op = "invite" THEN "lookup" ELSE "target",
               [tx[r] EXCEPT !.me = s, !.rank = members[s].role])

-----------------------------------------------------------------------------
(* The row the request is about.                                           *)

IsOwner(row) == row.role = "owner" \/ row.user = org

(* Mutant of Manages: an admin may manage admins.                          *)
ManagesAdmins(r, s) ==
    members[s].status # "revoked" /\ ~IsOwner(members[s]) /\ s # tx[r].me

(* An admin may manage members; only the owner may manage admins.          *)
Manages(r, s) ==
    /\ members[s].status # "revoked"
    /\ ~IsOwner(members[s])
    /\ s # tx[r].me
    /\ tx[r].rank = "admin" => members[s].role # "admin"

(* Mutant of Allowed: the owner's row is not protected.                    *)
AllowedOnOwner(r, s) ==
    CASE job[r].op = "accept" -> members[s].status = "invited" /\ members[s].email = job[r].actor
      [] job[r].op = "leave"  -> s \in Memberships(job[r].actor)
      [] job[r].op = "revoke" -> members[s].status = "invited"
      [] OTHER -> members[s].status # "revoked" /\ s # tx[r].me

Allowed(r, s) ==
    CASE job[r].op = "accept" -> /\ members[s].status = "invited"
                                 /\ members[s].email = job[r].actor
      [] job[r].op = "role"   -> /\ Manages(r, s)
                                 /\ tx[r].rank = "admin" => job[r].role # "admin"
      [] job[r].op = "remove" -> Manages(r, s)
      [] job[r].op = "revoke" -> members[s].status = "invited"
      [] job[r].op = "leave"  -> /\ Entitled(r, s)
                                 /\ ~IsOwner(members[s])

(* What the handler makes of the row.                                      *)
Change(r, row) ==
    CASE job[r].op = "accept" -> [row EXCEPT !.user = job[r].actor, !.status = "active"]
      [] job[r].op = "role"   -> [row EXCEPT !.role = job[r].role]
      [] OTHER                -> [row EXCEPT !.status = "revoked"]

Target(r) == IF job[r].op = "leave" THEN Memberships(job[r].actor) ELSE {job[r].slot}

AtTarget(r) == \/ pc[r] = "target" /\ job[r].op # "invite"
               \/ pc[r] = "check" /\ job[r].op \in {"accept", "leave"}

ReadTarget(r) ==
    /\ AtTarget(r)
    /\ \E s \in Target(r) :
         /\ Allowed(r, s)
         /\ Go(r, "flush", [tx[r] EXCEPT !.slot = s, !.base = members[s],
                                         !.mem = Change(r, members[s])])

(* Ids no row has, and no INSERT under way.                                *)
Fresh == {s \in Slot \ Stored : \A q \in Req : tx[q].slot # s}

(* Create: the organisation and its owner's membership.                    *)
FirstRow(r) == [user |-> job[r].actor, email |-> job[r].actor,
                role |-> "owner", status |-> "active"]

ReadOrg(r) ==
    /\ pc[r] = "check" /\ job[r].op = "create"
    /\ org = Absent
    /\ \E s \in Fresh : Go(r, "flush", [tx[r] EXCEPT !.slot = s, !.mem = FirstRow(r)])

(* Invite: is there an account of this address?                            *)
Lookup(r) ==
    /\ pc[r] = "lookup"
    /\ job[r].email # job[r].actor
    /\ Go(r, "target", [tx[r] EXCEPT
            !.recipient = IF job[r].email \in registered THEN job[r].email ELSE Absent])

(* The rows of this address or this account; the query takes any of them.  *)
Matches(r) ==
    {s \in Stored : \/ members[s].email = job[r].email
                    \/ tx[r].recipient # Absent /\ members[s].user = tx[r].recipient}

(* Mutants of Invitation: the role of the body is dropped; a person who    *)
(* has an account is added without being asked.                            *)
InvitationAtOnce(r) == [user |-> tx[r].recipient, email |-> job[r].email, role |-> job[r].role,
                        status |-> IF tx[r].recipient = Absent THEN "invited" ELSE "active"]

InvitationWithoutRole(r) == [user |-> tx[r].recipient, email |-> job[r].email,
                             role |-> Absent, status |-> "invited"]

Invitation(r) == [user |-> tx[r].recipient, email |-> job[r].email,
                  role |-> job[r].role, status |-> "invited"]

Revived(r) == {s \in Matches(r) : members[s].status = "revoked"}

ReadInvited(r) ==
    /\ pc[r] = "target" /\ job[r].op = "invite"
    /\ \/ \E s \in Revived(r) :
            Go(r, "flush", [tx[r] EXCEPT !.slot = s, !.base = members[s],
                                         !.mem = Invitation(r)])
       \/ /\ Matches(r) = {}
          /\ \E s \in Fresh :
               Go(r, "flush", [tx[r] EXCEPT !.slot = s, !.mem = Invitation(r)])

(* 400, 403, 404 or 409.                                                   *)
Refused(r) ==
    \/ pc[r] = "check" /\ job[r].op = "create" /\ org # Absent
    \/ pc[r] = "check" /\ ByMember(r) /\ \A s \in Slot : ~Entitled(r, s)
    \/ pc[r] = "lookup" /\ job[r].email = job[r].actor
    \/ pc[r] = "target" /\ job[r].op = "invite" /\ Matches(r) \ Revived(r) # {}
    \/ AtTarget(r) /\ \E s \in Target(r) : ~Allowed(r, s)

Refuse(r) == Refused(r) /\ End(r) /\ UNCHANGED <<registered, org, members>>

-----------------------------------------------------------------------------
(* The INSERT or UPDATE, and the commit.                                   *)

Flushed(r) == pc[r] = "commit"

(* A mutant: (org_id, user_id) is not unique.                              *)
NewUserUnchecked(r) == {}

(* The statement puts a user_id into the unique (org_id, user_id).         *)
NewUser(r) == IF tx[r].base # Absent /\ tx[r].base.user = tx[r].mem.user
              THEN {} ELSE {tx[r].mem.user} \ {Absent}

(* What a row that q has written makes r wait for.                         *)
Collides(q, r) == \/ tx[q].slot = tx[r].slot
                  \/ tx[q].mem.user \in NewUser(r)
                  \/ job[q].op = "create" /\ job[r].op = "create"

Waits(r) == \E q \in Req \ {r} : Flushed(q) /\ Collides(q, r)

(* A unique violation: the user has a row, or the uuid an organisation.    *)
Broken(r) == \/ \E s \in Stored \ {tx[r].slot} : members[s].user \in NewUser(r)
             \/ job[r].op = "create" /\ org # Absent

Flush(r) ==
    /\ pc[r] = "flush" /\ ~Waits(r) /\ ~Broken(r)
    /\ Go(r, "commit", tx[r])

StatementError(r) ==
    /\ pc[r] = "flush" /\ ~Waits(r) /\ Broken(r)
    /\ End(r) /\ UNCHANGED <<registered, org, members>>

(* An UPDATE sets only the columns the session changed.                    *)
Column(base, mem, newest) == IF mem = base THEN newest ELSE mem

Merged(r) ==
    LET base   == tx[r].base
        mem    == tx[r].mem
        newest == members[tx[r].slot]
    IN  IF base = Absent THEN mem
        ELSE [user   |-> Column(base.user, mem.user, newest.user),
              email  |-> Column(base.email, mem.email, newest.email),
              role   |-> Column(base.role, mem.role, newest.role),
              status |-> Column(base.status, mem.status, newest.status)]

Commit(r) ==
    /\ Flushed(r)
    /\ members' = [members EXCEPT ![tx[r].slot] = Merged(r)]
    /\ org' = IF job[r].op = "create" THEN job[r].actor ELSE org
    /\ End(r) /\ UNCHANGED registered

(* A crash or a lost connection: nothing of the request stays.             *)
Abort(r) == pc[r] # "idle" /\ End(r) /\ UNCHANGED <<registered, org, members>>

Proceed(r) ==
    \/ CheckActor(r) \/ ReadOrg(r) \/ ReadTarget(r) \/ Lookup(r) \/ ReadInvited(r)
    \/ Refuse(r) \/ Flush(r) \/ StatementError(r) \/ Commit(r)

Next ==
    \/ \E r \in Req : \/ BeginCreate(r) \/ BeginInvite(r) \/ BeginAccept(r)
                      \/ BeginRole(r) \/ BeginRemove(r) \/ BeginLeave(r)
                      \/ Proceed(r) \/ Abort(r)
    \/ \E u \in User : Register(u)

Spec == Init /\ [][Next]_vars

-----------------------------------------------------------------------------
(* PROPERTIES *)

(* Every variable has its type.                                            *)
TypeOK ==
    /\ registered \subseteq User
    /\ org \in User \cup {Absent}
    /\ members \in [Slot -> Row \cup {Absent}]
    /\ pc \in [Req -> {"idle", "check", "lookup", "target", "flush", "commit"}]
    /\ job \in [Req -> Job]
    /\ tx \in [Req -> Tx]

(* The organisation is never without its owner: whatever admins do and     *)
(* whatever overlaps, exactly the row of owner_user_id has the role        *)
(* "owner", and it is active.                                              *)
OwnerStays ==
    /\ org # Absent => \E s \in Stored : members[s].user = org
    /\ \A s \in Stored : /\ members[s].role = "owner" <=> members[s].user = org
                         /\ members[s].user = org => members[s].status = "active"

(* A membership belongs to the person it was addressed to, and a person    *)
(* has at most one, however invitations and acceptances overlap.           *)
MembersAreThemselves ==
    \A s \in Stored :
        /\ members[s].user \in {Absent, members[s].email}
        /\ \A t \in Stored \ {s} : members[s].user # Absent => members[t].user # members[s].user

(* Nobody is made an active member by somebody else: a change of role that *)
(* overlaps a leave, or a second invitation, does not bring a person back. *)
IsActive(row) == row # Absent /\ row.status = "active"

JoiningIsOnesOwn ==
    [][\A s \in Slot : IsActive(members'[s]) /\ ~IsActive(members[s]) =>
         \E r \in Req : Commit(r) /\ job[r].actor = members'[s].email]_vars

(* orgs.py: "User already invited or a member": nobody who is invited or a *)
(* member is invited again, whether or not they have an account.  Two      *)
(* overlapping invitations of one address break it; a theorem says that    *)
(* nothing else does.                                                      *)
OnlyStrangersAreInvited ==
    [][\A r \in Req : Commit(r) /\ job[r].op = "invite" =>
         \A s \in Stored : members[s].email = job[r].email
                               => members[s].status = "revoked"]_vars

(* orgs.py: "Admins cannot change other admins", "Admins cannot remove     *)
(* other admins": the row of an active admin is changed only by the owner, *)
(* by the admin, or by a request that overlaps what made the person one:   *)
(* it had read the row as it was before.                                   *)
IsAdmin(row) == IsActive(row) /\ row.role = "admin"

AdminsArePeers ==
    [][\A s \in Stored : IsAdmin(members[s]) =>
         \/ members'[s] = members[s]
         \/ \E r \in Req : /\ Commit(r) /\ tx[r].slot = s
                           /\ \/ job[r].actor \in {org, members[s].email}
                              \/ ~IsAdmin(tx[r].base)]_vars
=============================================================================

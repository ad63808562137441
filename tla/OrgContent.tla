----------------------------- MODULE OrgContent -----------------------------
(***************************************************************************)
(* The shared collections and entries of the organisation, written by its  *)
(* members while OrgMembership goes on.  A handler reads the caller's      *)
(* membership, the collection the body names and the row itself, each by a *)
(* plain select, and writes the columns it changed at its flush.           *)
(*                                                                         *)
(* Names, payloads and revisions are never read by the server: of a row    *)
(* there remain the collection it is in and whether it is deleted.  Rows   *)
(* are never removed.  The listings change nothing and are left out.       *)
(***************************************************************************)
EXTENDS OrgMembership

CONSTANTS Coll,  \* client ids of collections
          Entry  \* client ids of entries

Id   == Coll \cup Entry
Item == [coll : Coll \cup {Absent}, deleted : BOOLEAN]

ASSUME ContentIsApart == /\ Coll \cap Entry = {}
                         /\ Absent \notin Id
                         /\ Absent \notin Item

VARIABLES
  content,  \* the committed rows
  step,     \* the next statement of each request about content
  work,     \* what it was asked, and the row as loaded
  witnessed \* history: which of its checks held at some moment since it began

contentVars == <<content, step, work, witnessed>>
allVars == <<vars, contentVars>>

(* sent: the columns the body sets, to those of row.                       *)
Work == [op : {"none", "post", "patch", "delete"}, actor : User \cup {Absent},
         item : Id \cup {Absent}, sent : SUBSET {"coll", "deleted"}, row : Item,
         base : Item \cup {Absent}]

Blank  == [coll |-> Absent, deleted |-> FALSE]
NoWork == [op |-> "none", actor |-> Absent, item |-> Absent, sent |-> {},
           row |-> Blank, base |-> Absent]

Live == {i \in Id : content[i] # Absent /\ ~content[i].deleted}

ContentInit ==
    /\ Init
    /\ content = [i \in Id |-> Absent]
    /\ step = [r \in Req |-> "idle"]
    /\ work = [r \in Req |-> NoWork]
    /\ witnessed = [r \in Req |-> {}]

-----------------------------------------------------------------------------
(* Requests.                                                               *)

Ask(r, u, asked) ==
    /\ step[r] = "idle" /\ pc[r] = "idle"
    /\ u \in registered
    /\ step' = [step EXCEPT ![r] = "member"]
    /\ work' = [work EXCEPT ![r] = [asked EXCEPT !.actor = u]]
    /\ UNCHANGED <<vars, content>>

(* A collection is in no collection.                                       *)
Folders(i) == IF i \in Coll THEN {Absent} ELSE Coll \cup {Absent}

BeginPost(r) ==
    \E u \in User, i \in Id : \E c \in Folders(i) :
        Ask(r, u, [NoWork EXCEPT !.op = "post", !.item = i, !.sent = {"coll", "deleted"},
                                 !.row = [coll |-> c, deleted |-> FALSE]])

(* A body that sets neither column changes nothing here.                   *)
BeginPatch(r) ==
    \E u \in User, i \in Id, sent \in {{"coll"}, {"deleted"}, {"coll", "deleted"}} :
        \E c \in Folders(i), d \in BOOLEAN :
            /\ "coll" \in sent => i \in Entry
            /\ "coll" \notin sent => c = Absent
            /\ "deleted" \notin sent => ~d
            /\ Ask(r, u, [NoWork EXCEPT !.op = "patch", !.item = i, !.sent = sent,
                                        !.row = [coll |-> c, deleted |-> d]])

BeginDelete(r) ==
    \E u \in User, i \in Id :
        Ask(r, u, [NoWork EXCEPT !.op = "delete", !.item = i, !.sent = {"deleted"},
                                 !.row = [coll |-> Absent, deleted |-> TRUE]])

Advance(r, next) ==
    /\ step' = [step EXCEPT ![r] = next]
    /\ UNCHANGED <<vars, content>>

Done(r) ==
    /\ step' = [step EXCEPT ![r] = "idle"]
    /\ work' = [work EXCEPT ![r] = NoWork]
    /\ UNCHANGED vars

-----------------------------------------------------------------------------
(* The checks.                                                             *)

Managers(u) == {s \in Memberships(u) : members[s].role \in {"owner", "admin"}}

(* A mutant of MayWrite: any member deletes collections.                   *)
AnyMayWrite(r) == Memberships(work[r].actor) # {}

(* An active member; to DELETE a collection, an owner or admin.            *)
MayWrite(r) == IF work[r].op = "delete" /\ work[r].item \in Coll
               THEN Managers(work[r].actor) # {}
               ELSE Memberships(work[r].actor) # {}

NamesFolder(r) == "coll" \in work[r].sent /\ work[r].row.coll # Absent

CheckMember(r) ==
    /\ step[r] = "member" /\ MayWrite(r)
    /\ Advance(r, IF work[r].op = "post" /\ NamesFolder(r) THEN "folder" ELSE "item")
    /\ UNCHANGED work

(* Mutants of FolderFound: a deleted collection is found too; there is no  *)
(* check.                                                                  *)
FolderFoundDeleted(r) == content[work[r].row.coll] # Absent
FolderFoundAlways(r) == TRUE

(* Only a live collection is found.                                        *)
FolderFound(r) == work[r].row.coll \in Live

(* A POST checks the collection before it reads the row, a PATCH after.    *)
CheckFolder(r) ==
    /\ step[r] = "folder" /\ FolderFound(r)
    /\ Advance(r, IF work[r].op = "post" THEN "item" ELSE "flush")
    /\ UNCHANGED work

(* A mutant of Suits: PATCH and DELETE find deleted rows.                  *)
SuitsDeleted(r) == IF work[r].op = "post" THEN work[r].item \notin Live
                   ELSE content[work[r].item] # Absent

(* A POST needs an id that is free or deleted, the others a live row.      *)
Suits(r) == IF work[r].op = "post" THEN work[r].item \notin Live
                                   ELSE work[r].item \in Live

ReadItem(r) ==
    /\ step[r] = "item" /\ Suits(r)
    /\ Advance(r, IF work[r].op = "patch" /\ NamesFolder(r) THEN "folder" ELSE "flush")
    /\ work' = [work EXCEPT ![r].base = content[work[r].item]]

(* 400, 403, 404 or 409.                                                   *)
Turned(r) == \/ step[r] = "member" /\ ~MayWrite(r)
             \/ step[r] = "folder" /\ ~FolderFound(r)
             \/ step[r] = "item"   /\ ~Suits(r)

TurnAway(r) == Turned(r) /\ Done(r) /\ UNCHANGED content

-----------------------------------------------------------------------------
(* The INSERT or UPDATE, and the commit.                                   *)

(* The row lock, or the entry of the unique (org_id, uuid).                *)
Held(r) == \E q \in Req \ {r} : step[q] = "commit" /\ work[q].item = work[r].item

(* A unique violation.                                                     *)
Taken(r) == work[r].base = Absent /\ content[work[r].item] # Absent

FlushItem(r) ==
    /\ step[r] = "flush" /\ ~Held(r) /\ ~Taken(r)
    /\ Advance(r, "commit")
    /\ UNCHANGED work

FlushFails(r) ==
    /\ step[r] = "flush" /\ ~Held(r) /\ Taken(r)
    /\ Done(r) /\ UNCHANGED content

(* Only a column whose value differs from the loaded one is in the UPDATE. *)
Sets(r, col) == /\ col \in work[r].sent
                /\ work[r].row[col] # work[r].base[col]

Written(r) ==
    IF work[r].base = Absent THEN work[r].row
    ELSE [coll    |-> IF Sets(r, "coll") THEN work[r].row.coll
                                         ELSE content[work[r].item].coll,
          deleted |-> IF Sets(r, "deleted") THEN work[r].row.deleted
                                            ELSE content[work[r].item].deleted]

CommitItem(r) ==
    /\ step[r] = "commit"
    /\ content' = [content EXCEPT ![work[r].item] = Written(r)]
    /\ Done(r)

(* A crash, a lost connection, or a NULL for a column that allows none.    *)
Drop(r) == step[r] # "idle" /\ Done(r) /\ UNCHANGED content

-----------------------------------------------------------------------------
(* Those checks of r that would pass at this moment.                       *)
Fact == {"member", "manager", "folder", "free"}

Facts(r) ==
    {f \in Fact :
        \/ f = "member"  /\ Memberships(work[r].actor) # {}
        \/ f = "manager" /\ work[r].op = "delete" /\ Managers(work[r].actor) # {}
        \/ f = "folder"  /\ NamesFolder(r) /\ work[r].row.coll \in Live
        \/ f = "free"    /\ work[r].op = "post" /\ work[r].item \notin Live}

Witness == witnessed' = [r \in Req |-> IF step'[r] = "idle" THEN {}
                                       ELSE witnessed[r] \cup Facts(r)']

(* A request is about members or about content.                            *)
MemberStep ==
    /\ Next
    /\ \A r \in Req : step[r] # "idle" => pc'[r] = "idle"
    /\ UNCHANGED <<content, step, work>>

ContentStep ==
    \E r \in Req :
        \/ BeginPost(r) \/ BeginPatch(r) \/ BeginDelete(r)
        \/ CheckMember(r) \/ CheckFolder(r) \/ ReadItem(r) \/ TurnAway(r)
        \/ FlushItem(r) \/ FlushFails(r) \/ CommitItem(r) \/ Drop(r)

ContentNext == (MemberStep \/ ContentStep) /\ Witness

ContentSpec == ContentInit /\ [][ContentNext]_allVars

-----------------------------------------------------------------------------
(* PROPERTIES *)

(* Every variable has its type; a collection is in no collection, and an   *)
(* entry in none or in one that has a row.                                 *)
ContentTypeOK ==
    /\ content \in [Id -> Item \cup {Absent}]
    /\ \A i \in Id : content[i] # Absent /\ content[i].coll # Absent
                      => i \in Entry /\ content[content[i].coll] # Absent
    /\ step \in [Req -> {"idle", "member", "folder", "item", "flush", "commit"}]
    /\ work \in [Req -> Work]
    /\ witnessed \in [Req -> SUBSET Fact]

Writes(r, i) == CommitItem(r) /\ work[r].item = i

(* Shared content is changed by people who were active members at some     *)
(* moment of the request, and a collection is DELETEd only by one who was  *)
(* owner or admin at some moment of it: a removal or a demotion binds all  *)
(* that is asked after it, whatever is under way.                          *)
OnlyMembersWrite ==
    [][\A i \in Id : content'[i] # content[i] =>
         \E r \in Req : /\ Writes(r, i)
                        /\ "member" \in witnessed[r]
                        /\ work[r].op = "delete" /\ i \in Coll
                             => "manager" \in witnessed[r]]_allVars

(* An entry is put only into a collection that was live at some moment of  *)
(* the request that put it there: never into one deleted before it began.  *)
EnteredFolderWasLive ==
    [][\A e \in Entry :
         /\ content'[e] # content[e]
         /\ content'[e].coll # Absent
         /\ content[e] = Absent \/ content[e].coll # content'[e].coll
         => \E r \in Req : Writes(r, e) /\ "folder" \in witnessed[r]]_allVars

(* A deletion is final for PATCH and DELETE, however they overlap it: a    *)
(* deleted row comes back by a POST of its id, and a POST never replaces a *)
(* row that was live all the time.                                         *)
OnlyPostRevives ==
    [][/\ \A i \in Id \ Live : i \in Live' => \E r \in Req : Writes(r, i) /\ work[r].op = "post"
       /\ \A r \in Req : CommitItem(r) /\ work[r].op = "post" => "free" \in witnessed[r]]_allVars
=============================================================================

--------------------------- MODULE OrgContentProofs ---------------------------
(***************************************************************************)
(* Theorems about OrgContent, for any number of requests, people,          *)
(* collections and entries, whatever happens to the memberships meanwhile. *)
(*                                                                         *)
(* A request writes on the strength of checks it made earlier.  The        *)
(* inductive invariant says that what has been checked is witnessed (the   *)
(* state of a check is one of the states of the request), and that the row *)
(* loaded in between suited the request, whoever changes it afterwards.    *)
(***************************************************************************)
EXTENDS OrgContent, TLAPS

Stages == {"idle", "member", "folder", "item", "flush", "commit"}

Asks(w) == /\ w.op \in {"post", "patch", "delete"}
           /\ w.actor \in User /\ w.item \in Id
           /\ w.item \in Coll => w.row.coll = Absent
           /\ w.op = "post" => w.sent = {"coll", "deleted"} /\ ~w.row.deleted
           /\ w.op = "delete" => w.sent = {"deleted"} /\ w.row.deleted

Enters(w) == "coll" \in w.sent /\ w.row.coll # Absent

(* The row as it was loaded.                                               *)
Loaded(w) == /\ w.op = "post" => w.base = Absent \/ w.base.deleted
             /\ w.op # "post" => w.base # Absent /\ ~w.base.deleted
             /\ w.base # Absent => content[w.item] # Absent

(* A request whose next statement is s, and whose checks f are witnessed.  *)
WorkOK(s, w, f) ==
    /\ Asks(w)
    /\ s # "member" => /\ "member" \in f
                       /\ w.op = "delete" /\ w.item \in Coll => "manager" \in f
    /\ s = "folder" => Enters(w)
    /\ Enters(w) /\ (s \in {"flush", "commit"} \/ (s = "item" /\ w.op = "post"))
         => "folder" \in f /\ content[w.row.coll] # Absent
    /\ s \in {"flush", "commit"} \/ (s = "folder" /\ w.op # "post") => Loaded(w)
    /\ s \in {"flush", "commit"} /\ w.op = "post" => "free" \in f
    /\ s = "commit" /\ w.base = Absent => content[w.item] = Absent

CInv == /\ ContentTypeOK
        /\ \A r \in Req : step[r] # "idle" => /\ WorkOK(step[r], work[r], witnessed[r])
                                              /\ Facts(r) \subseteq witnessed[r]
        /\ \A q, r \in Req : q # r /\ step[q] = "commit" /\ step[r] = "commit"
                                => work[q].item # work[r].item

-----------------------------------------------------------------------------
LEMMA Typed ==
    ASSUME CInv, NEW r \in Req
    PROVE  step[r] \in Stages /\ work[r] \in Work /\ witnessed[r] \subseteq Fact
  BY DEF CInv, ContentTypeOK, Stages

LEMMA MoreWitnesses ==
    ASSUME NEW s, NEW w, NEW f, NEW g, WorkOK(s, w, f), f \subseteq g
    PROVE  WorkOK(s, w, g)
  BY DEF WorkOK

(* Whatever changes, the witnesses of a request that goes on stay, and     *)
(* what holds now joins them.                                              *)
LEMMA Witnesses ==
    ASSUME CInv, Witness
    PROVE  /\ witnessed' \in [Req -> SUBSET Fact]
           /\ \A q \in Req : step'[q] # "idle" => /\ Facts(q)' \subseteq witnessed'[q]
                                                  /\ witnessed[q] \subseteq witnessed'[q]
<1>1. \A q \in Req : Facts(q)' \subseteq Fact /\ witnessed[q] \subseteq Fact
  BY Typed DEF Facts
<1>2. \A q \in Req : witnessed'[q] = IF step'[q] = "idle" THEN {} ELSE witnessed[q] \cup Facts(q)'
  BY DEF Witness
<1>3. witnessed' \in [Req -> SUBSET Fact]
  BY <1>1 DEF Witness
<1> QED
  BY <1>2, <1>3

(* A step of one request that commits nothing.                             *)
LEMMA Local ==
    ASSUME CInv, Witness, NEW r \in Req, NEW s \in Stages, NEW w \in Work,
           content' = content,
           step' = [step EXCEPT ![r] = s], work' = [work EXCEPT ![r] = w],
           s # "idle" => WorkOK(s, w, witnessed[r]),
           s = "commit" => \A q \in Req \ {r} : step[q] = "commit" => work[q].item # w.item
    PROVE  CInv'
<1>1. \A q \in Req : /\ step'[q] = IF q = r THEN s ELSE step[q]
                     /\ work'[q] = IF q = r THEN w ELSE work[q]
  BY DEF CInv, ContentTypeOK
<1>2. ContentTypeOK'
  BY Witnesses DEF CInv, ContentTypeOK, Stages
<1>3. ASSUME NEW q \in Req, step'[q] # "idle"
      PROVE  WorkOK(step[q], work[q], witnessed[q])'
  <2> PICK s2, w2, f2 : s2 = step'[q] /\ w2 = work'[q] /\ f2 = witnessed'[q]
    OBVIOUS
  <2>1. WorkOK(s2, w2, witnessed[q])
    BY <1>1, <1>3 DEF CInv
  <2>2. witnessed[q] \subseteq f2
    BY <1>3, Witnesses
  <2>3. WorkOK(s2, w2, f2)
    BY <2>1, <2>2, MoreWitnesses
  <2>4. WorkOK(s2, w2, f2)'
    BY <2>3 DEF WorkOK, Asks, Enters, Loaded
  <2> QED
    BY <2>4 DEF WorkOK, Asks, Enters, Loaded
<1> QED
  BY <1>1, <1>2, <1>3, Witnesses DEF CInv

LEMMA DoneOK ==
    ASSUME CInv, Witness, NEW r \in Req, Done(r), content' = content
    PROVE  CInv'
<1>1. NoWork \in Work /\ "idle" \in Stages
  BY DEF NoWork, Work, Blank, Item, Stages
<1> QED
  BY <1>1, Local DEF Done

-----------------------------------------------------------------------------
LEMMA AskedOK ==
    ASSUME CInv, Witness, NEW r \in Req, NEW w \in Work, Asks(w),
           content' = content,
           step' = [step EXCEPT ![r] = "member"], work' = [work EXCEPT ![r] = w]
    PROVE  CInv'
<1>1. WorkOK("member", w, witnessed[r]) /\ "member" \in Stages
  BY DEF WorkOK, Stages
<1> QED
  BY <1>1, Local

LEMMA BeginsOK ==
    ASSUME CInv, Witness, NEW r \in Req, BeginPost(r) \/ BeginPatch(r) \/ BeginDelete(r)
    PROVE  CInv'
<1>0. ASSUME NEW u \in User, NEW i \in Id, NEW op \in {"post", "patch", "delete"},
             NEW sent \in SUBSET {"coll", "deleted"}, NEW row \in Item,
             i \in Coll => row.coll = Absent,
             op = "post" => sent = {"coll", "deleted"} /\ ~row.deleted,
             op = "delete" => sent = {"deleted"} /\ row.deleted,
             Ask(r, u, [NoWork EXCEPT !.op = op, !.item = i, !.sent = sent, !.row = row])
      PROVE  CInv'
  <2> DEFINE w == [[NoWork EXCEPT !.op = op, !.item = i, !.sent = sent, !.row = row]
                     EXCEPT !.actor = u]
  <2>1. /\ w \in Work /\ w.op = op /\ w.item = i /\ w.sent = sent /\ w.row = row
        /\ w.actor = u
    BY DEF NoWork, Work, Blank, Item
  <2>2. /\ content' = content
        /\ step' = [step EXCEPT ![r] = "member"] /\ work' = [work EXCEPT ![r] = w]
    BY <1>0 DEF Ask
  <2> HIDE DEF w
  <2>3. Asks(w)
    BY <1>0, <2>1 DEF Asks
  <2> QED
    BY <2>1, <2>2, <2>3, AskedOK
<1>1. \A c \in Coll \cup {Absent}, d \in BOOLEAN :
        \E row \in Item : row = [coll |-> c, deleted |-> d] /\ row.coll = c /\ row.deleted = d
  <2> TAKE c \in Coll \cup {Absent}, d \in BOOLEAN
  <2>1. [coll |-> c, deleted |-> d] \in Item
    BY DEF Item
  <2> WITNESS [coll |-> c, deleted |-> d] \in Item
  <2> QED
    OBVIOUS
<1>2. \A i \in Id : Folders(i) \subseteq Coll \cup {Absent} /\ (i \in Coll => Folders(i) = {Absent})
  BY DEF Folders
<1>3. CASE BeginPost(r)
  <2> PICK u \in User, i \in Id : \E c \in Folders(i) :
        Ask(r, u, [NoWork EXCEPT !.op = "post", !.item = i, !.sent = {"coll", "deleted"},
                                 !.row = [coll |-> c, deleted |-> FALSE]])
    BY <1>3 DEF BeginPost
  <2> PICK c \in Folders(i) :
        Ask(r, u, [NoWork EXCEPT !.op = "post", !.item = i, !.sent = {"coll", "deleted"},
                                 !.row = [coll |-> c, deleted |-> FALSE]])
    OBVIOUS
  <2> PICK row \in Item : /\ row = [coll |-> c, deleted |-> FALSE]
                          /\ row.coll = c /\ ~row.deleted
    BY <1>1, <1>2
  <2>1. Ask(r, u, [NoWork EXCEPT !.op = "post", !.item = i, !.sent = {"coll", "deleted"},
                                 !.row = row])
    OBVIOUS
  <2>2. i \in Coll => row.coll = Absent
    BY <1>2
  <2> QED
    BY <1>0, <2>1, <2>2
<1>4. CASE BeginPatch(r)
  <2> PICK u \in User, i \in Id, sent \in {{"coll"}, {"deleted"}, {"coll", "deleted"}} :
        \E c \in Folders(i), d \in BOOLEAN :
            Ask(r, u, [NoWork EXCEPT !.op = "patch", !.item = i, !.sent = sent,
                                     !.row = [coll |-> c, deleted |-> d]])
    BY <1>4 DEF BeginPatch
  <2> PICK c \in Folders(i), d \in BOOLEAN :
        Ask(r, u, [NoWork EXCEPT !.op = "patch", !.item = i, !.sent = sent,
                                 !.row = [coll |-> c, deleted |-> d]])
    OBVIOUS
  <2> PICK row \in Item : row = [coll |-> c, deleted |-> d] /\ row.coll = c
    BY <1>1, <1>2
  <2>1. Ask(r, u, [NoWork EXCEPT !.op = "patch", !.item = i, !.sent = sent, !.row = row])
    OBVIOUS
  <2>2. sent \in SUBSET {"coll", "deleted"} /\ (i \in Coll => row.coll = Absent)
    BY <1>2
  <2> QED
    BY <1>0, <2>1, <2>2
<1>5. CASE BeginDelete(r)
  <2> PICK u \in User, i \in Id :
        Ask(r, u, [NoWork EXCEPT !.op = "delete", !.item = i, !.sent = {"deleted"},
                                 !.row = [coll |-> Absent, deleted |-> TRUE]])
    BY <1>5 DEF BeginDelete
  <2> PICK row \in Item : /\ row = [coll |-> Absent, deleted |-> TRUE]
                          /\ row.coll = Absent /\ row.deleted
    BY <1>1
  <2>1. Ask(r, u, [NoWork EXCEPT !.op = "delete", !.item = i, !.sent = {"deleted"}, !.row = row])
    OBVIOUS
  <2> QED
    BY <1>0, <2>1
<1> QED
  BY <1>3, <1>4, <1>5

-----------------------------------------------------------------------------
(* The checks.  What holds when it is checked is among the facts of that   *)
(* moment, and so witnessed.                                               *)
LEMMA CheckMemberOK ==
    ASSUME CInv, Witness, NEW r \in Req, CheckMember(r)
    PROVE  CInv'
<1> PICK s \in {"folder", "item"} :
      /\ s = IF work[r].op = "post" /\ NamesFolder(r) THEN "folder" ELSE "item"
      /\ step' = [step EXCEPT ![r] = s]
  BY DEF CheckMember, Advance
<1>1. /\ work[r] \in Work /\ Asks(work[r]) /\ Facts(r) \subseteq witnessed[r]
      /\ s \in Stages /\ content' = content /\ work' = [work EXCEPT ![r] = work[r]]
  BY Typed DEF CheckMember, Advance, CInv, ContentTypeOK, WorkOK, Stages
<1>2. Memberships(work[r].actor) # {}
      /\ (work[r].op = "delete" /\ work[r].item \in Coll => Managers(work[r].actor) # {})
  BY DEF CheckMember, MayWrite, Managers
<1>3. "member" \in Facts(r) /\ (work[r].op = "delete" /\ work[r].item \in Coll => "manager" \in Facts(r))
  BY <1>2 DEF Facts, Fact
<1>4. WorkOK(s, work[r], witnessed[r])
  BY <1>1, <1>3 DEF WorkOK, Enters, NamesFolder
<1> QED
  BY <1>1, <1>4, Local

LEMMA CheckFolderOK ==
    ASSUME CInv, Witness, NEW r \in Req, CheckFolder(r)
    PROVE  CInv'
<1> PICK s \in {"item", "flush"} : /\ s = IF work[r].op = "post" THEN "item" ELSE "flush"
                                   /\ step' = [step EXCEPT ![r] = s]
  BY DEF CheckFolder, Advance
<1>1. /\ work[r] \in Work /\ WorkOK("folder", work[r], witnessed[r])
      /\ Facts(r) \subseteq witnessed[r]
      /\ s \in Stages /\ content' = content /\ work' = [work EXCEPT ![r] = work[r]]
  BY Typed DEF CheckFolder, Advance, CInv, ContentTypeOK, Stages
<1>2. "folder" \in Facts(r) /\ content[work[r].row.coll] # Absent
  BY <1>1 DEF CheckFolder, FolderFound, WorkOK, Enters, NamesFolder, Facts, Fact, Live
<1>3. WorkOK(s, work[r], witnessed[r])
  BY <1>1, <1>2 DEF WorkOK
<1> QED
  BY <1>1, <1>3, Local

LEMMA ReadItemOK ==
    ASSUME CInv, Witness, NEW r \in Req, ReadItem(r)
    PROVE  CInv'
<1> PICK s \in {"folder", "flush"} :
      /\ s = IF work[r].op = "patch" /\ NamesFolder(r) THEN "folder" ELSE "flush"
      /\ step' = [step EXCEPT ![r] = s]
  BY DEF ReadItem, Advance
<1> DEFINE w == [work[r] EXCEPT !.base = content[work[r].item]]
<1>1. /\ work[r] \in Work /\ WorkOK("item", work[r], witnessed[r])
      /\ Facts(r) \subseteq witnessed[r]
      /\ s \in Stages /\ content' = content /\ work' = [work EXCEPT ![r] = w]
  BY Typed DEF ReadItem, Advance, CInv, ContentTypeOK, Stages
<1>2. work[r].item \in Id /\ content[work[r].item] \in Item \cup {Absent}
  BY <1>1 DEF WorkOK, Asks, CInv, ContentTypeOK
<1>3. /\ w \in Work /\ w.base = content[work[r].item]
      /\ w.op = work[r].op /\ w.actor = work[r].actor /\ w.item = work[r].item
      /\ w.sent = work[r].sent /\ w.row = work[r].row
  BY <1>1, <1>2 DEF Work
<1> HIDE DEF w
<1>4. Loaded(w)
  BY <1>1, <1>2, <1>3 DEF ReadItem, Suits, Live, Loaded
<1>5. w.op = "post" => "free" \in Facts(r)
  BY <1>3 DEF ReadItem, Suits, Facts, Fact
<1>6. Asks(w) /\ (Enters(w) <=> NamesFolder(r))
  BY <1>1, <1>3 DEF WorkOK, Asks, Enters, NamesFolder
<1>7. WorkOK(s, w, witnessed[r])
  BY <1>1, <1>3, <1>4, <1>5, <1>6 DEF WorkOK, Enters, NamesFolder, Asks
<1> QED
  BY <1>1, <1>3, <1>7, Local

LEMMA FlushItemOK ==
    ASSUME CInv, Witness, NEW r \in Req, FlushItem(r)
    PROVE  CInv'
<1>1. /\ work[r] \in Work /\ WorkOK("flush", work[r], witnessed[r])
      /\ step' = [step EXCEPT ![r] = "commit"] /\ "commit" \in Stages
      /\ content' = content /\ work' = [work EXCEPT ![r] = work[r]]
  BY Typed DEF FlushItem, Advance, CInv, ContentTypeOK, Stages
<1>2. WorkOK("commit", work[r], witnessed[r])
  BY <1>1 DEF WorkOK, FlushItem, Taken
<1>3. \A q \in Req \ {r} : step[q] = "commit" => work[q].item # work[r].item
  BY DEF FlushItem, Held
<1> QED
  BY <1>1, <1>2, <1>3, Local

-----------------------------------------------------------------------------
(* What is written: the row keeps its place unless the body moved it to a  *)
(* collection that was checked, and is not deleted after a POST only.      *)
LEMMA WrittenOK ==
    ASSUME CInv, NEW r \in Req, step[r] = "commit"
    PROVE  LET new == Written(r)
               old == content[work[r].item]
           IN  /\ new \in Item
               /\ new.coll # Absent => \/ old # Absent /\ new.coll = old.coll
                                       \/ new.coll = work[r].row.coll /\ Enters(work[r])
               /\ ~new.deleted => old = Absent \/ ~old.deleted \/ work[r].op = "post"
<1> PICK w, old, new : w = work[r] /\ old = content[w.item] /\ new = Written(r)
  OBVIOUS
<1>1. w \in Work /\ WorkOK("commit", w, witnessed[r]) /\ Asks(w) /\ Loaded(w)
  BY Typed DEF CInv, WorkOK
<1>2. w.row \in Item /\ w.base \in Item \cup {Absent} /\ w.item \in Id
      /\ w.sent \subseteq {"coll", "deleted"} /\ old \in Item \cup {Absent}
  BY <1>1 DEF Work, Asks, CInv, ContentTypeOK
<1>3. CASE w.base = Absent
  <2>1. new = w.row /\ w.op = "post" /\ w.sent = {"coll", "deleted"}
    BY <1>1, <1>3 DEF Written, Loaded, Asks
  <2> QED
    BY <1>2, <2>1 DEF Enters
<1>4. CASE w.base # Absent
  <2>1. old \in Item /\ old # Absent
    BY <1>1, <1>2, <1>4 DEF Loaded
  <2>2. new = [coll    |-> IF Sets(r, "coll") THEN w.row.coll ELSE old.coll,
               deleted |-> IF Sets(r, "deleted") THEN w.row.deleted ELSE old.deleted]
    BY <1>4 DEF Written
  <2>3. new \in Item
    BY <1>2, <2>1, <2>2 DEF Item
  <2>4. new.coll # old.coll => new.coll = w.row.coll /\ "coll" \in w.sent
    BY <2>2 DEF Sets
  <2>5. ~new.deleted /\ old.deleted => "deleted" \in w.sent /\ ~w.row.deleted /\ w.row.deleted # w.base.deleted
    BY <1>2, <2>2 DEF Sets, Item
  <2>6. ~new.deleted /\ old.deleted => w.op = "post"
    BY <1>1, <1>2, <2>5 DEF Loaded, Item
  <2> QED
    BY <2>1, <2>3, <2>4, <2>6 DEF Enters
<1> QED
  BY <1>3, <1>4

LEMMA CommitItemOK ==
    ASSUME CInv, Witness, NEW r \in Req, CommitItem(r)
    PROVE  CInv'
<1> PICK it, new : it = work[r].item /\ new = Written(r)
  OBVIOUS
<1>1. /\ work[r] \in Work /\ WorkOK("commit", work[r], witnessed[r]) /\ Asks(work[r])
      /\ step[r] = "commit" /\ Done(r)
  BY Typed DEF CommitItem, CInv, WorkOK
<1>2. /\ new \in Item /\ new # Absent
      /\ new.coll # Absent => \/ content[it] # Absent /\ new.coll = content[it].coll
                              \/ new.coll = work[r].row.coll /\ Enters(work[r])
  BY <1>1, WrittenOK, ContentIsApart
<1>3. it \in Id /\ content \in [Id -> Item \cup {Absent}]
  BY <1>1 DEF Asks, CInv, ContentTypeOK
<1>4. /\ \A i \in Id : content'[i] = IF i = it THEN new ELSE content[i]
      /\ content' \in [Id -> Item \cup {Absent}]
  BY <1>2, <1>3 DEF CommitItem
<1>5. \A q \in Req : /\ step'[q] = IF q = r THEN "idle" ELSE step[q]
                     /\ work'[q] = IF q = r THEN NoWork ELSE work[q]
  BY <1>1 DEF Done, CInv, ContentTypeOK
<1>6. new.coll # Absent => it \in Entry /\ content[new.coll] # Absent /\ new.coll \in Id
  <2>1. content[it] # Absent /\ content[it].coll # Absent
           => it \in Entry /\ content[content[it].coll] # Absent /\ content[it].coll \in Id
    BY <1>3 DEF CInv, ContentTypeOK, Item, Id
  <2>2. Enters(work[r]) => /\ it \in Entry /\ content[work[r].row.coll] # Absent
                           /\ work[r].row.coll \in Id
    BY <1>1, <1>3 DEF WorkOK, Asks, Enters, Work, Item, Id
  <2> QED
    BY <1>2, <2>1, <2>2
<1>7. ContentTypeOK'
  <2>1. \A i \in Id : content'[i] # Absent /\ content'[i].coll # Absent
                        => i \in Entry /\ content'[content'[i].coll] # Absent
    <3> TAKE i \in Id
    <3>1. CASE i = it
      BY <1>2, <1>4, <1>6, <3>1
    <3>2. CASE i # it
      <4> HAVE content'[i] # Absent /\ content'[i].coll # Absent
      <4>1. content'[i] = content[i] /\ content[i].coll \in Id
        BY <1>3, <1>4, <3>2 DEF Item, Id
      <4>2. i \in Entry /\ content[content[i].coll] # Absent
        BY <4>1 DEF CInv, ContentTypeOK
      <4> QED
        BY <1>2, <1>4, <4>1, <4>2
    <3> QED
      BY <3>1, <3>2
  <2>2. step' \in [Req -> Stages] /\ work' \in [Req -> Work]
    BY <1>1 DEF Done, CInv, ContentTypeOK, Stages, NoWork, Work, Blank, Item
  <2> QED
    BY <1>4, <2>1, <2>2, Witnesses DEF ContentTypeOK, Stages
<1>8. ASSUME NEW q \in Req, step'[q] # "idle"
      PROVE  WorkOK(step[q], work[q], witnessed[q])'
  <2> PICK s2, w2, f2 : s2 = step'[q] /\ w2 = work'[q] /\ f2 = witnessed'[q]
    OBVIOUS
  <2>1. q # r /\ s2 = step[q] /\ w2 = work[q] /\ w2 \in Work
    BY <1>5, <1>8, Typed
  <2>2. WorkOK(s2, w2, witnessed[q]) /\ witnessed[q] \subseteq f2
    BY <1>8, <2>1, Witnesses DEF CInv
  <2>3. WorkOK(s2, w2, f2)
    BY <2>2, MoreWitnesses
  <2>4. s2 = "commit" => w2.item # it
    BY <1>1, <2>1 DEF CInv
  <2>5. \A i \in Id : content[i] # Absent => content'[i] # Absent
    BY <1>2, <1>4
  <2>6. w2.item \in Id /\ (Enters(w2) => w2.row.coll \in Id)
    BY <2>1, <2>3 DEF WorkOK, Asks, Enters, Work, Item, Id
  <2>7. WorkOK(s2, w2, f2)'
    BY <1>4, <2>3, <2>4, <2>5, <2>6 DEF WorkOK, Asks, Enters, Loaded
  <2> QED
    BY <2>7 DEF WorkOK, Asks, Enters, Loaded
<1> QED
  BY <1>5, <1>7, <1>8, Witnesses DEF CInv

-----------------------------------------------------------------------------
LEMMA InitOK == ContentInit => CInv
<1> SUFFICES ASSUME ContentInit PROVE CInv
  OBVIOUS
<1>1. NoWork \in Work
  BY DEF NoWork, Work, Blank, Item
<1>2. ContentTypeOK
  BY <1>1, ContentIsApart DEF ContentInit, ContentTypeOK
<1> QED
  BY <1>2 DEF ContentInit, CInv

(* The memberships change, the content does not.                           *)
LEMMA MembersOK ==
    ASSUME CInv, Witness, UNCHANGED <<content, step, work>>
    PROVE  CInv'
<1>1. ContentTypeOK'
  BY Witnesses DEF CInv, ContentTypeOK
<1>2. ASSUME NEW q \in Req, step'[q] # "idle"
      PROVE  WorkOK(step[q], work[q], witnessed[q])'
  <2> PICK s2, w2, f2 : s2 = step'[q] /\ w2 = work'[q] /\ f2 = witnessed'[q]
    OBVIOUS
  <2>1. WorkOK(s2, w2, witnessed[q]) /\ witnessed[q] \subseteq f2
    BY <1>2, Witnesses DEF CInv
  <2>2. WorkOK(s2, w2, f2)
    BY <2>1, MoreWitnesses
  <2>3. WorkOK(s2, w2, f2)'
    BY <2>2 DEF WorkOK, Asks, Enters, Loaded
  <2> QED
    BY <2>3 DEF WorkOK, Asks, Enters, Loaded
<1> QED
  BY <1>1, <1>2, Witnesses DEF CInv

LEMMA StillOK ==
    ASSUME CInv, UNCHANGED allVars
    PROVE  CInv'
<1>1. UNCHANGED <<members, content, step, work, witnessed>>
  BY DEF allVars, vars, contentVars
<1>2. ContentTypeOK'
  BY <1>1 DEF CInv, ContentTypeOK
<1>3. \A r \in Req : Facts(r)' = Facts(r)
  BY <1>1 DEF Facts, Memberships, Managers, Stored, NamesFolder, Live
<1>4. \A r \in Req : step[r] # "idle" => WorkOK(step[r], work[r], witnessed[r])'
  BY <1>1 DEF CInv, WorkOK, Asks, Enters, Loaded
<1> QED
  BY <1>1, <1>2, <1>3, <1>4 DEF CInv

LEMMA StepOK == CInv /\ [ContentNext]_allVars => CInv'
<1> SUFFICES ASSUME CInv, [ContentNext]_allVars PROVE CInv'
  OBVIOUS
<1>1. CASE UNCHANGED allVars
  BY <1>1, StillOK
<1>2. CASE MemberStep /\ Witness
  BY <1>2, MembersOK DEF MemberStep
<1>3. ASSUME NEW r \in Req, Witness, BeginPost(r) \/ BeginPatch(r) \/ BeginDelete(r)
      PROVE  CInv'
  BY <1>3, BeginsOK
<1>4. ASSUME NEW r \in Req, Witness, CheckMember(r) \/ CheckFolder(r) \/ ReadItem(r)
      PROVE  CInv'
  BY <1>4, CheckMemberOK, CheckFolderOK, ReadItemOK
<1>5. ASSUME NEW r \in Req, Witness, TurnAway(r) \/ FlushFails(r) \/ Drop(r) PROVE CInv'
  BY <1>5, DoneOK DEF TurnAway, FlushFails, Drop
<1>6. ASSUME NEW r \in Req, Witness, FlushItem(r) \/ CommitItem(r) PROVE CInv'
  BY <1>6, FlushItemOK, CommitItemOK
<1> QED
  BY <1>1, <1>2, <1>3, <1>4, <1>5, <1>6 DEF ContentNext, ContentStep

LEMMA Invariance == ContentSpec => []CInv
<1> QED
  BY InitOK, StepOK, PTL DEF ContentSpec

(* Content changes only at the commit of a request, and only its row.      *)
LEMMA OnlyCommitsWrite ==
    ASSUME CInv, [ContentNext]_allVars
    PROVE  \/ content' = content
           \/ \E r \in Req : /\ CommitItem(r) /\ step[r] = "commit"
                             /\ WorkOK("commit", work[r], witnessed[r])
                             /\ content' = [content EXCEPT ![work[r].item] = Written(r)]
<1>1. ASSUME NEW r \in Req, NEW u, NEW asked, Ask(r, u, asked) PROVE content' = content
  BY <1>1 DEF Ask
<1>2. ASSUME NEW r \in Req, BeginPost(r) \/ BeginPatch(r) \/ BeginDelete(r)
      PROVE  content' = content
  BY <1>1, <1>2, Zenon DEF BeginPost, BeginPatch, BeginDelete
<1>3. ASSUME NEW r \in Req, \/ CheckMember(r) \/ CheckFolder(r) \/ ReadItem(r)
                            \/ TurnAway(r) \/ FlushItem(r) \/ FlushFails(r) \/ Drop(r)
      PROVE  content' = content
  BY <1>3 DEF CheckMember, CheckFolder, ReadItem, TurnAway, FlushItem, FlushFails, Drop, Advance
<1>4. ASSUME NEW r \in Req, CommitItem(r)
      PROVE  /\ step[r] = "commit" /\ WorkOK("commit", work[r], witnessed[r])
             /\ content' = [content EXCEPT ![work[r].item] = Written(r)]
  BY <1>4 DEF CommitItem, CInv
<1>5. CASE MemberStep \/ UNCHANGED allVars
  BY <1>5 DEF MemberStep, allVars, contentVars
<1>6. CASE ContentStep
  BY <1>2, <1>3, <1>4, <1>6 DEF ContentStep
<1> QED
  BY <1>5, <1>6 DEF ContentNext

-----------------------------------------------------------------------------
(* Type correctness: an entry is in no collection that never was.          *)
THEOREM TypeCorrect == ContentSpec => []ContentTypeOK
<1>1. CInv => ContentTypeOK
  BY DEF CInv
<1> QED
  BY <1>1, Invariance, PTL

(* Nobody changes content who was not an active member at some moment of   *)
(* the request, nor DELETEs a collection who did not manage the            *)
(* organisation at some moment of it.                                      *)
THEOREM MembersAloneWrite == ContentSpec => OnlyMembersWrite
<1> DEFINE Right == \A i \in Id : content'[i] # content[i] =>
                      \E r \in Req : /\ Writes(r, i)
                                     /\ "member" \in witnessed[r]
                                     /\ work[r].op = "delete" /\ i \in Coll
                                          => "manager" \in witnessed[r]
<1>1. ASSUME CInv, [ContentNext]_allVars PROVE Right
  <2> SUFFICES ASSUME NEW i \in Id, content'[i] # content[i]
               PROVE  \E r \in Req : /\ Writes(r, i)
                                     /\ "member" \in witnessed[r]
                                     /\ work[r].op = "delete" /\ i \in Coll
                                          => "manager" \in witnessed[r]
    OBVIOUS
  <2> PICK r \in Req : /\ CommitItem(r)
                       /\ WorkOK("commit", work[r], witnessed[r])
                       /\ content' = [content EXCEPT ![work[r].item] = Written(r)]
    BY <1>1, OnlyCommitsWrite
  <2>1. work[r].item = i
    BY <1>1 DEF CInv, ContentTypeOK
  <2> QED
    BY <2>1 DEF Writes, WorkOK
<1>2. ASSUME CInv, [ContentNext]_allVars PROVE [Right]_allVars
  BY <1>1, <1>2
<1> QED
  BY <1>2, Invariance, PTL DEF ContentSpec, OnlyMembersWrite

(* An entry enters only a collection that was live at some moment of the   *)
(* request.                                                                *)
THEOREM EntriesEnterLiveFolders == ContentSpec => EnteredFolderWasLive
<1> DEFINE Right == \A e \in Entry :
                      /\ content'[e] # content[e]
                      /\ content'[e].coll # Absent
                      /\ content[e] = Absent \/ content[e].coll # content'[e].coll
                      => \E r \in Req : Writes(r, e) /\ "folder" \in witnessed[r]
<1>1. ASSUME CInv, [ContentNext]_allVars PROVE Right
  <2> SUFFICES ASSUME NEW e \in Entry, content'[e] # content[e], content'[e].coll # Absent,
                      content[e] = Absent \/ content[e].coll # content'[e].coll
               PROVE  \E r \in Req : Writes(r, e) /\ "folder" \in witnessed[r]
    OBVIOUS
  <2> PICK r \in Req : /\ CommitItem(r) /\ step[r] = "commit"
                       /\ WorkOK("commit", work[r], witnessed[r])
                       /\ content' = [content EXCEPT ![work[r].item] = Written(r)]
    BY <1>1, OnlyCommitsWrite
  <2>1. work[r].item = e /\ content'[e] = Written(r)
    BY <1>1 DEF CInv, ContentTypeOK, Id
  <2>2. Enters(work[r])
    BY <1>1, <2>1, WrittenOK
  <2> QED
    BY <2>1, <2>2 DEF Writes, WorkOK
<1>2. ASSUME CInv, [ContentNext]_allVars PROVE [Right]_allVars
  BY <1>1, <1>2
<1> QED
  BY <1>2, Invariance, PTL DEF ContentSpec, EnteredFolderWasLive

(* PATCH and DELETE never bring a deleted row back, and a POST found its   *)
(* id free at some moment of the request.                                  *)
THEOREM DeletionsStand == ContentSpec => OnlyPostRevives
<1> DEFINE Right ==
      /\ \A i \in Id \ Live : i \in Live' => \E r \in Req : Writes(r, i) /\ work[r].op = "post"
      /\ \A r \in Req : CommitItem(r) /\ work[r].op = "post" => "free" \in witnessed[r]
<1>1. ASSUME CInv, [ContentNext]_allVars PROVE Right
  <2>1. ASSUME NEW r \in Req, CommitItem(r), work[r].op = "post"
        PROVE  "free" \in witnessed[r]
    BY <1>1, <2>1 DEF CommitItem, CInv, WorkOK
  <2>2. ASSUME NEW i \in Id \ Live, i \in Live'
        PROVE  \E r \in Req : Writes(r, i) /\ work[r].op = "post"
    <3>1. content'[i] # content[i]
      BY <2>2 DEF Live
    <3> PICK r \in Req : /\ CommitItem(r) /\ step[r] = "commit"
                         /\ WorkOK("commit", work[r], witnessed[r])
                         /\ content' = [content EXCEPT ![work[r].item] = Written(r)]
      BY <1>1, <3>1, OnlyCommitsWrite
    <3>2. work[r].item = i /\ content'[i] = Written(r)
      BY <1>1, <3>1 DEF CInv, ContentTypeOK
    <3>3. ~Written(r).deleted
      BY <2>2, <3>2 DEF Live
    <3>4. content[i] = Absent \/ content[i].deleted
      BY <2>2 DEF Live
    <3>5. content[i] = Absent => work[r].base = Absent
      BY <3>2 DEF WorkOK, Loaded
    <3>6. content[i] = Absent => work[r].op = "post"
      BY <3>5 DEF WorkOK, Loaded
    <3>7. content[i] # Absent => work[r].op = "post"
      BY <1>1, <3>2, <3>3, <3>4, WrittenOK
    <3> QED
      BY <3>2, <3>6, <3>7 DEF Writes
  <2> QED
    BY <2>1, <2>2
<1>2. ASSUME CInv, [ContentNext]_allVars PROVE [Right]_allVars
  BY <1>1, <1>2
<1> QED
  BY <1>2, Invariance, PTL DEF ContentSpec, OnlyPostRevives
=============================================================================

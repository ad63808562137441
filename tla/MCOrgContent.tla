---------------------------- MODULE MCOrgContent ----------------------------
(* An organisation of two people with shared content, for TLC.             *)
EXTENDS OrgContent, TLC

CONSTANTS r1, r2, u1, u2, s1, s2, c1, e1

Names == Permutations(Req) \cup Permutations(User) \cup Permutations(Slot)

(* Two requests about members at once are the subject of MCOrgMembership;  *)
(* two about content are of two people.  What overlaps content ends or     *)
(* changes a membership: an invitation, its withdrawal, its acceptance and *)
(* a new organisation take no right away.  A PATCH that moves an entry and *)
(* says it is not deleted does what one that only moves it does.           *)
TwoOfInterest ==
    \A q, r \in Req : q # r =>
        /\ pc[q] = "idle" \/ pc[r] = "idle"
        /\ step[q] = "idle" \/ work[q].actor # work[r].actor
        /\ job[q].op \in {"create", "invite", "accept", "revoke"} => step[r] = "idle"
        /\ work[r].op = "patch" /\ work[r].sent = {"coll", "deleted"} => work[r].row.deleted
=============================================================================

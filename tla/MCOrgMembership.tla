--------------------------- MODULE MCOrgMembership ---------------------------
(* Small organisations for TLC.                                            *)
EXTENDS OrgMembership, FiniteSets, TLC

CONSTANTS r1, r2, u1, u2, u3, s1, s2, s3

Names == Permutations(Req) \cup Permutations(User) \cup Permutations(Slot)

(* In an organisation of two people two requests overlap; with a third one *)
(* requests follow one another.                                            *)
People == registered \cup {members[s].email : s \in Stored}
            \cup ({job[r].email : r \in Req} \ {Absent})

Alone == \A q, r \in Req : pc[q] # "idle" /\ pc[r] # "idle" => q = r

OverlapsOfTwo == Alone \/ Cardinality(People) < 3
=============================================================================

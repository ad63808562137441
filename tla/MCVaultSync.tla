----------------------------- MODULE MCVaultSync -----------------------------
(* Small accounts for TLC: a collection c and an entry e.                  *)
EXTENDS VaultSync, TLC

CONSTANTS c, e, v1, v2, r1, r2

V(rev, val, del) == [rev |-> rev, val |-> val, del |-> del]
None == [i \in Item |-> Absent]

TablesOfTwo == (c :> 1) @@ (e :> 2)

(* A pull, a first version of both rows, an edit of both with the newer    *)
(* and the older revision swapped, a tombstone, and a revision too large.  *)
BatchesOfTwo == {
    None,
    (c :> V(1, v1, FALSE)) @@ (e :> V(2, v1, FALSE)),
    (c :> V(2, v2, FALSE)) @@ (e :> V(1, v2, FALSE)),
    (c :> Absent) @@ (e :> V(2, v2, TRUE)),
    (c :> V(1, v2, FALSE)) @@ (e :> V(4, v1, FALSE)) }

Bodies == { V(1, v2, FALSE) }

Edits == { [rev |-> 2, val |-> v2, del |-> Absent],
           [rev |-> Absent, val |-> Absent, del |-> TRUE] }

TwoRequests == Permutations({r1, r2})
=============================================================================

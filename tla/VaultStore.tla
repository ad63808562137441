----------------------------- MODULE VaultStore -----------------------------
(***************************************************************************)
(* What the personal vault of one account promises, were every request of  *)
(* the API carried out in one step: a map from uuids to versions, where a  *)
(* sync applies last-write-wins by the revision of each item, and the REST *)
(* routes create, edit and soft-delete one row.  Nothing here knows about  *)
(* transactions, sessions or clocks: VaultSync does, and is compared with  *)
(* this module.                                                            *)
(***************************************************************************)
EXTENDS VaultData

VARIABLE store

(* A pushed version wins against the stored one unless its revision is     *)
(* lower.                                                                  *)
Winner(cur, v) == IF cur = Absent \/ v.rev >= cur.rev THEN v ELSE cur

Init == store = [i \in Item |-> Absent]

(* A sync takes effect as a whole or not at all.                           *)
Push(batch) ==
    /\ store' = [i \in Item |-> IF batch[i] = Absent
                                THEN store[i]
                                ELSE Winner(store[i], batch[i])]
    /\ \A i \in Item : Fits(store'[i])

Put(i, v) == Fits(v) /\ store' = [store EXCEPT ![i] = v]

Create(i, v)   == store[i] = Absent /\ Put(i, v)
Patch(i, body) == Live(store[i]) /\ Put(i, Overlay(store[i], body))
Delete(i)      == Live(store[i]) /\ Put(i, Tombstone(store[i]))

Next == \/ \E batch \in Batches : Push(batch)
        \/ \E i \in Item, v \in Creates : Create(i, v)
        \/ \E i \in Editable, body \in Patches : Patch(i, body)
        \/ \E i \in Item : Delete(i)

Spec == Init /\ [][Next]_store
=============================================================================

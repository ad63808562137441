------------------------------ MODULE VaultData ------------------------------
(***************************************************************************)
(* The values of the personal vault: versions of a row, the bodies of the  *)
(* requests that write them, and how a body changes a version.  A row is   *)
(* named by its table and uuid together; its ciphertext and references to  *)
(* other rows are one opaque content, "val".  All of it belongs to one     *)
(* account: every query of the API filters by user_id.                     *)
(***************************************************************************)
EXTENDS Naturals

CONSTANTS Item,     \* rows of one account, named by (table, uuid)
          Editable, \* the rows that have a PATCH route (not attachments)
          Val,      \* contents: every column but revision and is_deleted
          MaxRev,   \* largest value of the INTEGER column "revision"
          Absent,   \* no row; a field the client did not send
          Batches,  \* the pushes a POST /sync may carry
          Creates,  \* the bodies a POST of one row may carry
          Patches   \* the bodies a PATCH of one row may carry

Version == [rev : Nat \ {0}, val : Val, del : BOOLEAN]

Body == [rev : (Nat \ {0}) \cup {Absent},
         val : Val \cup {Absent},
         del : BOOLEAN \cup {Absent}]

ASSUME AbsentIsNoValue == /\ Absent \notin Nat
                          /\ Absent \notin Val
                          /\ Absent \notin BOOLEAN
                          /\ Absent \notin Body
ASSUME BodiesAreTyped ==
    /\ MaxRev \in Nat \ {0}
    /\ Editable \subseteq Item
    /\ Batches \subseteq [Item -> Version \cup {Absent}]
    /\ Creates \subseteq {v \in Version : ~v.del}
    /\ Patches \subseteq Body

-----------------------------------------------------------------------------

Live(cur) == cur # Absent /\ ~cur.del

(* The column "revision" can hold the version's revision.                  *)
Fits(v) == v = Absent \/ v.rev <= MaxRev

(* The fields the client sent replace those of the row.                    *)
Sent(field, cur) == IF field = Absent THEN cur ELSE field

Overlay(cur, body) == [rev |-> Sent(body.rev, cur.rev),
                       val |-> Sent(body.val, cur.val),
                       del |-> Sent(body.del, cur.del)]

Tombstone(cur) == [rev |-> cur.rev + 1, val |-> cur.val, del |-> TRUE]

=============================================================================

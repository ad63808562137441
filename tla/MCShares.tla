------------------------------ MODULE MCShares ------------------------------
(* People who share with each other, and register again, for TLC.          *)
EXTENDS Shares, TLC

CONSTANTS r1, r2, p1, p2, p3, a1, a2, a3, h1

Names == Permutations(Req) \cup Permutations(Person) \cup Permutations(Account)
           \cup Permutations(Uuid)
=============================================================================

--------------------------- MODULE MCAuthSessions ---------------------------
(* Small instances of AuthSessions for TLC.                                *)
EXTENDS AuthSessions, TLC

CONSTANTS r1, r2, r3, t1, t2, t3

TokenNames == Permutations(Token)
Names      == Permutations(Token) \cup Permutations(Req)

(* Up to three requests of the kinds that hold locks while they wait for   *)
(* others, over the token of an account and its successor.  Register,      *)
(* login and logout take all their locks in one statement, so that no      *)
(* circle has one of them; the account is registered before.               *)
MayCircle ==
    /\ \A r \in UnderWay : job[r].op \in {"register", "refresh", "rekey", "delete"}
    /\ \A q, r \in UnderWay : job[q].op = "register" => q = r
    /\ Cardinality(issued) < 3 /\ expired = {}
=============================================================================

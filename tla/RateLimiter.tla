----------------------------- MODULE RateLimiter -----------------------------
(***************************************************************************)
(* The sliding-window limiter in front of four /auth routes, in one server *)
(* process: per key (client address and path) a deque of the times of the  *)
(* requests let through.  check() runs under a lock, without an await, so  *)
(* it is one step; it drops old hits of its own key only.                  *)
(***************************************************************************)
EXTENDS Integers, Sequences, FiniteSets

CONSTANTS Key,
          Limit,    \* auth_rate_limit_requests
          Window,   \* auth_rate_limit_window_seconds
          MaxKeys,  \* _MAX_KEYS
          MaxClock  \* time stops at this bound

ASSUME SettingsAreTyped == /\ Limit \in Nat /\ Window \in Nat
                           /\ MaxKeys \in Nat /\ MaxClock \in Nat

VARIABLES
  clock,  \* time.monotonic()
  known,  \* the keys of _hits
  hits,   \* their deques
  log     \* every time a request of the key was let through (not in the code)

vars == <<clock, known, hits, log>>

Init ==
    /\ clock = 0
    /\ known = {}
    /\ hits = [k \in Key |-> <<>>]
    /\ log = [k \in Key |-> <<>>]

Tick ==
    /\ clock < MaxClock
    /\ clock' = clock + 1
    /\ UNCHANGED <<known, hits, log>>

(* A mutant: a hit is too old already at the edge of the window.           *)
StaleAtTheEdge(h) == h <= clock - Window

Stale(h) == h < clock - Window

(* A mutant: a refused request leaves the hits as they are.                *)
NothingToDrop(bucket) == {0}

(* How many hits popleft takes: up to the first that is not too old.       *)
Dropped(bucket) ==
    {n \in 0..Len(bucket) : /\ \A i \in 1..n : Stale(bucket[i])
                            /\ n < Len(bucket) => ~Stale(bucket[n + 1])}

Rest(bucket, n) == SubSeq(bucket, n + 1, Len(bucket))

(* A mutant: one request too many.                                         *)
FullAbove(bucket) == Len(bucket) > Limit

Full(bucket) == Len(bucket) >= Limit

(* 429: the key stays in the map, the cleanup is not reached.              *)
Refuse(k) ==
    /\ \E n \in Dropped(hits[k]) :
         /\ Full(Rest(hits[k], n))
         /\ hits' = [hits EXCEPT ![k] = Rest(hits[k], n)]
    /\ known' = known \cup {k}
    /\ UNCHANGED <<clock, log>>

(* Past the bound, the keys with an empty deque are dropped.               *)
Kept(keys) == IF Cardinality(keys) > MaxKeys
              THEN {k \in keys : hits'[k] # <<>>}
              ELSE keys

Admit(k) ==
    /\ \E n \in Dropped(hits[k]) :
         /\ ~Full(Rest(hits[k], n))
         /\ hits' = [hits EXCEPT ![k] = Append(Rest(hits[k], n), clock)]
    /\ log' = [log EXCEPT ![k] = Append(@, clock)]
    /\ known' = Kept(known \cup {k})
    /\ UNCHANGED clock

Next == Tick \/ \E k \in Key : Admit(k) \/ Refuse(k)

Spec == Init /\ [][Next]_vars

-----------------------------------------------------------------------------
(* PROPERTIES *)

(* Every variable has its type; no deque outgrows the limit.               *)
TypeOK ==
    /\ clock \in Nat
    /\ known \subseteq Key
    /\ hits \in [Key -> Seq(Nat)]
    /\ log \in [Key -> Seq(Nat)]
    /\ \A k \in Key : Len(hits[k]) <= Limit

(* In any window, wherever it starts, no more than Limit requests of a key *)
(* are let through: a request comes more than Window after the one Limit   *)
(* places before it, also after hits were dropped from its deque.          *)
NeverMoreThanLimit ==
    \A k \in Key : \A i \in 1..(Len(log[k]) - Limit) :
        log[k][i + Limit] > log[k][i] + Window

(* A request is refused only when Limit requests of its key were let       *)
(* through within the window: the refused ones do not count, nor others'.  *)
RefusedOnlyWhenFull ==
    \A k \in Key : \A n \in Dropped(hits[k]) : Full(Rest(hits[k], n)) =>
        LET last == Len(log[k])
        IN  /\ last >= Limit
            /\ Limit > 0 => log[k][last - Limit + 1] >= clock - Window
=============================================================================

-------------------------- MODULE RateLimiterProofs --------------------------
(***************************************************************************)
(* Theorems about RateLimiter, for every set of keys and all settings.     *)
(*                                                                         *)
(* The code keeps a deque, the properties speak of the whole history: the  *)
(* inductive invariant says that the deque is the end of the history, and  *)
(* that all before it is older than the window.                            *)
(***************************************************************************)
EXTENDS RateLimiter, TLAPS

(* The deque of a key is the end of its history, and what it lacks has     *)
(* left the window for good.                                               *)
EndOf(h, g) == /\ Len(h) <= Len(g)
              /\ \A j \in 1..Len(h) : h[j] = g[Len(g) - Len(h) + j]

Gone(h, g) == \A i \in 1..(Len(g) - Len(h)) : g[i] + Window < clock

Spaced(g) == \A i \in 1..(Len(g) - Limit) : g[i + Limit] > g[i] + Window

KeyOK(k) == EndOf(hits[k], log[k]) /\ Gone(hits[k], log[k]) /\ Spaced(log[k])

Inv == TypeOK /\ \A k \in Key : KeyOK(k)

-----------------------------------------------------------------------------
(* What popleft leaves of a deque is its end; what it takes is too old.    *)
LEMMA Pruned ==
    ASSUME clock \in Nat, NEW h \in Seq(Nat), NEW n \in Dropped(h)
    PROVE  /\ n \in 0..Len(h)
           /\ Rest(h, n) \in Seq(Nat)
           /\ Len(Rest(h, n)) = Len(h) - n
           /\ \A j \in 1..(Len(h) - n) : Rest(h, n)[j] = h[j + n]
           /\ \A i \in 1..n : h[i] + Window < clock
           /\ n < Len(h) => h[n + 1] + Window >= clock
<1>1. n \in 0..Len(h) /\ Len(h) \in Nat
  BY DEF Dropped
<1>2. \A i \in 1..n : h[i] \in Nat /\ Stale(h[i])
  BY <1>1 DEF Dropped
<1>3. \A i \in 1..n : h[i] + Window < clock
  BY <1>2, SettingsAreTyped DEF Stale
<1>4. n < Len(h) => h[n + 1] \in Nat /\ ~Stale(h[n + 1])
  BY <1>1 DEF Dropped
<1>5. n < Len(h) => h[n + 1] + Window >= clock
  BY <1>4, SettingsAreTyped DEF Stale
<1>6. Rest(h, n) \in Seq(Nat) /\ Len(Rest(h, n)) = Len(h) - n
  BY <1>1 DEF Rest
<1>7. \A j \in 1..(Len(h) - n) : Rest(h, n)[j] = h[j + n]
  BY <1>1 DEF Rest
<1> QED
  BY <1>1, <1>3, <1>5, <1>6, <1>7

(* Pruning keeps the deque the end of the history.                         *)
LEMMA PrunedEnd ==
    ASSUME clock \in Nat, NEW h \in Seq(Nat), NEW g \in Seq(Nat),
           EndOf(h, g), Gone(h, g), NEW n \in Dropped(h)
    PROVE  EndOf(Rest(h, n), g) /\ Gone(Rest(h, n), g)
<1> DEFINE p == Rest(h, n)
<1>1. /\ n \in 0..Len(h) /\ p \in Seq(Nat) /\ Len(p) = Len(h) - n
      /\ \A j \in 1..(Len(h) - n) : p[j] = h[j + n]
      /\ \A i \in 1..n : h[i] + Window < clock
  BY Pruned
<1>2. Len(h) \in Nat /\ Len(g) \in Nat /\ Len(h) <= Len(g)
  BY DEF EndOf
<1>3. ASSUME NEW j \in 1..Len(p) PROVE p[j] = g[Len(g) - Len(p) + j]
  <2>1. p[j] = h[j + n] /\ j + n \in 1..Len(h)
    BY <1>1, <1>2
  <2>2. h[j + n] = g[Len(g) - Len(h) + (j + n)]
    BY <2>1 DEF EndOf
  <2>3. Len(g) - Len(h) + (j + n) = Len(g) - Len(p) + j
    BY <1>1, <1>2
  <2> QED BY <2>1, <2>2, <2>3
<1>4. ASSUME NEW i \in 1..(Len(g) - Len(p)) PROVE g[i] + Window < clock
  <2>1. CASE i <= Len(g) - Len(h)
    BY <2>1, <1>2 DEF Gone
  <2>2. CASE i > Len(g) - Len(h)
    <3> DEFINE m == i - (Len(g) - Len(h))
    <3>1. m \in 1..n /\ m \in 1..Len(h) /\ Len(g) - Len(h) + m = i
      BY <2>2, <1>1, <1>2
    <3>2. h[m] = g[i]
      BY <3>1 DEF EndOf
    <3> QED BY <3>1, <3>2, <1>1
  <2> QED BY <2>1, <2>2, <1>1, <1>2
<1> QED
  BY <1>1, <1>2, <1>3, <1>4 DEF EndOf, Gone

-----------------------------------------------------------------------------
LEMMA InitOK == Init => Inv
<1> SUFFICES ASSUME Init PROVE Inv
  OBVIOUS
<1>1. TypeOK
  BY SettingsAreTyped DEF Init, TypeOK
<1>2. ASSUME NEW k \in Key PROVE KeyOK(k)
  BY SettingsAreTyped DEF Init, KeyOK, EndOf, Gone, Spaced
<1> QED
  BY <1>1, <1>2 DEF Inv

LEMMA TickOK == Inv /\ Tick => Inv'
<1> SUFFICES ASSUME Inv, Tick PROVE Inv'
  OBVIOUS
<1>1. TypeOK'
  BY DEF Inv, TypeOK, Tick
<1>2. ASSUME NEW k \in Key PROVE KeyOK(k)'
  <2>1. KeyOK(k) /\ hits'[k] = hits[k] /\ log'[k] = log[k] /\ clock' = clock + 1
    BY DEF Inv, Tick
  <2>2. /\ clock \in Nat /\ hits[k] \in Seq(Nat) /\ log[k] \in Seq(Nat)
        /\ Len(hits[k]) \in Nat /\ Len(log[k]) \in Nat
    BY DEF Inv, TypeOK
  <2>3. \A i \in 1..(Len(log[k]) - Len(hits[k])) : log[k][i] \in Nat
    BY <2>2
  <2>4. Gone(hits[k], log[k])'
    BY <2>1, <2>2, <2>3, SettingsAreTyped DEF KeyOK, Gone
  <2> QED
    BY <2>1, <2>4 DEF KeyOK, EndOf, Spaced
<1> QED
  BY <1>1, <1>2 DEF Inv

LEMMA RefuseOK == ASSUME NEW r \in Key PROVE Inv /\ Refuse(r) => Inv'
<1> SUFFICES ASSUME Inv, Refuse(r) PROVE Inv'
  OBVIOUS
<1>1. PICK n \in Dropped(hits[r]) : hits' = [hits EXCEPT ![r] = Rest(hits[r], n)]
  BY DEF Refuse
<1>2. /\ clock \in Nat /\ hits \in [Key -> Seq(Nat)] /\ log \in [Key -> Seq(Nat)]
      /\ \A k \in Key : Len(hits[k]) <= Limit
      /\ clock' = clock /\ log' = log
  BY DEF Inv, TypeOK, Refuse
<1>3. /\ Rest(hits[r], n) \in Seq(Nat)
      /\ Len(Rest(hits[r], n)) = Len(hits[r]) - n /\ n \in 0..Len(hits[r])
  BY <1>2, Pruned
<1>4. Len(Rest(hits[r], n)) <= Limit
  <2>1. Len(hits[r]) \in Nat /\ Len(hits[r]) <= Limit
    BY <1>2
  <2> QED BY <2>1, <1>3, SettingsAreTyped
<1>5. TypeOK'
  <2>1. hits' \in [Key -> Seq(Nat)]
    BY <1>1, <1>2, <1>3
  <2>2. \A k \in Key : Len(hits'[k]) <= Limit
    BY <1>1, <1>2, <1>4
  <2> QED BY <2>1, <2>2, <1>2 DEF Inv, TypeOK, Refuse
<1>6. ASSUME NEW k \in Key PROVE KeyOK(k)'
  <2>1. KeyOK(k) /\ hits[k] \in Seq(Nat) /\ log[k] \in Seq(Nat)
    BY <1>2 DEF Inv
  <2>2. CASE k = r
    <3>1. hits'[k] = Rest(hits[k], n)
      BY <2>2, <1>1, <1>2
    <3>2. EndOf(Rest(hits[k], n), log[k]) /\ Gone(Rest(hits[k], n), log[k])
      BY <2>1, <2>2, <1>2, PrunedEnd DEF KeyOK
    <3> QED
      BY <3>1, <3>2, <2>1, <1>2 DEF KeyOK, EndOf, Gone, Spaced
  <2>3. CASE k # r
    <3>1. hits'[k] = hits[k]
      BY <2>3, <1>1, <1>2
    <3> QED
      BY <3>1, <2>1, <1>2 DEF KeyOK, EndOf, Gone, Spaced
  <2> QED BY <2>2, <2>3
<1> QED
  BY <1>5, <1>6 DEF Inv

(* A request that is let through: the one Limit places before it is not in *)
(* the deque any more, so it has left the window.                          *)
LEMMA Admitted ==
    ASSUME clock \in Nat, NEW p \in Seq(Nat), NEW g \in Seq(Nat),
           EndOf(p, g), Gone(p, g), Spaced(g), Len(p) < Limit
    PROVE  /\ EndOf(Append(p, clock), Append(g, clock))
           /\ Gone(Append(p, clock), Append(g, clock))
           /\ Spaced(Append(g, clock))
<1> DEFINE q == Append(p, clock)
           f == Append(g, clock)
<1>1. /\ Len(p) \in Nat /\ Len(g) \in Nat /\ Len(p) <= Len(g) /\ Limit \in Nat
      /\ Len(q) = Len(p) + 1 /\ Len(f) = Len(g) + 1
      /\ q[Len(q)] = clock /\ f[Len(f)] = clock
  BY SettingsAreTyped DEF EndOf
<1>2. (\A j \in 1..Len(p) : q[j] = p[j]) /\ (\A i \in 1..Len(g) : f[i] = g[i] /\ g[i] \in Nat)
  OBVIOUS
<1>3. ASSUME NEW j \in 1..Len(q) PROVE q[j] = f[Len(f) - Len(q) + j]
  <2>1. CASE j = Len(q)
    <3>1. Len(f) - Len(q) + j = Len(f)
      BY <2>1, <1>1
    <3> QED BY <3>1, <2>1, <1>1
  <2>2. CASE j # Len(q)
    <3>1. j \in 1..Len(p) /\ Len(g) - Len(p) + j \in 1..Len(g)
          /\ Len(f) - Len(q) + j = Len(g) - Len(p) + j
      BY <2>2, <1>1
    <3>2. p[j] = g[Len(g) - Len(p) + j]
      BY <3>1 DEF EndOf
    <3> QED BY <3>1, <3>2, <1>2
  <2> QED BY <2>1, <2>2
<1>4. ASSUME NEW i \in 1..(Len(f) - Len(q)) PROVE f[i] + Window < clock
  <2>1. i \in 1..(Len(g) - Len(p)) /\ i \in 1..Len(g)
    BY <1>1
  <2> QED BY <2>1, <1>2 DEF Gone
<1>5. ASSUME NEW i \in 1..(Len(f) - Limit) PROVE f[i + Limit] > f[i] + Window
  <2>1. CASE i + Limit = Len(f)
    <3>1. i \in 1..(Len(g) - Len(p)) /\ i \in 1..Len(g)
      BY <2>1, <1>1
    <3>2. g[i] + Window < clock
      BY <3>1 DEF Gone
    <3>3. f[i] = g[i] /\ g[i] \in Nat /\ f[i + Limit] = clock
      BY <3>1, <2>1, <1>1, <1>2
    <3> QED BY <3>2, <3>3, SettingsAreTyped
  <2>2. CASE i + Limit # Len(f)
    <3>1. i \in 1..(Len(g) - Limit) /\ i \in 1..Len(g) /\ i + Limit \in 1..Len(g)
      BY <2>2, <1>1
    <3>2. g[i + Limit] > g[i] + Window
      BY <3>1 DEF Spaced
    <3> QED BY <3>1, <3>2, <1>2
  <2> QED BY <2>1, <2>2
<1>6. Len(q) <= Len(f)
  BY <1>1
<1> HIDE DEF q, f
<1>7. EndOf(q, f) /\ Gone(q, f) /\ Spaced(f)
  BY <1>3, <1>4, <1>5, <1>6 DEF EndOf, Gone, Spaced
<1> QED
  BY <1>7 DEF q, f

LEMMA AdmitOK == ASSUME NEW r \in Key PROVE Inv /\ Admit(r) => Inv'
<1> SUFFICES ASSUME Inv, Admit(r) PROVE Inv'
  OBVIOUS
<1>1. PICK n \in Dropped(hits[r]) :
        /\ ~Full(Rest(hits[r], n))
        /\ hits' = [hits EXCEPT ![r] = Append(Rest(hits[r], n), clock)]
  BY DEF Admit
<1> DEFINE p == Rest(hits[r], n)
<1>2. /\ clock \in Nat /\ hits \in [Key -> Seq(Nat)] /\ log \in [Key -> Seq(Nat)]
      /\ \A k \in Key : Len(hits[k]) <= Limit
      /\ clock' = clock /\ log' = [log EXCEPT ![r] = Append(log[r], clock)]
      /\ known \subseteq Key /\ known' = Kept(known \cup {r})
  BY DEF Inv, TypeOK, Admit
<1>3. p \in Seq(Nat) /\ Len(p) \in Nat
  BY <1>2, Pruned
<1>4. Len(p) < Limit
  BY <1>1, <1>3, SettingsAreTyped DEF Full
<1>5. Append(p, clock) \in Seq(Nat) /\ Len(Append(p, clock)) <= Limit
  BY <1>2, <1>3, <1>4, SettingsAreTyped
<1>6. /\ hits'[r] = Append(p, clock) /\ log'[r] = Append(log[r], clock)
      /\ \A k \in Key \ {r} : hits'[k] = hits[k] /\ log'[k] = log[k]
  BY <1>1, <1>2
<1>7. TypeOK'
  <2>1. hits' \in [Key -> Seq(Nat)]
    BY <1>1, <1>2, <1>5
  <2>2. log' \in [Key -> Seq(Nat)]
    BY <1>2
  <2>3. \A k \in Key : Len(hits'[k]) <= Limit
    BY <1>2, <1>5, <1>6
  <2>4. known' \subseteq Key
    BY <1>2 DEF Kept
  <2> QED BY <2>1, <2>2, <2>3, <2>4, <1>2 DEF TypeOK
<1>8. ASSUME NEW k \in Key PROVE KeyOK(k)'
  <2>1. KeyOK(k) /\ hits[k] \in Seq(Nat) /\ log[k] \in Seq(Nat)
    BY <1>2 DEF Inv
  <2>2. CASE k = r
    <3>1. EndOf(p, log[r]) /\ Gone(p, log[r]) /\ Spaced(log[r])
      BY <2>1, <2>2, <1>2, PrunedEnd DEF KeyOK
    <3> HIDE DEF p
    <3>2. /\ EndOf(Append(p, clock), Append(log[r], clock))
          /\ Gone(Append(p, clock), Append(log[r], clock))
          /\ Spaced(Append(log[r], clock))
      BY <3>1, <2>1, <2>2, <1>2, <1>3, <1>4, Admitted
    <3> QED
      BY <3>2, <2>2, <1>2, <1>6 DEF KeyOK, EndOf, Gone, Spaced
  <2>3. CASE k # r
    BY <2>3, <2>1, <1>2, <1>6 DEF KeyOK, EndOf, Gone, Spaced
  <2> QED BY <2>2, <2>3
<1> QED
  BY <1>7, <1>8 DEF Inv

LEMMA StepOK == Inv /\ [Next]_vars => Inv'
<1> SUFFICES ASSUME Inv, [Next]_vars PROVE Inv'
  OBVIOUS
<1>1. CASE Tick
  BY <1>1, TickOK
<1>2. ASSUME NEW k \in Key, Admit(k) PROVE Inv'
  BY <1>2, AdmitOK
<1>3. ASSUME NEW k \in Key, Refuse(k) PROVE Inv'
  BY <1>3, RefuseOK
<1>4. CASE UNCHANGED vars
  BY <1>4 DEF vars, Inv, TypeOK, KeyOK, EndOf, Gone, Spaced
<1> QED
  BY <1>1, <1>2, <1>3, <1>4 DEF Next

LEMMA Invariance == Spec => []Inv
  BY InitOK, StepOK, PTL DEF Spec

-----------------------------------------------------------------------------
(* Every variable keeps its type, and no deque outgrows the limit.         *)
THEOREM TypeCorrect == Spec => []TypeOK
<1>1. Inv => TypeOK
  BY DEF Inv
<1> QED
  BY <1>1, Invariance, PTL

(* SlidingWindowRateLimiter.check lets no more than Limit requests of a    *)
(* key through in any window, although it forgets the old ones.            *)
THEOREM WindowsHold == Spec => []NeverMoreThanLimit
<1>1. Inv => NeverMoreThanLimit
  BY DEF Inv, KeyOK, Spaced, NeverMoreThanLimit
<1> QED
  BY <1>1, Invariance, PTL

(* It refuses a request only when Limit requests of the key were let       *)
(* through within the window.                                              *)
THEOREM RefusalsAreJustified == Spec => []RefusedOnlyWhenFull
<1>1. Inv => RefusedOnlyWhenFull
  <2> SUFFICES ASSUME Inv, NEW k \in Key, NEW n \in Dropped(hits[k]),
                      Full(Rest(hits[k], n))
               PROVE  /\ Len(log[k]) >= Limit
                      /\ Limit > 0 => log[k][Len(log[k]) - Limit + 1] >= clock - Window
    BY DEF RefusedOnlyWhenFull
  <2>1. /\ clock \in Nat /\ hits[k] \in Seq(Nat) /\ log[k] \in Seq(Nat)
        /\ Len(hits[k]) \in Nat /\ Len(log[k]) \in Nat /\ Len(hits[k]) <= Limit
        /\ Limit \in Nat /\ Window \in Nat /\ EndOf(hits[k], log[k])
    BY SettingsAreTyped DEF Inv, TypeOK, KeyOK
  <2>2. /\ n \in 0..Len(hits[k]) /\ Len(hits[k]) - n >= Limit
        /\ n < Len(hits[k]) => hits[k][n + 1] + Window >= clock
    BY <2>1, Pruned DEF Full
  <2>3. n = 0 /\ Len(hits[k]) = Limit /\ Len(log[k]) >= Limit
    BY <2>1, <2>2 DEF EndOf
  <2>4. ASSUME Limit > 0 PROVE log[k][Len(log[k]) - Limit + 1] >= clock - Window
    <3>1. 1 \in 1..Len(hits[k]) /\ hits[k][1] + Window >= clock
      BY <2>1, <2>2, <2>3, <2>4
    <3>2. hits[k][1] = log[k][Len(log[k]) - Limit + 1]
      BY <3>1, <2>1, <2>3 DEF EndOf
    <3>3. hits[k][1] \in Nat
      BY <3>1, <2>1
    <3> QED BY <3>1, <3>2, <3>3, <2>1
  <2> QED BY <2>3, <2>4
<1> QED
  BY <1>1, Invariance, PTL
=============================================================================

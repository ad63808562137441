---------------------------- MODULE StartupProofs ----------------------------
(***************************************************************************)
(* Theorems about Startup, for any number of processes and crashes.        *)
(*                                                                         *)
(* That a process serves only a complete schema depends on what the others *)
(* may have done between its reads.  The inductive invariant says what a   *)
(* recorded revision means (a database that has refresh_tokens has all     *)
(* that its revision claims), and what each stage of a start may rely on.  *)
(* That nobody narrows the icons while another process serves needs one    *)
(* about who may still repair: IconsOK.                                    *)
(***************************************************************************)
EXTENDS Startup, TLAPS

(* All that a recovery which may be forgotten still guarantees.            *)
Whole == Tables \subseteq schema /\ (Unmarked \/ "late_columns" \in schema)

(* A database at revision 001 has the late columns unless its stamp was    *)
(* bad, and one with refresh_tokens at a revision has what it claims.      *)
DbOK ==
    /\ "vault" \notin schema => version = 0 /\ schema = {}
    /\ version = 1 => Unmarked \/ "late_columns" \in schema
    /\ version # 0 /\ "refresh_tokens" \in schema =>
         /\ {"vault", "sharing"} \subseteq schema
         /\ Unmarked \/ "late_columns" \in schema
         /\ version >= 3 => "org_entries" \in schema

Upgrading == {"upgrade", "upgrading"}
Creating  == {"create", "creating"}
Stamping  == {"stamp", "stamping"}

(* A process at stage p that was told f and has read s.                    *)
WorkerOK(p, f, s) ==
    /\ p \in Upgrading =>
         /\ ~f.users => schema = {} \/ (version = Head /\ Whole)
         /\ f.users => "vault" \in schema /\ f.version /\ version # 0
         /\ f.refresh => "refresh_tokens" \in schema
    /\ p = "upgrading" /\ s.version = Head => version = Head
    /\ p \in {"repair"} \cup Creating \cup Stamping =>
         /\ "vault" \in schema
         /\ f.version => version = Head
    /\ p \in Creating \cup Stamping => "late_columns" \in schema
    /\ p = "creating" => Tables \subseteq schema \cup s.missing
    /\ p \in Stamping \cup {"serving"} => Whole

Inv == TypeOK /\ DbOK /\ \A w \in Worker : WorkerOK(pc[w], flags[w], seen[w])

(* What steps of one process may do to the database under the others.      *)
Grows ==
    /\ schema' \subseteq Feature /\ version' \in {version, Head} /\ found' = found
    /\ (schema \cap (Tables \cup {"late_columns"})) \subseteq schema'
    /\ schema' # schema => schema # {} \/ (version' = Head /\ Whole')

-----------------------------------------------------------------------------
(* What revisions add after the recorded one.                              *)
LEMMA RevisionsAdd ==
    ASSUME NEW from \in 0..Head
    PROVE  /\ Revisions(from, Head) \subseteq Feature
           /\ from = 0 => Tables \cup {"late_columns"} \subseteq Revisions(from, Head)
           /\ from <= 1 => "refresh_tokens" \in Revisions(from, Head)
           /\ from >= 2 => "refresh_tokens" \notin Revisions(from, Head)
           /\ from <= 2 => "org_entries" \in Revisions(from, Head)
           /\ from \in 1..2 => "sharing" \in Referenced(from)
           /\ from = 0 => "vault" \in Created(from)
  <1>1. \A k \in 1..5 : Adds[k] \subseteq Feature
    BY DEF Adds, Feature, Tables
  <1>2. \A f : f \in Revisions(from, Head) <=> \E k \in (from + 1)..5 : f \in Adds[k]
    BY DEF Revisions, Head
  <1>3. Revisions(from, Head) \subseteq Feature
    BY <1>1, <1>2 DEF Head
  <1>4. from = 0 => Tables \cup {"late_columns"} \subseteq Revisions(from, Head)
    <2>1. SUFFICES ASSUME from = 0 PROVE Tables \cup {"late_columns"} \subseteq Revisions(from, Head)
      OBVIOUS
    <2>2. Adds[1] = {"vault", "sharing", "late_columns"} /\ Adds[2] = {"refresh_tokens"}
          /\ Adds[3] = {"org_entries"}
      BY DEF Adds
    <2>3. 1 \in (from + 1)..5 /\ 2 \in (from + 1)..5 /\ 3 \in (from + 1)..5
      BY <2>1
    <2> QED BY <1>2, <2>2, <2>3 DEF Tables
  <1>5. from <= 1 => "refresh_tokens" \in Revisions(from, Head)
    BY <1>2 DEF Adds, Head
  <1>6. from >= 2 => "refresh_tokens" \notin Revisions(from, Head)
    <2>1. \A k \in 3..5 : "refresh_tokens" \notin Adds[k]
      BY DEF Adds
    <2> QED BY <1>2, <2>1 DEF Head
  <1>7. from <= 2 => "org_entries" \in Revisions(from, Head)
    BY <1>2 DEF Adds, Head
  <1>8. from \in 1..2 => "sharing" \in Referenced(from)
    <2>1. SUFFICES ASSUME from \in 1..2 PROVE "sharing" \in Referenced(from)
      OBVIOUS
    <2>2. \A k \in 2..5 : "sharing" \notin Adds[k]
      BY DEF Adds
    <2>3. "sharing" \notin Revisions(from, Head)
      BY <1>2, <2>1, <2>2
    <2>4. 3 \in (from + 1)..Head /\ "sharing" \in Refers[3]
      BY <2>1 DEF Refers, Head
    <2> QED BY <2>3, <2>4 DEF Referenced
  <1>9. from = 0 => "vault" \in Created(from)
    BY <1>4 DEF Created, Tables
  <1> QED BY <1>3, <1>4, <1>5, <1>6, <1>7, <1>8, <1>9

(* What a process relies on stays true when another one changes the        *)
(* database.                                                               *)
LEMMA Frame ==
    ASSUME TypeOK, Grows, NEW p, NEW f, NEW s, WorkerOK(p, f, s),
           DbOK
    PROVE  WorkerOK(p, f, s)'
  BY DEF TypeOK, Grows, WorkerOK, DbOK, Whole, Unmarked, Tables, Head, Upgrading, Creating, Stamping

(* A step of one process.                                                  *)
LEMMA Local ==
    ASSUME Inv, NEW w \in Worker, NEW p \in Stages, NEW f \in Flags, NEW s \in Seen,
           Grows, DbOK', custom' \in BOOLEAN, crashes' \in 0..MaxCrashes,
           pc' = [pc EXCEPT ![w] = p], flags' = [flags EXCEPT ![w] = f],
           seen' = [seen EXCEPT ![w] = s], WorkerOK(p, f, s)'
    PROVE  Inv'
  <1>1. TypeOK'
    BY DEF Inv, TypeOK, Grows, Head
  <1>2. ASSUME NEW v \in Worker PROVE WorkerOK(pc[v], flags[v], seen[v])'
    <2>1. CASE v = w
      <3>1. pc'[v] = p /\ flags'[v] = f /\ seen'[v] = s
        BY <2>1 DEF Inv, TypeOK
      <3> QED BY <3>1 DEF WorkerOK, Whole, Unmarked
    <2>2. CASE v # w
      <3>1. pc'[v] = pc[v] /\ flags'[v] = flags[v] /\ seen'[v] = seen[v]
        BY <2>2 DEF Inv, TypeOK
      <3>2. PICK p0, f0, s0 : p0 = pc[v] /\ f0 = flags[v] /\ s0 = seen[v]
        OBVIOUS
      <3>3. WorkerOK(p0, f0, s0)
        BY <3>2 DEF Inv
      <3>4. WorkerOK(p0, f0, s0)'
        BY <3>3, Frame DEF Inv
      <3> QED BY <3>1, <3>2, <3>4 DEF WorkerOK, Whole, Unmarked
    <2> QED BY <2>1, <2>2
  <1> QED BY <1>1, <1>2 DEF Inv

-----------------------------------------------------------------------------
LEMMA InitOK == ASSUME Init PROVE Inv
  <1>1. schema \subseteq Feature /\ version \in 0..Head /\ DbOK
    <2>1. CASE schema = {} /\ version = 0
      BY <2>1 DEF DbOK, Head
    <2>2. CASE schema \in Legacy /\ version = 0
      <3>1. PICK more \in SUBSET {"sharing", "late_columns", "refresh_tokens", "org_entries"} :
              schema = {"vault"} \cup more
        BY <2>2 DEF Legacy
      <3>2. schema \subseteq Feature /\ "vault" \in schema
        BY <3>1 DEF Feature, Tables
      <3> QED BY <2>2, <3>2 DEF DbOK, Head
    <2>3. CASE version \in 1..Head /\ schema = Revisions(0, version)
      <3>1. \A f : f \in schema <=> \E k \in 1..version : f \in Adds[k]
        BY <2>3 DEF Revisions
      <3>2. \A k \in 1..5 : Adds[k] \subseteq Feature
        BY DEF Adds, Feature, Tables
      <3>3. schema \subseteq Feature
        BY <2>3, <3>1, <3>2 DEF Head
      <3>4. {"vault", "sharing", "late_columns"} \subseteq schema
        <4>1. Adds[1] = {"vault", "sharing", "late_columns"} /\ 1 \in 1..version
          BY <2>3 DEF Adds, Head
        <4> QED BY <3>1, <4>1
      <3>5. version >= 3 => "org_entries" \in schema
        BY <2>3, <3>1 DEF Adds, Head
      <3> QED BY <2>3, <3>3, <3>4, <3>5 DEF DbOK, Head
    <2>4. CASE version \in 1..Head /\ schema \in Stamped
      <3>1. "vault" \in schema /\ "refresh_tokens" \notin schema
        BY <2>4 DEF Stamped
      <3>2. schema \subseteq Feature
        BY <2>4 DEF Stamped, Feature, Tables
      <3>3. version = 1 => Unmarked \/ "late_columns" \in schema
        BY DEF Init, Unmarked
      <3> QED BY <2>4, <3>1, <3>2, <3>3 DEF DbOK, Head
    <2> QED BY <2>1, <2>2, <2>3, <2>4 DEF Init
  <1>2. TypeOK
    <2>1. "down" \in Stages /\ NoFlags \in Flags /\ Nothing \in Seen
      BY DEF Stages, NoFlags, Flags, Nothing, Seen, Head
    <2>2. 0 \in 0..MaxCrashes
      BY CrashBound
    <2>3. found \in [schema : SUBSET Feature, version : 0..Head]
      BY <1>1 DEF Init
    <2> QED BY <1>1, <2>1, <2>2, <2>3 DEF Init, TypeOK
  <1>3. \A w \in Worker : WorkerOK(pc[w], flags[w], seen[w])
    BY DEF Init, WorkerOK, Upgrading, Creating, Stamping
  <1> QED BY <1>1, <1>2, <1>3 DEF Inv

LEMMA ReadFlagsOK == ASSUME Inv, NEW w \in Worker, ReadFlags(w) PROVE Inv'
  <1>0. PICK f : f = [users |-> "vault" \in schema, version |-> version # 0,
                      refresh |-> "refresh_tokens" \in schema]
    OBVIOUS
  <1>1. /\ f \in Flags
        /\ f.users <=> "vault" \in schema
        /\ f.version <=> version # 0
        /\ f.refresh <=> "refresh_tokens" \in schema
    <2>1. /\ f.users = ("vault" \in schema) /\ f.version = (version # 0)
          /\ f.refresh = ("refresh_tokens" \in schema)
      BY <1>0, Zenon
    <2>2. f.users \in BOOLEAN /\ f.version \in BOOLEAN /\ f.refresh \in BOOLEAN
      <3>1. \A x : (x \in schema) \in BOOLEAN
        OBVIOUS
      <3>2. (version # 0) \in BOOLEAN
        OBVIOUS
      <3> QED BY <2>1, <3>1, <3>2, Zenon
    <2>3. f = [users |-> f.users, version |-> f.version, refresh |-> f.refresh]
      BY <1>0, <2>1, Zenon
    <2>4. f \in Flags
      BY <2>2, <2>3 DEF Flags
    <2> QED BY <2>1, <2>4, Zenon
  <1>2. flags' = [flags EXCEPT ![w] = f] /\ pc' = [pc EXCEPT ![w] = First(f)]
    BY <1>0, Zenon DEF ReadFlags, Go
  <1>3. First(f) \in Stages
    BY DEF First, Stages
  <1>4. PICK s \in Seen : seen' = [seen EXCEPT ![w] = s]
    BY DEF ReadFlags, Inv, TypeOK
  <1>5. Grows /\ DbOK' /\ custom' \in BOOLEAN /\ crashes' \in 0..MaxCrashes
    BY DEF ReadFlags, Inv, TypeOK, Grows, DbOK, Whole, Unmarked
  <1>6. WorkerOK(First(f), f, s)'
    <2>1. schema' = schema /\ version' = version /\ found' = found
      BY DEF ReadFlags
    <2>2. First(f) = "repair" => "vault" \in schema /\ ~f.version
      BY <1>1 DEF First
    <2>3. First(f) \in {"upgrade", "repair"}
      BY DEF First
    <2>4. First(f) = "upgrade" => /\ ~f.users => schema = {}
                                  /\ f.users => "vault" \in schema /\ f.version /\ version # 0
                                  /\ f.refresh => "refresh_tokens" \in schema
      BY <1>1 DEF First, Inv, DbOK
    <2> QED BY <2>1, <2>2, <2>3, <2>4 DEF WorkerOK, Upgrading, Creating, Stamping
  <1> QED BY <1>1, <1>2, <1>3, <1>4, <1>5, <1>6, Local

LEMMA OpenOK == ASSUME Inv, NEW w \in Worker, Open(w) PROVE Inv'
  <1>1. PICK p \in {"upgrading", "creating", "stamping"} :
          /\ pc' = [pc EXCEPT ![w] = p]
          /\ p = "upgrading" => pc[w] = "upgrade"
          /\ p = "creating" => pc[w] = "create"
          /\ p = "stamping" => pc[w] = "stamp"
    BY DEF Open, Go
  <1>2. PICK s \in Seen : /\ s.version = version /\ s.missing = Tables \ schema
                          /\ seen' = [seen EXCEPT ![w] = s]
    BY DEF Open, Seen, Inv, TypeOK
  <1>3. PICK f \in Flags : f = flags[w] /\ flags' = [flags EXCEPT ![w] = f]
    BY DEF Open, Inv, TypeOK
  <1>4. Grows /\ DbOK' /\ custom' \in BOOLEAN /\ crashes' \in 0..MaxCrashes
    BY DEF Open, Inv, TypeOK, Grows, DbOK, Whole, Unmarked
  <1>5. WorkerOK(p, f, s)'
    <2>1. schema' = schema /\ version' = version /\ found' = found
      BY DEF Open
    <2>2. WorkerOK(pc[w], f, seen[w])
      BY <1>3 DEF Inv
    <2> QED BY <1>1, <1>2, <2>1, <2>2 DEF WorkerOK, Upgrading, Creating, Stamping, Whole, Unmarked
  <1> QED BY <1>1, <1>2, <1>3, <1>4, <1>5, Local DEF Stages

(* A transaction commits: the process goes on to the next stage.           *)
LEMMA ClosedOK ==
    ASSUME Inv, NEW w \in Worker, NEW stage \in {"upgrade", "repair", "create", "stamp"},
           Close(w, stage), Grows, DbOK',
           NEW f \in Flags, f = flags[w], WorkerOK(After(stage, f), f, Nothing)'
    PROVE  Inv'
  <1>1. After(stage, f) \in Stages /\ Nothing \in Seen
    BY DEF After, Stages, Nothing, Seen, Head
  <1>2. /\ pc' = [pc EXCEPT ![w] = After(stage, f)] /\ flags' = [flags EXCEPT ![w] = f]
        /\ seen' = [seen EXCEPT ![w] = Nothing]
        /\ custom' \in BOOLEAN /\ crashes' \in 0..MaxCrashes
    BY DEF Close, Go, Inv, TypeOK
  <1> QED BY <1>1, <1>2, Local

LEMMA UpgradeOK == ASSUME Inv, NEW w \in Worker, Upgrade(w) PROVE Inv'
  <1>1. PICK f \in Flags : f = flags[w]
    BY DEF Inv, TypeOK
  <1>2. /\ pc[w] = "upgrading" /\ Close(w, "upgrade")
        /\ WorkerOK("upgrading", f, seen[w])
    BY <1>1 DEF Upgrade, Inv
  <1>3. version' = Head /\ version \in 0..Head /\ schema' \subseteq Feature /\ schema \subseteq schema'
    <2>1. CASE seen[w].version = Head /\ UNCHANGED <<schema, version>>
      BY <1>2, <2>1 DEF WorkerOK, Inv, TypeOK
    <2>2. CASE version = seen[w].version /\ schema' = schema \cup Revisions(version, Head)
               /\ version' = Head
      BY <2>2, RevisionsAdd DEF Inv, TypeOK
    <2> QED BY <2>1, <2>2 DEF Upgrade
  <1>4. \/ schema' = schema /\ version = Head
        \/ schema' = schema \cup Revisions(version, Head) /\ Upgradable
    BY <1>2 DEF Upgrade, WorkerOK
  <1>0. found' = found
    BY <1>2 DEF Close
  <1>5. "refresh_tokens" \in schema' => Whole'
    <2>1. CASE schema' = schema /\ version = Head
      BY <2>1, <1>0 DEF Inv, DbOK, Whole, Unmarked, Tables, Head
    <2>2. CASE schema' = schema \cup Revisions(version, Head) /\ Upgradable
      <3>1. CASE version = 0
        BY <2>2, <3>1, <1>3, RevisionsAdd DEF Whole, Unmarked
      <3>2. CASE version = 1
        BY <2>2, <1>0, <3>2, <1>3, RevisionsAdd DEF Whole, Unmarked, Tables, Inv, DbOK, Upgradable
      <3>3. CASE version >= 2
        BY <2>2, <1>0, <3>3, <1>3, RevisionsAdd DEF Whole, Unmarked, Tables, Inv, DbOK, Upgradable
      <3> QED BY <3>1, <3>2, <3>3, <1>3 DEF Head
    <2> QED BY <1>4, <2>1, <2>2
  <1>6. version = 0 => Whole'
    BY <1>3, <1>4, RevisionsAdd DEF Whole, Unmarked, Head
  <1>7. "vault" \in schema'
    BY <1>3, <1>6 DEF Inv, DbOK, Whole, Unmarked, Tables
  <1>8. DbOK'
    BY <1>0, <1>3, <1>5, <1>7 DEF DbOK, Whole, Unmarked, Tables, Head
  <1>9. Grows
    BY <1>0, <1>3, <1>6 DEF Grows, Inv, DbOK
  <1>10. WorkerOK(After("upgrade", f), f, Nothing)'
    <2>1. CASE Recovers(f)
      <3>1. After("upgrade", f) = "repair"
        BY <2>1 DEF After
      <3> QED BY <3>1, <1>3, <1>7 DEF WorkerOK, Upgrading, Creating, Stamping
    <2>2. CASE ~Recovers(f)
      <3>1. After("upgrade", f) = "serving"
        BY <2>2 DEF After
      <3>2. Whole'
        <4>1. CASE ~f.users
          <5>1. schema = {} \/ Whole
            BY <4>1, <1>2 DEF WorkerOK, Upgrading
          <5>2. CASE schema = {}
            BY <5>2, <1>6 DEF Inv, DbOK
          <5>3. CASE Whole
            BY <5>3, <1>0, <1>3 DEF Whole, Unmarked
          <5> QED BY <5>1, <5>2, <5>3
        <4>2. CASE f.users
          BY <4>2, <2>2, <1>2, <1>3, <1>5 DEF WorkerOK, Upgrading, Recovers
        <4> QED BY <4>1, <4>2
      <3> QED BY <3>1, <3>2 DEF WorkerOK, Upgrading, Creating, Stamping
    <2> QED BY <2>1, <2>2
  <1> QED BY <1>1, <1>2, <1>8, <1>9, <1>10, ClosedOK

LEMMA RepairOK == ASSUME Inv, NEW w \in Worker, Repair(w) PROVE Inv'
  <1>1. PICK f \in Flags : f = flags[w]
    BY DEF Inv, TypeOK
  <1>2. /\ Close(w, "repair") /\ found' = found /\ WorkerOK("repair", f, seen[w])
        /\ schema' = (schema \cup {"late_columns"}) \ {"wide_icon"} /\ version' = version
    BY <1>1 DEF Repair, Close, Inv
  <1>3. "vault" \in schema /\ (f.version => version = Head)
    BY <1>2 DEF WorkerOK
  <1>4. DbOK' /\ Grows
    BY <1>2, <1>3 DEF Inv, TypeOK, DbOK, Grows, Feature, Tables, Head
  <1>5. WorkerOK(After("repair", f), f, Nothing)'
    <2>1. After("repair", f) = "create"
      BY DEF After
    <2> QED BY <2>1, <1>2, <1>3 DEF WorkerOK, Upgrading, Creating, Stamping
  <1> QED BY <1>1, <1>2, <1>4, <1>5, ClosedOK

LEMMA CreateMissingOK == ASSUME Inv, NEW w \in Worker, CreateMissing(w) PROVE Inv'
  <1>1. PICK f \in Flags : f = flags[w]
    BY DEF Inv, TypeOK
  <1>2. /\ Close(w, "create") /\ found' = found /\ WorkerOK("creating", f, seen[w]) /\ seen[w].missing \subseteq Tables
        /\ schema' = schema \cup seen[w].missing /\ version' = version
    BY <1>1 DEF CreateMissing, Close, Inv, TypeOK, Seen
  <1>3. Whole' /\ "vault" \in schema /\ (f.version => version = Head)
    BY <1>2 DEF WorkerOK, Creating, Stamping, Whole, Unmarked
  <1>4. DbOK' /\ Grows
    BY <1>2, <1>3 DEF Inv, TypeOK, DbOK, Grows, Feature, Tables, Whole, Unmarked
  <1>5. WorkerOK(After("create", f), f, Nothing)'
    BY <1>2, <1>3 DEF After, WorkerOK, Upgrading, Creating, Stamping, Whole, Unmarked, Tables
  <1> QED BY <1>1, <1>2, <1>4, <1>5, ClosedOK

LEMMA StampOK == ASSUME Inv, NEW w \in Worker, Stamp(w) PROVE Inv'
  <1>1. PICK f \in Flags : f = flags[w]
    BY DEF Inv, TypeOK
  <1>2. /\ Close(w, "stamp") /\ found' = found /\ WorkerOK("stamping", f, seen[w])
        /\ schema' = schema /\ version' = Head
    BY <1>1 DEF Stamp, Close, Inv
  <1>3. Whole
    BY <1>2 DEF WorkerOK, Stamping
  <1>4. DbOK' /\ Grows
    BY <1>2, <1>3 DEF Inv, TypeOK, DbOK, Grows, Tables, Whole, Unmarked, Head
  <1>5. WorkerOK(After("stamp", f), f, Nothing)'
    BY <1>2, <1>3 DEF After, WorkerOK, Upgrading, Creating, Stamping, Whole, Unmarked
  <1> QED BY <1>1, <1>2, <1>4, <1>5, ClosedOK

LEMMA DownOK == ASSUME Inv, NEW w \in Worker, Down(w), crashes' \in 0..MaxCrashes PROVE Inv'
  <1>1. "down" \in Stages /\ NoFlags \in Flags /\ Nothing \in Seen
    BY DEF Stages, NoFlags, Flags, Nothing, Seen, Head
  <1>2. /\ pc' = [pc EXCEPT ![w] = "down"] /\ flags' = [flags EXCEPT ![w] = NoFlags]
        /\ seen' = [seen EXCEPT ![w] = Nothing] /\ custom' \in BOOLEAN
    BY DEF Down, Go, Inv, TypeOK
  <1>3. Grows /\ DbOK'
    BY DEF Down, Inv, TypeOK, Grows, DbOK, Whole, Unmarked
  <1>4. WorkerOK("down", NoFlags, Nothing)'
    BY DEF WorkerOK, Upgrading, Creating, Stamping
  <1> QED BY <1>1, <1>2, <1>3, <1>4, Local

LEMMA StepOK == ASSUME Inv, [Next]_vars PROVE Inv'
  <1>1. CASE UNCHANGED vars
    BY <1>1 DEF vars, Inv, TypeOK, DbOK, WorkerOK, Whole, Unmarked
  <1>2. CASE Next
    <2>1. PICK w \in Worker : Start(w) \/ StoreIcon(w) \/ Crash(w)
      BY <1>2 DEF Next
    <2>2. CASE Fail(w)
      BY <2>2, DownOK DEF Fail, Inv, TypeOK
    <2>3. CASE Crash(w)
      <3>1. crashes' \in 0..MaxCrashes /\ Down(w)
        BY <2>3, CrashBound DEF Crash, Inv, TypeOK
      <3> QED BY <3>1, DownOK
    <2>4. CASE StoreIcon(w)
      BY <2>4 DEF StoreIcon, Inv, TypeOK, DbOK, WorkerOK, Whole, Unmarked
    <2> QED BY <2>1, <2>2, <2>3, <2>4, ReadFlagsOK, OpenOK, UpgradeOK, RepairOK,
               CreateMissingOK, StampOK DEF Start
  <1> QED BY <1>1, <1>2

LEMMA Invariance == Spec => []Inv
  <1>1. Init => Inv
    BY InitOK
  <1>2. Inv /\ [Next]_vars => Inv'
    BY StepOK
  <1> QED BY <1>1, <1>2, PTL DEF Spec

-----------------------------------------------------------------------------
(* Every variable keeps its type, for any number of processes.             *)
THEOREM TypeCorrect == Spec => []TypeOK
  <1>1. Inv => TypeOK
    BY DEF Inv
  <1> QED BY <1>1, Invariance, PTL

(* Nobody serves a half-done schema, unless a bad stamp at revision 001    *)
(* hides it: however many processes start at once and wherever they die.   *)
THEOREM OnlyCompleteSchemasAreServed == Spec => []MarkedSchemasAreCompleted
  <1>1. Inv => MarkedSchemasAreCompleted
    BY DEF Inv, WorkerOK, MarkedSchemasAreCompleted, ServedSchemaIsComplete, Serving,
           Complete, Whole, Stamping
  <1> QED BY <1>1, Invariance, PTL

-----------------------------------------------------------------------------
(* Who may still narrow the icons.                                         *)
MayRepair(p, f) == p = "repair" \/ (p \in Upgrading /\ Recovers(f))

(* A process at stage p that was told f, over schema s at revision v that  *)
(* the first start found at revision first: before the upgrade the flags   *)
(* are up to date; once refresh_tokens is there nobody narrows wide icons; *)
(* and there are none between the repairs and the stamp.                   *)
IconsWorker(s, v, first, p, f) ==
    /\ v \in 1..(Head - 1) =>
         /\ p \in {"down"} \cup Upgrading
         /\ p \in Upgrading => (f.refresh <=> "refresh_tokens" \in s)
    /\ first # 1 =>
         /\ {"refresh_tokens", "wide_icon"} \subseteq s => ~MayRepair(p, f)
         /\ p \in Creating \cup Stamping => "wide_icon" \notin s

IconsOK ==
    /\ version \in {found.version, Head}
    /\ version = 0 => "wide_icon" \notin schema
    /\ \A w \in Worker : IconsWorker(schema, version, found.version, pc[w], flags[w])

(* A step of one process, over which the others keep what they rely on.    *)
LEMMA IconsLocal ==
    ASSUME TypeOK, NEW w \in Worker, NEW p, NEW f,
           pc' = [pc EXCEPT ![w] = p], flags' = [flags EXCEPT ![w] = f],
           version' \in {found'.version, Head},
           version' = 0 => "wide_icon" \notin schema',
           \A v \in Worker : IconsWorker(schema', version', found'.version, pc[v], flags[v]),
           IconsWorker(schema', version', found'.version, p, f)
    PROVE  IconsOK'
  <1>1. \A v \in Worker : IconsWorker(schema', version', found'.version, pc'[v], flags'[v])
    <2> TAKE v \in Worker
    <2>1. CASE v = w
      <3>1. pc'[v] = p /\ flags'[v] = f
        BY <2>1 DEF TypeOK
      <3> QED BY <3>1
    <2>2. CASE v # w
      <3>1. pc'[v] = pc[v] /\ flags'[v] = flags[v]
        BY <2>2 DEF TypeOK
      <3> QED BY <3>1
    <2> QED BY <2>1, <2>2
  <1> QED BY <1>1 DEF IconsOK

LEMMA IconsInit == ASSUME Init PROVE IconsOK
  <1>1. version = 0 => "wide_icon" \notin schema
    BY DEF Init, Legacy
  <1>2. \A w \in Worker : IconsWorker(schema, version, found.version, pc[w], flags[w])
    BY DEF Init, IconsWorker, MayRepair, Upgrading, Creating, Stamping
  <1> QED BY <1>1, <1>2 DEF Init, IconsOK

LEMMA IconsReadFlags == ASSUME Inv, IconsOK, NEW w \in Worker, ReadFlags(w) PROVE IconsOK'
  <1>0. PICK f : f = [users |-> "vault" \in schema, version |-> version # 0,
                      refresh |-> "refresh_tokens" \in schema]
    OBVIOUS
  <1>1. /\ f.users <=> "vault" \in schema
        /\ f.version <=> version # 0
        /\ f.refresh <=> "refresh_tokens" \in schema
    BY <1>0, Zenon
  <1>2. flags' = [flags EXCEPT ![w] = f] /\ pc' = [pc EXCEPT ![w] = First(f)]
    BY <1>0, Zenon DEF ReadFlags, Go
  <1>3. schema' = schema /\ version' = version /\ found' = found
    BY DEF ReadFlags
  <1>4. IconsWorker(schema', version', found'.version, First(f), f)
    <2>1. First(f) = "repair" => version = 0
      BY <1>1 DEF First
    <2>2. First(f) \in {"upgrade", "repair"}
      BY DEF First
    <2> QED BY <1>1, <1>3, <2>1, <2>2
            DEF IconsOK, IconsWorker, MayRepair, Recovers, Upgrading, Creating, Stamping, Head
  <1> QED BY <1>2, <1>3, <1>4, IconsLocal DEF Inv, IconsOK

LEMMA IconsOpen == ASSUME Inv, IconsOK, NEW w \in Worker, Open(w) PROVE IconsOK'
  <1>1. PICK p \in {"upgrading", "creating", "stamping"} :
          /\ pc' = [pc EXCEPT ![w] = p]
          /\ p = "upgrading" => pc[w] = "upgrade"
          /\ p = "creating" => pc[w] = "create"
          /\ p = "stamping" => pc[w] = "stamp"
    BY DEF Open, Go
  <1>2. flags' = [flags EXCEPT ![w] = flags[w]]
    BY DEF Open, Inv, TypeOK
  <1>3. schema' = schema /\ version' = version /\ found' = found
    BY DEF Open
  <1>4. IconsWorker(schema', version', found'.version, p, flags[w])
    BY <1>1, <1>3 DEF IconsOK, IconsWorker, MayRepair, Upgrading, Creating, Stamping
  <1> QED BY <1>1, <1>2, <1>3, <1>4, IconsLocal DEF Inv, IconsOK

(* After a transaction the process relies on no more than before it.       *)
LEMMA IconsClose ==
    ASSUME Inv, IconsOK, NEW w \in Worker, NEW stage, Close(w, stage),
           version' \in {version, Head}, version' = 0 => "wide_icon" \notin schema',
           \A v \in Worker : IconsWorker(schema', version', found.version, pc[v], flags[v]),
           IconsWorker(schema', version', found.version, After(stage, flags[w]), flags[w])
    PROVE  IconsOK'
  <1>1. /\ pc' = [pc EXCEPT ![w] = After(stage, flags[w])]
        /\ flags' = [flags EXCEPT ![w] = flags[w]] /\ found' = found
    BY DEF Close, Go, Inv, TypeOK
  <1> QED BY <1>1, IconsLocal DEF Inv, IconsOK

LEMMA IconsUpgrade == ASSUME Inv, IconsOK, NEW w \in Worker, Upgrade(w) PROVE IconsOK'
  <1>1. pc[w] = "upgrading" /\ Close(w, "upgrade") /\ version \in 0..Head
    BY DEF Upgrade, Inv, TypeOK
  <1>2. /\ seen[w].version = Head => version = Head
        /\ version' = Head
    BY <1>1 DEF Upgrade, Inv, WorkerOK
  <1>3. After("upgrade", flags[w]) = IF Recovers(flags[w]) THEN "repair" ELSE "serving"
    BY DEF After
  <1>4. CASE schema' = schema /\ version = Head
    <2>1. \A v \in Worker : IconsWorker(schema', version', found.version, pc[v], flags[v])
      BY <1>2, <1>4 DEF IconsOK
    <2>2. IconsWorker(schema', version', found.version, After("upgrade", flags[w]), flags[w])
      <3>1. IconsWorker(schema', version', found.version, "upgrading", flags[w])
        BY <1>1, <2>1
      <3> QED BY <3>1, <1>2, <1>3 DEF IconsWorker, MayRepair, Upgrading, Creating, Stamping, Head
    <2> QED BY <1>1, <1>2, <2>1, <2>2, IconsClose DEF Head
  <1>5. CASE version = 0 /\ schema' = schema \cup Revisions(version, Head) /\ Upgradable
    <2>1. schema = {}
      BY <1>5, <1>1, RevisionsAdd DEF Upgradable, Inv, DbOK
    <2>2. ASSUME NEW v \in Worker
          PROVE  pc[v] \notin {"repair"} \cup Creating \cup Stamping /\ ~MayRepair(pc[v], flags[v])
      BY <2>1 DEF Inv, WorkerOK, MayRepair, Recovers
    <2>3. \A v \in Worker : IconsWorker(schema', version', found.version, pc[v], flags[v])
      BY <1>2, <2>2 DEF IconsWorker, Head
    <2>4. ~Recovers(flags[w])
      BY <1>1, <2>2 DEF MayRepair, Upgrading
    <2>5. IconsWorker(schema', version', found.version, After("upgrade", flags[w]), flags[w])
      BY <1>2, <1>3, <2>4 DEF IconsWorker, MayRepair, Upgrading, Creating, Stamping, Head
    <2> QED BY <1>1, <1>2, <2>3, <2>5, IconsClose DEF Head
  <1>6. CASE version \in 1..(Head - 1) /\ schema' = schema \cup Revisions(version, Head)
    <2>1. found.version # 1 => version \in 2..Head
      BY <1>6 DEF IconsOK, Head
    <2>2. found.version # 1 /\ "refresh_tokens" \in schema' => "refresh_tokens" \in schema
      BY <1>6, <2>1, RevisionsAdd DEF Head
    <2>3. ASSUME NEW v \in Worker
          PROVE  /\ pc[v] \in {"down"} \cup Upgrading
                 /\ pc[v] \in Upgrading => (flags[v].refresh <=> "refresh_tokens" \in schema)
      BY <1>6 DEF IconsOK, IconsWorker
    <2>4. \A v \in Worker : IconsWorker(schema', version', found.version, pc[v], flags[v])
      BY <1>2, <2>2, <2>3 DEF IconsWorker, MayRepair, Recovers, Upgrading, Creating, Stamping, Head
    <2>5. IconsWorker(schema', version', found.version, After("upgrade", flags[w]), flags[w])
      <3>1. IconsWorker(schema', version', found.version, "upgrading", flags[w])
        BY <1>1, <2>4
      <3> QED BY <3>1, <1>2, <1>3 DEF IconsWorker, MayRepair, Upgrading, Creating, Stamping, Head
    <2> QED BY <1>1, <1>2, <2>4, <2>5, IconsClose DEF Head
  <1>7. CASE version = Head /\ schema' = schema \cup Revisions(version, Head)
    <2>1. Revisions(Head, Head) = {}
      BY DEF Revisions, Head
    <2> QED BY <1>4, <1>7, <2>1
  <1>8. \/ schema' = schema /\ version = Head
        \/ schema' = schema \cup Revisions(version, Head) /\ Upgradable
    BY <1>2 DEF Upgrade
  <1> QED BY <1>1, <1>4, <1>5, <1>6, <1>7, <1>8 DEF Head

LEMMA IconsRepair == ASSUME Inv, IconsOK, NEW w \in Worker, Repair(w) PROVE IconsOK'
  <1>1. /\ pc[w] = "repair" /\ Close(w, "repair") /\ "wide_icon" \notin schema'
        /\ version' = version
    BY DEF Repair
  <1>2. version \notin 1..(Head - 1)
    BY <1>1 DEF IconsOK, IconsWorker, Upgrading
  <1>3. \A p, f : IconsWorker(schema', version', found.version, p, f)
    BY <1>1, <1>2 DEF IconsWorker
  <1> QED BY <1>1, <1>3, IconsClose

LEMMA IconsCreateMissing == ASSUME Inv, IconsOK, NEW w \in Worker, CreateMissing(w) PROVE IconsOK'
  <1>1. /\ pc[w] = "creating" /\ Close(w, "create") /\ version' = version
        /\ schema' = schema \cup seen[w].missing /\ seen[w].missing \subseteq Tables
    BY DEF CreateMissing, Inv, TypeOK, Seen
  <1>2. IconsWorker(schema, version, found.version, "creating", flags[w])
    BY <1>1 DEF IconsOK
  <1>3. version \notin 1..(Head - 1)
    BY <1>2 DEF IconsWorker, Upgrading
  <1>4. "wide_icon" \in schema' => "wide_icon" \in schema
    BY <1>1 DEF Tables
  <1>5. \A p, f : IconsWorker(schema', version', found.version, p, f)
    BY <1>1, <1>2, <1>3, <1>4 DEF IconsWorker, Creating
  <1> QED BY <1>1, <1>4, <1>5, IconsClose DEF IconsOK

LEMMA IconsStamp == ASSUME Inv, IconsOK, NEW w \in Worker, Stamp(w) PROVE IconsOK'
  <1>1. pc[w] = "stamping" /\ Close(w, "stamp") /\ version' = Head /\ schema' = schema
    BY DEF Stamp
  <1>2. \A v \in Worker : IconsWorker(schema', version', found.version, pc[v], flags[v])
    BY <1>1 DEF IconsOK, IconsWorker, Head
  <1>3. IconsWorker(schema', version', found.version, After("stamp", flags[w]), flags[w])
    BY <1>1 DEF After, IconsWorker, MayRepair, Upgrading, Creating, Stamping, Head
  <1> QED BY <1>1, <1>2, <1>3, IconsClose DEF Head

LEMMA IconsDown == ASSUME Inv, IconsOK, NEW w \in Worker, Down(w) PROVE IconsOK'
  <1>1. /\ pc' = [pc EXCEPT ![w] = "down"] /\ flags' = [flags EXCEPT ![w] = NoFlags]
        /\ schema' = schema /\ version' = version /\ found' = found
    BY DEF Down, Go
  <1>2. IconsWorker(schema', version', found'.version, "down", NoFlags)
    BY DEF IconsWorker, MayRepair, Upgrading, Creating, Stamping
  <1> QED BY <1>1, <1>2, IconsLocal DEF Inv, IconsOK

LEMMA IconsStep == ASSUME Inv, IconsOK, [Next]_vars PROVE IconsOK'
  <1>1. CASE UNCHANGED vars
    BY <1>1 DEF vars, IconsOK
  <1>2. CASE Next
    <2>1. PICK w \in Worker : Start(w) \/ StoreIcon(w) \/ Crash(w)
      BY <1>2 DEF Next
    <2>2. CASE Fail(w) \/ Crash(w)
      BY <2>2, IconsDown DEF Fail, Crash
    <2>3. CASE StoreIcon(w)
      BY <2>3 DEF StoreIcon, IconsOK
    <2> QED BY <2>1, <2>2, <2>3, IconsReadFlags, IconsOpen, IconsUpgrade, IconsRepair,
               IconsCreateMissing, IconsStamp DEF Start
  <1> QED BY <1>1, <1>2

(* While some process serves, the start of another one takes nothing from  *)
(* the schema: only the repairs do, and whoever serves has refresh_tokens, *)
(* over which nobody who may still repair finds wide icons.                *)
THEOREM StartsTakeNothingAway == Spec => ServedSchemaOnlyGrows
  <1>1. ASSUME Inv, IconsOK, [Next]_vars, found.version # 1, Serving
        PROVE  schema \subseteq schema'
    <2>1. "refresh_tokens" \in schema
      BY <1>1 DEF Serving, Inv, WorkerOK, Whole, Tables
    <2>2. CASE UNCHANGED vars
      BY <2>2 DEF vars
    <2>3. CASE Next
      <3>1. PICK w \in Worker : Start(w) \/ StoreIcon(w) \/ Crash(w)
        BY <2>3 DEF Next
      <3>2. CASE Repair(w)
        <4>1. MayRepair("repair", flags[w]) /\ pc[w] = "repair"
          BY <3>2 DEF Repair, MayRepair
        <4>2. IconsWorker(schema, version, found.version, "repair", flags[w])
          BY <1>1, <4>1 DEF IconsOK
        <4>3. "wide_icon" \notin schema
          BY <1>1, <2>1, <4>1, <4>2 DEF IconsWorker
        <4> QED BY <3>2, <4>3 DEF Repair
      <3>3. CASE ReadFlags(w) \/ Open(w) \/ StoreIcon(w) \/ Fail(w) \/ Crash(w)
        BY <3>3 DEF ReadFlags, Open, StoreIcon, Fail, Crash, Down
      <3>4. CASE Upgrade(w) \/ CreateMissing(w) \/ Stamp(w)
        BY <3>4 DEF Upgrade, CreateMissing, Stamp
      <3> QED BY <3>1, <3>2, <3>3, <3>4 DEF Start
    <2> QED BY <1>1, <2>2, <2>3
  <1>2. Inv /\ IconsOK /\ [Next]_vars => [found.version # 1 /\ Serving => schema \subseteq schema']_vars
    BY <1>1
  <1>3. Init => IconsOK
    BY IconsInit
  <1>4. Inv /\ IconsOK /\ [Next]_vars => IconsOK'
    BY IconsStep
  <1> QED BY <1>2, <1>3, <1>4, Invariance, PTL DEF Spec, ServedSchemaOnlyGrows
=============================================================================

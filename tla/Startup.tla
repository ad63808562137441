------------------------------- MODULE Startup -------------------------------
(***************************************************************************)
(* How the schema reaches the head revision when API processes start.      *)
(* Every process runs run_migrations before it serves: it looks at three   *)
(* tables and then either upgrades, or treats the database as one that     *)
(* create_all made before there were revisions (repair the columns, create *)
(* the missing tables, stamp the head), or upgrades and then repairs a     *)
(* database that was stamped without being completed.  Each of these is a  *)
(* transaction of its own; a process may die between any two, and several  *)
(* may start at once.                                                      *)
(*                                                                         *)
(* The schema is the set of features that tell databases apart.  A process *)
(* whose start fails, or that dies, is started again (docker-compose.yml:  *)
(* "restart: unless-stopped").                                             *)
(***************************************************************************)
EXTENDS Naturals

CONSTANTS Worker,     \* API processes that share the database
          MaxCrashes  \* crashes considered

Head == 5

(* The tables of revision 001 in two groups: "vault" is users and the      *)
(* personal vault, "sharing" is the organisations and the shares.          *)
(* "late_columns": users.public_key, encrypted_private_key and             *)
(* collections.parent_uuid.                                                *)
Tables  == {"vault", "sharing", "refresh_tokens", "org_entries"}
Feature == Tables \cup {"late_columns", "sync_indexes", "wide_icon", "wide_color"}

ASSUME CrashBound == MaxCrashes \in Nat

VARIABLES
  schema,   \* the features of the database
  version,  \* the row of alembic_version, or 0 without that table
  custom,   \* some collection has an icon longer than 255 characters
  pc,       \* the stage of each process
  flags,    \* what _db_flags told it
  seen,     \* version or missing tables, read by its open transaction
  crashes,
  found     \* history: the database the first start found

vars == <<schema, version, custom, pc, flags, seen, crashes, found>>

Stages == {"down", "upgrade", "upgrading", "repair", "create", "creating",
           "stamp", "stamping", "serving"}
Flags  == [users : BOOLEAN, version : BOOLEAN, refresh : BOOLEAN]
Seen   == [version : 0..Head, missing : SUBSET Tables]

NoFlags == [users |-> FALSE, version |-> FALSE, refresh |-> FALSE]
Nothing == [version |-> 0, missing |-> {}]

(* What each revision adds.                                                *)
Adds == << {"vault", "sharing", "late_columns"},
           {"refresh_tokens"},
           {"org_entries"},
           {"sync_indexes"},
           {"wide_icon", "wide_color"} >>

Revisions(from, to) == UNION {Adds[k] : k \in (from + 1)..to}

(* CREATE TABLE and CREATE INDEX fail on what is there; ALTER does not.    *)
Created(from) == Revisions(from, Head) \cap (Tables \cup {"sync_indexes"})

(* What each revision refers to: 002 a foreign key to users, 003 one to    *)
(* orgs, 004 indexes and 005 columns of the vault's tables.                *)
Refers == << {}, {"vault"}, {"sharing"}, {"vault"}, {"vault"} >>

Referenced(from) == (UNION {Refers[k] : k \in (from + 1)..Head}) \ Revisions(from, Head)

-----------------------------------------------------------------------------
(* The databases a start may find: an empty one; one that create_all made, *)
(* with any of the tables of its time; one at a revision; one that was     *)
(* stamped, at any revision, but lacks tables or columns of it, first of   *)
(* all refresh_tokens.                                                     *)
Legacy == {{"vault"} \cup more :
             more \in SUBSET {"sharing", "late_columns", "refresh_tokens", "org_entries"}}
Stamped == {{"vault"} \cup more : more \in SUBSET {"sharing", "late_columns"}}

Init ==
    /\ \/ schema = {} /\ version = 0
       \/ schema \in Legacy /\ version = 0
       \/ version \in 1..Head /\ schema = Revisions(0, version)
       \/ version \in 1..Head /\ schema \in Stamped
    /\ found = [schema |-> schema, version |-> version]
    /\ custom = FALSE
    /\ pc = [w \in Worker |-> "down"]
    /\ flags = [w \in Worker |-> NoFlags]
    /\ seen = [w \in Worker |-> Nothing]
    /\ crashes = 0

(* Mutant of First: every database is upgraded.                            *)
FirstUpgrades(f) == "upgrade"

First(f) == IF f.users /\ ~f.version THEN "repair" ELSE "upgrade"

(* "Recover from a bad stamp that skipped creating later tables/columns."  *)
Recovers(f) == f.users /\ f.version /\ ~f.refresh

(* Mutant of After: the recovery creates the tables before the repairs.    *)
AfterCreatesFirst(stage, f) ==
    CASE stage = "upgrade" -> IF Recovers(f) THEN "create" ELSE "serving"
      [] stage = "create"  -> IF f.version THEN "repair" ELSE "stamp"
      [] stage = "repair"  -> IF f.version THEN "serving" ELSE "create"
      [] stage = "stamp"   -> "serving"

After(stage, f) ==
    CASE stage = "upgrade" -> IF Recovers(f) THEN "repair" ELSE "serving"
      [] stage = "repair"  -> "create"
      [] stage = "create"  -> IF f.version THEN "serving" ELSE "stamp"
      [] stage = "stamp"   -> "serving"

Go(w, stage) == pc' = [pc EXCEPT ![w] = stage]

(* The flags are those of one moment: the three tables only ever appear,   *)
(* and no mix of two moments chooses a path that one moment does not.      *)
ReadFlags(w) ==
    /\ pc[w] = "down"
    /\ LET f == [users   |-> "vault" \in schema,
                 version |-> version # 0,
                 refresh |-> "refresh_tokens" \in schema]
       IN  flags' = [flags EXCEPT ![w] = f] /\ Go(w, First(f))
    /\ UNCHANGED <<schema, version, custom, seen, crashes, found>>

(* A transaction reads where the database stands.                          *)
Open(w) ==
    /\ \/ pc[w] = "upgrade" /\ Go(w, "upgrading")
       \/ pc[w] = "create" /\ Go(w, "creating")
       \/ pc[w] = "stamp" /\ Go(w, "stamping")
    /\ seen' = [seen EXCEPT ![w] = [version |-> version, missing |-> Tables \ schema]]
    /\ UNCHANGED <<schema, version, custom, flags, crashes, found>>

Close(w, stage) ==
    /\ Go(w, After(stage, flags[w]))
    /\ seen' = [seen EXCEPT ![w] = Nothing]
    /\ UNCHANGED <<custom, flags, crashes, found>>

(* The revisions after the recorded one find what they refer to, and       *)
(* nothing of what they create.                                            *)
Upgradable == Created(version) \cap schema = {} /\ Referenced(version) \subseteq schema

(* command.upgrade(cfg, "head"): one transaction for all the revisions     *)
(* after the recorded one, which must still be the recorded one.           *)
Upgrade(w) ==
    /\ pc[w] = "upgrading"
    /\ \/ seen[w].version = Head /\ UNCHANGED <<schema, version>>
       \/ /\ version = seen[w].version /\ Upgradable
          /\ schema' = schema \cup Revisions(version, Head)
          /\ version' = Head
    /\ Close(w, "upgrade")

(* _apply_schema_repairs, one transaction: adds the columns and gives the  *)
(* icon VARCHAR(255), which PostgreSQL refuses if a value is longer.       *)
Repair(w) ==
    /\ pc[w] = "repair" /\ ~custom
    /\ schema' = (schema \cup {"late_columns"}) \ {"wide_icon"}
    /\ UNCHANGED version
    /\ Close(w, "repair")

(* create_all: creates the tables it missed, unless one has come meanwhile.*)
CreateMissing(w) ==
    /\ pc[w] = "creating" /\ seen[w].missing \cap schema = {}
    /\ schema' = schema \cup seen[w].missing
    /\ UNCHANGED version
    /\ Close(w, "create")

(* Mutant of Stamp: records the revision after the head.                   *)
StampPastHead(w) ==
    /\ pc[w] = "stamping" /\ seen[w].version \in {version, Head}
    /\ version' = Head + 1
    /\ UNCHANGED schema
    /\ Close(w, "stamp")

(* command.stamp(cfg, "head").                                             *)
Stamp(w) ==
    /\ pc[w] = "stamping" /\ seen[w].version \in {version, Head}
    /\ version' = Head
    /\ UNCHANGED schema
    /\ Close(w, "stamp")

(* A statement fails: the transaction is rolled back, the exception leaves *)
(* the lifespan and the process exits.                                     *)
Fails(w) ==
    \/ /\ pc[w] = "upgrading" /\ seen[w].version # Head
       /\ version # seen[w].version \/ ~Upgradable
    \/ pc[w] = "repair" /\ custom
    \/ pc[w] = "creating" /\ seen[w].missing \cap schema # {}
    \/ pc[w] = "stamping" /\ seen[w].version \notin {version, Head}

Down(w) ==
    /\ Go(w, "down")
    /\ flags' = [flags EXCEPT ![w] = NoFlags]
    /\ seen' = [seen EXCEPT ![w] = Nothing]
    /\ UNCHANGED <<schema, version, custom, found>>

Fail(w) == Fails(w) /\ Down(w) /\ UNCHANGED crashes

(* The process dies, starting or serving; an open transaction is undone.   *)
Crash(w) ==
    /\ pc[w] # "down" /\ crashes < MaxCrashes
    /\ crashes' = crashes + 1
    /\ Down(w)

(* A client stores a collection with an icon of its own.                   *)
StoreIcon(w) ==
    /\ pc[w] = "serving" /\ "wide_icon" \in schema /\ ~custom
    /\ custom' = TRUE
    /\ UNCHANGED <<schema, version, pc, flags, seen, crashes, found>>

-----------------------------------------------------------------------------
Start(w) == \/ ReadFlags(w) \/ Open(w)
            \/ Upgrade(w) \/ Repair(w) \/ CreateMissing(w) \/ Stamp(w)
            \/ Fail(w)

Next == \E w \in Worker : Start(w) \/ StoreIcon(w) \/ Crash(w)

Spec == Init /\ [][Next]_vars

(* A process that starts goes on, and one that is down is started again.   *)
FairSpec == Spec /\ \A w \in Worker : WF_vars(Start(w))

-----------------------------------------------------------------------------
(* PROPERTIES *)

(* Every variable has its type.                                            *)
TypeOK ==
    /\ schema \subseteq Feature
    /\ version \in 0..Head
    /\ custom \in BOOLEAN
    /\ pc \in [Worker -> Stages]
    /\ flags \in [Worker -> Flags]
    /\ seen \in [Worker -> Seen]
    /\ crashes \in 0..MaxCrashes
    /\ found \in [schema : SUBSET Feature, version : 0..Head]

(* Two kinds of stamped databases that the recovery does not reach.        *)
(* Unmarked: at 001 without the late columns.  Revision 002 creates        *)
(* refresh_tokens, and from then on nothing tells the next start that the  *)
(* columns are missing.  Dangling: at 001 or 002 without the sharing       *)
(* tables.  Revision 003 refers to them and fails, before the recovery.    *)
Unmarked == found.version = 1 /\ "late_columns" \notin found.schema
Dangling == found.version \in 1..2 /\ "sharing" \notin found.schema

Serving  == \E w \in Worker : pc[w] = "serving"
Complete == Tables \cup {"late_columns"} \subseteq schema

(* migrate.py: "Recover from a bad stamp that skipped creating later       *)
(* tables/columns."  Nobody serves a database that lacks a table or column *)
(* of the models.  At 001 a bad stamp is forgotten: a process that dies    *)
(* between the upgrade and the recovery, or another that starts there,     *)
(* leaves the next start no sign of it.                                    *)
ServedSchemaIsComplete == Serving => Complete

(* On every other database no process serves before all tables and columns *)
(* are there, wherever starts were cut off and however they overlap: nobody*)
(* takes a half-done schema for a finished one.                            *)
MarkedSchemasAreCompleted == ~Unmarked => ServedSchemaIsComplete

(* The same comment of migrate.py: every database gets into service, so    *)
(* every process serves in the end.  One whose stamp dangles never does:   *)
(* its upgrade fails on every start, before the recovery.                  *)
EveryWorkerServes == \A w \in Worker : <>[](pc[w] = "serving")

(* On every other database each process serves in the end, though a start  *)
(* fails when another one commits first or a client has stored an icon that*)
(* the repairs cannot narrow: no such failure repeats for ever.            *)
EveryUpgradableDatabaseIsServed == ~Dangling => EveryWorkerServes

(* While some process serves, the start of another one takes nothing from  *)
(* the schema: the repairs, which narrow the icons that revision 005 has   *)
(* widened, are over before anybody serves.  (Not so at revision 001, see  *)
(* ServedIconsAreText.)                                                    *)
ServedSchemaOnlyGrows ==
    [][found.version # 1 /\ Serving => schema \subseteq schema']_vars

(* models/collection.py: "TEXT: custom folder icons".  Whoever serves can  *)
(* store the icons of the clients.  A database upgraded from revision 001  *)
(* gets TEXT from revision 005 and loses it to the repairs that follow.    *)
ServedIconsAreText == Serving => "wide_icon" \in schema
=============================================================================

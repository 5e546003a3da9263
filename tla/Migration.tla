------------------------------ MODULE Migration ------------------------------
(* Nodes that migrate their shared database when they start (db/migration.go).

   Every node runs Migrate between opening the database and serving.  Migrate
   makes sure that the table of migrations exists, reads it once, reverts the
   migrations recorded by a newer version, last one first, and then applies the
   missing ones of its own list in order.  Each one is a transaction of its
   own; nothing keeps two nodes from doing so at the same time.  Whoever finds
   its work done by another node gets an error from the database and does not
   serve.

   A migration is a number, its place in the sorted list.  A version is the
   number of migrations it knows.  Steps on the database are atomic, whatever
   lies between them interleaves; a transaction may fail, or be committed
   without the node hearing of it, and a process may die at any time. *)
EXTENDS Naturals

CONSTANTS
  Procs,     \* the processes of the mesh; one that ended may be started again
  Last,      \* the number of migrations the newest version knows
  Versions,  \* the versions that are deployed
  Tolerant   \* migrations written with IF NOT EXISTS and IF EXISTS

ASSUME MigrationAssumption ==
  /\ Last \in Nat
  /\ Versions \subseteq 1 .. Last
  /\ Tolerant \subseteq 1 .. Last

VARIABLES
  table,      \* database: the table of migrations exists
  records,    \* database: the migrations recorded in it
  schema,     \* database: the migrations whose changes are in effect
  proc,       \* process: [pc, version, revert, apply]: what is left to do
  disturbed,  \* history: processes that another version has interfered with
              \* since they read the table
  mixed,      \* history: versions have overlapped and nobody has settled it
  won,        \* history: a process that migrated since the database was last
              \* left alone serves
  fault       \* history: since then a process died, a statement failed, or
              \* versions overlapped

vars == <<table, records, schema, proc, disturbed, mixed, won, fault>>
database == <<table, records, schema>>

Pcs == {"down", "check", "create", "read", "migrate", "serving"}
Proc(pc, v, revert, apply) ==
  [pc |-> pc, version |-> v, revert |-> revert, apply |-> apply]
Stopped == Proc("down", 0, {}, {})

ListPastEnd(v) == 1 .. v + 1  \* mutant

\* migrations.Migrations() of a version: sorted by name, each with its reverse
List(v) == {i \in 1 .. Last : i <= v}

Migrating(p) == proc[p].pc \in {"check", "create", "read", "migrate"}

\* the next one to revert, and to apply
IsLast(i, S) == i \in S /\ \A j \in S : j <= i
IsFirst(i, S) == i \in S /\ \A j \in S : i <= j

Init ==
  /\ table = FALSE
  /\ records = {}
  /\ schema = {}
  /\ proc = [p \in Procs |-> Stopped]
  /\ disturbed = {}
  /\ mixed = FALSE
  /\ won = TRUE
  /\ fault = FALSE

-------------------------------------------------------------------------------
(* The life of a process. *)

Others(p, v) == {q \in Procs \ {p} : Migrating(q) /\ proc[q].version # v}

\* run opens the database and calls Migrate
Start(p, v) ==
  LET alone == \A q \in Procs : ~Migrating(q)
      overlaps == Others(p, v) # {} IN
  /\ proc[p].pc = "down"
  /\ proc' = [proc EXCEPT ![p] = Proc("check", v, {}, {})]
  /\ disturbed' = disturbed \ {p}
  /\ mixed' = (mixed \/ overlaps)
  /\ won' = (won /\ ~alone)
  /\ fault' = ((fault /\ ~alone) \/ overlaps)
  /\ UNCHANGED database

\* a process that dies, or is stopped, whatever it is doing
Die(p) ==
  /\ proc[p].pc # "down"
  /\ proc' = [proc EXCEPT ![p] = Stopped]
  /\ fault' = (fault \/ Migrating(p))
  /\ UNCHANGED <<table, records, schema, disturbed, mixed, won>>

\* a statement fails and changes nothing: Migrate, and run, return the error
StatementFails(p) ==
  /\ Migrating(p)
  /\ proc' = [proc EXCEPT ![p] = Stopped]
  /\ fault' = TRUE
  /\ UNCHANGED <<table, records, schema, disturbed, mixed, won>>

-------------------------------------------------------------------------------
(* Migrate. *)

\* AutoMigrate asks whether the table exists ...
CheckTable(p) ==
  /\ proc[p].pc = "check"
  /\ proc' = [proc EXCEPT ![p].pc = IF table THEN "read" ELSE "create"]
  /\ UNCHANGED <<table, records, schema, disturbed, mixed, won, fault>>

\* ... and creates it, which fails when another node was faster
CreateTable(p) ==
  /\ proc[p].pc = "create"
  /\ table' = TRUE
  /\ proc' = [proc EXCEPT ![p] = IF table THEN Stopped
                                 ELSE Proc("read", proc[p].version, {}, {})]
  /\ UNCHANGED <<records, schema, disturbed, mixed, won, fault>>

\* mutant: migrations this version does not know are left alone
ReadRecordsKeepsUnknown(p) ==
  LET v == proc[p].version IN
  /\ proc[p].pc = "read"
  /\ proc' = [proc EXCEPT ![p] = Proc("migrate", v, {}, List(v) \ records)]
  /\ UNCHANGED <<table, records, schema, disturbed, mixed, won, fault>>

\* Find: what is recorded decides, once, what is reverted and applied
ReadRecords(p) ==
  LET v == proc[p].version IN
  /\ proc[p].pc = "read"
  /\ proc' = [proc EXCEPT ![p] = Proc("migrate", v, records \ List(v), List(v) \ records)]
  /\ UNCHANGED <<table, records, schema, disturbed, mixed, won, fault>>

\* a transaction of p may have changed the schema under the others
Disturb(p) ==
  disturbed' = IF schema' = schema THEN disturbed
               ELSE disturbed \union
                      {q \in Procs : /\ proc[q].pc \in {"migrate", "serving"}
                                     /\ proc[q].version # proc[p].version}

\* after a committed transaction: p goes on, or never hears of the commit
Committed(p, rest) ==
  \/ proc' = [proc EXCEPT ![p] = rest] /\ UNCHANGED fault
  \/ proc' = [proc EXCEPT ![p] = Stopped] /\ fault' = TRUE

\* mutant: in the order of the map, sort.Reverse is forgotten
RevertFirst(p, i) ==
  LET q == proc[p] IN
  /\ q.pc = "migrate"
  /\ IsFirst(i, q.revert)
  /\ i \in schema \/ i \in Tolerant
  /\ schema' = schema \ {i}
  /\ records' = records \ {i}
  /\ Committed(p, Proc("migrate", q.version, q.revert \ {i}, q.apply))
  /\ Disturb(p)
  /\ UNCHANGED <<table, mixed, won>>

\* mutant: the record is deleted outside the transaction, and is not when the
\* node misses the commit
RevertKeepsRecord(p, i) ==
  LET q == proc[p] IN
  /\ q.pc = "migrate"
  /\ IsLast(i, q.revert)
  /\ i \in schema \/ i \in Tolerant
  /\ schema' = schema \ {i}
  /\ Committed(p, Proc("migrate", q.version, q.revert \ {i}, q.apply))
  /\ records' = IF proc'[p] = Stopped THEN records ELSE records \ {i}
  /\ Disturb(p)
  /\ UNCHANGED <<table, mixed, won>>

\* the transaction that runs the recorded ReverseSQL and deletes the record;
\* dropping a table "IF EXISTS" succeeds a second time, and so does deleting
\* no record
Revert(p, i) ==
  LET q == proc[p] IN
  /\ q.pc = "migrate"
  /\ IsLast(i, q.revert)
  /\ i \in schema \/ i \in Tolerant
  /\ schema' = schema \ {i}
  /\ records' = records \ {i}
  /\ Committed(p, Proc("migrate", q.version, q.revert \ {i}, q.apply))
  /\ Disturb(p)
  /\ UNCHANGED <<table, mixed, won>>

\* the ReverseSQL fails: somebody else has reverted it
RevertFails(p, i) ==
  /\ proc[p].pc = "migrate"
  /\ IsLast(i, proc[p].revert)
  /\ i \notin schema /\ i \notin Tolerant
  /\ proc' = [proc EXCEPT ![p] = Stopped]
  /\ UNCHANGED <<table, records, schema, disturbed, mixed, won, fault>>

\* mutant: in any order, as a map is iterated
ApplyUnordered(p, i) ==
  LET q == proc[p] IN
  /\ q.pc = "migrate"
  /\ q.revert = {}
  /\ i \in q.apply
  /\ i \notin schema \/ i \in Tolerant
  /\ i \notin records
  /\ schema' = schema \union {i}
  /\ records' = records \union {i}
  /\ Committed(p, Proc("migrate", q.version, {}, q.apply \ {i}))
  /\ Disturb(p)
  /\ UNCHANGED <<table, mixed, won>>

\* the transaction that runs the SQL and creates the record
Apply(p, i) ==
  LET q == proc[p] IN
  /\ q.pc = "migrate"
  /\ q.revert = {}
  /\ IsFirst(i, q.apply)
  /\ i \notin schema \/ i \in Tolerant
  /\ i \notin records
  /\ schema' = schema \union {i}
  /\ records' = records \union {i}
  /\ Committed(p, Proc("migrate", q.version, {}, q.apply \ {i}))
  /\ Disturb(p)
  /\ UNCHANGED <<table, mixed, won>>

\* mutant: an error of the transaction is not returned, the migration is tried
\* again
ApplyRetries(p, i) ==
  /\ proc[p].pc = "migrate"
  /\ proc[p].revert = {}
  /\ IsFirst(i, proc[p].apply)
  /\ i \in records \/ (i \in schema /\ i \notin Tolerant)
  /\ UNCHANGED vars

\* the SQL, or the record with its primary key, exists already
ApplyFails(p, i) ==
  /\ proc[p].pc = "migrate"
  /\ proc[p].revert = {}
  /\ IsFirst(i, proc[p].apply)
  /\ i \in records \/ (i \in schema /\ i \notin Tolerant)
  /\ proc' = [proc EXCEPT ![p] = Stopped]
  /\ UNCHANGED <<table, records, schema, disturbed, mixed, won, fault>>

\* Migrate returns nil, the process goes on to serve; if nobody interfered
\* with it or with those still at work, what versions did to each other is over
Serve(p) ==
  /\ proc[p].pc = "migrate"
  /\ proc[p].revert = {} /\ proc[p].apply = {}
  /\ proc' = [proc EXCEPT ![p].pc = "serving"]
  /\ won' = TRUE
  /\ mixed' = (mixed /\ (\/ p \in disturbed
                         \/ Others(p, proc[p].version) # {}
                         \/ \E q \in disturbed : Migrating(q)))
  /\ UNCHANGED <<table, records, schema, disturbed, fault>>

-------------------------------------------------------------------------------
MigrateStep(p) ==
  \/ CheckTable(p) \/ CreateTable(p) \/ ReadRecords(p) \/ Serve(p)
  \/ \E i \in 1 .. Last :
       Revert(p, i) \/ RevertFails(p, i) \/ Apply(p, i) \/ ApplyFails(p, i)

Step(p) ==
  \/ \E v \in Versions : Start(p, v)
  \/ Die(p) \/ StatementFails(p) \/ MigrateStep(p)

Next == \E p \in Procs : Step(p)

Spec == Init /\ [][Next]_vars

(* A process that migrates goes on.  Nobody has to start, and nothing has to
   fail. *)
FairSpec == Spec /\ \A p \in Procs : WF_vars(MigrateStep(p))

-------------------------------------------------------------------------------
(* Properties. *)

\* Migrations are numbers of the list, and a process has versions and plans
\* only while it runs.
TypeOK ==
  /\ table \in BOOLEAN /\ mixed \in BOOLEAN /\ won \in BOOLEAN /\ fault \in BOOLEAN
  /\ records \subseteq 1 .. Last /\ schema \subseteq 1 .. Last
  /\ proc \in [Procs -> [pc : Pcs, version : Versions \union {0},
                         revert : SUBSET (1 .. Last), apply : SUBSET (1 .. Last)]]
  /\ disturbed \subseteq Procs

\* The table of migrations tells the truth about the schema, also when nodes
\* race, die or miss a commit: each transaction of Migrate changes both.
RecordsMatch == records = schema

\* A node that serves finds exactly the migrations of its own version in
\* effect, whatever crashes, failures, races and versions came before it read
\* the table, unless a node of another version has changed the schema since.
ServesOwnSchema ==
  \A p \in Procs :
    proc[p].pc = "serving" /\ p \notin disturbed => schema = List(proc[p].version)

\* Nodes of one version that start at the same time may fail on each other's
\* work, but never all of them: when all have ended, and none died and no
\* statement failed by itself, one of them serves.
RaceHasWinner ==
  (\A p \in Procs : ~Migrating(p)) /\ ~fault => won

\* Migrate implements the abstract schema: without gaps, one migration at a
\* time, unless versions overlap, and again without gaps afterwards.
Abstract == INSTANCE Schema WITH applied <- schema
ImplementsSchema == Abstract!Spec

\* Migrate comes to an end, with success or an error.
MigrateEnds == \A p \in Procs : Migrating(p) ~> ~Migrating(p)

\* A step that starts no version but v.
Starts(v) ==
  \A p \in Procs : proc[p].pc = "down" => proc'[p].pc = "down" \/ proc'[p].version = v

\* Once only one version is started, over and over, and no process dies while it
\* migrates and no statement fails by itself, the schema becomes that version's
\* for good, whatever mixture of versions and interrupted migrations it was
\* left in, and although the processes still fail on each other's work.
Converges ==
  \A v \in Versions :
    <>[][Starts(v)]_vars /\ <>[]~fault /\ []<>(\E p \in Procs : proc[p].pc = "check")
      => <>[](schema = List(v))
===============================================================================

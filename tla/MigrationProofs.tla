--------------------------- MODULE MigrationProofs ---------------------------
(* Proofs about Migration, for any number of processes, migrations and
   versions. *)
EXTENDS Migration, TLAPS

\* A process has a plan only while it migrates, and it concerns unknown
\* migrations on the one hand and its own on the other.
Plans ==
  \A p \in Procs :
    /\ proc[p].pc # "down" => proc[p].version \in Versions
    /\ proc[p].pc # "migrate" => proc[p].revert = {} /\ proc[p].apply = {}
    /\ proc[p].revert \intersect List(proc[p].version) = {}
    /\ proc[p].apply \subseteq List(proc[p].version)

\* Whatever separates the schema from the version of a process is in its plan,
\* unless another version has interfered.
Planned ==
  \A p \in Procs :
    proc[p].pc \in {"migrate", "serving"} /\ p \notin disturbed =>
      /\ schema \ List(proc[p].version) \subseteq proc[p].revert
      /\ List(proc[p].version) \ schema \subseteq proc[p].apply

\* All processes that migrate have one version and are undisturbed.
Uniform ==
  \A p \in Procs :
    Migrating(p) =>
      /\ p \notin disturbed
      /\ \A q \in Procs : Migrating(q) => proc[q].version = proc[p].version

\* Processes that have not overlapped with another version are uniform, and
\* the schema has no gap.
Unmixed == ~mixed => Uniform /\ Abstract!Gapless(schema)

\* The part of a plan that others have carried out already is done in order.
InOrder(p) ==
  LET q == proc[p] IN
  /\ \A j \in q.apply \intersect schema : \A k \in q.apply : k < j => k \in schema
  /\ \A j \in q.revert \ schema : \A k \in q.revert : j < k => k \notin schema
  /\ schema \ List(q.version) # {} => q.apply \intersect schema = {}

\* Nothing stands between p and the end of its migration.
Leads(p) ==
  LET q == proc[p] IN
  \/ q.pc \in {"check", "read"}
  \/ q.pc = "create" /\ ~table
  \/ q.pc = "migrate" /\ q.revert = schema \ List(q.version)
                      /\ q.apply = List(q.version) \ schema

Race ==
  ~fault => /\ Uniform
            /\ \A p \in Procs : proc[p].pc = "migrate" => InOrder(p)
            /\ won \/ \E p \in Procs : Leads(p)

IInv == TypeOK /\ RecordsMatch /\ Plans /\ Planned /\ Unmixed /\ Race

USE MigrationAssumption

-------------------------------------------------------------------------------
\* A running process has a version of the list.
LEMMA VersionRange ==
  ASSUME Plans, NEW p \in Procs, proc[p].pc # "down"
  PROVE  proc[p].version \in 1 .. Last
<1>1. proc[p].version \in Versions
  BY DEF Plans
<1> QED
  BY <1>1, MigrationAssumption

\* Initially nothing is applied and nobody runs.
LEMMA InitInv == Init => IInv
<1> SUFFICES ASSUME Init PROVE IInv
  OBVIOUS
<1>1. TypeOK
  BY DEF Init, TypeOK, Stopped, Proc, Pcs
<1>2. RecordsMatch /\ Plans /\ Planned
  BY DEF Init, RecordsMatch, Plans, Planned, Stopped, Proc, Pcs
<1>3. Uniform
  BY DEF Init, Uniform, Migrating, Stopped, Proc
<1>4. Abstract!Gapless(schema)
  <2>1. Abstract!List(0) = {}
    BY DEF Abstract!List
  <2> QED
    BY <2>1 DEF Init, Abstract!Gapless
<1>5. Race
  BY <1>3 DEF Init, Race, Stopped, Proc
<1> QED
  BY <1>1, <1>2, <1>3, <1>4, <1>5 DEF IInv, Unmixed

-------------------------------------------------------------------------------
(* Steps that leave the schema alone. *)

\* A process that ends and leaves the database as it is disturbs nobody, and
\* was not needed to win the race unless that is a fault.
LEMMA StopInv ==
  ASSUME IInv, NEW p \in Procs, proc' = [proc EXCEPT ![p] = Stopped],
         UNCHANGED <<table, records, schema, disturbed, mixed, won>>,
         fault' \in BOOLEAN, fault => fault', fault' \/ ~Leads(p)
  PROVE  IInv'
<1>1. /\ \A q \in Procs : q # p => proc'[q] = proc[q]
      /\ proc'[p] = Stopped
      /\ Stopped.pc = "down" /\ Stopped.revert = {} /\ Stopped.apply = {}
  BY DEF IInv, TypeOK, Stopped, Proc
<1>2. \A q \in Procs : Migrating(q)' => q # p /\ Migrating(q)
  BY <1>1 DEF Migrating
<1>3. TypeOK'
  BY DEF IInv, TypeOK, Stopped, Proc, Pcs
<1>4. RecordsMatch'
  BY DEF IInv, RecordsMatch
<1>5. Plans'
  BY <1>1 DEF IInv, Plans, List
<1>6. Planned'
  BY <1>1 DEF IInv, Planned, List
<1>7. Uniform => Uniform'
  BY <1>1, <1>2 DEF Uniform
<1>8. Unmixed'
  BY <1>7 DEF IInv, Unmixed
<1>9. Race'
  <2> SUFFICES ASSUME ~fault' PROVE Uniform' /\ (\A q \in Procs : proc'[q].pc = "migrate" => InOrder(q)')
                                  /\ (won' \/ \E q \in Procs : Leads(q)')
    BY DEF Race
  <2>1. ~fault /\ Race /\ ~Leads(p)
    BY DEF IInv
  <2>2. \A q \in Procs : proc'[q].pc = "migrate" => InOrder(q)'
    BY <1>1, <2>1 DEF Race, InOrder, List
  <2>3. won' \/ \E q \in Procs : Leads(q)'
    BY <1>1, <2>1 DEF Race, Leads, List
  <2> QED
    BY <2>1, <2>2, <2>3, <1>7 DEF Race
<1> QED
  BY <1>3, <1>4, <1>5, <1>6, <1>8, <1>9 DEF IInv

\* A new process has no plan; it is not disturbed, and it leads if it is alone.
LEMMA StartInv ==
  ASSUME IInv, NEW p \in Procs, NEW v \in Versions, Start(p, v)
  PROVE  IInv'
<1> DEFINE new == Proc("check", v, {}, {})
<1>1. /\ \A q \in Procs : q # p => proc'[q] = proc[q]
      /\ proc'[p] = new
      /\ new.pc = "check" /\ new.version = v /\ new.revert = {} /\ new.apply = {}
      /\ proc[p].pc = "down"
  BY DEF IInv, TypeOK, Start, Proc
<1>2. UNCHANGED <<table, records, schema>> /\ disturbed' = disturbed \ {p}
  BY DEF Start, database
<1> HIDE DEF new
<1>3. TypeOK'
  BY DEF IInv, TypeOK, Start, Proc, Pcs, database
<1>4. RecordsMatch'
  BY <1>2 DEF IInv, RecordsMatch
<1>5. Plans'
  BY <1>1, <1>2 DEF IInv, Plans, List
<1>6. Planned'
  BY <1>1, <1>2 DEF IInv, Planned, List
<1>7. ASSUME Uniform, Others(p, v) = {} PROVE Uniform'
  <2>1. \A q \in Procs : Migrating(q)' => proc'[q].version = v /\ q \notin disturbed'
    BY <1>1, <1>2, <1>7 DEF Uniform, Others, Migrating
  <2> QED
    BY <2>1 DEF Uniform
<1>8. Unmixed'
  BY <1>2, <1>7 DEF IInv, Unmixed, Start
<1>9. Race'
  <2> SUFFICES ASSUME ~fault'
               PROVE Uniform' /\ (\A q \in Procs : proc'[q].pc = "migrate" => InOrder(q)')
                              /\ (won' \/ \E q \in Procs : Leads(q)')
    BY DEF Race
  <2>1. CASE \A q \in Procs : ~Migrating(q)
    <3>1. \A q \in Procs : Migrating(q)' => q = p
      BY <1>1, <2>1 DEF Migrating
    <3>2. Uniform' /\ \A q \in Procs : proc'[q].pc # "migrate"
      BY <3>1, <1>1, <1>2 DEF Uniform, Migrating
    <3>3. Leads(p)'
      BY <1>1 DEF Leads
    <3> QED
      BY <3>2, <3>3
  <2>2. CASE ~ \A q \in Procs : ~Migrating(q)
    <3>1. ~fault /\ Others(p, v) = {} /\ won' = won
      BY <2>2 DEF Start, IInv, TypeOK
    <3>2. Uniform'
      BY <3>1, <1>7 DEF IInv, Race
    <3>3. \A q \in Procs : proc'[q].pc = "migrate" => InOrder(q)'
      BY <3>1, <1>1, <1>2 DEF IInv, Race, InOrder, List
    <3>4. won' \/ \E q \in Procs : Leads(q)'
      BY <3>1, <1>1, <1>2 DEF IInv, Race, Leads, List
    <3> QED
      BY <3>2, <3>3, <3>4
  <2> QED
    BY <2>1, <2>2
<1> QED
  BY <1>3, <1>4, <1>5, <1>6, <1>8, <1>9 DEF IInv

\* A process that looks for the table, creates it, or reads it, goes on to lead.
LEMMA PrepareInv ==
  ASSUME IInv, NEW p \in Procs,
         CheckTable(p) \/ (CreateTable(p) /\ ~table) \/ ReadRecords(p)
  PROVE  IInv'
<1> DEFINE v == proc[p].version
<1>1. /\ \A q \in Procs : q # p => proc'[q] = proc[q]
      /\ proc'[p].version = v
      /\ proc[p].pc \in {"check", "create", "read"}
      /\ v \in Versions
  BY DEF IInv, TypeOK, Plans, CheckTable, CreateTable, ReadRecords, Proc
<1>2. UNCHANGED <<records, schema, disturbed, mixed, won, fault>>
  BY DEF CheckTable, CreateTable, ReadRecords
<1>3. \/ /\ proc'[p].pc \in {"read"} \/ (proc'[p].pc = "create" /\ ~table')
         /\ proc'[p].revert = {} /\ proc'[p].apply = {}
      \/ /\ proc'[p].pc = "migrate"
         /\ proc'[p].revert = schema \ List(v) /\ proc'[p].apply = List(v) \ schema
  BY <1>1 DEF IInv, TypeOK, Plans, RecordsMatch, CheckTable, CreateTable, ReadRecords, Proc
<1>4. \A q \in Procs : Migrating(q)' <=> Migrating(q)
  BY <1>1, <1>3 DEF Migrating
<1>t. table' = table \/ ((\A q \in Procs : q # p => proc'[q] = proc[q]) /\ proc'[p].pc = "read")
  BY <1>1, <1>3 DEF IInv, TypeOK, CheckTable, CreateTable, ReadRecords, Proc
<1>5. TypeOK'
  <2> DEFINE T == [pc : Pcs, version : Versions \union {0},
                   revert : SUBSET (1 .. Last), apply : SUBSET (1 .. Last)]
  <2>a. proc \in [Procs -> T] /\ schema \subseteq 1 .. Last /\ table \in BOOLEAN
    BY DEF IInv, TypeOK
  <2>1. /\ table' \in BOOLEAN
        /\ proc' \in [Procs -> T]
    <3>1. CASE CheckTable(p)
      BY <3>1, <2>a DEF CheckTable, Pcs
    <3>2. CASE CreateTable(p) /\ ~table
      BY <3>2, <2>a, <1>1 DEF CreateTable, Proc, Pcs
    <3>3. CASE ReadRecords(p)
      <4>1. Proc("migrate", v, records \ List(v), List(v) \ records) \in T
        BY <1>1, <2>a DEF Proc, Pcs, List, IInv, TypeOK
      <4> QED
        BY <4>1, <3>3, <2>a DEF ReadRecords
    <3> QED
      BY <3>1, <3>2, <3>3
  <2> QED
    BY <2>1, <1>2 DEF IInv, TypeOK
<1> HIDE DEF v
<1>6. RecordsMatch'
  BY <1>2 DEF IInv, RecordsMatch
<1>7. Plans'
  BY <1>1, <1>2, <1>3 DEF IInv, Plans, List
<1>8. Planned'
  BY <1>1, <1>2, <1>3 DEF IInv, Planned, List
<1>9. Uniform => Uniform'
  BY <1>1, <1>2, <1>4 DEF Uniform, v
<1>10. Unmixed'
  BY <1>2, <1>9 DEF IInv, Unmixed
<1>11. Race'
  <2> SUFFICES ASSUME ~fault'
               PROVE Uniform' /\ (\A q \in Procs : proc'[q].pc = "migrate" => InOrder(q)')
                              /\ (\E q \in Procs : Leads(q)')
    BY DEF Race
  <2>1. \A q \in Procs : proc'[q].pc = "migrate" => InOrder(q)'
    BY <1>1, <1>2, <1>3 DEF IInv, Race, InOrder, List
  <2>2. Leads(p)'
    BY <1>1, <1>2, <1>3 DEF Leads, List
  <2> QED
    BY <2>1, <2>2, <1>2, <1>9 DEF IInv, Race
<1> QED
  BY <1>5, <1>6, <1>7, <1>8, <1>10, <1>11 DEF IInv

\* A process that was not disturbed and has nothing left to do finds the schema
\* of its version.
LEMMA Settled ==
  ASSUME IInv, NEW p \in Procs, proc[p].pc \in {"migrate", "serving"},
         p \notin disturbed, proc[p].revert = {}, proc[p].apply = {}
  PROVE  schema = List(proc[p].version) /\ Abstract!Gapless(schema)
<1>1. schema = List(proc[p].version)
  BY DEF IInv, TypeOK, Planned, List
<1>2. List(proc[p].version) = Abstract!List(proc[p].version)
  BY DEF List, Abstract!List
<1>3. proc[p].version \in 0 .. Last
  <2>1. proc[p].version \in 1 .. Last
    BY VersionRange DEF IInv
  <2> QED
    BY <2>1
<1> QED
  BY <1>1, <1>2, <1>3 DEF Abstract!Gapless

\* A process that serves has the schema of its version, or was disturbed.
LEMMA ServeInv ==
  ASSUME IInv, NEW p \in Procs, Serve(p)
  PROVE  IInv'
<1>1. /\ \A q \in Procs : q # p => proc'[q] = proc[q]
      /\ proc'[p].pc = "serving" /\ proc'[p].version = proc[p].version
      /\ proc'[p].revert = {} /\ proc'[p].apply = {}
      /\ proc[p].pc = "migrate" /\ proc[p].revert = {} /\ proc[p].apply = {}
  BY DEF IInv, TypeOK, Serve
<1>2. UNCHANGED <<table, records, schema, disturbed, fault>> /\ won'
  BY DEF Serve
<1>3. \A q \in Procs : Migrating(q)' => q # p /\ Migrating(q)
  BY <1>1 DEF Migrating
<1>4. TypeOK'
  BY DEF IInv, TypeOK, Serve, Pcs
<1>5. RecordsMatch'
  BY <1>2 DEF IInv, RecordsMatch
<1>6. Plans'
  BY <1>1, <1>2 DEF IInv, Plans, List
<1>7. Planned'
  BY <1>1, <1>2 DEF IInv, Planned, List
<1>8. Uniform => Uniform'
  BY <1>1, <1>2, <1>3 DEF Uniform
<1>9. Unmixed'
  <2> SUFFICES ASSUME ~mixed' PROVE Uniform' /\ Abstract!Gapless(schema')
    BY DEF Unmixed
  <2>1. CASE ~mixed
    BY <2>1, <1>2, <1>8 DEF IInv, Unmixed
  <2>2. CASE /\ p \notin disturbed
             /\ Others(p, proc[p].version) = {}
             /\ ~ \E q \in disturbed : Migrating(q)
    <3>1. Abstract!Gapless(schema)
      BY <2>2, <1>1, Settled
    <3>2. \A q \in Procs : Migrating(q)' => proc'[q].version = proc[p].version /\ q \notin disturbed'
      BY <2>2, <1>1, <1>2, <1>3 DEF Others
    <3> QED
      BY <3>1, <3>2, <1>2 DEF Uniform
  <2> QED
    BY <2>1, <2>2 DEF Serve
<1>10. Race'
  <2>1. ~fault => \A q \in Procs : proc'[q].pc = "migrate" => InOrder(q)'
    BY <1>1, <1>2 DEF IInv, Race, InOrder, List
  <2> QED
    BY <2>1, <1>2, <1>8 DEF IInv, Race
<1> QED
  BY <1>4, <1>5, <1>6, <1>7, <1>9, <1>10 DEF IInv

-------------------------------------------------------------------------------
(* Steps that change the schema. *)

\* What both transactions have in common: p goes on with the rest of its plan
\* or stops, the history notes whom it disturbs, and uniformity is kept.
LEMMA CommitFrame ==
  ASSUME IInv, NEW p \in Procs, NEW i \in 1 .. Last, Revert(p, i) \/ Apply(p, i)
  PROVE  /\ \A q \in Procs : q # p => proc'[q] = proc[q]
         /\ proc[p].pc = "migrate" /\ proc[p].version \in Versions
         /\ \/ /\ proc'[p].pc = "migrate" /\ proc'[p].version = proc[p].version
               /\ proc'[p].revert = proc[p].revert \ {i}
               /\ proc'[p].apply = proc[p].apply \ {i}
               /\ UNCHANGED fault
            \/ /\ proc'[p].pc = "down" /\ proc'[p].revert = {} /\ proc'[p].apply = {}
               /\ fault'
         /\ TypeOK' /\ RecordsMatch'
         /\ UNCHANGED <<table, mixed, won>>
         /\ disturbed \subseteq disturbed'
         /\ \A q \in Procs : /\ q \in disturbed' /\ q \notin disturbed
                             => proc[q].version # proc[p].version
         /\ \A q \in Procs :
              /\ schema' # schema /\ proc[q].pc \in {"migrate", "serving"}
              /\ q \notin disturbed'
              => proc[q].version = proc[p].version
         /\ Uniform => Uniform'
<1> DEFINE rest == Proc("migrate", proc[p].version, proc[p].revert \ {i}, proc[p].apply \ {i})
           T == [pc : Pcs, version : Versions \union {0},
                 revert : SUBSET (1 .. Last), apply : SUBSET (1 .. Last)]
<1>a. /\ proc \in [Procs -> T] /\ fault \in BOOLEAN
      /\ schema \subseteq 1 .. Last /\ records = schema /\ disturbed \subseteq Procs
  BY DEF IInv, TypeOK, RecordsMatch
<1>1. /\ proc[p].pc = "migrate" /\ proc[p].version \in Versions
      /\ Committed(p, rest) /\ Disturb(p) /\ UNCHANGED <<table, mixed, won>>
      /\ records' = schema' /\ schema' \subseteq 1 .. Last
  <2>1. proc[p].pc = "migrate" => proc[p].version \in Versions
    BY DEF IInv, Plans
  <2>2. CASE Revert(p, i)
    <3>1. proc[p].revert \intersect List(proc[p].version) = {}
          /\ proc[p].apply \subseteq List(proc[p].version) /\ i \in proc[p].revert
      BY <2>2 DEF IInv, Plans, Revert, IsLast
    <3>2. proc[p].apply \ {i} = proc[p].apply
      BY <3>1
    <3> QED
      BY <2>1, <2>2, <3>2, <1>a DEF Revert
  <2>3. CASE Apply(p, i)
    <3>1. proc[p].revert = {} /\ proc[p].revert \ {i} = {}
      BY <2>3 DEF Apply
    <3> QED
      BY <2>1, <2>3, <3>1, <1>a DEF Apply
  <2> QED
    BY <2>2, <2>3
<1>2. rest \in T /\ Stopped \in T
  BY <1>1, <1>a DEF Proc, Stopped, Pcs
<1>3. /\ \A q \in Procs : q # p => proc'[q] = proc[q]
      /\ (proc'[p] = rest /\ UNCHANGED fault) \/ (proc'[p] = Stopped /\ fault' = TRUE)
      /\ proc' \in [Procs -> T] /\ fault' \in BOOLEAN
  BY <1>1, <1>2, <1>a DEF Committed
<1>4. \/ /\ proc'[p].pc = "migrate" /\ proc'[p].version = proc[p].version
         /\ proc'[p].revert = proc[p].revert \ {i}
         /\ proc'[p].apply = proc[p].apply \ {i}
         /\ UNCHANGED fault
      \/ /\ proc'[p].pc = "down" /\ proc'[p].revert = {} /\ proc'[p].apply = {}
         /\ fault'
  BY <1>3 DEF Proc, Stopped
<1>5. /\ disturbed \subseteq disturbed' /\ disturbed' \subseteq Procs
      /\ \A q \in Procs : q \in disturbed' /\ q \notin disturbed
                          => proc[q].version # proc[p].version
      /\ \A q \in Procs :
           /\ schema' # schema /\ proc[q].pc \in {"migrate", "serving"}
           /\ q \notin disturbed'
           => proc[q].version = proc[p].version
  BY <1>1, <1>a DEF Disturb
<1>6. TypeOK' /\ RecordsMatch'
  BY <1>1, <1>3, <1>5 DEF IInv, TypeOK, RecordsMatch
<1> HIDE DEF rest, T
<1>7. Uniform => Uniform'
  <2> SUFFICES ASSUME Uniform PROVE Uniform'
    OBVIOUS
  <2>1. Migrating(p) /\ \A q \in Procs : Migrating(q)' => Migrating(q) /\ proc'[q].version = proc[q].version
    BY <1>1, <1>3, <1>4 DEF Migrating
  <2>2. \A q \in Procs : Migrating(q)' => proc'[q].version = proc[p].version /\ q \notin disturbed'
    BY <2>1, <1>5 DEF Uniform
  <2> QED
    BY <2>2 DEF Uniform
<1> QED
  BY <1>1, <1>3, <1>4, <1>5, <1>6, <1>7

\* Unless versions overlap, a migration that is reverted is the last one.
LEMMA RevertsLast ==
  ASSUME IInv, ~mixed, NEW p \in Procs, NEW i \in 1 .. Last, Revert(p, i), i \in schema
  PROVE  schema = Abstract!List(i) /\ schema' = Abstract!List(i - 1)
<1>1. PICK k \in 0 .. Last : schema = Abstract!List(k)
  BY DEF IInv, Unmixed, Abstract!Gapless
<1>2. p \notin disturbed /\ proc[p].pc = "migrate" /\ schema' = schema \ {i}
  BY DEF IInv, Unmixed, Uniform, Migrating, Revert
<1>3. i \in proc[p].revert /\ (\A j \in proc[p].revert : j <= i) /\ i \notin List(proc[p].version)
  BY DEF Revert, IsLast, IInv, Plans
<1>4. schema \ List(proc[p].version) \subseteq proc[p].revert
  BY <1>2 DEF IInv, Planned
<1>5. proc[p].version \in 1 .. Last
  BY <1>2, VersionRange DEF IInv
<1>6. i > proc[p].version
  BY <1>3, <1>5 DEF List
<1>7. i <= k
  BY <1>1 DEF Abstract!List
<1>8. k \in schema \ List(proc[p].version)
  BY <1>1, <1>6, <1>7, <1>5 DEF List, Abstract!List
<1>9. k = i
  BY <1>8, <1>4, <1>3, <1>7
<1> QED
  BY <1>1, <1>9, <1>2 DEF Abstract!List

\* Unless versions overlap, a migration that is applied is the next one.
LEMMA AppliesNext ==
  ASSUME IInv, ~mixed, NEW p \in Procs, NEW i \in 1 .. Last, Apply(p, i)
  PROVE  schema = Abstract!List(i - 1) /\ schema' = Abstract!List(i)
<1>1. PICK k \in 0 .. Last : schema = Abstract!List(k)
  BY DEF IInv, Unmixed, Abstract!Gapless
<1>2. p \notin disturbed /\ proc[p].pc = "migrate" /\ schema' = schema \union {i}
  BY DEF IInv, Unmixed, Uniform, Migrating, Apply
<1>3. (\A j \in proc[p].apply : i <= j) /\ i \in List(proc[p].version) /\ i \notin schema
  BY DEF Apply, IsFirst, IInv, Plans, RecordsMatch
<1>4. List(proc[p].version) \ schema \subseteq proc[p].apply
  BY <1>2 DEF IInv, Planned
<1>5. proc[p].version \in 1 .. Last
  BY <1>2, VersionRange DEF IInv
<1>6. k < i
  BY <1>1, <1>3 DEF Abstract!List
<1>7. k + 1 \in List(proc[p].version) \ schema
  BY <1>1, <1>3, <1>5, <1>6 DEF List, Abstract!List
<1>8. k = i - 1
  BY <1>7, <1>4, <1>3, <1>6
<1> QED
  BY <1>1, <1>8, <1>2 DEF Abstract!List

\* Reverting keeps the invariant: the last of p's unknown migrations is the last
\* unknown one of everybody's plan that is still in effect.
LEMMA RevertInv ==
  ASSUME IInv, NEW p \in Procs, NEW i \in 1 .. Last, Revert(p, i)
  PROVE  IInv'
<1> DEFINE v == proc[p].version
<1>1. /\ \A q \in Procs : q # p => proc'[q] = proc[q]
      /\ proc[p].pc = "migrate" /\ v \in Versions
      /\ \/ /\ proc'[p].pc = "migrate" /\ proc'[p].version = v
            /\ proc'[p].revert = proc[p].revert \ {i}
            /\ proc'[p].apply = proc[p].apply \ {i}
            /\ UNCHANGED fault
         \/ /\ proc'[p].pc = "down" /\ proc'[p].revert = {} /\ proc'[p].apply = {}
            /\ fault'
      /\ UNCHANGED <<table, mixed, won>>
      /\ disturbed \subseteq disturbed'
      /\ \A q \in Procs :
           /\ schema' # schema /\ proc[q].pc \in {"migrate", "serving"}
           /\ q \notin disturbed'
           => proc[q].version = v
      /\ Uniform => Uniform'
  BY CommitFrame
<1>2. TypeOK' /\ RecordsMatch'
  BY CommitFrame
<1>3. /\ schema' = schema \ {i} /\ i \in proc[p].revert /\ i \notin List(v)
      /\ \A j \in proc[p].revert : j <= i
  BY DEF Revert, IsLast, IInv, Plans
<1> HIDE DEF v
<1>4. Plans'
  BY <1>1, <1>2 DEF IInv, Plans, v, List, TypeOK
<1>5. Planned'
  <2> SUFFICES ASSUME NEW q \in Procs, proc'[q].pc \in {"migrate", "serving"}, q \notin disturbed'
               PROVE  /\ schema' \ List(proc'[q].version) \subseteq proc'[q].revert
                      /\ List(proc'[q].version) \ schema' \subseteq proc'[q].apply
    BY DEF Planned, List
  <2>1. /\ q \notin disturbed /\ proc[q].pc \in {"migrate", "serving"}
        /\ proc'[q].version = proc[q].version
        /\ q # p => proc'[q] = proc[q]
        /\ q = p => proc'[q].revert = proc[q].revert \ {i} /\ proc'[q].apply = proc[q].apply \ {i}
    BY <1>1 DEF v
  <2>2. /\ schema \ List(proc[q].version) \subseteq proc[q].revert
        /\ List(proc[q].version) \ schema \subseteq proc[q].apply
    BY <2>1 DEF IInv, Planned
  <2>3. schema' = schema \/ proc[q].version = v
    BY <1>1, <2>1
  <2>4. i \notin schema' /\ (schema' = schema \/ i \notin List(proc[q].version))
    BY <2>3, <1>3
  <2>5. q = p => i \notin List(proc[q].version)
    BY <1>3 DEF v
  <2> QED
    BY <2>1, <2>2, <2>4, <2>5, <1>3
<1>6. Unmixed'
  <2> SUFFICES ASSUME ~mixed PROVE Uniform' /\ Abstract!Gapless(schema')
    BY <1>1 DEF Unmixed
  <2>1. CASE i \in schema
    BY <2>1, RevertsLast, <1>1 DEF IInv, Unmixed, Abstract!Gapless
  <2>2. CASE i \notin schema
    <3>1. schema' = schema
      BY <2>2, <1>3
    <3> QED
      BY <3>1, <1>1 DEF IInv, Unmixed
  <2> QED
    BY <2>1, <2>2
<1>7. Race'
  <2> SUFFICES ASSUME ~fault'
               PROVE Uniform' /\ (\A q \in Procs : proc'[q].pc = "migrate" => InOrder(q)')
                              /\ (won' \/ \E q \in Procs : Leads(q)')
    BY DEF Race
  <2>1. /\ ~fault /\ Uniform /\ proc'[p].pc = "migrate" /\ proc'[p].version = v
        /\ proc'[p].revert = proc[p].revert \ {i} /\ proc'[p].apply = proc[p].apply \ {i}
        /\ p \notin disturbed
    BY <1>1 DEF IInv, Race, Uniform, Migrating
  <2>2. schema \ List(v) \subseteq proc[p].revert /\ List(v) \ schema \subseteq proc[p].apply
    BY <2>1, <1>1 DEF IInv, Planned, v
  <2>3. ASSUME NEW q \in Procs, proc'[q].pc = "migrate" PROVE InOrder(q)'
    <3>1. /\ proc'[q].revert \subseteq proc[q].revert /\ proc'[q].apply \subseteq proc[q].apply
          /\ proc[q].version = v /\ proc'[q].version = v /\ proc[q].pc = "migrate"
      BY <1>1, <2>1, <2>3 DEF Uniform, Migrating, v
    <3>2. /\ InOrder(q) /\ proc[q].revert \intersect List(v) = {} /\ proc[q].apply \subseteq List(v)
          /\ proc[q].revert \subseteq 1 .. Last
      BY <3>1, <2>1 DEF IInv, Race, Plans, TypeOK
    <3>3. /\ \A j \in proc[q].apply \intersect schema : \A k \in proc[q].apply : k < j => k \in schema
          /\ \A j \in proc[q].revert \ schema : \A k \in proc[q].revert : j < k => k \notin schema
          /\ schema \ List(v) # {} => proc[q].apply \intersect schema = {}
      BY <3>1, <3>2 DEF InOrder
    <3>4. \A j \in proc'[q].apply \intersect schema' : \A k \in proc'[q].apply : k < j => k \in schema'
      BY <3>1, <3>2, <3>3, <1>3
    <3>5. \A j \in proc'[q].revert \ schema' : \A k \in proc'[q].revert : j < k => k \notin schema'
      <4> SUFFICES ASSUME NEW j \in proc[q].revert, j \notin schema', NEW k \in proc[q].revert, j < k, k \in schema'
                   PROVE  FALSE
        BY <3>1
      <4>1. k \in schema \ List(v)
        BY <1>3, <3>2
      <4>2. k <= i
        BY <4>1, <2>2, <1>3
      <4>3. j # i
        BY <4>2, <3>2
      <4> QED
        BY <4>1, <4>3, <3>3, <1>3
    <3>6. schema' \ List(v) # {} => proc'[q].apply \intersect schema' = {}
      BY <3>1, <3>3, <1>3
    <3> QED
      BY <3>1, <3>4, <3>5, <3>6 DEF InOrder, List
  <2>4. won' \/ \E q \in Procs : Leads(q)'
    <3>1. CASE i \in schema
      <4>1. InOrder(p) /\ proc[p].apply \subseteq List(v) /\ proc[p].revert \intersect List(v) = {}
        BY <2>1, <1>1 DEF IInv, Race, Plans, v
      <4>2. proc[p].apply \intersect schema = {}
        BY <4>1, <3>1, <1>3 DEF InOrder, v
      <4>3. \A j \in proc[p].revert : j \in schema
        <5> SUFFICES ASSUME NEW j \in proc[p].revert, j \notin schema PROVE FALSE
          OBVIOUS
        <5>1. j \in 1 .. Last /\ j <= i /\ j # i
          BY <1>3, <3>1 DEF IInv, TypeOK
        <5>2. j < i
          BY <5>1
        <5> QED
          BY <5>2, <4>1, <3>1, <1>3 DEF InOrder
      <4>4. proc'[p].revert = schema' \ List(v) /\ proc'[p].apply = List(v) \ schema'
        BY <2>1, <2>2, <4>1, <4>2, <4>3, <1>3
      <4> QED
        BY <4>4, <2>1 DEF Leads, List
    <3>2. CASE i \notin schema
      <4>1. schema' = schema
        BY <3>2, <1>3
      <4>2. ~Leads(p)
        BY <3>2, <1>1, <1>3 DEF Leads
      <4>3. won \/ \E q \in Procs : q # p /\ Leads(q)
        BY <4>2, <2>1 DEF IInv, Race
      <4> QED
        BY <4>1, <4>3, <1>1 DEF Leads, List
    <3> QED
      BY <3>1, <3>2
  <2> QED
    BY <2>1, <2>3, <2>4, <1>1
<1> QED
  BY <1>2, <1>4, <1>5, <1>6, <1>7 DEF IInv
\* Applying keeps the invariant: the first of p's missing migrations is the first
\* one of everybody's plan that is not in effect.
LEMMA ApplyInv ==
  ASSUME IInv, NEW p \in Procs, NEW i \in 1 .. Last, Apply(p, i)
  PROVE  IInv'
<1> DEFINE v == proc[p].version
<1>1. /\ \A q \in Procs : q # p => proc'[q] = proc[q]
      /\ proc[p].pc = "migrate" /\ v \in Versions
      /\ \/ /\ proc'[p].pc = "migrate" /\ proc'[p].version = v
            /\ proc'[p].revert = proc[p].revert \ {i}
            /\ proc'[p].apply = proc[p].apply \ {i}
            /\ UNCHANGED fault
         \/ /\ proc'[p].pc = "down" /\ proc'[p].revert = {} /\ proc'[p].apply = {}
            /\ fault'
      /\ UNCHANGED <<table, mixed, won>>
      /\ disturbed \subseteq disturbed'
      /\ \A q \in Procs :
           /\ schema' # schema /\ proc[q].pc \in {"migrate", "serving"}
           /\ q \notin disturbed'
           => proc[q].version = v
      /\ Uniform => Uniform'
  BY CommitFrame
<1>2. TypeOK' /\ RecordsMatch'
  BY CommitFrame
<1>3. /\ schema' = schema \union {i} /\ i \in proc[p].apply /\ i \in List(v)
      /\ i \notin schema /\ proc[p].revert = {}
      /\ \A j \in proc[p].apply : i <= j
  BY DEF Apply, IsFirst, IInv, Plans, RecordsMatch
<1> HIDE DEF v
<1>4. Plans'
  BY <1>1, <1>2 DEF IInv, Plans, v, List, TypeOK
<1>5. Planned'
  <2> SUFFICES ASSUME NEW q \in Procs, proc'[q].pc \in {"migrate", "serving"}, q \notin disturbed'
               PROVE  /\ schema' \ List(proc'[q].version) \subseteq proc'[q].revert
                      /\ List(proc'[q].version) \ schema' \subseteq proc'[q].apply
    BY DEF Planned, List
  <2>1. /\ q \notin disturbed /\ proc[q].pc \in {"migrate", "serving"}
        /\ proc'[q].version = proc[q].version
        /\ q # p => proc'[q] = proc[q]
        /\ q = p => proc'[q].revert = proc[q].revert \ {i} /\ proc'[q].apply = proc[q].apply \ {i}
    BY <1>1 DEF v
  <2>2. /\ schema \ List(proc[q].version) \subseteq proc[q].revert
        /\ List(proc[q].version) \ schema \subseteq proc[q].apply
    BY <2>1 DEF IInv, Planned
  <2>3. proc[q].version = v
    BY <1>1, <1>3, <2>1
  <2> QED
    BY <2>1, <2>2, <2>3, <1>3
<1>6. Unmixed'
  <2> SUFFICES ASSUME ~mixed PROVE Uniform' /\ Abstract!Gapless(schema')
    BY <1>1 DEF Unmixed
  <2> QED
    BY AppliesNext, <1>1 DEF IInv, Unmixed, Abstract!Gapless
<1>7. Race'
  <2> SUFFICES ASSUME ~fault'
               PROVE Uniform' /\ (\A q \in Procs : proc'[q].pc = "migrate" => InOrder(q)')
                              /\ (won' \/ \E q \in Procs : Leads(q)')
    BY DEF Race
  <2>1. /\ ~fault /\ Uniform /\ proc'[p].pc = "migrate" /\ proc'[p].version = v
        /\ proc'[p].revert = proc[p].revert \ {i} /\ proc'[p].apply = proc[p].apply \ {i}
        /\ p \notin disturbed
    BY <1>1 DEF IInv, Race, Uniform, Migrating
  <2>2. schema \ List(v) \subseteq proc[p].revert /\ List(v) \ schema \subseteq proc[p].apply
    BY <2>1, <1>1 DEF IInv, Planned, v
  <2>3. ASSUME NEW q \in Procs, proc'[q].pc = "migrate" PROVE InOrder(q)'
    <3>1. /\ proc'[q].revert \subseteq proc[q].revert /\ proc'[q].apply \subseteq proc[q].apply
          /\ proc[q].version = v /\ proc'[q].version = v /\ proc[q].pc = "migrate"
      BY <1>1, <2>1, <2>3 DEF Uniform, Migrating, v
    <3>2. /\ InOrder(q) /\ proc[q].revert \intersect List(v) = {} /\ proc[q].apply \subseteq List(v)
          /\ proc[q].revert \subseteq 1 .. Last
      BY <3>1, <2>1 DEF IInv, Race, Plans, TypeOK
    <3>3. /\ \A j \in proc[q].apply \intersect schema : \A k \in proc[q].apply : k < j => k \in schema
          /\ \A j \in proc[q].revert \ schema : \A k \in proc[q].revert : j < k => k \notin schema
          /\ schema \ List(v) # {} => proc[q].apply \intersect schema = {}
      BY <3>1, <3>2 DEF InOrder
    <3>4. \A j \in proc'[q].apply \intersect schema' : \A k \in proc'[q].apply : k < j => k \in schema'
      <4> SUFFICES ASSUME NEW j \in proc[q].apply, j \in schema', NEW k \in proc[q].apply, k < j, k \notin schema'
                   PROVE  FALSE
        BY <3>1
      <4>1. k \in List(v) \ schema
        BY <1>3, <3>2
      <4>2. i <= k
        BY <4>1, <2>2, <1>3
      <4>3. j # i
        BY <4>1, <4>2 DEF List
      <4> QED
        BY <4>1, <4>3, <3>3, <1>3
    <3>5. \A j \in proc'[q].revert \ schema' : \A k \in proc'[q].revert : j < k => k \notin schema'
      BY <3>1, <3>2, <3>3, <1>3
    <3>6. schema' \ List(v) = {}
      BY <2>2, <1>3
    <3> QED
      BY <3>1, <3>4, <3>5, <3>6 DEF InOrder, List
  <2>4. won' \/ \E q \in Procs : Leads(q)'
    <3>1. InOrder(p) /\ proc[p].apply \subseteq List(v)
      BY <2>1, <1>1 DEF IInv, Race, Plans, v
    <3>2. \A j \in proc[p].apply : j \notin schema
      <4> SUFFICES ASSUME NEW j \in proc[p].apply, j \in schema PROVE FALSE
        OBVIOUS
      <4>1. i < j
        BY <1>3, <3>1 DEF List
      <4> QED
        BY <4>1, <3>1, <1>3 DEF InOrder
    <3>3. proc'[p].revert = schema' \ List(v) /\ proc'[p].apply = List(v) \ schema'
      BY <2>1, <2>2, <3>1, <3>2, <1>3
    <3> QED
      BY <3>3, <2>1 DEF Leads, List
  <2> QED
    BY <2>1, <2>3, <2>4, <1>1
<1> QED
  BY <1>2, <1>4, <1>5, <1>6, <1>7 DEF IInv

-------------------------------------------------------------------------------
\* Every step of every process keeps the invariant.
LEMMA NextInv == IInv /\ [Next]_vars => IInv'
<1> SUFFICES ASSUME IInv, [Next]_vars PROVE IInv'
  OBVIOUS
<1>1. CASE UNCHANGED vars
  <2>1. /\ TypeOK' /\ RecordsMatch' /\ Plans'
    BY <1>1 DEF vars, IInv, TypeOK, RecordsMatch, Plans, List
  <2>2. Planned'
    BY <1>1 DEF vars, IInv, Planned, List
  <2>3. Uniform => Uniform'
    BY <1>1 DEF vars, Uniform, Migrating
  <2>4. Unmixed' /\ Race'
    BY <1>1, <2>3 DEF vars, IInv, Unmixed, Race, InOrder, Leads, List
  <2> QED
    BY <2>1, <2>2, <2>4 DEF IInv
<1>2. ASSUME NEW p \in Procs, Step(p) PROVE IInv'
  <2>b. fault \in BOOLEAN
    BY DEF IInv, TypeOK
  <2>1. CASE \E v \in Versions : Start(p, v)
    BY <2>1, StartInv
  <2>2. CASE Die(p)
    BY <2>2, <2>b, StopInv DEF Die, Leads, Migrating
  <2>3. CASE StatementFails(p)
    BY <2>3, StopInv DEF StatementFails
  <2>4. CASE CheckTable(p) \/ ReadRecords(p) \/ (CreateTable(p) /\ ~table)
    BY <2>4, PrepareInv
  <2>5. CASE CreateTable(p) /\ table
    <3>1. table' = table
      BY <2>5 DEF CreateTable, IInv, TypeOK
    <3> QED
      BY <2>5, <2>b, <3>1, StopInv DEF CreateTable, Leads
  <2>6. CASE Serve(p)
    BY <2>6, ServeInv
  <2>7. ASSUME NEW i \in 1 .. Last, RevertFails(p, i) PROVE IInv'
    <3>1. ~Leads(p)
      BY <2>7 DEF RevertFails, IsLast, Leads
    <3> QED
      BY <2>7, <2>b, <3>1, StopInv DEF RevertFails
  <2>8. ASSUME NEW i \in 1 .. Last, ApplyFails(p, i) PROVE IInv'
    <3>1. ~Leads(p)
      BY <2>8 DEF ApplyFails, IsFirst, Leads, IInv, RecordsMatch
    <3> QED
      BY <2>8, <2>b, <3>1, StopInv DEF ApplyFails
  <2> QED
    BY <1>2, <2>1, <2>2, <2>3, <2>4, <2>5, <2>6, <2>7, <2>8, RevertInv, ApplyInv
       DEF Step, MigrateStep
<1> QED
  BY <1>1, <1>2 DEF Next

\* The inductive invariant holds always.
LEMMA Invariance == Spec => []IInv
BY InitInv, NextInv, PTL DEF Spec

-------------------------------------------------------------------------------
\* The types hold, for every number of processes, migrations and versions.
THEOREM TypeCorrect == Spec => []TypeOK
<1>1. IInv => TypeOK
  BY DEF IInv
<1> QED
  BY <1>1, Invariance, PTL

\* Migrate never lets the table of migrations and the schema differ, at no
\* point between transactions, whoever dies or races.
THEOREM RecordsAlwaysMatch == Spec => []RecordsMatch
<1>1. IInv => RecordsMatch
  BY DEF IInv
<1> QED
  BY <1>1, Invariance, PTL

\* A node that serves and was not disturbed by another version has exactly the
\* schema of its version.
THEOREM ServesItsSchema == Spec => []ServesOwnSchema
<1>1. IInv => ServesOwnSchema
  <2> SUFFICES ASSUME IInv, NEW p \in Procs, proc[p].pc = "serving", p \notin disturbed
               PROVE  schema = List(proc[p].version)
    BY DEF ServesOwnSchema
  <2>1. proc[p].revert = {} /\ proc[p].apply = {}
    BY DEF IInv, Plans
  <2> QED
    BY <2>1, Settled
<1> QED
  BY <1>1, Invariance, PTL

\* A race of any number of nodes of one version, none of which dies and whose
\* statements fail on each other only, leaves one of them serving.
THEOREM RaceIsWon == Spec => []RaceHasWinner
<1>1. IInv => RaceHasWinner
  BY DEF IInv, Race, RaceHasWinner, Leads, Migrating
<1> QED
  BY <1>1, Invariance, PTL

\* Migrate implements the abstract schema: gapless and one migration at a time
\* unless versions overlap.
THEOREM MigrateImplementsSchema == Spec => ImplementsSchema
<1>1. Init => Abstract!Init
  BY DEF Init, Abstract!Init
<1>2. IInv /\ [Next]_vars => [Abstract!Next]_(Abstract!vars)
  <2> SUFFICES ASSUME IInv, [Next]_vars PROVE [Abstract!Next]_(Abstract!vars)
    OBVIOUS
  <2>1. CASE UNCHANGED vars
    BY <2>1 DEF vars, Abstract!vars
  <2>2. ASSUME NEW p \in Procs, NEW v \in Versions, Start(p, v) PROVE [Abstract!Next]_(Abstract!vars)
    <3>1. UNCHANGED schema /\ (mixed' = mixed \/ mixed' = TRUE)
      BY <2>2 DEF Start, database, IInv, TypeOK
    <3> QED
      BY <3>1 DEF Abstract!Next, Abstract!Overlap, Abstract!vars
  <2>3. ASSUME NEW p \in Procs, Serve(p) PROVE [Abstract!Next]_(Abstract!vars)
    <3>1. CASE p \in disturbed \/ ~mixed
      <4>1. UNCHANGED <<schema, mixed>>
        BY <2>3, <3>1 DEF Serve, IInv, TypeOK
      <4> QED
        BY <4>1 DEF Abstract!vars
    <3>2. CASE p \notin disturbed
      <4>1. UNCHANGED schema /\ (mixed' = mixed \/ mixed' = FALSE)
        BY <2>3 DEF Serve, IInv, TypeOK
      <4>2. Abstract!Gapless(schema)
        BY <2>3, <3>2, Settled DEF Serve
      <4> QED
        BY <4>1, <4>2 DEF Abstract!Next, Abstract!Settle, Abstract!vars
    <3> QED
      BY <3>1, <3>2
  <2>4. ASSUME NEW p \in Procs, NEW i \in 1 .. Last, Revert(p, i) PROVE [Abstract!Next]_(Abstract!vars)
    <3>1. schema' = schema \ {i} /\ UNCHANGED mixed
      BY <2>4 DEF Revert
    <3>2. CASE mixed
      BY <3>1, <3>2 DEF Abstract!Next, Abstract!Move, Abstract!Any
    <3>3. CASE ~mixed /\ i \in schema
      BY <2>4, <3>1, <3>3, RevertsLast DEF Abstract!Next, Abstract!Move, Abstract!Down
    <3>4. CASE i \notin schema
      <4>1. UNCHANGED <<schema, mixed>>
        BY <3>1, <3>4
      <4> QED
        BY <4>1 DEF Abstract!vars
    <3> QED
      BY <3>2, <3>3, <3>4
  <2>5. ASSUME NEW p \in Procs, NEW i \in 1 .. Last, Apply(p, i) PROVE [Abstract!Next]_(Abstract!vars)
    <3>1. schema' = schema \union {i} /\ UNCHANGED mixed
      BY <2>5 DEF Apply
    <3>2. CASE mixed
      BY <3>1, <3>2 DEF Abstract!Next, Abstract!Move, Abstract!Any
    <3>3. CASE ~mixed
      BY <2>5, <3>1, <3>3, AppliesNext DEF Abstract!Next, Abstract!Move, Abstract!Up
    <3> QED
      BY <3>2, <3>3
  <2>6. ASSUME NEW p \in Procs,
               \/ Die(p) \/ StatementFails(p) \/ CheckTable(p) \/ CreateTable(p) \/ ReadRecords(p)
               \/ \E i \in 1 .. Last : RevertFails(p, i) \/ ApplyFails(p, i)
        PROVE  UNCHANGED Abstract!vars
    BY <2>6 DEF Die, StatementFails, CheckTable, CreateTable, ReadRecords, RevertFails,
                ApplyFails, Abstract!vars
  <2> QED
    BY <2>1, <2>2, <2>3, <2>4, <2>5, <2>6 DEF Next, Step, MigrateStep
<1> QED
  BY <1>1, <1>2, Invariance, PTL DEF Spec, ImplementsSchema, Abstract!Spec
===============================================================================

------------------------- MODULE LifecycleStepProofs --------------------------
(* The inductive invariant of Lifecycle, kept by the steps of run, of the
   goroutines that shut down and of inbound connections. *)
EXTENDS Lifecycle, Integers, FiniteSetTheorems, TLAPS

WorkerType == [pc : WorkerPcs, on : Conns \union {NoConn}, to : Conns \union {NoConn}]
JobType == [todo : SUBSET Conns, on : Conns \union {NoConn}]

\* TypeOK, but for the wait groups, of which nothing but arithmetic is known yet.
Shape ==
  /\ main \in Mains
  /\ quit \in BOOLEAN /\ listening \in BOOLEAN /\ proxying \in BOOLEAN
  /\ shutdown \in {"none", "listener", "list", "close", "returned"}
  /\ conn \in [Conns -> ConnPcs]
  /\ up \in [Conns -> BOOLEAN] /\ done \in [Conns -> BOOLEAN]
  /\ wg \in [Conns -> Int]
  /\ worker \in [Workers -> WorkerType]
  /\ job \in [Closers -> JobType]

\* Which connections a goroutine has at each of its steps.
Fits(r) ==
  /\ r.pc \in {"none", "greeting", "bridge"} => r.on = NoConn
  /\ r.pc \in {"session", "kicking"} => r.on \in Conns
  /\ r.pc \in {"opening", "answered", "tunnel", "bridge"} => r.to \in Conns

Placed == \A w \in Workers : Fits(worker[w])

\* The tokens a worker has in the wait group of c: one if c is its connection,
\* one if its tunnel leads to c and is open.
Own(c, r) == IF r.on = c THEN 1 ELSE 0
Led(c, r) == IF r.to = c /\ r.pc \in {"tunnel", "bridge"} THEN 1 ELSE 0
Owners(c) == {w \in Workers : worker[w].on = c}
Leaders(c) == {w \in Workers : worker[w].to = c /\ worker[w].pc \in {"tunnel", "bridge"}}
Load(c) == Cardinality(Owners(c)) + Cardinality(Leaders(c))
Handler(pc) == IF pc \in {"run", "deleted"} THEN 1 ELSE 0

\* A wait group is the number of goroutines that will call Done on it.
Counted == \A c \in Conns : wg[c] = Load(c) + Handler(conn[c])

\* Only connections that have been published are closed.
Reached ==
  \A k \in Closers : \A c \in Conns :
    c \in job[k].todo \/ job[k].on = c => conn[c] \in {"run", "deleted", "ended"}

\* Who is not closing connections has none to close; Close is not called before
\* the main loop has ended.
JobsIdle ==
  /\ main \in {"select", "scavenge"} => shutdown = "none"
  /\ main \in {"select", "wait"} => job["main"].todo = {} /\ job["main"].on = NoConn
  /\ shutdown # "close" => job["shutdown"].todo = {} /\ job["shutdown"].on = NoConn
  /\ \A w \in Workers :
       worker[w].pc # "kicking" => job[w].todo = {} /\ job[w].on = NoConn

\* From the second Close on nobody connects any more, and what is still listed
\* is still to be closed.
Ending ==
  main \in {"closeAgain", "returned"} =>
    /\ ~listening /\ ~proxying /\ ~ProxiesServe
    /\ \A c \in Conns :
         /\ conn[c] # "handshake"
         /\ conn[c] = "run" =>
              main = "closeAgain" /\ (c \in job["main"].todo \/ job["main"].on = c)

IInv == Shape /\ Placed /\ Counted /\ Reached /\ JobsIdle /\ Ending

-------------------------------------------------------------------------------
\* The record constructors of Lifecycle and their fields.
LEMMA Records ==
  /\ \A pc \in WorkerPcs, c \in Conns \union {NoConn}, t \in Conns \union {NoConn} :
       /\ Worker(pc, c, t) \in WorkerType
       /\ Worker(pc, c, t).pc = pc /\ Worker(pc, c, t).on = c /\ Worker(pc, c, t).to = t
  /\ NoWorker \in WorkerType
  /\ NoWorker.pc = "none" /\ NoWorker.on = NoConn /\ NoWorker.to = NoConn
  /\ \A todo \in SUBSET Conns, c \in Conns \union {NoConn} :
       /\ Job(todo, c) \in JobType
       /\ Job(todo, c).todo = todo /\ Job(todo, c).on = c
  /\ NoJob \in JobType /\ NoJob.todo = {} /\ NoJob.on = NoConn
  BY DEF Worker, NoWorker, Job, NoJob, WorkerType, JobType, WorkerPcs

\* The load of a connection is a number, as there are finitely many workers.
LEMMA LoadType ==
  ASSUME NEW c \in Conns
  PROVE  /\ IsFiniteSet(Owners(c)) /\ IsFiniteSet(Leaders(c))
         /\ Cardinality(Owners(c)) \in Nat /\ Cardinality(Leaders(c)) \in Nat
         /\ Load(c) \in Nat
  <1>1. Owners(c) \in SUBSET Workers /\ Leaders(c) \in SUBSET Workers
    BY DEF Owners, Leaders
  <1>2. IsFiniteSet(Owners(c)) /\ IsFiniteSet(Leaders(c))
    BY <1>1, FS_Subset, LifecycleAssumption
  <1> QED BY <1>2, FS_CardinalityType DEF Load

\* What replacing one worker does to the load of a connection.
LEMMA LoadChanges ==
  ASSUME Shape, NEW w \in Workers, NEW r \in WorkerType,
         worker' = [worker EXCEPT ![w] = r], NEW c \in Conns
  PROVE  Load(c)' = Load(c) - Own(c, worker[w]) - Led(c, worker[w]) + Own(c, r) + Led(c, r)
  <1>1. worker \in [Workers -> WorkerType]
    BY DEF Shape
  <1>2. /\ r.on = c => Owners(c)' = Owners(c) \union {w}
        /\ r.on # c => Owners(c)' = Owners(c) \ {w}
        /\ w \in Owners(c) <=> worker[w].on = c
    BY <1>1 DEF Owners
  <1>3. /\ r.to = c /\ r.pc \in {"tunnel", "bridge"} => Leaders(c)' = Leaders(c) \union {w}
        /\ ~(r.to = c /\ r.pc \in {"tunnel", "bridge"}) => Leaders(c)' = Leaders(c) \ {w}
        /\ w \in Leaders(c) <=> worker[w].to = c /\ worker[w].pc \in {"tunnel", "bridge"}
    BY <1>1 DEF Leaders
  <1>4. Cardinality(Owners(c))' = Cardinality(Owners(c)) - Own(c, worker[w]) + Own(c, r)
    <2>1. /\ Cardinality(Owners(c)) \in Nat
          /\ Cardinality(Owners(c) \union {w}) = IF w \in Owners(c) THEN Cardinality(Owners(c))
                                               ELSE Cardinality(Owners(c)) + 1
          /\ Cardinality(Owners(c) \ {w}) = IF w \in Owners(c) THEN Cardinality(Owners(c)) - 1
                                           ELSE Cardinality(Owners(c))
      BY LoadType, FS_AddElement, FS_RemoveElement
    <2>2. Own(c, worker[w]) = IF w \in Owners(c) THEN 1 ELSE 0
      BY <1>2 DEF Own
    <2>3. CASE r.on = c
      <3>1. Cardinality(Owners(c))' = Cardinality(Owners(c) \union {w}) /\ Own(c, r) = 1
        BY <1>2, <2>3 DEF Own
      <3> QED BY <2>1, <2>2, <3>1
    <2>4. CASE ~(r.on = c)
      <3>1. Cardinality(Owners(c))' = Cardinality(Owners(c) \ {w}) /\ Own(c, r) = 0
        BY <1>2, <2>4 DEF Own
      <3> QED BY <2>1, <2>2, <3>1
    <2> QED BY <2>3, <2>4
  <1>5. Cardinality(Leaders(c))' = Cardinality(Leaders(c)) - Led(c, worker[w]) + Led(c, r)
    <2>1. /\ Cardinality(Leaders(c)) \in Nat
          /\ Cardinality(Leaders(c) \union {w}) = IF w \in Leaders(c) THEN Cardinality(Leaders(c))
                                               ELSE Cardinality(Leaders(c)) + 1
          /\ Cardinality(Leaders(c) \ {w}) = IF w \in Leaders(c) THEN Cardinality(Leaders(c)) - 1
                                           ELSE Cardinality(Leaders(c))
      BY LoadType, FS_AddElement, FS_RemoveElement
    <2>2. Led(c, worker[w]) = IF w \in Leaders(c) THEN 1 ELSE 0
      BY <1>3 DEF Led
    <2>3. CASE r.to = c /\ r.pc \in {"tunnel", "bridge"}
      <3>1. Cardinality(Leaders(c))' = Cardinality(Leaders(c) \union {w}) /\ Led(c, r) = 1
        BY <1>3, <2>3 DEF Led
      <3> QED BY <2>1, <2>2, <3>1
    <2>4. CASE ~(r.to = c /\ r.pc \in {"tunnel", "bridge"})
      <3>1. Cardinality(Leaders(c))' = Cardinality(Leaders(c) \ {w}) /\ Led(c, r) = 0
        BY <1>3, <2>4 DEF Led
      <3> QED BY <2>1, <2>2, <3>1
    <2> QED BY <2>3, <2>4
  <1>6. /\ Own(c, worker[w]) \in Int /\ Own(c, r) \in Int
        /\ Led(c, worker[w]) \in Int /\ Led(c, r) \in Int
    BY DEF Own, Led
  <1> QED BY <1>4, <1>5, <1>6, LoadType DEF Load

\* Run starts with no goroutine but its own.
LEMMA InitInv == Init => IInv
  <1> SUFFICES ASSUME Init PROVE IInv
    OBVIOUS
  <1>1. Shape
    <2>1. worker \in [Workers -> WorkerType] /\ job \in [Closers -> JobType]
      BY Records DEF Init
    <2>2. /\ conn \in [Conns -> ConnPcs] /\ wg \in [Conns -> Int]
          /\ up \in [Conns -> BOOLEAN] /\ done \in [Conns -> BOOLEAN]
      BY DEF Init, ConnPcs
    <2> QED BY <2>1, <2>2 DEF Init, Shape, Mains
  <1>2. /\ \A w \in Workers : worker[w].pc = "none" /\ worker[w].on = NoConn
        /\ \A k \in Closers : job[k].todo = {} /\ job[k].on = NoConn
    BY Records DEF Init
  <1>3. Placed /\ Reached /\ JobsIdle /\ Ending
    BY <1>2, LifecycleAssumption DEF Init, Placed, Fits, Reached, JobsIdle, Ending, Closers
  <1>4. ASSUME NEW c \in Conns PROVE wg[c] = Load(c) + Handler(conn[c])
    <2>1. Owners(c) = {} /\ Leaders(c) = {}
      BY <1>2, LifecycleAssumption DEF Owners, Leaders
    <2> QED BY <2>1, FS_EmptySet DEF Init, Load, Handler
  <1> QED BY <1>1, <1>3, <1>4 DEF IInv, Counted

-------------------------------------------------------------------------------
\* What does not change keeps what is said about it.
LEMMA Frame ==
  /\ Placed /\ UNCHANGED worker => Placed'
  /\ Counted /\ UNCHANGED <<wg, conn, worker>> => Counted'
  /\ Reached /\ UNCHANGED <<conn, job>> => Reached'
  /\ UNCHANGED worker => (ProxiesServe' <=> ProxiesServe)
  <1>1. UNCHANGED worker => \A c \in Conns : Load(c)' = Load(c)
    BY DEF Load, Owners, Leaders
  <1> QED BY <1>1 DEF Placed, Counted, Reached, ProxiesServe

\* Deadline leaves nothing.
LEMMA DeadlineInv ==
  ASSUME IInv, Deadline
  PROVE  IInv'
  <1>1. /\ main' = "killed" /\ shutdown' = "none"
        /\ \A w \in Workers : worker'[w] = NoWorker
        /\ \A k \in Closers : job'[k] = NoJob
        /\ \A c \in Conns : conn'[c] = "ended" /\ wg'[c] = 0
    BY DEF Deadline
  <1>2. Shape'
    <2>1. worker' \in [Workers -> WorkerType] /\ job' \in [Closers -> JobType]
      BY Records DEF Deadline
    <2>2. /\ conn' \in [Conns -> ConnPcs] /\ wg' \in [Conns -> Int]
          /\ up' \in [Conns -> BOOLEAN] /\ done' \in [Conns -> BOOLEAN]
      BY DEF Deadline, ConnPcs
    <2> QED BY <2>1, <2>2 DEF Deadline, Shape, IInv, Mains
  <1>3. Placed' /\ Reached' /\ JobsIdle' /\ Ending'
    BY <1>1, Records, LifecycleAssumption DEF Placed, Fits, Reached, JobsIdle, Ending, Closers
  <1>4. ASSUME NEW c \in Conns PROVE wg'[c] = Load(c)' + Handler(conn'[c])
    <2>1. Owners(c)' = {} /\ Leaders(c)' = {}
      BY <1>1, Records, LifecycleAssumption DEF Owners, Leaders
    <2> QED BY <1>1, <2>1, FS_EmptySet DEF Load, Handler
  <1> QED BY <1>2, <1>3, <1>4 DEF IInv, Counted

\* The steps of run keep IInv.
LEMMA RunInv ==
  ASSUME IInv, RunStep
  PROVE  IInv'
  <1> USE DEF IInv
  <1>1. CASE Signal \/ ScavengeEnds \/ Quit \/ RunReturns
    <2>1. UNCHANGED <<listening, proxying, conn, up, done, wg, worker, job>>
      BY <1>1 DEF Signal, ScavengeEnds, Quit, RunReturns
    <2>2. Shape'
      BY <1>1, <2>1 DEF Signal, ScavengeEnds, Quit, RunReturns, Shape, Mains
    <2>3. Placed' /\ Counted' /\ Reached'
      BY <2>1, Frame
    <2>4. JobsIdle'
      BY <1>1, <2>1, Records DEF Signal, ScavengeEnds, Quit, RunReturns, JobsIdle
    <2>5. Ending'
      BY <1>1, <2>1, Frame, Records, LifecycleAssumption
      DEF Signal, ScavengeEnds, Quit, RunReturns, Ending
    <2> QED BY <2>2, <2>3, <2>4, <2>5
  <1>2. CASE Scavenge \/ WaitReturns
    <2>1. PICK todo \in SUBSET Listed : job' = [job EXCEPT !["main"] = Job(todo, NoConn)]
      BY <1>2 DEF Scavenge, WaitReturns
    <2>2. UNCHANGED <<quit, listening, proxying, shutdown, conn, up, done, wg, worker>>
      BY <1>2 DEF Scavenge, WaitReturns
    <2>3. /\ todo \in SUBSET Conns /\ \A c \in todo : conn[c] = "run"
          /\ job' \in [Closers -> JobType]
          /\ job'["main"].todo = todo /\ job'["main"].on = NoConn
          /\ \A k \in Closers : k # "main" => job'[k] = job[k]
      BY <2>1, Records DEF Listed, Shape, Closers
    <2>4. Shape'
      BY <1>2, <2>2, <2>3 DEF Scavenge, WaitReturns, Shape, Mains
    <2>5. Placed' /\ Counted'
      BY <2>2, Frame
    <2>6. Reached'
      BY <2>2, <2>3, LifecycleAssumption DEF Reached
    <2>7. JobsIdle'
      BY <1>2, <2>2, <2>3, LifecycleAssumption DEF Scavenge, WaitReturns, JobsIdle, Closers
    <2>8. Ending'
      <3>1. CASE Scavenge
        BY <3>1 DEF Scavenge, Ending
      <3>2. CASE WaitReturns
        <4>1. job'["main"].todo = Listed
          BY <3>2, Records DEF WaitReturns, Shape, Closers, Listed
        <4> QED BY <3>2, <4>1, <2>2, Frame DEF WaitReturns, Ending, Listed
      <3> QED BY <1>2, <3>1, <3>2
    <2> QED BY <2>4, <2>5, <2>6, <2>7, <2>8
  <1> QED BY <1>1, <1>2, DeadlineInv DEF RunStep

\* The steps of the goroutines that shut down keep IInv.
LEMMA ShutdownInv ==
  ASSUME IInv, ShutdownStep
  PROVE  IInv'
  <1> USE DEF IInv
  <1>1. CASE CloseListener \/ CloseEnds \/ CloseProxies
    <2>1. UNCHANGED <<main, quit, conn, up, done, wg, worker, job>>
      BY <1>1 DEF CloseListener, CloseEnds, CloseProxies
    <2>2. Shape'
      BY <1>1, <2>1 DEF CloseListener, CloseEnds, CloseProxies, Shape
    <2>3. Placed' /\ Counted' /\ Reached'
      BY <2>1, Frame
    <2>4. JobsIdle'
      BY <1>1, <2>1, Records DEF CloseListener, CloseEnds, CloseProxies, JobsIdle
    <2>5. Ending'
      BY <1>1, <2>1, Frame DEF CloseListener, CloseEnds, CloseProxies, Ending
    <2> QED BY <2>2, <2>3, <2>4, <2>5
  <1>2. CASE CloseLists
    <2>1. UNCHANGED <<main, quit, listening, proxying, conn, up, done, wg, worker>>
      BY <1>2 DEF CloseLists
    <2>2. /\ Listed \in SUBSET Conns /\ \A c \in Listed : conn[c] = "run"
          /\ job' \in [Closers -> JobType]
          /\ job'["shutdown"].todo = Listed /\ job'["shutdown"].on = NoConn
          /\ \A k \in Closers : k # "shutdown" => job'[k] = job[k]
      BY <1>2, Records DEF CloseLists, Listed, Shape, Closers
    <2>3. Shape'
      BY <1>2, <2>1, <2>2 DEF CloseLists, Shape
    <2>4. Placed' /\ Counted'
      BY <2>1, Frame
    <2>5. Reached'
      BY <2>1, <2>2, LifecycleAssumption DEF Reached
    <2>6. JobsIdle'
      BY <1>2, <2>1, <2>2, LifecycleAssumption DEF CloseLists, JobsIdle, Closers
    <2>7. Ending'
      BY <2>1, <2>2, Frame DEF Ending, Closers
    <2> QED BY <2>3, <2>4, <2>5, <2>6, <2>7
  <1> QED BY <1>1, <1>2 DEF ShutdownStep

\* The steps of connection.close keep IInv; the one that returns finds the count
\* at zero, so that the handler has ended.
LEMMA CloserInv ==
  ASSUME IInv, NEW k \in Closers, CloserStep(k)
  PROVE  IInv'
  <1> USE DEF IInv
  <1>1. ASSUME NEW c \in Conns, CloseConnection(k, c) PROVE IInv'
    <2>1. UNCHANGED <<main, quit, listening, proxying, shutdown, conn, up, wg, worker>>
      BY <1>1 DEF CloseConnection
    <2>2. /\ job' \in [Closers -> JobType]
          /\ job'[k].todo = job[k].todo \ {c} /\ job'[k].on = c
          /\ \A j \in Closers : j # k => job'[j] = job[j]
      <3>1. job \in [Closers -> JobType] /\ job[k].todo \ {c} \in SUBSET Conns
        BY DEF Shape, JobType
      <3>2. job' = [job EXCEPT ![k] = Job(job[k].todo \ {c}, c)]
        BY <1>1 DEF CloseConnection
      <3> QED BY <3>1, <3>2, Records
    <2>3. done' \in [Conns -> BOOLEAN]
      BY <1>1 DEF CloseConnection, Shape
    <2>4. Shape'
      BY <2>1, <2>2, <2>3 DEF Shape
    <2>5. Placed' /\ Counted'
      BY <2>1, Frame
    <2>6. Reached'
      <3>1. c \in job[k].todo /\ Reached
        BY <1>1 DEF CloseConnection
      <3> QED BY <2>1, <2>2, <3>1 DEF Reached
    <2>7. JobsIdle'
      BY <1>1, <2>1, <2>2 DEF CloseConnection, JobsIdle, Closers
    <2>8. Ending'
      <3>1. \A d \in Conns : d \in job["main"].todo \/ job["main"].on = d =>
                              d \in job'["main"].todo \/ job'["main"].on = d
        BY <1>1, <2>2, LifecycleAssumption DEF CloseConnection, Closers
      <3> QED BY <2>1, <3>1, Frame DEF Ending
    <2> QED BY <2>4, <2>5, <2>6, <2>7, <2>8
  <1>2. CASE CloseReturns(k)
    <2>1. UNCHANGED <<main, quit, listening, proxying, shutdown, conn, up, done, wg, worker>>
      BY <1>2 DEF CloseReturns
    <2>2. /\ job' \in [Closers -> JobType]
          /\ job'[k].todo = job[k].todo /\ job'[k].on = NoConn
          /\ \A j \in Closers : j # k => job'[j] = job[j]
      <3>1. job \in [Closers -> JobType] /\ job[k].todo \in SUBSET Conns
        BY DEF Shape, JobType
      <3>2. job' = [job EXCEPT ![k] = Job(job[k].todo, NoConn)]
        BY <1>2 DEF CloseReturns
      <3> QED BY <3>1, <3>2, Records
    <2>3. conn[job[k].on] \notin {"run", "deleted"}
      BY <1>2, LoadType DEF CloseReturns, Counted, Handler
    <2>4. Shape'
      BY <2>1, <2>2 DEF Shape
    <2>5. Placed' /\ Counted'
      BY <2>1, Frame
    <2>6. Reached'
      BY <2>1, <2>2, LifecycleAssumption DEF Reached
    <2>7. JobsIdle'
      BY <1>2, <2>1, <2>2 DEF JobsIdle, Closers
    <2>8. Ending'
      BY <2>1, <2>2, <2>3, Frame DEF Ending, Closers
    <2> QED BY <2>4, <2>5, <2>6, <2>7, <2>8
  <1> QED BY <1>1, <1>2 DEF CloserStep

\* The steps of an inbound connection keep IInv.
LEMMA ConnInv ==
  ASSUME IInv, NEW c \in Conns, ConnStep(c)
  PROVE  IInv'
  <1> USE DEF IInv
  <1>1. UNCHANGED <<main, quit, listening, proxying, shutdown, done, worker, job>>
    BY DEF ConnStep, Accept, HandshakeFails, AddConnection, ClientLeaves, HandlerEnds,
           HandlerDone
  <1>2. /\ up' \in [Conns -> BOOLEAN]
        /\ conn' \in [Conns -> ConnPcs]
        /\ wg' \in [Conns -> Int]
        /\ \A d \in Conns : d # c => conn'[d] = conn[d] /\ wg'[d] = wg[d]
    <2>1. /\ up \in [Conns -> BOOLEAN] /\ conn \in [Conns -> ConnPcs]
          /\ wg \in [Conns -> Int]
      BY DEF Shape
    <2>2. \E b \in BOOLEAN : up' = up \/ up' = [up EXCEPT ![c] = b]
      BY DEF ConnStep, Accept, HandshakeFails, AddConnection, ClientLeaves, HandlerEnds,
             HandlerDone
    <2>3. \E pc \in ConnPcs : conn' = conn \/ conn' = [conn EXCEPT ![c] = pc]
      BY DEF ConnStep, Accept, HandshakeFails, AddConnection, ClientLeaves, HandlerEnds,
             HandlerDone, ConnPcs
    <2>4. \/ wg' = wg
          \/ wg' = [wg EXCEPT ![c] = @ + 1]
          \/ wg' = [wg EXCEPT ![c] = @ - 1]
      BY DEF ConnStep, Accept, HandshakeFails, AddConnection, ClientLeaves, HandlerEnds,
             HandlerDone
    <2>5. up' \in [Conns -> BOOLEAN]
      BY <2>1, <2>2
    <2>6. conn' \in [Conns -> ConnPcs] /\ \A d \in Conns : d # c => conn'[d] = conn[d]
      BY <2>1, <2>3
    <2>7. wg' \in [Conns -> Int] /\ \A d \in Conns : d # c => wg'[d] = wg[d]
      BY <2>1, <2>4
    <2> QED BY <2>5, <2>6, <2>7
  <1>3. Shape' /\ Placed'
    BY <1>1, <1>2, Frame DEF Shape
  <1>4. \/ conn[c] \in {"none", "handshake"} /\ conn'[c] \in {"handshake", "ended"} /\ wg'[c] = wg[c]
        \/ conn[c] = "handshake" /\ conn'[c] = "run" /\ wg'[c] = wg[c] + 1
        \/ conn'[c] = conn[c] /\ wg'[c] = wg[c]
        \/ conn[c] = "run" /\ conn'[c] = "deleted" /\ wg'[c] = wg[c]
        \/ conn[c] = "deleted" /\ conn'[c] = "ended" /\ wg'[c] = wg[c] - 1
    BY DEF ConnStep, Accept, HandshakeFails, AddConnection, ClientLeaves, HandlerEnds,
           HandlerDone, Shape
  <1>5. Counted'
    <2>1. \A d \in Conns : Load(d)' = Load(d) /\ Load(d) \in Nat
      BY <1>1, LoadType DEF Load, Owners, Leaders
    <2>2. wg[c] = Load(c) + Handler(conn[c])
      BY DEF Counted
    <2>3. wg'[c] = Load(c) + Handler(conn'[c])
      BY <1>4, <2>1, <2>2 DEF Handler
    <2> QED BY <1>2, <2>1, <2>3 DEF Counted
  <1>6. Reached'
    BY <1>1, <1>2, <1>4 DEF Reached
  <1>7. JobsIdle'
    BY <1>1 DEF JobsIdle
  <1>8. Ending'
    <2>1. conn'[c] = "handshake" => listening \/ conn[c] = "handshake"
      BY DEF ConnStep, Accept, HandshakeFails, AddConnection, ClientLeaves, HandlerEnds,
             HandlerDone, Shape
    <2>2. conn'[c] = "run" => conn[c] \in {"handshake", "run"}
      BY <1>4
    <2> QED BY <1>1, <1>2, <2>1, <2>2, Frame DEF Ending
  <1> QED BY <1>3, <1>5, <1>6, <1>7, <1>8
===============================================================================

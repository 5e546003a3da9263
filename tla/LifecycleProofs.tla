--------------------------- MODULE LifecycleProofs ---------------------------
(* Proofs about Lifecycle, for any connections and any finite number of sessions,
   tunnels and clients of the proxies. *)
EXTENDS LifecycleStepProofs

\* A client of a proxy that run waits for.
Waited(r) == r.on = NoConn /\ r.pc \notin {"none", "bridge"}

\* A step that makes worker w the record r, and accounts for its tokens.
Moves(w, r) ==
  /\ r \in WorkerType /\ Fits(r)
  /\ worker' = [worker EXCEPT ![w] = r]
  /\ wg' \in [Conns -> Int]
  /\ \A c \in Conns :
       wg'[c] = wg[c] - Own(c, worker[w]) - Led(c, worker[w]) + Own(c, r) + Led(c, r)
  /\ Waited(r) => proxying \/ Waited(worker[w])

\* Such a step keeps IInv, if the worker leaves no job behind.
LEMMA MovesInv ==
  ASSUME IInv, NEW w \in Workers, NEW r, Moves(w, r),
         UNCHANGED <<main, quit, listening, proxying, shutdown, conn, up, done>>,
         job' \in [Closers -> JobType],
         \A k \in Closers : k # w => job'[k] = job[k],
         \A c \in Conns : c \in job'[w].todo \/ job'[w].on = c =>
                            conn[c] \in {"run", "deleted", "ended"},
         r.pc # "kicking" => job'[w].todo = {} /\ job'[w].on = NoConn
  PROVE  IInv'
  <1> USE DEF IInv
  <1>1. \A v \in Workers : worker'[v] = IF v = w THEN r ELSE worker[v]
    BY DEF Moves, Shape
  <1>2. Shape'
    BY DEF Moves, Shape
  <1>3. Placed'
    BY <1>1 DEF Moves, Placed
  <1>4. Counted'
    <2> SUFFICES ASSUME NEW c \in Conns PROVE wg'[c] = Load(c)' + Handler(conn[c])
      BY DEF Counted
    <2>1. Load(c)' = Load(c) - Own(c, worker[w]) - Led(c, worker[w]) + Own(c, r) + Led(c, r)
      BY LoadChanges DEF Moves
    <2>2. wg[c] = Load(c) + Handler(conn[c]) /\ Load(c) \in Nat /\ Handler(conn[c]) \in Int
      BY LoadType DEF Counted, Handler
    <2>3. /\ Own(c, worker[w]) \in Int /\ Own(c, r) \in Int
          /\ Led(c, worker[w]) \in Int /\ Led(c, r) \in Int
      BY DEF Own, Led
    <2>4. wg'[c] = wg[c] - Own(c, worker[w]) - Led(c, worker[w]) + Own(c, r) + Led(c, r)
      BY DEF Moves
    <2> QED BY <2>1, <2>2, <2>3, <2>4
  <1>5. Reached'
    BY DEF Reached
  <1>6. JobsIdle'
    BY <1>1, LifecycleAssumption DEF JobsIdle, Closers
  <1>7. Ending'
    <2>1. ~proxying /\ ~ProxiesServe => ~ProxiesServe'
      BY <1>1 DEF ProxiesServe, Moves, Waited
    <2>2. job'["main"] = job["main"]
      BY LifecycleAssumption DEF Closers
    <2> QED BY <2>1, <2>2 DEF Ending
  <1> QED BY <1>2, <1>3, <1>4, <1>5, <1>6, <1>7

\* The steps of sessions, tunnels and clients of the proxies keep IInv.
LEMMA WorkerInv ==
  ASSUME IInv, NEW w \in Workers, WorkerStep(w)
  PROVE  IInv'
  <1>a. /\ NoConn \notin Conns /\ w \in Closers /\ worker[w] \in WorkerType /\ Fits(worker[w])
        /\ worker[w].on \in Conns \union {NoConn} /\ worker[w].to \in Conns \union {NoConn}
        /\ wg \in [Conns -> Int]
    BY LifecycleAssumption DEF IInv, Shape, Closers, Placed, WorkerType
  <1>b. ASSUME NEW r, Moves(w, r), UNCHANGED job,
               worker[w].pc = "kicking" => job[w] = NoJob,
               UNCHANGED <<main, quit, listening, proxying, shutdown, conn, up, done>>
        PROVE  IInv'
    <2>1. job[w].todo = {} /\ job[w].on = NoConn
      BY <1>b, Records DEF IInv, JobsIdle
    <2>2. job' \in [Closers -> JobType] /\ \A k \in Closers : k # w => job'[k] = job[k]
      BY <1>b DEF IInv, Shape
    <2>3. \A c \in Conns : ~(c \in job'[w].todo \/ job'[w].on = c)
      BY <1>a, <1>b, <2>1
    <2>4. job'[w].todo = {} /\ job'[w].on = NoConn
      BY <1>b, <2>1
    <2> QED BY <1>b, <2>2, <2>3, <2>4, MovesInv
  <1>1. ASSUME NEW c \in Conns, StartSession(w, c) PROVE IInv'
    <2>1. Moves(w, Worker("session", c, NoConn))
      <3>1. PICK r \in WorkerType :
              /\ r = Worker("session", c, NoConn)
              /\ r.pc = "session" /\ r.on = c /\ r.to = NoConn
        BY <1>a, Records DEF WorkerPcs
      <3>2. worker' = [worker EXCEPT ![w] = r] /\ worker[w].pc = "none"
        BY <1>1, <3>1 DEF StartSession
      <3>3. /\ wg' \in [Conns -> Int]
            /\ \A x \in Conns : wg'[x] = wg[x] + (IF x = c THEN 1 ELSE 0)
        BY <1>1, <1>a, <3>2 DEF StartSession, Fits
      <3>4. Moves(w, r)
        BY <1>a, <3>1, <3>2, <3>3 DEF Moves, Own, Led, Fits, Waited
      <3> QED BY <3>1, <3>4
    <2>2. /\ UNCHANGED <<main, quit, listening, proxying, shutdown, conn, up, done, job>>
          /\ worker[w].pc = "kicking" => job[w] = NoJob
      BY <1>1 DEF StartSession
    <2> QED BY <1>b, <2>1, <2>2
  <1>2. ASSUME NEW c \in Conns, NEW t \in Conns, StartTunnel(w, c, t) PROVE IInv'
    <2>1. Moves(w, Worker("opening", c, t))
      <3>1. PICK r \in WorkerType :
              r = Worker("opening", c, t) /\ r.pc = "opening" /\ r.on = c /\ r.to = t
        BY <1>a, Records DEF WorkerPcs
      <3>2. worker' = [worker EXCEPT ![w] = r] /\ worker[w].pc = "none"
        BY <1>2, <3>1 DEF StartTunnel
      <3>3. /\ wg' \in [Conns -> Int]
            /\ \A x \in Conns : wg'[x] = wg[x] + (IF x = c THEN 1 ELSE 0)
        BY <1>2, <1>a, <3>2 DEF StartTunnel, Fits
      <3>4. Moves(w, r)
        BY <1>a, <3>1, <3>2, <3>3 DEF Moves, Own, Led, Fits, Waited
      <3> QED BY <3>1, <3>4
    <2>2. /\ UNCHANGED <<main, quit, listening, proxying, shutdown, conn, up, done, job>>
          /\ worker[w].pc = "kicking" => job[w] = NoJob
      BY <1>2 DEF StartTunnel
    <2> QED BY <1>b, <2>1, <2>2
  <1>3. CASE SessionEnds(w)
    <2>1. Moves(w, NoWorker)
      <3>1. PICK r \in WorkerType :
              r = NoWorker /\ r.pc = "none" /\ r.on = NoConn /\ r.to = NoConn
        BY <1>a, Records DEF WorkerPcs
      <3>2. worker' = [worker EXCEPT ![w] = r] /\ worker[w].pc = "session"
        BY <1>3, <3>1 DEF SessionEnds
      <3>3. /\ wg' \in [Conns -> Int]
            /\ \A x \in Conns : wg'[x] = wg[x] - (IF x = worker[w].on THEN 1 ELSE 0)
        BY <1>3, <1>a, <3>2 DEF SessionEnds, Fits
      <3>4. Moves(w, r)
        BY <1>a, <3>1, <3>2, <3>3 DEF Moves, Own, Led, Fits, Waited
      <3> QED BY <3>1, <3>4
    <2>2. /\ UNCHANGED <<main, quit, listening, proxying, shutdown, conn, up, done, job>>
          /\ worker[w].pc = "kicking" => job[w] = NoJob
      BY <1>3 DEF SessionEnds
    <2> QED BY <1>b, <2>1, <2>2
  <1>4. CASE KickEnds(w)
    <2>1. Moves(w, Worker("session", worker[w].on, NoConn))
      <3>1. PICK r \in WorkerType :
              /\ r = Worker("session", worker[w].on, NoConn)
              /\ r.pc = "session" /\ r.on = worker[w].on /\ r.to = NoConn
        BY <1>a, Records DEF WorkerPcs
      <3>2. worker' = [worker EXCEPT ![w] = r] /\ worker[w].pc = "kicking"
        BY <1>4, <3>1 DEF KickEnds
      <3>3. /\ wg' \in [Conns -> Int]
            /\ \A x \in Conns : wg'[x] = wg[x]
        BY <1>4, <1>a, <3>2 DEF KickEnds, Fits
      <3>4. Moves(w, r)
        BY <1>a, <3>1, <3>2, <3>3 DEF Moves, Own, Led, Fits, Waited
      <3> QED BY <3>1, <3>4
    <2>2. /\ UNCHANGED <<main, quit, listening, proxying, shutdown, conn, up, done, job>>
          /\ worker[w].pc = "kicking" => job[w] = NoJob
      BY <1>4 DEF KickEnds
    <2> QED BY <1>b, <2>1, <2>2
  <1>5. CASE OpenAnswered(w)
    <2>1. Moves(w, Worker("answered", worker[w].on, worker[w].to))
      <3>1. PICK r \in WorkerType :
              /\ r = Worker("answered", worker[w].on, worker[w].to)
              /\ r.pc = "answered" /\ r.on = worker[w].on /\ r.to = worker[w].to
        BY <1>a, Records DEF WorkerPcs
      <3>2. worker' = [worker EXCEPT ![w] = r] /\ worker[w].pc = "opening"
        BY <1>5, <3>1 DEF OpenAnswered
      <3>3. /\ wg' \in [Conns -> Int]
            /\ \A x \in Conns : wg'[x] = wg[x]
        BY <1>5, <1>a, <3>2 DEF OpenAnswered, Fits
      <3>4. Moves(w, r)
        BY <1>a, <3>1, <3>2, <3>3 DEF Moves, Own, Led, Fits, Waited
      <3> QED BY <3>1, <3>4
    <2>2. /\ UNCHANGED <<main, quit, listening, proxying, shutdown, conn, up, done, job>>
          /\ worker[w].pc = "kicking" => job[w] = NoJob
      BY <1>5 DEF OpenAnswered
    <2> QED BY <1>b, <2>1, <2>2
  <1>6. CASE OpenFails(w)
    <2>1. Moves(w, NoWorker)
      <3>1. PICK r \in WorkerType :
              r = NoWorker /\ r.pc = "none" /\ r.on = NoConn /\ r.to = NoConn
        BY <1>a, Records DEF WorkerPcs
      <3>2. worker' = [worker EXCEPT ![w] = r] /\ worker[w].pc = "opening"
        BY <1>6, <3>1 DEF OpenFails
      <3>3. /\ wg' \in [Conns -> Int]
            /\ \A x \in Conns : wg'[x] = wg[x] - (IF x = worker[w].on THEN 1 ELSE 0)
        BY <1>6, <1>a, <3>2 DEF OpenFails, Fits
      <3>4. Moves(w, r)
        BY <1>a, <3>1, <3>2, <3>3 DEF Moves, Own, Led, Fits, Waited
      <3> QED BY <3>1, <3>4
    <2>2. /\ UNCHANGED <<main, quit, listening, proxying, shutdown, conn, up, done, job>>
          /\ worker[w].pc = "kicking" => job[w] = NoJob
      BY <1>6 DEF OpenFails
    <2> QED BY <1>b, <2>1, <2>2
  <1>7. CASE AddTarget(w)
    <2>1. PICK r \in {Worker("tunnel", worker[w].on, worker[w].to),
                      Worker("bridge", worker[w].on, worker[w].to)} :
            /\ worker' = [worker EXCEPT ![w] = r]
            /\ r.pc = "bridge" => worker[w].on = NoConn
      <3>1. /\ Worker("tunnel", worker[w].on, worker[w].to).pc = "tunnel"
            /\ Worker("bridge", worker[w].on, worker[w].to).pc = "bridge"
        BY DEF Worker
      <3>2. \/ worker' = [worker EXCEPT ![w] = Worker("tunnel", worker[w].on, worker[w].to)]
            \/ /\ worker[w].on = NoConn
               /\ worker' = [worker EXCEPT ![w] = Worker("bridge", worker[w].on, worker[w].to)]
        BY <1>7 DEF AddTarget
      <3> QED BY <3>1, <3>2
    <2>2. /\ r \in WorkerType /\ r.pc \in {"tunnel", "bridge"}
          /\ r.on = worker[w].on /\ r.to = worker[w].to
      BY <1>a, Records DEF WorkerPcs
    <2>3. worker[w].pc = "answered" /\ worker[w].to \in Conns
      BY <1>7, <1>a DEF AddTarget, Fits
    <2>4. /\ wg' \in [Conns -> Int]
          /\ \A c \in Conns : wg'[c] = wg[c] + (IF c = worker[w].to THEN 1 ELSE 0)
      BY <1>7, <1>a, <2>3 DEF AddTarget
    <2>5. Moves(w, r)
      BY <2>1, <2>2, <2>3, <2>4, <1>a DEF Moves, Own, Led, Fits, Waited
    <2>6. /\ UNCHANGED <<main, quit, listening, proxying, shutdown, conn, up, done, job>>
          /\ worker[w].pc = "kicking" => job[w] = NoJob
      BY <1>7, <2>3 DEF AddTarget
    <2> QED BY <1>b, <2>5, <2>6
  <1>8. CASE TunnelEnds(w)
    <2>1. Moves(w, NoWorker)
      <3>1. PICK r \in WorkerType :
              r = NoWorker /\ r.pc = "none" /\ r.on = NoConn /\ r.to = NoConn
        BY <1>a, Records DEF WorkerPcs
      <3>2. worker' = [worker EXCEPT ![w] = r] /\ worker[w].pc \in {"tunnel", "bridge"}
        BY <1>8, <3>1 DEF TunnelEnds
      <3>3. /\ wg' \in [Conns -> Int]
            /\ \A x \in Conns :
                 wg'[x] = wg[x] - (IF x = worker[w].on THEN 1 ELSE 0)
                                - (IF x = worker[w].to THEN 1 ELSE 0)
        BY <1>8, <1>a, <3>2 DEF TunnelEnds, Fits
      <3>4. Moves(w, r)
        BY <1>a, <3>1, <3>2, <3>3 DEF Moves, Own, Led, Fits, Waited
      <3> QED BY <3>1, <3>4
    <2>2. /\ UNCHANGED <<main, quit, listening, proxying, shutdown, conn, up, done, job>>
          /\ worker[w].pc = "kicking" => job[w] = NoJob
      BY <1>8 DEF TunnelEnds
    <2> QED BY <1>b, <2>1, <2>2
  <1>9. CASE AcceptProxy(w)
    <2>1. Moves(w, Worker("greeting", NoConn, NoConn))
      <3>1. PICK r \in WorkerType :
              /\ r = Worker("greeting", NoConn, NoConn)
              /\ r.pc = "greeting" /\ r.on = NoConn /\ r.to = NoConn
        BY <1>a, Records DEF WorkerPcs
      <3>2. worker' = [worker EXCEPT ![w] = r] /\ worker[w].pc = "none" /\ proxying
        BY <1>9, <3>1 DEF AcceptProxy
      <3>3. /\ wg' \in [Conns -> Int]
            /\ \A x \in Conns : wg'[x] = wg[x]
        BY <1>9, <1>a, <3>2 DEF AcceptProxy, Fits
      <3>4. Moves(w, r)
        BY <1>a, <3>1, <3>2, <3>3 DEF Moves, Own, Led, Fits, Waited
      <3> QED BY <3>1, <3>4
    <2>2. /\ UNCHANGED <<main, quit, listening, proxying, shutdown, conn, up, done, job>>
          /\ worker[w].pc = "kicking" => job[w] = NoJob
      BY <1>9 DEF AcceptProxy
    <2> QED BY <1>b, <2>1, <2>2
  <1>10. CASE GreetingFails(w)
    <2>1. Moves(w, NoWorker)
      <3>1. PICK r \in WorkerType :
              r = NoWorker /\ r.pc = "none" /\ r.on = NoConn /\ r.to = NoConn
        BY <1>a, Records DEF WorkerPcs
      <3>2. worker' = [worker EXCEPT ![w] = r] /\ worker[w].pc = "greeting"
        BY <1>10, <3>1 DEF GreetingFails
      <3>3. /\ wg' \in [Conns -> Int]
            /\ \A x \in Conns : wg'[x] = wg[x]
        BY <1>10, <1>a, <3>2 DEF GreetingFails, Fits
      <3>4. Moves(w, r)
        BY <1>a, <3>1, <3>2, <3>3 DEF Moves, Own, Led, Fits, Waited
      <3> QED BY <3>1, <3>4
    <2>2. /\ UNCHANGED <<main, quit, listening, proxying, shutdown, conn, up, done, job>>
          /\ worker[w].pc = "kicking" => job[w] = NoJob
      BY <1>10 DEF GreetingFails
    <2> QED BY <1>b, <2>1, <2>2
  <1>11. ASSUME NEW t \in Conns, ProxyOpens(w, t) PROVE IInv'
    <2>1. Moves(w, Worker("opening", NoConn, t))
      <3>1. PICK r \in WorkerType :
              /\ r = Worker("opening", NoConn, t)
              /\ r.pc = "opening" /\ r.on = NoConn /\ r.to = t
        BY <1>a, Records DEF WorkerPcs
      <3>2. worker' = [worker EXCEPT ![w] = r] /\ worker[w].pc = "greeting"
        BY <1>11, <3>1 DEF ProxyOpens
      <3>3. /\ wg' \in [Conns -> Int]
            /\ \A x \in Conns : wg'[x] = wg[x]
        BY <1>11, <1>a, <3>2 DEF ProxyOpens, Fits
      <3>4. Moves(w, r)
        BY <1>a, <3>1, <3>2, <3>3 DEF Moves, Own, Led, Fits, Waited
      <3> QED BY <3>1, <3>4
    <2>2. /\ UNCHANGED <<main, quit, listening, proxying, shutdown, conn, up, done, job>>
          /\ worker[w].pc = "kicking" => job[w] = NoJob
      BY <1>11 DEF ProxyOpens
    <2> QED BY <1>b, <2>1, <2>2
  <1>12. ASSUME NEW u \in Kicked, KickUser(w, u) PROVE IInv'
    <2> DEFINE todo == {c \in Listed : UserOf[c] = u}
    <2>1. Moves(w, Worker("kicking", worker[w].on, NoConn))
      <3>1. PICK r \in WorkerType :
              /\ r = Worker("kicking", worker[w].on, NoConn)
              /\ r.pc = "kicking" /\ r.on = worker[w].on /\ r.to = NoConn
        BY <1>a, Records DEF WorkerPcs
      <3>2. worker' = [worker EXCEPT ![w] = r] /\ worker[w].pc = "session"
        BY <1>12, <3>1 DEF KickUser
      <3>3. /\ wg' \in [Conns -> Int]
            /\ \A x \in Conns : wg'[x] = wg[x]
        BY <1>12, <1>a, <3>2 DEF KickUser, Fits
      <3>4. Moves(w, r)
        BY <1>a, <3>1, <3>2, <3>3 DEF Moves, Own, Led, Fits, Waited
      <3> QED BY <3>1, <3>4
    <2>2. todo \in SUBSET Conns /\ \A c \in todo : conn[c] = "run"
      BY DEF Listed
    <2>3. job' = [job EXCEPT ![w] = Job(todo, NoConn)] /\ job \in [Closers -> JobType]
      BY <1>12 DEF KickUser, IInv, Shape
    <2> HIDE DEF todo
    <2>4. /\ job' \in [Closers -> JobType]
          /\ job'[w].todo = todo /\ job'[w].on = NoConn
          /\ \A k \in Closers : k # w => job'[k] = job[k]
      BY <1>a, <2>2, <2>3, Records
    <2>5. Worker("kicking", worker[w].on, NoConn).pc = "kicking"
      BY Records, <1>a DEF WorkerPcs
    <2>6. UNCHANGED <<main, quit, listening, proxying, shutdown, conn, up, done>>
      BY <1>12 DEF KickUser
    <2>7. \A c \in Conns : c \in job'[w].todo \/ job'[w].on = c =>
                             conn[c] \in {"run", "deleted", "ended"}
      BY <1>a, <2>2, <2>4
    <2> QED BY <2>1, <2>4, <2>5, <2>6, <2>7, MovesInv
  <1> QED BY <1>1, <1>2, <1>3, <1>4, <1>5, <1>6, <1>7, <1>8, <1>9, <1>10, <1>11, <1>12
          DEF WorkerStep

\* Every step keeps IInv.
LEMMA NextInv == IInv /\ [Next]_vars => IInv'
  <1> SUFFICES ASSUME IInv, [Next]_vars PROVE IInv'
    OBVIOUS
  <1>1. CASE UNCHANGED vars
    BY <1>1, Frame DEF vars, IInv, Shape, JobsIdle, Ending
  <1>2. CASE Gone
    BY <1>2, <1>1 DEF Gone
  <1> QED BY <1>1, <1>2, RunInv, ShutdownInv, CloserInv, ConnInv, WorkerInv DEF Next

\* The type invariant: in particular no wait group becomes negative, whichever
\* sessions, tunnels and clients of a proxy come and go (connection.waitGroup).
THEOREM TypeCorrect == Spec => []TypeOK
  <1>1. IInv => TypeOK
    <2> SUFFICES ASSUME IInv PROVE TypeOK
      OBVIOUS
    <2>1. \A c \in Conns : wg[c] \in Nat
      BY LoadType DEF IInv, Counted, Handler
    <2> QED BY <2>1 DEF IInv, Shape, TypeOK, WorkerType, JobType
  <1> QED BY <1>1, InitInv, NextInv, PTL DEF Spec

\* When run has returned, no connection is being served, and no client of a
\* proxy that run counts: what was published after the first Close is in the list
\* of the second (run, gateway.Close).
THEOREM ReturnedUnserved == Spec => []ReturnsUnserved
  <1>1. IInv => ReturnsUnserved
    BY DEF IInv, Ending, ReturnsUnserved
  <1> QED BY <1>1, InitInv, NextInv, PTL DEF Spec

\* connection.close returns only when the connection is drained.
THEOREM ClosesDrain == Spec => CloseDrains
  <1> DEFINE Drains == \A k \in Closers : \A c \in Conns :
                          job[k].on = c /\ job'[k].on # c /\ main' # "killed"
                            => /\ conn[c] = "ended"
                               /\ \A w \in Workers : ~Holds(w, c)
  <1>1. ASSUME IInv, [Next]_vars, NEW k \in Closers, NEW c \in Conns,
               job[k].on = c, job'[k].on # c, main' # "killed"
        PROVE  conn[c] = "ended" /\ \A w \in Workers : ~Holds(w, c)
    <2> USE LifecycleAssumption
    <2>1. job[k].on # NoConn /\ job \in [Closers -> JobType]
      BY <1>1 DEF IInv, Shape
    <2>2. CloseReturns(k)
      <3>1. ~UNCHANGED job
        BY <1>1
      <3>a. ASSUME NEW j \in Closers, NEW r, job' = [job EXCEPT ![j] = r]
            PROVE  job[j].on # NoConn
        BY <1>1, <2>1, <3>a
      <3>b. "main" \in Closers /\ "shutdown" \in Closers /\ Workers \subseteq Closers /\ JobsIdle
        BY <1>1 DEF IInv, Closers
      <3>2. ~RunStep
        <4>1. RunStep => \/ UNCHANGED job \/ main' = "killed"
                         \/ /\ main \in {"select", "wait"}
                            /\ \E r : job' = [job EXCEPT !["main"] = r]
          BY DEF RunStep, Signal, Scavenge, ScavengeEnds, Quit, WaitReturns, RunReturns, Deadline
        <4> QED BY <1>1, <3>1, <3>a, <3>b, <4>1 DEF JobsIdle
      <3>3. ~ShutdownStep
        <4>1. ShutdownStep => \/ UNCHANGED job
                              \/ /\ shutdown = "list"
                                 /\ \E r : job' = [job EXCEPT !["shutdown"] = r]
          BY DEF ShutdownStep, CloseListener, CloseLists, CloseEnds, CloseProxies
        <4> QED BY <3>1, <3>a, <3>b, <4>1 DEF JobsIdle
      <3>4. ASSUME NEW j \in Closers, CloserStep(j) PROVE CloseReturns(k)
        BY <1>1, <2>1, <3>4 DEF CloserStep, CloseConnection, CloseReturns
      <3>5. \A d \in Conns : ~ConnStep(d)
        BY <3>1 DEF ConnStep, Accept, HandshakeFails, AddConnection, ClientLeaves,
                    HandlerEnds, HandlerDone
      <3>6. ASSUME NEW w \in Workers PROVE ~WorkerStep(w)
        <4>1. WorkerStep(w) => \/ UNCHANGED job
                               \/ /\ worker[w].pc = "session"
                                  /\ \E r : job' = [job EXCEPT ![w] = r]
          BY DEF WorkerStep, StartSession, StartTunnel, SessionEnds, KickEnds, OpenAnswered,
                 OpenFails, AddTarget, TunnelEnds, AcceptProxy, GreetingFails, ProxyOpens,
                 KickUser
        <4> QED BY <3>1, <3>a, <3>b, <3>6, <4>1 DEF JobsIdle
      <3> QED BY <1>1, <3>1, <3>2, <3>3, <3>4, <3>5, <3>6 DEF Next, vars, Gone
    <2>3. Load(c) = 0 /\ conn[c] \notin {"run", "deleted"}
      <3>1. wg[c] = 0
        BY <1>1, <2>2 DEF CloseReturns
      <3>2. wg[c] = Load(c) + Handler(conn[c]) /\ Load(c) \in Nat
        BY <1>1, LoadType DEF IInv, Counted
      <3> QED BY <3>1, <3>2 DEF Handler
    <2>4. Cardinality(Owners(c)) = 0 /\ Cardinality(Leaders(c)) = 0
      BY <2>3, LoadType DEF Load
    <2>5. Owners(c) = {} /\ Leaders(c) = {}
      BY <2>4, LoadType, FS_EmptySet
    <2>6. conn[c] = "ended"
      BY <1>1, <2>3 DEF IInv, Reached
    <2> QED BY <2>5, <2>6 DEF Owners, Leaders, Holds
  <1>2. IInv /\ [Next]_vars => [Drains]_vars
    BY <1>1
  <1> QED BY <1>2, InitInv, NextInv, PTL DEF Spec, CloseDrains

-------------------------------------------------------------------------------
(* What connection.close waits for comes to an end.  Only users in Kicked are
   kicked, so the kick of a session waits for their connections only. *)
NoSelfKick == \A c \in Admins : UserOf[c] \notin Kicked

Warned == \A k \in Closers : \A c \in Conns : job[k].on = c => done[c]
Severed == \A c \in Conns : conn[c] = "ended" => ~up[c]
Kicks ==
  \A w \in Workers :
    /\ worker[w].pc = "kicking" => worker[w].on \in Admins
    /\ \A c \in Conns : c \in job[w].todo \/ job[w].on = c => UserOf[c] \in Kicked

UInv == Warned /\ Severed /\ Kicks

\* A step of a connection closes its transport when it ends.
LEMMA ConnUnwinds ==
  ASSUME IInv, UInv, NEW c \in Conns, ConnStep(c)
  PROVE  UInv'
  <1>1. UNCHANGED <<done, worker, job>>
    BY DEF ConnStep, Accept, HandshakeFails, AddConnection, ClientLeaves, HandlerEnds,
           HandlerDone
  <1>2. conn \in [Conns -> ConnPcs] /\ up \in [Conns -> BOOLEAN]
    BY DEF IInv, Shape
  <1>3. \A d \in Conns : d # c => conn'[d] = conn[d] /\ up'[d] = up[d]
    BY <1>2 DEF ConnStep, Accept, HandshakeFails, AddConnection, ClientLeaves, HandlerEnds,
                HandlerDone
  <1>4. conn'[c] = "ended" => ~up'[c]
    BY <1>2 DEF ConnStep, Accept, HandshakeFails, AddConnection, ClientLeaves, HandlerEnds,
                HandlerDone, UInv, Severed
  <1> QED BY <1>1, <1>3, <1>4 DEF UInv, Warned, Severed, Kicks

\* connection.close closes done before it waits.
LEMMA CloserUnwinds ==
  ASSUME IInv, UInv, NEW k \in Closers, CloserStep(k)
  PROVE  UInv'
  <1>1. UNCHANGED <<conn, up, worker>>
    BY DEF CloserStep, CloseConnection, CloseReturns
  <1>2. job \in [Closers -> JobType] /\ done \in [Conns -> BOOLEAN] /\ Workers \subseteq Closers
        /\ NoConn \notin Conns
    BY LifecycleAssumption DEF IInv, Shape, Closers
  <1>3. ASSUME NEW c \in Conns, CloseConnection(k, c) PROVE UInv'
    <2>1. /\ c \in job[k].todo /\ done' = [done EXCEPT ![c] = TRUE]
          /\ job' = [job EXCEPT ![k] = Job(job[k].todo \ {c}, c)]
      BY <1>3 DEF CloseConnection
    <2>2. job[k].todo \ {c} \in SUBSET Conns
      BY <1>2 DEF JobType
    <2>3. /\ job'[k].todo = job[k].todo \ {c} /\ job'[k].on = c
          /\ \A j \in Closers : j # k => job'[j] = job[j]
      BY <1>2, <2>1, <2>2, Records
    <2>4. done'[c] /\ \A d \in Conns : done[d] => done'[d]
      BY <1>2, <2>1
    <2>5. Warned'
      BY <2>3, <2>4 DEF UInv, Warned
    <2>6. Kicks'
      <3>1. \A w \in Workers, d \in Conns :
              d \in job'[w].todo \/ job'[w].on = d => d \in job[w].todo \/ job[w].on = d
        BY <1>2, <2>1, <2>3
      <3> QED BY <1>1, <3>1 DEF UInv, Kicks
    <2> QED BY <1>1, <2>5, <2>6 DEF UInv, Severed
  <1>4. CASE CloseReturns(k)
    <2>1. done' = done /\ job' = [job EXCEPT ![k] = Job(job[k].todo, NoConn)]
      BY <1>4 DEF CloseReturns
    <2>2. job[k].todo \in SUBSET Conns
      BY <1>2 DEF JobType
    <2>3. /\ job'[k].todo = job[k].todo /\ job'[k].on = NoConn
          /\ \A j \in Closers : j # k => job'[j] = job[j]
      BY <1>2, <2>1, <2>2, Records
    <2>4. \A j \in Closers, d \in Conns :
            /\ job'[j].on = d => job[j].on = d
            /\ d \in job'[j].todo => d \in job[j].todo
      BY <1>2, <2>3
    <2> QED BY <1>1, <1>2, <2>1, <2>4 DEF UInv, Warned, Severed, Kicks
  <1> QED BY <1>3, <1>4 DEF CloserStep

\* The main loop and Close start with lists of their own.
LEMMA RunUnwinds ==
  ASSUME IInv, UInv, RunStep \/ ShutdownStep
  PROVE  UInv'
  <1>1. CASE Deadline
    <2>1. /\ \A w \in Workers : worker'[w].pc = "none"
          /\ \A k \in Closers : job'[k].todo = {} /\ job'[k].on = NoConn
          /\ \A c \in Conns : ~up'[c]
      BY <1>1, Records DEF Deadline
    <2> QED BY <2>1, LifecycleAssumption DEF UInv, Warned, Severed, Kicks, Closers
  <1>2. CASE ~Deadline
    <2>1. UNCHANGED <<conn, up, done, worker>>
      BY <1>2 DEF RunStep, Signal, Scavenge, ScavengeEnds, Quit, WaitReturns, RunReturns,
                  ShutdownStep, CloseListener, CloseLists, CloseEnds, CloseProxies
    <2>2. \/ job' = job
          \/ \E k \in {"main", "shutdown"}, todo \in SUBSET Listed :
               job' = [job EXCEPT ![k] = Job(todo, NoConn)]
      BY <1>2 DEF RunStep, Signal, Scavenge, ScavengeEnds, Quit, WaitReturns, RunReturns,
                  ShutdownStep, CloseListener, CloseLists, CloseEnds, CloseProxies
    <2>3. job \in [Closers -> JobType]
      BY DEF IInv, Shape
    <2>4. ASSUME NEW k \in {"main", "shutdown"}, NEW todo \in SUBSET Listed,
                 job' = [job EXCEPT ![k] = Job(todo, NoConn)]
          PROVE  UInv'
      <3>1. Job(todo, NoConn).on = NoConn
        BY DEF Job
      <3>2. \A j \in Closers : job'[j] = job[j] \/ job'[j].on = NoConn
        BY <2>3, <2>4, <3>1
      <3>3. \A w \in Workers : job'[w] = job[w]
        BY <2>3, <2>4, LifecycleAssumption DEF Closers
      <3> QED BY <2>1, <3>2, <3>3, LifecycleAssumption DEF UInv, Warned, Severed, Kicks
    <2>5. CASE job' = job
      BY <2>1, <2>5 DEF UInv, Warned, Severed, Kicks
    <2> QED BY <2>2, <2>4, <2>5
  <1> QED BY <1>1, <1>2

\* Only a session of an administrator starts to kick, and kicks the users it
\* was told to.
LEMMA WorkerKeepsUnwinding ==
  ASSUME IInv, UInv, NEW w \in Workers, WorkerStep(w)
  PROVE  UInv'
  <1>1. UNCHANGED <<conn, up, done>>
    <2>1. CASE \E c \in Conns : StartSession(w, c) \/ \E t \in Conns : StartTunnel(w, c, t)
      BY <2>1 DEF StartSession, StartTunnel
    <2>2. CASE SessionEnds(w) \/ KickEnds(w) \/ OpenAnswered(w) \/ OpenFails(w)
      BY <2>2 DEF SessionEnds, KickEnds, OpenAnswered, OpenFails
    <2>3. CASE AddTarget(w) \/ TunnelEnds(w) \/ AcceptProxy(w) \/ GreetingFails(w)
      BY <2>3 DEF AddTarget, TunnelEnds, AcceptProxy, GreetingFails
    <2>4. CASE \/ \E t \in Conns : ProxyOpens(w, t)
               \/ \E u \in Kicked : KickUser(w, u)
      BY <2>4 DEF ProxyOpens, KickUser
    <2> QED BY <2>1, <2>2, <2>3, <2>4 DEF WorkerStep
  <1>2. job \in [Closers -> JobType] /\ worker \in [Workers -> WorkerType]
        /\ w \in Closers /\ Workers \subseteq Closers /\ NoConn \notin Conns
    BY LifecycleAssumption DEF IInv, Shape, Closers
  <1>3. ASSUME NEW u \in Kicked, KickUser(w, u) PROVE UInv'
    <2> DEFINE todo == {c \in Listed : UserOf[c] = u}
    <2>1. /\ worker[w].on \in Admins
          /\ worker' = [worker EXCEPT ![w] = Worker("kicking", worker[w].on, NoConn)]
          /\ job' = [job EXCEPT ![w] = Job(todo, NoConn)]
      BY <1>3 DEF KickUser
    <2>2. todo \in SUBSET Conns /\ \A c \in todo : UserOf[c] \in Kicked
      BY DEF Listed
    <2> HIDE DEF todo
    <2>3. /\ job'[w].todo = todo /\ job'[w].on = NoConn
          /\ \A k \in Closers : k # w => job'[k] = job[k]
      BY <1>2, <2>1, <2>2, Records
    <2>4. worker'[w].on = worker[w].on /\ \A v \in Workers : v # w => worker'[v] = worker[v]
      BY <1>2, <2>1 DEF Worker
    <2>5. Warned'
      BY <1>1, <1>2, <2>3 DEF UInv, Warned
    <2>6. Kicks'
      BY <1>2, <2>1, <2>2, <2>3, <2>4 DEF UInv, Kicks
    <2> QED BY <1>1, <2>5, <2>6 DEF UInv, Severed
  <1>4. CASE \A u \in Kicked : ~KickUser(w, u)
    <2>1. job' = job
      <3>1. CASE \E c \in Conns : StartSession(w, c) \/ \E t \in Conns : StartTunnel(w, c, t)
        BY <3>1 DEF StartSession, StartTunnel
      <3>2. CASE SessionEnds(w) \/ KickEnds(w) \/ OpenAnswered(w) \/ OpenFails(w)
        BY <3>2 DEF SessionEnds, KickEnds, OpenAnswered, OpenFails
      <3>3. CASE AddTarget(w) \/ TunnelEnds(w) \/ AcceptProxy(w) \/ GreetingFails(w)
        BY <3>3 DEF AddTarget, TunnelEnds, AcceptProxy, GreetingFails
      <3>4. CASE \E t \in Conns : ProxyOpens(w, t)
        BY <3>4 DEF ProxyOpens
      <3> QED BY <1>4, <3>1, <3>2, <3>3, <3>4 DEF WorkerStep
    <2>2. \/ worker' = [worker EXCEPT ![w] = NoWorker]
          \/ \E pc \in WorkerPcs \ {"kicking"}, c, t \in Conns \union {NoConn} :
               worker' = [worker EXCEPT ![w] = Worker(pc, c, t)]
      <3>1. worker[w].on \in Conns \union {NoConn} /\ worker[w].to \in Conns \union {NoConn}
        BY <1>2 DEF WorkerType
      <3>2. CASE SessionEnds(w) \/ OpenFails(w) \/ TunnelEnds(w) \/ GreetingFails(w)
        BY <3>2 DEF SessionEnds, OpenFails, TunnelEnds, GreetingFails
      <3>3. CASE \E c \in Conns : StartSession(w, c) \/ \E t \in Conns : StartTunnel(w, c, t)
        <4>1. PICK pc \in {"session", "opening"}, c \in Conns, t \in Conns \union {NoConn} :
                worker' = [worker EXCEPT ![w] = Worker(pc, c, t)]
          BY <3>3 DEF StartSession, StartTunnel
        <4>2. pc \in WorkerPcs \ {"kicking"} /\ c \in Conns \union {NoConn}
          BY DEF WorkerPcs
        <4> QED BY <4>1, <4>2
      <3>4. CASE KickEnds(w) \/ OpenAnswered(w)
        BY <3>1, <3>4 DEF KickEnds, OpenAnswered, WorkerPcs
      <3>5. CASE AddTarget(w)
        <4>1. PICK pc \in {"tunnel", "bridge"} :
                worker' = [worker EXCEPT ![w] = Worker(pc, worker[w].on, worker[w].to)]
          BY <3>5 DEF AddTarget
        <4>2. pc \in WorkerPcs \ {"kicking"}
          BY DEF WorkerPcs
        <4> QED BY <3>1, <4>1, <4>2
      <3>6. CASE AcceptProxy(w) \/ \E t \in Conns : ProxyOpens(w, t)
        BY <3>6 DEF AcceptProxy, ProxyOpens, WorkerPcs
      <3> QED BY <1>4, <3>2, <3>3, <3>4, <3>5, <3>6 DEF WorkerStep
    <2>3. worker'[w].pc # "kicking" /\ \A v \in Workers : v # w => worker'[v] = worker[v]
      BY <1>2, <2>2, Records
    <2> QED BY <1>1, <2>1, <2>3 DEF UInv, Warned, Severed, Kicks
  <1> QED BY <1>3, <1>4

\* As long as no administrator kicks themselves, what connection.close waits
\* for ends: the handler is told, the transport is closed with it, tokens belong
\* to goroutines, and no session that kicks waits for another.
THEOREM WaitsEnd == ASSUME NoSelfKick PROVE Spec => []WaitsUnwind
  <1>1. Init => UInv
    <2> SUFFICES ASSUME Init PROVE UInv
      OBVIOUS
    <2>1. /\ \A w \in Workers : worker[w].pc = "none"
          /\ \A k \in Closers : job[k].todo = {} /\ job[k].on = NoConn
          /\ \A c \in Conns : conn[c] = "none"
      BY Records DEF Init
    <2> QED BY <2>1, LifecycleAssumption DEF UInv, Warned, Severed, Kicks, Closers
  <1>2. ASSUME IInv, UInv, [Next]_vars PROVE UInv'
    <2>1. CASE Gone \/ UNCHANGED vars
      BY <1>2, <2>1 DEF Gone, vars, UInv, Warned, Severed, Kicks
    <2> QED BY <1>2, <2>1, RunUnwinds, CloserUnwinds, ConnUnwinds, WorkerKeepsUnwinding DEF Next
  <1>3. ASSUME IInv, UInv PROVE WaitsUnwind
    <2> SUFFICES ASSUME NEW k \in Closers, NEW c \in Conns, job[k].on = c
                 PROVE  /\ done[c]
                        /\ conn[c] = "ended" => ~up[c] /\ (wg[c] # 0 => \E w \in Workers : Holds(w, c))
                        /\ k \in Workers =>
                             \A w \in Workers : worker[w].on = c => worker[w].pc # "kicking"
      BY DEF WaitsUnwind
    <2>1. done[c] /\ (conn[c] = "ended" => ~up[c])
      BY <1>3 DEF UInv, Warned, Severed
    <2>2. ASSUME conn[c] = "ended", wg[c] # 0 PROVE \E w \in Workers : Holds(w, c)
      <3>1. Load(c) # 0
        BY <1>3, <2>2, LoadType DEF IInv, Counted, Handler
      <3>2. Cardinality(Owners(c)) # 0 \/ Cardinality(Leaders(c)) # 0
        BY <3>1, LoadType DEF Load
      <3>3. Owners(c) # {} \/ Leaders(c) # {}
        BY <3>2, FS_EmptySet
      <3> QED BY <3>3 DEF Owners, Leaders, Holds
    <2>3. ASSUME k \in Workers, NEW w \in Workers, worker[w].on = c
          PROVE  worker[w].pc # "kicking"
      BY <1>3, <2>3 DEF UInv, Kicks, NoSelfKick
    <2> QED BY <2>1, <2>2, <2>3
  <1> QED BY <1>1, <1>2, <1>3, InitInv, NextInv, PTL DEF Spec
===============================================================================

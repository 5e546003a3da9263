------------------------------ MODULE Lifecycle ------------------------------
(* How inbound connections begin and end, and how the process shuts down.

   Each ssh connection has a wait group that counts its goroutines: the handler
   of handleConnection, sessions and tunnels.  connection.close tells the
   handler to stop and waits until the count is zero.  It is called one
   connection after the other by the scavenger, which runs in the main loop of
   cli/run.go, by gateway.Close, and by a session that runs the kickUser
   command.  On shutdown run closes the listeners, calls Close, waits for the
   accept loops, for handshakes and for the clients of the proxies, and calls
   Close a second time when it returns; a deadline ends the process if that
   takes too long.

   A client of the socks or of the http proxy belongs to no connection: it
   counts in run's wait group, or in Shutdown of the http server, and its tunnel
   in the wait group of the connection the tunnel leads to.

   One token of a wait group stands for a goroutine together with those it
   starts and that end with it.  The outbound side that Close ends as well is
   in Peers. *)
EXTENDS Naturals, FiniteSets

CONSTANTS
  Conns,    \* inbound ssh connections; each one lives once
  Workers,  \* goroutines of sessions, of tunnels and of clients of a proxy
  NoConn,
  UserOf,   \* connection: its user
  Admins,   \* connections of administrators
  Serving,  \* connections that have registered services: tunnels lead to them
  Proxied,  \* workers that clients of a proxy may have
  Kicked    \* users that administrators kick

ASSUME LifecycleAssumption ==
  /\ NoConn \notin Conns /\ IsFiniteSet(Workers)
  /\ "main" \notin Workers /\ "shutdown" \notin Workers
  /\ Admins \subseteq Conns /\ Serving \subseteq Conns
  /\ Proxied \subseteq Workers

VARIABLES
  main,       \* run: "select", "scavenge", "wait", "closeAgain", "returned",
              \* "killed" (by the deadline)
  quit,       \* a signal, or the end of a listener, is pending
  listening,  \* the accept loop runs
  proxying,   \* the accept loops of the proxies run
  shutdown,   \* the goroutine run starts to shut down: "none", "listener",
              \* "list", "close", "returned"
  conn,       \* handler of the connection: "none", "handshake", "run",
              \* "deleted" (deleteConnection is done), "ended"
  up,         \* the connection's transport is up
  done,       \* the connection's done channel is closed
  wg,         \* the connection's wait group
  worker,     \* goroutine: [pc, on, to]: its connection (NoConn for the client
              \* of a proxy), its tunnel's target
  job         \* who is closing connections: [todo, on]: listed ones left to
              \* close, the one whose wait group is waited for

vars == <<main, quit, listening, proxying, shutdown, conn, up, done, wg, worker, job>>

Closers == Workers \union {"main", "shutdown"}
Mains == {"select", "scavenge", "wait", "closeAgain", "returned", "killed"}
ConnPcs == {"none", "handshake", "run", "deleted", "ended"}
WorkerPcs == {"none", "session", "kicking", "greeting", "opening", "answered",
              "tunnel", "bridge"}

Worker(pc, c, t) == [pc |-> pc, on |-> c, to |-> t]
NoWorker == Worker("none", NoConn, NoConn)
Job(todo, c) == [todo |-> todo, on |-> c]
NoJob == Job({}, NoConn)

\* listConnections
Listed == {c \in Conns : conn[c] = "run"}

Init ==
  /\ main = "select"
  /\ quit = FALSE
  /\ listening = TRUE
  /\ proxying = TRUE
  /\ shutdown = "none"
  /\ conn = [c \in Conns |-> "none"]
  /\ up = [c \in Conns |-> FALSE]
  /\ done = [c \in Conns |-> FALSE]
  /\ wg = [c \in Conns |-> 0]
  /\ worker = [w \in Workers |-> NoWorker]
  /\ job = [k \in Closers |-> NoJob]

Alive == main \notin {"returned", "killed"}

\* A client of a proxy that run waits for.  A bridge is one it does not know of:
\* the hijacked connection of a CONNECT, or a pooled one of the http transport.
ProxiesServe ==
  \E w \in Workers : worker[w].on = NoConn /\ worker[w].pc \notin {"none", "bridge"}

-------------------------------------------------------------------------------
(* connection.close, called by k for each connection of its list. *)

\* closeOnce: close(done)
CloseConnection(k, c) ==
  /\ Alive
  /\ job[k].on = NoConn
  /\ c \in job[k].todo
  /\ done' = [done EXCEPT ![c] = TRUE]
  /\ job' = [job EXCEPT ![k] = Job(job[k].todo \ {c}, c)]
  /\ UNCHANGED <<main, quit, listening, proxying, shutdown, conn, up, wg, worker>>

\* the deferred waitGroup.Wait
CloseReturns(k) ==
  /\ Alive
  /\ job[k].on \in Conns
  /\ wg[job[k].on] = 0
  /\ job' = [job EXCEPT ![k] = Job(job[k].todo, NoConn)]
  /\ UNCHANGED <<main, quit, listening, proxying, shutdown, conn, up, done, wg, worker>>

-------------------------------------------------------------------------------
(* run. *)

\* a signal arrives or a listener ends
Signal ==
  /\ Alive
  /\ ~quit
  /\ quit' = TRUE
  /\ UNCHANGED <<main, listening, proxying, shutdown, conn, up, done, wg, worker, job>>

\* the ten second timer: ScavengeConnections closes those that have been idle
Scavenge ==
  /\ main = "select"
  /\ \E idle \in SUBSET Listed : job' = [job EXCEPT !["main"] = Job(idle, NoConn)]
  /\ main' = "scavenge"
  /\ UNCHANGED <<quit, listening, proxying, shutdown, conn, up, done, wg, worker>>

ScavengeEnds ==
  /\ main = "scavenge"
  /\ job["main"] = NoJob
  /\ main' = "select"
  /\ UNCHANGED <<quit, listening, proxying, shutdown, conn, up, done, wg, worker, job>>

\* the loop ends: the deadline is set, the shutdown goroutine is started
Quit ==
  /\ main = "select"
  /\ quit
  /\ main' = "wait"
  /\ shutdown' = "listener"
  /\ UNCHANGED <<quit, listening, proxying, conn, up, done, wg, worker, job>>

\* mutant: run returns without the deferred gateway.Close
WaitReturnsUnclosed ==
  /\ main = "wait"
  /\ ~listening /\ ~proxying
  /\ \A c \in Conns : conn[c] # "handshake"
  /\ ~ProxiesServe
  /\ shutdown = "returned"
  /\ main' = "closeAgain"
  /\ UNCHANGED <<quit, listening, proxying, shutdown, conn, up, done, wg, worker, job>>

\* waitGroup.Wait: the accept loops, handshakes, clients of the proxies and the
\* shutdown goroutines ended; the deferred gateway.Close lists the connections
WaitReturns ==
  /\ main = "wait"
  /\ ~listening /\ ~proxying
  /\ \A c \in Conns : conn[c] # "handshake"
  /\ ~ProxiesServe
  /\ shutdown = "returned"
  /\ main' = "closeAgain"
  /\ job' = [job EXCEPT !["main"] = Job(Listed, NoConn)]
  /\ UNCHANGED <<quit, listening, proxying, shutdown, conn, up, done, wg, worker>>

RunReturns ==
  /\ main = "closeAgain"
  /\ job["main"] = NoJob
  /\ main' = "returned"
  /\ UNCHANGED <<quit, listening, proxying, shutdown, conn, up, done, wg, worker, job>>

\* the deadline: os.Exit ends every goroutine and connection
Deadline ==
  /\ main \in {"wait", "closeAgain"}
  /\ main' = "killed"
  /\ listening' = FALSE /\ proxying' = FALSE
  /\ shutdown' = "none"
  /\ conn' = [c \in Conns |-> "ended"]
  /\ up' = [c \in Conns |-> FALSE]
  /\ done' = [c \in Conns |-> FALSE]
  /\ wg' = [c \in Conns |-> 0]
  /\ worker' = [w \in Workers |-> NoWorker]
  /\ job' = [k \in Closers |-> NoJob]
  /\ UNCHANGED quit

\* sshListener.Close ends the accept loop
CloseListener ==
  /\ Alive
  /\ shutdown = "listener"
  /\ listening' = FALSE
  /\ shutdown' = "list"
  /\ UNCHANGED <<main, quit, proxying, conn, up, done, wg, worker, job>>

\* socksListener.Close and httpProxyServer.Shutdown end the loops of the proxies
CloseProxies ==
  /\ main = "wait"
  /\ proxying
  /\ proxying' = FALSE
  /\ UNCHANGED <<main, quit, listening, shutdown, conn, up, done, wg, worker, job>>

\* gateway.Close: listConnections
CloseLists ==
  /\ Alive
  /\ shutdown = "list"
  /\ shutdown' = "close"
  /\ job' = [job EXCEPT !["shutdown"] = Job(Listed, NoConn)]
  /\ UNCHANGED <<main, quit, listening, proxying, conn, up, done, wg, worker>>

CloseEnds ==
  /\ Alive
  /\ shutdown = "close"
  /\ job["shutdown"] = NoJob
  /\ shutdown' = "returned"
  /\ UNCHANGED <<main, quit, listening, proxying, conn, up, done, wg, worker, job>>

-------------------------------------------------------------------------------
(* HandleConnection and handleConnection. *)

Accept(c) ==
  /\ Alive /\ listening
  /\ conn[c] = "none"
  /\ conn' = [conn EXCEPT ![c] = "handshake"]
  /\ up' = [up EXCEPT ![c] = TRUE]
  /\ UNCHANGED <<main, quit, listening, proxying, shutdown, done, wg, worker, job>>

\* NewServerConn fails
HandshakeFails(c) ==
  /\ Alive
  /\ conn[c] = "handshake"
  /\ conn' = [conn EXCEPT ![c] = "ended"]
  /\ up' = [up EXCEPT ![c] = FALSE]
  /\ UNCHANGED <<main, quit, listening, proxying, shutdown, done, wg, worker, job>>

\* waitGroup.Add, then addConnection
AddConnection(c) ==
  /\ Alive
  /\ conn[c] = "handshake"
  /\ wg' = [wg EXCEPT ![c] = @ + 1]
  /\ conn' = [conn EXCEPT ![c] = "run"]
  /\ UNCHANGED <<main, quit, listening, proxying, shutdown, up, done, worker, job>>

\* the client leaves
ClientLeaves(c) ==
  /\ Alive
  /\ conn[c] = "run" /\ up[c]
  /\ up' = [up EXCEPT ![c] = FALSE]
  /\ UNCHANGED <<main, quit, listening, proxying, shutdown, conn, done, wg, worker, job>>

\* the handler's loop ends, because of done, the end of the transport or an
\* error of handleRequest or handleChannel: deleteConnection
HandlerEnds(c) ==
  /\ Alive
  /\ conn[c] = "run"
  /\ conn' = [conn EXCEPT ![c] = "deleted"]
  /\ UNCHANGED <<main, quit, listening, proxying, shutdown, up, done, wg, worker, job>>

\* mutant: the handler leaves the transport open
HandlerLeaks(c) ==
  /\ Alive
  /\ conn[c] = "deleted"
  /\ wg' = [wg EXCEPT ![c] = @ - 1]
  /\ conn' = [conn EXCEPT ![c] = "ended"]
  /\ UNCHANGED <<main, quit, listening, proxying, shutdown, up, done, worker, job>>

\* releaseUserNode, conn.Close and Done
HandlerDone(c) ==
  /\ Alive
  /\ conn[c] = "deleted"
  /\ up' = [up EXCEPT ![c] = FALSE]
  /\ wg' = [wg EXCEPT ![c] = @ - 1]
  /\ conn' = [conn EXCEPT ![c] = "ended"]
  /\ UNCHANGED <<main, quit, listening, proxying, shutdown, done, worker, job>>

-------------------------------------------------------------------------------
(* Sessions and tunnels. *)

\* mutant: a session that is not counted
StartUncounted(w, c) ==
  /\ Alive
  /\ worker[w].pc = "none"
  /\ conn[c] = "run" /\ up[c]
  /\ worker' = [worker EXCEPT ![w] = Worker("session", c, NoConn)]
  /\ UNCHANGED <<main, quit, listening, proxying, shutdown, conn, up, done, wg, job>>

\* handleSessionChannel
StartSession(w, c) ==
  /\ Alive
  /\ worker[w].pc = "none"
  /\ conn[c] = "run" /\ up[c]
  /\ worker' = [worker EXCEPT ![w] = Worker("session", c, NoConn)]
  /\ wg' = [wg EXCEPT ![c] = @ + 1]
  /\ UNCHANGED <<main, quit, listening, proxying, shutdown, conn, up, done, job>>

\* mutant: a rejected session counts as done twice
SessionEndsTwice(w) ==
  LET c == worker[w].on IN
  /\ Alive
  /\ worker[w].pc = "session"
  /\ worker' = [worker EXCEPT ![w] = NoWorker]
  /\ wg' = [wg EXCEPT ![c] = @ - 2]
  /\ UNCHANGED <<main, quit, listening, proxying, shutdown, conn, up, done, job>>

\* handleSession returns: its command is done or its channel is closed
SessionEnds(w) ==
  LET c == worker[w].on IN
  /\ Alive
  /\ worker[w].pc = "session"
  /\ worker' = [worker EXCEPT ![w] = NoWorker]
  /\ wg' = [wg EXCEPT ![c] = @ - 1]
  /\ UNCHANGED <<main, quit, listening, proxying, shutdown, conn, up, done, job>>

\* kickUser of an administrator: listConnections, and the user's ones are closed
KickUser(w, u) ==
  /\ Alive
  /\ worker[w].on \in Admins
  /\ worker[w].pc = "session"
  /\ worker' = [worker EXCEPT ![w] = Worker("kicking", worker[w].on, NoConn)]
  /\ job' = [job EXCEPT ![w] = Job({c \in Listed : UserOf[c] = u}, NoConn)]
  /\ UNCHANGED <<main, quit, listening, proxying, shutdown, conn, up, done, wg>>

\* kickUser returns
KickEnds(w) ==
  /\ Alive
  /\ worker[w].pc = "kicking"
  /\ job[w] = NoJob
  /\ worker' = [worker EXCEPT ![w] = Worker("session", worker[w].on, NoConn)]
  /\ UNCHANGED <<main, quit, listening, proxying, shutdown, conn, up, done, wg, job>>

\* handleTunnelChannel finds its target among the listed connections
StartTunnel(w, c, t) ==
  /\ Alive
  /\ worker[w].pc = "none"
  /\ conn[c] = "run" /\ up[c]
  /\ t \in Listed \intersect Serving
  /\ worker' = [worker EXCEPT ![w] = Worker("opening", c, t)]
  /\ wg' = [wg EXCEPT ![c] = @ + 1]
  /\ UNCHANGED <<main, quit, listening, proxying, shutdown, conn, up, done, job>>

\* a client of the socks or of the http proxy
AcceptProxy(w) ==
  /\ Alive /\ proxying
  /\ w \in Proxied /\ worker[w].pc = "none"
  /\ worker' = [worker EXCEPT ![w] = Worker("greeting", NoConn, NoConn)]
  /\ UNCHANGED <<main, quit, listening, proxying, shutdown, conn, up, done, wg, job>>

\* Authenticate or ParseRequest fails, or there is no such service
GreetingFails(w) ==
  /\ Alive
  /\ worker[w].pc = "greeting"
  /\ worker' = [worker EXCEPT ![w] = NoWorker]
  /\ UNCHANGED <<main, quit, listening, proxying, shutdown, conn, up, done, wg, job>>

\* the request is read, and openServiceTunnel finds a listed connection
ProxyOpens(w, t) ==
  /\ Alive
  /\ worker[w].pc = "greeting"
  /\ t \in Listed \intersect Serving
  /\ worker' = [worker EXCEPT ![w] = Worker("opening", NoConn, t)]
  /\ UNCHANGED <<main, quit, listening, proxying, shutdown, conn, up, done, wg, job>>

\* openTunnel: the target's client accepts the channel; OpenChannel returns
OpenAnswered(w) ==
  /\ Alive
  /\ worker[w].pc = "opening"
  /\ up[worker[w].to]
  /\ worker' = [worker EXCEPT ![w] = Worker("answered", worker[w].on, worker[w].to)]
  /\ UNCHANGED <<main, quit, listening, proxying, shutdown, conn, up, done, wg, job>>

\* openTunnel fails: the client refuses, or its transport has ended
OpenFails(w) ==
  /\ Alive
  /\ worker[w].pc = "opening"
  /\ worker' = [worker EXCEPT ![w] = NoWorker]
  /\ wg' = [x \in Conns |-> wg[x] - (IF x = worker[w].on THEN 1 ELSE 0)]
  /\ UNCHANGED <<main, quit, listening, proxying, shutdown, conn, up, done, job>>

\* openTunnel: waitGroup.Add on the target
AddTarget(w) ==
  LET c == worker[w].on
      t == worker[w].to IN
  /\ Alive
  /\ worker[w].pc = "answered"
  /\ \/ worker' = [worker EXCEPT ![w] = Worker("tunnel", c, t)]
     \/ c = NoConn /\ worker' = [worker EXCEPT ![w] = Worker("bridge", c, t)]
  /\ wg' = [wg EXCEPT ![t] = @ + 1]
  /\ UNCHANGED <<main, quit, listening, proxying, shutdown, conn, up, done, job>>

\* handleTunnel, or bridge of a proxy: one direction of the copy ends, which
\* closes both tunnels
TunnelEnds(w) ==
  LET c == worker[w].on
      t == worker[w].to IN
  /\ Alive
  /\ worker[w].pc \in {"tunnel", "bridge"}
  /\ worker' = [worker EXCEPT ![w] = NoWorker]
  /\ wg' = [x \in Conns |-> wg[x] - (IF x = c THEN 1 ELSE 0) - (IF x = t THEN 1 ELSE 0)]
  /\ UNCHANGED <<main, quit, listening, proxying, shutdown, conn, up, done, job>>

-------------------------------------------------------------------------------
RunStep ==
  \/ Signal \/ Scavenge \/ ScavengeEnds \/ Quit \/ WaitReturns \/ RunReturns \/ Deadline

ShutdownStep == CloseListener \/ CloseLists \/ CloseEnds \/ CloseProxies

CloserStep(k) == CloseReturns(k) \/ \E c \in Conns : CloseConnection(k, c)

ConnStep(c) ==
  \/ Accept(c) \/ HandshakeFails(c) \/ AddConnection(c) \/ ClientLeaves(c)
  \/ HandlerEnds(c) \/ HandlerDone(c)

WorkerStep(w) ==
  \/ \E c \in Conns : StartSession(w, c) \/ \E t \in Conns : StartTunnel(w, c, t)
  \/ SessionEnds(w) \/ KickEnds(w) \/ OpenAnswered(w) \/ OpenFails(w)
  \/ AddTarget(w) \/ TunnelEnds(w) \/ AcceptProxy(w) \/ GreetingFails(w)
  \/ \E t \in Conns : ProxyOpens(w, t)
  \/ \E u \in Kicked : KickUser(w, u)

\* the process is gone
Gone == ~Alive /\ UNCHANGED vars

Next ==
  \/ RunStep \/ ShutdownStep \/ Gone
  \/ \E k \in Closers : CloserStep(k)
  \/ \E c \in Conns : ConnStep(c)
  \/ \E w \in Workers : WorkerStep(w)

Spec == Init /\ [][Next]_vars

HandlerRuns(c) ==
  \/ HandshakeFails(c) \/ AddConnection(c) \/ HandlerDone(c)
  \/ HandlerEnds(c) /\ (done[c] \/ ~up[c])

WorkerRuns(w) ==
  \/ CloserStep(w) \/ KickEnds(w) \/ GreetingFails(w)
  \/ OpenAnswered(w) \/ OpenFails(w) \/ AddTarget(w)

WorkerUnwinds(w) ==
  /\ \E c \in Conns \intersect {worker[w].on, worker[w].to} : ~up[c]
  /\ SessionEnds(w) \/ TunnelEnds(w)

(* Goroutines that can run do run; a handshake ends; a session or a tunnel ends
   when the transport of a connection it uses has; and the main loop picks up
   a pending signal although its timer competes with it.  A client answers,
   either way, when a tunnel to it is opened, and one of a proxy sends its
   request or leaves.  Only finitely many commands are left in the buffer of a
   session whose transport has ended.  The deadline may pass at any time but
   nothing relies on it, except DeadlineSpec. *)
Fairness ==
  /\ WF_vars(ScavengeEnds \/ WaitReturns \/ RunReturns \/ CloserStep("main"))
  /\ SF_vars(Quit)
  /\ WF_vars(CloseListener \/ CloseLists \/ CloseEnds \/ CloserStep("shutdown"))
  /\ WF_vars(CloseProxies)
  /\ \A c \in Conns : WF_vars(HandlerRuns(c))
  /\ \A w \in Workers : WF_vars(WorkerRuns(w)) /\ SF_vars(WorkerUnwinds(w))

FairSpec == Spec /\ Fairness

\* ... and once set, the deadline passes
DeadlineSpec == FairSpec /\ WF_vars(Deadline)

-------------------------------------------------------------------------------
(* Properties. *)

\* The state has the shape declared above; in particular no wait group ever
\* becomes negative, although a tunnel counts in two of them.
TypeOK ==
  /\ main \in Mains
  /\ quit \in BOOLEAN /\ listening \in BOOLEAN /\ proxying \in BOOLEAN
  /\ shutdown \in {"none", "listener", "list", "close", "returned"}
  /\ conn \in [Conns -> ConnPcs]
  /\ up \in [Conns -> BOOLEAN] /\ done \in [Conns -> BOOLEAN]
  /\ wg \in [Conns -> Nat]
  /\ worker \in [Workers -> [pc : WorkerPcs, on : Conns \union {NoConn},
                             to : Conns \union {NoConn}]]
  /\ job \in [Closers -> [todo : SUBSET Conns, on : Conns \union {NoConn}]]

\* When run returns, no connection is being served: also one whose handshake
\* ended after Close had listed the connections is closed, by the deferred second
\* Close, and one that a tunnel of a proxy was opened to meanwhile as well.  No
\* client of a proxy that run counts is left.  (A connection that had left the
\* list by itself, "deleted", is not waited for.)
ReturnsUnserved ==
  main = "returned" =>
    ~ProxiesServe /\ \A c \in Conns : conn[c] \notin {"handshake", "run"}

\* w counts in the wait group of c
Holds(w, c) ==
  worker[w].on = c \/ (worker[w].to = c /\ worker[w].pc \in {"tunnel", "bridge"})

\* connection.close returns only when the handler has ended and no session or
\* tunnel of the connection is left, nor a tunnel that leads to it: the handler
\* takes its token "before publishing the connection" (connection.go), and the
\* others count in the connection they were opened on.
CloseDrains ==
  [][\A k \in Closers : \A c \in Conns :
       job[k].on = c /\ job'[k].on # c /\ main' # "killed"
         => /\ conn[c] = "ended"
            /\ \A w \in Workers : ~Holds(w, c)]_vars

\* Whoever waits in connection.close waits for goroutines that come to an end by
\* themselves: the handler has been told; once it has ended the transport is
\* closed, so that sessions and tunnels unwind, and every token left is that of
\* one of them; and a session that kicks a user never waits for one that kicks,
\* as long as no administrator kicks themselves.
WaitsUnwind ==
  \A k \in Closers : \A c \in Conns :
    job[k].on = c =>
      /\ done[c]
      /\ conn[c] = "ended" => ~up[c] /\ (wg[c] # 0 => \E w \in Workers : Holds(w, c))
      /\ k \in Workers => \A w \in Workers : worker[w].on = c => worker[w].pc # "kicking"

\* Wait waits for the client of a proxy whose tunnel leads to a connection that
\* was published after Close had listed the connections: only the second Close
\* would end it, and that comes after Wait.
HeldByProxy ==
  /\ main = "wait" /\ shutdown = "returned"
  /\ \E w \in Workers :
       worker[w].on = NoConn /\ worker[w].pc = "tunnel" /\ conn[worker[w].to] = "run"

\* When there is a reason to quit, the process ends without relying on the
\* deadline: neither scavenger nor Close waits for ever for a connection, session,
\* tunnel or kick, as long as no administrator kicks themselves.  The one other
\* thing that can hold run in Wait is HeldByProxy.
ShutsDown == <>quit => <>~Alive \/ <>[]HeldByProxy

\* When there is a reason to quit, the process ends, in the worst case by the
\* deadline: "make sure there is a deadline on shutting down" (run.go).
DeadlineHolds == quit ~> ~Alive
===============================================================================

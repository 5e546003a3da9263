------------------------------- MODULE Routing -------------------------------
(* How a tunnel request finds the connection that exposes its service.

   A service is addressed as "service.username".  A node resolves the name
   against its own connections first (lookupConnectionService) and then, if the
   request comes from a client of its own, against the node that the database
   records for the user (lookupRemotePeer), through a cache of routes
   (gateway/routecache.go).  The request is then opened on that connection, or
   forwarded to that node, which resolves it once more.  handleTunnelChannel
   (gateway/connection.go) does this for ssh clients and openServiceTunnel
   (gateway/gateway.go) for the proxies.

   A name is the sequence of its labels; all services use one port.  Each
   critical section (connections, routes, peers) and each statement on the
   database is a step.  Where a user is, which peers are connected, who exposes
   what and which node a user's row names changes at any time and in any way.
   Presence, Peers and Session say how. *)
EXTENDS Naturals, Sequences, FiniteSets

CONSTANTS
  Nodes,      \* the nodes of the mesh
  Conns,      \* ssh connections; one that is closed may be opened again
  Users,      \* user names, as sequences of labels
  Services,   \* names of services, as sequences of labels
  Hosts,      \* the names clients ask for, as sequences of labels
  Requests,   \* tunnel requests; one that is over may be asked again
  Origins,    \* the nodes clients ask; only they forward and need peers
  NoNode,     \* the empty node_id
  NoConn,
  MaxEntries  \* routeCacheMaxEntries

ASSUME RoutingAssumption ==
  /\ NoNode \notin Nodes /\ NoConn \notin Conns
  /\ Origins \subseteq Nodes
  /\ MaxEntries \in Nat \ {0}
  /\ IsFiniteSet(Users)
  /\ \A h \in Hosts : h \in Seq({h[i] : i \in DOMAIN h}) /\ h # <<>>

VARIABLES
  index,     \* node: its connections, newest first
  user,      \* connection: its user
  services,  \* connection: the services it exposes
  row,       \* database: the user's node_id
  peer,      \* node, node: getPeer returns a connected peer
  routes,    \* node, user: the cached route, [node, fresh]
  request    \* tunnel request: [pc, at, host, i, via, cached, live, conn]

vars == <<index, user, services, row, peer, routes, request>>

NoRoute == [node |-> NoNode, fresh |-> FALSE]
Pcs == {"idle", "local", "get", "query", "peer", "put", "drop", "forward", "target",
        "opened", "failed", "refused", "notFound"}

-------------------------------------------------------------------------------
(* Names. *)

\* the i-th way to split a host into the name of a service and of a user
ServiceOf(host, i) == SubSeq(host, 1, i - 1)
UserOf(host, i) == SubSeq(host, i, Len(host))

Open(n) == {index[n][k] : k \in DOMAIN index[n]}

\* mutant: the service is looked for under any user whose name ends the host
MatchesAnyService(n, host) ==
  {p \in (DOMAIN host) \X (DOMAIN index[n]) :
     \E s \in Services : s \in services[index[n][p[2]]]}

\* positions in the order in which lookupConnectionService tries them
Matches(n, host) ==
  {p \in (DOMAIN host) \X (DOMAIN index[n]) :
     LET c == index[n][p[2]] IN
     user[c] = UserOf(host, p[1]) /\ ServiceOf(host, p[1]) \in services[c]}

lookupConnectionService(n, host) ==
  IF Matches(n, host) = {} THEN NoConn
  ELSE LET first == CHOOSE p \in Matches(n, host) :
                      \A q \in Matches(n, host) :
                        p[1] < q[1] \/ (p[1] = q[1] /\ p[2] <= q[2])
       IN index[n][first[2]]

-------------------------------------------------------------------------------
(* The cache of routes of one node, as its new value. *)

Entries(cache) == {u \in Users : cache[u] # NoRoute}

PutUnbounded(cache, u, n) ==  \* mutant
  [cache EXCEPT ![u] = [node |-> n, fresh |-> TRUE]]

\* put: drop expired entries when full, all entries if that does not help
Put(cache, u, n) ==
  LET Room(c) == Cardinality(Entries(c)) < MaxEntries
      purged == [v \in Users |-> IF cache[v].fresh THEN cache[v] ELSE NoRoute]
      base == IF Room(cache) THEN cache
              ELSE IF Room(purged) THEN purged
              ELSE [v \in Users |-> NoRoute]
  IN [base EXCEPT ![u] = [node |-> n, fresh |-> TRUE]]

\* invalidateRoutes: forget every user the host may stand for
InvalidateAll(cache, host) ==
  [u \in Users |-> IF \E i \in DOMAIN host : u = UserOf(host, i) THEN NoRoute
                   ELSE cache[u]]

-------------------------------------------------------------------------------
Idle == [pc |-> "idle", at |-> NoNode, host |-> <<>>, i |-> 1, via |-> NoNode,
         cached |-> FALSE, live |-> FALSE, conn |-> NoConn]

Init ==
  /\ index = [n \in Nodes |-> <<>>]
  /\ user = [c \in Conns |-> <<>>]
  /\ services = [c \in Conns |-> {}]
  /\ row = [u \in Users |-> NoNode]
  /\ peer = [n \in Nodes |-> [m \in Nodes |-> FALSE]]
  /\ routes = [n \in Nodes |-> [u \in Users |-> NoRoute]]
  /\ request = [q \in Requests |-> Idle]

Set(q, r) == request' = [request EXCEPT ![q] = r]

(* What changes around a request. *)

\* addConnection
Connect(c, n, u) ==
  /\ \A m \in Nodes : c \notin Open(m)
  /\ \A q \in Requests : request[q].conn # c
  /\ index' = [index EXCEPT ![n] = <<c>> \o @]
  /\ user' = [user EXCEPT ![c] = u]
  /\ services' = [services EXCEPT ![c] = {}]
  /\ UNCHANGED <<row, peer, routes, request>>

\* the client leaves or a handler fails, as registerService does for a service
\* the connection exposes already: deleteConnection; a connection is listed once
Disconnect(c, n) ==
  /\ \E k \in DOMAIN index[n] :
       /\ index[n][k] = c
       /\ index' = [index EXCEPT ![n] = SubSeq(@, 1, k - 1) \o SubSeq(@, k + 1, Len(@))]
  /\ UNCHANGED <<user, services, row, peer, routes, request>>

\* handleRequest, tcpip-forward: registerService
RegisterService(c, n, s) ==
  /\ c \in Open(n)
  /\ s \notin services[c]
  /\ services' = [services EXCEPT ![c] = @ \union {s}]
  /\ UNCHANGED <<index, user, row, peer, routes, request>>

\* handleRequest, cancel-tcpip-forward: deregisterService
DeregisterService(c, n, s) ==
  /\ c \in Open(n)
  /\ s \in services[c]
  /\ services' = [services EXCEPT ![c] = @ \ {s}]
  /\ UNCHANGED <<index, user, row, peer, routes, request>>

\* a login, a heartbeat or a release on some node writes the user's node_id
WriteRow(u, n) ==
  /\ row[u] # n
  /\ row' = [row EXCEPT ![u] = n]
  /\ UNCHANGED <<index, user, services, peer, routes, request>>

\* addPeer
PeerUp(n, m) ==
  /\ n # m /\ ~peer[n][m]
  /\ peer' = [peer EXCEPT ![n][m] = TRUE]
  /\ UNCHANGED <<index, user, services, row, routes, request>>

\* removePeer: requests that hold this peer can no longer open a channel on it
PeerDown(n, m) ==
  /\ peer[n][m]
  /\ peer' = [peer EXCEPT ![n][m] = FALSE]
  /\ request' = [q \in Requests |->
                   IF request[q].at = n /\ request[q].via = m
                   THEN [request[q] EXCEPT !.live = FALSE] ELSE request[q]]
  /\ UNCHANGED <<index, user, services, row, routes>>

\* routeCacheTimeToLive passes; the entry stays until put drops it
ExpireRoute(n, u) ==
  /\ routes[n][u].fresh
  /\ routes' = [routes EXCEPT ![n][u] = [node |-> @.node, fresh |-> FALSE]]
  /\ UNCHANGED <<index, user, services, row, peer, request>>

-------------------------------------------------------------------------------
(* A request. *)

\* a client with permission to forward ports, or a proxy client, asks node n
Ask(q, n, host) ==
  /\ request[q].pc = "idle"
  /\ Set(q, [Idle EXCEPT !.pc = "local", !.at = n, !.host = host])
  /\ UNCHANGED <<index, user, services, row, peer, routes>>

\* lookupConnectionService on the node the client asked
LookupLocal(q) ==
  LET r == request[q]
      c == lookupConnectionService(r.at, r.host) IN
  /\ r.pc = "local"
  /\ Set(q, IF c # NoConn THEN [r EXCEPT !.pc = "target", !.conn = c]
            ELSE [r EXCEPT !.pc = "get"])
  /\ UNCHANGED <<index, user, services, row, peer, routes>>

\* mutant: the candidates are tried one past the last label
NextCandidatePast(r) ==
  IF r.i <= Len(r.host)
  THEN [r EXCEPT !.pc = "get", !.i = @ + 1, !.via = NoNode, !.cached = FALSE]
  ELSE [r EXCEPT !.pc = "notFound", !.via = NoNode, !.cached = FALSE]

\* the request goes on with its next user candidate
NextCandidate(r) ==
  IF r.i < Len(r.host)
  THEN [r EXCEPT !.pc = "get", !.i = @ + 1, !.via = NoNode, !.cached = FALSE]
  ELSE [r EXCEPT !.pc = "notFound", !.via = NoNode, !.cached = FALSE]

Candidate(r) == UserOf(r.host, r.i)

\* what lookupRemotePeer does with a node_id, read or cached
Consider(r, node, cached) ==
  IF node \in {NoNode, r.at} THEN NextCandidate(r)
  ELSE [r EXCEPT !.pc = "peer", !.via = node, !.cached = cached]

\* mutant: an expired route is used until put drops it
RouteGetExpired(q) ==
  LET r == request[q]
      u == Candidate(r) IN
  /\ r.pc = "get"
  /\ Set(q, IF u \in Users /\ routes[r.at][u] # NoRoute
            THEN Consider(r, routes[r.at][u].node, TRUE)
            ELSE [r EXCEPT !.pc = "query"])
  /\ UNCHANGED <<index, user, services, row, peer, routes>>

\* routes.get
RouteGet(q) ==
  LET r == request[q]
      u == Candidate(r) IN
  /\ r.pc = "get"
  /\ Set(q, IF u \in Users /\ routes[r.at][u].fresh
            THEN Consider(r, routes[r.at][u].node, TRUE)
            ELSE [r EXCEPT !.pc = "query"])
  /\ UNCHANGED <<index, user, services, row, peer, routes>>

\* GetUserNodeID; an unknown user has no node
Query(q) ==
  LET r == request[q]
      u == Candidate(r) IN
  /\ r.pc = "query"
  /\ Set(q, Consider(r, IF u \in Users THEN row[u] ELSE NoNode, FALSE))
  /\ UNCHANGED <<index, user, services, row, peer, routes>>

\* GetUserNodeID fails: the other candidates are still tried
QueryError(q) ==
  /\ request[q].pc = "query"
  /\ Set(q, NextCandidate(request[q]))
  /\ UNCHANGED <<index, user, services, row, peer, routes>>

\* getPeer
GetPeer(q) ==
  LET r == request[q]
      up == peer[r.at][r.via] IN
  /\ r.pc = "peer"
  /\ Set(q, CASE up /\ r.cached -> [r EXCEPT !.pc = "forward", !.live = TRUE]
              [] up /\ ~r.cached -> [r EXCEPT !.pc = "put", !.live = TRUE]
              [] ~up /\ r.cached -> [r EXCEPT !.pc = "drop"]
              [] OTHER -> NextCandidate(r))
  /\ UNCHANGED <<index, user, services, row, peer, routes>>

\* routes.put of a route whose peer is connected
PutRoute(q) ==
  LET r == request[q] IN
  /\ r.pc = "put"
  /\ routes' = [routes EXCEPT ![r.at] = Put(@, Candidate(r), r.via)]
  /\ Set(q, [r EXCEPT !.pc = "forward"])
  /\ UNCHANGED <<index, user, services, row, peer>>

\* routes.invalidate of a cached route whose peer is gone
DropRoute(q) ==
  LET r == request[q] IN
  /\ r.pc = "drop"
  /\ routes' = [routes EXCEPT ![r.at][Candidate(r)] = NoRoute]
  /\ Set(q, NextCandidate(r))
  /\ UNCHANGED <<index, user, services, row, peer>>

\* openTunnel on the peer: its node looks the host up among its own
\* connections and never forwards; a request it cannot serve is accepted and
\* closed, which OpenChannel reports as success
Forward(q) ==
  LET r == request[q]
      c == lookupConnectionService(r.via, r.host) IN
  /\ r.pc = "forward"
  /\ r.live
  /\ Set(q, IF c # NoConn THEN [r EXCEPT !.pc = "target", !.conn = c]
            ELSE [r EXCEPT !.pc = "refused"])
  /\ UNCHANGED <<index, user, services, row, peer, routes>>

\* mutant: a request whose forwarding failed is looked up again
ForwardRetries(q) ==
  LET r == request[q] IN
  /\ r.pc = "forward"
  /\ ~r.live
  /\ routes' = [routes EXCEPT ![r.at] = InvalidateAll(@, r.host)]
  /\ Set(q, [Idle EXCEPT !.pc = "get", !.at = r.at, !.host = r.host])
  /\ UNCHANGED <<index, user, services, row, peer>>

\* openTunnel on the peer fails: invalidateRoutes
ForwardFails(q) ==
  LET r == request[q] IN
  /\ r.pc = "forward"
  /\ ~r.live
  /\ routes' = [routes EXCEPT ![r.at] = InvalidateAll(@, r.host)]
  /\ Set(q, [r EXCEPT !.pc = "failed"])
  /\ UNCHANGED <<index, user, services, row, peer>>

\* the node that resolved the request
ServedAt(r) == IF r.via = NoNode THEN r.at ELSE r.via

\* openTunnel on the connection, which may be gone
OpenTarget(q) ==
  LET r == request[q] IN
  /\ r.pc = "target"
  /\ Set(q, [r EXCEPT !.pc = IF r.conn \in Open(ServedAt(r)) THEN "opened"
                             ELSE IF r.via = NoNode THEN "failed" ELSE "refused"])
  /\ UNCHANGED <<index, user, services, row, peer, routes>>

\* the tunnel, or the attempt, is over
Finish(q) ==
  /\ request[q].pc \in {"opened", "failed", "refused", "notFound"}
  /\ Set(q, Idle)
  /\ UNCHANGED <<index, user, services, row, peer, routes>>

-------------------------------------------------------------------------------
RequestStep(q) ==
  \/ LookupLocal(q) \/ RouteGet(q) \/ Query(q) \/ QueryError(q) \/ GetPeer(q)
  \/ PutRoute(q) \/ DropRoute(q) \/ Forward(q) \/ ForwardFails(q)
  \/ OpenTarget(q) \/ Finish(q)

Environment ==
  \/ \E c \in Conns, n \in Nodes :
       \/ \E u \in Users : Connect(c, n, u)
       \/ Disconnect(c, n)
       \/ \E s \in Services : RegisterService(c, n, s) \/ DeregisterService(c, n, s)
  \/ \E u \in Users, n \in Nodes \union {NoNode} : WriteRow(u, n)
  \/ \E n \in Origins, m \in Nodes : PeerUp(n, m) \/ PeerDown(n, m)
  \/ \E n \in Origins, u \in Users : ExpireRoute(n, u)

Next ==
  \/ Environment
  \/ \E q \in Requests : RequestStep(q) \/ \E n \in Origins, h \in Hosts : Ask(q, n, h)

Spec == Init /\ [][Next]_vars

(* Requests are handled, a client that was turned away asks again, routes
   expire, and a query that is tried over and over is answered some time.
   Nothing else has to happen. *)
Fairness ==
  /\ \A q \in Requests : WF_vars(RequestStep(q))
  /\ \A q \in Requests, u \in Users, h \in Hosts :
       SF_vars(Query(q) /\ request[q].host = h /\ Candidate(request[q]) = u)
  /\ \A q \in Requests, n \in Origins, h \in Hosts : SF_vars(Ask(q, n, h))
  /\ \A n \in Origins, u \in Users : WF_vars(ExpireRoute(n, u))

FairSpec == Spec /\ Fairness

-------------------------------------------------------------------------------
(* Properties. *)

\* Connections, rows, routes and requests have values of their types; the
\* candidate a request has come to is one of its host's labels.
TypeOK ==
  /\ index \in [Nodes -> Seq(Conns)]
  /\ user \in [Conns -> Users \union {<<>>}]
  /\ services \in [Conns -> SUBSET Services]
  /\ row \in [Users -> Nodes \union {NoNode}]
  /\ peer \in [Nodes -> [Nodes -> BOOLEAN]]
  /\ routes \in [Nodes -> [Users -> [node : Nodes \union {NoNode}, fresh : BOOLEAN]]]
  /\ request \in [Requests -> [pc : Pcs, at : Nodes \union {NoNode},
                               host : Hosts \union {<<>>}, i : Nat,
                               via : Nodes \union {NoNode}, cached : BOOLEAN,
                               live : BOOLEAN, conn : Conns \union {NoConn}]]
  /\ \A q \in Requests : request[q].pc # "idle" => request[q].i \in DOMAIN request[q].host

\* A tunnel is only ever opened on a connection of a user whose name ends the
\* requested host and leaves the name of a service before it, also when the
\* request was forwarded and looked up again on another node while users moved.
OpenedForOwner ==
  \A q \in Requests :
    request[q].conn # NoConn =>
      \E i \in DOMAIN request[q].host :
        /\ user[request[q].conn] = UserOf(request[q].host, i)
        /\ ServiceOf(request[q].host, i) \in Services

\* The cache never grows past routeCacheMaxEntries.
RoutesBounded == \A n \in Nodes : Cardinality(Entries(routes[n])) <= MaxEntries

\* Every request comes to an end, however users, peers and routes change
\* meanwhile: the lookup goes through the candidates once, and neither a lost
\* peer nor a refusal makes it start over (lookupRemotePeer,
\* handleTunnelChannel).
RequestEnds == \A q \in Requests : request[q].pc # "idle" ~> request[q].pc = "idle"

Over(r) == r.pc \in {"opened", "failed", "refused", "notFound"}

\* where a request is: the local lookup, the loop over the candidates, the
\* tunnel to the peer, the tunnel to the connection, an outcome
Phase(pc) ==
  CASE pc = "local" -> 0
    [] pc \in {"get", "query", "peer", "put", "drop"} -> 1
    [] pc = "forward" -> 2
    [] pc = "target" -> 3
    [] OTHER -> 4

\* the steps of the loop's body
Turn(pc) == CASE pc = "get" -> 0 [] pc = "query" -> 1 [] pc = "peer" -> 2 [] OTHER -> 3

Later(r, s) ==
  \/ Phase(r.pc) < Phase(s.pc)
  \/ /\ Phase(r.pc) = 1 /\ Phase(s.pc) = 1
     /\ r.i < s.i \/ (r.i = s.i /\ Turn(r.pc) < Turn(s.pc))

\* what one step may do to a request
Advance(r, s) ==
  r.pc # "idle" /\ <<s.pc, s.i, s.via>> # <<r.pc, r.i, r.via>> =>
    \/ Over(r) /\ s = Idle
    \/ /\ ~Over(r) /\ s.pc # "idle" /\ Later(r, s)
       /\ s.at = r.at /\ s.host = r.host
       /\ Phase(r.pc) >= 2 => s.via = r.via

\* A request only goes forward, however users, peers and routes change
\* meanwhile: it considers each candidate user once and in order, is forwarded
\* at most once and to the node it chose, and ends at its first outcome, for the
\* host and on the node it was asked for (lookupRemotePeer, handleTunnelChannel).
\* With TypeOK, which bounds the candidates by the labels of the host, this
\* bounds the number of its steps.
RequestAdvances == [][\A q \in Requests : Advance(request[q], request'[q])]_vars

\* Node n can reach the host through the row of a user: the row names another
\* node to which n has a peer and where a connection of the user exposes the
\* service, and no other candidate user of the host has a row.
Reachable(n, host) ==
  \E i \in DOMAIN host :
    LET u == UserOf(host, i) IN
    /\ u \in Users
    /\ row[u] \in Nodes \ {n}
    /\ peer[n][row[u]]
    /\ \E c \in Open(row[u]) : user[c] = u /\ ServiceOf(host, i) \in services[c]
    /\ \A j \in DOMAIN host :
         UserOf(host, j) \in Users => j = i \/ row[UserOf(host, j)] = NoNode

\* Stale routes do not last: when users and peers have settled, requests for a
\* host that is reachable by the rows of the database are opened again and
\* again, whatever the cache held.
RoutesHeal ==
  <>[][UNCHANGED <<index, user, services, row, peer>>]_vars =>
    \A n \in Origins, h \in Hosts :
      <>[]Reachable(n, h) =>
        []<>(\E q \in Requests : request[q].pc = "opened" /\ request[q].host = h)

\* Once the other node has turned a forwarded tunnel away, the route it took is
\* no longer cached: "a tunnel the remote node rejects invalidates the cached
\* route" (mesh_integration_test.go).
RejectionForgetsRoute ==
  \A q \in Requests :
    request[q].pc = "refused" => routes[request[q].at][Candidate(request[q])] = NoRoute
===============================================================================

---------------------------- MODULE RoutingProofs ----------------------------
(* Proofs about Routing, for any nodes, connections, names and requests and any
   bound of the route cache. *)
EXTENDS Routing, Integers, FiniteSetTheorems, SequenceTheorems,
        WellFoundedInduction, NaturalsInduction, TLAPS

RouteType == [node : Nodes \union {NoNode}, fresh : BOOLEAN]
ReqType == [pc : Pcs, at : Nodes \union {NoNode}, host : Hosts \union {<<>>}, i : Nat,
            via : Nodes \union {NoNode}, cached : BOOLEAN, live : BOOLEAN,
            conn : Conns \union {NoConn}]

\* What a request knows at each of its steps.
Good(r) ==
  /\ r \in ReqType
  /\ r.pc = "idle" => r.conn = NoConn
  /\ r.pc # "idle" => r.at \in Nodes /\ r.host \in Hosts /\ r.i \in DOMAIN r.host
  /\ r.pc \in {"peer", "put", "drop", "forward"} => Candidate(r) \in Users /\ r.via \in Nodes

\* The connection c may serve the host: its user ends the host.
Serves(c, host) ==
  \E i \in DOMAIN host : user[c] = UserOf(host, i) /\ ServiceOf(host, i) \in Services

Requested == \A q \in Requests : Good(request[q])

\* The state around the requests.
Around ==
  /\ index \in [Nodes -> Seq(Conns)]
  /\ user \in [Conns -> Users \union {<<>>}]
  /\ services \in [Conns -> SUBSET Services]
  /\ row \in [Users -> Nodes \union {NoNode}]
  /\ peer \in [Nodes -> [Nodes -> BOOLEAN]]
  /\ routes \in [Nodes -> [Users -> RouteType]]
  /\ request \in [Requests -> ReqType]

IInv == Around /\ Requested /\ OpenedForOwner /\ RoutesBounded

-------------------------------------------------------------------------------
\* A nonempty set of natural numbers has a least element.
LEMMA NatMin ==
  ASSUME NEW T \in SUBSET Nat, T # {}
  PROVE  \E x \in T : \A y \in T : x <= y
  <1> DEFINE R == OpToRel(<, Nat)
  <1>1. IsWellFoundedOn(R, Nat)
    BY NatLessThanWellFounded
  <1>2. R = {ss \in Nat \X Nat : ss[1] < ss[2]}
    BY DEF OpToRel
  <1> HIDE DEF R
  <1>3. PICK x \in T : \A y \in T : ~ (<<y, x>> \in R)
    BY <1>1, WFMin
  <1>4. \A y \in T : ~(y < x)
    BY <1>2, <1>3
  <1> QED BY <1>4

\* The labels of a host are numbered from one.
LEMMA Labels ==
  ASSUME NEW h \in Hosts
  PROVE  Len(h) \in Nat /\ DOMAIN h = 1 .. Len(h) /\ 1 \in DOMAIN h
  <1> DEFINE S == {h[i] : i \in DOMAIN h}
  <1>1. h \in Seq(S) /\ h # <<>>
    BY RoutingAssumption
  <1> HIDE DEF S
  <1>2. Len(h) # 0
    BY <1>1, EmptySeq
  <1> QED BY <1>1, <1>2

\* The connection c answers for the host split at label i.
Answers(c, host, i) == user[c] = UserOf(host, i) /\ ServiceOf(host, i) \in services[c]

\* Nobody listed on n answers for the host under any split.
NobodyAnswers(n, host) ==
  \A j \in DOMAIN host, m \in DOMAIN index[n] : ~Answers(index[n][m], host, j)

\* c answers for the host under the split that leaves the longest user name, and
\* is the newest connection that does.
AnswersFirst(n, host, c) ==
  \E i \in DOMAIN host, k \in DOMAIN index[n] :
    /\ c = index[n][k] /\ Answers(c, host, i)
    /\ \A j \in DOMAIN host, m \in DOMAIN index[n] :
         j < i \/ (j = i /\ m < k) => ~Answers(index[n][m], host, j)

\* lookupConnectionService returns the first connection that answers, or none
\* when nobody does: the order in which candidates are tried has a first one.
LEMMA LookupFirst ==
  ASSUME Around, NEW n \in Nodes, NEW host \in Hosts
  PROVE  LET c == lookupConnectionService(n, host) IN
         \/ c = NoConn /\ NobodyAnswers(n, host)
         \/ c \in Conns /\ AnswersFirst(n, host, c)
  <1> DEFINE M == Matches(n, host)
             c == lookupConnectionService(n, host)
             before(p, q) == p[1] < q[1] \/ (p[1] = q[1] /\ p[2] <= q[2])
  <1>1. /\ M = {} => c = NoConn
        /\ M # {} => c = index[n][(CHOOSE p \in M : \A q \in M : before(p, q))[2]]
    BY DEF lookupConnectionService
  <1>2. /\ index[n] \in Seq(Conns) /\ DOMAIN index[n] = 1 .. Len(index[n])
        /\ Len(index[n]) \in Nat
    BY DEF Around
  <1>3. \A p \in M : /\ p = <<p[1], p[2]>>
                     /\ p[1] \in DOMAIN host /\ p[1] \in Nat
                     /\ p[2] \in DOMAIN index[n] /\ p[2] \in Nat
                     /\ Answers(index[n][p[2]], host, p[1])
    BY <1>2, Labels DEF Matches, Answers
  <1>4. \A j \in DOMAIN host, m \in DOMAIN index[n] :
          Answers(index[n][m], host, j) => <<j, m>> \in M
    BY DEF Matches, Answers
  <1> HIDE DEF M, c
  <1>5. CASE M = {}
    BY <1>1, <1>4, <1>5 DEF NobodyAnswers, c
  <1>6. CASE M # {}
    <2>1. \E p \in M : \A q \in M : before(p, q)
      <3>1. PICK i \in {p[1] : p \in M} : \A j \in {p[1] : p \in M} : i <= j
        <4>1. {p[1] : p \in M} \in SUBSET Nat /\ {p[1] : p \in M} # {}
          BY <1>3, <1>6
        <4> QED BY <4>1, NatMin
      <3> DEFINE T == {p[2] : p \in {p \in M : p[1] = i}}
      <3>2. T \in SUBSET Nat /\ T # {}
        BY <1>3, <3>1
      <3>3. PICK k \in T : \A j \in T : k <= j
        <4> HIDE DEF T
        <4> QED BY <3>2, NatMin
      <3>4. PICK p \in M : p[1] = i /\ p[2] = k
        BY <3>3
      <3>5. \A q \in M : i <= q[1] /\ (q[1] = i => k <= q[2])
        BY <3>1, <3>3
      <3> QED BY <1>3, <3>4, <3>5
    <2>2. PICK p \in M : c = index[n][p[2]] /\ \A q \in M : before(p, q)
      <3> DEFINE first == CHOOSE p \in M : \A q \in M : before(p, q)
      <3>1. first \in M /\ \A q \in M : before(first, q)
        <4> HIDE DEF before
        <4> QED BY <2>1
      <3> QED BY <1>1, <1>6, <3>1
    <2> DEFINE i == p[1]
               k == p[2]
    <2>3. /\ i \in DOMAIN host /\ i \in Nat /\ k \in DOMAIN index[n] /\ k \in Nat
          /\ c = index[n][k] /\ Answers(c, host, i)
      BY <1>3, <2>2
    <2>4. ASSUME NEW j \in DOMAIN host, NEW m \in DOMAIN index[n],
                 Answers(index[n][m], host, j)
          PROVE  ~(j < i \/ (j = i /\ m < k))
      <3>1. i < j \/ (i = j /\ k <= m)
        <4>1. <<j, m>> \in M
          BY <1>4, <2>4
        <4>2. before(p, <<j, m>>)
          BY <2>2, <4>1
        <4> QED BY <4>2
      <3>2. j \in Nat /\ m \in Nat
        BY <1>2, Labels
      <3> HIDE DEF i, k
      <3> QED BY <2>3, <3>1, <3>2
    <2> HIDE DEF i, k
    <2>5. AnswersFirst(n, host, c)
      BY <2>3, <2>4 DEF AnswersFirst
    <2>6. c \in Conns
      BY <1>2, <2>3
    <2> QED BY <2>5, <2>6 DEF c
  <1> QED BY <1>5, <1>6

\* So what it returns is a connection whose user ends the host.
LEMMA LookupServes ==
  ASSUME Around, NEW n \in Nodes, NEW host \in Hosts,
         lookupConnectionService(n, host) # NoConn
  PROVE  /\ lookupConnectionService(n, host) \in Conns
         /\ Serves(lookupConnectionService(n, host), host)
  <1> DEFINE c == lookupConnectionService(n, host)
  <1>1. c \in Conns /\ AnswersFirst(n, host, c)
    BY LookupFirst
  <1> HIDE DEF c
  <1>2. PICK i \in DOMAIN host : Answers(c, host, i)
    BY <1>1 DEF AnswersFirst
  <1>3. ServiceOf(host, i) \in Services
    BY <1>1, <1>2 DEF Around, Answers
  <1>4. Serves(c, host)
    BY <1>2, <1>3 DEF Serves, Answers
  <1> QED BY <1>1, <1>4 DEF c

-------------------------------------------------------------------------------
\* The entries of a cache of routes are finitely many.
LEMMA EntriesFinite ==
  ASSUME NEW cache
  PROVE  IsFiniteSet(Entries(cache)) /\ Cardinality(Entries(cache)) \in Nat
  <1>1. Entries(cache) \in SUBSET Users
    BY DEF Entries
  <1>2. IsFiniteSet(Entries(cache))
    BY <1>1, FS_Subset, RoutingAssumption
  <1> QED BY <1>2, FS_CardinalityType

\* A cache with a part of the entries of another is no larger.
LEMMA FewerEntries ==
  ASSUME NEW old, NEW new, Entries(new) \subseteq Entries(old)
  PROVE  Cardinality(Entries(new)) <= Cardinality(Entries(old))
  <1>1. Entries(new) \in SUBSET Entries(old)
    OBVIOUS
  <1> QED BY <1>1, EntriesFinite, FS_Subset

\* routeCache.put keeps the bound and the type of a cache.
LEMMA PutBounded ==
  ASSUME NEW cache \in [Users -> RouteType], NEW u \in Users, NEW n \in Nodes,
         Cardinality(Entries(cache)) <= MaxEntries
  PROVE  /\ Put(cache, u, n) \in [Users -> RouteType]
         /\ Cardinality(Entries(Put(cache, u, n))) <= MaxEntries
  <1> DEFINE purged == [v \in Users |-> IF cache[v].fresh THEN cache[v] ELSE NoRoute]
             none == [v \in Users |-> NoRoute]
             new(base) == [base EXCEPT ![u] = [node |-> n, fresh |-> TRUE]]
  <1>1. NoRoute \in RouteType /\ [node |-> n, fresh |-> TRUE] \in RouteType
    BY DEF NoRoute, RouteType
  <1>2. purged \in [Users -> RouteType] /\ none \in [Users -> RouteType]
    BY <1>1
  <1>3. Cardinality(Entries(none)) < MaxEntries
    <2>1. Entries(none) = {}
      BY DEF Entries
    <2>2. Cardinality(Entries(none)) = 0
      BY <2>1, FS_EmptySet
    <2> QED BY <2>2, RoutingAssumption
  <1> HIDE DEF purged, none
  <1>4. ASSUME NEW base \in [Users -> RouteType], Cardinality(Entries(base)) < MaxEntries
        PROVE  /\ new(base) \in [Users -> RouteType]
               /\ Cardinality(Entries(new(base))) <= MaxEntries
    <2>1. new(base) \in [Users -> RouteType]
      BY <1>1
    <2>2. Entries(new(base)) \in SUBSET (Entries(base) \union {u})
      BY DEF Entries
    <2>3. /\ IsFiniteSet(Entries(base) \union {u})
          /\ Cardinality(Entries(base) \union {u}) <= Cardinality(Entries(base)) + 1
      <3>1. IsFiniteSet(Entries(base)) /\ Cardinality(Entries(base)) \in Nat
        BY EntriesFinite, FS_CardinalityType
      <3> HIDE DEF new
      <3>2. /\ IsFiniteSet(Entries(base) \union {u})
            /\ Cardinality(Entries(base) \union {u}) =
                 IF u \in Entries(base) THEN Cardinality(Entries(base))
                 ELSE Cardinality(Entries(base)) + 1
        BY <3>1, FS_AddElement, Zenon
      <3>3. PICK d : d = Cardinality(Entries(base) \union {u})
        OBVIOUS
      <3>4. d = Cardinality(Entries(base)) \/ d = Cardinality(Entries(base)) + 1
        BY <3>2, <3>3, Zenon
      <3>5. d <= Cardinality(Entries(base)) + 1
        BY <3>1, <3>4
      <3> QED BY <3>2, <3>3, <3>5
    <2>4. Cardinality(Entries(new(base))) <= Cardinality(Entries(base) \union {u})
      BY <2>2, <2>3, FS_Subset
    <2>5. /\ Cardinality(Entries(new(base))) \in Nat /\ Cardinality(Entries(base)) \in Nat
          /\ Cardinality(Entries(base) \union {u}) \in Nat
      BY <2>3, EntriesFinite, FS_CardinalityType
    <2> QED BY <1>4, <2>1, <2>3, <2>4, <2>5, RoutingAssumption
  <1>5. PICK base \in {cache, purged, none} :
          Put(cache, u, n) = new(base) /\ Cardinality(Entries(base)) < MaxEntries
    BY <1>3 DEF Put, purged, none
  <1> QED BY <1>2, <1>4, <1>5

\* The steps around the requests keep IInv.
LEMMA EnvironmentInv ==
  ASSUME IInv, Environment
  PROVE  IInv'
  <1> USE DEF IInv
  <1>1. ASSUME NEW c \in Conns, NEW n \in Nodes, NEW u \in Users, Connect(c, n, u) PROVE IInv'
    <2>1. index' \in [Nodes -> Seq(Conns)]
      <3>1. <<c>> \o index[n] \in Seq(Conns)
        BY DEF Around
      <3> QED BY <1>1, <3>1 DEF Connect, Around
    <2>2. Around'
      BY <1>1, <2>1 DEF Connect, Around
    <2>3. Requested' /\ RoutesBounded'
      BY <1>1 DEF Connect, Requested, RoutesBounded
    <2>4. \A d \in Conns : d # c => user'[d] = user[d]
      BY <1>1 DEF Connect, Around
    <2>5. OpenedForOwner'
      BY <1>1, <2>4 DEF Connect, OpenedForOwner, Around, ReqType
    <2> QED BY <2>2, <2>3, <2>5
  <1>2. ASSUME NEW c \in Conns, NEW n \in Nodes, Disconnect(c, n) PROVE IInv'
    <2>1. PICK k \in DOMAIN index[n] :
            index' = [index EXCEPT ![n] = SubSeq(index[n], 1, k - 1)
                                            \o SubSeq(index[n], k + 1, Len(index[n]))]
      BY <1>2 DEF Disconnect
    <2>2. index[n] \in Seq(Conns) /\ k \in 1 .. Len(index[n]) /\ Len(index[n]) \in Nat
      BY DEF Around
    <2>3. SubSeq(index[n], 1, k - 1) \in Seq(Conns)
      BY <2>2, SubSeqProperties
    <2>4. SubSeq(index[n], k + 1, Len(index[n])) \in Seq(Conns)
      BY <2>2, SubSeqProperties
    <2>5. index' \in [Nodes -> Seq(Conns)]
      BY <2>1, <2>3, <2>4, ConcatProperties DEF Around
    <2> QED BY <1>2, <2>5 DEF Disconnect, Around, Requested, RoutesBounded, OpenedForOwner
  <1>3. ASSUME NEW c \in Conns, NEW n \in Nodes, NEW s \in Services,
               RegisterService(c, n, s) \/ DeregisterService(c, n, s)
        PROVE  IInv'
    <2>1. /\ \/ services' = [services EXCEPT ![c] = @ \union {s}]
             \/ services' = [services EXCEPT ![c] = @ \ {s}]
          /\ UNCHANGED <<index, user, row, peer, routes, request>>
      BY <1>3 DEF RegisterService, DeregisterService
    <2>2. services \in [Conns -> SUBSET Services]
      BY DEF Around
    <2>3. services' \in [Conns -> SUBSET Services]
      BY <2>1, <2>2
    <2> QED BY <2>1, <2>3 DEF Around, Requested, RoutesBounded, OpenedForOwner
  <1>4. ASSUME NEW u \in Users, NEW n \in Nodes \union {NoNode}, WriteRow(u, n) PROVE IInv'
    BY <1>4 DEF WriteRow, Around, Requested, RoutesBounded, OpenedForOwner
  <1>5. ASSUME NEW n \in Origins, NEW m \in Nodes, PeerUp(n, m) PROVE IInv'
    BY <1>5, RoutingAssumption DEF PeerUp, Around, Requested, RoutesBounded, OpenedForOwner
  <1>6. ASSUME NEW n \in Origins, NEW m \in Nodes, PeerDown(n, m) PROVE IInv'
    <2>1. UNCHANGED <<index, user, services, row, routes>>
          /\ peer' \in [Nodes -> [Nodes -> BOOLEAN]]
      BY <1>6, RoutingAssumption DEF PeerDown, Around
    <2>2. \A q \in Requests :
            /\ request'[q] \in ReqType
            /\ request'[q].pc = request[q].pc /\ request'[q].conn = request[q].conn
            /\ request'[q].at = request[q].at /\ request'[q].host = request[q].host
            /\ request'[q].i = request[q].i /\ request'[q].via = request[q].via
      <3>1. SUFFICES ASSUME NEW q \in Requests
                     PROVE  /\ request'[q] \in ReqType
                            /\ request'[q].pc = request[q].pc
                            /\ request'[q].conn = request[q].conn
                            /\ request'[q].at = request[q].at
                            /\ request'[q].host = request[q].host
                            /\ request'[q].i = request[q].i
                            /\ request'[q].via = request[q].via
        OBVIOUS
      <3>2. request[q] \in ReqType
        BY DEF Around
      <3>3. request'[q] \in {request[q], [request[q] EXCEPT !.live = FALSE]}
        BY <1>6 DEF PeerDown
      <3> HIDE DEF IInv
      <3> QED BY <3>2, <3>3 DEF ReqType
    <2>3. request' \in [Requests -> ReqType]
      BY <1>6, <2>2 DEF PeerDown
    <2>4. Around'
      BY <2>1, <2>3 DEF Around
    <2>5. Requested'
      BY <2>2 DEF Requested, Good, Candidate
    <2>6. OpenedForOwner' /\ RoutesBounded'
      BY <2>1, <2>2 DEF OpenedForOwner, RoutesBounded
    <2> QED BY <2>4, <2>5, <2>6
  <1>7. ASSUME NEW n \in Origins, NEW u \in Users, ExpireRoute(n, u) PROVE IInv'
    <2>1. UNCHANGED <<index, user, services, row, peer, request>> /\ n \in Nodes
      BY <1>7, RoutingAssumption DEF ExpireRoute
    <2> DEFINE old == [node |-> routes[n][u].node, fresh |-> FALSE]
    <2>a. old \in RouteType /\ routes[n][u] # NoRoute
      BY <1>7, <2>1 DEF ExpireRoute, Around, RouteType, NoRoute
    <2>b. routes' = [routes EXCEPT ![n][u] = old]
      BY <1>7 DEF ExpireRoute
    <2> HIDE DEF old
    <2>2. /\ routes' \in [Nodes -> [Users -> RouteType]]
          /\ \A m \in Nodes, v \in Users :
               routes'[m][v] # NoRoute => routes[m][v] # NoRoute
      BY <2>1, <2>a, <2>b DEF Around
    <2>3. \A m \in Nodes : Entries(routes'[m]) \subseteq Entries(routes[m])
      BY <2>2 DEF Entries
    <2>4. RoutesBounded'
      BY <2>3, FewerEntries, EntriesFinite, RoutingAssumption DEF RoutesBounded
    <2> QED BY <2>1, <2>2, <2>4 DEF Around, Requested, OpenedForOwner
  <1> QED BY <1>1, <1>2, <1>3, <1>4, <1>5, <1>6, <1>7 DEF Environment

-------------------------------------------------------------------------------
\* A request that goes on to a good state, on the connection it had or on one
\* that serves the host, keeps IInv when the cache keeps its type and bound.
LEMMA RequestMoves ==
  ASSUME IInv, NEW q \in Requests, NEW r, Good(r), Set(q, r),
         UNCHANGED <<index, user, services, row, peer>>,
         routes' \in [Nodes -> [Users -> RouteType]], RoutesBounded',
         \/ r.conn = NoConn
         \/ r.conn = request[q].conn /\ r.host = request[q].host
         \/ Serves(r.conn, r.host)
  PROVE  IInv'
  <1> USE DEF IInv
  <1>1. r \in ReqType
    BY DEF Good
  <1>2. /\ request' \in [Requests -> ReqType] /\ request'[q] = r
        /\ \A p \in Requests : p # q => request'[p] = request[p]
    BY <1>1 DEF Around, Set
  <1>3. Around'
    BY <1>2 DEF Around
  <1>4. Requested'
    BY <1>2 DEF Requested
  <1>5. OpenedForOwner'
    BY <1>2 DEF OpenedForOwner, Serves
  <1> QED BY <1>3, <1>4, <1>5

\* The same for a step that leaves the cache alone.
LEMMA RequestOnly ==
  ASSUME IInv, NEW q \in Requests, NEW r, Good(r), Set(q, r),
         UNCHANGED <<index, user, services, row, peer, routes>>,
         \/ r.conn = NoConn
         \/ r.conn = request[q].conn /\ r.host = request[q].host
         \/ Serves(r.conn, r.host)
  PROVE  IInv'
  <1>1. routes' \in [Nodes -> [Users -> RouteType]] /\ RoutesBounded'
    BY DEF IInv, Around, RoutesBounded
  <1> QED BY <1>1, RequestMoves

\* Going on with the next candidate is good: it stops at the last label.
LEMMA NextIsGood ==
  ASSUME NEW r, Good(r), r.pc # "idle"
  PROVE  /\ Good(NextCandidate(r))
         /\ NextCandidate(r).conn = r.conn /\ NextCandidate(r).host = r.host
  <1> DEFINE s == NextCandidate(r)
  <1>1. r \in ReqType /\ r.at \in Nodes /\ r.host \in Hosts /\ r.i \in DOMAIN r.host
    BY DEF Good
  <1>2. Len(r.host) \in Nat /\ DOMAIN r.host = 1 .. Len(r.host)
    BY <1>1, Labels
  <1>3. /\ s \in ReqType /\ s.pc \in {"get", "notFound"}
        /\ s.conn = r.conn /\ s.host = r.host /\ s.at = r.at
        /\ s.i = r.i \/ (r.i < Len(r.host) /\ s.i = r.i + 1)
    <2>1. /\ NoNode \in Nodes \union {NoNode} /\ {"get", "notFound"} \subseteq Pcs
          /\ r.i \in Nat /\ r.i + 1 \in Nat
      BY <1>1, <1>2 DEF Pcs
    <2>2. CASE r.i < Len(r.host)
      <3>1. s = [r EXCEPT !.pc = "get", !.i = r.i + 1, !.via = NoNode, !.cached = FALSE]
        BY <2>2 DEF NextCandidate
      <3> HIDE DEF s
      <3> QED BY <1>1, <2>1, <2>2, <3>1 DEF ReqType
    <2>3. CASE ~(r.i < Len(r.host))
      <3>1. s = [r EXCEPT !.pc = "notFound", !.via = NoNode, !.cached = FALSE]
        BY <2>3 DEF NextCandidate
      <3> HIDE DEF s
      <3> QED BY <1>1, <2>1, <3>1 DEF ReqType
    <2> QED BY <2>2, <2>3
  <1> HIDE DEF s
  <1>4. s.i \in DOMAIN s.host
    BY <1>1, <1>2, <1>3
  <1>5. Good(s)
    BY <1>1, <1>3, <1>4 DEF Good
  <1> QED BY <1>3, <1>5 DEF s

\* Considering the node of a candidate that is a user is good.
LEMMA ConsiderIsGood ==
  ASSUME NEW r, Good(r), r.pc # "idle", NEW node \in Nodes \union {NoNode},
         NEW cached \in BOOLEAN, node # NoNode => Candidate(r) \in Users
  PROVE  /\ Good(Consider(r, node, cached))
         /\ Consider(r, node, cached).conn = r.conn
         /\ Consider(r, node, cached).host = r.host
  <1>1. CASE node \in {NoNode, r.at}
    BY <1>1, NextIsGood DEF Consider
  <1>2. CASE node \notin {NoNode, r.at}
    <2> DEFINE s == Consider(r, node, cached)
    <2>1. r \in ReqType
      BY DEF Good
    <2>2. /\ s \in ReqType /\ s.pc = "peer" /\ s.via = node
          /\ s.conn = r.conn /\ s.host = r.host /\ s.at = r.at /\ s.i = r.i
      BY <1>2, <2>1 DEF Consider, ReqType, Pcs
    <2> HIDE DEF s
    <2>3. Good(s)
      BY <1>2, <2>2 DEF Good, Candidate
    <2> QED BY <2>2, <2>3 DEF s
  <1> QED BY <1>1, <1>2

\* The idle request is good.
LEMMA IdleIsGood == Good(Idle) /\ Idle.conn = NoConn
  <1>1. Idle \in ReqType
    BY DEF Idle, ReqType, Pcs
  <1> QED BY <1>1 DEF Good, Idle

\* A request that only changes its step, to one for which nothing more has to
\* be known, stays good.
LEMMA PcIsGood ==
  ASSUME NEW r, Good(r), r.pc # "idle", NEW s, s \in ReqType, s.pc # "idle",
         s.at = r.at, s.host = r.host, s.i = r.i, s.via = r.via,
         s.pc \in {"peer", "put", "drop", "forward"} =>
           r.pc \in {"peer", "put", "drop", "forward"}
  PROVE  Good(s)
  BY DEF Good, Candidate

\* A step of a request keeps IInv.
LEMMA RequestInv ==
  ASSUME IInv, NEW q \in Requests, RequestStep(q)
  PROVE  IInv'
  <1> DEFINE r == request[q]
  <1>0. /\ Good(r) /\ r \in ReqType /\ Around /\ RoutesBounded
        /\ r.pc # "idle" => r.at \in Nodes /\ r.host \in Hosts
    BY DEF IInv, Around, Requested, Good
  <1> DEFINE same(s) == s.conn = r.conn /\ s.host = r.host
  <1>1. ASSUME LookupLocal(q) PROVE IInv'
    <2> DEFINE c == lookupConnectionService(r.at, r.host)
    <2>1. CASE c # NoConn
      <3> DEFINE s == [r EXCEPT !.pc = "target", !.conn = c]
      <3>1. r.pc = "local" /\ Set(q, s) /\ UNCHANGED <<index, user, services, row, peer, routes>>
        BY <1>1, <2>1 DEF LookupLocal
      <3>2. c \in Conns /\ Serves(c, r.host)
        BY <1>0, <2>1, <3>1, LookupServes
      <3> HIDE DEF c
      <3>3. /\ s \in ReqType /\ s.pc = "target" /\ s.conn = c
            /\ s.at = r.at /\ s.host = r.host /\ s.i = r.i /\ s.via = r.via
        BY <1>0, <3>2 DEF ReqType, Pcs
      <3> HIDE DEF s
      <3>4. Good(s)
        BY <1>0, <3>1, <3>3, PcIsGood
      <3> QED BY <3>1, <3>2, <3>3, <3>4, RequestOnly
    <2>2. CASE c = NoConn
      <3> DEFINE s == [r EXCEPT !.pc = "get"]
      <3>1. r.pc = "local" /\ Set(q, s) /\ UNCHANGED <<index, user, services, row, peer, routes>>
        BY <1>1, <2>2 DEF LookupLocal
      <3>2. /\ s \in ReqType /\ s.pc = "get" /\ same(s)
            /\ s.at = r.at /\ s.i = r.i /\ s.via = r.via
        BY <1>0 DEF ReqType, Pcs
      <3> HIDE DEF s
      <3>3. Good(s)
        BY <1>0, <3>1, <3>2, PcIsGood
      <3> QED BY <3>1, <3>2, <3>3, RequestOnly
    <2> QED BY <2>1, <2>2
  <1>2. ASSUME RouteGet(q) PROVE IInv'
    <2> DEFINE u == Candidate(r)
    <2>1. r.pc = "get" /\ UNCHANGED <<index, user, services, row, peer, routes>>
      BY <1>2 DEF RouteGet
    <2>2. CASE u \in Users /\ routes[r.at][u].fresh
      <3> DEFINE s == Consider(r, routes[r.at][u].node, TRUE)
      <3>1. Set(q, s)
        BY <1>2, <2>2 DEF RouteGet
      <3>2. routes[r.at][u].node \in Nodes \union {NoNode}
        BY <1>0, <2>1, <2>2 DEF Around, RouteType
      <3>3. Good(s) /\ same(s)
        BY <1>0, <2>1, <2>2, <3>2, ConsiderIsGood
      <3> HIDE DEF s
      <3> QED BY <2>1, <3>1, <3>3, RequestOnly
    <2>3. CASE ~(u \in Users /\ routes[r.at][u].fresh)
      <3> DEFINE s == [r EXCEPT !.pc = "query"]
      <3>1. Set(q, s)
        BY <1>2, <2>3 DEF RouteGet
      <3>2. /\ s \in ReqType /\ s.pc = "query" /\ same(s)
            /\ s.at = r.at /\ s.i = r.i /\ s.via = r.via
        BY <1>0 DEF ReqType, Pcs
      <3> HIDE DEF s
      <3>3. Good(s)
        BY <1>0, <2>1, <3>2, PcIsGood
      <3> QED BY <2>1, <3>1, <3>2, <3>3, RequestOnly
    <2> QED BY <2>2, <2>3
  <1>3. ASSUME Query(q) PROVE IInv'
    <2> DEFINE u == Candidate(r)
               node == IF u \in Users THEN row[u] ELSE NoNode
               s == Consider(r, node, FALSE)
    <2>1. r.pc = "query" /\ Set(q, s) /\ UNCHANGED <<index, user, services, row, peer, routes>>
      BY <1>3 DEF Query
    <2>2. node \in Nodes \union {NoNode} /\ (node # NoNode => u \in Users)
      BY <1>0 DEF Around
    <2> HIDE DEF node
    <2>3. Good(s) /\ same(s)
      BY <1>0, <2>1, <2>2, ConsiderIsGood
    <2> HIDE DEF s
    <2> QED BY <2>1, <2>3, RequestOnly
  <1>4. ASSUME QueryError(q) PROVE IInv'
    <2> DEFINE s == NextCandidate(r)
    <2>1. r.pc = "query" /\ Set(q, s) /\ UNCHANGED <<index, user, services, row, peer, routes>>
      BY <1>4 DEF QueryError
    <2>2. Good(s) /\ same(s)
      BY <1>0, <2>1, NextIsGood
    <2> HIDE DEF s
    <2> QED BY <2>1, <2>2, RequestOnly
  <1>5. ASSUME GetPeer(q) PROVE IInv'
    <2> DEFINE up == peer[r.at][r.via]
               fwd == [r EXCEPT !.pc = "forward", !.live = TRUE]
               put == [r EXCEPT !.pc = "put", !.live = TRUE]
               drop == [r EXCEPT !.pc = "drop"]
    <2>1. r.pc = "peer" /\ UNCHANGED <<index, user, services, row, peer, routes>>
      BY <1>5 DEF GetPeer
    <2>2. PICK s \in {fwd, put, drop, NextCandidate(r)} : Set(q, s)
      BY <1>5 DEF GetPeer
    <2>3. ASSUME s \in {fwd, put, drop} PROVE Good(s) /\ same(s)
      <3>1. /\ s \in ReqType /\ s.pc \in {"forward", "put", "drop"} /\ same(s)
            /\ s.at = r.at /\ s.i = r.i /\ s.via = r.via
        BY <1>0, <2>3 DEF ReqType, Pcs
      <3> QED BY <1>0, <2>1, <3>1, PcIsGood
    <2>4. ASSUME s = NextCandidate(r) PROVE Good(s) /\ same(s)
      BY <1>0, <2>1, <2>4, NextIsGood
    <2> QED BY <2>1, <2>2, <2>3, <2>4, RequestOnly
  <1>6. ASSUME PutRoute(q) PROVE IInv'
    <2> DEFINE s == [r EXCEPT !.pc = "forward"]
               new == Put(routes[r.at], Candidate(r), r.via)
    <2>1. /\ r.pc = "put" /\ Set(q, s) /\ UNCHANGED <<index, user, services, row, peer>>
          /\ routes' = [routes EXCEPT ![r.at] = new]
      BY <1>6 DEF PutRoute
    <2>2. /\ s \in ReqType /\ s.pc = "forward" /\ same(s)
          /\ s.at = r.at /\ s.i = r.i /\ s.via = r.via
      BY <1>0 DEF ReqType, Pcs
    <2> HIDE DEF s
    <2>3. Good(s)
      BY <1>0, <2>1, <2>2, PcIsGood
    <2>4. new \in [Users -> RouteType] /\ Cardinality(Entries(new)) <= MaxEntries
      <3>1. /\ r.at \in Nodes /\ Candidate(r) \in Users /\ r.via \in Nodes
            /\ routes[r.at] \in [Users -> RouteType]
            /\ Cardinality(Entries(routes[r.at])) <= MaxEntries
        BY <1>0, <2>1 DEF Good, Around, RoutesBounded
      <3> QED BY <3>1, PutBounded
    <2> HIDE DEF new
    <2>5. routes' \in [Nodes -> [Users -> RouteType]] /\ RoutesBounded'
      BY <1>0, <2>1, <2>4 DEF Around, RoutesBounded
    <2> QED BY <2>1, <2>2, <2>3, <2>5, RequestMoves
  <1>7. ASSUME NEW n \in Nodes, NEW new \in [Users -> RouteType],
               \A v \in Users : new[v] \in {NoRoute, routes[n][v]},
               routes' = [routes EXCEPT ![n] = new]
        PROVE  routes' \in [Nodes -> [Users -> RouteType]] /\ RoutesBounded'
    <2>1. routes' \in [Nodes -> [Users -> RouteType]] /\ routes'[n] = new
          /\ \A m \in Nodes : m # n => routes'[m] = routes[m]
      BY <1>0, <1>7 DEF Around
    <2>2. Entries(new) \subseteq Entries(routes[n])
      BY <1>7 DEF Entries
    <2>3. Cardinality(Entries(new)) <= MaxEntries
      BY <1>0, <2>2, FewerEntries, EntriesFinite, RoutingAssumption DEF RoutesBounded
    <2> QED BY <1>0, <2>1, <2>3 DEF RoutesBounded
  <1>8. NoRoute \in RouteType
    BY DEF NoRoute, RouteType
  <1>9. ASSUME DropRoute(q) PROVE IInv'
    <2> DEFINE s == NextCandidate(r)
               new == [routes[r.at] EXCEPT ![Candidate(r)] = NoRoute]
    <2>1. /\ r.pc = "drop" /\ Set(q, s) /\ UNCHANGED <<index, user, services, row, peer>>
          /\ routes' = [routes EXCEPT ![r.at] = new]
      BY <1>9 DEF DropRoute
    <2>2. Good(s) /\ same(s)
      BY <1>0, <2>1, NextIsGood
    <2> HIDE DEF s
    <2>3. r.at \in Nodes /\ routes[r.at] \in [Users -> RouteType]
      BY <1>0, <2>1 DEF Around
    <2>4. new \in [Users -> RouteType] /\ \A v \in Users : new[v] \in {NoRoute, routes[r.at][v]}
      BY <1>8, <2>3
    <2> HIDE DEF new
    <2>5. routes' \in [Nodes -> [Users -> RouteType]] /\ RoutesBounded'
      BY <1>7, <2>1, <2>3, <2>4
    <2> QED BY <2>1, <2>2, <2>5, RequestMoves
  <1>10. ASSUME Forward(q) PROVE IInv'
    <2> DEFINE c == lookupConnectionService(r.via, r.host)
    <2>1. CASE c # NoConn
      <3> DEFINE s == [r EXCEPT !.pc = "target", !.conn = c]
      <3>1. r.pc = "forward" /\ Set(q, s) /\ UNCHANGED <<index, user, services, row, peer, routes>>
        BY <1>10, <2>1 DEF Forward
      <3>2. r.via \in Nodes
        BY <1>0, <3>1 DEF Good
      <3>3. c \in Conns /\ Serves(c, r.host)
        BY <1>0, <2>1, <3>1, <3>2, LookupServes
      <3> HIDE DEF c
      <3>4. /\ s \in ReqType /\ s.pc = "target" /\ s.conn = c
            /\ s.at = r.at /\ s.host = r.host /\ s.i = r.i /\ s.via = r.via
        BY <1>0, <3>3 DEF ReqType, Pcs
      <3> HIDE DEF s
      <3>5. Good(s)
        BY <1>0, <3>1, <3>4, PcIsGood
      <3> QED BY <3>1, <3>3, <3>4, <3>5, RequestOnly
    <2>2. CASE c = NoConn
      <3> DEFINE s == [r EXCEPT !.pc = "refused"]
      <3>1. r.pc = "forward" /\ Set(q, s) /\ UNCHANGED <<index, user, services, row, peer, routes>>
        BY <1>10, <2>2 DEF Forward
      <3>2. /\ s \in ReqType /\ s.pc = "refused" /\ same(s)
            /\ s.at = r.at /\ s.i = r.i /\ s.via = r.via
        BY <1>0 DEF ReqType, Pcs
      <3> HIDE DEF s
      <3>3. Good(s)
        BY <1>0, <3>1, <3>2, PcIsGood
      <3> QED BY <3>1, <3>2, <3>3, RequestOnly
    <2> QED BY <2>1, <2>2
  <1>11. ASSUME ForwardFails(q) PROVE IInv'
    <2> DEFINE s == [r EXCEPT !.pc = "failed"]
               new == InvalidateAll(routes[r.at], r.host)
    <2>1. /\ r.pc = "forward" /\ Set(q, s) /\ UNCHANGED <<index, user, services, row, peer>>
          /\ routes' = [routes EXCEPT ![r.at] = new]
      BY <1>11 DEF ForwardFails
    <2>2. /\ s \in ReqType /\ s.pc = "failed" /\ same(s)
          /\ s.at = r.at /\ s.i = r.i /\ s.via = r.via
      BY <1>0 DEF ReqType, Pcs
    <2> HIDE DEF s
    <2>3. Good(s)
      BY <1>0, <2>1, <2>2, PcIsGood
    <2>4. r.at \in Nodes /\ routes[r.at] \in [Users -> RouteType]
      BY <1>0, <2>1 DEF Around
    <2>5. new \in [Users -> RouteType] /\ \A v \in Users : new[v] \in {NoRoute, routes[r.at][v]}
      BY <1>8, <2>4 DEF InvalidateAll
    <2> HIDE DEF new
    <2>6. routes' \in [Nodes -> [Users -> RouteType]] /\ RoutesBounded'
      BY <1>7, <2>1, <2>4, <2>5
    <2> QED BY <2>1, <2>2, <2>3, <2>6, RequestMoves
  <1>12. ASSUME OpenTarget(q) PROVE IInv'
    <2>1. PICK pc \in {"opened", "failed", "refused"} :
            /\ r.pc = "target" /\ Set(q, [r EXCEPT !.pc = pc])
            /\ UNCHANGED <<index, user, services, row, peer, routes>>
      BY <1>12 DEF OpenTarget
    <2> DEFINE s == [r EXCEPT !.pc = pc]
    <2>2. /\ s \in ReqType /\ s.pc = pc /\ same(s)
          /\ s.at = r.at /\ s.i = r.i /\ s.via = r.via
      BY <1>0 DEF ReqType, Pcs
    <2>3. Set(q, s)
      BY <2>1
    <2> HIDE DEF s
    <2>4. Good(s)
      BY <1>0, <2>1, <2>2, PcIsGood
    <2> QED BY <2>1, <2>2, <2>3, <2>4, RequestOnly
  <1>13. ASSUME Finish(q) PROVE IInv'
    BY <1>13, IdleIsGood, RequestOnly DEF Finish
  <1> QED BY <1>1, <1>2, <1>3, <1>4, <1>5, <1>6, <1>9, <1>10, <1>11, <1>12, <1>13
          DEF RequestStep

\* A new request keeps IInv: it starts at the first label of its host.
LEMMA AskInv ==
  ASSUME IInv, NEW q \in Requests, NEW n \in Origins, NEW h \in Hosts, Ask(q, n, h)
  PROVE  IInv'
  <1> DEFINE s == [Idle EXCEPT !.pc = "local", !.at = n, !.host = h]
  <1>1. Set(q, s) /\ UNCHANGED <<index, user, services, row, peer, routes>>
    BY DEF Ask
  <1>2. /\ s \in ReqType /\ s.pc = "local" /\ s.conn = NoConn
        /\ s.at \in Nodes /\ s.host = h /\ s.i = 1
    BY RoutingAssumption DEF Idle, ReqType, Pcs
  <1> HIDE DEF s
  <1>3. Good(s)
    BY <1>2, Labels DEF Good
  <1> QED BY <1>1, <1>2, <1>3, RequestOnly

\* The inductive invariant holds initially.
LEMMA InitInv == Init => IInv
  <1> SUFFICES ASSUME Init PROVE IInv
    OBVIOUS
  <1>1. NoRoute \in RouteType /\ Good(Idle) /\ Idle \in ReqType /\ Idle.conn = NoConn
    BY IdleIsGood DEF NoRoute, RouteType, Good
  <1>2. Around
    <2>1. <<>> \in Seq(Conns)
      OBVIOUS
    <2> QED BY <1>1, <2>1 DEF Init, Around
  <1>3. Requested /\ OpenedForOwner
    BY <1>1 DEF Init, Requested, OpenedForOwner
  <1>4. RoutesBounded
    <2>1. \A n \in Nodes : Entries(routes[n]) = {}
      BY DEF Init, Entries
    <2>2. \A n \in Nodes : Cardinality(Entries(routes[n])) = 0
      BY <2>1, FS_EmptySet
    <2> QED BY <2>2, RoutingAssumption DEF RoutesBounded
  <1> QED BY <1>2, <1>3, <1>4 DEF IInv

\* The inductive invariant is kept by every step.
LEMMA NextInv == IInv /\ [Next]_vars => IInv'
  <1>1. IInv /\ UNCHANGED vars => IInv'
    BY DEF IInv, vars, Around, Requested, OpenedForOwner, RoutesBounded
  <1> QED BY <1>1, EnvironmentInv, RequestInv, AskInv DEF Next

\* The inductive invariant holds always.
LEMMA Invariance == Spec => []IInv
  BY InitInv, NextInv, PTL DEF Spec

-------------------------------------------------------------------------------
(* A request only goes forward. *)

\* Going on with the next candidate advances a request that is in the loop.
LEMMA NextAdvances ==
  ASSUME NEW r, Good(r), r.pc \in {"get", "query", "peer", "put", "drop"}
  PROVE  Advance(r, NextCandidate(r))
  <1> DEFINE s == NextCandidate(r)
  <1>1. r \in ReqType
    BY DEF Good
  <1>2. /\ r.i \in Nat /\ s.at = r.at /\ s.host = r.host
        /\ s.pc = "notFound" \/ (s.pc = "get" /\ s.i = r.i + 1)
    <2>1. CASE r.i < Len(r.host)
      <3>1. s = [r EXCEPT !.pc = "get", !.i = r.i + 1, !.via = NoNode, !.cached = FALSE]
        BY <2>1 DEF NextCandidate
      <3> HIDE DEF s
      <3> QED BY <1>1, <3>1 DEF ReqType
    <2>2. CASE ~(r.i < Len(r.host))
      <3>1. s = [r EXCEPT !.pc = "notFound", !.via = NoNode, !.cached = FALSE]
        BY <2>2 DEF NextCandidate
      <3> HIDE DEF s
      <3> QED BY <1>1, <3>1 DEF ReqType
    <2> QED BY <2>1, <2>2
  <1> HIDE DEF s
  <1>3. ~Over(r) /\ Phase(r.pc) = 1 /\ s.pc # "idle"
    BY <1>2 DEF Over, Phase
  <1>4. Later(r, s)
    <2>1. CASE s.pc = "notFound"
      BY <1>3, <2>1 DEF Later, Phase
    <2>2. CASE s.pc = "get" /\ s.i = r.i + 1
      BY <1>2, <1>3, <2>2 DEF Later, Phase
    <2> QED BY <1>2, <2>1, <2>2
  <1>5. Advance(r, s)
    BY <1>2, <1>3, <1>4 DEF Advance
  <1> QED BY <1>5 DEF s

\* So does considering the node of the candidate, before the peer is known.
LEMMA ConsiderAdvances ==
  ASSUME NEW r, Good(r), r.pc \in {"get", "query"}, NEW node, NEW cached
  PROVE  Advance(r, Consider(r, node, cached))
  <1>1. CASE node \in {NoNode, r.at}
    BY <1>1, NextAdvances DEF Consider
  <1>2. CASE node \notin {NoNode, r.at}
    <2> DEFINE s == Consider(r, node, cached)
    <2>1. r \in ReqType
      BY DEF Good
    <2>2. s.pc = "peer" /\ s.at = r.at /\ s.host = r.host /\ s.i = r.i
      BY <1>2, <2>1 DEF Consider, ReqType
    <2> HIDE DEF s
    <2>3. ~Over(r) /\ Phase(r.pc) = 1 /\ Phase(s.pc) = 1 /\ Turn(r.pc) < Turn(s.pc)
      BY <2>2 DEF Over, Phase, Turn
    <2>4. Advance(r, s)
      BY <2>2, <2>3 DEF Advance, Later
    <2> QED BY <2>4 DEF s
  <1> QED BY <1>1, <1>2

\* A step that keeps the candidate and the node chosen advances the request
\* when it enters a later phase or a later step of the loop.
LEMMA StepAdvances ==
  ASSUME NEW r, NEW s, s.at = r.at, s.host = r.host, s.i = r.i, s.via = r.via,
         r.pc \in {"local", "get", "query", "peer", "put", "drop", "forward", "target"},
         s.pc # "idle",
         \/ Phase(r.pc) < Phase(s.pc)
         \/ Phase(r.pc) = 1 /\ Phase(s.pc) = 1 /\ Turn(r.pc) < Turn(s.pc)
  PROVE  Advance(r, s)
  <1>1. ~Over(r)
    BY DEF Over
  <1>2. Later(r, s)
    BY DEF Later
  <1> QED BY <1>1, <1>2 DEF Advance

\* A step of a request advances it.
LEMMA RequestGoesOn ==
  ASSUME IInv, NEW q \in Requests, RequestStep(q)
  PROVE  /\ Advance(request[q], request'[q])
         /\ \A p \in Requests : p # q => request'[p] = request[p]
  <1> DEFINE r == request[q]
  <1>0. /\ Good(r) /\ r \in ReqType
        /\ request \in [Requests -> ReqType]
    BY DEF IInv, Around, Requested, Good
  <1> DEFINE moved == \A p \in Requests : p # q => request'[p] = request[p]
             same(s) == s.at = r.at /\ s.host = r.host /\ s.i = r.i /\ s.via = r.via
  <1>s. ASSUME NEW s, Set(q, s) PROVE request'[q] = s /\ moved
    BY <1>0, <1>s DEF Set
  <1>1. ASSUME LookupLocal(q) PROVE Advance(r, request'[q]) /\ moved
    <2> DEFINE c == lookupConnectionService(r.at, r.host)
               s == IF c # NoConn THEN [r EXCEPT !.pc = "target", !.conn = c]
                    ELSE [r EXCEPT !.pc = "get"]
    <2>1. r.pc = "local" /\ Set(q, s)
      BY <1>1 DEF LookupLocal
    <2> HIDE DEF c
    <2>2. s.pc \in {"target", "get"} /\ same(s)
      BY <1>0 DEF ReqType
    <2> HIDE DEF s
    <2>3. Phase(r.pc) < Phase(s.pc)
      BY <2>1, <2>2 DEF Phase
    <2>4. Advance(r, s)
      BY <2>1, <2>2, <2>3, StepAdvances
    <2> QED BY <1>s, <2>1, <2>4
  <1>2. ASSUME RouteGet(q) PROVE Advance(r, request'[q]) /\ moved
    <2>1. r.pc = "get"
      BY <1>2 DEF RouteGet
    <2>2. CASE Set(q, [r EXCEPT !.pc = "query"])
      <3> DEFINE s == [r EXCEPT !.pc = "query"]
      <3>1. s.pc = "query" /\ same(s) /\ Set(q, s)
        BY <1>0, <2>2 DEF ReqType
      <3> HIDE DEF s
      <3>2. Phase(r.pc) = 1 /\ Phase(s.pc) = 1 /\ Turn(r.pc) < Turn(s.pc)
        BY <2>1, <3>1 DEF Phase, Turn
      <3>3. Advance(r, s)
        BY <2>1, <3>1, <3>2, StepAdvances
      <3> QED BY <1>s, <3>1, <3>3
    <2>3. CASE Set(q, Consider(r, routes[r.at][Candidate(r)].node, TRUE))
      BY <1>s, <1>0, <2>1, <2>3, ConsiderAdvances
    <2> QED BY <1>2, <2>2, <2>3 DEF RouteGet
  <1>3. ASSUME Query(q) PROVE Advance(r, request'[q]) /\ moved
    <2>1. PICK node : r.pc = "query" /\ Set(q, Consider(r, node, FALSE))
      BY <1>3 DEF Query
    <2>2. Advance(r, Consider(r, node, FALSE))
      BY <1>0, <2>1, ConsiderAdvances
    <2> QED BY <1>s, <2>1, <2>2
  <1>4. ASSUME QueryError(q) \/ DropRoute(q) PROVE Advance(r, request'[q]) /\ moved
    <2>1. r.pc \in {"query", "drop"} /\ Set(q, NextCandidate(r))
      BY <1>4 DEF QueryError, DropRoute
    <2>2. Advance(r, NextCandidate(r))
      BY <1>0, <2>1, NextAdvances
    <2> QED BY <1>s, <2>1, <2>2
  <1>5. ASSUME GetPeer(q) PROVE Advance(r, request'[q]) /\ moved
    <2> DEFINE fwd == [r EXCEPT !.pc = "forward", !.live = TRUE]
               put == [r EXCEPT !.pc = "put", !.live = TRUE]
               drop == [r EXCEPT !.pc = "drop"]
    <2>1. r.pc = "peer"
      BY <1>5 DEF GetPeer
    <2>2. PICK s \in {fwd, put, drop, NextCandidate(r)} : Set(q, s)
      BY <1>5 DEF GetPeer
    <2>3. ASSUME s \in {fwd, put, drop} PROVE Advance(r, s)
      <3>1. s.pc \in {"forward", "put", "drop"} /\ same(s)
        BY <1>0, <2>3 DEF ReqType
      <3>2. \/ Phase(r.pc) < Phase(s.pc)
            \/ Phase(r.pc) = 1 /\ Phase(s.pc) = 1 /\ Turn(r.pc) < Turn(s.pc)
        BY <2>1, <3>1 DEF Phase, Turn
      <3> QED BY <2>1, <3>1, <3>2, StepAdvances
    <2>4. ASSUME s = NextCandidate(r) PROVE Advance(r, s)
      BY <1>0, <2>1, <2>4, NextAdvances
    <2> QED BY <1>s, <2>2, <2>3, <2>4
  <1>6. ASSUME PutRoute(q) PROVE Advance(r, request'[q]) /\ moved
    <2> DEFINE s == [r EXCEPT !.pc = "forward"]
    <2>1. r.pc = "put" /\ Set(q, s)
      BY <1>6 DEF PutRoute
    <2>2. s.pc = "forward" /\ same(s)
      BY <1>0 DEF ReqType
    <2> HIDE DEF s
    <2>3. Phase(r.pc) < Phase(s.pc)
      BY <2>1, <2>2 DEF Phase
    <2>4. Advance(r, s)
      BY <2>1, <2>2, <2>3, StepAdvances
    <2> QED BY <1>s, <2>1, <2>4
  <1>7. ASSUME NEW s, r.pc = "forward", Set(q, s), same(s),
               s.pc \in {"target", "refused", "failed"}
        PROVE  Advance(r, request'[q]) /\ moved
    <2>1. Phase(r.pc) < Phase(s.pc)
      BY <1>7 DEF Phase
    <2>2. Advance(r, s)
      BY <1>7, <2>1, StepAdvances
    <2> QED BY <1>s, <1>7, <2>2
  <1>8. ASSUME Forward(q) PROVE Advance(r, request'[q]) /\ moved
    <2> DEFINE c == lookupConnectionService(r.via, r.host)
               s == IF c # NoConn THEN [r EXCEPT !.pc = "target", !.conn = c]
                    ELSE [r EXCEPT !.pc = "refused"]
    <2>1. r.pc = "forward" /\ Set(q, s)
      BY <1>8 DEF Forward
    <2> HIDE DEF c
    <2>2. s.pc \in {"target", "refused"} /\ same(s)
      BY <1>0 DEF ReqType
    <2> HIDE DEF s
    <2> QED BY <1>7, <2>1, <2>2
  <1>9. ASSUME ForwardFails(q) PROVE Advance(r, request'[q]) /\ moved
    <2> DEFINE s == [r EXCEPT !.pc = "failed"]
    <2>1. r.pc = "forward" /\ Set(q, s)
      BY <1>9 DEF ForwardFails
    <2>2. s.pc = "failed" /\ same(s)
      BY <1>0 DEF ReqType
    <2> HIDE DEF s
    <2> QED BY <1>7, <2>1, <2>2
  <1>10. ASSUME OpenTarget(q) PROVE Advance(r, request'[q]) /\ moved
    <2>1. PICK pc \in {"opened", "failed", "refused"} :
            r.pc = "target" /\ Set(q, [r EXCEPT !.pc = pc])
      BY <1>10 DEF OpenTarget
    <2> DEFINE s == [r EXCEPT !.pc = pc]
    <2>2. s.pc = pc /\ same(s) /\ Set(q, s)
      BY <1>0, <2>1 DEF ReqType
    <2> HIDE DEF s
    <2>3. Phase(r.pc) < Phase(s.pc)
      BY <2>1, <2>2 DEF Phase
    <2>4. Advance(r, s)
      BY <2>1, <2>2, <2>3, StepAdvances
    <2> QED BY <1>s, <2>2, <2>4
  <1>11. ASSUME Finish(q) PROVE Advance(r, request'[q]) /\ moved
    <2>1. Over(r) /\ Set(q, Idle)
      BY <1>11 DEF Finish, Over
    <2> QED BY <1>s, <2>1 DEF Advance
  <1> HIDE DEF r, moved
  <1> QED BY <1>1, <1>2, <1>3, <1>4, <1>5, <1>6, <1>8, <1>9, <1>10, <1>11
          DEF RequestStep, r, moved

\* What changes around the requests leaves them where they are.
LEMMA OthersWait ==
  ASSUME IInv, Environment, NEW q \in Requests
  PROVE  /\ request'[q].pc = request[q].pc /\ request'[q].i = request[q].i
         /\ request'[q].via = request[q].via
  <1>1. CASE UNCHANGED request
    BY <1>1
  <1>2. ASSUME NEW n \in Origins, NEW m \in Nodes, PeerDown(n, m)
        PROVE  /\ request'[q].pc = request[q].pc /\ request'[q].i = request[q].i
               /\ request'[q].via = request[q].via
    <2>1. request[q] \in ReqType
      BY DEF IInv, Around
    <2>2. request'[q] \in {request[q], [request[q] EXCEPT !.live = FALSE]}
      BY <1>2 DEF PeerDown
    <2> QED BY <2>1, <2>2 DEF ReqType
  <1> QED BY <1>1, <1>2 DEF Environment, Connect, Disconnect, RegisterService,
             DeregisterService, WriteRow, PeerUp, ExpireRoute

-------------------------------------------------------------------------------
\* Connections, rows, routes and requests always have values of their types, and
\* lookupRemotePeer never runs past the labels of the host it was asked for.
THEOREM TypeCorrect == Spec => []TypeOK
  <1>1. IInv => TypeOK
    BY DEF IInv, Around, Requested, Good, TypeOK, RouteType, ReqType
  <1> QED BY <1>1, Invariance, PTL

\* handleTunnelChannel and openServiceTunnel only ever open a tunnel on a
\* connection of a user whose name ends the host that was asked for, on
\* whichever node the name was resolved in the end.
THEOREM TunnelsOpenedForOwner == Spec => []OpenedForOwner
  BY Invariance, PTL DEF IInv

\* In every reachable state lookupConnectionService answers as its two nested
\* loops do: with none exactly when no listed connection exposes the service to
\* the user of any split of the host, otherwise with the newest connection of
\* the longest user name that does.
THEOREM LookupIsFirst ==
  Spec => [](\A n \in Nodes, host \in Hosts :
               LET c == lookupConnectionService(n, host) IN
               IF NobodyAnswers(n, host) THEN c = NoConn ELSE AnswersFirst(n, host, c))
  <1>1. ASSUME IInv, NEW n \in Nodes, NEW host \in Hosts
        PROVE  LET c == lookupConnectionService(n, host) IN
               IF NobodyAnswers(n, host) THEN c = NoConn ELSE AnswersFirst(n, host, c)
    <2> DEFINE c == lookupConnectionService(n, host)
    <2>1. \/ c = NoConn /\ NobodyAnswers(n, host)
          \/ c \in Conns /\ AnswersFirst(n, host, c)
      BY <1>1, LookupFirst DEF IInv
    <2> HIDE DEF c
    <2>2. AnswersFirst(n, host, c) => ~NobodyAnswers(n, host)
      BY DEF AnswersFirst, NobodyAnswers
    <2> QED BY <2>1, <2>2 DEF c
  <1>2. IInv => \A n \in Nodes, host \in Hosts :
                  LET c == lookupConnectionService(n, host) IN
                  IF NobodyAnswers(n, host) THEN c = NoConn ELSE AnswersFirst(n, host, c)
    BY <1>1
  <1> QED BY <1>2, Invariance, PTL

\* No sequence of puts, expiries and invalidations makes the cache of routes
\* larger than routeCacheMaxEntries.
THEOREM CacheBounded == Spec => []RoutesBounded
  BY Invariance, PTL DEF IInv

\* Every request only goes forward, on every interleaving with what happens to
\* users, peers and routes: each candidate once and in order, at most one
\* forwarding, to the node chosen, and no step after the first outcome.
THEOREM RequestsGoForward == Spec => RequestAdvances
  <1>1. ASSUME IInv, [Next]_vars, NEW q \in Requests
        PROVE  Advance(request[q], request'[q])
    <2>1. CASE Environment
      BY <1>1, <2>1, OthersWait DEF Advance
    <2>2. ASSUME NEW p \in Requests, RequestStep(p) PROVE Advance(request[q], request'[q])
      BY <1>1, <2>2, RequestGoesOn DEF Advance
    <2>3. ASSUME NEW p \in Requests, NEW n \in Origins, NEW h \in Hosts, Ask(p, n, h)
          PROVE  Advance(request[q], request'[q])
      <3>1. request[p].pc = "idle" /\ (p # q => request'[q] = request[q])
        BY <1>1, <2>3 DEF Ask, Set, IInv, Around
      <3> QED BY <3>1 DEF Advance
    <2>4. CASE UNCHANGED vars
      BY <2>4 DEF vars, Advance
    <2> QED BY <1>1, <2>1, <2>2, <2>3, <2>4 DEF Next
  <1>2. ASSUME IInv, [Next]_vars
        PROVE  [\A q \in Requests : Advance(request[q], request'[q])]_vars
    BY <1>1, <1>2
  <1> QED BY <1>2, Invariance, PTL DEF Spec, RequestAdvances
===============================================================================

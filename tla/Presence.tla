------------------------------- MODULE Presence -------------------------------
(* Which node of the mesh is responsible for a user.

   Every node of the mesh shares one database.  A user's row records the node
   mesh tunnels to that user are sent to (node_id, here nodeId).  The record is
   written by logins (auth/auth.go), adopted by the heartbeat of a node that
   sees it pointing nowhere, and cleared by a node whose last connection of the
   user closed (gateway/gateway.go); the statements are those of db/users.go.

   Each statement on the database is one step, and so is each critical section
   on a node: everything between two of them interleaves.  The age of a node's
   heartbeat is abstracted to "fresh" (younger than onlineStaleThreshold) or
   not; a node that runs beats six times per threshold and stays fresh unless
   it stalls.  All nodes are in the mesh (Settings.NodeID is set) and a user's
   row exists from their first login on, so a row that does not exist yet reads
   as one that points nowhere. *)
EXTENDS Naturals, FiniteSets

CONSTANTS
  Nodes,    \* the gatewaysshd processes, by their Settings.NodeID
  Users,    \* user names
  Logins,   \* ssh connections; each one lives once
  NoNode,   \* the empty node_id
  NoUser,   \* the user of a connection that is not logged in
  Events    \* which of EventKinds may happen

(* What may happen around the code:
     shutdown    a node is asked to stop and runs Close
     crash       a node dies without running Close
     restart     a node comes back under its name after a crash, or while a
                 row still names it
     abandon     a client goes away between the acceptance of its key and the
                 end of the handshake
     lateRecord  the background write of a cached login reaches the database
                 after that login's connection has closed
     dbError     a statement fails and writes nothing
     clearError  ClearUserNodeID fails
     lostReply   MarkUsersOnline is committed and reported as failed
     stall       a running node misses its heartbeats for the whole threshold
     operator    an operator disables, enables or kicks the user *)
EventKinds == {"shutdown", "crash", "restart", "abandon", "lateRecord",
               "dbError", "clearError", "lostReply", "stall", "operator"}

ASSUME ConstantsAssumption ==
  /\ NoNode \notin Nodes
  /\ NoUser \notin Users
  /\ Events \subseteq EventKinds

VARIABLES
  phase,     \* node: "down", "up", "closing" (done closed), "offline"
             \* (marked offline), "crashed"
  nodeRow,   \* database: the node's row, [online, fresh]
  nodeId,    \* database: the user's node_id
  disabled,  \* database: the user's disabled flag
  flags,     \* node, user: the cached login flags, [cached, disabled]
  conn,      \* ssh connection: [pc, node, user, disabled]
  record,    \* the goroutine recording a cached login, same fields
  beat,      \* node: runOnlineHeartbeat, [pc, batch, clearing]
  lost       \* history: node and user whose release a fault, or the end of
             \* the process, suppressed since the user's row was last written

vars == <<phase, nodeRow, nodeId, disabled, flags, conn, record, beat, lost>>

Phases == {"down", "up", "closing", "offline", "crashed"}
ConnPcs == {"new", "upserted", "authed", "open", "deleted", "clearing", "closed"}
RecordPcs == {"none", "upsert", "put"}
BeatPcs == {"idle", "marking", "marked", "releasing"}

NoFlags == [cached |-> FALSE, disabled |-> FALSE]
At(pc, n, u, d) == [pc |-> pc, node |-> n, user |-> u, disabled |-> d]
Step(l, pc) == At(pc, conn[l].node, conn[l].user, FALSE)
Blank(pc) == At(pc, NoNode, NoUser, FALSE)
Beat(pc, batch, clearing) == [pc |-> pc, batch |-> batch, clearing |-> clearing]
IdleBeat == Beat("idle", {}, {})

-------------------------------------------------------------------------------
(* What the code reads. *)

Running(n) == phase[n] \in {"up", "closing", "offline"}

\* connectionsIndex[u] of node n is not empty
Connected(n, u) == \E l \in Logins : /\ conn[l].pc = "open"
                                     /\ conn[l].node = n
                                     /\ conn[l].user = u

\* "SELECT id FROM node WHERE online AND online_at > ?"
Live(n) == nodeRow[n].online /\ nodeRow[n].fresh

GoneOnlyWhenUnset(u) == nodeId[u] = NoNode  \* mutant

userNodeGone(u) == ~ \E n \in Nodes : nodeId[u] = n /\ Live(n)

\* connections whose goroutine is still in the process of node n
Held(n) == {l \in Logins : conn[l].node = n}

-------------------------------------------------------------------------------
(* The statements of db/users.go, as the new value of nodeId. *)

UpsertSwapsArguments(u, n) ==  \* mutant
  [nodeId EXCEPT ![u] = IF disabled[u] THEN @ ELSE u]

UpsertIgnoresDisabled(u, n) ==  \* mutant
  [nodeId EXCEPT ![u] = n]

UpsertUserOnConnect(u, n) ==
  [nodeId EXCEPT ![u] = IF disabled[u] THEN @ ELSE n]

MarkAlwaysAdopts(us, n) ==  \* mutant
  [u \in Users |-> IF u \in us THEN n ELSE nodeId[u]]

MarkUsersOnline(us, n) ==
  [u \in Users |-> IF u \in us /\ userNodeGone(u) THEN n ELSE nodeId[u]]

ClearUserNodeID(u, n) ==
  [nodeId EXCEPT ![u] = IF @ = n THEN NoNode ELSE @]

Disabled == {u \in Users : disabled[u]}

\* the users whose row names node n
Claimed(n) == {u \in Users : nodeId[u] = n}

\* a statement that writes the rows of us settles what was lost of them
Settled(us) == {p \in lost : p[2] \notin us}

-------------------------------------------------------------------------------
Init ==
  /\ phase = [n \in Nodes |-> "down"]
  /\ nodeRow = [n \in Nodes |-> [online |-> FALSE, fresh |-> FALSE]]
  /\ nodeId = [u \in Users |-> NoNode]
  /\ disabled = [u \in Users |-> FALSE]
  /\ flags = [n \in Nodes |-> [u \in Users |-> NoFlags]]
  /\ conn = [l \in Logins |-> Blank("new")]
  /\ record = [l \in Logins |-> Blank("none")]
  /\ beat = [n \in Nodes |-> IdleBeat]
  /\ lost = {}

(* The life of a node. *)

\* Open: registerNode(true), then the heartbeat loops run.  The claims an
\* earlier process left behind are taken over without being looked at.
Open(n) ==
  /\ \/ phase[n] = "down" /\ Claimed(n) = {}
     \/ phase[n] \in {"down", "crashed"} /\ "restart" \in Events
  /\ phase' = [phase EXCEPT ![n] = "up"]
  /\ nodeRow' = [nodeRow EXCEPT ![n] = [online |-> TRUE, fresh |-> TRUE]]
  /\ lost' = lost \union ({n} \X Claimed(n))
  /\ UNCHANGED <<nodeId, disabled, flags, conn, record, beat>>

\* runPeers: registerNode(true) on every discovery interval
RegisterNode(n) ==
  /\ phase[n] = "up"
  /\ nodeRow' = [nodeRow EXCEPT ![n] = [online |-> TRUE, fresh |-> TRUE]]
  /\ UNCHANGED <<phase, nodeId, disabled, flags, conn, record, beat, lost>>

\* Close: close(done) ends the loops and every connection
BeginClose(n) ==
  /\ "shutdown" \in Events
  /\ phase[n] = "up"
  /\ phase' = [phase EXCEPT ![n] = "closing"]
  /\ UNCHANGED <<nodeRow, nodeId, disabled, flags, conn, record, beat, lost>>

\* Close: after waitGroup.Wait, registerNode(false).  Connections still in
\* their handshake when Close listed the connections may be around.
MarkOffline(n) ==
  /\ phase[n] = "closing"
  /\ beat[n].pc = "idle"
  /\ phase' = [phase EXCEPT ![n] = "offline"]
  /\ nodeRow' = [nodeRow EXCEPT ![n] = [online |-> FALSE, fresh |-> TRUE]]
  /\ UNCHANGED <<nodeId, disabled, flags, conn, record, beat, lost>>

\* what ends with the process of node n: its memory and its goroutines
ProcessEnds(n) ==
  /\ flags' = [flags EXCEPT ![n] = [u \in Users |-> NoFlags]]
  /\ conn' = [l \in Logins |-> IF l \in Held(n) THEN Blank("closed") ELSE conn[l]]
  /\ record' = [l \in Logins |->
                  IF record[l].node = n THEN Blank("none") ELSE record[l]]
  /\ beat' = [beat EXCEPT ![n] = IdleBeat]

\* run returns: its wait group and the second, deferred Close have waited for
\* handshakes and for the connections that were listed.  One that had left the
\* list by itself and is about to release its user is not waited for, and
\* neither are the goroutines recording logins.
Exit(n) ==
  /\ phase[n] = "offline"
  /\ \A l \in Held(n) : conn[l].pc \in {"deleted", "clearing"}
  /\ phase' = [phase EXCEPT ![n] = "down"]
  /\ lost' = lost \union {<<n, conn[l].user>> : l \in Held(n)}
  /\ ProcessEnds(n)
  /\ UNCHANGED <<nodeRow, nodeId, disabled>>

Crash(n) ==
  /\ "crash" \in Events
  /\ Running(n)
  /\ phase' = [phase EXCEPT ![n] = "crashed"]
  /\ ProcessEnds(n)
  /\ UNCHANGED <<nodeRow, nodeId, disabled, lost>>

\* onlineStaleThreshold passes without a heartbeat of the node
Age(n) ==
  /\ phase[n] # "up" \/ "stall" \in Events
  /\ nodeRow[n].fresh
  /\ nodeRow' = [nodeRow EXCEPT ![n].fresh = FALSE]
  /\ UNCHANGED <<phase, nodeId, disabled, flags, conn, record, beat, lost>>

-------------------------------------------------------------------------------
(* authenticate, on node n for user u.  Its two critical sections on the flags
   cache and its statement are separate steps. *)

\* getUserFlags hits: the cached flags decide, and an accepted login is
\* recorded by a goroutine of its own
AuthenticateCached(l, n, u) ==
  /\ conn[l].pc = "new"
  /\ Running(n)
  /\ flags[n][u].cached
  /\ IF flags[n][u].disabled
     THEN /\ conn' = [conn EXCEPT ![l] = Blank("closed")]
          /\ UNCHANGED record
     ELSE /\ conn' = [conn EXCEPT ![l] = At("authed", n, u, FALSE)]
          /\ record' = [record EXCEPT ![l] = At("upsert", n, u, FALSE)]
  /\ UNCHANGED <<phase, nodeRow, nodeId, disabled, flags, beat, lost>>

\* getUserFlags misses: UpsertUserOnConnect writes the row and returns it
AuthenticateUpsert(l, n, u) ==
  /\ conn[l].pc = "new"
  /\ Running(n)
  /\ ~flags[n][u].cached
  /\ nodeId' = UpsertUserOnConnect(u, n)
  /\ lost' = Settled({u} \ Disabled)
  /\ conn' = [conn EXCEPT ![l] = At("upserted", n, u, disabled[u])]
  /\ UNCHANGED <<phase, nodeRow, disabled, flags, record, beat>>

\* UpsertUserOnConnect fails: the login is refused
AuthenticateError(l, n, u) ==
  /\ "dbError" \in Events
  /\ conn[l].pc = "new"
  /\ Running(n)
  /\ ~flags[n][u].cached
  /\ conn' = [conn EXCEPT ![l] = Blank("closed")]
  /\ UNCHANGED <<phase, nodeRow, nodeId, disabled, flags, record, beat, lost>>

\* putUserFlags of the row a login or its record read
PutUserFlags(from) ==
  [flags EXCEPT ![from.node][from.user] = [cached |-> TRUE, disabled |-> from.disabled]]

\* putUserFlags, then the disabled check on the row
AuthenticatePut(l) ==
  /\ conn[l].pc = "upserted"
  /\ flags' = PutUserFlags(conn[l])
  /\ conn' = [conn EXCEPT ![l] =
       IF conn[l].disabled THEN Blank("closed")
       ELSE Step(l, "authed")]
  /\ UNCHANGED <<phase, nodeRow, nodeId, disabled, record, beat, lost>>

\* mutant: the flags the login was accepted with are cached once more
RecordKeepsFlags(l) ==
  LET r == record[l] IN
  /\ r.pc = "upsert"
  /\ nodeId' = UpsertUserOnConnect(r.user, r.node)
  /\ record' = [record EXCEPT ![l] = At("put", r.node, r.user, FALSE)]
  /\ lost' = Settled({r.user} \ Disabled)
               \union IF conn[l].pc = "closed" THEN {r.node} \X ({r.user} \ Disabled) ELSE {}
  /\ UNCHANGED <<phase, nodeRow, disabled, flags, conn, beat>>

\* the goroutine of a cached login: UpsertUserOnConnect ...
RecordUpsert(l) ==
  LET r == record[l] IN
  /\ r.pc = "upsert"
  /\ nodeId' = UpsertUserOnConnect(r.user, r.node)
  /\ record' = [record EXCEPT ![l] = At("put", r.node, r.user, disabled[r.user])]
  /\ lost' = Settled({r.user} \ Disabled)
               \union IF conn[l].pc = "closed" THEN {r.node} \X ({r.user} \ Disabled) ELSE {}
  /\ UNCHANGED <<phase, nodeRow, disabled, flags, conn, beat>>

\* ... which may fail ...
RecordError(l) ==
  /\ "dbError" \in Events
  /\ record[l].pc = "upsert"
  /\ record' = [record EXCEPT ![l] = Blank("none")]
  /\ UNCHANGED <<phase, nodeRow, nodeId, disabled, flags, conn, beat, lost>>

\* ... then putUserFlags of the fresh row
RecordPut(l) ==
  /\ record[l].pc = "put"
  /\ flags' = PutUserFlags(record[l])
  /\ record' = [record EXCEPT ![l] = Blank("none")]
  /\ UNCHANGED <<phase, nodeRow, nodeId, disabled, conn, beat, lost>>

\* userFlagsTimeToLive passes, or putUserFlags evicts the entry for another one
ExpireFlags(n, u) ==
  /\ flags[n][u].cached
  /\ flags' = [flags EXCEPT ![n][u] = NoFlags]
  /\ UNCHANGED <<phase, nodeRow, nodeId, disabled, conn, record, beat, lost>>

\* the operator enables or disables the user in the database
SetDisabled(u) ==
  /\ "operator" \in Events
  /\ disabled' = [disabled EXCEPT ![u] = ~@]
  /\ UNCHANGED <<phase, nodeRow, nodeId, flags, conn, record, beat, lost>>

\* kickUser: RevokeLoginFlags; the connections it then closes are Disconnect
\* steps, which are always enabled
KickUser(n, u) ==
  /\ "operator" \in Events
  /\ Running(n)
  /\ flags' = [flags EXCEPT ![n][u] = NoFlags]
  /\ UNCHANGED <<phase, nodeRow, nodeId, disabled, conn, record, beat, lost>>

-------------------------------------------------------------------------------
(* The life of a connection. *)

\* HandleConnection: the handshake ends, handleConnection publishes it
AddConnection(l) ==
  /\ conn[l].pc = "authed"
  /\ conn' = [conn EXCEPT ![l] = Step(l, "open")]
  /\ UNCHANGED <<phase, nodeRow, nodeId, disabled, flags, record, beat, lost>>

\* NewServerConn fails after authenticate has accepted the key
Abandon(l) ==
  /\ "abandon" \in Events
  /\ conn[l].pc = "authed"
  /\ conn' = [conn EXCEPT ![l] = Blank("closed")]
  /\ lost' = lost \union {<<conn[l].node, conn[l].user>>}
  /\ UNCHANGED <<phase, nodeRow, nodeId, disabled, flags, record, beat>>

\* the client leaves, a handler fails, or the connection is closed by Close,
\* the scavenger or a kick: deleteConnection
Disconnect(l) ==
  /\ conn[l].pc = "open"
  /\ record[l].pc = "upsert" => "lateRecord" \in Events
  /\ conn' = [conn EXCEPT ![l] = Step(l, "deleted")]
  /\ UNCHANGED <<phase, nodeRow, nodeId, disabled, flags, record, beat, lost>>

\* mutant: the claim is kept for a user who is connected to any node
ReleaseWhenGone(l) ==
  /\ conn[l].pc = "deleted"
  /\ conn' = [conn EXCEPT ![l] = IF \E n \in Nodes : Connected(n, conn[l].user)
                                 THEN Blank("closed")
                                 ELSE Step(l, "clearing")]
  /\ UNCHANGED <<phase, nodeRow, nodeId, disabled, flags, record, beat, lost>>

\* releaseUserNode: count the user's remaining connections under the lock
ReleaseUserNode(l) ==
  /\ conn[l].pc = "deleted"
  /\ conn' = [conn EXCEPT ![l] = IF Connected(conn[l].node, conn[l].user)
                                 THEN Blank("closed")
                                 ELSE Step(l, "clearing")]
  /\ UNCHANGED <<phase, nodeRow, nodeId, disabled, flags, record, beat, lost>>

\* releaseUserNode: ClearUserNodeID after the lock is released
ClearClaim(l) ==
  /\ conn[l].pc = "clearing"
  /\ conn' = [conn EXCEPT ![l] = Blank("closed")]
  /\ \/ /\ nodeId' = ClearUserNodeID(conn[l].user, conn[l].node)
        /\ lost' = Settled({conn[l].user} \intersect Claimed(conn[l].node))
     \/ /\ "clearError" \in Events
        /\ lost' = lost \union {<<conn[l].node, conn[l].user>>}
        /\ UNCHANGED nodeId
  /\ UNCHANGED <<phase, nodeRow, disabled, flags, record, beat>>

-------------------------------------------------------------------------------
(* runOnlineHeartbeat of node n. *)

\* the timer fires: connectedUserIds
BeatStart(n) ==
  LET users == {u \in Users : Connected(n, u)} IN
  /\ beat[n].pc = "idle"
  /\ phase[n] \in {"up", "closing"}
  /\ users # {}
  /\ beat' = [beat EXCEPT ![n] = Beat("marking", users, {})]
  /\ UNCHANGED <<phase, nodeRow, nodeId, disabled, flags, conn, record, lost>>

\* MarkUsersOnline
BeatMark(n) ==
  /\ beat[n].pc = "marking"
  /\ nodeId' = MarkUsersOnline(beat[n].batch, n)
  /\ lost' = Settled({u \in beat[n].batch : userNodeGone(u)})
  /\ beat' = [beat EXCEPT ![n].pc = "marked"]
  /\ UNCHANGED <<phase, nodeRow, disabled, flags, conn, record>>

\* MarkUsersOnline returns an error: the rest of the beat is skipped, whether
\* or not the statement was committed
BeatError(n) ==
  /\ beat[n].pc = "marking"
  /\ \/ /\ "dbError" \in Events
        /\ UNCHANGED <<nodeId, lost>>
     \/ /\ "lostReply" \in Events
        /\ nodeId' = MarkUsersOnline(beat[n].batch, n)
        /\ LET written == {u \in beat[n].batch : userNodeGone(u)} IN
           lost' = Settled(written) \union ({n} \X written)
  /\ beat' = [beat EXCEPT ![n] = IdleBeat]
  /\ UNCHANGED <<phase, nodeRow, disabled, flags, conn, record>>

\* mutant: nobody is released after the update
BeatSkipsRecheck(n) ==
  /\ beat[n].pc = "marked"
  /\ beat' = [beat EXCEPT ![n] = Beat("releasing", {}, {})]
  /\ UNCHANGED <<phase, nodeRow, nodeId, disabled, flags, conn, record, lost>>

\* the second connectedUserIds: who of the batch has left meanwhile
BeatRecheck(n) ==
  /\ beat[n].pc = "marked"
  /\ beat' = [beat EXCEPT ![n] =
                Beat("releasing", {u \in beat[n].batch : ~Connected(n, u)}, {})]
  /\ UNCHANGED <<phase, nodeRow, nodeId, disabled, flags, conn, record, lost>>

\* releaseUserNode of one of them: count the connections under the lock
BeatRelease(n, u) ==
  /\ beat[n].pc = "releasing"
  /\ beat[n].clearing = {}
  /\ u \in beat[n].batch
  /\ beat' = [beat EXCEPT ![n] = Beat("releasing", beat[n].batch \ {u},
                                         IF Connected(n, u) THEN {} ELSE {u})]
  /\ UNCHANGED <<phase, nodeRow, nodeId, disabled, flags, conn, record, lost>>

\* releaseUserNode: ClearUserNodeID
BeatClear(n, u) ==
  /\ beat[n].pc = "releasing"
  /\ u \in beat[n].clearing
  /\ beat' = [beat EXCEPT ![n].clearing = @ \ {u}]
  /\ \/ /\ nodeId' = ClearUserNodeID(u, n)
        /\ lost' = Settled({u} \intersect Claimed(n))
     \/ /\ "clearError" \in Events
        /\ lost' = lost \union {<<n, u>>}
        /\ UNCHANGED nodeId
  /\ UNCHANGED <<phase, nodeRow, disabled, flags, conn, record>>

\* the loop over the batch ends
BeatEnd(n) ==
  /\ beat[n].pc = "releasing"
  /\ beat[n].batch = {}
  /\ beat[n].clearing = {}
  /\ beat' = [beat EXCEPT ![n] = IdleBeat]
  /\ UNCHANGED <<phase, nodeRow, nodeId, disabled, flags, conn, record, lost>>

-------------------------------------------------------------------------------
NodeStep(n) ==
  \/ Open(n) \/ RegisterNode(n) \/ BeginClose(n) \/ MarkOffline(n)
  \/ Exit(n) \/ Crash(n) \/ Age(n)

LoginStep(l) ==
  \/ \E n \in Nodes, u \in Users : \/ AuthenticateCached(l, n, u)
                                   \/ AuthenticateUpsert(l, n, u)
                                   \/ AuthenticateError(l, n, u)
  \/ AuthenticatePut(l)
  \/ RecordUpsert(l) \/ RecordError(l) \/ RecordPut(l)
  \/ AddConnection(l) \/ Abandon(l) \/ Disconnect(l)
  \/ ReleaseUserNode(l) \/ ClearClaim(l)

BeatStep(n) ==
  \/ BeatStart(n) \/ BeatMark(n) \/ BeatError(n) \/ BeatRecheck(n) \/ BeatEnd(n)
  \/ \E u \in Users : BeatRelease(n, u) \/ BeatClear(n, u)

AdminStep ==
  \/ \E u \in Users : SetDisabled(u)
  \/ \E n \in Nodes, u \in Users : ExpireFlags(n, u) \/ KickUser(n, u)

Next ==
  \/ \E n \in Nodes : NodeStep(n) \/ BeatStep(n)
  \/ \E l \in Logins : LoginStep(l)
  \/ AdminStep

Spec == Init /\ [][Next]_vars

(* Goroutines that can run do run, the timers of the loops fire, a handshake
   that passed authentication ends, a node that began to close closes its
   connections, time passes, and a heartbeat that is tried over and over is
   answered by the database some time.  Nobody has to log in, disconnect,
   kick, shut down, crash or restart, and no statement has to fail. *)
Fairness ==
  /\ \A n \in Nodes :
       /\ WF_vars(RegisterNode(n)) /\ WF_vars(MarkOffline(n)) /\ WF_vars(Exit(n))
       /\ WF_vars(Age(n) /\ phase[n] # "up")
       /\ WF_vars(BeatStart(n)) /\ SF_vars(BeatMark(n)) /\ WF_vars(BeatRecheck(n))
       /\ WF_vars(BeatEnd(n))
       /\ \A u \in Users : WF_vars(BeatRelease(n, u)) /\ WF_vars(BeatClear(n, u))
  /\ \A l \in Logins :
       /\ WF_vars(AuthenticatePut(l)) /\ WF_vars(AddConnection(l))
       /\ WF_vars(RecordUpsert(l)) /\ WF_vars(RecordPut(l))
       /\ WF_vars(ReleaseUserNode(l)) /\ WF_vars(ClearClaim(l))
       /\ \A n \in Nodes : WF_vars(Disconnect(l) /\ conn[l].node = n /\ phase[n] # "up")

FairSpec == Spec /\ Fairness

-------------------------------------------------------------------------------
(* Properties. *)

AtType(pcs) == [pc : pcs, node : Nodes \union {NoNode}, user : Users \union {NoUser},
                disabled : BOOLEAN]

\* The state has the shape declared above: rows, caches, connections and loops
\* hold values of their types.
TypeOK ==
  /\ phase \in [Nodes -> Phases]
  /\ nodeRow \in [Nodes -> [online : BOOLEAN, fresh : BOOLEAN]]
  /\ nodeId \in [Users -> Nodes \union {NoNode}]
  /\ disabled \in [Users -> BOOLEAN]
  /\ flags \in [Nodes -> [Users -> [cached : BOOLEAN, disabled : BOOLEAN]]]
  /\ conn \in [Logins -> AtType(ConnPcs)]
  /\ record \in [Logins -> AtType(RecordPcs)]
  /\ beat \in [Nodes -> [pc : BeatPcs, batch : SUBSET Users, clearing : SUBSET Users]]
  /\ lost \subseteq Nodes \X Users

\* A goroutine of node n is still going to publish a connection of u or to run
\* releaseUserNode(u).
ReleasePending(n, u) ==
  \/ \E l \in Logins :
       /\ conn[l].node = n
       /\ conn[l].user = u
       /\ \/ conn[l].pc \in {"authed", "deleted", "clearing"}
          \/ conn[l].pc = "upserted" /\ ~conn[l].disabled
  \/ beat[n].pc = "marked" /\ u \in beat[n].batch
  \/ beat[n].pc = "releasing" /\ u \in beat[n].batch \union beat[n].clearing

\* A claim is never orphaned silently: whenever a user's row names a node that
\* holds no connection of that user, a goroutine of that node is about to
\* connect or release the user (releaseUserNode in gateway.go, with the check
\* after the heartbeat's update), or the release was suppressed by one of the
\* named faults or by the end of the process in between.  A node that shut down
\* leaves no other claim behind.
NoOrphanedClaim ==
  \A n \in Nodes, u \in Users :
    nodeId[u] = n /\ phase[n] # "crashed" /\ ~Connected(n, u)
      => ReleasePending(n, u) \/ <<n, u>> \in lost

\* A step that keeps the claims of live nodes.
KeepsClaims ==
  \A m \in Nodes, u \in Users :
    nodeId[u] = m /\ Live(m) /\ Connected(m, u) /\ nodeId'[u] # m =>
      \/ \E l \in Logins :
           \/ conn[l].pc = "new" /\ conn'[l].pc = "upserted" /\ conn'[l].user = u
           \/ record[l].pc = "upsert" /\ record'[l].pc = "put" /\ record[l].user = u
           \/ conn[l].pc = "clearing" /\ conn[l].node = m /\ conn[l].user = u
      \/ u \in beat[m].clearing

\* A claim of a live node the user is connected to is only given up to a login
\* of that user, or to that node's own releaseUserNode whose count was taken
\* before the user came back: heartbeats of other nodes "leave a multi-node
\* user's node_id stable instead of fighting over it" (db/users.go).
ClaimKept == [][KeepsClaims]_vars

\* A step that gives no disabled user a claim.
ClaimsNoDisabled ==
  \A u \in Users :
    /\ disabled[u]
    /\ \A n \in Nodes : ~Connected(n, u) /\ u \notin beat[n].batch
    => nodeId'[u] \in {nodeId[u], NoNode}

\* A disabled user gains no presence unless a connection of theirs is open or
\* was when a heartbeat listed it: a login that is going to be rejected, and
\* the record of one that stale cached flags accepted, leave node_id alone.
DisabledGainsNothing == [][ClaimsNoDisabled]_vars

\* A login, or the record of one, of u on n that has come to pc and holds no
\* disabled flag.
IsAt(h, pc, n, u) == h.pc = pc /\ h.node = n /\ h.user = u /\ ~h.disabled

\* Node n holds flags that let u in: in the cache, or read from the row and
\* about to be cached.
Trusts(n, u) ==
  \/ flags[n][u].cached /\ ~flags[n][u].disabled
  \/ \E l \in Logins : IsAt(conn[l], "upserted", n, u) \/ IsAt(record[l], "put", n, u)

\* A step that does not let in, or come to trust, a user who is revoked.
StaysRevoked ==
  \A n \in Nodes, u \in Users :
    disabled[u] /\ ~Trusts(n, u) =>
      /\ ~Trusts(n, u)'
      /\ \A l \in Logins : IsAt(conn'[l], "authed", n, u) => conn[l] = conn'[l]

\* Revocation holds: once a user is disabled and a node has forgotten the flags
\* it had read before, as after a kick (RevokeLoginFlags) that no login overlaps,
\* the node lets no login of the user in and never caches flags that would,
\* until the user is enabled; not even from the background record of a login
\* that was accepted earlier.
RevocationHolds == [][StaysRevoked]_vars

\* After the user's last connection to a node closed, the user's row does not
\* keep naming that node: only while a goroutine of the node is about to
\* connect or to release the user does it name the node without a connection.
ReleasedAfterLast ==
  \A n \in Nodes, u \in Users :
    nodeId[u] = n /\ Running(n) /\ ~Connected(n, u) => ReleasePending(n, u)

\* Routing heals: once nodes stop starting and stopping, a user who stays
\* connected is recorded at a node they are connected to, for good: a claim of
\* a node "that crashed or released the user still gets replaced"
\* (db/users.go).
ClaimHeals ==
  <>[][UNCHANGED phase]_vars =>
    \A u \in Users :
      <>[](\/ \A n \in Nodes : ~Connected(n, u)
           \/ \E n \in Nodes : nodeId[u] = n /\ Connected(n, u))
===============================================================================

---------------------------- MODULE PresenceProofs ----------------------------
(* What becomes of the claims of Presence, with and without faults, for any set
   of nodes, users and connections. *)
EXTENDS PresenceStepProofs

(* NoOrphanedClaim is not inductive by itself.  It needs that a node that does
   not run holds no goroutine that could still write a claim, that the
   heartbeat loop has ended before a node is marked offline, and that the
   record of a cached login belongs to the same node and user as its
   connection, so that it is either followed by that connection's release or
   comes after it. *)
Stopped ==
  \A n \in Nodes :
    /\ phase[n] \in {"down", "crashed"} =>
         \A l \in Logins : conn[l].node # n /\ record[l].node # n
    /\ phase[n] \in {"offline", "down", "crashed"} => beat[n].pc = "idle"

RecordMatches ==
  \A l \in Logins :
    record[l].pc = "upsert" =>
      \/ conn[l].pc = "closed"
      \/ /\ conn[l].pc \in {"authed", "open", "deleted", "clearing"}
         /\ conn[l].node = record[l].node
         /\ conn[l].user = record[l].user

IInv == IType /\ Stopped /\ RecordMatches /\ NoOrphanedClaim

\* The steps of a login and its connection keep IInv.
LEMMA LoginInv ==
  ASSUME IInv, NEW l \in Logins, LoginStep(l)
  PROVE  Stopped' /\ RecordMatches' /\ NoOrphanedClaim'
  <1> USE DEF IInv
  <1>a. /\ conn \in [Logins -> AtType(ConnPcs)]
        /\ record \in [Logins -> AtType(RecordPcs)]
        /\ nodeId \in [Users -> Nodes \union {NoNode}]
        /\ NoNode \notin Nodes
    BY ConstantsAssumption DEF IType, TypeOK
  <1>1. ASSUME NEW n \in Nodes, NEW u \in Users, AuthenticateCached(l, n, u)
        PROVE  Stopped' /\ RecordMatches' /\ NoOrphanedClaim'
    <2>1. /\ conn[l].node = NoNode /\ conn[l].pc = "new" /\ Running(n)
          /\ \A k \in Logins : k # l => conn'[k] = conn[k]
          /\ \A k \in Logins : k # l => record'[k] = record[k]
          /\ \/ conn'[l].pc = "closed" /\ conn'[l].node = NoNode /\ record'[l] = record[l]
             \/ /\ conn'[l].pc = "authed" /\ conn'[l].node = n /\ conn'[l].user = u
                /\ record'[l].pc = "upsert" /\ record'[l].node = n /\ record'[l].user = u
          /\ UNCHANGED <<phase, nodeId, beat, lost>>
      <3>1. conn[l].pc = "new" /\ conn[l].node = NoNode /\ Running(n)
        BY <1>1 DEF IType, Placed, AuthenticateCached
      <3>2. CASE flags[n][u].disabled
        <4>1. /\ conn' = [conn EXCEPT ![l] = Blank("closed")]
              /\ UNCHANGED <<record, phase, nodeId, beat, lost>>
          BY <1>1, <3>2 DEF AuthenticateCached
        <4> QED BY <3>1, <4>1, <1>a DEF Blank, At
      <3>3. CASE ~flags[n][u].disabled
        <4>1. /\ conn' = [conn EXCEPT ![l] = At("authed", n, u, FALSE)]
              /\ record' = [record EXCEPT ![l] = At("upsert", n, u, FALSE)]
              /\ UNCHANGED <<phase, nodeId, beat, lost>>
          BY <1>1, <3>3 DEF AuthenticateCached
        <4> QED BY <3>1, <4>1, <1>a DEF At
      <3> QED BY <3>2, <3>3
    <2>2. Stopped'
      BY <2>1, <1>a DEF Stopped, Running
    <2>3. RecordMatches'
      BY <2>1 DEF RecordMatches
    <2>4. NoOrphanedClaim'
      BY <2>1 DEF NoOrphanedClaim, ReleasePending, Connected
    <2> QED BY <2>2, <2>3, <2>4
  <1>2. ASSUME NEW n \in Nodes, NEW u \in Users, AuthenticateUpsert(l, n, u)
        PROVE  Stopped' /\ RecordMatches' /\ NoOrphanedClaim'
    <2>1. /\ conn[l].node = NoNode /\ conn[l].pc = "new" /\ Running(n)
          /\ \A k \in Logins : k # l => conn'[k] = conn[k]
          /\ conn'[l].pc = "upserted" /\ conn'[l].node = n /\ conn'[l].user = u
          /\ conn'[l].disabled = disabled[u]
          /\ \A v \in Users : v # u => nodeId'[v] = nodeId[v]
          /\ nodeId'[u] = IF disabled[u] THEN nodeId[u] ELSE n
          /\ UNCHANGED <<phase, record, beat>>
      BY <1>2, <1>a DEF IType, Placed, AuthenticateUpsert, UpsertUserOnConnect, At
    <2>5. \A m \in Nodes, v \in Users :
            <<m, v>> \in lost /\ (v = u => disabled[u]) => <<m, v>> \in lost'
      BY <1>2, SettledOnly DEF AuthenticateUpsert, Disabled, IType
    <2>2. Stopped'
      BY <2>1, <1>a DEF Stopped, Running
    <2>3. RecordMatches'
      BY <2>1 DEF RecordMatches
    <2>4. NoOrphanedClaim'
      <3> SUFFICES ASSUME NEW m \in Nodes, NEW v \in Users,
                          nodeId'[v] = m, phase'[m] # "crashed", ~Connected(m, v)'
                   PROVE  ReleasePending(m, v)' \/ <<m, v>> \in lost'
        BY DEF NoOrphanedClaim
      <3>1. CASE v = u /\ ~disabled[u]
        BY <2>1, <3>1 DEF ReleasePending
      <3>2. CASE ~(v = u /\ ~disabled[u])
        <4>1. nodeId[v] = m /\ phase[m] # "crashed"
          BY <2>1, <3>2
        <4>2. ~Connected(m, v)
          BY <2>1 DEF Connected
        <4>3. ReleasePending(m, v) \/ <<m, v>> \in lost
          BY <4>1, <4>2 DEF NoOrphanedClaim
        <4>4. ReleasePending(m, v) => ReleasePending(m, v)'
          BY <2>1 DEF ReleasePending
        <4> QED BY <2>5, <3>2, <4>3, <4>4
      <3> QED BY <3>1, <3>2
    <2> QED BY <2>2, <2>3, <2>4
  <1>3. ASSUME NEW n \in Nodes, NEW u \in Users, AuthenticateError(l, n, u)
        PROVE  Stopped' /\ RecordMatches' /\ NoOrphanedClaim'
    <2>1. /\ conn[l].node = NoNode /\ conn[l].pc = "new"
          /\ \A k \in Logins : k # l => conn'[k] = conn[k]
          /\ conn'[l].pc = "closed" /\ conn'[l].node = NoNode
          /\ UNCHANGED <<phase, nodeId, record, beat, lost>>
      BY <1>3, <1>a DEF IType, Placed, AuthenticateError, Blank, At
    <2>2. Stopped'
      BY <2>1, <1>a DEF Stopped, Running
    <2>3. RecordMatches'
      BY <2>1 DEF RecordMatches
    <2>4. NoOrphanedClaim'
      BY <2>1 DEF NoOrphanedClaim, ReleasePending, Connected
    <2> QED BY <2>2, <2>3, <2>4
  <1>4. CASE AuthenticatePut(l)
    <2>1. /\ conn[l].node \in Nodes /\ conn[l].user \in Users
          /\ conn[l].pc = "upserted"
          /\ \A k \in Logins : k # l => conn'[k] = conn[k]
          /\ \/ conn[l].disabled /\ conn'[l].pc = "closed" /\ conn'[l].node = NoNode
             \/ conn'[l].pc = "authed" /\ conn'[l].node = conn[l].node /\ conn'[l].user = conn[l].user
          /\ UNCHANGED <<phase, nodeId, record, beat, lost>>
      BY <1>4, <1>a DEF IType, Placed, AuthenticatePut, Step, Blank, At
    <2>2. Stopped'
      BY <2>1, <1>a DEF Stopped, Running
    <2>3. RecordMatches'
      BY <2>1 DEF RecordMatches
    <2>4. NoOrphanedClaim'
      BY <2>1 DEF NoOrphanedClaim, ReleasePending, Connected
    <2> QED BY <2>2, <2>3, <2>4
  <1>5. CASE RecordUpsert(l)
    <2>1. /\ record[l].pc = "upsert" /\ record[l].node \in Nodes /\ record[l].user \in Users
          /\ \A k \in Logins : k # l => record'[k] = record[k]
          /\ record'[l].pc = "put" /\ record'[l].node = record[l].node
          /\ \A v \in Users : v # record[l].user => nodeId'[v] = nodeId[v]
          /\ nodeId'[record[l].user] = IF disabled[record[l].user]
                                       THEN nodeId[record[l].user] ELSE record[l].node
          /\ UNCHANGED <<phase, conn, beat>>
      BY <1>5, <1>a DEF IType, Placed, RecordUpsert, UpsertUserOnConnect, At
    <2>5. /\ \A m \in Nodes, v \in Users :
               <<m, v>> \in lost /\ (v = record[l].user => disabled[v]) => <<m, v>> \in lost'
          /\ conn[l].pc = "closed" /\ ~disabled[record[l].user]
               => <<record[l].node, record[l].user>> \in lost'
      BY <1>5, <2>1, SettledOnly DEF RecordUpsert, Disabled, IType
    <2>2. Stopped'
      BY <2>1, <1>a DEF Stopped, Running
    <2>3. RecordMatches'
      BY <2>1 DEF RecordMatches
    <2>4. NoOrphanedClaim'
      BY <2>1, <2>5 DEF NoOrphanedClaim, ReleasePending, Connected, RecordMatches
    <2> QED BY <2>2, <2>3, <2>4
  <1>6. CASE RecordError(l)
    <2>1. /\ record[l].pc = "upsert"
          /\ \A k \in Logins : k # l => record'[k] = record[k]
          /\ record'[l].pc = "none" /\ record'[l].node = NoNode
          /\ UNCHANGED <<phase, nodeId, conn, beat, lost>>
      BY <1>6, <1>a DEF IType, Placed, RecordError, Blank, At
    <2>2. Stopped'
      BY <2>1, <1>a DEF Stopped, Running
    <2>3. RecordMatches'
      BY <2>1 DEF RecordMatches
    <2>4. NoOrphanedClaim'
      BY <2>1 DEF NoOrphanedClaim, ReleasePending, Connected
    <2> QED BY <2>2, <2>3, <2>4
  <1>7. CASE RecordPut(l)
    <2>1. /\ record[l].pc = "put"
          /\ \A k \in Logins : k # l => record'[k] = record[k]
          /\ record'[l].pc = "none" /\ record'[l].node = NoNode
          /\ UNCHANGED <<phase, nodeId, conn, beat, lost>>
      BY <1>7, <1>a DEF IType, Placed, RecordPut, Blank, At
    <2>2. Stopped'
      BY <2>1, <1>a DEF Stopped, Running
    <2>3. RecordMatches'
      BY <2>1 DEF RecordMatches
    <2>4. NoOrphanedClaim'
      BY <2>1 DEF NoOrphanedClaim, ReleasePending, Connected
    <2> QED BY <2>2, <2>3, <2>4
  <1>8. CASE AddConnection(l)
    <2>1. /\ conn[l].node \in Nodes /\ conn[l].user \in Users
          /\ conn[l].pc = "authed"
          /\ \A k \in Logins : k # l => conn'[k] = conn[k]
          /\ conn'[l].pc = "open" /\ conn'[l].node = conn[l].node /\ conn'[l].user = conn[l].user
          /\ UNCHANGED <<phase, nodeId, record, beat, lost>>
      BY <1>8, <1>a DEF IType, Placed, AddConnection, Step, At
    <2>2. Stopped'
      BY <2>1, <1>a DEF Stopped, Running
    <2>3. RecordMatches'
      BY <2>1 DEF RecordMatches
    <2>4. NoOrphanedClaim'
      BY <2>1 DEF NoOrphanedClaim, ReleasePending, Connected
    <2> QED BY <2>2, <2>3, <2>4
  <1>9. CASE Abandon(l)
    <2>1. /\ conn[l].node \in Nodes /\ conn[l].user \in Users
          /\ conn[l].pc = "authed"
          /\ \A k \in Logins : k # l => conn'[k] = conn[k]
          /\ conn'[l].pc = "closed" /\ conn'[l].node = NoNode
          /\ lost' = lost \union {<<conn[l].node, conn[l].user>>}
          /\ UNCHANGED <<phase, nodeId, record, beat>>
      BY <1>9, <1>a DEF IType, Placed, Abandon, Blank, At
    <2>2. Stopped'
      BY <2>1, <1>a DEF Stopped, Running
    <2>3. RecordMatches'
      BY <2>1 DEF RecordMatches
    <2>4. NoOrphanedClaim'
      BY <2>1 DEF NoOrphanedClaim, ReleasePending, Connected
    <2> QED BY <2>2, <2>3, <2>4
  <1>10. CASE Disconnect(l)
    <2>1. /\ conn[l].node \in Nodes /\ conn[l].user \in Users
          /\ conn[l].pc = "open"
          /\ \A k \in Logins : k # l => conn'[k] = conn[k]
          /\ conn'[l].pc = "deleted" /\ conn'[l].node = conn[l].node /\ conn'[l].user = conn[l].user
          /\ UNCHANGED <<phase, nodeId, record, beat, lost>>
      BY <1>10, <1>a DEF IType, Placed, Disconnect, Step, At
    <2>2. Stopped'
      BY <2>1, <1>a DEF Stopped, Running
    <2>3. RecordMatches'
      BY <2>1 DEF RecordMatches
    <2>4. NoOrphanedClaim'
      BY <2>1 DEF NoOrphanedClaim, ReleasePending, Connected
    <2> QED BY <2>2, <2>3, <2>4
  <1>11. CASE ReleaseUserNode(l)
    <2>1. /\ conn[l].node \in Nodes /\ conn[l].user \in Users
          /\ conn[l].pc = "deleted"
          /\ \A k \in Logins : k # l => conn'[k] = conn[k]
          /\ \/ Connected(conn[l].node, conn[l].user) /\ conn'[l].pc = "closed" /\ conn'[l].node = NoNode
             \/ conn'[l].pc = "clearing" /\ conn'[l].node = conn[l].node /\ conn'[l].user = conn[l].user
          /\ UNCHANGED <<phase, nodeId, record, beat, lost>>
      BY <1>11, <1>a DEF IType, Placed, ReleaseUserNode, Step, Blank, At
    <2>2. Stopped'
      BY <2>1, <1>a DEF Stopped, Running
    <2>3. RecordMatches'
      BY <2>1 DEF RecordMatches
    <2>4. NoOrphanedClaim'
      BY <2>1 DEF NoOrphanedClaim, ReleasePending, Connected
    <2> QED BY <2>2, <2>3, <2>4
  <1>12. CASE ClearClaim(l)
    <2>1. /\ conn[l].node \in Nodes /\ conn[l].user \in Users
          /\ conn[l].pc = "clearing"
          /\ \A k \in Logins : k # l => conn'[k] = conn[k]
          /\ conn'[l].pc = "closed" /\ conn'[l].node = NoNode
          /\ \/ nodeId' = ClearUserNodeID(conn[l].user, conn[l].node)
             \/ UNCHANGED nodeId
          /\ UNCHANGED <<phase, record, beat>>
      BY <1>12, <1>a DEF IType, Placed, ClearClaim, Blank, At
    <2>5. /\ \A v \in Users : nodeId'[v] \in {nodeId[v], NoNode}
          /\ \A m \in Nodes, v \in Users :
               <<m, v>> \in lost /\ nodeId'[v] = m => <<m, v>> \in lost'
          /\ nodeId'[conn[l].user] = conn[l].node => <<conn[l].node, conn[l].user>> \in lost'
      <3>1. CASE /\ nodeId' = ClearUserNodeID(conn[l].user, conn[l].node)
                 /\ lost' = Settled({conn[l].user} \intersect Claimed(conn[l].node))
        BY <1>a, <2>1, <3>1, SettledOnly DEF ClearUserNodeID, Claimed, IType
      <3>2. CASE /\ lost' = lost \union {<<conn[l].node, conn[l].user>>}
                 /\ UNCHANGED nodeId
        BY <1>a, <2>1, <3>2
      <3>3. \/ /\ nodeId' = ClearUserNodeID(conn[l].user, conn[l].node)
               /\ lost' = Settled({conn[l].user} \intersect Claimed(conn[l].node))
            \/ /\ lost' = lost \union {<<conn[l].node, conn[l].user>>}
               /\ UNCHANGED nodeId
        BY <1>12, Zenon DEF ClearClaim
      <3> QED BY <3>1, <3>2, <3>3, Zenon
    <2>2. Stopped'
      BY <2>1, <1>a DEF Stopped, Running
    <2>3. RecordMatches'
      BY <2>1 DEF RecordMatches
    <2>4. NoOrphanedClaim'
      BY <1>a, <2>1, <2>5 DEF NoOrphanedClaim, ReleasePending, Connected
    <2> QED BY <2>2, <2>3, <2>4
  <1> QED
    BY <1>1, <1>2, <1>3, <1>4, <1>5, <1>6, <1>7, <1>8, <1>9, <1>10, <1>11, <1>12
    DEF LoginStep

\* The steps of a node's life keep IInv.
LEMMA NodeInv ==
  ASSUME IInv, NEW n \in Nodes, NodeStep(n)
  PROVE  Stopped' /\ RecordMatches' /\ NoOrphanedClaim'
  <1> USE DEF IInv
  <1>a. /\ conn \in [Logins -> AtType(ConnPcs)]
        /\ record \in [Logins -> AtType(RecordPcs)]
        /\ nodeId \in [Users -> Nodes \union {NoNode}]
        /\ phase \in [Nodes -> Phases]
        /\ beat \in [Nodes -> [pc : BeatPcs, batch : SUBSET Users,
                               clearing : SUBSET Users]]
        /\ NoNode \notin Nodes
    BY ConstantsAssumption DEF IType, TypeOK
  <1>1. CASE Open(n)
    <2>1. /\ phase[n] \in {"down", "crashed"} /\ phase'[n] = "up"
          /\ \A m \in Nodes : m # n => phase'[m] = phase[m]
          /\ lost \subseteq lost'
          /\ \A u \in Users : nodeId[u] = n => <<n, u>> \in lost'
          /\ UNCHANGED <<nodeId, conn, record, beat>>
      BY <1>1, <1>a DEF Open, Claimed
    <2>2. Stopped'
      BY <2>1 DEF Stopped
    <2>3. RecordMatches'
      BY <2>1 DEF RecordMatches
    <2>4. NoOrphanedClaim'
      BY <2>1 DEF NoOrphanedClaim, ReleasePending, Connected
    <2> QED BY <2>2, <2>3, <2>4
  <1>2. CASE RegisterNode(n) \/ Age(n)
    <2>1. UNCHANGED <<phase, nodeId, conn, record, beat, lost>>
      BY <1>2 DEF RegisterNode, Age
    <2> QED
      BY <2>1 DEF Stopped, RecordMatches, NoOrphanedClaim, ReleasePending, Connected
  <1>3. CASE BeginClose(n)
    <2>1. /\ phase[n] = "up" /\ phase'[n] = "closing"
          /\ \A m \in Nodes : m # n => phase'[m] = phase[m]
          /\ UNCHANGED <<nodeId, conn, record, beat, lost>>
      BY <1>3, <1>a DEF BeginClose
    <2>2. Stopped'
      BY <2>1 DEF Stopped
    <2>3. RecordMatches'
      BY <2>1 DEF RecordMatches
    <2>4. NoOrphanedClaim'
      BY <2>1 DEF NoOrphanedClaim, ReleasePending, Connected
    <2> QED BY <2>2, <2>3, <2>4
  <1>4. CASE MarkOffline(n)
    <2>1. /\ phase[n] = "closing" /\ phase'[n] = "offline"
          /\ beat[n].pc = "idle"
          /\ \A m \in Nodes : m # n => phase'[m] = phase[m]
          /\ UNCHANGED <<nodeId, conn, record, beat, lost>>
      BY <1>4, <1>a DEF MarkOffline
    <2>2. Stopped'
      BY <2>1 DEF Stopped
    <2>3. RecordMatches'
      BY <2>1 DEF RecordMatches
    <2>4. NoOrphanedClaim'
      BY <2>1 DEF NoOrphanedClaim, ReleasePending, Connected
    <2> QED BY <2>2, <2>3, <2>4
  <1>5. CASE Exit(n)
    <2>1. /\ phase[n] = "offline" /\ phase'[n] = "down"
          /\ \A m \in Nodes : m # n => phase'[m] = phase[m]
          /\ \A l \in Logins : \/ conn[l].node # n /\ conn'[l] = conn[l]
                               \/ /\ conn[l].node = n
                                  /\ conn'[l].pc = "closed"
                                  /\ conn'[l].node = NoNode
          /\ \A l \in Logins : \/ /\ record[l].node # n
                                  /\ record'[l] = record[l]
                               \/ /\ record'[l].pc = "none"
                                  /\ record'[l].node = NoNode
          /\ beat[n].pc = "idle" /\ beat'[n].pc = "idle"
          /\ \A m \in Nodes : m # n => beat'[m] = beat[m]
          /\ UNCHANGED nodeId
      BY <1>5, <1>a DEF Exit, ProcessEnds, Held, Stopped, Blank, At, IdleBeat, Beat
    <2>5. /\ lost \subseteq lost'
          /\ \A l \in Logins : conn[l].node = n =>
               /\ conn[l].pc \in {"deleted", "clearing"}
               /\ <<n, conn[l].user>> \in lost'
      BY <1>5 DEF Exit, Held
    <2>2. Stopped'
      BY <2>1, ConstantsAssumption DEF Stopped
    <2>3. RecordMatches'
      BY <2>1 DEF RecordMatches
    <2>4. NoOrphanedClaim'
      <3> SUFFICES ASSUME NEW m \in Nodes, NEW v \in Users, nodeId'[v] = m,
                          phase'[m] # "crashed", ~Connected(m, v)'
                   PROVE  ReleasePending(m, v)' \/ <<m, v>> \in lost'
        BY DEF NoOrphanedClaim
      <3>1. nodeId[v] = m /\ phase[m] # "crashed"
        BY <2>1
      <3>2. ~Connected(m, v)
        <4> SUFFICES ASSUME NEW l \in Logins, conn[l].pc = "open",
                            conn[l].node = m, conn[l].user = v
                     PROVE  FALSE
          BY DEF Connected
        <4>1. conn[l].node # n
          BY <2>5
        <4>2. conn'[l] = conn[l]
          BY <4>1, <2>1
        <4> QED BY <4>2 DEF Connected
      <3>3. ReleasePending(m, v) \/ <<m, v>> \in lost
        BY <3>1, <3>2 DEF NoOrphanedClaim
      <3>4. CASE m = n
        BY <3>3, <3>4, <2>1, <2>5 DEF ReleasePending
      <3>5. CASE m # n
        BY <3>3, <3>5, <2>1, <2>5 DEF ReleasePending
      <3> QED BY <3>4, <3>5
    <2> QED BY <2>2, <2>3, <2>4
  <1>6. CASE Crash(n)
    <2>1. /\ phase'[n] = "crashed"
          /\ \A m \in Nodes : m # n => phase'[m] = phase[m]
          /\ \A l \in Logins : \/ conn[l].node # n /\ conn'[l] = conn[l]
                               \/ /\ conn[l].node = n
                                  /\ conn'[l].pc = "closed"
                                  /\ conn'[l].node = NoNode
          /\ \A l \in Logins : \/ /\ record[l].node # n
                                  /\ record'[l] = record[l]
                               \/ /\ record'[l].pc = "none"
                                  /\ record'[l].node = NoNode
          /\ beat'[n].pc = "idle"
          /\ \A m \in Nodes : m # n => beat'[m] = beat[m]
          /\ UNCHANGED <<nodeId, lost>>
      BY <1>6, <1>a DEF Crash, ProcessEnds, Held, Blank, At, IdleBeat, Beat
    <2>2. Stopped'
      BY <2>1, ConstantsAssumption DEF Stopped
    <2>3. RecordMatches'
      BY <2>1 DEF RecordMatches
    <2>4. NoOrphanedClaim'
      <3> SUFFICES ASSUME NEW m \in Nodes, NEW v \in Users, nodeId'[v] = m,
                          phase'[m] # "crashed", ~Connected(m, v)'
                   PROVE  ReleasePending(m, v)' \/ <<m, v>> \in lost'
        BY DEF NoOrphanedClaim
      <3>1. nodeId[v] = m /\ phase[m] # "crashed" /\ lost' = lost
        BY <2>1
      <3>2. ~Connected(m, v)
        BY <2>1 DEF Connected
      <3>3. ReleasePending(m, v) \/ <<m, v>> \in lost
        BY <3>1, <3>2 DEF NoOrphanedClaim
      <3>4. ReleasePending(m, v) => ReleasePending(m, v)'
        BY <2>1 DEF ReleasePending
      <3> QED BY <3>1, <3>3, <3>4
    <2> QED BY <2>2, <2>3, <2>4
  <1> QED
    BY <1>1, <1>2, <1>3, <1>4, <1>5, <1>6 DEF NodeStep

\* The steps of a node's heartbeat keep IInv.
LEMMA BeatInv ==
  ASSUME IInv, NEW n \in Nodes, BeatStep(n)
  PROVE  Stopped' /\ RecordMatches' /\ NoOrphanedClaim'
  <1> USE DEF IInv
  <1>a. /\ conn \in [Logins -> AtType(ConnPcs)]
        /\ record \in [Logins -> AtType(RecordPcs)]
        /\ nodeId \in [Users -> Nodes \union {NoNode}]
        /\ phase \in [Nodes -> Phases]
        /\ beat \in [Nodes -> [pc : BeatPcs, batch : SUBSET Users,
                               clearing : SUBSET Users]]
        /\ NoNode \notin Nodes
    BY ConstantsAssumption DEF IType, TypeOK
  <1>1. CASE BeatStart(n)
    <2>1. /\ phase[n] \in {"up", "closing"}
          /\ beat[n].pc = "idle" /\ beat'[n].pc = "marking"
          /\ \A m \in Nodes : m # n => beat'[m] = beat[m]
          /\ UNCHANGED <<phase, nodeId, conn, record, lost>>
      BY <1>1, <1>a DEF BeatStart, Beat
    <2>2. Stopped'
      BY <2>1 DEF Stopped
    <2>3. RecordMatches'
      BY <2>1 DEF RecordMatches
    <2>4. NoOrphanedClaim'
      BY <2>1 DEF NoOrphanedClaim, ReleasePending, Connected
    <2> QED BY <2>2, <2>3, <2>4
  <1>2. CASE BeatMark(n)
    <2>1. /\ beat[n].pc = "marking" /\ beat'[n].pc = "marked"
          /\ beat'[n].batch = beat[n].batch
          /\ \A m \in Nodes : m # n => beat'[m] = beat[m]
          /\ \A u \in Users :
               \/ /\ nodeId'[u] = nodeId[u]
                  /\ \A m \in Nodes : <<m, u>> \in lost => <<m, u>> \in lost'
               \/ nodeId'[u] = n /\ u \in beat[n].batch
          /\ UNCHANGED <<phase, conn, record>>
      BY <1>2, <1>a, SettledOnly DEF BeatMark, MarkUsersOnline, IType
    <2>2. Stopped'
      BY <2>1 DEF Stopped
    <2>3. RecordMatches'
      BY <2>1 DEF RecordMatches
    <2>4. NoOrphanedClaim'
      BY <2>1 DEF NoOrphanedClaim, ReleasePending, Connected
    <2> QED BY <2>2, <2>3, <2>4
  <1>3. CASE BeatError(n)
    <2>1. /\ beat[n].pc = "marking" /\ beat'[n].pc = "idle"
          /\ \A m \in Nodes : m # n => beat'[m] = beat[m]
          /\ UNCHANGED <<phase, conn, record>>
      BY <1>3, <1>a DEF BeatError, IdleBeat, Beat
    <2>5. \A u \in Users :
            \/ /\ nodeId'[u] = nodeId[u]
               /\ \A m \in Nodes : <<m, u>> \in lost => <<m, u>> \in lost'
            \/ nodeId'[u] = n /\ <<n, u>> \in lost'
      <3> DEFINE written == {u \in beat[n].batch : userNodeGone(u)}
      <3>1. CASE UNCHANGED <<nodeId, lost>>
        BY <3>1
      <3>2. CASE /\ nodeId' = MarkUsersOnline(beat[n].batch, n)
                 /\ lost' = Settled(written) \union ({n} \X written)
        <4>1. \A u \in Users : nodeId'[u] = IF u \in written THEN n ELSE nodeId[u]
          BY <3>2 DEF MarkUsersOnline
        <4> HIDE DEF written
        <4> QED BY <3>2, <4>1, SettledOnly DEF IType
      <3> QED BY <1>3, <3>1, <3>2 DEF BeatError
    <2>2. Stopped'
      BY <2>1 DEF Stopped
    <2>3. RecordMatches'
      BY <2>1 DEF RecordMatches
    <2>4. NoOrphanedClaim'
      BY <2>1, <2>5 DEF NoOrphanedClaim, ReleasePending, Connected
    <2> QED BY <2>2, <2>3, <2>4
  <1>4. CASE BeatRecheck(n)
    <2>1. /\ beat[n].pc = "marked" /\ beat'[n].pc = "releasing"
          /\ \A u \in Users : u \in beat[n].batch /\ ~Connected(n, u) => u \in beat'[n].batch
          /\ \A m \in Nodes : m # n => beat'[m] = beat[m]
          /\ UNCHANGED <<phase, nodeId, conn, record, lost>>
      BY <1>4, <1>a DEF BeatRecheck, Beat
    <2>2. Stopped'
      BY <2>1 DEF Stopped
    <2>3. RecordMatches'
      BY <2>1 DEF RecordMatches
    <2>4. NoOrphanedClaim'
      <3> SUFFICES ASSUME NEW m \in Nodes, NEW v \in Users, nodeId'[v] = m,
                          phase'[m] # "crashed", ~Connected(m, v)'
                   PROVE  ReleasePending(m, v)' \/ <<m, v>> \in lost'
        BY DEF NoOrphanedClaim
      <3>1. phase[m] # "crashed" /\ ~Connected(m, v)
        BY <2>1 DEF Connected
      <3>2. nodeId[v] = m => ReleasePending(m, v) \/ <<m, v>> \in lost
        BY <3>1 DEF NoOrphanedClaim
      <3>3. ReleasePending(m, v) => ReleasePending(m, v)'
        BY <2>1, <3>1 DEF ReleasePending
      <3> QED BY <2>1, <3>2, <3>3
    <2> QED BY <2>2, <2>3, <2>4
  <1>5. ASSUME NEW u \in Users, BeatRelease(n, u)
        PROVE  Stopped' /\ RecordMatches' /\ NoOrphanedClaim'
    <2>1. /\ beat[n].pc = "releasing" /\ beat'[n].pc = "releasing"
          /\ beat[n].clearing = {}
          /\ \A v \in Users : v # u /\ v \in beat[n].batch => v \in beat'[n].batch
          /\ ~Connected(n, u) => u \in beat'[n].clearing
          /\ \A m \in Nodes : m # n => beat'[m] = beat[m]
          /\ UNCHANGED <<phase, nodeId, conn, record, lost>>
      BY <1>5, <1>a DEF BeatRelease, Beat
    <2>2. Stopped'
      BY <2>1 DEF Stopped
    <2>3. RecordMatches'
      BY <2>1 DEF RecordMatches
    <2>4. NoOrphanedClaim'
      <3> SUFFICES ASSUME NEW m \in Nodes, NEW v \in Users, nodeId'[v] = m,
                          phase'[m] # "crashed", ~Connected(m, v)'
                   PROVE  ReleasePending(m, v)' \/ <<m, v>> \in lost'
        BY DEF NoOrphanedClaim
      <3>1. phase[m] # "crashed" /\ ~Connected(m, v)
        BY <2>1 DEF Connected
      <3>2. nodeId[v] = m => ReleasePending(m, v) \/ <<m, v>> \in lost
        BY <3>1 DEF NoOrphanedClaim
      <3>3. ReleasePending(m, v) => ReleasePending(m, v)'
        BY <2>1, <3>1 DEF ReleasePending
      <3> QED BY <2>1, <3>2, <3>3
    <2> QED BY <2>2, <2>3, <2>4
  <1>6. ASSUME NEW u \in Users, BeatClear(n, u)
        PROVE  Stopped' /\ RecordMatches' /\ NoOrphanedClaim'
    <2>1. /\ beat[n].pc = "releasing" /\ beat'[n].pc = "releasing"
          /\ beat'[n].batch = beat[n].batch
          /\ \A v \in Users : v # u /\ v \in beat[n].clearing => v \in beat'[n].clearing
          /\ \A m \in Nodes : m # n => beat'[m] = beat[m]
          /\ UNCHANGED <<phase, conn, record>>
      BY <1>6, <1>a DEF BeatClear
    <2>5. /\ \A v \in Users : nodeId'[v] \in {nodeId[v], NoNode}
          /\ \A m \in Nodes, v \in Users :
               <<m, v>> \in lost /\ nodeId'[v] = m => <<m, v>> \in lost'
          /\ nodeId'[u] = n => <<n, u>> \in lost'
      <3>1. CASE nodeId' = ClearUserNodeID(u, n) /\ lost' = Settled({u} \intersect Claimed(n))
        BY <1>a, <3>1, SettledOnly DEF ClearUserNodeID, Claimed, IType
      <3>2. CASE lost' = lost \union {<<n, u>>} /\ UNCHANGED nodeId
        BY <1>a, <3>2
      <3> QED BY <1>6, <3>1, <3>2 DEF BeatClear
    <2>2. Stopped'
      BY <2>1 DEF Stopped
    <2>3. RecordMatches'
      BY <2>1 DEF RecordMatches
    <2>4. NoOrphanedClaim'
      <3> SUFFICES ASSUME NEW m \in Nodes, NEW v \in Users, nodeId'[v] = m,
                          phase'[m] # "crashed", ~Connected(m, v)'
                   PROVE  ReleasePending(m, v)' \/ <<m, v>> \in lost'
        BY DEF NoOrphanedClaim
      <3>1. phase[m] # "crashed" /\ ~Connected(m, v)
        BY <2>1 DEF Connected
      <3>2. nodeId[v] = m => ReleasePending(m, v) \/ <<m, v>> \in lost
        BY <3>1 DEF NoOrphanedClaim
      <3>3. nodeId[v] = m
        BY <1>a, <2>5
      <3>4. /\ <<m, v>> \in lost => <<m, v>> \in lost'
            /\ m = n /\ v = u => <<m, v>> \in lost'
        BY <2>5
      <3>5. ~(m = n /\ v = u) /\ ReleasePending(m, v) => ReleasePending(m, v)'
        BY <2>1 DEF ReleasePending
      <3> QED BY <3>2, <3>3, <3>4, <3>5
    <2> QED BY <2>2, <2>3, <2>4
  <1>7. CASE BeatEnd(n)
    <2>1. /\ beat[n].pc = "releasing" /\ beat'[n].pc = "idle"
          /\ beat[n].batch = {} /\ beat[n].clearing = {}
          /\ \A m \in Nodes : m # n => beat'[m] = beat[m]
          /\ UNCHANGED <<phase, nodeId, conn, record, lost>>
      BY <1>7, <1>a DEF BeatEnd, IdleBeat, Beat
    <2>2. Stopped'
      BY <2>1 DEF Stopped
    <2>3. RecordMatches'
      BY <2>1 DEF RecordMatches
    <2>4. NoOrphanedClaim'
      BY <2>1 DEF NoOrphanedClaim, ReleasePending, Connected
    <2> QED BY <2>2, <2>3, <2>4
  <1> QED
    BY <1>1, <1>2, <1>3, <1>4, <1>5, <1>6, <1>7 DEF BeatStep

\* Disabling, kicking and the expiry of flags keep IInv.
LEMMA AdminInv ==
  ASSUME IInv, AdminStep
  PROVE  Stopped' /\ RecordMatches' /\ NoOrphanedClaim'
  <1> USE DEF IInv
  <1>a. /\ conn \in [Logins -> AtType(ConnPcs)]
        /\ record \in [Logins -> AtType(RecordPcs)]
        /\ nodeId \in [Users -> Nodes \union {NoNode}]
        /\ phase \in [Nodes -> Phases]
        /\ beat \in [Nodes -> [pc : BeatPcs, batch : SUBSET Users,
                               clearing : SUBSET Users]]
        /\ NoNode \notin Nodes
    BY ConstantsAssumption DEF IType, TypeOK
  <1>1. UNCHANGED <<phase, nodeId, conn, record, beat, lost>>
    BY DEF AdminStep, SetDisabled, ExpireFlags, KickUser
  <1>2. Stopped'
    BY <1>1 DEF Stopped
  <1>3. RecordMatches'
    BY <1>1 DEF RecordMatches
  <1>4. ASSUME NEW n \in Nodes, NEW u \in Users
        PROVE  /\ Connected(n, u)' <=> Connected(n, u)
               /\ ReleasePending(n, u)' <=> ReleasePending(n, u)
    <2>1. Connected(n, u)' <=> Connected(n, u)
      BY <1>1 DEF Connected
    <2>2. ReleasePending(n, u)' <=> ReleasePending(n, u)
      BY <1>1 DEF ReleasePending
    <2> QED BY <2>1, <2>2
  <1>5. NoOrphanedClaim'
    BY <1>1, <1>4 DEF NoOrphanedClaim
  <1> QED BY <1>2, <1>3, <1>5

\* The inductive invariant holds initially.
LEMMA InitInv == Init => IInv
  <1> SUFFICES ASSUME Init PROVE Stopped /\ RecordMatches /\ NoOrphanedClaim
    BY InitType DEF IInv
  <1> QED
    BY ConstantsAssumption
    DEF Init, Stopped, RecordMatches, NoOrphanedClaim, Blank, At, IdleBeat, Beat

\* The inductive invariant is kept by every step.
LEMMA NextInv == IInv /\ [Next]_vars => IInv'
  <1> SUFFICES ASSUME IInv, [Next]_vars
               PROVE  Stopped' /\ RecordMatches' /\ NoOrphanedClaim'
    BY NextType DEF IInv
  <1>1. CASE UNCHANGED vars
    <2>1. Stopped' /\ RecordMatches'
      BY <1>1 DEF IInv, vars, Stopped, RecordMatches
    <2>2. NoOrphanedClaim'
      BY <1>1 DEF IInv, vars, NoOrphanedClaim, ReleasePending, Connected
    <2> QED BY <2>1, <2>2
  <1> QED BY <1>1, NodeInv, BeatInv, LoginInv, AdminInv DEF Next

\* No claim is orphaned silently, for any number of nodes, users and
\* connections and under any of the events: a row that names a node without a
\* connection of the user has a release by releaseUserNode ahead of it, or one
\* of the named faults suppressed it.
THEOREM ClaimsReleased == Spec => []NoOrphanedClaim
  <1>1. IInv => NoOrphanedClaim
    BY DEF IInv
  <1> QED BY InitInv, NextInv, <1>1, PTL DEF Spec

-------------------------------------------------------------------------------
(* Without the faults that suppress a release no claim outlives the last
   connection on a node that runs, although its process may be shut down or die
   and statements of logins and heartbeats may fail. *)
Faultless ==
  Events \intersect {"restart", "abandon", "lateRecord", "clearError", "lostReply"} = {}

\* What was lost was lost with its process.
LostStopped ==
  \A n \in Nodes, u \in Users : <<n, u>> \in lost /\ nodeId[u] = n => ~Running(n)

\* A login is recorded while its connection is there.
RecordInTime ==
  \A l \in Logins : record[l].pc = "upsert" => conn[l].pc \in {"authed", "open"}

FInv == LostStopped /\ RecordInTime

\* A step that neither loses nor gives a claim that was lost keeps LostStopped.
LEMMA NothingLost ==
  ASSUME LostStopped, UNCHANGED phase,
         \A m \in Nodes, v \in Users :
           <<m, v>> \in lost' /\ nodeId'[v] = m => <<m, v>> \in lost /\ nodeId[v] = m
  PROVE  LostStopped'
  BY DEF LostStopped, Running

\* The steps of a node's life keep FInv: it only opens without claims.
LEMMA NodeFaultless ==
  ASSUME Faultless, IInv, FInv, NEW n \in Nodes, NodeStep(n)
  PROVE  FInv'
  <1> USE DEF FInv
  <1>a. phase \in [Nodes -> Phases] /\ conn \in [Logins -> AtType(ConnPcs)]
        /\ NoNode \notin Nodes
    BY ConstantsAssumption DEF IInv, IType, TypeOK
  <1>1. CASE Open(n)
    <2>1. /\ \A u \in Users : nodeId[u] # n
          /\ \A m \in Nodes : m # n => phase'[m] = phase[m]
          /\ \A m \in Nodes, u \in Users : m # n /\ <<m, u>> \in lost' => <<m, u>> \in lost
          /\ UNCHANGED <<nodeId, conn, record>>
      BY <1>1, <1>a DEF Open, Claimed, Faultless
    <2>2. LostStopped'
      BY <2>1 DEF LostStopped, Running
    <2> QED BY <2>1, <2>2 DEF RecordInTime
  <1>2. CASE RegisterNode(n) \/ Age(n)
    <2>1. UNCHANGED <<phase, nodeId, conn, record, lost>>
      BY <1>2 DEF RegisterNode, Age
    <2> QED BY <2>1, NothingLost DEF RecordInTime
  <1>3. CASE BeginClose(n) \/ MarkOffline(n)
    <2>1. UNCHANGED <<nodeId, conn, record, lost>>
      BY <1>3 DEF BeginClose, MarkOffline
    <2>2. \A m \in Nodes : phase'[m] \in {"up", "closing", "offline"} => Running(m)
      <3>1. CASE BeginClose(n)
        BY <3>1, <1>a DEF BeginClose, Running
      <3>2. CASE MarkOffline(n)
        BY <3>2, <1>a DEF MarkOffline, Running
      <3> QED BY <1>3, <3>1, <3>2
    <2>3. LostStopped'
      BY <2>1, <2>2 DEF LostStopped, Running
    <2> QED BY <2>1, <2>3 DEF RecordInTime
  <1>4. CASE Exit(n) \/ Crash(n)
    <2>1. /\ phase'[n] \in {"down", "crashed"} /\ ProcessEnds(n) /\ UNCHANGED nodeId
          /\ \A m \in Nodes : m # n => phase'[m] = phase[m]
          /\ \A m \in Nodes, u \in Users : m # n /\ <<m, u>> \in lost' => <<m, u>> \in lost
      BY <1>4, <1>a DEF Exit, Crash
    <2>2. LostStopped'
      BY <2>1 DEF LostStopped, Running
    <2>3. ASSUME NEW l \in Logins, record'[l].pc = "upsert"
          PROVE  conn'[l].pc \in {"authed", "open"}
      <3>1. record'[l] = record[l] /\ record[l].node # n
        BY <2>1, <2>3 DEF ProcessEnds, Blank, At
      <3>2. conn[l].pc \in {"authed", "open"} /\ conn[l].node = record[l].node
        BY <2>3, <3>1 DEF RecordInTime, IInv, RecordMatches
      <3>3. conn'[l] = conn[l]
        BY <2>1, <3>1, <3>2 DEF ProcessEnds, Held
      <3> QED BY <3>2, <3>3
    <2> QED BY <2>2, <2>3 DEF RecordInTime
  <1> QED BY <1>1, <1>2, <1>3, <1>4 DEF NodeStep

\* The steps of a login keep FInv: what they write settles what was lost.
LEMMA LoginFaultless ==
  ASSUME Faultless, IInv, FInv, NEW l \in Logins, LoginStep(l)
  PROVE  FInv'
  <1> USE DEF FInv
  <1>a. /\ conn \in [Logins -> AtType(ConnPcs)]
        /\ record \in [Logins -> AtType(RecordPcs)]
        /\ nodeId \in [Users -> Nodes \union {NoNode}]
        /\ NoNode \notin Nodes /\ TypeOK
    BY ConstantsAssumption DEF IInv, IType, TypeOK
  <1>b. \A k \in Logins : k # l => conn'[k] = conn[k] /\ record'[k] = record[k]
    <2>1. CASE \E n \in Nodes, u \in Users : AuthenticateCached(l, n, u)
      BY <1>a, <2>1 DEF AuthenticateCached
    <2>2. CASE \E n \in Nodes, u \in Users :
                 AuthenticateUpsert(l, n, u) \/ AuthenticateError(l, n, u)
      BY <1>a, <2>2 DEF AuthenticateUpsert, AuthenticateError
    <2>3. CASE AuthenticatePut(l) \/ AddConnection(l) \/ Abandon(l) \/ Disconnect(l)
               \/ ReleaseUserNode(l) \/ ClearClaim(l)
      BY <1>a, <2>3 DEF AuthenticatePut, AddConnection, Abandon, Disconnect,
                        ReleaseUserNode, ClearClaim
    <2>4. CASE RecordUpsert(l) \/ RecordError(l) \/ RecordPut(l)
      BY <1>a, <2>4 DEF RecordUpsert, RecordError, RecordPut
    <2> QED BY <2>1, <2>2, <2>3, <2>4 DEF LoginStep
  <1>c. (record'[l].pc = "upsert" => conn'[l].pc \in {"authed", "open"}) => RecordInTime'
    BY <1>b DEF RecordInTime
  <1>d. UNCHANGED <<phase, nodeId, lost>> => LostStopped'
    BY NothingLost
  <1>e. ASSUME NEW u \in Users, NEW n \in Nodes, UNCHANGED phase,
               nodeId' = UpsertUserOnConnect(u, n), lost' = Settled({u} \ Disabled)
        PROVE  LostStopped'
    <2>1. \A v \in Users : nodeId'[v] = IF v = u /\ ~disabled[u] THEN n ELSE nodeId[v]
      BY <1>a, <1>e DEF UpsertUserOnConnect
    <2>2. \A m \in Nodes, v \in Users :
            <<m, v>> \in lost' => <<m, v>> \in lost /\ ~(v = u /\ ~disabled[u])
      BY <1>a, <1>e, SettledOnly DEF Disabled
    <2> QED BY <1>e, <2>1, <2>2, NothingLost
  <1>1. ASSUME NEW n \in Nodes, NEW u \in Users, AuthenticateCached(l, n, u) PROVE FInv'
    <2>1. \/ conn[l].pc = "new" /\ record'[l] = record[l]
          \/ conn'[l].pc = "authed"
      BY <1>1, <1>a DEF AuthenticateCached, At
    <2>2. RecordInTime'
      BY <1>c, <2>1 DEF RecordInTime
    <2> QED BY <1>1, <1>d, <2>2 DEF AuthenticateCached
  <1>2. ASSUME NEW n \in Nodes, NEW u \in Users, AuthenticateUpsert(l, n, u) PROVE FInv'
    <2>1. conn[l].pc = "new" /\ record'[l] = record[l]
      BY <1>2 DEF AuthenticateUpsert
    <2>2. RecordInTime'
      BY <1>c, <2>1 DEF RecordInTime
    <2>3. LostStopped'
      BY <1>2, <1>e DEF AuthenticateUpsert
    <2> QED BY <2>2, <2>3
  <1>3. ASSUME NEW n \in Nodes, NEW u \in Users, AuthenticateError(l, n, u) PROVE FInv'
    <2>1. conn[l].pc = "new" /\ record'[l] = record[l]
      BY <1>3 DEF AuthenticateError
    <2>2. RecordInTime'
      BY <1>c, <2>1 DEF RecordInTime
    <2> QED BY <1>3, <1>d, <2>2 DEF AuthenticateError
  <1>4. CASE RecordUpsert(l)
    <2>1. /\ record[l].pc = "upsert" /\ record'[l].pc = "put"
          /\ record[l].user \in Users /\ record[l].node \in Nodes
      BY <1>4, <1>a DEF RecordUpsert, At, IInv, IType, Placed
    <2>2. RecordInTime'
      BY <1>c, <2>1
    <2>3. conn[l].pc # "closed"
      BY <2>1 DEF RecordInTime
    <2>4. lost' = Settled({record[l].user} \ Disabled)
      BY <1>4, <2>3 DEF RecordUpsert
    <2>5. LostStopped'
      BY <1>4, <1>e, <2>1, <2>4 DEF RecordUpsert
    <2> QED BY <2>2, <2>5
  <1>5. CASE RecordError(l) \/ RecordPut(l)
    <2>1. record'[l].pc = "none" /\ UNCHANGED <<phase, nodeId, lost>>
      BY <1>5, <1>a DEF RecordError, RecordPut, Blank, At
    <2> QED BY <1>c, <1>d, <2>1
  <1>6. CASE AuthenticatePut(l) \/ ReleaseUserNode(l)
    <2>1. /\ conn[l].pc \in {"upserted", "deleted"}
          /\ UNCHANGED <<phase, nodeId, lost, record>>
      BY <1>6 DEF AuthenticatePut, ReleaseUserNode
    <2>2. RecordInTime'
      BY <1>c, <2>1 DEF RecordInTime
    <2> QED BY <1>d, <2>1, <2>2
  <1>7. CASE AddConnection(l)
    <2>1. conn'[l].pc = "open" /\ UNCHANGED <<phase, nodeId, lost>>
      BY <1>7, <1>a DEF AddConnection, Step, At
    <2> QED BY <1>c, <1>d, <2>1
  <1>8. CASE Disconnect(l)
    <2>1. record[l].pc # "upsert" /\ UNCHANGED <<phase, nodeId, lost, record>>
      BY <1>8 DEF Disconnect, Faultless
    <2> QED BY <1>c, <1>d, <2>1
  <1>9. CASE ClearClaim(l)
    <2>1. /\ conn[l].pc = "clearing" /\ UNCHANGED <<phase, record>>
          /\ nodeId' = ClearUserNodeID(conn[l].user, conn[l].node)
          /\ lost' = Settled({conn[l].user} \intersect Claimed(conn[l].node))
      BY <1>9 DEF ClearClaim, Faultless
    <2>2. RecordInTime'
      BY <1>c, <2>1 DEF RecordInTime
    <2>3. \A v \in Users : nodeId'[v] \in {nodeId[v], NoNode}
      BY <1>a, <2>1 DEF ClearUserNodeID
    <2>4. lost' \subseteq lost
      BY <1>a, <2>1, SettledOnly
    <2>5. \A m \in Nodes, v \in Users :
            <<m, v>> \in lost' /\ nodeId'[v] = m => <<m, v>> \in lost /\ nodeId[v] = m
      BY <1>a, <2>3, <2>4
    <2> QED BY <2>1, <2>2, <2>5, NothingLost
  <1>10. ~Abandon(l)
    BY DEF Abandon, Faultless
  <1> QED BY <1>1, <1>2, <1>3, <1>4, <1>5, <1>6, <1>7, <1>8, <1>9, <1>10 DEF LoginStep

\* The steps of a heartbeat keep FInv.
LEMMA BeatFaultless ==
  ASSUME Faultless, IInv, FInv, NEW n \in Nodes, BeatStep(n)
  PROVE  FInv'
  <1> USE DEF FInv
  <1>a. nodeId \in [Users -> Nodes \union {NoNode}] /\ NoNode \notin Nodes /\ TypeOK
    BY ConstantsAssumption DEF IInv, IType, TypeOK
  <1>b. UNCHANGED <<phase, conn, record>>
    BY DEF BeatStep, BeatStart, BeatMark, BeatError, BeatRecheck, BeatEnd, BeatRelease, BeatClear
  <1>c. RecordInTime'
    BY <1>b DEF RecordInTime
  <1>1. CASE UNCHANGED <<nodeId, lost>>
    BY <1>1, <1>b, <1>c, NothingLost
  <1>2. CASE BeatMark(n)
    <2> DEFINE written == {u \in beat[n].batch : userNodeGone(u)}
    <2>1. \A v \in Users : nodeId'[v] = IF v \in written THEN n ELSE nodeId[v]
      BY <1>2 DEF BeatMark, MarkUsersOnline
    <2>2. lost' = Settled(written)
      BY <1>2 DEF BeatMark
    <2> HIDE DEF written
    <2>3. \A m \in Nodes, v \in Users : <<m, v>> \in lost' => <<m, v>> \in lost /\ v \notin written
      BY <1>a, <2>2, SettledOnly
    <2> QED BY <1>b, <1>c, <2>1, <2>3, NothingLost
  <1>3. ASSUME NEW u \in Users, BeatClear(n, u) PROVE FInv'
    <2>1. nodeId' = ClearUserNodeID(u, n) /\ lost' = Settled({u} \intersect Claimed(n))
      BY <1>3 DEF BeatClear, Faultless
    <2>2. \A v \in Users : nodeId'[v] \in {nodeId[v], NoNode}
      BY <1>a, <2>1 DEF ClearUserNodeID
    <2>3. lost' \subseteq lost
      BY <1>a, <2>1, SettledOnly
    <2>4. \A m \in Nodes, v \in Users :
            <<m, v>> \in lost' /\ nodeId'[v] = m => <<m, v>> \in lost /\ nodeId[v] = m
      BY <1>a, <2>2, <2>3
    <2> QED BY <1>b, <1>c, <2>4, NothingLost
  <1>4. BeatError(n) => UNCHANGED <<nodeId, lost>>
    BY DEF BeatError, Faultless
  <1> QED BY <1>1, <1>2, <1>3, <1>4
          DEF BeatStep, BeatStart, BeatRecheck, BeatEnd, BeatRelease

\* When none of the faults that suppress a release happens, a running node never
\* keeps the claim of a user whose last connection to it has closed, beyond the
\* release that is on its way: not in any interleaving of logins, recorded
\* logins, heartbeats, errors of the database, shutdowns and crashes.
THEOREM ClaimsEndWithConnections ==
  ASSUME Faultless
  PROVE  Spec => []ReleasedAfterLast
  <1>1. Init => FInv
    BY DEF Init, FInv, LostStopped, RecordInTime, Blank, At
  <1>2. ASSUME IInv, FInv, [Next]_vars PROVE FInv'
    <2>1. CASE UNCHANGED vars
      BY <1>2, <2>1, NothingLost DEF vars, FInv, RecordInTime
    <2>2. CASE AdminStep
      <3>1. UNCHANGED <<phase, nodeId, conn, record, lost>>
        BY <2>2 DEF AdminStep, SetDisabled, ExpireFlags, KickUser
      <3> QED BY <1>2, <3>1, NothingLost DEF FInv, RecordInTime
    <2> QED BY <1>2, <2>1, <2>2, NodeFaultless, LoginFaultless, BeatFaultless DEF Next
  <1>3. IInv /\ FInv => ReleasedAfterLast
    BY DEF IInv, FInv, NoOrphanedClaim, LostStopped, ReleasedAfterLast, Running
  <1> QED BY <1>1, <1>2, <1>3, InitInv, NextInv, PTL DEF Spec
===============================================================================

-------------------------- MODULE PresenceStepProofs --------------------------
(* The types of Presence and what its steps may never do, for any set of nodes,
   users and connections and any choice of Events. *)
EXTENDS Presence, TLAPS

\* The records a login or its record takes as values have their types.
LEMMA AtTypes ==
  ASSUME NEW pcs
  PROVE  /\ \A pc \in pcs : Blank(pc) \in AtType(pcs)
         /\ \A pc \in pcs, n \in Nodes, u \in Users, d \in BOOLEAN :
              At(pc, n, u, d) \in AtType(pcs)
  BY DEF Blank, At, AtType

\* A goroutine that is logged in works for a node and a user; one that is not
\* holds neither.
Placed ==
  /\ \A l \in Logins :
       conn[l].pc \in {"upserted", "authed", "open", "deleted", "clearing"}
         => conn[l].node \in Nodes /\ conn[l].user \in Users
  /\ \A l \in Logins : conn[l].pc \in {"new", "closed"} => conn[l].node = NoNode
  /\ \A l \in Logins :
       record[l].pc # "none" => record[l].node \in Nodes /\ record[l].user \in Users
  /\ \A l \in Logins : record[l].pc = "none" => record[l].node = NoNode

IType == TypeOK /\ Placed

\* The initial state has the types of IType.
LEMMA InitType == Init => IType
  <1> SUFFICES ASSUME Init PROVE IType
    OBVIOUS
  <1>1. conn \in [Logins -> AtType(ConnPcs)] /\ record \in [Logins -> AtType(RecordPcs)]
    BY AtTypes DEF Init, ConnPcs, RecordPcs
  <1>2. TypeOK
    BY <1>1 DEF TypeOK, Init, Phases, NoFlags, IdleBeat, Beat, BeatPcs
  <1>3. Placed
    BY DEF Init, Placed, Blank, At
  <1> QED BY <1>2, <1>3 DEF IType

\* Each statement leaves a node or NoNode in every row.
LEMMA StatementTypes ==
  ASSUME TypeOK
  PROVE  /\ \A n \in Nodes, u \in Users :
              /\ UpsertUserOnConnect(u, n) \in [Users -> Nodes \union {NoNode}]
              /\ ClearUserNodeID(u, n) \in [Users -> Nodes \union {NoNode}]
         /\ \A n \in Nodes, us \in SUBSET Users :
              MarkUsersOnline(us, n) \in [Users -> Nodes \union {NoNode}]
  BY DEF TypeOK, UpsertUserOnConnect, MarkUsersOnline, ClearUserNodeID

\* A statement that writes the rows of us settles theirs and nothing else.
LEMMA SettledOnly ==
  ASSUME TypeOK, NEW us
  PROVE  /\ Settled(us) \subseteq lost /\ Settled(us) \subseteq Nodes \X Users
         /\ \A m \in Nodes, v \in Users :
              <<m, v>> \in Settled(us) <=> <<m, v>> \in lost /\ v \notin us
  BY DEF TypeOK, Settled

\* The end of a process resets what it held.
LEMMA ProcessEndsType ==
  ASSUME IType, NEW n \in Nodes, ProcessEnds(n)
  PROVE  /\ flags' \in [Nodes -> [Users -> [cached : BOOLEAN, disabled : BOOLEAN]]]
         /\ conn' \in [Logins -> AtType(ConnPcs)]
         /\ record' \in [Logins -> AtType(RecordPcs)]
         /\ beat' \in [Nodes -> [pc : BeatPcs, batch : SUBSET Users, clearing : SUBSET Users]]
         /\ Placed'
  <1>1. /\ Blank("closed") \in AtType(ConnPcs)
        /\ Blank("none") \in AtType(RecordPcs)
    BY AtTypes DEF ConnPcs, RecordPcs
  <1>2. /\ conn' \in [Logins -> AtType(ConnPcs)]
        /\ record' \in [Logins -> AtType(RecordPcs)]
    BY <1>1 DEF ProcessEnds, IType, TypeOK
  <1>3. Placed'
    BY DEF ProcessEnds, IType, Placed, Blank, At
  <1>4. /\ flags' \in [Nodes -> [Users -> [cached : BOOLEAN, disabled : BOOLEAN]]]
        /\ beat' \in [Nodes -> [pc : BeatPcs, batch : SUBSET Users, clearing : SUBSET Users]]
    BY DEF ProcessEnds, IType, TypeOK, NoFlags, IdleBeat, Beat, BeatPcs
  <1> QED BY <1>2, <1>3, <1>4

\* The steps of a node's life keep the types.
LEMMA NodeType ==
  ASSUME IType, NEW n \in Nodes, NodeStep(n)
  PROVE  IType'
  <1>1. CASE Open(n)
    <2>1. lost' \subseteq Nodes \X Users
      BY <1>1 DEF Open, Claimed, IType, TypeOK
    <2> QED BY <1>1, <2>1 DEF Open, IType, TypeOK, Placed, Phases
  <1>2. CASE RegisterNode(n)
    BY <1>2 DEF RegisterNode, IType, TypeOK, Placed, Phases
  <1>3. CASE BeginClose(n)
    BY <1>3 DEF BeginClose, IType, TypeOK, Placed, Phases
  <1>4. CASE MarkOffline(n)
    BY <1>4 DEF MarkOffline, IType, TypeOK, Placed, Phases
  <1>5. CASE Exit(n)
    <2>1. \A l \in Held(n) : conn[l].user \in Users
      BY <1>5 DEF Exit, Held, IType, Placed
    <2>2. lost' \subseteq Nodes \X Users
      BY <1>5, <2>1 DEF Exit, IType, TypeOK
    <2> QED
      BY <1>5, <2>2, ProcessEndsType DEF Exit, IType, TypeOK, Phases
  <1>6. CASE Crash(n)
    BY <1>6, ProcessEndsType DEF Crash, IType, TypeOK, Phases
  <1>7. CASE Age(n)
    BY <1>7 DEF Age, IType, TypeOK, Placed, Phases
  <1> QED BY <1>1, <1>2, <1>3, <1>4, <1>5, <1>6, <1>7 DEF NodeStep

\* The steps of a login and its connection keep the types.
LEMMA LoginType ==
  ASSUME IType, NEW l \in Logins, LoginStep(l)
  PROVE  IType'
  <1> USE DEF IType
  <1>a. /\ \A pc \in {"closed", "new"} : Blank(pc) \in AtType(ConnPcs)
        /\ \A pc \in {"upserted", "authed", "open", "deleted", "clearing"}, n \in Nodes, u \in Users, d \in BOOLEAN :
              At(pc, n, u, d) \in AtType(ConnPcs)
        /\ Blank("none") \in AtType(RecordPcs)
        /\ \A pc \in {"upsert", "put"}, n \in Nodes, u \in Users, d \in BOOLEAN :
              At(pc, n, u, d) \in AtType(RecordPcs)
    BY AtTypes DEF ConnPcs, RecordPcs
  <1>b. ASSUME NEW f \in AtType(ConnPcs) \union AtType(RecordPcs),
               f.node \in Nodes, f.user \in Users
        PROVE  PutUserFlags(f) \in [Nodes -> [Users -> [cached : BOOLEAN, disabled : BOOLEAN]]]
    BY <1>b DEF PutUserFlags, AtType, TypeOK
  <1>1. ASSUME NEW n \in Nodes, NEW u \in Users, AuthenticateCached(l, n, u)
        PROVE  IType'
    <2>1. CASE flags[n][u].disabled
      <3>1. /\ conn' = [conn EXCEPT ![l] = Blank("closed")]
            /\ UNCHANGED <<phase, nodeRow, nodeId, disabled, flags, record, beat, lost>>
        BY <1>1, <2>1 DEF AuthenticateCached
      <3>2. conn' \in [Logins -> AtType(ConnPcs)]
        BY <3>1, <1>a DEF TypeOK
      <3>3. Placed'
        BY <3>1 DEF Placed, TypeOK, Blank, At
      <3> QED BY <3>1, <3>2, <3>3 DEF TypeOK
    <2>2. CASE ~flags[n][u].disabled
      <3>1. /\ conn' = [conn EXCEPT ![l] = At("authed", n, u, FALSE)]
            /\ record' = [record EXCEPT ![l] = At("upsert", n, u, FALSE)]
            /\ UNCHANGED <<phase, nodeRow, nodeId, disabled, flags, beat, lost>>
        BY <1>1, <2>2 DEF AuthenticateCached
      <3>2. conn' \in [Logins -> AtType(ConnPcs)] /\ record' \in [Logins -> AtType(RecordPcs)]
        BY <3>1, <1>a DEF TypeOK
      <3>3. Placed'
        BY <3>1 DEF Placed, TypeOK, Blank, At
      <3> QED BY <3>1, <3>2, <3>3 DEF TypeOK
    <2> QED BY <2>1, <2>2
  <1>2. ASSUME NEW n \in Nodes, NEW u \in Users, AuthenticateUpsert(l, n, u)
        PROVE  IType'
    <2>1. conn' \in [Logins -> AtType(ConnPcs)]
      BY <1>2, <1>a DEF AuthenticateUpsert, TypeOK
    <2>2. Placed'
      BY <1>2 DEF AuthenticateUpsert, Placed, TypeOK, Blank, At
    <2>3. lost' \subseteq Nodes \X Users
      BY <1>2, SettledOnly DEF AuthenticateUpsert
    <2> QED BY <1>2, <2>1, <2>2, <2>3, StatementTypes DEF AuthenticateUpsert, TypeOK
  <1>3. ASSUME NEW n \in Nodes, NEW u \in Users, AuthenticateError(l, n, u)
        PROVE  IType'
    <2>1. conn' \in [Logins -> AtType(ConnPcs)]
      BY <1>3, <1>a DEF AuthenticateError, TypeOK
    <2>2. Placed'
      BY <1>3 DEF AuthenticateError, Placed, TypeOK, Blank, At
    <2> QED BY <1>3, <2>1, <2>2 DEF AuthenticateError, TypeOK
  <1>4. CASE AuthenticatePut(l)
    <2>1. conn[l] \in AtType(ConnPcs) /\ conn[l].node \in Nodes /\ conn[l].user \in Users
      BY <1>4 DEF AuthenticatePut, TypeOK, Placed
    <2>2. conn' \in [Logins -> AtType(ConnPcs)]
      BY <1>4, <1>a, <2>1 DEF AuthenticatePut, TypeOK, Step
    <2>3. Placed'
      BY <1>4, <2>1 DEF AuthenticatePut, Placed, TypeOK, Blank, Step, At
    <2>4. flags' \in [Nodes -> [Users -> [cached : BOOLEAN, disabled : BOOLEAN]]]
      BY <1>4, <1>b, <2>1 DEF AuthenticatePut
    <2> QED BY <1>4, <2>2, <2>3, <2>4 DEF AuthenticatePut, TypeOK
  <1>5. CASE RecordUpsert(l)
    <2>1. record[l].node \in Nodes /\ record[l].user \in Users
      BY <1>5 DEF RecordUpsert, TypeOK, Placed
    <2>2. record' \in [Logins -> AtType(RecordPcs)]
      BY <1>5, <1>a, <2>1 DEF RecordUpsert, TypeOK
    <2>3. Placed'
      BY <1>5, <2>1 DEF RecordUpsert, Placed, TypeOK, Blank, At
    <2>4. lost' \subseteq Nodes \X Users
      <3> DEFINE new == {record[l].user} \ Disabled
      <3>1. Settled(new) \subseteq Nodes \X Users
        BY SettledOnly
      <3>2. lost' \subseteq Settled(new) \union ({record[l].node} \X new)
        BY <1>5 DEF RecordUpsert
      <3> QED BY <2>1, <3>1, <3>2
    <2>5. nodeId' \in [Users -> Nodes \union {NoNode}]
      BY <1>5, <2>1, StatementTypes DEF RecordUpsert
    <2> QED BY <1>5, <2>2, <2>3, <2>4, <2>5 DEF RecordUpsert, TypeOK
  <1>6. CASE RecordError(l)
    <2>1. record' \in [Logins -> AtType(RecordPcs)]
      BY <1>6, <1>a DEF RecordError, TypeOK
    <2>2. Placed'
      BY <1>6 DEF RecordError, Placed, TypeOK, Blank, At
    <2> QED BY <1>6, <2>1, <2>2 DEF RecordError, TypeOK
  <1>7. CASE RecordPut(l)
    <2>1. record[l] \in AtType(RecordPcs) /\ record[l].node \in Nodes /\ record[l].user \in Users
      BY <1>7 DEF RecordPut, TypeOK, Placed
    <2>2. record' \in [Logins -> AtType(RecordPcs)]
      BY <1>7, <1>a DEF RecordPut, TypeOK
    <2>3. Placed'
      BY <1>7 DEF RecordPut, Placed, TypeOK, Blank, At
    <2>4. flags' \in [Nodes -> [Users -> [cached : BOOLEAN, disabled : BOOLEAN]]]
      BY <1>7, <1>b, <2>1 DEF RecordPut
    <2> QED BY <1>7, <2>2, <2>3, <2>4 DEF RecordPut, TypeOK
  <1>8. CASE AddConnection(l)
    <2>1. conn[l].node \in Nodes /\ conn[l].user \in Users
      BY <1>8 DEF AddConnection, TypeOK, Placed
    <2>2. conn' \in [Logins -> AtType(ConnPcs)]
      BY <1>8, <1>a, <2>1 DEF AddConnection, TypeOK, Step
    <2>3. Placed'
      BY <1>8, <2>1 DEF AddConnection, Placed, TypeOK, Step, At
    <2> QED BY <1>8, <2>2, <2>3 DEF AddConnection, TypeOK
  <1>9. CASE Abandon(l)
    <2>1. conn' \in [Logins -> AtType(ConnPcs)]
      BY <1>9, <1>a DEF Abandon, TypeOK
    <2>2. Placed'
      BY <1>9 DEF Abandon, Placed, TypeOK, Blank, At
    <2>3. conn[l].node \in Nodes /\ conn[l].user \in Users
      BY <1>9 DEF Abandon, TypeOK, Placed
    <2>4. lost' \subseteq Nodes \X Users
      BY <1>9, <2>3 DEF Abandon, TypeOK
    <2> QED BY <1>9, <2>1, <2>2, <2>4 DEF Abandon, TypeOK
  <1>10. CASE Disconnect(l)
    <2>1. conn[l].node \in Nodes /\ conn[l].user \in Users
      BY <1>10 DEF Disconnect, TypeOK, Placed
    <2>2. conn' \in [Logins -> AtType(ConnPcs)]
      BY <1>10, <1>a, <2>1 DEF Disconnect, TypeOK, Step
    <2>3. Placed'
      BY <1>10, <2>1 DEF Disconnect, Placed, TypeOK, Step, At
    <2> QED BY <1>10, <2>2, <2>3 DEF Disconnect, TypeOK
  <1>11. CASE ReleaseUserNode(l)
    <2>1. conn[l].node \in Nodes /\ conn[l].user \in Users
      BY <1>11 DEF ReleaseUserNode, TypeOK, Placed
    <2>2. conn' \in [Logins -> AtType(ConnPcs)]
      BY <1>11, <1>a, <2>1 DEF ReleaseUserNode, TypeOK, Step
    <2>3. Placed'
      BY <1>11, <2>1 DEF ReleaseUserNode, Placed, TypeOK, Blank, Step, At
    <2> QED BY <1>11, <2>2, <2>3 DEF ReleaseUserNode, TypeOK
  <1>12. CASE ClearClaim(l)
    <2>1. conn[l].node \in Nodes /\ conn[l].user \in Users
      BY <1>12 DEF ClearClaim, TypeOK, Placed
    <2>2. conn' \in [Logins -> AtType(ConnPcs)]
      BY <1>12, <1>a DEF ClearClaim, TypeOK
    <2>3. Placed'
      BY <1>12 DEF ClearClaim, Placed, TypeOK, Blank, At
    <2>4. nodeId' \in [Users -> Nodes \union {NoNode}]
      BY <1>12, <2>1, StatementTypes DEF ClearClaim, TypeOK
    <2>5. lost' \subseteq Nodes \X Users
      BY <1>12, <2>1, SettledOnly DEF ClearClaim, TypeOK
    <2> QED BY <1>12, <2>2, <2>3, <2>4, <2>5 DEF ClearClaim, TypeOK
  <1> QED
    BY <1>1, <1>2, <1>3, <1>4, <1>5, <1>6, <1>7, <1>8, <1>9, <1>10, <1>11, <1>12
    DEF LoginStep

\* The steps of the heartbeat keep the types.
LEMMA BeatType ==
  ASSUME IType, NEW n \in Nodes, BeatStep(n)
  PROVE  IType'
  <1> USE DEF IType
  <1>a. \A pc \in BeatPcs, b \in SUBSET Users, c \in SUBSET Users :
          Beat(pc, b, c) \in [pc : BeatPcs, batch : SUBSET Users, clearing : SUBSET Users]
    BY DEF Beat
  <1>b. beat[n].batch \in SUBSET Users /\ beat[n].clearing \in SUBSET Users
    BY DEF TypeOK
  <1>1. CASE BeatStart(n)
    BY <1>1, <1>a DEF BeatStart, TypeOK, Placed, BeatPcs
  <1>2. CASE BeatMark(n)
    <2>1. nodeId' \in [Users -> Nodes \union {NoNode}]
      BY <1>2, <1>b, StatementTypes DEF BeatMark
    <2>2. beat' \in [Nodes -> [pc : BeatPcs, batch : SUBSET Users, clearing : SUBSET Users]]
      <3>1. beat \in [Nodes -> [pc : BeatPcs, batch : SUBSET Users, clearing : SUBSET Users]]
        BY DEF TypeOK
      <3>2. beat' = [beat EXCEPT ![n].pc = "marked"] /\ "marked" \in BeatPcs
        BY <1>2 DEF BeatMark, BeatPcs
      <3> HIDE DEF IType
      <3> QED BY <3>1, <3>2
    <2>3. lost' \subseteq Nodes \X Users
      BY <1>2, SettledOnly DEF BeatMark
    <2>4. TypeOK'
      BY <1>2, <2>1, <2>2, <2>3 DEF BeatMark, TypeOK
    <2>5. Placed'
      BY <1>2 DEF BeatMark, Placed
    <2> QED BY <2>4, <2>5
  <1>3. CASE BeatError(n)
    <2>1. nodeId' \in [Users -> Nodes \union {NoNode}]
      BY <1>3, <1>b, StatementTypes DEF BeatError, TypeOK
    <2>2. lost' \subseteq Nodes \X Users
      <3> DEFINE written == {u \in beat[n].batch : userNodeGone(u)}
      <3>1. Settled(written) \subseteq Nodes \X Users /\ written \subseteq Users
            /\ lost \subseteq Nodes \X Users
        BY <1>b, SettledOnly DEF TypeOK
      <3>2. lost' = lost \/ lost' = Settled(written) \union ({n} \X written)
        BY <1>3 DEF BeatError
      <3> HIDE DEF written
      <3> QED BY <3>1, <3>2
    <2> QED BY <1>3, <2>1, <2>2, <1>a DEF BeatError, TypeOK, Placed, BeatPcs, IdleBeat
  <1>4. CASE BeatRecheck(n)
    BY <1>4, <1>a, <1>b DEF BeatRecheck, TypeOK, Placed, BeatPcs
  <1>5. CASE BeatEnd(n)
    BY <1>5, <1>a DEF BeatEnd, TypeOK, Placed, BeatPcs, IdleBeat
  <1>6. ASSUME NEW u \in Users, BeatRelease(n, u) PROVE IType'
    <2>1. (IF Connected(n, u) THEN {} ELSE {u}) \in SUBSET Users
      OBVIOUS
    <2> QED BY <1>6, <1>a, <1>b, <2>1 DEF BeatRelease, TypeOK, Placed, BeatPcs
  <1>7. ASSUME NEW u \in Users, BeatClear(n, u) PROVE IType'
    <2>1. nodeId' \in [Users -> Nodes \union {NoNode}] /\ lost' \subseteq Nodes \X Users
      <3>1. /\ nodeId' = nodeId \/ nodeId' = ClearUserNodeID(u, n)
            /\ lost' \subseteq lost \union {<<n, u>>}
        BY <1>7, SettledOnly DEF BeatClear
      <3>2. /\ nodeId \in [Users -> Nodes \union {NoNode}] /\ lost \subseteq Nodes \X Users
            /\ ClearUserNodeID(u, n) \in [Users -> Nodes \union {NoNode}]
        BY StatementTypes DEF TypeOK
      <3>3. nodeId' \in [Users -> Nodes \union {NoNode}]
        BY <3>1, <3>2
      <3>4. lost' \subseteq Nodes \X Users
        BY <3>1, <3>2
      <3> QED BY <3>3, <3>4
    <2>2. beat' \in [Nodes -> [pc : BeatPcs, batch : SUBSET Users, clearing : SUBSET Users]]
      <3>1. beat \in [Nodes -> [pc : BeatPcs, batch : SUBSET Users, clearing : SUBSET Users]]
        BY DEF TypeOK
      <3>2. beat' = [beat EXCEPT ![n].clearing = @ \ {u}]
        BY <1>7 DEF BeatClear
      <3>3. beat[n].clearing \ {u} \in SUBSET Users
        BY <1>b
      <3> HIDE DEF IType
      <3> QED BY <3>1, <3>2, <3>3
    <2>3. TypeOK'
      BY <1>7, <2>1, <2>2 DEF BeatClear, TypeOK
    <2>4. Placed'
      BY <1>7 DEF BeatClear, Placed
    <2> QED BY <2>3, <2>4
  <1> QED BY <1>1, <1>2, <1>3, <1>4, <1>5, <1>6, <1>7 DEF BeatStep

\* The operator's steps keep the types.
LEMMA AdminType ==
  ASSUME IType, AdminStep
  PROVE  IType'
  <1> USE DEF IType
  <1>1. ASSUME NEW u \in Users, SetDisabled(u) PROVE IType'
    BY <1>1 DEF SetDisabled, TypeOK, Placed
  <1>2. ASSUME NEW n \in Nodes, NEW u \in Users, ExpireFlags(n, u) PROVE IType'
    BY <1>2 DEF ExpireFlags, TypeOK, Placed, NoFlags
  <1>3. ASSUME NEW n \in Nodes, NEW u \in Users, KickUser(n, u) PROVE IType'
    BY <1>3 DEF KickUser, TypeOK, Placed, NoFlags
  <1> QED BY <1>1, <1>2, <1>3 DEF AdminStep

\* Every step keeps the types.
LEMMA NextType == IType /\ [Next]_vars => IType'
  <1> SUFFICES ASSUME IType, [Next]_vars PROVE IType'
    OBVIOUS
  <1>1. CASE UNCHANGED vars
    BY <1>1 DEF vars, IType, TypeOK, Placed
  <1> QED BY <1>1, NodeType, BeatType, LoginType, AdminType DEF Next

\* Rows, caches, connections and loops of Presence hold values of their types
\* in every reachable state, for any number of nodes, users and connections.
THEOREM TypeCorrect == Spec => []TypeOK
  <1>1. IType => TypeOK
    BY DEF IType
  <1> QED BY InitType, NextType, <1>1, PTL DEF Spec

-------------------------------------------------------------------------------
\* Who writes a claim: a login or the record of a cached one, of a user who is
\* not disabled; a heartbeat that finds the claim gone; or a release by the
\* node the claim names.
ClaimWritten(u) ==
  \/ \E l \in Logins : /\ conn[l].pc = "new" /\ conn'[l].pc = "upserted"
                       /\ conn'[l].user = u /\ ~disabled[u]
  \/ \E l \in Logins : /\ record[l].pc = "upsert" /\ record'[l].pc = "put"
                       /\ record[l].user = u /\ ~disabled[u]
  \/ \E n \in Nodes : u \in beat[n].batch /\ userNodeGone(u)
  \/ /\ nodeId'[u] = NoNode
     /\ \/ \E l \in Logins : /\ conn[l].pc = "clearing" /\ conn[l].user = u
                             /\ conn[l].node = nodeId[u]
        \/ \E n \in Nodes : nodeId[u] = n /\ u \in beat[n].clearing

\* Who writes node_id, and what.
LEMMA ClaimWriters ==
  ASSUME IType, Next, NEW u \in Users, nodeId'[u] # nodeId[u]
  PROVE  ClaimWritten(u)
  <1>a. /\ conn \in [Logins -> AtType(ConnPcs)]
        /\ record \in [Logins -> AtType(RecordPcs)]
        /\ nodeId \in [Users -> Nodes \union {NoNode}]
    BY DEF IType, TypeOK
  <1>1. ASSUME NEW n \in Nodes, NodeStep(n) PROVE FALSE
    BY <1>1 DEF NodeStep, Open, RegisterNode, BeginClose, MarkOffline, Exit, Crash, Age
  <1>2. ~AdminStep
    BY DEF AdminStep, SetDisabled, ExpireFlags, KickUser
  <1>3. ASSUME NEW n \in Nodes, BeatStep(n) PROVE ClaimWritten(u)
    <2>1. CASE BeatMark(n) \/ BeatError(n)
      BY <2>1, <1>a DEF BeatMark, BeatError, MarkUsersOnline, ClaimWritten
    <2>2. ASSUME NEW v \in Users, BeatClear(n, v) PROVE ClaimWritten(u)
      <3>1. v = u /\ nodeId[u] = n /\ nodeId'[u] = NoNode /\ u \in beat[n].clearing
        BY <2>2, <1>a DEF BeatClear, ClearUserNodeID
      <3> QED BY <3>1 DEF ClaimWritten
    <2> QED
      BY <1>3, <2>1, <2>2 DEF BeatStep, BeatStart, BeatRecheck, BeatEnd, BeatRelease
  <1>4. ASSUME NEW l \in Logins, LoginStep(l) PROVE ClaimWritten(u)
    <2>1. ASSUME NEW n \in Nodes, NEW v \in Users, AuthenticateUpsert(l, n, v)
          PROVE  ClaimWritten(u)
      <3>1. v = u /\ ~disabled[u]
        BY <2>1, <1>a DEF AuthenticateUpsert, UpsertUserOnConnect
      <3>2. conn[l].pc = "new" /\ conn'[l].pc = "upserted" /\ conn'[l].user = v
        BY <2>1, <1>a DEF AuthenticateUpsert, At
      <3>3. \E k \in Logins : /\ conn[k].pc = "new" /\ conn'[k].pc = "upserted"
                              /\ conn'[k].user = u /\ ~disabled[u]
        BY <3>1, <3>2
      <3> QED BY <3>3 DEF ClaimWritten
    <2>2. CASE RecordUpsert(l)
      <3>1. record[l].user = u /\ ~disabled[u]
        BY <2>2, <1>a DEF RecordUpsert, UpsertUserOnConnect
      <3>2. record[l].pc = "upsert" /\ record'[l].pc = "put"
        BY <2>2, <1>a DEF RecordUpsert, At
      <3>3. \E k \in Logins : /\ record[k].pc = "upsert" /\ record'[k].pc = "put"
                              /\ record[k].user = u /\ ~disabled[u]
        BY <3>1, <3>2
      <3> QED BY <3>3 DEF ClaimWritten
    <2>3. CASE ClearClaim(l)
      <3>1. /\ conn[l].pc = "clearing" /\ conn[l].user = u
            /\ conn[l].node = nodeId[u] /\ nodeId'[u] = NoNode
        BY <2>3, <1>a DEF ClearClaim, ClearUserNodeID
      <3> QED BY <3>1 DEF ClaimWritten
    <2> QED
      BY <1>4, <2>1, <2>2, <2>3
      DEF LoginStep, AuthenticateCached, AuthenticateError, AuthenticatePut,
          RecordError, RecordPut, AddConnection, Abandon, Disconnect, ReleaseUserNode
  <1> QED BY <1>1, <1>2, <1>3, <1>4 DEF Next

\* No heartbeat takes a claim from a live node the user is connected to, for
\* any number of nodes: MarkUsersOnline adopts only a row userNodeGone holds of.
THEOREM HeartbeatsKeepClaims == Spec => ClaimKept
  <1>1. ASSUME IType, [Next]_vars, NEW m \in Nodes, NEW u \in Users,
               nodeId[u] = m, Live(m), nodeId'[u] # m
        PROVE  \/ \E l \in Logins :
                    \/ conn[l].pc = "new" /\ conn'[l].pc = "upserted" /\ conn'[l].user = u
                    \/ record[l].pc = "upsert" /\ record'[l].pc = "put" /\ record[l].user = u
                    \/ conn[l].pc = "clearing" /\ conn[l].node = m /\ conn[l].user = u
               \/ u \in beat[m].clearing
    <2>1. Next
      BY <1>1 DEF vars
    <2>2. ClaimWritten(u)
      BY <1>1, <2>1, ClaimWriters
    <2>3. ~userNodeGone(u)
      BY <1>1 DEF userNodeGone
    <2> QED BY <1>1, <2>2, <2>3 DEF ClaimWritten
  <1>2. IType /\ [Next]_vars => [KeepsClaims]_vars
    BY <1>1 DEF KeepsClaims
  <1> QED
    BY <1>2, InitType, NextType, PTL DEF Spec, ClaimKept

\* A disabled user without a connection never gains a claim, neither by a
\* login that is refused nor by the record of one that stale flags accepted.
THEOREM DisabledUsersUnclaimed == Spec => DisabledGainsNothing
  <1>1. ASSUME IType, [Next]_vars, NEW u \in Users, disabled[u],
               \A n \in Nodes : ~Connected(n, u) /\ u \notin beat[n].batch
        PROVE  nodeId'[u] \in {nodeId[u], NoNode}
    <2>1. CASE nodeId'[u] = nodeId[u]
      BY <2>1
    <2>2. CASE nodeId'[u] # nodeId[u]
      <3>1. Next
        BY <1>1, <2>2 DEF vars
      <3>2. ClaimWritten(u)
        BY <1>1, <2>2, <3>1, ClaimWriters
      <3> QED BY <1>1, <3>2 DEF ClaimWritten
    <2> QED BY <2>1, <2>2
  <1>2. IType /\ [Next]_vars => [ClaimsNoDisabled]_vars
    BY <1>1 DEF ClaimsNoDisabled
  <1> QED
    BY <1>2, InitType, NextType, PTL DEF Spec, DisabledGainsNothing

\* A node that has forgotten a disabled user lets no login of the user in and
\* caches no flags that would: whatever a login or its record reads says that
\* the user is disabled (authenticate, UpsertUserOnConnect).
THEOREM RevokedStayOut == Spec => RevocationHolds
  <1>1. ASSUME IType, [Next]_vars, NEW n \in Nodes, NEW u \in Users,
               disabled[u], ~Trusts(n, u)
        PROVE  /\ ~Trusts(n, u)'
               /\ \A l \in Logins : IsAt(conn'[l], "authed", n, u) => conn[l] = conn'[l]
    <2> DEFINE Safe == /\ ~(flags'[n][u].cached /\ ~flags'[n][u].disabled)
                       /\ \A k \in Logins : ~IsAt(conn'[k], "upserted", n, u)
                       /\ \A k \in Logins : ~IsAt(record'[k], "put", n, u)
                       /\ \A k \in Logins :
                            IsAt(conn'[k], "authed", n, u) => conn[k] = conn'[k]
    <2>a. /\ conn \in [Logins -> AtType(ConnPcs)]
          /\ record \in [Logins -> AtType(RecordPcs)]
          /\ flags \in [Nodes -> [Users -> [cached : BOOLEAN, disabled : BOOLEAN]]]
          /\ disabled \in [Users -> BOOLEAN]
      BY <1>1 DEF IType, TypeOK
    <2>b. /\ ~(flags[n][u].cached /\ ~flags[n][u].disabled)
          /\ \A k \in Logins : ~IsAt(conn[k], "upserted", n, u)
          /\ \A k \in Logins : ~IsAt(record[k], "put", n, u)
      BY <1>1 DEF Trusts
    <2>c. \A m, v : /\ IsAt(At("authed", m, v, FALSE), "authed", n, u) => m = n /\ v = u
                    /\ ~IsAt(At("authed", m, v, FALSE), "upserted", n, u)
                    /\ ~IsAt(At("upsert", m, v, FALSE), "put", n, u)
      BY DEF At, IsAt
    <2>e. \A pc, q, m, v, d : IsAt(At(pc, m, v, d), q, n, u) => pc = q /\ v = u /\ ~d
      BY DEF At, IsAt
    <2>d. \A q \in {"upserted", "authed", "put"} :
            ~IsAt(Blank("closed"), q, n, u) /\ ~IsAt(Blank("none"), q, n, u)
      BY DEF Blank, At, IsAt
    <2>1. ASSUME UNCHANGED vars PROVE Safe
      BY <2>1, <2>b DEF vars
    <2>2. ASSUME NEW m \in Nodes, NodeStep(m) PROVE Safe
      <3>1. \/ UNCHANGED <<flags, conn, record>>
            \/ ProcessEnds(m)
        BY <2>2 DEF NodeStep, Open, RegisterNode, BeginClose, MarkOffline, Exit, Crash, Age
      <3>2. CASE ProcessEnds(m)
        <4>1. flags'[n][u] \in {flags[n][u], NoFlags}
          BY <3>2, <2>a DEF ProcessEnds
        <4>2. \A k \in Logins : conn'[k] \in {conn[k], Blank("closed")}
          BY <3>2 DEF ProcessEnds
        <4>3. \A k \in Logins : record'[k] \in {record[k], Blank("none")}
          BY <3>2 DEF ProcessEnds
        <4> QED BY <4>1, <4>2, <4>3, <2>b, <2>d DEF NoFlags
      <3> QED BY <3>1, <3>2, <2>b
    <2>3. ASSUME NEW m \in Nodes, BeatStep(m) PROVE Safe
      <3>1. UNCHANGED <<flags, conn, record>>
        BY <2>3 DEF BeatStep, BeatStart, BeatMark, BeatError, BeatRecheck, BeatEnd,
                    BeatRelease, BeatClear
      <3> QED BY <3>1, <2>b
    <2>4. ASSUME AdminStep PROVE Safe
      <3>1. UNCHANGED <<conn, record>>
        BY <2>4 DEF AdminStep, SetDisabled, ExpireFlags, KickUser
      <3>2. \/ UNCHANGED flags
            \/ \E m \in Nodes, v \in Users : flags' = [flags EXCEPT ![m][v] = NoFlags]
        BY <2>4 DEF AdminStep, SetDisabled, ExpireFlags, KickUser
      <3>3. flags'[n][u] \in {flags[n][u], NoFlags}
        <4>1. ASSUME NEW m \in Nodes, NEW v \in Users,
                     flags' = [flags EXCEPT ![m][v] = NoFlags]
              PROVE  flags'[n][u] \in {flags[n][u], NoFlags}
          BY <4>1, <2>a
        <4> QED BY <3>2, <4>1
      <3> QED BY <3>1, <3>3, <2>b DEF NoFlags
    <2>5. ASSUME NEW l \in Logins, LoginStep(l) PROVE Safe
      <3>1. ASSUME NEW m \in Nodes, NEW v \in Users, AuthenticateCached(l, m, v) PROVE Safe
        <4>1. CASE flags[m][v].disabled
          <5>1. /\ UNCHANGED <<flags, record>>
                /\ \A k \in Logins : conn'[k] \in {conn[k], Blank("closed")}
            BY <3>1, <4>1, <2>a DEF AuthenticateCached
          <5> QED BY <5>1, <2>b, <2>d
        <4>2. CASE ~flags[m][v].disabled
          <5>1. ~(m = n /\ v = u)
            BY <3>1, <4>2, <2>b DEF AuthenticateCached
          <5>2. /\ UNCHANGED flags
                /\ \A k \in Logins : conn'[k] \in {conn[k], At("authed", m, v, FALSE)}
                /\ \A k \in Logins : record'[k] \in {record[k], At("upsert", m, v, FALSE)}
            BY <3>1, <4>2, <2>a DEF AuthenticateCached
          <5>3. \A k \in Logins :
                  /\ conn'[k] = conn[k]
                     \/ \A q \in {"upserted", "authed"} : ~IsAt(conn'[k], q, n, u)
                  /\ record'[k] = record[k] \/ ~IsAt(record'[k], "put", n, u)
            BY <5>1, <5>2, <2>c
          <5> QED BY <5>2, <5>3, <2>b
        <4> HIDE DEF Safe
        <4> QED BY <4>1, <4>2
      <3>2. ASSUME NEW m \in Nodes, NEW v \in Users, AuthenticateUpsert(l, m, v) PROVE Safe
        <4>1. /\ UNCHANGED <<flags, record>>
              /\ \A k \in Logins : conn'[k] \in {conn[k], At("upserted", m, v, disabled[v])}
          BY <3>2, <2>a DEF AuthenticateUpsert
        <4> QED BY <4>1, <2>b, <2>e, <1>1
      <3>3. ASSUME NEW m \in Nodes, NEW v \in Users, AuthenticateError(l, m, v) PROVE Safe
        <4>1. /\ UNCHANGED <<flags, record>>
              /\ \A k \in Logins : conn'[k] \in {conn[k], Blank("closed")}
          BY <3>3, <2>a DEF AuthenticateError
        <4> QED BY <4>1, <2>b, <2>d
      <3>4. CASE AuthenticatePut(l)
        <4>2. conn[l].node = n /\ conn[l].user = u => conn[l].disabled
          BY <3>4, <2>b DEF AuthenticatePut, IsAt
        <4>3. /\ UNCHANGED record
              /\ flags'[n][u] = IF conn[l].node = n /\ conn[l].user = u
                                THEN [cached |-> TRUE, disabled |-> conn[l].disabled]
                                ELSE flags[n][u]
              /\ \A k \in Logins :
                   \/ conn'[k] \in {conn[k], Blank("closed")}
                   \/ /\ ~conn[l].disabled
                      /\ conn'[k] = At("authed", conn[l].node, conn[l].user, FALSE)
          BY <3>4, <2>a DEF AuthenticatePut, PutUserFlags, Step
        <4>4. ~(flags'[n][u].cached /\ ~flags'[n][u].disabled)
          BY <4>2, <4>3, <2>b
        <4>5. \A k \in Logins :
                conn'[k] = conn[k] \/ \A q \in {"upserted", "authed"} : ~IsAt(conn'[k], q, n, u)
          BY <4>2, <4>3, <2>c, <2>d
        <4> QED BY <4>3, <4>4, <4>5, <2>b
      <3>5. CASE RecordUpsert(l)
        <4>1. /\ UNCHANGED <<flags, conn>>
              /\ \A k \in Logins : record'[k] \in
                   {record[k], At("put", record[l].node, record[l].user, disabled[record[l].user])}
          BY <3>5, <2>a DEF RecordUpsert
        <4> QED BY <4>1, <2>b, <2>e, <1>1
      <3>6. CASE RecordError(l)
        <4>1. /\ UNCHANGED <<flags, conn>>
              /\ \A k \in Logins : record'[k] \in {record[k], Blank("none")}
          BY <3>6, <2>a DEF RecordError
        <4> QED BY <4>1, <2>b, <2>d
      <3>7. CASE RecordPut(l)
        <4>2. record[l].node = n /\ record[l].user = u => record[l].disabled
          BY <3>7, <2>b DEF RecordPut, IsAt
        <4>3. /\ UNCHANGED conn
              /\ flags'[n][u] = IF record[l].node = n /\ record[l].user = u
                                THEN [cached |-> TRUE, disabled |-> record[l].disabled]
                                ELSE flags[n][u]
              /\ \A k \in Logins : record'[k] \in {record[k], Blank("none")}
          BY <3>7, <2>a DEF RecordPut, PutUserFlags
        <4>4. ~(flags'[n][u].cached /\ ~flags'[n][u].disabled)
          BY <4>2, <4>3, <2>b
        <4>5. \A k \in Logins : ~IsAt(record'[k], "put", n, u)
          BY <4>3, <2>b, <2>d
        <4>6. \A k \in Logins : conn'[k] = conn[k]
          BY <4>3
        <4> QED BY <4>4, <4>5, <4>6, <2>b
      <3>8. CASE \/ AddConnection(l) \/ Abandon(l) \/ Disconnect(l)
                 \/ ReleaseUserNode(l) \/ ClearClaim(l)
        <4>1. /\ UNCHANGED <<flags, record>>
              /\ \A k \in Logins : \/ conn'[k] = conn[k]
                                    \/ conn'[k].pc \in {"open", "closed", "deleted", "clearing"}
          BY <3>8, <2>a DEF AddConnection, Abandon, Disconnect, ReleaseUserNode, ClearClaim,
                            Step, Blank, At
        <4> QED BY <4>1, <2>b DEF At, IsAt
      <3> HIDE DEF Safe
      <3> QED BY <2>5, <3>1, <3>2, <3>3, <3>4, <3>5, <3>6, <3>7, <3>8 DEF LoginStep
    <2>6. Safe
      <3> HIDE DEF Safe
      <3> QED BY <1>1, <2>1, <2>2, <2>3, <2>4, <2>5 DEF Next
    <2> QED BY <2>6 DEF Trusts
  <1>2. IType /\ [Next]_vars => [StaysRevoked]_vars
    BY <1>1 DEF StaysRevoked
  <1> QED
    BY <1>2, InitType, NextType, PTL DEF Spec, RevocationHolds
===============================================================================

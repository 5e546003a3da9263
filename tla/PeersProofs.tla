----------------------------- MODULE PeersProofs -----------------------------
(* Proofs about Peers, for any number of remote nodes and any finite number of
   connectToPeer goroutines. *)
EXTENDS Peers, FiniteSetTheorems, TLAPS

(* The inductive invariant, but for the wait group: what a goroutine at each
   of its steps knows about its client, and that a run of connectToPeer is not
   used again while a list or a watcher still refers to it. *)
Shape ==
  /\ done \in BOOLEAN /\ beating \in BOOLEAN /\ online \in BOOLEAN
  /\ peers \in [Remotes -> Dials \union {None}]
  /\ dial \in [Dials -> [pc : DialPcs, node : Remotes \union {None}]]
  /\ client \in [Dials -> Clients]
  /\ watcher \in [Dials -> {"none", "watching", "ended"}]
  /\ loop \in [pc : LoopPcs, todo : SUBSET (Remotes \union Dials), list : SUBSET Dials]
  /\ closer \in [pc : CloserPcs, list : SUBSET Dials]

Knows ==
  \A d \in Dials :
    /\ dial[d].pc # "finished" => dial[d].node \in Remotes
    /\ dial[d].pc = "dialing" => client[d] = "none"
    /\ dial[d].pc = "finished" => client[d] \in {"none", "closed"}
    /\ dial[d].pc = "removing" => client[d] = "closed"
    /\ dial[d].pc \in {"dialing", "dialed", "added"} => watcher[d] # "watching"
    /\ dial[d].pc \in {"dialing", "dialed"} => d \notin loop.list \union closer.list

Evicting == loop.pc = "evict" => loop.todo \subseteq loop.list

SInv == Shape /\ Knows /\ Evicting /\ PeerOwned

\* The record constructors of Peers and their fields.
LEMMA Records ==
  /\ \A pc \in DialPcs, r \in Remotes \union {None} :
       /\ Dial(pc, r) \in [pc : DialPcs, node : Remotes \union {None}]
       /\ Dial(pc, r).pc = pc /\ Dial(pc, r).node = r
  /\ \A pc \in LoopPcs, todo \in SUBSET (Remotes \union Dials), list \in SUBSET Dials :
       /\ Loop(pc, todo, list) \in [pc : LoopPcs, todo : SUBSET (Remotes \union Dials),
                                    list : SUBSET Dials]
       /\ Loop(pc, todo, list).pc = pc
       /\ Loop(pc, todo, list).todo = todo
       /\ Loop(pc, todo, list).list = list
  /\ \A pc \in CloserPcs, list \in SUBSET Dials :
       /\ Closer(pc, list) \in [pc : CloserPcs, list : SUBSET Dials]
       /\ Closer(pc, list).pc = pc /\ Closer(pc, list).list = list
  BY DEF Dial, Loop, Closer

\* SInv holds initially.
LEMMA InitShape == Init => SInv
  <1> SUFFICES ASSUME Init PROVE SInv
    OBVIOUS
  <1>1. Shape
    BY Records DEF Init, Shape, DialPcs, Clients, LoopPcs, CloserPcs
  <1>2. loop.pc = "start" /\ loop.list = {} /\ closer.list = {}
    BY DEF Init, Loop, Closer
  <1>3. \A d \in Dials : dial[d].pc = "finished" /\ client[d] = "none"
    BY DEF Init, Dial
  <1>4. Knows /\ Evicting
    BY <1>2, <1>3 DEF Knows, Evicting
  <1>5. PeerOwned
    BY DEF Init, PeerOwned
  <1> QED BY <1>1, <1>4, <1>5 DEF SInv

\* The steps of runPeers keep SInv.
LEMMA LoopShape ==
  ASSUME SInv, LoopStep
  PROVE  SInv'
  <1> USE DEF SInv
  <1>1. CASE Tick \/ LoopEnds \/ ListNodes \/ PingEnds
    <2>1. \E pc \in LoopPcs, todo \in SUBSET (Remotes \union Dials) :
            pc # "evict" /\ loop' = Loop(pc, todo, {})
      BY <1>1 DEF Tick, LoopEnds, ListNodes, PingEnds, LoopPcs
    <2>2. UNCHANGED <<done, peers, dial, client, watcher, beating, closer>>
      BY <1>1 DEF Tick, LoopEnds, ListNodes, PingEnds
    <2>3. online' \in BOOLEAN
      BY <1>1 DEF Tick, LoopEnds, ListNodes, PingEnds, Shape
    <2>4. loop'.pc # "evict" /\ loop'.list = {}
      BY <2>1 DEF Loop
    <2>5. loop' \in [pc : LoopPcs, todo : SUBSET (Remotes \union Dials),
                     list : SUBSET Dials]
      BY <2>1 DEF Loop
    <2>7. Shape'
      BY <2>2, <2>3, <2>5 DEF Shape
    <2>6. Knows' /\ Evicting' /\ PeerOwned'
      BY <2>2, <2>4 DEF Knows, Evicting, PeerOwned
    <2> QED BY <2>6, <2>7
  <1>2. CASE DiscoverEnds
    <2>1. \E pc \in {"select", "ping"}, list \in SUBSET listPeers :
            loop' = Loop(pc, {}, list)
      BY <1>2 DEF DiscoverEnds
    <2>2. UNCHANGED <<done, peers, dial, client, watcher, beating, closer, online>>
      BY <1>2 DEF DiscoverEnds
    <2>3. loop'.pc # "evict" /\ loop'.list \subseteq listPeers
      BY <2>1 DEF Loop
    <2>7. loop' \in [pc : LoopPcs, todo : SUBSET (Remotes \union Dials),
                     list : SUBSET Dials]
      BY <2>1 DEF Loop, LoopPcs, listPeers
    <2>4. Shape'
      BY <2>2, <2>7 DEF Shape
    <2>5. \A d \in listPeers : dial[d].pc \notin {"dialing", "dialed"}
      BY PeersAssumption DEF PeerOwned, listPeers
    <2>6. Knows' /\ Evicting' /\ PeerOwned'
      BY <2>2, <2>3, <2>5 DEF Knows, Evicting, PeerOwned
    <2> QED BY <2>4, <2>6
  <1>3. ASSUME NEW r \in Remotes, SkipNode(r) PROVE SInv'
    <2>1. Shape'
      BY <1>3 DEF Shape, SkipNode, Loop, LoopPcs
    <2>2. Knows' /\ Evicting' /\ PeerOwned'
      BY <1>3 DEF Knows, Evicting, PeerOwned, SkipNode, Loop
    <2> QED BY <2>1, <2>2
  <1>4. ASSUME NEW r \in Remotes, NEW d \in Dials, StartDial(r, d) PROVE SInv'
    <2>1. Shape'
      BY <1>4 DEF Shape, StartDial, Dial, DialPcs, Clients, Loop, LoopPcs
    <2>2. Knows'
      BY <1>4 DEF Shape, Knows, StartDial, Unused, Dial, Loop
    <2>3. Evicting'
      BY <1>4 DEF StartDial, Evicting, Loop
    <2>4. PeerOwned'
      BY <1>4 DEF Shape, StartDial, Unused, PeerOwned, Dial
    <2> QED BY <2>1, <2>2, <2>3, <2>4
  <1>5. ASSUME NEW d \in Dials, PingAnswered(d) PROVE SInv'
    <2>1. Shape'
      BY <1>5 DEF Shape, PingAnswered, Loop, LoopPcs
    <2>2. Knows' /\ Evicting' /\ PeerOwned'
      BY <1>5 DEF Knows, Evicting, PeerOwned, PingAnswered, Loop
    <2> QED BY <2>1, <2>2
  <1>6. ASSUME NEW d \in Dials, PingFails(d) PROVE SInv'
    <2>1. Shape'
      BY <1>6 DEF Shape, PingFails, removePeer, Loop, LoopPcs
    <2>2. Knows' /\ Evicting'
      BY <1>6 DEF Knows, Evicting, PingFails, Loop
    <2>3. PeerOwned'
      BY <1>6 DEF PeerOwned, PingFails, removePeer
    <2> QED BY <2>1, <2>2, <2>3
  <1>7. ASSUME NEW d \in Dials, EvictPeer(d) PROVE SInv'
    <2>1. Shape'
      BY <1>7 DEF Shape, EvictPeer, ClosePeer, Clients, Loop, LoopPcs
    <2>2. Knows'
      BY <1>7 DEF Shape, Knows, Evicting, EvictPeer, ClosePeer, Loop
    <2>3. Evicting' /\ PeerOwned'
      BY <1>7 DEF Evicting, PeerOwned, EvictPeer, Loop
    <2> QED BY <2>1, <2>2, <2>3
  <1> QED BY <1>1, <1>2, <1>3, <1>4, <1>5, <1>6, <1>7 DEF LoopStep

\* The steps of connectToPeer, its watcher and its connection keep SInv.
LEMMA DialShape ==
  ASSUME SInv, NEW d \in Dials, DialStep(d) \/ WatcherStep(d) \/ Remote(d)
  PROVE  SInv'
  <1> USE DEF SInv
  <1>1. CASE DialFails(d)
    <2>1. Shape'
      BY <1>1 DEF Shape, Knows, DialFails, Dial, DialPcs
    <2>2. Knows'
      BY <1>1 DEF Shape, Knows, DialFails, Dial
    <2>3. Evicting' /\ PeerOwned'
      BY <1>1, PeersAssumption DEF Shape, Knows, Evicting, PeerOwned, DialFails, Dial
    <2> QED BY <2>1, <2>2, <2>3
  <1>2. CASE DialSucceeds(d)
    <2>1. Shape'
      BY <1>2 DEF Shape, Knows, DialSucceeds, Dial, DialPcs, Clients
    <2>2. Knows'
      BY <1>2 DEF Shape, Knows, DialSucceeds, Dial
    <2>3. Evicting' /\ PeerOwned'
      BY <1>2, PeersAssumption DEF Shape, Knows, Evicting, PeerOwned, DialSucceeds, Dial
    <2> QED BY <2>1, <2>2, <2>3
  <1>3. CASE AddPeer(d)
    <2>1. Shape'
      BY <1>3 DEF Shape, Knows, AddPeer, Dial, DialPcs
    <2>2. Knows'
      BY <1>3 DEF Shape, Knows, AddPeer, Dial
    <2>3. Evicting' /\ PeerOwned'
      BY <1>3, PeersAssumption DEF Shape, Knows, Evicting, PeerOwned, AddPeer, Dial
    <2> QED BY <2>1, <2>2, <2>3
  <1>4. CASE AddPeerRefused(d)
    <2>1. Shape'
      BY <1>4 DEF Shape, Knows, AddPeerRefused, ClosePeer, Dial, DialPcs, Clients
    <2>2. Knows'
      BY <1>4 DEF Shape, Knows, AddPeerRefused, ClosePeer, Dial
    <2>3. Evicting' /\ PeerOwned'
      BY <1>4, PeersAssumption DEF Shape, Knows, Evicting, PeerOwned, AddPeerRefused, Dial
    <2> QED BY <2>1, <2>2, <2>3
  <1>5. CASE StartWatcher(d)
    <2>1. Shape'
      BY <1>5 DEF Shape, Knows, StartWatcher, Dial, DialPcs
    <2>2. Knows'
      BY <1>5 DEF Shape, Knows, StartWatcher, Dial
    <2>3. Evicting' /\ PeerOwned'
      BY <1>5, PeersAssumption DEF Shape, Knows, Evicting, PeerOwned, StartWatcher, Dial
    <2> QED BY <2>1, <2>2, <2>3
  <1>6. CASE WaitReturns(d)
    <2>1. Shape'
      BY <1>6 DEF Shape, Knows, WaitReturns, Dial, DialPcs
    <2>2. Knows'
      BY <1>6 DEF Shape, Knows, WaitReturns, Ended, Dial
    <2>3. Evicting' /\ PeerOwned'
      BY <1>6, PeersAssumption DEF Shape, Knows, Evicting, PeerOwned, WaitReturns, Dial
    <2> QED BY <2>1, <2>2, <2>3
  <1>7. CASE DeferredClose(d)
    <2>1. Shape'
      BY <1>7 DEF Shape, Knows, DeferredClose, ClosePeer, Dial, DialPcs, Clients
    <2>2. Knows'
      BY <1>7 DEF Shape, Knows, DeferredClose, ClosePeer, Dial
    <2>3. Evicting' /\ PeerOwned'
      BY <1>7, PeersAssumption DEF Shape, Knows, Evicting, PeerOwned, DeferredClose, Dial
    <2> QED BY <2>1, <2>2, <2>3
  <1>8. CASE DeferredRemove(d)
    <2>1. Shape'
      BY <1>8 DEF Shape, Knows, DeferredRemove, removePeer, Dial, DialPcs
    <2>2. Knows'
      BY <1>8 DEF Shape, Knows, DeferredRemove, Dial
    <2>3. Evicting' /\ PeerOwned'
      BY <1>8, PeersAssumption DEF Shape, Knows, Evicting, PeerOwned, DeferredRemove, removePeer, Dial
    <2> QED BY <2>1, <2>2, <2>3
  <1>9. CASE WatcherCloses(d)
    <2>1. Shape'
      BY <1>9 DEF Shape, WatcherCloses, ClosePeer, Clients
    <2>2. Knows'
      BY <1>9 DEF Shape, Knows, WatcherCloses, ClosePeer
    <2>3. Evicting' /\ PeerOwned'
      BY <1>9 DEF Shape, Knows, Evicting, PeerOwned, WatcherCloses
    <2> QED BY <2>1, <2>2, <2>3
  <1>10. CASE WatcherEnds(d)
    <2>1. Shape'
      BY <1>10 DEF Shape, WatcherEnds
    <2>2. Knows'
      BY <1>10 DEF Shape, Knows, WatcherEnds
    <2>3. Evicting' /\ PeerOwned'
      BY <1>10 DEF Shape, Knows, Evicting, PeerOwned, WatcherEnds
    <2> QED BY <2>1, <2>2, <2>3
  <1>11. CASE Remote(d)
    <2>1. Shape'
      BY <1>11 DEF Shape, Remote, Clients
    <2>2. Knows'
      BY <1>11 DEF Shape, Knows, Remote
    <2>3. Evicting' /\ PeerOwned'
      BY <1>11 DEF Shape, Knows, Evicting, PeerOwned, Remote
    <2> QED BY <2>1, <2>2, <2>3
  <1> QED BY <1>1, <1>2, <1>3, <1>4, <1>5, <1>6, <1>7, <1>8, <1>9, <1>10, <1>11
          DEF DialStep, WatcherStep

\* The steps of Close keep SInv.
LEMMA CloseShape ==
  ASSUME SInv, CloseStep \/ HeartbeatEnds \/ Closed
  PROVE  SInv'
  <1> USE DEF SInv
  <1>1. CASE CloseDone \/ CloseLists \/ CloseListed \/ CloseWaits \/ CloseMarks
    <2>1. \E pc \in CloserPcs, list \in SUBSET listPeers : closer' = Closer(pc, list)
      BY <1>1 DEF CloseDone, CloseLists, CloseListed, CloseWaits, CloseMarks, CloserPcs
    <2>2. UNCHANGED <<peers, dial, client, watcher, loop, beating>>
      BY <1>1 DEF CloseDone, CloseLists, CloseListed, CloseWaits, CloseMarks
    <2>3. done' \in BOOLEAN /\ online' \in BOOLEAN
      BY <1>1 DEF Shape, CloseDone, CloseLists, CloseListed, CloseWaits, CloseMarks
    <2>4. closer'.list \subseteq listPeers
      BY <2>1, Records DEF listPeers
    <2>5. Shape'
      BY <2>1, <2>2, <2>3, Records DEF Shape, listPeers
    <2>6. \A d \in listPeers : dial[d].pc \notin {"dialing", "dialed"}
      BY PeersAssumption DEF PeerOwned, listPeers
    <2>7. Knows' /\ Evicting' /\ PeerOwned'
      BY <2>2, <2>4, <2>6 DEF Knows, Evicting, PeerOwned
    <2> QED BY <2>5, <2>7
  <1>2. ASSUME NEW d \in Dials, ClosesPeer(d) PROVE SInv'
    <2>1. Shape'
      BY <1>2 DEF Shape, ClosesPeer, ClosePeer, Clients, Closer, CloserPcs
    <2>2. Knows'
      BY <1>2 DEF Shape, Knows, ClosesPeer, ClosePeer, Closer
    <2>3. Evicting' /\ PeerOwned'
      BY <1>2 DEF Evicting, PeerOwned, ClosesPeer
    <2> QED BY <2>1, <2>2, <2>3
  <1>3. CASE HeartbeatEnds \/ Closed
    <2>1. UNCHANGED <<done, peers, dial, client, watcher, loop, closer, online>>
      BY <1>3 DEF HeartbeatEnds, Closed, vars
    <2>2. beating' \in BOOLEAN
      BY <1>3 DEF Shape, HeartbeatEnds, Closed, vars
    <2> QED BY <2>1, <2>2 DEF Shape, Knows, Evicting, PeerOwned
  <1> QED BY <1>1, <1>2, <1>3 DEF CloseStep

\* SInv is kept by every step.
LEMMA NextShape == SInv /\ [Next]_vars => SInv'
  <1> SUFFICES ASSUME SInv, [Next]_vars PROVE SInv'
    OBVIOUS
  <1>1. CASE UNCHANGED vars
    BY <1>1 DEF vars, SInv, Shape, Knows, Evicting, PeerOwned
  <1> QED BY <1>1, LoopShape, DialShape, CloseShape DEF Next

-------------------------------------------------------------------------------
(* The wait group counts the goroutines that are left. *)
Dialing == {d \in Dials : dial[d].pc # "finished"}
Watching == {d \in Dials : watcher[d] = "watching"}
LoopToken == IF loop.pc = "ended" THEN 0 ELSE 1
BeatToken == IF beating THEN 1 ELSE 0

Counted == wg = LoopToken + BeatToken + Cardinality(Dialing) + Cardinality(Watching)

\* The holders of tokens are finitely many, so that they can be counted.
LEMMA Tokens ==
  /\ IsFiniteSet(Dialing) /\ Cardinality(Dialing) \in Nat
  /\ IsFiniteSet(Watching) /\ Cardinality(Watching) \in Nat
  /\ LoopToken \in {0, 1} /\ BeatToken \in {0, 1}
  <1>1. Dialing \in SUBSET Dials /\ Watching \in SUBSET Dials
    BY DEF Dialing, Watching
  <1>2. IsFiniteSet(Dialing) /\ IsFiniteSet(Watching)
    BY <1>1, PeersAssumption, FS_Subset
  <1> QED BY <1>2, FS_CardinalityType DEF LoopToken, BeatToken

\* A run of connectToPeer that starts or ends takes or gives back one token.
LEMMA DialTokens ==
  ASSUME NEW d \in Dials, \A e \in Dials : e # d => dial'[e] = dial[e]
  PROVE  /\ dial[d].pc = "finished" /\ dial'[d].pc # "finished"
              => Cardinality(Dialing') = Cardinality(Dialing) + 1
         /\ dial[d].pc # "finished" /\ dial'[d].pc = "finished"
              => Cardinality(Dialing') = Cardinality(Dialing) - 1
         /\ dial[d].pc # "finished" /\ dial'[d].pc # "finished" => Dialing' = Dialing
  <1>2. ASSUME dial[d].pc = "finished", dial'[d].pc # "finished"
        PROVE  Cardinality(Dialing') = Cardinality(Dialing) + 1
    <2>1. d \notin Dialing /\ Dialing' = Dialing \union {d}
      BY <1>2 DEF Dialing
    <2> QED BY <2>1, Tokens, FS_AddElement
  <1>3. ASSUME dial[d].pc # "finished", dial'[d].pc = "finished"
        PROVE  Cardinality(Dialing') = Cardinality(Dialing) - 1
    <2>1. d \in Dialing /\ Dialing' = Dialing \ {d}
      BY <1>3 DEF Dialing
    <2> QED BY <2>1, Tokens, FS_RemoveElement
  <1>4. ASSUME dial[d].pc # "finished", dial'[d].pc # "finished"
        PROVE  Dialing' = Dialing
    BY <1>4 DEF Dialing
  <1> QED BY <1>2, <1>3, <1>4

\* So does a watcher that starts or ends.
LEMMA WatchTokens ==
  ASSUME NEW d \in Dials, \A e \in Dials : e # d => watcher'[e] = watcher[e]
  PROVE  /\ watcher[d] # "watching" /\ watcher'[d] = "watching"
              => Cardinality(Watching') = Cardinality(Watching) + 1
         /\ watcher[d] = "watching" /\ watcher'[d] # "watching"
              => Cardinality(Watching') = Cardinality(Watching) - 1
         /\ watcher[d] # "watching" /\ watcher'[d] # "watching" => Watching' = Watching
  <1>2. ASSUME watcher[d] # "watching", watcher'[d] = "watching"
        PROVE  Cardinality(Watching') = Cardinality(Watching) + 1
    <2>1. d \notin Watching /\ Watching' = Watching \union {d}
      BY <1>2 DEF Watching
    <2> QED BY <2>1, Tokens, FS_AddElement
  <1>3. ASSUME watcher[d] = "watching", watcher'[d] # "watching"
        PROVE  Cardinality(Watching') = Cardinality(Watching) - 1
    <2>1. d \in Watching /\ Watching' = Watching \ {d}
      BY <1>3 DEF Watching
    <2> QED BY <2>1, Tokens, FS_RemoveElement
  <1>4. ASSUME watcher[d] # "watching", watcher'[d] # "watching"
        PROVE  Watching' = Watching
    BY <1>4 DEF Watching
  <1> QED BY <1>2, <1>3, <1>4

\* At the start nobody holds a token.
LEMMA InitCounted == Init => Counted
  <1> SUFFICES ASSUME Init PROVE Counted
    OBVIOUS
  <1>1. Dialing = {} /\ Watching = {}
    BY DEF Init, Dialing, Watching, Dial
  <1>2. LoopToken = 1 /\ BeatToken = 1 /\ wg = 2
    BY DEF Init, LoopToken, BeatToken, Loop
  <1> QED BY <1>1, <1>2, FS_EmptySet DEF Counted

\* The steps of runPeers keep Counted.
LEMMA LoopCounted ==
  ASSUME SInv, Counted, LoopStep
  PROVE  Counted' /\ (wg' > wg => wg > 0)
  <1> USE DEF SInv
  <1>1. CASE LoopEnds
    <2>1. LoopToken = 1 /\ LoopToken' = 0 /\ wg' = wg - 1
      BY <1>1 DEF LoopEnds, LoopToken, Loop
    <2>2. Dialing' = Dialing /\ Watching' = Watching /\ BeatToken' = BeatToken
      BY <1>1 DEF LoopEnds, Dialing, Watching, BeatToken
    <2> QED BY <2>1, <2>2, Tokens DEF Counted
  <1>2. ASSUME NEW r \in Remotes, NEW d \in Dials, StartDial(r, d)
        PROVE  Counted' /\ (wg' > wg => wg > 0)
    <2>1. LoopToken = 1 /\ LoopToken' = 1 /\ BeatToken' = BeatToken /\ wg' = wg + 1
      BY <1>2 DEF StartDial, LoopToken, BeatToken, Loop
    <2>4. /\ dial[d].pc = "finished" /\ dial'[d].pc = "dialing"
          /\ \A e \in Dials : e # d => dial'[e] = dial[e]
          /\ watcher[d] # "watching" /\ watcher'[d] = "none"
          /\ \A e \in Dials : e # d => watcher'[e] = watcher[e]
      BY <1>2 DEF StartDial, Unused, Shape, Dial
    <2>2. Cardinality(Dialing') = Cardinality(Dialing) + 1
      BY <2>4, DialTokens
    <2>3. Watching' = Watching
      BY <2>4, WatchTokens
    <2> QED BY <2>1, <2>2, <2>3, Tokens DEF Counted
  <1>3. ASSUME LoopStep, ~LoopEnds,
               \A r \in Remotes, d \in Dials : ~StartDial(r, d)
        PROVE  Counted' /\ (wg' > wg => wg > 0)
    <2>1. UNCHANGED <<dial, watcher, beating, wg>>
      BY <1>3 DEF LoopStep, Tick, ListNodes, DiscoverEnds, PingEnds, SkipNode,
                  PingAnswered, PingFails, EvictPeer
    <2>2. loop.pc # "ended"
      BY <1>3 DEF LoopStep, Tick, ListNodes, DiscoverEnds, PingEnds, SkipNode,
                  PingAnswered, PingFails, EvictPeer
    <2>3. \E pc \in LoopPcs \ {"ended"} : \E todo, list : loop' = Loop(pc, todo, list)
      BY <1>3, <2>2 DEF LoopStep, Tick, ListNodes, DiscoverEnds, PingEnds, SkipNode,
                        PingAnswered, PingFails, EvictPeer, LoopPcs
    <2>4. loop'.pc # "ended"
      BY <2>3 DEF Loop
    <2> QED
      BY <2>1, <2>2, <2>4, Tokens DEF Counted, Dialing, Watching, LoopToken, BeatToken
  <1> QED BY <1>1, <1>2, <1>3

\* The steps of connectToPeer and its watcher keep Counted.
LEMMA DialCounted ==
  ASSUME SInv, Counted, NEW d \in Dials, DialStep(d) \/ WatcherStep(d) \/ Remote(d)
  PROVE  Counted' /\ (wg' > wg => wg > 0)
  <1> USE DEF SInv
  <1>1. LoopToken' = LoopToken /\ BeatToken' = BeatToken
    BY DEF LoopToken, BeatToken, DialStep, WatcherStep, Remote, DialFails, DialSucceeds,
           AddPeer, AddPeerRefused, StartWatcher, WaitReturns, DeferredClose,
           DeferredRemove, WatcherCloses, WatcherEnds
  <1>2. CASE DialFails(d) \/ AddPeerRefused(d) \/ DeferredRemove(d)
    <2>1. wg' = wg - 1 /\ Watching' = Watching
      BY <1>2 DEF DialFails, AddPeerRefused, DeferredRemove, Watching
    <2>2. /\ dial[d].pc # "finished" /\ dial'[d].pc = "finished"
          /\ \A e \in Dials : e # d => dial'[e] = dial[e]
      BY <1>2 DEF DialFails, AddPeerRefused, DeferredRemove, Shape, Dial
    <2>3. Cardinality(Dialing') = Cardinality(Dialing) - 1
      BY <2>2, DialTokens
    <2> QED BY <1>1, <2>1, <2>3, Tokens DEF Counted
  <1>3. CASE DialSucceeds(d) \/ AddPeer(d) \/ WaitReturns(d) \/ DeferredClose(d)
    <2>1. wg' = wg /\ Watching' = Watching
      BY <1>3 DEF DialSucceeds, AddPeer, WaitReturns, DeferredClose, Watching
    <2>2. /\ dial[d].pc # "finished" /\ dial'[d].pc # "finished"
          /\ \A e \in Dials : e # d => dial'[e] = dial[e]
      BY <1>3 DEF DialSucceeds, AddPeer, WaitReturns, DeferredClose, Shape, Dial
    <2>3. Dialing' = Dialing
      BY <2>2, DialTokens
    <2> QED BY <1>1, <2>1, <2>3, Tokens DEF Counted
  <1>4. CASE StartWatcher(d)
    <2>1. /\ dial[d].pc # "finished" /\ dial'[d].pc # "finished" /\ wg' = wg + 1
          /\ \A e \in Dials : e # d => dial'[e] = dial[e]
          /\ watcher[d] # "watching" /\ watcher'[d] = "watching"
          /\ \A e \in Dials : e # d => watcher'[e] = watcher[e]
      BY <1>4 DEF StartWatcher, Shape, Knows, Dial
    <2>2. Dialing' = Dialing
      BY <2>1, DialTokens
    <2>3. Cardinality(Watching') = Cardinality(Watching) + 1
      BY <2>1, WatchTokens
    <2>4. Cardinality(Dialing) > 0
      BY <2>1, Tokens, FS_EmptySet DEF Dialing
    <2> QED BY <1>1, <2>1, <2>2, <2>3, <2>4, Tokens DEF Counted
  <1>5. CASE WatcherCloses(d) \/ WatcherEnds(d)
    <2>1. wg' = wg - 1 /\ Dialing' = Dialing
      BY <1>5 DEF WatcherCloses, WatcherEnds, Dialing
    <2>2. /\ watcher[d] = "watching" /\ watcher'[d] # "watching"
          /\ \A e \in Dials : e # d => watcher'[e] = watcher[e]
      BY <1>5 DEF WatcherCloses, WatcherEnds, Shape
    <2>3. Cardinality(Watching') = Cardinality(Watching) - 1
      BY <2>2, WatchTokens
    <2> QED BY <1>1, <2>1, <2>3, Tokens DEF Counted
  <1>6. CASE Remote(d)
    BY <1>1, <1>6, Tokens DEF Remote, Counted, Dialing, Watching
  <1> QED BY <1>2, <1>3, <1>4, <1>5, <1>6 DEF DialStep, WatcherStep

\* The steps of Close and of the heartbeat keep Counted.
LEMMA CloseCounted ==
  ASSUME SInv, Counted, CloseStep \/ HeartbeatEnds \/ Closed
  PROVE  Counted' /\ (wg' > wg => wg > 0)
  <1>1. CASE CloseStep \/ Closed
    <2>1. UNCHANGED <<dial, watcher, loop, beating, wg>>
      BY <1>1 DEF CloseStep, CloseDone, CloseLists, CloseListed, CloseWaits, CloseMarks,
                  ClosesPeer, Closed, vars
    <2> QED BY <2>1, Tokens DEF Counted, Dialing, Watching, LoopToken, BeatToken
  <1>2. CASE HeartbeatEnds
    <2>1. BeatToken = 1 /\ BeatToken' = 0 /\ wg' = wg - 1
      BY <1>2 DEF HeartbeatEnds, BeatToken
    <2>2. LoopToken' = LoopToken /\ Dialing' = Dialing /\ Watching' = Watching
      BY <1>2 DEF HeartbeatEnds, LoopToken, Dialing, Watching
    <2> QED BY <2>1, <2>2, Tokens DEF Counted
  <1> QED BY <1>1, <1>2

\* The wait group keeps counting the goroutines that hold a token.
LEMMA NextCounted ==
  ASSUME SInv, Counted, [Next]_vars
  PROVE  Counted' /\ (wg' > wg => wg > 0)
  <1>1. CASE UNCHANGED vars
    BY <1>1, Tokens DEF vars, Counted, Dialing, Watching, LoopToken, BeatToken
  <1> QED BY <1>1, LoopCounted, DialCounted, CloseCounted DEF Next

-------------------------------------------------------------------------------
(* Once Close has seen the wait group at zero there is nothing left that could
   add to it, publish a peer or mark the node online again. *)
Quiet ==
  /\ closer.pc \in {"mark", "closed"} => wg = 0
  /\ closer.pc = "closed" => ~online

IInv == SInv /\ Counted /\ Quiet

\* The inductive invariant holds initially.
LEMMA InitInv == Init => IInv
  BY InitShape, InitCounted DEF IInv, Quiet, Init, Closer

\* A wait group at zero means that every goroutine has ended.
LEMMA NoneLeft ==
  ASSUME Counted, wg = 0
  PROVE  loop.pc = "ended" /\ ~beating /\ Dialing = {} /\ Watching = {}
  <1>1. LoopToken = 0 /\ BeatToken = 0
        /\ Cardinality(Dialing) = 0 /\ Cardinality(Watching) = 0
    BY Tokens DEF Counted
  <1>2. Dialing = {} /\ Watching = {}
    BY <1>1, Tokens, FS_EmptySet
  <1> QED BY <1>1, <1>2 DEF LoopToken, BeatToken

\* Once Wait has returned nothing starts again.
LEMMA NextQuiet ==
  ASSUME IInv, [Next]_vars
  PROVE  Quiet'
  <1>1. CASE closer.pc \in {"mark", "closed"}
    <2>1. /\ wg = 0 /\ loop.pc = "ended" /\ ~beating
          /\ \A d \in Dials : dial[d].pc = "finished" /\ watcher[d] # "watching"
      BY <1>1, NoneLeft DEF IInv, Quiet, Dialing, Watching
    <2>2. ~LoopStep /\ ~HeartbeatEnds
      BY <2>1 DEF LoopStep, Tick, LoopEnds, ListNodes, DiscoverEnds, PingEnds, SkipNode,
                  StartDial, PingAnswered, PingFails, EvictPeer, HeartbeatEnds
    <2>3. ASSUME NEW d \in Dials PROVE ~DialStep(d) /\ ~WatcherStep(d)
      BY <2>1 DEF DialStep, WatcherStep, DialFails, DialSucceeds, AddPeer,
                  AddPeerRefused, StartWatcher, WaitReturns, DeferredClose,
                  DeferredRemove, WatcherCloses, WatcherEnds
    <2>4. CASE CloseMarks
      BY <2>1, <2>4 DEF CloseMarks, Quiet
    <2>5. CASE ~CloseMarks
      <3>1. UNCHANGED <<closer, wg, online>>
        BY <1>1, <2>2, <2>3, <2>5
        DEF Next, CloseStep, CloseDone, CloseLists, CloseListed, CloseWaits, ClosesPeer,
            Closed, Remote, vars
      <3> QED BY <3>1 DEF IInv, Quiet
    <2> QED BY <2>4, <2>5
  <1>2. CASE closer.pc \notin {"mark", "closed"}
    <2>1. CASE CloseWaits
      BY <2>1 DEF CloseWaits, Quiet, Closer
    <2>2. CASE ~CloseWaits
      <3>1. CASE CloseStep
        <4>1. \E pc \in {"list", "close", "wait"} : \E list : closer' = Closer(pc, list)
          BY <1>2, <2>2, <3>1 DEF CloseStep, CloseDone, CloseLists, CloseListed,
                                  CloseMarks, ClosesPeer
        <4>2. closer'.pc \notin {"mark", "closed"}
          BY <4>1 DEF Closer
        <4> QED BY <4>2 DEF Quiet
      <3>2. CASE ~CloseStep
        <4>1. closer' = closer
          BY <3>2
          DEF Next, LoopStep, Tick, LoopEnds, ListNodes, DiscoverEnds, PingEnds,
              SkipNode, StartDial, PingAnswered, PingFails, EvictPeer, Closed,
              HeartbeatEnds, DialStep, WatcherStep, Remote, DialFails, DialSucceeds,
              AddPeer, AddPeerRefused, StartWatcher, WaitReturns, DeferredClose,
              DeferredRemove, WatcherCloses, WatcherEnds, vars
        <4> QED BY <1>2, <4>1 DEF Quiet
      <3> QED BY <3>1, <3>2
    <2> QED BY <2>1, <2>2
  <1> QED BY <1>1, <1>2

\* The inductive invariant is kept by every step.
LEMMA NextInv == IInv /\ [Next]_vars => IInv'
  BY NextShape, NextCounted, NextQuiet DEF IInv

\* The inductive invariant holds always.
LEMMA Invariant == Spec => []IInv
  BY InitInv, NextInv, PTL DEF Spec

\* Values keep their types and the wait group never goes below zero.
THEOREM TypeCorrect == Spec => []TypeOK
  <1>1. IInv => TypeOK
    <2> SUFFICES ASSUME IInv PROVE TypeOK
      OBVIOUS
    <2>1. wg \in Nat
      BY Tokens DEF IInv, Counted
    <2> QED BY <2>1 DEF IInv, SInv, Shape, TypeOK
  <1> QED BY <1>1, Invariant, PTL

\* Every published peer has a goroutine that will withdraw it.
THEOREM PeersOwned == Spec => []PeerOwned
  <1>1. IInv => PeerOwned
    BY DEF IInv, SInv
  <1> QED BY <1>1, Invariant, PTL

\* waitGroup.Add in discoverPeers and connectToPeer always happens under a
\* token the calling goroutine holds, so it never races Close's Wait at zero.
THEOREM AddsAreSafe == Spec => AddNeverRacesWait
  <1>1. IInv /\ [Next]_vars => [AddsUnderToken]_vars
    BY NextCounted DEF IInv, AddsUnderToken
  <1> QED BY <1>1, InitInv, NextInv, PTL DEF Spec, AddNeverRacesWait

\* removePeer, called by a failed ping or by connectToPeer, withdraws no peer
\* but the one it was called for, and that one only after its connection ended.
THEOREM SuccessorsKept == Spec => SuccessorKept
  <1>1. ASSUME IInv, Next, NEW r \in Remotes, peers[r] # None, peers'[r] # peers[r]
        PROVE  Ended(peers[r])
    <2>1. peers \in [Remotes -> Dials \union {None}]
      BY <1>1 DEF IInv, SInv, Shape
    <2>2. ASSUME LoopStep PROVE Ended(peers[r])
      BY <1>1, <2>1, <2>2
      DEF LoopStep, Tick, LoopEnds, ListNodes, DiscoverEnds, PingEnds, SkipNode,
          StartDial, PingAnswered, PingFails, EvictPeer, removePeer
    <2>3. ASSUME NEW d \in Dials, DialStep(d) PROVE Ended(peers[r])
      BY <1>1, <2>1, <2>3
      DEF DialStep, DialFails, DialSucceeds, AddPeer, AddPeerRefused, StartWatcher,
          WaitReturns, DeferredClose, DeferredRemove, removePeer, IInv, SInv, Knows, Ended
    <2>4. ~CloseStep /\ ~HeartbeatEnds /\ ~Closed
      BY <1>1 DEF CloseStep, CloseDone, CloseLists, CloseListed, CloseWaits, CloseMarks,
                  ClosesPeer, HeartbeatEnds, Closed, vars
    <2>5. ASSUME NEW d \in Dials PROVE ~WatcherStep(d) /\ ~Remote(d)
      BY <1>1 DEF WatcherStep, WatcherCloses, WatcherEnds, Remote
    <2> QED BY <1>1, <2>2, <2>3, <2>4, <2>5 DEF Next
  <1>2. IInv /\ [Next]_vars => [WithdrawsEnded]_vars
    BY <1>1 DEF WithdrawsEnded
  <1> QED BY <1>2, InitInv, NextInv, PTL DEF Spec, SuccessorKept

\* When Close returns nothing of the mesh's outbound side is left and the
\* node's row says offline, whatever connected while Close was running.
THEOREM CloseIsComplete == Spec => []CloseLeavesNothing
  <1>1. IInv => CloseLeavesNothing
    <2> SUFFICES ASSUME IInv, closer.pc = "closed" PROVE CloseLeavesNothing
      BY DEF CloseLeavesNothing
    <2>1. ~online /\ wg = 0
      BY DEF IInv, Quiet
    <2>2. /\ loop.pc = "ended" /\ ~beating
          /\ \A d \in Dials : dial[d].pc = "finished" /\ watcher[d] # "watching"
      BY <2>1, NoneLeft DEF IInv, Dialing, Watching
    <2>3. \A d \in Dials : client[d] \in {"none", "closed"}
      BY <2>2 DEF IInv, SInv, Knows
    <2>4. \A r \in Remotes : peers[r] = None
      BY <2>2 DEF IInv, SInv, Shape, PeerOwned
    <2> QED BY <2>1, <2>2, <2>3, <2>4 DEF CloseLeavesNothing
  <1> QED BY <1>1, Invariant, PTL

-------------------------------------------------------------------------------
(* A run of connectToPeer has a client from the dial on, and so has every peer
   that runPeers has listed: a listed run is not used again. *)
HasClient(d) == dial[d].pc \in {"dialed", "added", "waiting", "closing", "removing"}

WInv ==
  /\ \A d \in Dials : HasClient(d) \/ d \in loop.list => client[d] # "none"
  /\ \A d \in Dials : client[d] \in {"up", "hung"} => Guarded(d)

\* The steps of runPeers keep WInv.
LEMMA LoopWatched ==
  ASSUME SInv, WInv, LoopStep
  PROVE  WInv'
  <1> USE DEF SInv
  <1>1. ASSUME UNCHANGED <<dial, client, watcher>>,
               \A d \in Dials : d \in loop'.list => d \in loop.list \/ HasClient(d)
        PROVE  WInv'
    BY <1>1 DEF WInv, HasClient, Guarded
  <1>2. CASE Tick \/ LoopEnds \/ ListNodes \/ PingEnds
    <2>1. \E pc, todo : loop' = Loop(pc, todo, {})
      BY <1>2 DEF Tick, LoopEnds, ListNodes, PingEnds
    <2>2. loop'.list = {}
      BY <2>1 DEF Loop
    <2> QED BY <1>1, <1>2, <2>2 DEF Tick, LoopEnds, ListNodes, PingEnds
  <1>3. CASE DiscoverEnds
    <2>1. \E pc, list : list \subseteq listPeers /\ loop' = Loop(pc, {}, list)
      BY <1>3 DEF DiscoverEnds
    <2>2. loop'.list \subseteq listPeers
      BY <2>1 DEF Loop
    <2>3. \A d \in listPeers : HasClient(d)
      BY PeersAssumption DEF PeerOwned, listPeers, HasClient
    <2> QED BY <1>1, <1>3, <2>2, <2>3 DEF DiscoverEnds
  <1>4. ASSUME NEW r \in Remotes, SkipNode(r) PROVE WInv'
    <2>1. loop'.list = {}
      BY <1>4 DEF SkipNode, Loop
    <2> QED BY <1>1, <1>4, <2>1 DEF SkipNode
  <1>5. ASSUME NEW r \in Remotes, NEW d \in Dials, StartDial(r, d) PROVE WInv'
    <2>1. loop'.list = {}
      BY <1>5 DEF StartDial, Loop
    <2>2. /\ dial'[d].pc = "dialing" /\ client'[d] = "none"
          /\ \A e \in Dials : e # d => /\ dial'[e] = dial[e] /\ client'[e] = client[e]
                                       /\ watcher'[e] = watcher[e]
      BY <1>5 DEF StartDial, Shape, Dial
    <2> QED BY <2>1, <2>2 DEF WInv, HasClient, Guarded
  <1>6. ASSUME NEW d \in Dials, PingAnswered(d) \/ PingFails(d) PROVE WInv'
    <2>1. loop'.list \subseteq loop.list
      <3>1. CASE PingAnswered(d)
        BY <3>1 DEF PingAnswered, Loop
      <3>2. CASE PingFails(d)
        BY <3>2 DEF PingFails, Loop
      <3> QED BY <1>6, <3>1, <3>2
    <2>2. UNCHANGED <<dial, client, watcher>>
      BY <1>6 DEF PingAnswered, PingFails
    <2> QED BY <1>1, <2>1, <2>2
  <1>7. ASSUME NEW d \in Dials, EvictPeer(d) PROVE WInv'
    <2>1. loop'.list \subseteq loop.list /\ UNCHANGED <<dial, watcher>>
      BY <1>7 DEF EvictPeer, Loop
    <2>2. client'[d] = "closed" /\ \A e \in Dials : e # d => client'[e] = client[e]
      BY <1>7 DEF EvictPeer, ClosePeer, Shape
    <2> QED BY <2>1, <2>2 DEF WInv, HasClient, Guarded
  <1> QED BY <1>2, <1>3, <1>4, <1>5, <1>6, <1>7 DEF LoopStep

\* The steps of connectToPeer, its watcher and its connection keep WInv: the
\* watcher ends only when the client has ended.
LEMMA DialWatched ==
  ASSUME SInv, WInv, NEW d \in Dials, DialStep(d) \/ WatcherStep(d) \/ Remote(d)
  PROVE  WInv'
  <1> USE DEF SInv
  <1>1. loop' = loop
    BY DEF DialStep, WatcherStep, Remote, DialFails, DialSucceeds, AddPeer, AddPeerRefused,
           StartWatcher, WaitReturns, DeferredClose, DeferredRemove, WatcherCloses, WatcherEnds
  <1>2. \A e \in Dials : e # d => /\ dial'[e] = dial[e] /\ client'[e] = client[e]
                                  /\ watcher'[e] = watcher[e]
    <2>1. DialStep(d) => \A e \in Dials : e # d => /\ dial'[e] = dial[e] /\ client'[e] = client[e]
                                                   /\ watcher'[e] = watcher[e]
      <3>1. CASE DialFails(d) \/ DialSucceeds(d) \/ AddPeer(d)
        BY <3>1 DEF Shape, DialFails, DialSucceeds, AddPeer
      <3>2. CASE StartWatcher(d) \/ WaitReturns(d)
        BY <3>2 DEF Shape, StartWatcher, WaitReturns
      <3>3. CASE AddPeerRefused(d) \/ DeferredClose(d) \/ DeferredRemove(d)
        BY <3>3 DEF Shape, AddPeerRefused, DeferredClose, DeferredRemove, ClosePeer
      <3> QED BY <3>1, <3>2, <3>3 DEF DialStep
    <2>2. WatcherStep(d) \/ Remote(d)
          => \A e \in Dials : e # d => /\ dial'[e] = dial[e] /\ client'[e] = client[e]
                                       /\ watcher'[e] = watcher[e]
      BY DEF Shape, WatcherStep, Remote, WatcherCloses, WatcherEnds, ClosePeer
    <2> QED BY <2>1, <2>2
  <1>3. /\ HasClient(d) \/ d \in loop.list => client[d] # "none"
        /\ client[d] \in {"up", "hung"} => Guarded(d)
    BY DEF WInv
  <1>4. ASSUME HasClient(d)' \/ d \in loop.list => client'[d] # "none",
               client'[d] \in {"up", "hung"} => Guarded(d)'
        PROVE  WInv'
    BY <1>1, <1>2, <1>4 DEF WInv, HasClient, Guarded
  <1>5. CASE DialFails(d)
    BY <1>3, <1>4, <1>5 DEF DialFails, Shape, Knows, Dial, HasClient, Guarded
  <1>6. CASE DialSucceeds(d)
    BY <1>3, <1>4, <1>6 DEF DialSucceeds, Shape, Dial, HasClient, Guarded
  <1>7. CASE AddPeer(d)
    BY <1>3, <1>4, <1>7 DEF AddPeer, Shape, Dial, HasClient, Guarded
  <1>8. CASE AddPeerRefused(d)
    BY <1>3, <1>4, <1>8 DEF AddPeerRefused, ClosePeer, Shape, Dial, HasClient, Guarded
  <1>9. CASE StartWatcher(d)
    BY <1>3, <1>4, <1>9 DEF StartWatcher, Shape, Dial, HasClient, Guarded
  <1>10. CASE WaitReturns(d)
    BY <1>3, <1>4, <1>10 DEF WaitReturns, Ended, Shape, Dial, HasClient, Guarded
  <1>11. CASE DeferredClose(d)
    BY <1>3, <1>4, <1>11 DEF DeferredClose, ClosePeer, Shape, Dial, HasClient, Guarded
  <1>12. CASE DeferredRemove(d)
    BY <1>3, <1>4, <1>12 DEF DeferredRemove, Shape, Knows, Dial, HasClient, Guarded
  <1>13. CASE WatcherCloses(d)
    BY <1>3, <1>4, <1>13 DEF WatcherCloses, ClosePeer, Shape, HasClient, Guarded
  <1>14. CASE WatcherEnds(d)
    BY <1>3, <1>4, <1>14 DEF WatcherEnds, Shape, HasClient, Guarded
  <1>15. CASE Remote(d)
    BY <1>3, <1>4, <1>15 DEF Remote, Shape, HasClient, Guarded
  <1> QED BY <1>5, <1>6, <1>7, <1>8, <1>9, <1>10, <1>11, <1>12, <1>13, <1>14, <1>15
          DEF DialStep, WatcherStep

\* WInv is kept by every step.
LEMMA NextWatched ==
  ASSUME SInv, WInv, [Next]_vars
  PROVE  WInv'
  <1>1. CASE CloseStep \/ HeartbeatEnds \/ Closed \/ UNCHANGED vars
    <2>1. UNCHANGED <<dial, watcher, loop>>
      BY <1>1 DEF CloseStep, CloseDone, CloseLists, CloseListed, CloseWaits, CloseMarks,
                  ClosesPeer, HeartbeatEnds, Closed, vars
    <2>2. \A e \in Dials : client'[e] \in {client[e], "closed"}
      BY <1>1 DEF CloseStep, CloseDone, CloseLists, CloseListed, CloseWaits, CloseMarks,
                  ClosesPeer, ClosePeer, HeartbeatEnds, Closed, vars, SInv, Shape
    <2> QED BY <2>1, <2>2 DEF WInv, HasClient, Guarded
  <1> QED BY <1>1, LoopWatched, DialWatched DEF Next

\* Whatever Close may have to wait for, a connection that is up or hangs and a
\* ping that blocks on it, is ended by a watcher of this node, also for a peer
\* that connected after Close took its list.
THEOREM NothingLeftToRemotes == Spec => []ClientsWatched
  <1>1. Init => WInv
    <2> SUFFICES ASSUME Init PROVE WInv
      OBVIOUS
    <2>1. loop.list = {} /\ \A d \in Dials : dial[d].pc = "finished" /\ client[d] = "none"
      BY DEF Init, Loop, Dial
    <2> QED BY <2>1 DEF WInv, HasClient
  <1>2. IInv /\ WInv /\ [Next]_vars => WInv'
    BY NextWatched DEF IInv
  <1>3. IInv /\ WInv => ClientsWatched
    BY DEF IInv, SInv, Shape, Clients, WInv, ClientsWatched, Ended
  <1> QED BY <1>1, <1>2, <1>3, InitInv, NextInv, PTL DEF Spec
===============================================================================

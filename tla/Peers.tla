-------------------------------- MODULE Peers --------------------------------
(* The outbound side of the mesh on one node: which peer nodes it is connected
   to, and how these connections end (gateway/peer.go, and Open and Close of
   gateway/gateway.go).

   runPeers lists the nodes of the mesh on every interval, starts one
   connectToPeer goroutine per node it has no peer of, and pings the peers it
   has.  A connectToPeer goroutine dials, publishes its peer, starts a watcher
   that closes the peer when the gateway shuts down, waits for the end of the
   connection and withdraws the peer.  Close ends all of this behind one wait
   group and then marks the node offline.

   Every critical section on the peers map, every blocking call and every
   change of the wait group is a step.  Inbound connections are not part of
   this module: Close ends them before it lists the peers. *)
EXTENDS Naturals, FiniteSets

CONSTANTS
  Remotes,  \* the other nodes of the mesh
  Dials,    \* runs of connectToPeer; one that nothing refers to any more is
            \* used again, so Dials bounds how many exist at a time
  None,     \* no peer, no node
  Events    \* which of EventKinds may happen

(* What may happen around the code:
     hang      a peer stops answering while its connection stays up
     shutdown  Close is called *)
EventKinds == {"hang", "shutdown"}

ASSUME PeersAssumption ==
  /\ IsFiniteSet(Dials)
  /\ None \notin Remotes \union Dials
  /\ Events \subseteq EventKinds

VARIABLES
  done,      \* the done channel is closed
  peers,     \* remote: the published run of connectToPeer, or None
  dial,      \* connectToPeer: [pc, node]
  client,    \* its ssh client: "none", "up", "hung", "dead" (the transport
             \* ended) or "closed"
  watcher,   \* its watcher goroutine: "none", "watching" or "ended"
  loop,      \* runPeers: [pc, todo, list]: nodes left to look at (or the peer
             \* being evicted), peers left
             \* to ping
  beating,   \* runOnlineHeartbeat has not returned
  closer,    \* Close: [pc, list]: peers left to close
  wg,        \* the gateway's wait group
  online     \* database: the node's own row says it is online

vars == <<done, peers, dial, client, watcher, loop, beating, closer, wg, online>>

DialPcs == {"finished", "dialing", "dialed", "added", "waiting", "closing", "removing"}
Clients == {"none", "up", "hung", "dead", "closed"}
LoopPcs == {"start", "first", "select", "list", "discover", "ping", "evict", "ended"}
CloserPcs == {"open", "list", "close", "wait", "mark", "closed"}

Dial(pc, r) == [pc |-> pc, node |-> r]
Loop(pc, todo, list) == [pc |-> pc, todo |-> todo, list |-> list]
Closer(pc, list) == [pc |-> pc, list |-> list]

\* mux.loop has ended: client.Wait returns and pending requests fail
Ended(d) == client[d] \in {"dead", "closed"}

\* listPeers
listPeers == {d \in Dials : \E r \in Remotes : peers[r] = d}

\* a run of connectToPeer that is over and that nothing refers to
Unused(d) ==
  /\ dial[d].pc = "finished"
  /\ watcher[d] # "watching"
  /\ d \notin loop.list \union closer.list

\* peer.close: closeOnce, then client.Close
ClosePeer(d) == [client EXCEPT ![d] = "closed"]

RemoveByNode(d) ==  \* mutant
  [peers EXCEPT ![dial[d].node] = None]

\* mutant: a peer stays in the map
KeepsPeer(d) ==
  peers

removePeer(d) ==
  [r \in Remotes |-> IF r = dial[d].node /\ peers[r] = d THEN None ELSE peers[r]]

-------------------------------------------------------------------------------
\* Open: registerNode(true) and two loops
Init ==
  /\ done = FALSE
  /\ peers = [r \in Remotes |-> None]
  /\ dial = [d \in Dials |-> Dial("finished", None)]
  /\ client = [d \in Dials |-> "none"]
  /\ watcher = [d \in Dials |-> "none"]
  /\ loop = Loop("start", {}, {})
  /\ beating = TRUE
  /\ closer = Closer("open", {})
  /\ wg = 2
  /\ online = TRUE

(* runPeers. *)

\* the timer of the select fires: registerNode(true), which may fail
Tick ==
  /\ loop.pc = "select"
  /\ loop' = Loop("list", {}, {})
  /\ online' \in {online, TRUE}
  /\ UNCHANGED <<done, peers, dial, client, watcher, beating, closer, wg>>

\* the select sees done: runPeers returns
LoopEnds ==
  /\ loop.pc = "select"
  /\ done
  /\ loop' = Loop("ended", {}, {})
  /\ wg' = wg - 1
  /\ UNCHANGED <<done, peers, dial, client, watcher, beating, closer, online>>

\* discoverPeers: ListNodes returns the nodes that are online, or fails
ListNodes ==
  /\ loop.pc \in {"start", "list"}
  /\ \E nodes \in SUBSET Remotes :
       loop' = Loop(IF loop.pc = "start" THEN "first" ELSE "discover", nodes, {})
  /\ UNCHANGED <<done, peers, dial, client, watcher, beating, closer, wg, online>>

\* discoverPeers: getPeer finds none, connectToPeer is started
StartDial(r, d) ==
  /\ loop.pc \in {"first", "discover"}
  /\ r \in loop.todo
  /\ peers[r] = None
  /\ Unused(d)
  /\ loop' = Loop(loop.pc, loop.todo \ {r}, {})
  /\ dial' = [dial EXCEPT ![d] = Dial("dialing", r)]
  /\ client' = [client EXCEPT ![d] = "none"]
  /\ watcher' = [watcher EXCEPT ![d] = "none"]
  /\ wg' = wg + 1
  /\ UNCHANGED <<done, peers, beating, closer, online>>

\* discoverPeers: the node has a peer already (or Dials is exhausted)
SkipNode(r) ==
  /\ loop.pc \in {"first", "discover"}
  /\ r \in loop.todo
  /\ peers[r] # None \/ \A d \in Dials : ~Unused(d)
  /\ loop' = Loop(loop.pc, loop.todo \ {r}, {})
  /\ UNCHANGED <<done, peers, dial, client, watcher, beating, closer, wg, online>>

\* discoverPeers returns; all but the first time its peers are listed and pinged
DiscoverEnds ==
  /\ loop.pc \in {"first", "discover"}
  /\ loop.todo = {}
  /\ loop' = IF loop.pc = "first" THEN Loop("select", {}, {})
             ELSE Loop("ping", {}, listPeers)
  /\ UNCHANGED <<done, peers, dial, client, watcher, beating, closer, wg, online>>

\* ping is answered; a peer that hangs and whose connection is up blocks here
PingAnswered(d) ==
  /\ loop.pc = "ping"
  /\ d \in loop.list
  /\ client[d] = "up"
  /\ loop' = Loop("ping", {}, loop.list \ {d})
  /\ UNCHANGED <<done, peers, dial, client, watcher, beating, closer, wg, online>>

\* ping fails: removePeer ...
PingFails(d) ==
  /\ loop.pc = "ping"
  /\ d \in loop.list
  /\ Ended(d)
  /\ peers' = removePeer(d)
  /\ loop' = Loop("evict", {d}, loop.list)
  /\ UNCHANGED <<done, dial, client, watcher, beating, closer, wg, online>>

\* ... then peer.close
EvictPeer(d) ==
  /\ loop.pc = "evict"
  /\ d \in loop.todo
  /\ client' = ClosePeer(d)
  /\ loop' = Loop("ping", {}, loop.list \ {d})
  /\ UNCHANGED <<done, peers, dial, watcher, beating, closer, wg, online>>

PingEnds ==
  /\ loop.pc = "ping"
  /\ loop.list = {}
  /\ loop' = Loop("select", {}, {})
  /\ UNCHANGED <<done, peers, dial, client, watcher, beating, closer, wg, online>>

-------------------------------------------------------------------------------
(* connectToPeer, with Done of the goroutine that runs it. *)

\* the host key does not parse or ssh.Dial fails
DialFails(d) ==
  /\ dial[d].pc = "dialing"
  /\ dial' = [dial EXCEPT ![d] = Dial("finished", dial[d].node)]
  /\ wg' = wg - 1
  /\ UNCHANGED <<done, peers, client, watcher, loop, beating, closer, online>>

\* ssh.Dial returns a client
DialSucceeds(d) ==
  /\ dial[d].pc = "dialing"
  /\ dial' = [dial EXCEPT ![d] = Dial("dialed", dial[d].node)]
  /\ client' = [client EXCEPT ![d] = "up"]
  /\ UNCHANGED <<done, peers, watcher, loop, beating, closer, wg, online>>

\* mutant: the goroutine counts as done once its peer is published
AddPeerDropsToken(d) ==
  LET r == dial[d].node IN
  /\ dial[d].pc = "dialed"
  /\ peers[r] = None
  /\ peers' = [peers EXCEPT ![r] = d]
  /\ dial' = [dial EXCEPT ![d] = Dial("added", r)]
  /\ wg' = wg - 1
  /\ UNCHANGED <<done, client, watcher, loop, beating, closer, online>>

\* addPeer
AddPeer(d) ==
  LET r == dial[d].node IN
  /\ dial[d].pc = "dialed"
  /\ peers[r] = None
  /\ peers' = [peers EXCEPT ![r] = d]
  /\ dial' = [dial EXCEPT ![d] = Dial("added", r)]
  /\ UNCHANGED <<done, client, watcher, loop, beating, closer, wg, online>>

\* addPeer finds another peer of the node: peer.close, return
AddPeerRefused(d) ==
  /\ dial[d].pc = "dialed"
  /\ peers[dial[d].node] # None
  /\ client' = ClosePeer(d)
  /\ dial' = [dial EXCEPT ![d] = Dial("finished", dial[d].node)]
  /\ wg' = wg - 1
  /\ UNCHANGED <<done, peers, watcher, loop, beating, closer, online>>

\* mutant: no watcher closes the peer on shutdown
StartNoWatcher(d) ==
  /\ dial[d].pc = "added"
  /\ dial' = [dial EXCEPT ![d] = Dial("waiting", dial[d].node)]
  /\ UNCHANGED <<done, peers, client, watcher, loop, beating, closer, wg, online>>

\* waitGroup.Add and the start of the watcher
StartWatcher(d) ==
  /\ dial[d].pc = "added"
  /\ dial' = [dial EXCEPT ![d] = Dial("waiting", dial[d].node)]
  /\ watcher' = [watcher EXCEPT ![d] = "watching"]
  /\ wg' = wg + 1
  /\ UNCHANGED <<done, peers, client, loop, beating, closer, online>>

\* client.Wait returns, then close(watchDone)
WaitReturns(d) ==
  /\ dial[d].pc = "waiting"
  /\ Ended(d)
  /\ dial' = [dial EXCEPT ![d] = Dial("closing", dial[d].node)]
  /\ UNCHANGED <<done, peers, client, watcher, loop, beating, closer, wg, online>>

\* the deferred peer.close
DeferredClose(d) ==
  /\ dial[d].pc = "closing"
  /\ client' = ClosePeer(d)
  /\ dial' = [dial EXCEPT ![d] = Dial("removing", dial[d].node)]
  /\ UNCHANGED <<done, peers, watcher, loop, beating, closer, wg, online>>

\* mutant: connectToPeer returns without removePeer
ReturnsWithoutRemoval(d) ==
  /\ dial[d].pc = "removing"
  /\ dial' = [dial EXCEPT ![d] = Dial("finished", dial[d].node)]
  /\ wg' = wg - 1
  /\ UNCHANGED <<done, peers, client, watcher, loop, beating, closer, online>>

\* the deferred removePeer; connectToPeer returns
DeferredRemove(d) ==
  /\ dial[d].pc = "removing"
  /\ peers' = removePeer(d)
  /\ dial' = [dial EXCEPT ![d] = Dial("finished", dial[d].node)]
  /\ wg' = wg - 1
  /\ UNCHANGED <<done, client, watcher, loop, beating, closer, online>>

\* the watcher sees done: peer.close
WatcherCloses(d) ==
  /\ watcher[d] = "watching"
  /\ done
  /\ client' = ClosePeer(d)
  /\ watcher' = [watcher EXCEPT ![d] = "ended"]
  /\ wg' = wg - 1
  /\ UNCHANGED <<done, peers, dial, loop, beating, closer, online>>

\* the watcher sees watchDone
WatcherEnds(d) ==
  /\ watcher[d] = "watching"
  /\ dial[d].pc \in {"closing", "removing", "finished"}
  /\ watcher' = [watcher EXCEPT ![d] = "ended"]
  /\ wg' = wg - 1
  /\ UNCHANGED <<done, peers, dial, client, loop, beating, closer, online>>

\* the other node or the network: the connection ends, hangs or answers again
Remote(d) ==
  /\ \/ /\ client[d] \in {"up", "hung"}
        /\ client' = [client EXCEPT ![d] = "dead"]
     \/ /\ "hang" \in Events
        /\ client[d] = "up"
        /\ client' = [client EXCEPT ![d] = "hung"]
     \/ /\ client[d] = "hung"
        /\ client' = [client EXCEPT ![d] = "up"]
  /\ UNCHANGED <<done, peers, dial, watcher, loop, beating, closer, wg, online>>

-------------------------------------------------------------------------------
(* Close. *)

\* close(done)
CloseDone ==
  /\ "shutdown" \in Events
  /\ closer.pc = "open"
  /\ done' = TRUE
  /\ closer' = Closer("list", {})
  /\ UNCHANGED <<peers, dial, client, watcher, loop, beating, wg, online>>

\* listPeers
CloseLists ==
  /\ closer.pc = "list"
  /\ closer' = Closer("close", listPeers)
  /\ UNCHANGED <<done, peers, dial, client, watcher, loop, beating, wg, online>>

\* peer.close of a listed peer
ClosesPeer(d) ==
  /\ closer.pc = "close"
  /\ d \in closer.list
  /\ client' = ClosePeer(d)
  /\ closer' = Closer("close", closer.list \ {d})
  /\ UNCHANGED <<done, peers, dial, watcher, loop, beating, wg, online>>

CloseListed ==
  /\ closer.pc = "close"
  /\ closer.list = {}
  /\ closer' = Closer("wait", {})
  /\ UNCHANGED <<done, peers, dial, client, watcher, loop, beating, wg, online>>

\* mutant: Close does not wait for its goroutines
CloseWithoutWait ==
  /\ closer.pc = "wait"
  /\ closer' = Closer("mark", {})
  /\ UNCHANGED <<done, peers, dial, client, watcher, loop, beating, wg, online>>

\* waitGroup.Wait
CloseWaits ==
  /\ closer.pc = "wait"
  /\ wg = 0
  /\ closer' = Closer("mark", {})
  /\ UNCHANGED <<done, peers, dial, client, watcher, loop, beating, wg, online>>

\* registerNode(false); Close returns
CloseMarks ==
  /\ closer.pc = "mark"
  /\ online' = FALSE
  /\ closer' = Closer("closed", {})
  /\ UNCHANGED <<done, peers, dial, client, watcher, loop, beating, wg>>

\* runOnlineHeartbeat sees done
HeartbeatEnds ==
  /\ beating
  /\ done
  /\ beating' = FALSE
  /\ wg' = wg - 1
  /\ UNCHANGED <<done, peers, dial, client, watcher, loop, closer, online>>

-------------------------------------------------------------------------------
LoopStep ==
  \/ Tick \/ LoopEnds \/ ListNodes \/ DiscoverEnds \/ PingEnds
  \/ \E r \in Remotes : SkipNode(r) \/ \E d \in Dials : StartDial(r, d)
  \/ \E d \in Dials : PingAnswered(d) \/ PingFails(d) \/ EvictPeer(d)

DialStep(d) ==
  \/ DialFails(d) \/ DialSucceeds(d) \/ AddPeer(d) \/ AddPeerRefused(d)
  \/ StartWatcher(d) \/ WaitReturns(d) \/ DeferredClose(d) \/ DeferredRemove(d)

WatcherStep(d) == WatcherCloses(d) \/ WatcherEnds(d)

CloseStep ==
  \/ CloseDone \/ CloseLists \/ CloseListed \/ CloseWaits \/ CloseMarks
  \/ \E d \in Dials : ClosesPeer(d)

\* Close has returned and no goroutine is left
Closed == closer.pc = "closed" /\ UNCHANGED vars

Next ==
  \/ LoopStep \/ CloseStep \/ HeartbeatEnds \/ Closed
  \/ \E d \in Dials : DialStep(d) \/ WatcherStep(d) \/ Remote(d)

Spec == Init /\ [][Next]_vars

(* Goroutines that can run do run, and a dial succeeds or fails some time.
   Nothing makes a peer's connection end, hang or answer again, and nobody has
   to call Close.  Of the two cases of runPeers's select, a closed done channel
   is taken some time (Go picks among ready cases at random), and a peer that
   answers again and again answers a ping some time. *)
Fairness ==
  /\ WF_vars(LoopStep) /\ SF_vars(LoopEnds) /\ WF_vars(HeartbeatEnds)
  /\ WF_vars(CloseStep /\ done)
  /\ SF_vars(\E d \in Dials : PingAnswered(d))
  /\ \A d \in Dials : WF_vars(DialStep(d)) /\ WF_vars(WatcherStep(d))

FairSpec == Spec /\ Fairness

-------------------------------------------------------------------------------
(* Properties. *)

\* Peers, goroutines, clients and the wait group have values of their types; in
\* particular the wait group's counter never becomes negative.
TypeOK ==
  /\ done \in BOOLEAN /\ beating \in BOOLEAN /\ online \in BOOLEAN
  /\ peers \in [Remotes -> Dials \union {None}]
  /\ dial \in [Dials -> [pc : DialPcs, node : Remotes \union {None}]]
  /\ client \in [Dials -> Clients]
  /\ watcher \in [Dials -> {"none", "watching", "ended"}]
  /\ loop \in [pc : LoopPcs, todo : SUBSET (Remotes \union Dials), list : SUBSET Dials]
  /\ closer \in [pc : CloserPcs, list : SUBSET Dials]
  /\ wg \in Nat

\* Every published peer has a connectToPeer goroutine of that node that is
\* still going to withdraw it: getPeer never returns a peer nobody owns.
PeerOwned ==
  \A r \in Remotes :
    peers[r] # None =>
      /\ dial[peers[r]].node = r
      /\ dial[peers[r]].pc \in {"added", "waiting", "closing", "removing"}

\* A step that withdraws only a peer whose own connection has ended.
WithdrawsEnded ==
  \A r \in Remotes : peers[r] # None /\ peers'[r] # peers[r] => Ended(peers[r])

\* The withdrawal of a dead peer, by its own goroutine or by a failed ping,
\* never hits the peer that has replaced it (the comparison in removePeer).
SuccessorKept == [][WithdrawsEnded]_vars

\* A step that adds to the wait group does it under a token of its own.
AddsUnderToken == wg' > wg => wg > 0

\* No goroutine is added to the wait group while Close may see it at zero: the
\* "Add cannot race Wait at zero" of connectToPeer.
AddNeverRacesWait == [][AddsUnderToken]_vars

\* When Close returns, no peer is published, every ssh client is closed, all
\* goroutines have ended, also those of peers that connected after Close took
\* its list, and the node's row says offline: no late heartbeat put it back.
CloseLeavesNothing ==
  closer.pc = "closed" =>
    /\ ~online /\ ~beating
    /\ loop.pc = "ended"
    /\ \A r \in Remotes : peers[r] = None
    /\ \A d \in Dials : /\ dial[d].pc = "finished"
                        /\ watcher[d] # "watching"
                        /\ client[d] \in {"none", "closed"}

\* Someone closes d's client when done is closed: its watcher, or connectToPeer
\* is about to start one.
Guarded(d) ==
  \/ dial[d].pc \in {"dialed", "added"}
  \/ dial[d].pc = "waiting" /\ watcher[d] = "watching"

\* No goroutine that Close waits for depends on another node to end: a client
\* that is connected, and one that the ping loop may be blocked on, has ended
\* or is closed by its watcher, also if it connected after Close took its list.
ClientsWatched ==
  \A d \in Dials : client[d] \in {"up", "hung"} \/ d \in loop.list => Ended(d) \/ Guarded(d)

\* Close returns, also when a peer hangs and the ping loop is blocked on it.
CloseReturns == done ~> closer.pc = "closed"

\* A peer whose connection ended is withdrawn, so that the next discovery can
\* connect to its node again.
DeadPeerWithdrawn ==
  \A r \in Remotes, d \in Dials :
    (peers[r] = d /\ Ended(d)) ~> (peers[r] # d)

\* runPeers keeps coming back to its timer, which refreshes the node's row "on
\* every heartbeat while online" (peer.go).
HeartbeatGoesOn == []<>(loop.pc \in {"select", "ended"})
===============================================================================

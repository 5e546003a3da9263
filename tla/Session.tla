------------------------------- MODULE Session -------------------------------
(* What the client of one ssh connection may ask for: services by global
   requests (connection.go) and commands in sessions (session.go, service.go),
   some of which report to the user's row in the database (db/users.go).

   Global requests carry no number: the client matches replies to requests by
   their order.  They are handled one at a time; each session has a goroutine
   of its own, and so have the other writers of the row.  A statement or a
   transaction on the row is one step, except PutUser, whose transaction reads
   in one step and writes in another.  Tunnels are in Routing, the end of
   goroutines and the effect of kickUser in Lifecycle and Presence. *)
EXTENDS Naturals, Sequences

CONSTANTS
  Services,   \* hosts and ports that the client offers, port 0 apart
  PortZero,   \* a host with port 0
  Sessions,   \* session channels; each one lives once
  Putters,    \* callers of PutUser
  None,       \* the value of a column that was never written
  NoRow,      \* the row does not exist
  MaxInputs,  \* bound on requests, channels and commands of the client
  Faults      \* which of "dbError" (a statement fails), "lostReply" (it is
              \* committed and reported as failed) may happen

ASSUME SessionAssumption ==
  /\ PortZero \notin Services
  /\ None \notin Sessions
  /\ MaxInputs \in Nat

VARIABLES
  perm,      \* connection: what it is permitted, or that it is a peer's
  open,      \* the connection's handler runs
  inputs,    \* history: what the client has asked for so far
  inbox,     \* global requests on their way
  replies,   \* replies on their way
  services,  \* services registered
  awaiting,  \* client: requests not settled yet
  believed,  \* client: services it takes to be registered
  skipped,   \* history: a request for port 0 was neither granted nor answered
  session,   \* [pc, command, saved, closed]: handleSession
  told,      \* client: the exit status, and what it was about
  row,       \* database: the user's row
  latest,    \* history: what was last written to each column
  put        \* PutUser: [pc, model]

client == <<inbox, replies, services, awaiting, believed, skipped>>
database == <<row, latest, put>>
vars == <<perm, open, inputs, client, session, told, database>>

Request(type, s, want) == [type |-> type, service |-> s, want |-> want]
Requests ==
  {Request(t, s, w) : t \in {"tcpip-forward", "cancel-tcpip-forward"},
                      s \in Services \union {PortZero}, w \in BOOLEAN}
  \union {Request("other", PortZero, TRUE), Request("malformed", PortZero, TRUE)}

\* help stands for ping and version, listUsers for what needs port forwarding
Commands == {"help", "reportStatus", "reportScreenshot", "listUsers", "kickUser",
             "json", "junk", "shell"}
\* permissions of users, and connections of other nodes
Perms == SUBSET {"permitPortForwarding", "administrator"} \union {{"peer"}}
SessionPcs == {"none", "idle", "reading", "saving", "shell", "ended"}
Saved == {"no", "yes", "unknown"}

Run(pc, c, saved, closed) ==
  [pc |-> pc, command |-> c, saved |-> saved, closed |-> closed]
Told(exit, c, saved) == [exit |-> exit, command |-> c, saved |-> saved]
Put(pc, model) == [pc |-> pc, model |-> model]
NewRow == [status |-> None, screenshot |-> None, online |-> FALSE, administrator |-> FALSE]

Init ==
  /\ perm \in Perms
  /\ open = TRUE
  /\ inputs = 0
  /\ inbox = <<>> /\ replies = <<>> /\ awaiting = <<>>
  /\ services = {} /\ believed = {}
  /\ skipped = FALSE
  /\ session = [s \in Sessions |-> Run("none", "help", "no", FALSE)]
  /\ told = [s \in Sessions |-> Told("none", "help", "no")]
  /\ row = NewRow
  /\ latest = NewRow
  /\ put = [k \in Putters |-> Put("none", NewRow)]

\* the client asks for one more thing
Input == inputs < MaxInputs /\ inputs' = inputs + 1

-------------------------------------------------------------------------------
(* Global requests. *)

\* what a client concludes from a request that was granted
Granted(b, r) ==
  CASE r.type = "tcpip-forward" -> b \union {r.service}
    [] r.type = "cancel-tcpip-forward" -> b \ {r.service}
    [] OTHER -> b

\* the client sends a request, without waiting for earlier replies
SendRequest(r) ==
  /\ open
  /\ Input
  /\ inbox' = Append(inbox, r)
  /\ awaiting' = Append(awaiting, r)
  /\ UNCHANGED <<perm, open, replies, services, believed, skipped, session, told, database>>

\* its oldest request wants no reply: the client takes it to be granted
TakeForGranted ==
  /\ awaiting # <<>> /\ ~Head(awaiting).want
  /\ awaiting' = Tail(awaiting)
  /\ believed' = Granted(believed, Head(awaiting))
  /\ UNCHANGED <<perm, open, inputs, inbox, replies, services, skipped, session, told, database>>

ZeroAllowed(r) == FALSE  \* mutant

\* port 0 is not allowed
Zero(r) == r.type = "tcpip-forward" /\ r.service = PortZero

\* a request that cannot be decoded, and a service registered already, are
\* errors that end the connection
Fails(r) ==
  \/ r.type = "malformed"
  \/ r.type = "tcpip-forward" /\ r.service \in services

RegisteredForGood(r) ==  \* mutant
  IF r.type = "tcpip-forward" /\ ~Zero(r) THEN services \union {r.service} ELSE services

\* registerService, deregisterService
Registered(r) ==
  CASE r.type = "tcpip-forward" /\ ~Zero(r) -> services \union {r.service}
    [] r.type = "cancel-tcpip-forward" -> services \ {r.service}
    [] OTHER -> services

RepliedWhenOk(r) ==  \* mutant
  IF r.want /\ ~Zero(r) /\ r.type # "other" THEN Append(replies, TRUE) ELSE replies

\* handleRequest returns before the reply for port 0
Replied(r) ==
  IF r.want /\ ~Zero(r) THEN Append(replies, r.type # "other") ELSE replies

\* handleRequest
HandleRequest ==
  LET r == Head(inbox) IN
  /\ open
  /\ inbox # <<>>
  /\ inbox' = Tail(inbox)
  /\ open' = ~Fails(r)
  /\ services' = IF Fails(r) THEN services ELSE Registered(r)
  /\ replies' = IF Fails(r) THEN replies ELSE Replied(r)
  /\ skipped' = (skipped \/ Zero(r))
  /\ UNCHANGED <<perm, inputs, awaiting, believed, session, told, database>>

\* a reply reaches the client, which takes it for that to its oldest request
ReceiveReply ==
  /\ replies # <<>> /\ awaiting # <<>> /\ Head(awaiting).want
  /\ replies' = Tail(replies)
  /\ awaiting' = Tail(awaiting)
  /\ believed' = IF Head(replies) THEN Granted(believed, Head(awaiting)) ELSE believed
  /\ UNCHANGED <<perm, open, inputs, inbox, services, skipped, session, told, database>>

\* the client leaves, the connection is closed, or handleChannel is given a
\* channel of unknown type or a session with extra data
EndConnection ==
  /\ open
  /\ open' = FALSE
  /\ UNCHANGED <<perm, inputs, client, session, told, database>>

-------------------------------------------------------------------------------
(* Sessions. *)

\* handleCommand of a command that is not the shell: what it does
HandleCommand(c) ==
  CASE c = "help" -> "ran"
    [] c \in {"reportStatus", "reportScreenshot"} -> "report"
    [] c = "listUsers" /\ "permitPortForwarding" \in perm -> "ran"
    [] c = "kickUser" /\ {"permitPortForwarding", "administrator"} \subseteq perm -> "ran"
    [] OTHER -> "invalid"

\* a session channel: prohibited on connections of peers, accepted and closed
OpenSession(s) ==
  /\ open
  /\ Input
  /\ session[s].pc = "none"
  /\ session' = [session EXCEPT ![s].pc = IF "peer" \in perm THEN "ended" ELSE "idle"]
  /\ UNCHANGED <<perm, open, client, told, database>>

\* mutant: the channel is left open
FinishOpen(s, run, ok) ==
  /\ session' = [session EXCEPT ![s] =
                   Run(IF ok THEN "idle" ELSE "ended", run.command, run.saved, FALSE)]
  /\ told' = IF open
             THEN [told EXCEPT ![s] = Told(IF ok THEN "success" ELSE "failure", run.command, run.saved)]
             ELSE told

\* the deferred function of handleSession: CloseWrite, exit-status and Close.
\* A channel that is closed sends nothing.  After a success the loop goes on
\* with the next request, after a failure it ends.
Finish(s, run, ok) ==
  /\ session' = [session EXCEPT ![s] =
                   Run(IF ok THEN "idle" ELSE "ended", run.command, run.saved, TRUE)]
  /\ told' = IF open /\ ~run.closed
             THEN [told EXCEPT ![s] = Told(IF ok THEN "success" ELSE "failure", run.command, run.saved)]
             ELSE told

\* an exec or shell request: runService up to where it waits.  Errors of a
\* command other than ErrInvalidCommand are dropped; an invalid command may be
\* a status in JSON, and otherwise fails.  Requests that are queued when the
\* connection ends are still served.
RunService(s, c) ==
  LET run == Run("idle", c, "no", session[s].closed)
      at(pc) == session' = [session EXCEPT ![s] = [run EXCEPT !.pc = pc]] /\ UNCHANGED told IN
  /\ Input
  /\ session[s].pc = "idle"
  /\ CASE c = "shell" -> at("shell")
       [] HandleCommand(c) = "report" -> at("reading")
       [] c = "json" -> at("saving")
       [] OTHER -> Finish(s, run, HandleCommand(c) = "ran")
  /\ UNCHANGED <<perm, open, client, database>>

\* the input of a report has been read to its end
ReadAll(s) ==
  /\ session[s].pc = "reading"
  /\ session' = [session EXCEPT ![s].pc = "saving"]
  /\ UNCHANGED <<perm, open, inputs, client, told, database>>

\* it breaks off, or is not in the right format: the error is dropped
ReadFails(s) ==
  /\ session[s].pc = "reading"
  /\ Finish(s, session[s], TRUE)
  /\ UNCHANGED <<perm, open, inputs, client, database>>

\* exit, quit or the end of the input; or reading or writing fails.  Reports
\* are refused in a shell, and errors of other commands are printed.
ShellEnds(s, ok) ==
  /\ session[s].pc = "shell"
  /\ Finish(s, session[s], ok)
  /\ UNCHANGED <<perm, open, inputs, client, database>>

\* no more requests: the client has closed the channel, or the connection ended
SessionEnds(s) ==
  /\ session[s].pc = "idle"
  /\ session' = [session EXCEPT ![s].pc = "ended"]
  /\ UNCHANGED <<perm, open, inputs, client, told, database>>

-------------------------------------------------------------------------------
(* The user's row. *)

NeverLocked == FALSE  \* mutant

\* SELECT ... FOR UPDATE of a transaction that has not ended
Locked == \E k \in Putters : put[k].pc = "locked"

\* a single statement that writes one column, of a row that exists
Write(column, v) ==
  /\ row' = [row EXCEPT ![column] = v]
  /\ latest' = [latest EXCEPT ![column] = v]

Column(c) == IF c = "reportScreenshot" THEN "screenshot" ELSE "status"

\* mutant: an update that finds no row is not noticed
SaveMissesRow(s, saved) ==
  LET run == [session[s] EXCEPT !.saved = saved] IN
  /\ session[s].pc = "saving"
  /\ ~Locked
  /\ \/ saved = "no" /\ (row = NoRow \/ "dbError" \in Faults) /\ UNCHANGED <<row, latest>>
     \/ /\ saved = "yes" \/ (saved = "unknown" /\ "lostReply" \in Faults)
        /\ row # NoRow
        /\ Write(Column(run.command), s)
  /\ Finish(s, run, saved = "yes" \/ run.command # "json" \/ row = NoRow)
  /\ UNCHANGED <<perm, open, inputs, client, put>>

\* UpdateUserStatus, UpdateUserScreenshot: updateUserColumn fails if no row is
\* affected.  Only the error of the legacy report in JSON reaches the session.
Save(s, saved) ==
  LET run == [session[s] EXCEPT !.saved = saved] IN
  /\ session[s].pc = "saving"
  /\ ~Locked
  /\ \/ saved = "no" /\ (row = NoRow \/ "dbError" \in Faults) /\ UNCHANGED <<row, latest>>
     \/ /\ saved = "yes" \/ (saved = "unknown" /\ "lostReply" \in Faults)
        /\ row # NoRow
        /\ Write(Column(run.command), s)
  /\ Finish(s, run, saved = "yes" \/ run.command # "json")
  /\ UNCHANGED <<perm, open, inputs, client, put>>

\* UpsertUserOnConnect of another login, MarkUsersOnline of a heartbeat; only
\* the former creates a row
MarkOnline ==
  /\ ~Locked
  /\ row # NoRow
  /\ Write("online", ~row.online)
  /\ UNCHANGED <<perm, open, inputs, client, session, told, put>>

UpsertCreates ==
  /\ row = NoRow
  /\ row' = NewRow /\ latest' = NewRow
  /\ UNCHANGED <<perm, open, inputs, client, session, told, put>>

\* an operator deletes the row; no code does
DeleteRow ==
  /\ ~Locked
  /\ row # NoRow
  /\ row' = NoRow /\ latest' = NoRow
  /\ UNCHANGED <<perm, open, inputs, client, session, told, put>>

\* PutUser: SELECT ... FOR UPDATE waits for, and takes, the lock of a row that
\* exists; the modifier changes one column
PutUserReads(k) ==
  /\ put[k].pc = "none"
  /\ ~Locked
  /\ put' = [put EXCEPT ![k] = IF row = NoRow THEN Put("create", NewRow) ELSE Put("locked", row)]
  /\ UNCHANGED <<perm, open, inputs, client, session, told, row, latest>>

\* the modifier or a statement fails, or the row exists by now: rolled back
PutUserFails(k) ==
  /\ put[k].pc \in {"create", "locked"}
  /\ put' = [put EXCEPT ![k] = Put("none", NewRow)]
  /\ UNCHANGED <<perm, open, inputs, client, session, told, row, latest>>

\* mutant: the transaction is not ended
PutUserNeverCommits(k) ==
  LET model == [put[k].model EXCEPT !.administrator = ~@] IN
  /\ put[k].pc \in {"create", "locked"}
  /\ put[k].pc = "create" => row = NoRow
  /\ row' = model /\ latest' = model
  /\ put' = [put EXCEPT ![k] = Put("locked", model)]
  /\ UNCHANGED <<perm, open, inputs, client, session, told>>

\* Create, or Save of all columns
PutUserWrites(k) ==
  LET model == [put[k].model EXCEPT !.administrator = ~@] IN
  /\ put[k].pc \in {"create", "locked"}
  /\ put[k].pc = "create" => row = NoRow
  /\ row' = model
  /\ latest' = IF row = NoRow THEN model
               ELSE [latest EXCEPT !.administrator = model.administrator]
  /\ put' = [put EXCEPT ![k] = Put("none", NewRow)]
  /\ UNCHANGED <<perm, open, inputs, client, session, told>>

-------------------------------------------------------------------------------
ClientStep == TakeForGranted \/ ReceiveReply \/ \E r \in Requests : SendRequest(r)

SessionStep(s) ==
  \/ OpenSession(s) \/ ReadAll(s) \/ ReadFails(s) \/ SessionEnds(s)
  \/ \E c \in Commands : RunService(s, c)
  \/ \E ok \in BOOLEAN : ShellEnds(s, ok)
  \/ \E saved \in Saved : Save(s, saved)

PutStep(k) == PutUserReads(k) \/ PutUserFails(k) \/ PutUserWrites(k)

Next ==
  \/ ClientStep \/ HandleRequest \/ EndConnection
  \/ \E s \in Sessions : SessionStep(s)
  \/ MarkOnline \/ UpsertCreates \/ DeleteRow
  \/ \E k \in Putters : PutStep(k)

Spec == Init /\ [][Next]_vars

\* what a session does once its connection has ended
Unwinds(s) == ~open /\ (ReadFails(s) \/ ShellEnds(s, FALSE) \/ SessionEnds(s))

(* The handler, the network and the sessions go on.  A transaction ends, and
   the database hands the lock of a row to whoever waits for it in turn.  The
   client need not end its input, and nobody has to write. *)
FairSpec ==
  /\ Spec
  /\ WF_vars(HandleRequest) /\ WF_vars(ReceiveReply) /\ WF_vars(TakeForGranted)
  /\ \A s \in Sessions : /\ WF_vars(Unwinds(s))
                         /\ SF_vars(\E saved \in Saved : Save(s, saved))
  /\ \A k \in Putters : WF_vars(PutUserFails(k) \/ PutUserWrites(k))

-------------------------------------------------------------------------------
(* Properties. *)

Row == [status : Sessions \union {None}, screenshot : Sessions \union {None},
        online : BOOLEAN, administrator : BOOLEAN]

\* The state has the shape declared above; in particular PortZero is never
\* registered.
TypeOK ==
  /\ perm \in Perms /\ open \in BOOLEAN /\ skipped \in BOOLEAN
  /\ inputs \in 0 .. MaxInputs
  /\ inbox \in Seq(Requests) /\ awaiting \in Seq(Requests) /\ replies \in Seq(BOOLEAN)
  /\ services \subseteq Services
  /\ session \in [Sessions -> [pc : SessionPcs, command : Commands, saved : Saved, closed : BOOLEAN]]
  /\ told \in [Sessions -> [exit : {"none", "success", "failure"}, command : Commands, saved : Saved]]
  /\ row \in Row \union {NoRow}
  /\ put \in [Putters -> [pc : {"none", "create", "locked"}, model : Row]]

\* A client that has sent any mixture of requests, with and without replies,
\* ahead of their answers, and has settled all of them, knows which services
\* the connection has registered and has no reply left over, unless it asked
\* for port 0.
BelievesServices ==
  open /\ ~skipped /\ inbox = <<>> /\ awaiting = <<>>
    => replies = <<>> /\ believed = services

\* The exit status tells the truth: a report in JSON that succeeds was saved, a
\* command that fails saved nothing that the database confirmed, and a command
\* beyond the user's permissions fails.
ExitTells ==
  \A s \in Sessions :
    /\ told[s].exit = "success" /\ told[s].command = "json" => told[s].saved = "yes"
    /\ told[s].exit = "failure" => told[s].saved # "yes"
    /\ told[s].exit = "success" /\ told[s].command = "kickUser"
         => "administrator" \in perm

\* The client of a session hears one exit status, even if it asks for another
\* command after the first.
ExitOnce ==
  [][\A s \in Sessions : told[s].exit # "none" => told'[s] = told[s]]_vars

\* No column of the row loses the last value written to it: "the Save below"
\* would revert "a concurrent heartbeat's online_at/node_id update" (users.go)
\* without the lock that PutUser takes.
NoLostUpdate == row = latest

\* Requests are settled, those that want a reply by it, as long as the connection lasts and port
\* 0 was not asked for.
Answered == awaiting # <<>> ~> awaiting = <<>> \/ ~open \/ skipped

\* When the connection has ended all its sessions end, also one that waits for
\* input from the client or for the lock of the row: connection.close, which
\* waits for them, returns.
SessionsUnwind ==
  \A s \in Sessions : ~open /\ session[s].pc # "none" ~> session[s].pc = "ended"
===============================================================================

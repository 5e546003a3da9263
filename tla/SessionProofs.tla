----------------------------- MODULE SessionProofs -----------------------------
(* Proofs about Session, for any number of sessions, services, callers of
   PutUser and inputs. *)
EXTENDS Session, Integers, SequenceTheorems, TLAPS

SessionType ==
  session \in [Sessions -> [pc : SessionPcs, command : Commands, saved : Saved, closed : BOOLEAN]]
ToldType ==
  told \in [Sessions -> [exit : {"none", "success", "failure"}, command : Commands, saved : Saved]]
PutType == put \in [Putters -> [pc : {"none", "create", "locked"}, model : Row]]

\* What a session waits for follows from its command, nothing is saved before
\* the end, and an exit status is sent only when the channel is closed.
Waits ==
  \A s \in Sessions :
    /\ session[s].pc = "reading" => session[s].command \in {"reportStatus", "reportScreenshot"}
    /\ session[s].pc = "saving" => session[s].command \in {"reportStatus", "reportScreenshot", "json"}
    /\ session[s].pc = "shell" => session[s].command = "shell"
    /\ session[s].pc \in {"reading", "saving", "shell"} => session[s].saved = "no"
    /\ told[s].exit # "none" => session[s].closed

SessionInv == SessionType /\ ToldType /\ Waits /\ ExitTells

\* Whoever holds the lock has read the row as it is, and nobody else holds it.
LockInv ==
  /\ PutType
  /\ row \in Row \union {NoRow}
  /\ \A k \in Putters : put[k].pc = "locked" => row # NoRow /\ put[k].model = row
  /\ \A k, j \in Putters : put[k].pc = "locked" /\ put[j].pc = "locked" => k = j
  /\ NoLostUpdate

-------------------------------------------------------------------------------
\* The end of a command tells its exit status once, and truthfully if its
\* outcome is.
LEMMA FinishInv ==
  ASSUME SessionInv, NEW s \in Sessions, NEW ok \in BOOLEAN, NEW c \in Commands,
         NEW saved \in Saved,
         NEW run, run.command = c, run.saved = saved, run.closed = session[s].closed,
         Finish(s, run, ok), UNCHANGED perm,
         ok /\ c = "json" => saved = "yes",
         ~ok => saved # "yes",
         ok /\ c = "kickUser" => "administrator" \in perm
  PROVE  SessionInv' /\ \A x \in Sessions : told[x].exit # "none" => told'[x] = told[x]
<1> DEFINE new == Run(IF ok THEN "idle" ELSE "ended", c, saved, TRUE)
           exit == Told(IF ok THEN "success" ELSE "failure", c, saved)
<1>2. /\ session' = [session EXCEPT ![s] = new]
      /\ told' = IF open /\ ~session[s].closed THEN [told EXCEPT ![s] = exit] ELSE told
  BY DEF Finish
<1>3. /\ new \in [pc : SessionPcs, command : Commands, saved : Saved, closed : BOOLEAN]
      /\ new.pc \in {"idle", "ended"} /\ new.closed
      /\ exit \in [exit : {"none", "success", "failure"}, command : Commands, saved : Saved]
      /\ exit.exit = (IF ok THEN "success" ELSE "failure") /\ exit.command = c /\ exit.saved = saved
  BY DEF Run, Told, SessionPcs
<1> HIDE DEF new, exit
<1>4. SessionType' /\ ToldType'
  BY <1>2, <1>3 DEF SessionInv, SessionType, ToldType
<1>5. /\ session'[s] = new
      /\ told'[s] = told[s] \/ (told'[s] = exit /\ ~session[s].closed)
      /\ \A x \in Sessions : x # s => session'[x] = session[x] /\ told'[x] = told[x]
  BY <1>2 DEF SessionInv, SessionType, ToldType
<1>6. Waits'
  BY <1>3, <1>5 DEF SessionInv, Waits
<1>7. ExitTells'
  BY <1>3, <1>5 DEF SessionInv, ExitTells
<1>8. \A x \in Sessions : told[x].exit # "none" => told'[x] = told[x]
  BY <1>5 DEF SessionInv, Waits
<1> QED
  BY <1>4, <1>6, <1>7, <1>8 DEF SessionInv

\* Steps of sessions that do not end a command.
LEMMA WaitInv ==
  ASSUME SessionInv, NEW s \in Sessions, UNCHANGED <<perm, told>>,
         NEW new \in [pc : SessionPcs, command : Commands, saved : Saved, closed : BOOLEAN],
         session' = [session EXCEPT ![s] = new],
         new.closed = session[s].closed,
         new.pc = "reading" => new.command \in {"reportStatus", "reportScreenshot"},
         new.pc = "saving" => new.command \in {"reportStatus", "reportScreenshot", "json"},
         new.pc = "shell" => new.command = "shell",
         new.pc \in {"reading", "saving", "shell"} => new.saved = "no"
  PROVE  SessionInv'
<1>1. SessionType' /\ ToldType'
  BY DEF SessionInv, SessionType, ToldType
<1>2. session'[s] = new /\ \A x \in Sessions : x # s => session'[x] = session[x]
  BY DEF SessionInv, SessionType
<1>3. Waits'
  BY <1>2 DEF SessionInv, Waits
<1>4. ExitTells'
  BY DEF SessionInv, ExitTells
<1> QED
  BY <1>1, <1>3, <1>4 DEF SessionInv

\* Every step of a session keeps the invariant and leaves an exit status alone
\* once it is sent.
LEMMA SessionStepInv ==
  ASSUME SessionInv, NEW s \in Sessions, SessionStep(s)
  PROVE  SessionInv' /\ \A x \in Sessions : told[x].exit # "none" => told'[x] = told[x]
<1> DEFINE T == [pc : SessionPcs, command : Commands, saved : Saved, closed : BOOLEAN]
           once == \A x \in Sessions : told[x].exit # "none" => told'[x] = told[x]
<1>a. session[s] \in T
  BY DEF SessionInv, SessionType
<1>w. /\ session[s].pc = "reading" => session[s].command \in {"reportStatus", "reportScreenshot"}
      /\ session[s].pc = "saving" => session[s].command \in {"reportStatus", "reportScreenshot", "json"}
      /\ session[s].pc = "shell" => session[s].command = "shell"
      /\ session[s].pc \in {"reading", "saving", "shell"} => session[s].saved = "no"
  BY DEF SessionInv, Waits
<1>1. CASE OpenSession(s) \/ ReadAll(s) \/ SessionEnds(s)
  <2>1. PICK pc \in SessionPcs :
          /\ session' = [session EXCEPT ![s].pc = pc]
          /\ pc \in {"idle", "ended"} \/ (pc = "saving" /\ session[s].pc = "reading")
    BY <1>1 DEF OpenSession, ReadAll, SessionEnds, SessionPcs
  <2>2. UNCHANGED <<perm, told>>
    BY <1>1 DEF OpenSession, ReadAll, SessionEnds
  <2> DEFINE new == [session[s] EXCEPT !.pc = pc]
  <2>3. /\ new \in T /\ new.pc = pc /\ new.command = session[s].command
        /\ new.saved = session[s].saved /\ new.closed = session[s].closed
    BY <1>a
  <2>4. session' = [session EXCEPT ![s] = new]
    BY <2>1
  <2> HIDE DEF new
  <2>5. /\ new.pc = "saving" => new.command \in {"reportStatus", "reportScreenshot", "json"}
        /\ new.pc \notin {"reading", "shell"}
        /\ new.pc = "saving" => new.saved = "no"
    BY <2>1, <2>3, <1>w
  <2>6. SessionInv'
    BY <2>2, <2>3, <2>4, <2>5, WaitInv
  <2> QED
    BY <2>2, <2>6
<1>2. CASE ReadFails(s)
  BY <1>2, <1>a, <1>w, FinishInv DEF ReadFails
<1>3. ASSUME NEW ok \in BOOLEAN, ShellEnds(s, ok) PROVE SessionInv' /\ once
  BY <1>3, <1>a, <1>w, FinishInv DEF ShellEnds
<1>4. ASSUME NEW saved \in Saved, Save(s, saved) PROVE SessionInv' /\ once
  <2> DEFINE run == [session[s] EXCEPT !.saved = saved]
             ok == saved = "yes" \/ session[s].command # "json"
  <2>1. run.command = session[s].command /\ run.saved = saved /\ run.closed = session[s].closed
    BY <1>a
  <2>2. Finish(s, run, ok) /\ UNCHANGED perm /\ session[s].pc = "saving"
    BY <1>4, <2>1 DEF Save
  <2>3. ok \in BOOLEAN /\ session[s].command \in Commands /\ (~ok => saved # "yes")
        /\ session[s].command # "kickUser"
        /\ (ok /\ session[s].command = "json" => saved = "yes")
    BY <1>a, <1>w, <2>2
  <2> HIDE DEF run, ok
  <2> QED
    BY <2>1, <2>2, <2>3, FinishInv
<1>5. ASSUME NEW c \in Commands, RunService(s, c) PROVE SessionInv' /\ once
  <2> DEFINE run == Run("idle", c, "no", session[s].closed)
             at(pc) == session' = [session EXCEPT ![s] = [run EXCEPT !.pc = pc]] /\ UNCHANGED told
  <2>1. run.command = c /\ run.saved = "no" /\ run.closed = session[s].closed
    BY DEF Run
  <2>2. UNCHANGED perm
    BY <1>5 DEF RunService
  <2>3. ASSUME NEW pc \in {"shell", "reading", "saving"}, at(pc),
               pc = "reading" => c \in {"reportStatus", "reportScreenshot"},
               pc = "saving" => c = "json", pc = "shell" => c = "shell"
        PROVE  SessionInv' /\ once
    <3> DEFINE new == [run EXCEPT !.pc = pc]
    <3>1. new \in T /\ new.pc = pc /\ new.command = c /\ new.saved = "no" /\ new.closed = session[s].closed
      BY <1>a DEF Run, SessionPcs, Saved
    <3>2. session' = [session EXCEPT ![s] = new] /\ UNCHANGED told
      BY <2>3
    <3> HIDE DEF new
    <3>3. SessionInv'
      BY <3>1, <3>2, <2>2, <2>3, WaitInv
    <3> QED
      BY <3>2, <3>3
  <2>4. ASSUME c \notin {"shell", "json"}, Finish(s, run, HandleCommand(c) = "ran")
        PROVE  SessionInv' /\ once
    <3>1. (HandleCommand(c) = "ran") \in BOOLEAN /\ "no" \in Saved
          /\ (HandleCommand(c) = "ran" /\ c = "kickUser" => "administrator" \in perm)
      BY DEF HandleCommand, Saved
    <3> HIDE DEF run
    <3> QED
      BY <3>1, <2>1, <2>2, <2>4, FinishInv
  <2>5. \/ c = "shell" /\ at("shell")
        \/ c \in {"reportStatus", "reportScreenshot"} /\ at("reading")
        \/ c = "json" /\ at("saving")
        \/ c \notin {"shell", "json"} /\ Finish(s, run, HandleCommand(c) = "ran")
    <3>1. HandleCommand(c) = "report" => c \in {"reportStatus", "reportScreenshot"}
      BY DEF HandleCommand
    <3> QED
      BY <1>5, <3>1 DEF RunService
  <2> QED
    BY <2>3, <2>4, <2>5
<1> QED
  BY <1>1, <1>2, <1>3, <1>4, <1>5 DEF SessionStep

-------------------------------------------------------------------------------
\* Steps that are not those of a session leave sessions alone.
LEMMA NextSessionInv ==
  ASSUME SessionInv, [Next]_vars
  PROVE  SessionInv' /\ \A x \in Sessions : told[x].exit # "none" => told'[x] = told[x]
<1>1. CASE \E s \in Sessions : SessionStep(s)
  BY <1>1, SessionStepInv
<1>2. CASE UNCHANGED <<perm, session, told>>
  BY <1>2 DEF SessionInv, SessionType, ToldType, Waits, ExitTells
<1>3. ClientStep \/ HandleRequest \/ EndConnection => UNCHANGED <<perm, session, told>>
  BY DEF ClientStep, TakeForGranted, ReceiveReply, SendRequest, HandleRequest, EndConnection
<1>4. MarkOnline \/ UpsertCreates \/ DeleteRow \/ (\E k \in Putters : PutStep(k))
      => UNCHANGED <<perm, session, told>>
  BY DEF MarkOnline, UpsertCreates, DeleteRow, PutStep, PutUserReads, PutUserFails, PutUserWrites
<1>5. UNCHANGED vars => UNCHANGED <<perm, session, told>>
  BY DEF vars
<1> QED
  BY <1>1, <1>2, <1>3, <1>4, <1>5 DEF Next

\* Nobody writes the row while PutUser holds its lock.
LEMMA NextLockInv ==
  ASSUME LockInv, [Next]_vars
  PROVE  LockInv'
<1>a. NewRow \in Row
  BY DEF NewRow, Row
<1>b. put \in [Putters -> [pc : {"none", "create", "locked"}, model : Row]] /\ row = latest
  BY DEF LockInv, PutType, NoLostUpdate
<1>1. CASE UNCHANGED <<row, latest, put>>
  BY <1>1 DEF LockInv, PutType, NoLostUpdate
<1>2. ASSUME ~Locked, UNCHANGED put, row' \in Row \union {NoRow}, row' = latest'
      PROVE  LockInv'
  BY <1>2 DEF LockInv, PutType, NoLostUpdate, Locked
<1>3. ASSUME NEW column \in {"status", "screenshot", "online", "administrator"}, NEW v,
             row # NoRow, Write(column, v), column = "online" => v \in BOOLEAN,
             column \in {"status", "screenshot"} => v \in Sessions, column # "administrator"
      PROVE  row' \in Row /\ row' = latest'
  BY <1>3, <1>b DEF LockInv, Write, Row
<1>4. ASSUME NEW s \in Sessions, NEW saved \in Saved, Save(s, saved) PROVE LockInv'
  <2>1. ~Locked /\ UNCHANGED put
    BY <1>4 DEF Save
  <2>2. CASE UNCHANGED <<row, latest>>
    BY <2>1, <2>2, <1>1
  <2>3. CASE row # NoRow /\ \E column \in {"status", "screenshot"} : Write(column, s)
    BY <2>1, <2>3, <1>2, <1>3
  <2> QED
    BY <1>4, <2>2, <2>3 DEF Save, Column
<1>5. CASE MarkOnline
  <2>1. row.online \in BOOLEAN
    BY <1>5 DEF MarkOnline, LockInv, Row
  <2> QED
    BY <2>1, <1>5, <1>2, <1>3 DEF MarkOnline
<1>6. CASE UpsertCreates
  BY <1>6, <1>2, <1>a DEF UpsertCreates, Locked, LockInv
<1>7. CASE DeleteRow
  BY <1>7, <1>2 DEF DeleteRow
<1>8. ASSUME NEW k \in Putters, PutUserReads(k) PROVE LockInv'
  <2> DEFINE new == IF row = NoRow THEN Put("create", NewRow) ELSE Put("locked", row)
  <2>1. /\ new \in [pc : {"none", "create", "locked"}, model : Row]
        /\ new.pc = "locked" => row # NoRow /\ new.model = row
    BY <1>a DEF Put, LockInv
  <2>2. put' = [put EXCEPT ![k] = new] /\ UNCHANGED <<row, latest>> /\ ~Locked
    BY <1>8 DEF PutUserReads
  <2> HIDE DEF new
  <2>3. PutType' /\ put'[k] = new /\ \A j \in Putters : j # k => put'[j] = put[j]
    BY <2>1, <2>2, <1>b DEF PutType
  <2> QED
    BY <2>1, <2>2, <2>3 DEF LockInv, NoLostUpdate, Locked
<1>9. ASSUME NEW k \in Putters, PutUserFails(k) PROVE LockInv'
  <2>1. Put("none", NewRow) \in [pc : {"none", "create", "locked"}, model : Row]
        /\ Put("none", NewRow).pc = "none"
    BY <1>a DEF Put
  <2>2. put' = [put EXCEPT ![k] = Put("none", NewRow)] /\ UNCHANGED <<row, latest>>
    BY <1>9 DEF PutUserFails
  <2>3. PutType' /\ put'[k].pc = "none" /\ \A j \in Putters : j # k => put'[j] = put[j]
    BY <2>1, <2>2, <1>b DEF PutType
  <2> QED
    BY <2>2, <2>3 DEF LockInv, NoLostUpdate
<1>10. ASSUME NEW k \in Putters, PutUserWrites(k) PROVE LockInv'
  <2> DEFINE model == [put[k].model EXCEPT !.administrator = ~@]
  <2>1. Put("none", NewRow) \in [pc : {"none", "create", "locked"}, model : Row]
        /\ Put("none", NewRow).pc = "none"
    BY <1>a DEF Put
  <2>2. put' = [put EXCEPT ![k] = Put("none", NewRow)] /\ row' = model
    BY <1>10 DEF PutUserWrites
  <2>3. PutType' /\ put'[k].pc = "none" /\ \A j \in Putters : j # k => put'[j] = put[j]
    BY <2>1, <2>2, <1>b DEF PutType
  <2>4. model \in Row
    BY <1>b DEF Row
  <2>5. latest' = model
    <3>1. CASE row = NoRow
      BY <3>1, <1>10 DEF PutUserWrites
    <3>2. CASE row # NoRow
      <4>1. put[k].pc = "locked" /\ put[k].model = row /\ row \in Row
        BY <3>2, <1>10 DEF PutUserWrites, LockInv
      <4>2. latest' = [latest EXCEPT !.administrator = model.administrator]
        BY <3>2, <1>10 DEF PutUserWrites
      <4> QED
        BY <4>1, <4>2, <1>b DEF Row
    <3> QED
      BY <3>1, <3>2
  <2>6. \A j \in Putters : put'[j].pc # "locked"
    BY <2>3, <1>10 DEF PutUserWrites, LockInv
  <2> QED
    BY <2>2, <2>3, <2>4, <2>5, <2>6 DEF LockInv, NoLostUpdate
<1>11. ClientStep \/ HandleRequest \/ EndConnection \/ UNCHANGED vars => UNCHANGED <<row, latest, put>>
  BY DEF ClientStep, TakeForGranted, ReceiveReply, SendRequest, HandleRequest, EndConnection, vars, database
<1>12. ASSUME NEW s \in Sessions, SessionStep(s) PROVE LockInv'
  <2>1. CASE \E saved \in Saved : Save(s, saved)
    BY <2>1, <1>4
  <2>2. CASE OpenSession(s) \/ ReadAll(s) \/ ReadFails(s) \/ SessionEnds(s)
             \/ (\E c \in Commands : RunService(s, c)) \/ \E ok \in BOOLEAN : ShellEnds(s, ok)
    <3>1. UNCHANGED <<row, latest, put>>
      BY <2>2 DEF OpenSession, ReadAll, ReadFails, SessionEnds, RunService, ShellEnds, database
    <3> QED
      BY <3>1, <1>1
  <2> QED
    BY <1>12, <2>1, <2>2 DEF SessionStep
<1> QED
  BY <1>1, <1>5, <1>6, <1>7, <1>8, <1>9, <1>10, <1>11, <1>12 DEF Next, PutStep

-------------------------------------------------------------------------------
\* A connection starts without sessions.
LEMMA InitSessionInv == Init => SessionInv
<1> SUFFICES ASSUME Init PROVE SessionInv
  OBVIOUS
<1>1. /\ \A s \in Sessions : session[s] = Run("none", "help", "no", FALSE)
      /\ \A s \in Sessions : told[s] = Told("none", "help", "no")
  BY DEF Init
<1>2. SessionType /\ ToldType
  BY DEF Init, SessionType, ToldType, Run, Told, SessionPcs, Commands, Saved
<1>3. Waits /\ ExitTells
  BY <1>1 DEF Waits, ExitTells, Run, Told
<1> QED
  BY <1>2, <1>3 DEF SessionInv

\* At the start nobody holds the lock of the row.
LEMMA InitLockInv == Init => LockInv
<1>1. NewRow \in Row
  BY DEF NewRow, Row
<1> QED
  BY <1>1 DEF Init, LockInv, PutType, NoLostUpdate, Put

\* runService and handleSession tell the truth with the exit status, whatever
\* the sessions of a connection and the other writers of the row do.
THEOREM ExitStatusTruthful == Spec => []ExitTells
<1>1. SessionInv => ExitTells
  BY DEF SessionInv
<1>2. SessionInv /\ [Next]_vars => SessionInv'
  BY NextSessionInv
<1> QED
  BY <1>1, <1>2, InitSessionInv, PTL DEF Spec

\* A session never sends a second exit status: the deferred function of
\* handleSession closes the channel.
THEOREM ExitStatusOnce == Spec => ExitOnce
<1> DEFINE Once == \A s \in Sessions : told[s].exit # "none" => told'[s] = told[s]
<1>1. SessionInv /\ [Next]_vars => SessionInv' /\ [Once]_vars
  BY NextSessionInv
<1> QED
  BY <1>1, InitSessionInv, PTL DEF Spec, ExitOnce

\* With the lock that PutUser takes no writer of the row reverts the column of
\* another, for any number of callers of PutUser and sessions that report.
THEOREM ColumnsSurvive == Spec => []NoLostUpdate
<1>1. LockInv => NoLostUpdate
  BY DEF LockInv
<1>2. LockInv /\ [Next]_vars => LockInv'
  BY NextLockInv
<1> QED
  BY <1>1, <1>2, InitLockInv, PTL DEF Spec

-------------------------------------------------------------------------------
\* The client's side of the connection.
ClientType ==
  /\ perm \in Perms /\ open \in BOOLEAN /\ skipped \in BOOLEAN
  /\ inputs \in 0 .. MaxInputs
  /\ inbox \in Seq(Requests) /\ awaiting \in Seq(Requests) /\ replies \in Seq(BOOLEAN)
  /\ services \subseteq Services

\* A request has the fields of a forwardRequest, and wants a reply or not.
LEMMA RequestFields ==
  ASSUME NEW r \in Requests
  PROVE  r.want \in BOOLEAN /\ r.service \in Services \union {PortZero}
  <1>1. ASSUME NEW t, NEW v \in Services \union {PortZero}, NEW w \in BOOLEAN,
               r = Request(t, v, w)
        PROVE  r.want \in BOOLEAN /\ r.service \in Services \union {PortZero}
    BY <1>1 DEF Request
  <1> DEFINE some == \E t, v, w : /\ v \in Services \union {PortZero} /\ w \in BOOLEAN
                                  /\ r = Request(t, v, w)
             A == {Request(t, v, w) : t \in {"tcpip-forward", "cancel-tcpip-forward"},
                                      v \in Services \union {PortZero}, w \in BOOLEAN}
             B == {Request("other", PortZero, TRUE), Request("malformed", PortZero, TRUE)}
  <1>2. Requests = A \union B
    BY DEF Requests
  <1>3. r \in A => some
    OBVIOUS
  <1>4. r \in B => some
    OBVIOUS
  <1>5. some
    <2> HIDE DEF A, B, some
    <2> QED BY <1>2, <1>3, <1>4
  <1> QED BY <1>1, <1>5

\* Only a service of the client's is registered: handleRequest stops at port 0.
LEMMA ClientTypeKept ==
  ASSUME ClientType, [Next]_vars
  PROVE  ClientType'
  <1> USE DEF ClientType
  <1>1. CASE UNCHANGED <<perm, open, client>> /\ inputs' \in 0 .. MaxInputs
    BY <1>1 DEF client
  <1>2. Input => inputs' \in 0 .. MaxInputs
    BY SessionAssumption DEF Input
  <1>3. ASSUME NEW r \in Requests, SendRequest(r) PROVE ClientType'
    <2>1. Append(inbox, r) \in Seq(Requests) /\ Append(awaiting, r) \in Seq(Requests)
      OBVIOUS
    <2> QED BY <1>2, <1>3, <2>1 DEF SendRequest
  <1>4. CASE ReceiveReply
    <2>1. Tail(awaiting) \in Seq(Requests) /\ Tail(replies) \in Seq(BOOLEAN)
      BY <1>4, HeadTailProperties DEF ReceiveReply
    <2> QED BY <1>4, <2>1 DEF ReceiveReply
  <1>10. CASE TakeForGranted
    <2>1. Tail(awaiting) \in Seq(Requests)
      BY <1>10, HeadTailProperties DEF TakeForGranted
    <2> QED BY <1>10, <2>1 DEF TakeForGranted
  <1>5. CASE HandleRequest
    <2> DEFINE r == Head(inbox)
    <2>1. r \in Requests /\ inbox' \in Seq(Requests)
      BY <1>5 DEF HandleRequest
    <2>2. r.want \in BOOLEAN /\ r.service \in Services \union {PortZero}
      BY <2>1, RequestFields
    <2>3. Registered(r) \subseteq Services
      BY <2>2 DEF Registered, Zero
    <2>4. Replied(r) \in Seq(BOOLEAN)
      <3>1. Append(replies, r.type # "other") \in Seq(BOOLEAN)
        BY AppendProperties
      <3> QED BY <3>1 DEF Replied
    <2>5. Fails(r) \in BOOLEAN /\ Zero(r) \in BOOLEAN
      BY DEF Fails, Zero
    <2> HIDE DEF r
    <2> QED BY <1>5, <2>1, <2>3, <2>4, <2>5 DEF HandleRequest, r
  <1>6. CASE EndConnection
    BY <1>6 DEF EndConnection, client
  <1>7. ASSUME NEW s \in Sessions, SessionStep(s)
        PROVE  UNCHANGED <<perm, open, client>> /\ inputs' \in 0 .. MaxInputs
    BY <1>2, <1>7 DEF SessionStep, OpenSession, ReadAll, ReadFails, SessionEnds, RunService,
                      ShellEnds, Save
  <1>8. MarkOnline \/ UpsertCreates \/ DeleteRow \/ (\E k \in Putters : PutStep(k))
        => UNCHANGED <<perm, open, client, inputs>>
    BY DEF MarkOnline, UpsertCreates, DeleteRow, PutStep, PutUserReads, PutUserFails,
           PutUserWrites
  <1>9. UNCHANGED vars => UNCHANGED <<perm, open, client, inputs>>
    BY DEF vars
  <1> QED BY <1>1, <1>3, <1>4, <1>5, <1>6, <1>7, <1>8, <1>9, <1>10 DEF Next, ClientStep

\* A connection, its sessions and the user's row always have values of their
\* types; in particular handleRequest never registers a service on port 0.
THEOREM TypeCorrect == Spec => []TypeOK
  <1>1. Init => ClientType
    <2>1. <<>> \in Seq(Requests) /\ <<>> \in Seq(BOOLEAN) /\ 0 \in 0 .. MaxInputs
      BY SessionAssumption
    <2> QED BY <2>1 DEF Init, ClientType
  <1>2. ClientType /\ [Next]_vars => ClientType'
    BY ClientTypeKept
  <1>3. SessionInv /\ [Next]_vars => SessionInv'
    BY NextSessionInv
  <1>4. LockInv /\ [Next]_vars => LockInv'
    BY NextLockInv
  <1>5. ClientType /\ SessionInv /\ LockInv => TypeOK
    BY DEF ClientType, SessionInv, SessionType, ToldType, LockInv, PutType, TypeOK
  <1> QED BY <1>1, <1>2, <1>3, <1>4, <1>5, InitSessionInv, InitLockInv, PTL DEF Spec

-------------------------------------------------------------------------------
(* The ledger: all requests sent so far, H[1] .. H[n].  The client has settled
   the first a of them, the handler has handled the first h; either may be
   ahead.  B[i] is what the first i requests leave registered, C[i] how many of
   them want a reply. *)
Ledger(n, H, B, C) ==
  /\ \A i \in 1 .. n : /\ B[i] = Granted(B[i - 1], H[i])
                       /\ C[i] = IF H[i].want THEN C[i - 1] + 1 ELSE C[i - 1]
  /\ \A i, j \in 0 .. n : i =< j => C[i] =< C[j]

\* q is what is left of the ledger after its first k requests.
Rest(q, n, H, k) == Len(q) = n - k /\ \A i \in 1 .. n - k : q[i] = H[k + i]

\* The replies on their way are those to the requests between a and h.
Due(H, C, a, h) ==
  /\ C[a] =< C[h]
  /\ Len(replies) = C[h] - C[a]
  /\ \A i \in a + 1 .. h : H[i].want => replies[C[i] - C[a]] = (H[i].type # "other")

Kept(n, H, B, C, a, h) ==
  /\ Ledger(n, H, B, C)
  /\ Rest(awaiting, n, H, a) /\ Rest(inbox, n, H, h)
  /\ believed = B[a] /\ services = B[h]
  /\ Due(H, C, a, h)

\* Whatever the order in which requests, replies and conclusions overtook each
\* other, there is one such ledger.
LedgerInv ==
  open /\ ~skipped =>
    \E n \in Nat : \E a, h \in 0 .. n :
      \E H \in [1 .. n -> Requests], B \in [0 .. n -> SUBSET (Services \union {PortZero})],
         C \in [0 .. n -> Nat] : Kept(n, H, B, C, a, h)

\* The head of a queue is the next request of the ledger; its tail is the rest.
LEMMA RestTail ==
  ASSUME NEW q \in Seq(Requests), q # <<>>, NEW n \in Nat, NEW k \in 0 .. n, NEW H,
         Rest(q, n, H, k)
  PROVE  k + 1 \in 1 .. n /\ Head(q) = H[k + 1] /\ Rest(Tail(q), n, H, k + 1)
  <1>1. Len(q) \in Nat /\ Len(q) # 0 /\ Head(q) = q[1]
    BY EmptySeq
  <1>2. Len(Tail(q)) = Len(q) - 1 /\ \A i \in 1 .. Len(Tail(q)) : Tail(q)[i] = q[i + 1]
    BY HeadTailProperties
  <1>3. Len(q) = n - k /\ \A i \in 1 .. n - k : q[i] = H[k + i]
    BY DEF Rest
  <1>4. k + 1 \in 1 .. n /\ Head(q) = H[k + 1]
    BY <1>1, <1>3
  <1>5. ASSUME NEW i \in 1 .. n - (k + 1) PROVE Tail(q)[i] = H[k + 1 + i]
    <2>1. Tail(q)[i] = q[i + 1] /\ i + 1 \in 1 .. n - k
      BY <1>2, <1>3
    <2>2. q[i + 1] = H[k + (i + 1)]
      BY <1>3, <2>1
    <2>3. k + (i + 1) = k + 1 + i
      OBVIOUS
    <2> QED BY <2>1, <2>2, <2>3
  <1> QED BY <1>2, <1>3, <1>4, <1>5 DEF Rest

\* A request that is sent is the last one of the ledger and of both queues.
LEMMA RestAppend ==
  ASSUME NEW q \in Seq(Requests), NEW r \in Requests, NEW n \in Nat, NEW k \in 0 .. n,
         NEW H, NEW G, Rest(q, n, H, k),
         \A i \in 1 .. n : G[i] = H[i],
         G[n + 1] = r
  PROVE  Rest(Append(q, r), n + 1, G, k)
  <1>1. /\ Len(Append(q, r)) = Len(q) + 1 /\ Len(q) \in Nat
        /\ \A i \in 1 .. Len(q) : Append(q, r)[i] = q[i]
        /\ Append(q, r)[Len(q) + 1] = r
    BY AppendProperties
  <1>2. Len(q) = n - k /\ \A i \in 1 .. n - k : q[i] = H[k + i]
    BY DEF Rest
  <1>3. ASSUME NEW i \in 1 .. n + 1 - k PROVE Append(q, r)[i] = G[k + i]
    <2>1. CASE i = n + 1 - k
      BY <1>1, <1>2, <2>1
    <2>2. CASE i # n + 1 - k
      <3>1. i \in 1 .. n - k /\ k + i \in 1 .. n
        BY <2>2
      <3> QED BY <1>1, <1>2, <3>1
    <2> QED BY <2>1, <2>2
  <1> QED BY <1>1, <1>2, <1>3 DEF Rest

\* SendRequest adds a request to the ledger.
LEMMA SendKeeps ==
  ASSUME ClientType, NEW n \in Nat, NEW a \in 0 .. n, NEW h \in 0 .. n,
         NEW H \in [1 .. n -> Requests],
         NEW B \in [0 .. n -> SUBSET (Services \union {PortZero})],
         NEW C \in [0 .. n -> Nat], Kept(n, H, B, C, a, h),
         NEW r \in Requests, SendRequest(r)
  PROVE  LedgerInv'
  <1> DEFINE G == [i \in 1 .. n + 1 |-> IF i = n + 1 THEN r ELSE H[i]]
             D == [i \in 0 .. n + 1 |-> IF i = n + 1 THEN Granted(B[n], r) ELSE B[i]]
             E == [i \in 0 .. n + 1 |-> IF i = n + 1 THEN (IF r.want THEN C[n] + 1 ELSE C[n])
                                                     ELSE C[i]]
  <1>1. G \in [1 .. n + 1 -> Requests] /\ G[n + 1] = r /\ \A i \in 1 .. n : G[i] = H[i]
    OBVIOUS
  <1>2. /\ D[n + 1] = Granted(B[n], r) /\ \A i \in 0 .. n : D[i] = B[i]
        /\ D \in [0 .. n + 1 -> SUBSET (Services \union {PortZero})]
    <2>1. Granted(B[n], r) \in SUBSET (Services \union {PortZero})
      BY RequestFields DEF Granted
    <2> QED BY <2>1
  <1>3. /\ E[n + 1] = (IF r.want THEN C[n] + 1 ELSE C[n]) /\ \A i \in 0 .. n : E[i] = C[i]
        /\ E \in [0 .. n + 1 -> Nat]
    OBVIOUS
  <1> HIDE DEF G, D, E
  <1>4. Ledger(n + 1, G, D, E)
    <2>1. ASSUME NEW i \in 1 .. n + 1
          PROVE  D[i] = Granted(D[i - 1], G[i]) /\ E[i] = IF G[i].want THEN E[i - 1] + 1 ELSE E[i - 1]
      <3>1. CASE i = n + 1
        <4>1. i - 1 = n /\ n \in 0 .. n
          BY <3>1
        <4> QED BY <1>1, <1>2, <1>3, <3>1, <4>1
      <3>2. CASE i # n + 1
        <4>1. i \in 1 .. n /\ i \in 0 .. n /\ i - 1 \in 0 .. n
          BY <3>2
        <4>2. B[i] = Granted(B[i - 1], H[i]) /\ C[i] = IF H[i].want THEN C[i - 1] + 1 ELSE C[i - 1]
          BY <4>1 DEF Kept, Ledger
        <4> QED BY <1>1, <1>2, <1>3, <4>1, <4>2
      <3> QED BY <3>1, <3>2
    <2>2. ASSUME NEW i \in 0 .. n + 1, NEW j \in 0 .. n + 1, i =< j PROVE E[i] =< E[j]
      <3>1. CASE j = n + 1
        <4>1. C[n] =< E[n + 1] /\ C[n] \in Nat /\ E[n + 1] \in Nat
          BY <1>3
        <4>2. i # n + 1 => C[i] =< C[n] /\ E[i] = C[i] /\ C[i] \in Nat
          <5>1. i # n + 1 => i \in 0 .. n /\ n \in 0 .. n /\ i =< n
            OBVIOUS
          <5> QED BY <1>3, <5>1 DEF Kept, Ledger
        <4> QED BY <3>1, <4>1, <4>2
      <3>2. CASE j # n + 1
        <4>1. i \in 0 .. n /\ j \in 0 .. n
          BY <2>2, <3>2
        <4> QED BY <1>3, <2>2, <4>1 DEF Kept, Ledger
      <3> QED BY <3>1, <3>2
    <2> QED BY <2>1, <2>2 DEF Ledger
  <1>5. Rest(awaiting', n + 1, G, a) /\ Rest(inbox', n + 1, G, h)
    BY <1>1, RestAppend DEF SendRequest, Kept, ClientType
  <1>6. believed' = D[a] /\ services' = D[h]
    BY <1>2 DEF SendRequest, Kept
  <1>7. Due(G, E, a, h)'
    <2>1. replies' = replies
      BY DEF SendRequest
    <2>2. E[a] = C[a] /\ E[h] = C[h]
      BY <1>3
    <2>3. \A i \in a + 1 .. h : G[i] = H[i] /\ E[i] = C[i]
      BY <1>1, <1>3
    <2> QED BY <2>1, <2>2, <2>3 DEF Kept, Due
  <1>8. n + 1 \in Nat /\ a \in 0 .. n + 1 /\ h \in 0 .. n + 1
    OBVIOUS
  <1>9. Kept(n + 1, G, D, E, a, h)'
    BY <1>4, <1>5, <1>6, <1>7 DEF Kept
  <1> QED BY <1>1, <1>2, <1>3, <1>8, <1>9 DEF LedgerInv

\* TakeForGranted settles the next request, to which no reply is due.
LEMMA TakeKeeps ==
  ASSUME ClientType, NEW n \in Nat, NEW a \in 0 .. n, NEW h \in 0 .. n,
         NEW H \in [1 .. n -> Requests],
         NEW B \in [0 .. n -> SUBSET (Services \union {PortZero})],
         NEW C \in [0 .. n -> Nat], Kept(n, H, B, C, a, h),
         TakeForGranted
  PROVE  LedgerInv'
  <1>1. a + 1 \in 1 .. n /\ Head(awaiting) = H[a + 1] /\ Rest(Tail(awaiting), n, H, a + 1)
    BY RestTail DEF TakeForGranted, Kept, ClientType
  <1>2. B[a + 1] = Granted(B[a], H[a + 1]) /\ C[a + 1] = C[a]
    <2>1. (a + 1) - 1 = a
      OBVIOUS
    <2> QED BY <1>1, <2>1 DEF TakeForGranted, Kept, Ledger
  <1>3. Due(H, C, a + 1, h)'
    <2>1. \A i \in a + 1 + 1 .. h : i \in a + 1 .. h
      OBVIOUS
    <2> QED BY <1>2, <2>1 DEF TakeForGranted, Kept, Due
  <1>4. believed' = B[a + 1] /\ services' = B[h] /\ Rest(awaiting', n, H, a + 1)
        /\ Rest(inbox', n, H, h)
    BY <1>1, <1>2 DEF TakeForGranted, Kept
  <1>5. Kept(n, H, B, C, a + 1, h)'
    BY <1>3, <1>4 DEF Kept
  <1>6. a + 1 \in 0 .. n
    BY <1>1
  <1> QED BY <1>5, <1>6 DEF LedgerInv

\* ReceiveReply settles the next request by the reply that is meant for it.
LEMMA ReceiveKeeps ==
  ASSUME ClientType, NEW n \in Nat, NEW a \in 0 .. n, NEW h \in 0 .. n,
         NEW H \in [1 .. n -> Requests],
         NEW B \in [0 .. n -> SUBSET (Services \union {PortZero})],
         NEW C \in [0 .. n -> Nat], Kept(n, H, B, C, a, h),
         ReceiveReply
  PROVE  LedgerInv'
  <1>1. a + 1 \in 1 .. n /\ Head(awaiting) = H[a + 1] /\ Rest(Tail(awaiting), n, H, a + 1)
    BY RestTail DEF ReceiveReply, Kept, ClientType
  <1>2. B[a + 1] = Granted(B[a], H[a + 1]) /\ C[a + 1] = C[a] + 1 /\ H[a + 1].want
    <2>1. (a + 1) - 1 = a
      OBVIOUS
    <2> QED BY <1>1, <2>1 DEF ReceiveReply, Kept, Ledger
  <1>3. /\ Len(replies) \in Nat /\ Len(replies) # 0 /\ Head(replies) = replies[1]
        /\ Len(replies') = Len(replies) - 1
        /\ \A i \in 1 .. Len(replies) - 1 : replies'[i] = replies[i + 1]
    <2>1. replies \in Seq(BOOLEAN) /\ replies # <<>> /\ replies' = Tail(replies)
      BY DEF ReceiveReply, ClientType
    <2>2. Len(replies) \in Nat /\ Len(replies) # 0 /\ Head(replies) = replies[1]
      BY <2>1, EmptySeq
    <2>3. /\ Len(Tail(replies)) = Len(replies) - 1
          /\ \A i \in 1 .. Len(Tail(replies)) : Tail(replies)[i] = replies[i + 1]
      BY <2>1, HeadTailProperties
    <2> QED BY <2>1, <2>2, <2>3
  <1>4. /\ Len(replies) = C[h] - C[a]
        /\ \A i \in a + 1 .. h : H[i].want => replies[C[i] - C[a]] = (H[i].type # "other")
    BY DEF Kept, Due
  <1>5. C[a] \in Nat /\ C[h] \in Nat /\ C[a + 1] \in Nat /\ a + 1 \in 0 .. n
    BY <1>1
  <1>6. a + 1 =< h
    <2>1. h =< a => C[h] =< C[a]
      BY DEF Kept, Ledger
    <2> QED BY <1>3, <1>4, <1>5, <2>1
  <1>7. Head(replies) = (H[a + 1].type # "other")
    <2>1. a + 1 \in a + 1 .. h /\ C[a + 1] - C[a] = 1
      BY <1>2, <1>5, <1>6
    <2> QED BY <1>2, <1>3, <1>4, <2>1
  <1>8. believed' = B[a + 1]
    <2>1. H[a + 1].type = "other" => Granted(B[a], H[a + 1]) = B[a]
      BY DEF Granted
    <2> QED BY <1>1, <1>2, <1>7, <2>1 DEF ReceiveReply, Kept
  <1>9. Due(H, C, a + 1, h)'
    <2>1. C[a + 1] =< C[h]
      BY <1>5, <1>6 DEF Kept, Ledger
    <2>2. Len(replies') = C[h] - C[a + 1]
      BY <1>2, <1>3, <1>4, <1>5
    <2>3. ASSUME NEW i \in a + 1 + 1 .. h, H[i].want
          PROVE  replies'[C[i] - C[a + 1]] = (H[i].type # "other")
      <3>1. i \in a + 1 .. h /\ i \in 1 .. n /\ i \in 0 .. n /\ i - 1 \in 0 .. n /\ a + 1 =< i - 1
            /\ i =< h
        BY <1>5
      <3>2. C[i] = C[i - 1] + 1 /\ C[a + 1] =< C[i - 1] /\ C[i] =< C[h]
        BY <1>5, <2>3, <3>1 DEF Kept, Ledger
      <3>3. C[i] \in Nat /\ C[i - 1] \in Nat
        BY <3>1
      <3>4. C[i] - C[a + 1] \in 1 .. Len(replies) - 1 /\ (C[i] - C[a + 1]) + 1 = C[i] - C[a]
        <4> DEFINE x == C[i]
                   y == C[i - 1]
                   u == C[a + 1]
                   v == C[a]
                   w == C[h]
                   l == Len(replies)
        <4>1. /\ x \in Nat /\ y \in Nat /\ u \in Nat /\ v \in Nat /\ w \in Nat
              /\ u = v + 1 /\ x = y + 1 /\ u =< y /\ x =< w /\ l = w - v
          BY <1>2, <1>4, <1>5, <3>2, <3>3
        <4>2. x - u \in 1 .. l - 1 /\ (x - u) + 1 = x - v
          <5> HIDE DEF x, y, u, v, w, l
          <5> QED BY <4>1
        <4> QED BY <4>2
      <3>5. replies'[C[i] - C[a + 1]] = replies[C[i] - C[a]]
        BY <1>3, <3>4
      <3> QED BY <1>4, <2>3, <3>1, <3>5
    <2> QED BY <2>1, <2>2, <2>3 DEF Due
  <1>10. services' = B[h] /\ Rest(awaiting', n, H, a + 1) /\ Rest(inbox', n, H, h)
    BY <1>1 DEF ReceiveReply, Kept
  <1>11. Kept(n, H, B, C, a + 1, h)'
    BY <1>8, <1>9, <1>10 DEF Kept
  <1> QED BY <1>5, <1>11 DEF LedgerInv

\* handleRequest registers what the client will believe, and replies in turn.
LEMMA HandleKeeps ==
  ASSUME ClientType, NEW n \in Nat, NEW a \in 0 .. n, NEW h \in 0 .. n,
         NEW H \in [1 .. n -> Requests],
         NEW B \in [0 .. n -> SUBSET (Services \union {PortZero})],
         NEW C \in [0 .. n -> Nat], Kept(n, H, B, C, a, h),
         HandleRequest, open', ~skipped'
  PROVE  LedgerInv'
  <1> DEFINE r == Head(inbox)
  <1>1. h + 1 \in 1 .. n /\ r = H[h + 1] /\ Rest(Tail(inbox), n, H, h + 1)
    BY RestTail DEF HandleRequest, Kept, ClientType
  <1>2. /\ ~Fails(r) /\ ~Zero(r) /\ services' = Registered(r) /\ replies' = Replied(r)
        /\ inbox' = Tail(inbox) /\ awaiting' = awaiting /\ believed' = believed
    BY DEF HandleRequest
  <1> HIDE DEF r
  <1>3. h + 1 \in 0 .. n /\ C[h] \in Nat /\ C[a] \in Nat /\ C[h + 1] \in Nat
    BY <1>1
  <1>4. /\ B[h + 1] = Granted(B[h], r)
        /\ C[h + 1] = IF r.want THEN C[h] + 1 ELSE C[h]
    <2>1. (h + 1) - 1 = h
      OBVIOUS
    <2> QED BY <1>1, <2>1 DEF Kept, Ledger
  <1>5. services' = B[h + 1]
    <2>1. Registered(r) = Granted(services, r)
      BY <1>2 DEF Registered, Granted
    <2> QED BY <1>2, <1>4, <2>1 DEF Kept
  <1>6. /\ C[a] =< C[h] /\ Len(replies) = C[h] - C[a]
        /\ \A i \in a + 1 .. h : H[i].want => replies[C[i] - C[a]] = (H[i].type # "other")
    BY DEF Kept, Due
  <1>7. Due(H, C, a, h + 1)'
    <2>1. CASE ~r.want
      <3>1. replies' = replies /\ C[h + 1] = C[h]
        BY <1>2, <1>4, <2>1 DEF Replied
      <3>2. \A i \in a + 1 .. h + 1 : H[i].want => i \in a + 1 .. h
        BY <1>1, <2>1
      <3> QED BY <1>6, <3>1, <3>2 DEF Due
    <2>2. CASE r.want
      <3>1. replies' = Append(replies, r.type # "other") /\ C[h + 1] = C[h] + 1
        BY <1>2, <1>4, <2>2 DEF Replied
      <3>2. /\ Len(replies') = Len(replies) + 1
            /\ \A i \in 1 .. Len(replies) : replies'[i] = replies[i]
            /\ replies'[Len(replies) + 1] = (r.type # "other")
        <4>1. replies \in Seq(BOOLEAN) /\ (r.type # "other") \in BOOLEAN
          BY DEF ClientType
        <4> DEFINE e == r.type # "other"
        <4> HIDE DEF e
        <4>2. e \in BOOLEAN /\ replies' = Append(replies, e)
          BY <3>1, <4>1 DEF e
        <4>3. /\ Len(replies') = Len(replies) + 1
              /\ \A i \in 1 .. Len(replies) : replies'[i] = replies[i]
              /\ replies'[Len(replies) + 1] = e
          BY <4>1, <4>2, AppendProperties
        <4> QED BY <4>3 DEF e
      <3>3. C[a] =< C[h + 1] /\ Len(replies') = C[h + 1] - C[a]
        <4> DEFINE u == C[a]
                   v == C[h]
                   w == C[h + 1]
                   l == Len(replies)
        <4>1. u \in Nat /\ v \in Nat /\ w = v + 1 /\ u =< v /\ l = v - u
          BY <1>3, <1>6, <3>1
        <4>2. u =< w /\ l + 1 = w - u
          <5> HIDE DEF u, v, w, l
          <5> QED BY <4>1
        <4> QED BY <3>2, <4>2
      <3>4. ASSUME NEW i \in a + 1 .. h + 1, H[i].want
            PROVE  replies'[C[i] - C[a]] = (H[i].type # "other")
        <4>1. CASE i = h + 1
          <5>1. C[i] - C[a] = Len(replies) + 1
            BY <1>3, <1>6, <3>1, <4>1
          <5> QED BY <1>1, <3>2, <4>1, <5>1
        <4>2. CASE i # h + 1
          <5>1. i \in a + 1 .. h /\ i \in 1 .. n /\ i \in 0 .. n /\ i - 1 \in 0 .. n /\ a =< i - 1
                /\ i =< h
            BY <4>2
          <5>2. C[i] = C[i - 1] + 1 /\ C[a] =< C[i - 1] /\ C[i] =< C[h]
            BY <3>4, <5>1 DEF Kept, Ledger
          <5>3. C[i] \in Nat /\ C[i - 1] \in Nat
            BY <5>1
          <5>4. C[i] - C[a] \in 1 .. Len(replies)
            <6> DEFINE x == C[i]
                       y == C[i - 1]
                       v == C[a]
                       w == C[h]
                       l == Len(replies)
            <6>1. /\ x \in Nat /\ y \in Nat /\ v \in Nat /\ w \in Nat
                  /\ x = y + 1 /\ v =< y /\ x =< w /\ l = w - v
              BY <1>3, <1>6, <5>2, <5>3
            <6>2. x - v \in 1 .. l
              <7> HIDE DEF x, y, v, w, l
              <7> QED BY <6>1
            <6> QED BY <6>2
          <5> QED BY <1>6, <3>2, <3>4, <5>1, <5>4
        <4> QED BY <4>1, <4>2
      <3> QED BY <3>3, <3>4 DEF Due
    <2> QED BY <2>1, <2>2
  <1>8. believed' = B[a] /\ Rest(awaiting', n, H, a) /\ Rest(inbox', n, H, h + 1)
    BY <1>1, <1>2 DEF Kept
  <1>9. Kept(n, H, B, C, a, h + 1)'
    BY <1>5, <1>7, <1>8 DEF Kept
  <1> QED BY <1>3, <1>9 DEF LedgerInv, Kept

\* Every step keeps a ledger.
LEMMA LedgerKept ==
  ASSUME ClientType, LedgerInv, [Next]_vars
  PROVE  LedgerInv'
  <1> SUFFICES ASSUME open', ~skipped' PROVE LedgerInv'
    BY DEF LedgerInv
  <1>1. CASE UNCHANGED <<open, client>>
    <2>1. open /\ ~skipped
      BY <1>1 DEF client
    <2>2. PICK n \in Nat : \E a, h \in 0 .. n :
            \E H \in [1 .. n -> Requests], B \in [0 .. n -> SUBSET (Services \union {PortZero})],
               C \in [0 .. n -> Nat] : Kept(n, H, B, C, a, h)
      BY <2>1 DEF LedgerInv
    <2>3. PICK a, h \in 0 .. n :
            \E H \in [1 .. n -> Requests], B \in [0 .. n -> SUBSET (Services \union {PortZero})],
               C \in [0 .. n -> Nat] : Kept(n, H, B, C, a, h)
      BY <2>2
    <2>4. PICK H \in [1 .. n -> Requests], B \in [0 .. n -> SUBSET (Services \union {PortZero})],
               C \in [0 .. n -> Nat] : Kept(n, H, B, C, a, h)
      BY <2>3
    <2>5. Kept(n, H, B, C, a, h)'
      BY <1>1, <2>4 DEF Kept, Due, client
    <2> QED BY <2>5 DEF LedgerInv
  <1>2. CASE ClientStep \/ HandleRequest
    <2>1. open /\ ~skipped
      <3>1. TakeForGranted => UNCHANGED <<open, skipped>>
        BY DEF TakeForGranted
      <3>2. ReceiveReply => UNCHANGED <<open, skipped>>
        BY DEF ReceiveReply
      <3>3. \A r \in Requests : SendRequest(r) => UNCHANGED <<open, skipped>>
        BY DEF SendRequest
      <3>4. HandleRequest => open /\ ~skipped
        BY Zenon DEF HandleRequest
      <3>5. CASE ClientStep
        <4>1. UNCHANGED <<open, skipped>>
          BY <3>1, <3>2, <3>3, <3>5 DEF ClientStep
        <4> QED BY <4>1
      <3> QED BY <1>2, <3>4, <3>5
    <2>2. PICK n \in Nat : \E a, h \in 0 .. n :
            \E H \in [1 .. n -> Requests], B \in [0 .. n -> SUBSET (Services \union {PortZero})],
               C \in [0 .. n -> Nat] : Kept(n, H, B, C, a, h)
      BY <2>1 DEF LedgerInv
    <2>3. PICK a, h \in 0 .. n :
            \E H \in [1 .. n -> Requests], B \in [0 .. n -> SUBSET (Services \union {PortZero})],
               C \in [0 .. n -> Nat] : Kept(n, H, B, C, a, h)
      BY <2>2
    <2>4. PICK H \in [1 .. n -> Requests], B \in [0 .. n -> SUBSET (Services \union {PortZero})],
               C \in [0 .. n -> Nat] : Kept(n, H, B, C, a, h)
      BY <2>3
    <2>5. ASSUME NEW r \in Requests, SendRequest(r) PROVE LedgerInv'
      BY <2>4, <2>5, SendKeeps
    <2>6. CASE TakeForGranted
      BY <2>4, <2>6, TakeKeeps
    <2>7. CASE ReceiveReply
      BY <2>4, <2>7, ReceiveKeeps
    <2>8. CASE HandleRequest
      BY <2>4, <2>8, HandleKeeps
    <2> QED BY <1>2, <2>5, <2>6, <2>7, <2>8 DEF ClientStep
  <1>4. ~EndConnection
    BY DEF EndConnection
  <1>5. ASSUME NEW s \in Sessions, SessionStep(s) PROVE UNCHANGED <<open, client>>
    BY <1>5 DEF SessionStep, OpenSession, ReadAll, ReadFails, SessionEnds, RunService,
                ShellEnds, Save
  <1>6. MarkOnline \/ UpsertCreates \/ DeleteRow \/ (\E k \in Putters : PutStep(k))
        => UNCHANGED <<open, client>>
    BY DEF MarkOnline, UpsertCreates, DeleteRow, PutStep, PutUserReads, PutUserFails,
           PutUserWrites
  <1>7. UNCHANGED vars => UNCHANGED <<open, client>>
    BY DEF vars
  <1> QED BY <1>1, <1>2, <1>4, <1>5, <1>6, <1>7 DEF Next

\* A client that has settled all it asked for, in whatever order requests,
\* replies and its conclusions overtook each other, believes registered what
\* handleRequest has registered, unless it asked for port 0.
THEOREM ClientKnows == Spec => []BelievesServices
  <1>1. Init => ClientType /\ LedgerInv
    <2>1. Init => ClientType
      <3>1. <<>> \in Seq(Requests) /\ <<>> \in Seq(BOOLEAN) /\ 0 \in 0 .. MaxInputs
        BY SessionAssumption
      <3> QED BY <3>1 DEF Init, ClientType
    <2>2. ASSUME Init PROVE LedgerInv
      <3> DEFINE H == [i \in 1 .. 0 |-> Request("other", PortZero, TRUE)]
                 B == [i \in 0 .. 0 |-> {}]
                 C == [i \in 0 .. 0 |-> 0]
      <3>1. H \in [1 .. 0 -> Requests]
        BY DEF Requests
      <3>2. B \in [0 .. 0 -> SUBSET (Services \union {PortZero})] /\ B[0] = {}
        OBVIOUS
      <3>3. C \in [0 .. 0 -> Nat] /\ C[0] = 0 /\ \A i, j \in 0 .. 0 : C[i] =< C[j]
        OBVIOUS
      <3>4. awaiting = <<>> /\ inbox = <<>> /\ replies = <<>> /\ believed = {} /\ services = {}
        BY <2>2 DEF Init
      <3> HIDE DEF H, B, C
      <3>5. Kept(0, H, B, C, 0, 0)
        BY <3>2, <3>3, <3>4 DEF Kept, Ledger, Rest, Due
      <3> QED BY <3>1, <3>2, <3>3, <3>5 DEF LedgerInv
    <2> QED BY <2>1, <2>2
  <1>2. ClientType /\ [Next]_vars => ClientType'
    BY ClientTypeKept
  <1>3. ClientType /\ LedgerInv /\ [Next]_vars => LedgerInv'
    BY LedgerKept
  <1>4. ClientType /\ LedgerInv => BelievesServices
    <2> SUFFICES ASSUME ClientType, LedgerInv, open, ~skipped, inbox = <<>>, awaiting = <<>>
                 PROVE  replies = <<>> /\ believed = services
      BY DEF BelievesServices
    <2>1. PICK n \in Nat : \E a, h \in 0 .. n :
            \E H \in [1 .. n -> Requests], B \in [0 .. n -> SUBSET (Services \union {PortZero})],
               C \in [0 .. n -> Nat] : Kept(n, H, B, C, a, h)
      BY DEF LedgerInv
    <2>2. PICK a, h \in 0 .. n :
            \E H \in [1 .. n -> Requests], B \in [0 .. n -> SUBSET (Services \union {PortZero})],
               C \in [0 .. n -> Nat] : Kept(n, H, B, C, a, h)
      BY <2>1
    <2>3. PICK H \in [1 .. n -> Requests], B \in [0 .. n -> SUBSET (Services \union {PortZero})],
               C \in [0 .. n -> Nat] : Kept(n, H, B, C, a, h)
      BY <2>2
    <2>4. a = n /\ h = n
      <3>1. Len(inbox) = 0 /\ Len(awaiting) = 0
        OBVIOUS
      <3> QED BY <2>3, <3>1 DEF Kept, Rest
    <2>5. believed = services /\ Len(replies) = 0
      BY <2>3, <2>4 DEF Kept, Due
    <2> QED BY <2>5, EmptySeq DEF ClientType
  <1> QED BY <1>1, <1>2, <1>3, <1>4, PTL DEF Spec
===============================================================================

----------------------------- MODULE VenueSocket -----------------------------
(***************************************************************************)
(* The websocket client of the perpetual venues, Lighter and Arcus         *)
(* (go/venues/lighter/websocket/client.go and its copy for Arcus).         *)
(*                                                                         *)
(* Connect, Send, Recv and Close are called from several goroutines.  c.mu *)
(* guards the current session and is held by Connect while it dials and by *)
(* Close while it waits for the keepalive; c.readMu lets one Recv in.  A   *)
(* session is stopped once, by whoever fails first or by Close; whoever    *)
(* stops it meanwhile waits until the connection is closed.                *)
(***************************************************************************)
EXTENDS Integers, FiniteSets

CONSTANTS
    Callers,        \* goroutines that use the client
    Nobody,         \* holder of a free mutex
    MaxSessions,    \* bound: sessions that Connect opens
    Oversized       \* does the connection deliver messages above MaxMessageBytes?

ASSUME SocketAssumption ==
    /\ IsFiniteSet(Callers) /\ Nobody \notin Callers
    /\ MaxSessions \in Nat /\ Oversized \in BOOLEAN

VARIABLES
    mu, readMu,     \* who holds the mutexes of Client
    session,        \* Client.session, 0 for null
    sess,           \* the sessions, with the keepalive goroutine of each
    call            \* the call each goroutine makes

socketVars == <<mu, readMu, session, sess, call>>

Sessions == 1..MaxSessions

\* Errors by where they come from: a caller's own operation, the keepalive's ping, the
\* closing of the connection; "session" stands for the errors of active and Connect.
Errors == Callers \cup {"ping", "close", "session"}

\* once: has stop not been called, does its body run, has it run?  errors: cause and
\* closeErr, as failure() joins them.
Unopened == [open |-> FALSE, done |-> FALSE, once |-> "new", errors |-> {}, keeper |-> "off"]

\* failed: how the call's own operation failed, "long" by a message that is too long.
\* A returned call keeps this, and whether it returned that error, until the next one.
NoCall == [op |-> "none", pc |-> "none", s |-> 0, failed |-> "no", told |-> FALSE]

SocketTypeOK ==
    /\ mu \in Callers \cup {Nobody} /\ readMu \in Callers \cup {Nobody}
    /\ \A p \in Callers : /\ mu = p => call[p].op \in {"connect", "close"}
                          /\ readMu = p => call[p].op \in {"recv", "send"}
    /\ session \in 0..MaxSessions
    /\ sess \in [Sessions -> [open : BOOLEAN, done : BOOLEAN, once : {"new", "running", "run"},
                              errors : SUBSET Errors,
                              keeper : {"off", "on", "stop", "closing", "finished"}]]
    /\ call \in [Callers -> [op : {"none", "connect", "send", "recv", "close"},
                             pc : {"none", "queue", "lock", "dial", "check", "io", "stop",
                                   "closing", "after", "wait"},
                             s : 0..MaxSessions, failed : {"no", "io", "long"},
                             told : BOOLEAN]]

SocketInit ==
    /\ mu = Nobody /\ readMu = Nobody
    /\ session = 0
    /\ sess = [s \in Sessions |-> Unopened]
    /\ call = [p \in Callers |-> NoCall]

Goto(p, pc) == call' = [call EXCEPT ![p].pc = pc]

\* Mutant: readMu stays locked.
ReturnLocked(p, errors) ==
    /\ call' = [call EXCEPT ![p] = [NoCall EXCEPT !.failed = call[p].failed, !.told = p \in errors]]
    /\ UNCHANGED readMu

\* The call returns; the deferred Unlock of readMu.
Return(p, errors) ==
    /\ call' = [call EXCEPT ![p] = [NoCall EXCEPT !.failed = call[p].failed, !.told = p \in errors]]
    /\ readMu' = IF readMu = p THEN Nobody ELSE readMu

Begin(p) ==
    /\ call[p].op = "none"
    /\ \E op \in {"connect", "send", "recv", "close"} :
          call' = [call EXCEPT ![p] = [NoCall EXCEPT !.op = op,
                                         !.pc = IF op = "recv" THEN "queue" ELSE "lock"]]
    /\ UNCHANGED <<mu, readMu, session, sess>>

LockRead(p) ==
    /\ call[p].pc = "queue" /\ readMu = Nobody
    /\ readMu' = p
    /\ Goto(p, "lock")
    /\ UNCHANGED <<mu, session, sess>>

\* c.mu.Lock and what follows it: Connect and Close keep the mutex, active reads the
\* session and gives it back.
Lock(p) ==
    /\ call[p].pc = "lock" /\ mu = Nobody
    /\ LET refused == (call[p].op = "connect") = (session # 0) IN
       IF refused
       THEN Return(p, IF call[p].op = "close" THEN {} ELSE {"session"}) /\ UNCHANGED mu
       ELSE /\ call' = [call EXCEPT ![p].s = session,
                                    ![p].pc = CASE call[p].op = "connect" -> "dial"
                                                [] call[p].op = "close" -> "stop"
                                                [] OTHER -> "check"]
            /\ mu' = IF call[p].op \in {"connect", "close"} THEN p ELSE mu
            /\ UNCHANGED readMu
    /\ UNCHANGED <<session, sess>>

\* Dialing is bounded by ConnectTimeout; a new session starts its keepalive.
Dial(p) ==
    /\ call[p].pc = "dial"
    /\ mu' = Nobody
    /\ \/ Return(p, {"session"}) /\ UNCHANGED <<session, sess>>
       \/ \E s \in Sessions :
             /\ sess[s] = Unopened /\ \A r \in 1..(s - 1) : sess[r] # Unopened
             /\ session' = s
             /\ sess' = [sess EXCEPT ![s].open = TRUE, ![s].keeper = "on"]
             /\ Return(p, {})

\* active: the rest, without the mutex.
Check(p) ==
    /\ call[p].pc = "check"
    /\ IF sess[call[p].s].done
       THEN Return(p, sess[call[p].s].errors \cup {"session"})
       ELSE Goto(p, "io") /\ UNCHANGED readMu
    /\ UNCHANGED <<mu, session, sess>>

\* conn.Read and conn.Write return.  A ping of the venue (Lighter) is answered by Send, on
\* the session that is current by then and still under readMu.
Answered(p) ==
    /\ call[p].pc = "io" /\ sess[call[p].s].open
    /\ \/ Return(p, {})
       \/ /\ call[p].op = "recv"
          /\ call' = [call EXCEPT ![p].op = "send", ![p].pc = "lock"]
          /\ UNCHANGED readMu
       \/ /\ call[p].op = "recv" /\ Oversized
          /\ call' = [call EXCEPT ![p].pc = "stop", ![p].failed = "long"]
          /\ UNCHANGED readMu
    /\ UNCHANGED <<mu, session, sess>>

\* They fail: the connection is closed, the peer is gone, the context ends.
Failed(p) ==
    /\ call[p].pc = "io"
    /\ call' = [call EXCEPT ![p].pc = "stop", ![p].failed = "io"]
    /\ UNCHANGED <<mu, readMu, session, sess>>

\* session.stop: the cause and done; Close has no cause.
StopBegin(s, cause) ==
    sess' = [sess EXCEPT ![s].once = "running", ![s].done = TRUE, ![s].errors = cause]

\* session.stop: conn.Close, which may fail.
StopEnd(s) ==
    \E closeErr \in {{}, {"close"}} :
       sess' = [sess EXCEPT ![s].once = "run", ![s].open = FALSE, ![s].errors = @ \cup closeErr]

Stop(p) ==
    /\ call[p].pc = "stop"
    /\ LET s == call[p].s IN
       \/ /\ sess[s].once = "new"
          /\ StopBegin(s, IF call[p].op = "close" THEN {} ELSE {p})
          /\ Goto(p, "closing")
       \/ sess[s].once = "run" /\ Goto(p, "after") /\ UNCHANGED sess
    /\ UNCHANGED <<mu, readMu, session>>

CloseConn(p) ==
    /\ call[p].pc = "closing"
    /\ StopEnd(call[p].s)
    /\ Goto(p, "after")
    /\ UNCHANGED <<mu, readMu, session>>

\* Mutant: the error of the call is left to the session's first cause.
AfterFirst(p) ==
    /\ call[p].pc = "after"
    /\ IF call[p].op = "close"
       THEN Goto(p, "wait") /\ UNCHANGED readMu
       ELSE Return(p, sess[call[p].s].errors)
    /\ UNCHANGED <<mu, session, sess>>

\* What follows stop: fail joins the call's own error, the too long message does not.
After(p) ==
    /\ call[p].pc = "after"
    /\ IF call[p].op = "close"
       THEN Goto(p, "wait") /\ UNCHANGED readMu
       ELSE Return(p, sess[call[p].s].errors \cup (IF call[p].failed = "long" THEN {} ELSE {p}))
    /\ UNCHANGED <<mu, session, sess>>

\* Mutant: Close does not wait for the keepalive.
FinishedAtOnce(p) ==
    /\ call[p].pc = "wait"
    /\ session' = 0 /\ mu' = Nobody
    /\ Return(p, sess[call[p].s].errors)
    /\ UNCHANGED sess

\* Close: <-s.finished.
Finished(p) ==
    /\ call[p].pc = "wait" /\ sess[call[p].s].keeper = "finished"
    /\ session' = 0 /\ mu' = Nobody
    /\ Return(p, sess[call[p].s].errors)
    /\ UNCHANGED sess

\* Mutant: a keepalive whose ping failed leaves without closing finished.
KeeperSilent(s) ==
    /\ \/ /\ sess[s].keeper = "on"
          /\ \/ sess[s].done /\ sess' = [sess EXCEPT ![s].keeper = "finished"]
             \/ sess' = [sess EXCEPT ![s].keeper = "stop"]
       \/ /\ sess[s].keeper = "stop" /\ sess[s].once = "new"
          /\ sess' = [sess EXCEPT ![s].once = "run", ![s].done = TRUE, ![s].open = FALSE,
                                  ![s].errors = {"ping"}, ![s].keeper = "off"]
    /\ UNCHANGED <<mu, readMu, session, call>>

\* keepalive: it leaves when the session is stopped, or stops it when a ping fails.
Keeper(s) ==
    /\ \/ /\ sess[s].keeper = "on"
          /\ \/ sess[s].done /\ sess' = [sess EXCEPT ![s].keeper = "finished"]
             \/ sess' = [sess EXCEPT ![s].keeper = "stop"]
       \/ /\ sess[s].keeper = "stop"
          /\ \/ sess[s].once = "run" /\ sess' = [sess EXCEPT ![s].keeper = "finished"]
             \/ /\ sess[s].once = "new"
                /\ sess' = [sess EXCEPT ![s].once = "running", ![s].done = TRUE,
                                        ![s].errors = {"ping"}, ![s].keeper = "closing"]
       \/ /\ sess[s].keeper = "closing"
          /\ \E closeErr \in {{}, {"close"}} :
                sess' = [sess EXCEPT ![s].once = "run", ![s].open = FALSE,
                                     ![s].errors = @ \cup closeErr, ![s].keeper = "finished"]
    /\ UNCHANGED <<mu, readMu, session, call>>

CallStep(p) ==
    \/ Begin(p) \/ LockRead(p) \/ Lock(p) \/ Dial(p) \/ Check(p) \/ Answered(p) \/ Failed(p)
    \/ Stop(p) \/ CloseConn(p) \/ After(p) \/ Finished(p)

SocketNext == (\E p \in Callers : CallStep(p)) \/ (\E s \in Sessions : Keeper(s))

\* Mutexes are granted in turn; dialing and writing are bounded by their timeouts, reading
\* ends when the connection is closed; a stopped keepalive sees it.
SocketFair ==
    /\ \A p \in Callers :
          /\ SF_socketVars(LockRead(p) \/ Lock(p))
          /\ WF_socketVars(Dial(p) \/ Check(p) \/ Stop(p) \/ CloseConn(p) \/ After(p) \/ Finished(p))
          /\ WF_socketVars(Failed(p) /\ (call[p].op = "recv" => ~sess[call[p].s].open))
    /\ \A s \in Sessions : WF_socketVars(Keeper(s) /\ (sess[s].done \/ sess[s].keeper # "on"))

SocketSpec == SocketInit /\ [][SocketNext]_socketVars /\ SocketFair

-----------------------------------------------------------------------------
(* Properties. *)

\* When Close has returned nothing of its session is left: whatever still runs, an open
\* connection or a keepalive, belongs to the current session, so a failure of an
\* earlier one cannot reach the next.
OneConnection ==
    \A s \in Sessions : sess[s].open \/ sess[s].keeper \notin {"off", "finished"} => s = session

\* A call whose read or write failed returns its own error, whatever stopped the session
\* first ("Concurrent failures must not hide the current operation's inspectable
\* error", client.go).  A Recv whose message is too long does not: it asks for the
\* session's failure only (see After).
OwnErrorKept == \A p \in Callers : call[p].op = "none" /\ call[p].failed = "io" => call[p].told

\* Close returns although calls and the keepalive fail the same session meanwhile, and
\* a stopped session holds nobody back: a Recv that is blocked in it returns.
StopReleases ==
    \A p \in Callers :
       call[p].op = "close" \/ (call[p].pc = "io" /\ sess[call[p].s].done) ~> call[p].op = "none"
=============================================================================

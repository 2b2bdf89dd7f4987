---------------------------- MODULE PartsProofs ----------------------------
(***************************************************************************)
(* The parts that share nothing: what Close leaves behind and what a       *)
(* failed call returns in the venues' websockets, for every number of      *)
(* callers and sessions; that Read of the tick batches returns all of them *)
(* or none, for every number of batches and workers; and the types of all  *)
(* three parts.                                                            *)
(***************************************************************************)
EXTENDS MCParts, FiniteSetTheorems, FunctionTheorems, SequenceTheorems, TLAPS

-----------------------------------------------------------------------------
\* The venues' websockets

Stopping == {"stop", "closing", "after", "wait"}

\* What makes OneConnection inductive: Connect and Close hold c.mu while they look at the
\* session, so it does not change under them, and a call is past stop only when the
\* connection of its session is closed.
SessionLocked ==
    /\ \A p \in Callers :
          /\ call[p].op = "none" => call[p].pc = "none"
          /\ call[p].pc = "queue" => call[p].op = "recv"
          /\ call[p].pc = "dial" => call[p].op = "connect" /\ mu = p /\ session = 0
          /\ call[p].pc \in {"check", "io"} => call[p].op \in {"send", "recv"}
          /\ call[p].pc \in Stopping => call[p].op \in {"send", "recv", "close"}
          /\ call[p].pc = "wait" => call[p].op = "close"
          /\ call[p].pc \in {"check", "io"} \cup Stopping => call[p].s \in Sessions
          /\ call[p].op = "close" /\ call[p].pc \in Stopping => mu = p /\ call[p].s = session
          /\ call[p].pc \in {"after", "wait"} => sess[call[p].s].once = "run"
    /\ \A s \in Sessions : sess[s].once = "run" => ~sess[s].open

\* What makes OwnErrorKept inductive: an error of the call's own is on its way to stop.
ErrorOnItsWay ==
    \A p \in Callers :
       call[p].failed = "io" /\ call[p].op # "none" =>
          call[p].op \in {"send", "recv"} /\ call[p].pc \in {"stop", "closing", "after"}

SockInv == SocketTypeOK /\ SessionLocked /\ ErrorOnItsWay /\ OneConnection /\ OwnErrorKept

LEMMA SockInit == SocketInit => SockInv
<1> SUFFICES ASSUME SocketInit PROVE SockInv
  OBVIOUS
<1> USE SocketAssumption
<1>1. SocketTypeOK
  BY DEF SocketInit, SocketTypeOK, Sessions, Unopened, NoCall
<1>2. SessionLocked /\ ErrorOnItsWay /\ OneConnection /\ OwnErrorKept
  BY DEF SocketInit, SessionLocked, ErrorOnItsWay, OneConnection, OwnErrorKept, Sessions,
     Unopened, NoCall, Stopping
<1> QED
  BY <1>1, <1>2 DEF SockInv

-----------------------------------------------------------------------------
(* Steps of the calls. *)

CallRec == [op : {"none", "connect", "send", "recv", "close"},
            pc : {"none", "queue", "lock", "dial", "check", "io", "stop", "closing", "after", "wait"},
            s : 0..MaxSessions, failed : {"no", "io", "long"}, told : BOOLEAN]

SessRec == [open : BOOLEAN, done : BOOLEAN, once : {"new", "running", "run"},
            errors : SUBSET Errors, keeper : {"off", "on", "stop", "closing", "finished"}]

\* No session is opened: stopping one closes it, and what is closed stays closed.
SessionsWane ==
    /\ sess' \in [Sessions -> SessRec]
    /\ \A s \in Sessions :
          /\ sess[s].once = "run" => sess'[s].once = "run"
          /\ sess'[s].once = "run" => ~sess'[s].open
          /\ sess'[s].open => sess[s].open
          /\ sess'[s].keeper \notin {"off", "finished"} => sess[s].keeper \notin {"off", "finished"}

LEMMA SessionsRest == SockInv /\ UNCHANGED sess => SessionsWane
  BY DEF SockInv, SocketTypeOK, SessionLocked, SessionsWane, SessRec

\* What p's call may become, c, while p holds or gives back the mutexes.
LEMMA CallMoves ==
  ASSUME SockInv, NEW p \in Callers, NEW c \in CallRec,
         call' = [call EXCEPT ![p] = c], UNCHANGED session, SessionsWane,
         mu' \in {mu, p, Nobody}, readMu' \in {readMu, p, Nobody},
         mu' # mu => mu \in {p, Nobody},
         mu' = p => c.op \in {"connect", "close"},
         readMu' = p => c.op \in {"recv", "send"},
         c.op = "none" => c.pc = "none",
         c.pc = "queue" => c.op = "recv",
         c.pc = "dial" => c.op = "connect" /\ mu' = p /\ session = 0,
         c.pc \in {"check", "io"} => c.op \in {"send", "recv"},
         c.pc \in Stopping => c.op \in {"send", "recv", "close"},
         c.pc = "wait" => c.op = "close",
         c.pc \in {"check", "io"} \cup Stopping => c.s \in Sessions,
         c.op = "close" /\ c.pc \in Stopping => mu' = p /\ c.s = session,
         c.pc \in {"after", "wait"} => sess'[c.s].once = "run",
         c.failed = "io" /\ c.op # "none" =>
            c.op \in {"send", "recv"} /\ c.pc \in {"stop", "closing", "after"},
         c.failed = "io" /\ c.op = "none" => c.told
  PROVE  SockInv'
<1>1. /\ call \in [Callers -> CallRec] /\ call' \in [Callers -> CallRec]
      /\ call'[p] = c /\ \A q \in Callers : q # p => call'[q] = call[q]
  BY DEF SockInv, SocketTypeOK, CallRec
<1>m. \A q \in Callers : q # p => (mu = q <=> mu' = q) /\ (readMu' = q => readMu = q)
  BY SocketAssumption
<1>2. SocketTypeOK'
  <2>1. mu' \in Callers \cup {Nobody} /\ readMu' \in Callers \cup {Nobody}
    BY DEF SockInv, SocketTypeOK
  <2>2. \A q \in Callers : /\ mu' = q => call'[q].op \in {"connect", "close"}
                           /\ readMu' = q => call'[q].op \in {"recv", "send"}
    BY <1>1, <1>m DEF SockInv, SocketTypeOK
  <2> QED
    BY <1>1, <2>1, <2>2 DEF SockInv, SocketTypeOK, CallRec, SessRec, SessionsWane
<1>3. SessionLocked'
  <2>1. ASSUME NEW q \in Callers, q # p, call[q].pc \in {"after", "wait"}
        PROVE  sess'[call[q].s].once = "run"
    BY <2>1 DEF SockInv, SessionLocked, SessionsWane, Stopping
  <2> QED
    BY <1>1, <1>m, <2>1 DEF SockInv, SessionLocked, SessionsWane
<1>4. ErrorOnItsWay' /\ OwnErrorKept'
  BY <1>1 DEF SockInv, ErrorOnItsWay, OwnErrorKept
<1>5. OneConnection'
  BY DEF SockInv, OneConnection, SessionsWane
<1> QED
  BY <1>2, <1>3, <1>4, <1>5 DEF SockInv

LEMMA SessionsMove ==
  ASSUME SockInv, UNCHANGED <<mu, readMu, session, call>>, SessionsWane
  PROVE  SockInv'
<1>1. SocketTypeOK'
  BY DEF SockInv, SocketTypeOK, SessRec, SessionsWane
<1>2. SessionLocked'
  BY DEF SockInv, SessionLocked, SessionsWane, Stopping
<1>3. ErrorOnItsWay' /\ OwnErrorKept' /\ OneConnection'
  BY DEF SockInv, ErrorOnItsWay, OwnErrorKept, OneConnection, SessionsWane
<1> QED
  BY <1>1, <1>2, <1>3 DEF SockInv

LEMMA Ended ==
  ASSUME NEW failed \in {"no", "io", "long"}, NEW told \in BOOLEAN
  PROVE  LET c == [NoCall EXCEPT !.failed = failed, !.told = told]
         IN  c \in CallRec /\ c.op = "none" /\ c.pc = "none" /\ c.failed = failed /\ c.told = told
<1>1. NoCall \in CallRec /\ NoCall.op = "none" /\ NoCall.pc = "none"
  BY SocketAssumption DEF NoCall, CallRec
<1>2. \A b \in CallRec :
        /\ [b EXCEPT !.failed = failed, !.told = told] \in CallRec
        /\ [b EXCEPT !.failed = failed, !.told = told].op = b.op
        /\ [b EXCEPT !.failed = failed, !.told = told].pc = b.pc
        /\ [b EXCEPT !.failed = failed, !.told = told].failed = failed
        /\ [b EXCEPT !.failed = failed, !.told = told].told = told
  BY DEF CallRec
<1> QED
  BY <1>1, <1>2

\* The record a call is left with when it returns.
LEMMA Returned ==
  ASSUME SockInv, NEW p \in Callers, NEW errors, Return(p, errors),
         UNCHANGED session, SessionsWane, mu' \in {mu, Nobody}, mu' # p,
         mu' # mu => mu = p,
         call[p].failed = "io" => p \in errors
  PROVE  SockInv'
<1> DEFINE c == [NoCall EXCEPT !.failed = call[p].failed, !.told = p \in errors]
<1>f. call[p].failed \in {"no", "io", "long"} /\ (p \in errors) \in BOOLEAN
  BY DEF SockInv, SocketTypeOK
<1>r. c \in CallRec /\ c.op = "none" /\ c.pc = "none" /\ c.failed = call[p].failed
      /\ c.told = (p \in errors)
  BY <1>f, Ended
<1>1. /\ c \in CallRec /\ c.op = "none" /\ c.pc = "none" /\ c.failed = call[p].failed
      /\ (c.told <=> p \in errors)
  BY <1>r
<1>2. call' = [call EXCEPT ![p] = c] /\ readMu' \in {readMu, Nobody} /\ readMu' # p
  BY SocketAssumption DEF Return
<1> HIDE DEF c
<1> QED
  BY <1>1, <1>2, CallMoves DEF Stopping

\* A call that only goes on to the next place.
LEMMA GoesTo ==
  ASSUME SockInv, NEW p \in Callers,
         NEW pc \in {"lock", "io", "stop", "closing", "after", "wait"}, Goto(p, pc)
  PROVE  \E c \in CallRec :
            /\ call' = [call EXCEPT ![p] = c] /\ c.pc = pc /\ c.op = call[p].op
            /\ c.s = call[p].s /\ c.failed = call[p].failed
<1>1. call[p] \in CallRec /\ call \in [Callers -> CallRec]
  BY DEF SockInv, SocketTypeOK, CallRec
<1>2. call' = [call EXCEPT ![p] = [call[p] EXCEPT !.pc = pc]]
  BY <1>1 DEF Goto
<1> DEFINE c == [call[p] EXCEPT !.pc = pc]
<1>3. /\ c \in CallRec /\ c.pc = pc /\ c.op = call[p].op
      /\ c.s = call[p].s /\ c.failed = call[p].failed
  BY <1>1 DEF CallRec
<1> QED
  BY <1>2, <1>3

-----------------------------------------------------------------------------
(* The actions. *)

LEMMA BeginStep == ASSUME SockInv, NEW p \in Callers, Begin(p) PROVE SockInv'
<1>1. PICK op \in {"connect", "send", "recv", "close"} :
         call' = [call EXCEPT ![p] = [NoCall EXCEPT !.op = op,
                                        !.pc = IF op = "recv" THEN "queue" ELSE "lock"]]
  BY DEF Begin
<1> DEFINE pc == IF op = "recv" THEN "queue" ELSE "lock"
           c == [NoCall EXCEPT !.op = op, !.pc = pc]
<1>2. NoCall \in CallRec /\ NoCall.failed = "no"
  BY SocketAssumption DEF NoCall, CallRec
<1>p. pc \in {"queue", "lock"} /\ (pc = "queue" => op = "recv")
  OBVIOUS
<1>5. call' = [call EXCEPT ![p] = c]
  BY <1>1
<1>4. mu # p /\ readMu # p /\ UNCHANGED <<mu, readMu, session>> /\ SessionsWane
  BY SessionsRest DEF Begin, SockInv, SocketTypeOK
<1> HIDE DEF pc
<1>3. c \in CallRec /\ c.op = op /\ c.failed = "no" /\ c.pc = pc
  BY <1>2, <1>p DEF CallRec
<1> HIDE DEF c
<1>6. c.pc \in {"queue", "lock"} /\ (c.pc = "queue" => c.op = "recv") /\ c.op # "none"
  BY <1>3, <1>p
<1> QED
  BY <1>3, <1>4, <1>5, <1>6, CallMoves DEF Stopping

LEMMA LockReadStep == ASSUME SockInv, NEW p \in Callers, LockRead(p) PROVE SockInv'
<1>1. PICK c \in CallRec :
         /\ call' = [call EXCEPT ![p] = c] /\ c.pc = "lock" /\ c.op = call[p].op
         /\ c.s = call[p].s /\ c.failed = call[p].failed
  BY GoesTo DEF LockRead
<1>2. /\ call[p].pc = "queue" /\ readMu = Nobody /\ readMu' = p
      /\ UNCHANGED <<mu, session>> /\ SessionsWane
  BY SessionsRest DEF LockRead
<1>3. c.op = "recv" /\ c.failed # "io" /\ mu # p
  BY <1>1, <1>2 DEF SockInv, SessionLocked, ErrorOnItsWay, SocketTypeOK
<1> QED
  BY <1>1, <1>2, <1>3, CallMoves DEF Stopping

LEMMA LockStep == ASSUME SockInv, NEW p \in Callers, Lock(p) PROVE SockInv'
<1>1. /\ call[p].pc = "lock" /\ mu = Nobody /\ UNCHANGED session /\ SessionsWane
      /\ mu # p /\ call[p].failed # "io"
      /\ call[p].op \in {"connect", "send", "recv", "close"}
      /\ call[p] \in CallRec /\ call \in [Callers -> CallRec]
  BY SessionsRest, SocketAssumption DEF Lock, SockInv, SessionLocked, ErrorOnItsWay, SocketTypeOK,
     CallRec
<1>2. CASE (call[p].op = "connect") = (session # 0)
  <2>1. Return(p, IF call[p].op = "close" THEN {} ELSE {"session"}) /\ UNCHANGED mu
    BY <1>2 DEF Lock
  <2> QED
    BY <1>1, <2>1, Returned
<1>3. CASE ~((call[p].op = "connect") = (session # 0))
  <2> DEFINE pc == CASE call[p].op = "connect" -> "dial"
                     [] call[p].op = "close" -> "stop"
                     [] OTHER -> "check"
             c == [call[p] EXCEPT !.s = session, !.pc = pc]
  <2>1. /\ call' = [call EXCEPT ![p].s = session, ![p].pc = pc]
        /\ mu' = (IF call[p].op \in {"connect", "close"} THEN p ELSE mu)
        /\ UNCHANGED readMu
    BY <1>3 DEF Lock
  <2>2. /\ pc \in {"dial", "stop", "check"}
        /\ pc = "dial" <=> call[p].op = "connect"
        /\ pc = "stop" <=> call[p].op = "close"
    OBVIOUS
  <2>3. session \in 0..MaxSessions
    BY DEF SockInv, SocketTypeOK
  <2> HIDE DEF pc
  <2>4. call' = [call EXCEPT ![p] = c]
    BY <1>1, <2>1
  <2>5. /\ c \in CallRec /\ c.pc = pc /\ c.op = call[p].op /\ c.s = session
        /\ c.failed = call[p].failed
    BY <1>1, <2>2, <2>3 DEF CallRec
  <2>6. call[p].op = "connect" <=> session = 0
    BY <1>3
  <2>7. session # 0 => session \in Sessions
    BY <2>3, SocketAssumption DEF Sessions
  <2>8. readMu = p => call[p].op \in {"recv", "send"}
    BY DEF SockInv, SocketTypeOK
  <2> HIDE DEF c
  <2>9. /\ mu' \in {mu, p, Nobody} /\ readMu' \in {readMu, p, Nobody}
        /\ mu' = p <=> c.op \in {"connect", "close"}
        /\ readMu' = p => c.op \in {"recv", "send"}
    BY <1>1, <2>1, <2>5, <2>8
  <2>10. c.pc = "dial" => c.op = "connect" /\ mu' = p /\ session = 0
    BY <2>2, <2>5, <2>6, <2>9
  <2>11. /\ c.pc \in {"check", "io"} => c.op \in {"send", "recv"}
         /\ c.pc \in Stopping => c.op = "close" /\ c.s = session /\ mu' = p
         /\ c.pc # "wait" /\ c.pc # "after" /\ c.op # "none" /\ c.pc # "queue"
    BY <1>1, <2>2, <2>5, <2>9 DEF Stopping
  <2>12. c.pc \in {"check", "io"} \cup Stopping => c.s \in Sessions
    BY <2>2, <2>5, <2>6, <2>7, <2>11
  <2>13. c.op = "close" /\ c.pc \in Stopping => mu' = p /\ c.s = session
    BY <2>11
  <2> QED
    BY <1>1, <2>4, <2>5, <2>9, <2>10, <2>11, <2>12, <2>13, CallMoves
<1> QED
  BY <1>2, <1>3

LEMMA CheckStep == ASSUME SockInv, NEW p \in Callers, Check(p) PROVE SockInv'
<1>1. /\ call[p].pc = "check" /\ UNCHANGED <<mu, session>> /\ SessionsWane
      /\ call[p].op \in {"send", "recv"} /\ call[p].s \in Sessions
      /\ mu # p /\ call[p].failed # "io"
  BY SessionsRest DEF Check, SockInv, SessionLocked, ErrorOnItsWay, SocketTypeOK
<1>2. CASE sess[call[p].s].done
  <2>1. Return(p, sess[call[p].s].errors \cup {"session"})
    BY <1>2 DEF Check
  <2> QED
    BY <1>1, <2>1, Returned
<1>3. CASE ~sess[call[p].s].done
  <2>1. PICK c \in CallRec :
           /\ call' = [call EXCEPT ![p] = c] /\ c.pc = "io" /\ c.op = call[p].op
           /\ c.s = call[p].s /\ c.failed = call[p].failed
    BY <1>3, GoesTo DEF Check
  <2>2. UNCHANGED readMu /\ (readMu' = p => c.op \in {"recv", "send"})
    BY <1>1, <1>3, <2>1 DEF Check
  <2> QED
    BY <1>1, <2>1, <2>2, CallMoves DEF Stopping
<1> QED
  BY <1>2, <1>3

\* A call that fails keeps what it is about and goes to stop.
LEMMA FailsWith ==
  ASSUME SockInv, NEW p \in Callers, NEW how \in {"io", "long"}, call[p].pc = "io",
         call' = [call EXCEPT ![p].pc = "stop", ![p].failed = how],
         UNCHANGED <<mu, readMu, session, sess>>
  PROVE  SockInv'
<1> DEFINE c == [call[p] EXCEPT !.pc = "stop", !.failed = how]
<1>1. call[p] \in CallRec /\ call \in [Callers -> CallRec]
  BY DEF SockInv, SocketTypeOK, CallRec
<1>2. call' = [call EXCEPT ![p] = c]
  BY <1>1
<1>3. c \in CallRec /\ c.pc = "stop" /\ c.op = call[p].op /\ c.s = call[p].s /\ c.failed = how
  BY <1>1 DEF CallRec
<1>4. /\ call[p].op \in {"send", "recv"} /\ call[p].s \in Sessions /\ mu # p /\ SessionsWane
  BY SessionsRest DEF SockInv, SessionLocked, SocketTypeOK
<1> HIDE DEF c
<1> QED
  BY <1>2, <1>3, <1>4, CallMoves DEF Stopping

LEMMA FailedStep == ASSUME SockInv, NEW p \in Callers, Failed(p) PROVE SockInv'
  BY FailsWith DEF Failed

LEMMA AnsweredStep == ASSUME SockInv, NEW p \in Callers, Answered(p) PROVE SockInv'
<1>1. /\ call[p].pc = "io" /\ UNCHANGED <<mu, session, sess>> /\ SessionsWane
      /\ call[p].op \in {"send", "recv"} /\ mu # p /\ call[p].failed # "io"
      /\ call[p] \in CallRec /\ call \in [Callers -> CallRec]
  BY SessionsRest DEF Answered, SockInv, SessionLocked, ErrorOnItsWay, SocketTypeOK, CallRec
<1>2. CASE Return(p, {})
  BY <1>1, <1>2, Returned
<1>3. CASE call' = [call EXCEPT ![p].op = "send", ![p].pc = "lock"] /\ UNCHANGED readMu
  <2> DEFINE c == [call[p] EXCEPT !.op = "send", !.pc = "lock"]
  <2>1. call' = [call EXCEPT ![p] = c]
    BY <1>1, <1>3
  <2>2. c \in CallRec /\ c.op = "send" /\ c.pc = "lock" /\ c.failed = call[p].failed
    BY <1>1 DEF CallRec
  <2> HIDE DEF c
  <2> QED
    BY <1>1, <1>3, <2>1, <2>2, CallMoves DEF Stopping
<1>4. CASE call' = [call EXCEPT ![p].pc = "stop", ![p].failed = "long"] /\ UNCHANGED readMu
  BY <1>1, <1>4, FailsWith
<1> QED
  BY <1>2, <1>3, <1>4 DEF Answered

LEMMA StopStep == ASSUME SockInv, NEW p \in Callers, Stop(p) PROVE SockInv'
<1> DEFINE s == call[p].s
<1>1. /\ call[p].pc = "stop" /\ UNCHANGED <<mu, readMu, session>>
      /\ call[p].op \in {"send", "recv", "close"} /\ s \in Sessions
      /\ sess \in [Sessions -> SessRec] /\ sess[s] \in SessRec
      /\ (call[p].op = "close" => mu = p /\ s = session)
      /\ (mu = p => call[p].op = "close") /\ (readMu = p => call[p].op \in {"send", "recv"})
  BY DEF Stop, SockInv, SessionLocked, SocketTypeOK, SessRec, Stopping
<1>f. call[p].failed = "io" => call[p].op \in {"send", "recv"}
  BY <1>1 DEF SockInv, ErrorOnItsWay
<1>2. PICK pc \in {"closing", "after"} :
         /\ Goto(p, pc)
         /\ \/ /\ pc = "closing" /\ sess[s].once = "new"
               /\ StopBegin(s, IF call[p].op = "close" THEN {} ELSE {p})
            \/ pc = "after" /\ sess[s].once = "run" /\ UNCHANGED sess
  BY DEF Stop
<1>3. PICK c \in CallRec :
         /\ call' = [call EXCEPT ![p] = c] /\ c.pc = pc /\ c.op = call[p].op
         /\ c.s = s /\ c.failed = call[p].failed
  BY <1>2, GoesTo
<1>4. SessionsWane
  <2>1. CASE UNCHANGED sess
    BY <2>1, SessionsRest
  <2>2. CASE sess[s].once = "new" /\ StopBegin(s, IF call[p].op = "close" THEN {} ELSE {p})
    <3> DEFINE cause == IF call[p].op = "close" THEN {} ELSE {p}
               r == [sess[s] EXCEPT !.once = "running", !.done = TRUE, !.errors = cause]
    <3>1. cause \in SUBSET Errors
      BY DEF Errors
    <3> HIDE DEF cause
    <3>2. r \in SessRec /\ r.once = "running" /\ r.open = sess[s].open
          /\ r.keeper = sess[s].keeper
      BY <1>1, <3>1 DEF SessRec
    <3>3. sess' = [sess EXCEPT ![s] = r]
      BY <1>1, <2>2 DEF StopBegin, cause
    <3> HIDE DEF r
    <3> QED
      BY <1>1, <2>2, <3>2, <3>3 DEF SessionsWane, SockInv, SessionLocked
  <2> QED
    BY <1>2, <2>1, <2>2
<1>5. c.pc = "after" => sess'[c.s].once = "run"
  BY <1>1, <1>2, <1>3
<1> HIDE DEF s
<1> QED
  BY <1>1, <1>f, <1>2, <1>3, <1>4, <1>5, CallMoves DEF Stopping

\* The connection is closed: what stop leaves of the session.
LEMMA StopEndWanes ==
  ASSUME SockInv, NEW s \in Sessions, StopEnd(s)
  PROVE  SessionsWane /\ sess'[s].once = "run"
<1>1. sess \in [Sessions -> SessRec] /\ sess[s] \in SessRec
  BY DEF SockInv, SocketTypeOK, SessRec
<1>2. PICK closeErr \in {{}, {"close"}} :
         sess' = [sess EXCEPT ![s].once = "run", ![s].open = FALSE, ![s].errors = @ \cup closeErr]
  BY DEF StopEnd
<1> DEFINE errors == sess[s].errors \cup closeErr
           r == [sess[s] EXCEPT !.once = "run", !.open = FALSE, !.errors = errors]
<1>3. errors \in SUBSET Errors
  BY <1>1 DEF SessRec, Errors
<1>4. sess' = [sess EXCEPT ![s] = r]
  BY <1>1, <1>2
<1> HIDE DEF errors
<1>5. r \in SessRec /\ r.once = "run" /\ r.open = FALSE /\ r.keeper = sess[s].keeper
  BY <1>1, <1>3 DEF SessRec
<1> HIDE DEF r
<1> QED
  BY <1>1, <1>4, <1>5 DEF SessionsWane, SockInv, SessionLocked

LEMMA CloseConnStep == ASSUME SockInv, NEW p \in Callers, CloseConn(p) PROVE SockInv'
<1>1. /\ call[p].pc = "closing" /\ UNCHANGED <<mu, readMu, session>>
      /\ call[p].op \in {"send", "recv", "close"} /\ call[p].s \in Sessions
      /\ (call[p].op = "close" => mu = p /\ call[p].s = session)
      /\ (mu = p => call[p].op = "close") /\ (readMu = p => call[p].op \in {"send", "recv"})
      /\ (call[p].failed = "io" => call[p].op \in {"send", "recv"})
  BY DEF CloseConn, SockInv, SessionLocked, ErrorOnItsWay, SocketTypeOK, Stopping
<1>2. PICK c \in CallRec :
         /\ call' = [call EXCEPT ![p] = c] /\ c.pc = "after" /\ c.op = call[p].op
         /\ c.s = call[p].s /\ c.failed = call[p].failed
  BY GoesTo DEF CloseConn
<1>3. SessionsWane /\ sess'[c.s].once = "run"
  BY <1>1, <1>2, StopEndWanes DEF CloseConn
<1> QED
  BY <1>1, <1>2, <1>3, CallMoves DEF Stopping

LEMMA AfterStep == ASSUME SockInv, NEW p \in Callers, After(p) PROVE SockInv'
<1>1. /\ call[p].pc = "after" /\ UNCHANGED <<mu, session>> /\ SessionsWane
      /\ call[p].op \in {"send", "recv", "close"} /\ call[p].s \in Sessions
      /\ (call[p].op = "close" => mu = p /\ call[p].s = session)
      /\ (mu = p => call[p].op = "close") /\ (readMu = p => call[p].op \in {"send", "recv"})
      /\ sess[call[p].s].once = "run"
      /\ (call[p].failed = "io" => call[p].op \in {"send", "recv"})
  BY SessionsRest DEF After, SockInv, SessionLocked, ErrorOnItsWay, SocketTypeOK, Stopping
<1>2. CASE call[p].op = "close"
  <2>1. PICK c \in CallRec :
           /\ call' = [call EXCEPT ![p] = c] /\ c.pc = "wait" /\ c.op = call[p].op
           /\ c.s = call[p].s /\ c.failed = call[p].failed
    BY <1>2, GoesTo DEF After
  <2>2. UNCHANGED <<readMu, sess>>
    BY <1>2 DEF After
  <2> QED
    BY <1>1, <1>2, <2>1, <2>2, CallMoves DEF Stopping
<1>3. CASE call[p].op # "close"
  <2> DEFINE errors == sess[call[p].s].errors \cup (IF call[p].failed = "long" THEN {} ELSE {p})
  <2>1. Return(p, errors) /\ (call[p].failed = "io" => p \in errors)
    BY <1>3 DEF After
  <2>2. mu # p
    BY <1>1, <1>3
  <2> HIDE DEF errors
  <2> QED
    BY <1>1, <2>1, <2>2, Returned
<1> QED
  BY <1>2, <1>3

\* A call that returned, whatever became of the sessions.
LEMMA ReturnedRecord ==
  ASSUME SockInv, NEW p \in Callers, NEW errors, Return(p, errors)
  PROVE  \E c \in CallRec :
            /\ call' = [call EXCEPT ![p] = c] /\ c.op = "none" /\ c.pc = "none"
            /\ c.failed = call[p].failed /\ (c.told <=> p \in errors)
            /\ readMu' \in {readMu, Nobody} /\ readMu' # p
<1> DEFINE c == [NoCall EXCEPT !.failed = call[p].failed, !.told = p \in errors]
<1>1. call[p].failed \in {"no", "io", "long"} /\ (p \in errors) \in BOOLEAN
  BY DEF SockInv, SocketTypeOK
<1>2. c \in CallRec /\ c.op = "none" /\ c.pc = "none" /\ c.failed = call[p].failed
      /\ c.told = (p \in errors)
  BY <1>1, Ended
<1>3. call' = [call EXCEPT ![p] = c] /\ readMu' \in {readMu, Nobody} /\ readMu' # p
  BY SocketAssumption DEF Return
<1> HIDE DEF c
<1> QED
  BY <1>2, <1>3

LEMMA DialStep == ASSUME SockInv, NEW p \in Callers, Dial(p) PROVE SockInv'
<1>1. /\ call[p].pc = "dial" /\ mu' = Nobody /\ mu = p /\ session = 0
      /\ call[p].failed # "io" /\ mu' # p
  BY SocketAssumption DEF Dial, SockInv, SessionLocked, ErrorOnItsWay
<1>2. CASE Return(p, {"session"}) /\ UNCHANGED <<session, sess>>
  BY <1>1, <1>2, SessionsRest, Returned
<1>3. ASSUME NEW s \in Sessions, sess[s] = Unopened, session' = s, Return(p, {}),
             sess' = [sess EXCEPT ![s].open = TRUE, ![s].keeper = "on"]
      PROVE  SockInv'
  <2>1. PICK c \in CallRec :
           /\ call' = [call EXCEPT ![p] = c] /\ c.op = "none" /\ c.pc = "none"
           /\ c.failed = call[p].failed /\ readMu' \in {readMu, Nobody} /\ readMu' # p
    BY <1>3, ReturnedRecord
  <2>2. /\ call \in [Callers -> CallRec] /\ call'[p] = c
        /\ \A q \in Callers : q # p => call'[q] = call[q]
        /\ call' \in [Callers -> CallRec]
    BY <2>1 DEF SockInv, SocketTypeOK, CallRec
  <2>3. /\ sess \in [Sessions -> SessRec] /\ sess[s] \in SessRec /\ sess[s].once = "new"
    BY <1>3 DEF SockInv, SocketTypeOK, SessRec, Unopened
  <2> DEFINE r == [sess[s] EXCEPT !.open = TRUE, !.keeper = "on"]
  <2>4. r \in SessRec /\ r.once = "new"
    BY <2>3 DEF SessRec
  <2>5. sess' = [sess EXCEPT ![s] = r]
    BY <1>3, <2>3
  <2> HIDE DEF r
  <2>6. /\ sess' \in [Sessions -> SessRec] /\ sess'[s].once = "new"
        /\ \A t \in Sessions : t # s => sess'[t] = sess[t]
    BY <2>3, <2>4, <2>5
  <2>7. s \in 0..MaxSessions
    BY SocketAssumption DEF Sessions
  <2>8. SocketTypeOK'
    <3>1. \A q \in Callers : mu' # q /\ (readMu' = q => q # p /\ readMu = q)
      BY <1>1, <2>1, SocketAssumption
    <3>2. \A q \in Callers : readMu' = q => call'[q].op \in {"recv", "send"}
      BY <2>2, <3>1 DEF SockInv, SocketTypeOK
    <3>3. mu' \in Callers \cup {Nobody} /\ readMu' \in Callers \cup {Nobody}
      BY <1>1, <2>1 DEF SockInv, SocketTypeOK
    <3> QED
      BY <1>3, <2>2, <2>6, <2>7, <3>1, <3>2, <3>3 DEF SocketTypeOK, CallRec, SessRec
  <2>9. SessionLocked'
    <3>1. ASSUME NEW q \in Callers, q # p
          PROVE /\ call[q].pc # "dial" /\ ~(call[q].op = "close" /\ call[q].pc \in Stopping)
                /\ call[q].pc \in {"after", "wait"} => sess'[call[q].s].once = "run"
      BY <1>1, <2>3, <2>6, <3>1 DEF SockInv, SessionLocked, Stopping
    <3> QED
      BY <2>1, <2>2, <2>6, <3>1 DEF SockInv, SessionLocked, Stopping
  <2>10. ErrorOnItsWay' /\ OwnErrorKept'
    BY <1>1, <2>1, <2>2 DEF SockInv, ErrorOnItsWay, OwnErrorKept
  <2>11. OneConnection'
    <3>1. \A t \in Sessions : ~(sess[t].open \/ sess[t].keeper \notin {"off", "finished"})
      BY <1>1, SocketAssumption DEF SockInv, OneConnection, Sessions
    <3> QED
      BY <1>3, <2>6, <3>1 DEF OneConnection
  <2> QED
    BY <2>8, <2>9, <2>10, <2>11 DEF SockInv
<1> QED
  BY <1>2, <1>3 DEF Dial

LEMMA FinishedStep == ASSUME SockInv, NEW p \in Callers, Finished(p) PROVE SockInv'
<1> DEFINE s == call[p].s
<1>1. /\ call[p].pc = "wait" /\ sess[s].keeper = "finished" /\ session' = 0 /\ mu' = Nobody
      /\ UNCHANGED sess /\ Return(p, sess[s].errors)
      /\ mu = p /\ s = session /\ s \in Sessions /\ sess[s].once = "run"
      /\ call[p].failed # "io"
  BY DEF Finished, SockInv, SessionLocked, ErrorOnItsWay, Stopping
<1>2. PICK c \in CallRec :
         /\ call' = [call EXCEPT ![p] = c] /\ c.op = "none" /\ c.pc = "none"
         /\ c.failed = call[p].failed /\ readMu' \in {readMu, Nobody} /\ readMu' # p
  BY <1>1, ReturnedRecord
<1>3. /\ call \in [Callers -> CallRec] /\ call'[p] = c
      /\ \A q \in Callers : q # p => call'[q] = call[q]
      /\ call' \in [Callers -> CallRec]
  BY <1>2 DEF SockInv, SocketTypeOK, CallRec
<1>4. SocketTypeOK'
  <2>1. \A q \in Callers : mu' # q /\ (readMu' = q => q # p /\ readMu = q)
    BY <1>1, <1>2, SocketAssumption
  <2>2. \A q \in Callers : readMu' = q => call'[q].op \in {"recv", "send"}
    BY <1>3, <2>1 DEF SockInv, SocketTypeOK
  <2>3. mu' \in Callers \cup {Nobody} /\ readMu' \in Callers \cup {Nobody}
        /\ session' \in 0..MaxSessions
    BY <1>1, <1>2, SocketAssumption DEF SockInv, SocketTypeOK
  <2> QED
    BY <1>1, <1>3, <2>1, <2>2, <2>3 DEF SockInv, SocketTypeOK, CallRec
<1>5. SessionLocked'
  <2>1. ASSUME NEW q \in Callers, q # p
        PROVE call[q].pc # "dial" /\ ~(call[q].op = "close" /\ call[q].pc \in Stopping)
    BY <1>1, <2>1 DEF SockInv, SessionLocked, Stopping
  <2> QED
    BY <1>1, <1>2, <1>3, <2>1 DEF SockInv, SessionLocked, Stopping
<1>6. ErrorOnItsWay' /\ OwnErrorKept'
  BY <1>1, <1>2, <1>3 DEF SockInv, ErrorOnItsWay, OwnErrorKept
<1>7. OneConnection'
  BY <1>1 DEF SockInv, OneConnection, SessionLocked
<1> QED
  BY <1>4, <1>5, <1>6, <1>7 DEF SockInv

LEMMA KeeperStep == ASSUME SockInv, NEW s \in Sessions, Keeper(s) PROVE SockInv'
<1>1. sess \in [Sessions -> SessRec] /\ sess[s] \in SessRec
  BY DEF SockInv, SocketTypeOK, SessRec
<1>2. ASSUME NEW r \in SessRec, sess' = [sess EXCEPT ![s] = r],
             sess[s].once = "run" => r.once = "run",
             r.once = "run" => ~r.open, r.open => sess[s].open,
             sess[s].keeper \notin {"off", "finished"}
      PROVE  SessionsWane
  BY <1>1, <1>2 DEF SessionsWane, SockInv, SessionLocked
<1>3. UNCHANGED <<mu, readMu, session, call>>
  BY DEF Keeper
<1>4. ASSUME NEW keeper \in {"finished", "stop"}, sess[s].keeper \notin {"off", "finished"},
             sess' = [sess EXCEPT ![s].keeper = keeper]
      PROVE  SessionsWane
  <2>1. /\ [sess[s] EXCEPT !.keeper = keeper] \in SessRec
        /\ [sess[s] EXCEPT !.keeper = keeper].once = sess[s].once
        /\ [sess[s] EXCEPT !.keeper = keeper].open = sess[s].open
    BY <1>1 DEF SessRec
  <2>2. sess' = [sess EXCEPT ![s] = [sess[s] EXCEPT !.keeper = keeper]]
    BY <1>1, <1>4
  <2> QED
    BY <1>2, <1>4, <2>1, <2>2 DEF SockInv, SessionLocked
<1>5. ASSUME sess[s].keeper = "stop", sess[s].once = "new",
             sess' = [sess EXCEPT ![s].once = "running", ![s].done = TRUE,
                                  ![s].errors = {"ping"}, ![s].keeper = "closing"]
      PROVE  SessionsWane
  <2> DEFINE r == [sess[s] EXCEPT !.once = "running", !.done = TRUE, !.errors = {"ping"},
                                  !.keeper = "closing"]
  <2>1. {"ping"} \in SUBSET Errors
    BY DEF Errors
  <2>2. r \in SessRec /\ r.once = "running" /\ r.open = sess[s].open
    BY <1>1, <2>1 DEF SessRec
  <2>3. sess' = [sess EXCEPT ![s] = r]
    BY <1>1, <1>5
  <2> HIDE DEF r
  <2> QED
    BY <1>2, <1>5, <2>2, <2>3
<1>6. ASSUME sess[s].keeper = "closing", NEW closeErr \in {{}, {"close"}},
             sess' = [sess EXCEPT ![s].once = "run", ![s].open = FALSE,
                                  ![s].errors = @ \cup closeErr, ![s].keeper = "finished"]
      PROVE  SessionsWane
  <2> DEFINE errors == sess[s].errors \cup closeErr
             r == [sess[s] EXCEPT !.once = "run", !.open = FALSE, !.errors = errors,
                                  !.keeper = "finished"]
  <2>1. errors \in SUBSET Errors
    BY <1>1 DEF SessRec, Errors
  <2>2. sess' = [sess EXCEPT ![s] = r]
    BY <1>1, <1>6
  <2> HIDE DEF errors
  <2>3. r \in SessRec /\ r.once = "run" /\ r.open = FALSE
    BY <1>1, <2>1 DEF SessRec
  <2> HIDE DEF r
  <2> QED
    BY <1>2, <1>6, <2>2, <2>3
<1>7. SessionsWane
  BY <1>4, <1>5, <1>6 DEF Keeper
<1> QED
  BY <1>3, <1>7, SessionsMove

LEMMA SockStep == SockInv /\ [SocketNext]_socketVars => SockInv'
<1> SUFFICES ASSUME SockInv, [SocketNext]_socketVars PROVE SockInv'
  OBVIOUS
<1>1. ASSUME NEW p \in Callers, CallStep(p) PROVE SockInv'
  BY <1>1, BeginStep, LockReadStep, LockStep, DialStep, CheckStep, AnsweredStep, FailedStep,
     StopStep, CloseConnStep, AfterStep, FinishedStep DEF CallStep
<1>2. ASSUME NEW s \in Sessions, Keeper(s) PROVE SockInv'
  BY <1>2, KeeperStep
<1>3. CASE UNCHANGED socketVars
  BY <1>3, SessionsRest, SessionsMove DEF socketVars
<1> QED
  BY <1>1, <1>2, <1>3 DEF SocketNext

\* The mutexes of Client and the sessions keep their form; c.mu is held by Connect and Close,
\* c.readMu by Recv and by the answer it sends (client.go).
THEOREM SocketTypeCorrect == SocketSpec => []SocketTypeOK
  BY SockInit, SockStep, PTL DEF SocketSpec, SockInv

\* Close returns only when its connection is closed and its keepalive has finished, and no
\* session begins before that (client.go, Close and Connect).
THEOREM OneConnectionSafe == SocketSpec => []OneConnection
  BY SockInit, SockStep, PTL DEF SocketSpec, SockInv

\* A call whose read or write failed returns its own error, whoever stopped the session
\* first (client.go, fail).
THEOREM OwnErrorSafe == SocketSpec => []OwnErrorKept
  BY SockInit, SockStep, PTL DEF SocketSpec, SockInv

-----------------------------------------------------------------------------
\* The tick batches

\* What makes AllOrNothing inductive: unless something failed, a batch that was handed out
\* is stored or under way, and a worker leaves only when none is left to hand out; only a
\* failure or the end of the caller's context cancels.
HandedOut ==
    /\ first = 0 => \A b \in 1..Batches :
                       b < next => b \in results \/ \E w \in Workers : work[w] = b
    /\ cancelled => ended \/ first # 0
    /\ ended => cancelled
    /\ returned \in {"none", "results"} /\ first = 0 /\ ~ended =>
          next > Batches \/ \E w \in Workers : work[w] # Left
    /\ returned = "results" =>
          first = 0 /\ ~ended /\ \A w \in Workers : work[w] = Left
    /\ first # 0 => first \in blamed
    /\ returned = "uncalled" => next = 1 /\ \A w \in Workers : work[w] = Left

LEMMA BatchTypeInit == BatchInit => BatchTypeOK /\ HandedOut
<1> SUFFICES ASSUME BatchInit PROVE BatchTypeOK /\ HandedOut
  OBVIOUS
<1>1. BatchTypeOK
  <2>1. Left \in Nat /\ 1 \in 1..Left /\ 0 \in 0..Batches /\ Left \in 0..Left
    BY BatchAssumption DEF Left
  <2>2. work \in [Workers -> 0..Left]
    BY <2>1 DEF BatchInit
  <2> QED
    BY <2>1, <2>2 DEF BatchInit, BatchTypeOK
<1>2. HandedOut
  BY BatchAssumption DEF BatchInit, HandedOut, Left
<1> QED
  BY <1>1, <1>2

LEMMA BatchTypeStep == BatchTypeOK /\ [BatchNext]_batchVars => BatchTypeOK'
<1> SUFFICES ASSUME BatchTypeOK, [BatchNext]_batchVars PROVE BatchTypeOK'
  OBVIOUS
<1> USE BatchAssumption
<1>t. Left = Batches + 1 /\ work \in [Workers -> 0..Left]
  BY DEF BatchTypeOK, Left
<1>1. CASE ReadBegin
  BY <1>1 DEF ReadBegin, BatchTypeOK, Left
<1>2. CASE ContextEnds
  BY <1>2 DEF ContextEnds, BatchTypeOK
<1>3. CASE ReadEnd
  BY <1>3 DEF ReadEnd, BatchTypeOK
<1>4. ASSUME NEW w \in Workers, TakeBatch(w) PROVE BatchTypeOK'
  <2>1. work' \in [Workers -> 0..Left] /\ next' \in 1..Left
    BY <1>4, <1>t DEF TakeBatch, BatchTypeOK
  <2> QED
    BY <1>4, <2>1 DEF TakeBatch, BatchTypeOK, Left
<1>5. ASSUME NEW w \in Workers, FetchSucceeds(w) PROVE BatchTypeOK'
  <2>1. work[w] \in 1..Batches /\ 0 \in 0..Left
    BY <1>5, <1>t DEF FetchSucceeds
  <2>2. work' \in [Workers -> 0..Left]
    BY <1>5, <1>t, <2>1 DEF FetchSucceeds
  <2>3. results' \subseteq 1..Batches
    BY <1>5, <2>1 DEF FetchSucceeds, BatchTypeOK
  <2> QED
    BY <1>5, <2>2, <2>3 DEF FetchSucceeds, BatchTypeOK, Left
<1>6. ASSUME NEW w \in Workers, FetchFails(w) PROVE BatchTypeOK'
  <2>1. work[w] \in 1..Batches /\ Left \in 0..Left
    BY <1>6, <1>t DEF FetchFails
  <2>2. work' \in [Workers -> 0..Left]
    BY <1>6, <1>t, <2>1 DEF FetchFails
  <2>3. first' \in 0..Batches /\ blamed' \subseteq 1..Batches /\ cancelled' \in BOOLEAN
    <3>1. first' \in 0..Batches
      BY <1>6, <2>1 DEF FetchFails, RecordFailure, BatchTypeOK
    <3>2. blamed' \subseteq 1..Batches
      BY <1>6, <2>1 DEF FetchFails, BatchTypeOK
    <3> QED
      BY <1>6, <3>1, <3>2 DEF FetchFails, RecordFailure
  <2> QED
    BY <1>6, <2>2, <2>3 DEF FetchFails, BatchTypeOK, Left
<1>7. CASE UNCHANGED batchVars
  BY <1>7 DEF batchVars, BatchTypeOK
<1> QED
  BY <1>1, <1>2, <1>3, <1>4, <1>5, <1>6, <1>7 DEF BatchNext

LEMMA HandedOutStep == BatchTypeOK /\ HandedOut /\ [BatchNext]_batchVars => HandedOut'
<1> SUFFICES ASSUME BatchTypeOK, HandedOut, [BatchNext]_batchVars PROVE HandedOut'
  OBVIOUS
<1> USE BatchAssumption
<1>t. /\ next \in 1..Left /\ first \in 0..Batches /\ work \in [Workers -> 0..Left]
      /\ Left = Batches + 1
  BY DEF BatchTypeOK, Left
<1>1. CASE ReadBegin
  <2>1. PICK W \in SUBSET Workers :
           /\ W = Workers \/ Cardinality(W) = Batches
           /\ work' = [w \in Workers |-> IF w \in W THEN 0 ELSE Left]
    BY <1>1 DEF ReadBegin
  <2>2. Batches = 0 \/ W # {}
    BY <2>1, FS_EmptySet
  <2>3. next > Batches \/ \E w \in Workers : work'[w] # Left
    BY <1>t, <2>1, <2>2
  <2> QED
    BY <1>1, <1>t, <2>3 DEF ReadBegin, HandedOut
<1>2. CASE ContextEnds
  BY <1>2 DEF ContextEnds, HandedOut
<1>3. CASE ReadEnd
  <2>1. returned = "none" /\ (\A w \in Workers : work[w] = Left)
        /\ UNCHANGED <<next, first, ended, cancelled, work, results, blamed>>
    BY <1>3 DEF ReadEnd
  <2>2. returned' # "none" /\ returned' # "uncalled"
        /\ (returned' = "results" => first = 0 /\ ~ended)
    BY <1>3 DEF ReadEnd
  <2>3. first = 0 /\ ~ended => next > Batches
    BY <2>1 DEF HandedOut
  <2> HIDE DEF Left
  <2> QED
    BY <2>1, <2>2, <2>3 DEF HandedOut
<1>4. ASSUME NEW w \in Workers, TakeBatch(w) PROVE HandedOut'
  <2>1. CASE first # 0 \/ cancelled \/ next > Batches
    <3>1. /\ UNCHANGED <<next, first, ended, cancelled, results, blamed, returned>>
          /\ work[w] = 0 /\ \A v \in Workers : v # w => work'[v] = work[v]
      BY <1>4, <1>t, <2>1 DEF TakeBatch
    <3>2. first = 0 /\ ~ended => next > Batches
      BY <2>1 DEF HandedOut
    <3>3. first = 0 => \A b \in 1..Batches :
             b < next => b \in results \/ \E v \in Workers : work'[v] = b
      BY <1>t, <3>1 DEF HandedOut
    <3>4. returned # "results" /\ returned # "uncalled"
      BY <1>t, <3>1 DEF HandedOut
    <3> QED
      BY <3>1, <3>2, <3>3, <3>4 DEF HandedOut
  <2>2. CASE ~(first # 0 \/ cancelled \/ next > Batches)
    <3>1. work' = [work EXCEPT ![w] = next] /\ next' = next + 1 /\ work[w] = 0 /\ next \in 1..Batches
      BY <1>4, <1>t, <2>2 DEF TakeBatch
    <3>2. work'[w] = next /\ \A v \in Workers : v # w => work'[v] = work[v]
      BY <1>t, <3>1
    <3>3. \A b \in 1..Batches : b < next' => b \in results \/ \E v \in Workers : work'[v] = b
      BY <1>t, <2>2, <3>1, <3>2 DEF HandedOut
    <3>4. work'[w] # Left /\ returned # "results" /\ returned # "uncalled"
      BY <1>t, <3>1, <3>2 DEF HandedOut
    <3>5. UNCHANGED <<first, ended, cancelled, results, blamed, returned>>
      BY <1>4 DEF TakeBatch
    <3> QED
      BY <2>2, <3>3, <3>4, <3>5 DEF HandedOut, Left
  <2> QED
    BY <2>1, <2>2
<1>5. ASSUME NEW w \in Workers, FetchSucceeds(w) PROVE HandedOut'
  BY <1>5, <1>t DEF FetchSucceeds, HandedOut, Left
<1>6. ASSUME NEW w \in Workers, FetchFails(w) PROVE HandedOut'
  <2>1. /\ work[w] \in 1..Batches /\ cancelled' = TRUE
        /\ first' = (IF first = 0 THEN work[w] ELSE first)
        /\ UNCHANGED <<next, ended, results, returned>>
    BY <1>6 DEF FetchFails, RecordFailure
  <2>2. first' # 0 /\ first' \in blamed'
    BY <1>6, <2>1 DEF FetchFails, HandedOut
  <2>3. returned # "results" /\ returned # "uncalled"
    BY <1>t, <2>1 DEF HandedOut
  <2> QED
    BY <2>1, <2>2, <2>3 DEF HandedOut
<1>7. CASE UNCHANGED batchVars
  BY <1>7 DEF batchVars, HandedOut, Left
<1> QED
  BY <1>1, <1>2, <1>3, <1>4, <1>5, <1>6, <1>7 DEF BatchNext

LEMMA BatchWhole == BatchTypeOK /\ HandedOut => AllOrNothing
<1> SUFFICES ASSUME BatchTypeOK, HandedOut PROVE AllOrNothing
  OBVIOUS
<1>1. ASSUME returned = "results" PROVE results = 1..Batches
  <2>1. \A b \in 1..Batches : b < next /\ ~(\E w \in Workers : work[w] = b)
    BY <1>1, BatchAssumption DEF BatchTypeOK, HandedOut, Left
  <2> QED
    BY <1>1, <2>1 DEF BatchTypeOK, HandedOut
<1> QED
  BY <1>1 DEF AllOrNothing, HandedOut

\* Every batch that is missing fails the whole read, and the failure reported is one that
\* happened (tickbatch/read.go: the first error wins, the results are returned after it
\* was looked at).
THEOREM AllOrNothingSafe == BatchSpec => []AllOrNothing
<1>1. BatchInit => BatchTypeOK /\ HandedOut
  BY BatchTypeInit
<1>2. BatchTypeOK /\ HandedOut /\ [BatchNext]_batchVars => BatchTypeOK' /\ HandedOut'
  BY BatchTypeStep, HandedOutStep
<1> QED
  BY <1>1, <1>2, BatchWhole, PTL DEF BatchSpec

-----------------------------------------------------------------------------
\* The connections to Solana

Phases == {"idle", "write", "wait", "open", "recv", "ended"}
SubRecords == [pc : Phases, ready : BOOLEAN, err : BOOLEAN,
               done : BOOLEAN, queue : Seq(Notes), got : Nat, asked : BOOLEAN,
               id : Ids \cup {NoId}, twice : BOOLEAN, sent : Nat]

\* The types, with those of the whole record of a subscription.
StreamKinds == StreamTypeOK /\ sub \in [Subs -> SubRecords]

LEMMA StreamKindsInit == StreamInit => StreamKinds
<1> SUFFICES ASSUME StreamInit PROVE StreamKinds
  OBVIOUS
<1>1. NoSub \in SubRecords
  BY DEF NoSub, SubRecords, Phases
<1>2. sub \in [Subs -> SubRecords] /\ \A s \in Subs : sub[s] = NoSub
  BY <1>1 DEF StreamInit
<1>3. NoSub.pc = "idle" /\ NoSub.queue = <<>>
  BY DEF NoSub
<1>4. <<>> \in Seq(Notes) /\ Len(<<>>) <= QueueLimit
  BY StreamAssumption
<1>5. wire \in Seq(Messages) /\ active \in [Ids -> SUBSET Subs]
  BY DEF StreamInit
<1> HIDE DEF NoSub
<1>6. \A s \in Subs : /\ sub[s].pc \in {"idle", "write", "wait", "open", "recv", "ended"}
                      /\ sub[s].queue \in Seq(Notes) /\ Len(sub[s].queue) <= QueueLimit
  BY <1>2, <1>3, <1>4
<1> QED
  BY <1>2, <1>5, <1>6 DEF StreamInit, StreamTypeOK, StreamKinds

\* The subscriptions keep their type when every record is one, with a queue within its limit.
SubsKept == sub' \in [Subs -> SubRecords] /\ \A q \in Subs : Len(sub'[q].queue) <= QueueLimit

RestKept == /\ wire' \in Seq(Messages) /\ active' \in [Ids -> SUBSET Subs] /\ pending' \subseteq Subs
            /\ closed' \in {"no", "stopped", "yes"} /\ reader' \in BOOLEAN

LEMMA KindsKept == SubsKept /\ RestKept => StreamKinds'
<1> SUFFICES ASSUME SubsKept, RestKept PROVE StreamKinds'
  OBVIOUS
<1>1. \A q \in Subs : sub'[q].pc \in Phases /\ sub'[q].queue \in Seq(Notes)
  BY DEF SubsKept, SubRecords
<1> QED
  BY <1>1 DEF SubsKept, RestKept, StreamKinds, StreamTypeOK, Phases

\* One subscription gets another record, or none does.
LEMMA SubChanges ==
  ASSUME StreamKinds, NEW s \in Subs, NEW r \in SubRecords, Len(r.queue) <= QueueLimit,
         sub' = [sub EXCEPT ![s] = r]
  PROVE  SubsKept
BY DEF StreamKinds, StreamTypeOK, SubsKept

LEMMA SubStays == StreamKinds /\ UNCHANGED sub => SubsKept
BY DEF StreamKinds, StreamTypeOK, SubsKept

LEMMA ToKinds == ASSUME StreamKinds, NEW s \in Subs, NEW pc \in Phases, To(s, pc) PROVE SubsKept
<1>1. sub[s] \in SubRecords /\ Len(sub[s].queue) <= QueueLimit
  BY DEF StreamKinds, StreamTypeOK
<1>2. [sub[s] EXCEPT !.pc = pc] \in SubRecords
  BY <1>1 DEF SubRecords
<1>3. [sub[s] EXCEPT !.pc = pc].queue = sub[s].queue
  BY <1>1 DEF SubRecords
<1>4. sub' = [sub EXCEPT ![s] = [sub[s] EXCEPT !.pc = pc]]
  BY DEF To
<1> QED
  BY <1>1, <1>2, <1>3, <1>4, SubChanges

LEMMA StopKinds == StreamKinds /\ StopStream => closed' \in {"no", "stopped", "yes"}
BY DEF StreamKinds, StreamTypeOK, StopStream

\* The node's steps: one more message, of the type.
LEMMA NodeKinds == ASSUME StreamKinds, NEW s \in Subs, NodeAnswers(s) \/ NodeNotifies(s) PROVE StreamKinds'
<1>1. sub[s] \in SubRecords /\ Len(sub[s].queue) <= QueueLimit
  BY DEF StreamKinds, StreamTypeOK
<1>2. wire \in Seq(Messages)
  BY DEF StreamKinds, StreamTypeOK
<1>3. CASE NodeNotifies(s)
  <2>1. PICK r : r = [sub[s] EXCEPT !.sent = @ + 1]
    OBVIOUS
  <2>2. r \in SubRecords
    BY <1>1, <2>1 DEF SubRecords
  <2>3. r.queue = sub[s].queue
    BY <1>1, <2>1 DEF SubRecords
  <2>4. sub' = [sub EXCEPT ![s] = r]
    BY <1>3, <2>1 DEF NodeNotifies
  <2>5. sub[s].id \in Ids /\ sub[s].sent + 1 \in Nat
    BY <1>1, <1>3 DEF SubRecords, NodeNotifies
  <2>6. PICK m : m = [kind |-> "note", of |-> s, id |-> sub[s].id, n |-> sub[s].sent + 1]
    OBVIOUS
  <2>7. m \in Messages
    BY <2>5, <2>6 DEF Messages
  <2>8. wire' = Append(wire, m)
    BY <1>3, <2>6 DEF NodeNotifies
  <2>9. wire' \in Seq(Messages)
    BY <1>2, <2>7, <2>8
  <2>10. RestKept
    BY <1>3, <2>9 DEF NodeNotifies, RestKept, StreamKinds, StreamTypeOK
  <2> QED
    BY <1>1, <2>2, <2>3, <2>4, <2>10, SubChanges, KindsKept
<1>4. ASSUME wire' = Append(wire, [kind |-> "error", of |-> s]), sub' = [sub EXCEPT ![s].asked = FALSE],
             UNCHANGED <<closed, reader, pending, active>>
      PROVE  StreamKinds'
  <2>1. PICK r : r = [sub[s] EXCEPT !.asked = FALSE]
    OBVIOUS
  <2>2. r \in SubRecords
    BY <1>1, <2>1 DEF SubRecords
  <2>3. r.queue = sub[s].queue
    BY <1>1, <2>1 DEF SubRecords
  <2>4. sub' = [sub EXCEPT ![s] = r]
    BY <1>4, <2>1
  <2>5. PICK m : m = [kind |-> "error", of |-> s]
    OBVIOUS
  <2>6. m \in Messages
    BY <2>5 DEF Messages
  <2>7. wire' = Append(wire, m)
    BY <1>4, <2>5
  <2>8. wire' \in Seq(Messages)
    BY <1>2, <2>6, <2>7
  <2>9. RestKept
    BY <1>4, <2>8 DEF RestKept, StreamKinds, StreamTypeOK
  <2> QED
    BY <1>1, <2>2, <2>3, <2>4, <2>9, SubChanges, KindsKept
<1>5. ASSUME NEW i \in Ids, wire' = Append(wire, [kind |-> "result", of |-> s, id |-> i, n |-> 0]),
             NEW twice \in BOOLEAN,
             sub' = [sub EXCEPT ![s].asked = FALSE, ![s].id = i, ![s].twice = twice],
             UNCHANGED <<closed, reader, pending, active>>
      PROVE  StreamKinds'
  <2>1. PICK r : r = [sub[s] EXCEPT !.asked = FALSE, !.id = i, !.twice = twice]
    OBVIOUS
  <2>2. r \in SubRecords
    BY <1>1, <2>1 DEF SubRecords
  <2>3. r.queue = sub[s].queue
    BY <1>1, <2>1 DEF SubRecords
  <2>4. sub' = [sub EXCEPT ![s] = r]
    BY <1>5, <2>1 DEF StreamKinds
  <2>5. PICK m : m = [kind |-> "result", of |-> s, id |-> i, n |-> 0]
    OBVIOUS
  <2>6. m \in Messages
    BY <2>5 DEF Messages
  <2>7. wire' = Append(wire, m)
    BY <1>5, <2>5
  <2>8. wire' \in Seq(Messages)
    BY <1>2, <2>6, <2>7
  <2>9. RestKept
    BY <1>5, <2>8 DEF RestKept, StreamKinds, StreamTypeOK
  <2> QED
    BY <1>1, <2>2, <2>3, <2>4, <2>9, SubChanges, KindsKept
<1> QED
  BY <1>3, <1>4, <1>5 DEF NodeAnswers

\* The steps of a caller.
LEMMA CallerKinds ==
  ASSUME StreamKinds, NEW s \in Subs,
         \/ SubscribeBegin(s) \/ SubscribeWrite(s) \/ SubscribeEnd(s) \/ RecvBegin(s)
         \/ RecvTake(s) \/ RecvEnds(s) \/ RecvCancelled(s) \/ Unsubscribe(s)
  PROVE  StreamKinds'
<1>1. sub[s] \in SubRecords /\ Len(sub[s].queue) <= QueueLimit
  BY DEF StreamKinds, StreamTypeOK
<1>2. CASE SubscribeBegin(s)
  <2>1. SubsKept
    BY <1>2, ToKinds DEF SubscribeBegin, Phases
  <2>2. RestKept
    BY <1>2 DEF SubscribeBegin, RestKept, StreamKinds, StreamTypeOK
  <2> QED
    BY <2>1, <2>2, KindsKept
<1>3. CASE SubscribeWrite(s)
  <2>1. ASSUME sub' = [sub EXCEPT ![s].pc = "wait", ![s].asked = TRUE] PROVE SubsKept
    <3>1. PICK r : r = [sub[s] EXCEPT !.pc = "wait", !.asked = TRUE]
      OBVIOUS
    <3>2. r \in SubRecords
      BY <1>1, <3>1 DEF SubRecords, Phases
    <3>3. r.queue = sub[s].queue
      BY <1>1, <3>1 DEF SubRecords
    <3>4. sub' = [sub EXCEPT ![s] = r]
      BY <2>1, <3>1 DEF StreamKinds
    <3> QED
      BY <1>1, <3>2, <3>3, <3>4, SubChanges
  <2>2. SubsKept
    BY <1>3, <2>1, ToKinds DEF SubscribeWrite, Phases
  <2>3. closed' \in {"no", "stopped", "yes"}
    BY <1>3, StopKinds DEF SubscribeWrite, StreamKinds, StreamTypeOK
  <2>4. RestKept
    BY <1>3, <2>3 DEF SubscribeWrite, RestKept, StreamKinds, StreamTypeOK
  <2> QED
    BY <2>2, <2>4, KindsKept
<1>4. CASE SubscribeEnd(s)
  <2>1. SubsKept
    BY <1>4, ToKinds DEF SubscribeEnd, Phases
  <2>2. closed' \in {"no", "stopped", "yes"}
    BY <1>4, StopKinds DEF SubscribeEnd, StreamKinds, StreamTypeOK
  <2>3. RestKept
    BY <1>4, <2>2 DEF SubscribeEnd, RestKept, StreamKinds, StreamTypeOK
  <2> QED
    BY <2>1, <2>3, KindsKept
<1>5. CASE RecvBegin(s) \/ RecvEnds(s) \/ RecvCancelled(s)
  <2>1. SubsKept
    BY <1>5, ToKinds DEF RecvBegin, RecvEnds, RecvCancelled, Phases
  <2>2. RestKept
    BY <1>5 DEF RecvBegin, RecvEnds, RecvCancelled, RestKept, StreamKinds, StreamTypeOK
  <2> QED
    BY <2>1, <2>2, KindsKept
<1>6. CASE RecvTake(s)
  <2>1. sub[s].queue \in Seq(Notes) /\ sub[s].queue # <<>> /\ sub[s].got \in Nat
    BY <1>1, <1>6 DEF SubRecords, RecvTake
  <2>2. Tail(sub[s].queue) \in Seq(Notes) /\ Len(Tail(sub[s].queue)) <= QueueLimit
    BY <1>1, <2>1, StreamAssumption
  <2>3. PICK q \in Seq(Notes) : q = Tail(sub[s].queue)
    BY <2>2
  <2>4. PICK g \in Nat : g = sub[s].got + 1
    BY <2>1
  <2>5. PICK r : r = [sub[s] EXCEPT !.pc = "open", !.queue = q, !.got = g]
    OBVIOUS
  <2>6. r \in SubRecords
    BY <1>1, <2>5 DEF SubRecords, Phases
  <2>7. r.queue = q
    BY <1>1, <2>5 DEF SubRecords
  <2>8. sub' = [sub EXCEPT ![s] = r]
    BY <1>6, <2>3, <2>4, <2>5 DEF RecvTake, StreamKinds
  <2>9. SubsKept
    BY <2>2, <2>3, <2>6, <2>7, <2>8, SubChanges
  <2>10. RestKept
    BY <1>6 DEF RecvTake, RestKept, StreamKinds, StreamTypeOK
  <2> QED
    BY <2>9, <2>10, KindsKept
<1>7. CASE Unsubscribe(s)
  <2>1. ASSUME sub' = [sub EXCEPT ![s].done = TRUE] PROVE SubsKept
    <3>1. PICK r : r = [sub[s] EXCEPT !.done = TRUE]
      OBVIOUS
    <3>2. r \in SubRecords
      BY <1>1, <3>1 DEF SubRecords
    <3>3. r.queue = sub[s].queue
      BY <1>1, <3>1 DEF SubRecords
    <3>4. sub' = [sub EXCEPT ![s] = r]
      BY <2>1, <3>1 DEF StreamKinds
    <3> QED
      BY <1>1, <3>2, <3>3, <3>4, SubChanges
  <2>2. ASSUME sub' = [sub EXCEPT ![s].done = TRUE, ![s].id = NoId] PROVE SubsKept
    <3>1. PICK r : r = [sub[s] EXCEPT !.done = TRUE, !.id = NoId]
      OBVIOUS
    <3>2. r \in SubRecords
      BY <1>1, <3>1 DEF SubRecords
    <3>3. r.queue = sub[s].queue
      BY <1>1, <3>1 DEF SubRecords
    <3>4. sub' = [sub EXCEPT ![s] = r]
      BY <2>2, <3>1 DEF StreamKinds
    <3> QED
      BY <1>1, <3>2, <3>3, <3>4, SubChanges
  <2>3. SubsKept
    BY <1>7, <2>1, <2>2 DEF Unsubscribe
  <2>4. closed' \in {"no", "stopped", "yes"}
    BY <1>7, StopKinds DEF Unsubscribe, StreamKinds, StreamTypeOK
  <2>5. active' \in [Ids -> SUBSET Subs]
    BY <1>7 DEF Unsubscribe, StreamKinds, StreamTypeOK
  <2>6. RestKept
    BY <1>7, <2>4, <2>5 DEF Unsubscribe, RestKept, StreamKinds, StreamTypeOK
  <2> QED
    BY <2>3, <2>6, KindsKept
<1> QED
  BY <1>2, <1>3, <1>4, <1>5, <1>6, <1>7

\* The reader takes one message of the type and hands it on.
LEMMA ReaderKinds == StreamKinds /\ ReadMessage => StreamKinds'
<1> SUFFICES ASSUME StreamKinds, ReadMessage PROVE StreamKinds'
  OBVIOUS
<1>1. wire \in Seq(Messages) /\ wire # <<>> /\ wire' = Tail(wire)
  BY DEF StreamKinds, StreamTypeOK, ReadMessage
<1>2. PICK m \in Messages : m = Head(wire)
  BY <1>1
<1>3. wire' \in Seq(Messages)
  BY <1>1
<1>4. m.of \in Subs /\ (m.kind # "error" => m.id \in Ids /\ m.n \in Nat)
  BY <1>2 DEF Messages
<1>5. \A s \in Subs : sub[s] \in SubRecords /\ Len(sub[s].queue) <= QueueLimit
  BY DEF StreamKinds, StreamTypeOK
<1>6. CASE m.kind = "note"
  <2>1. Notification(m)
    BY <1>2, <1>6 DEF ReadMessage
  <2>2. ASSUME \A s \in active[m.id] : Len(sub[s].queue) < QueueLimit,
               sub' = [s \in Subs |-> IF s \in active[m.id]
                         THEN [sub[s] EXCEPT !.queue = Append(@, [of |-> m.of, n |-> m.n])] ELSE sub[s]]
        PROVE  SubsKept
    <3>1. PICK x \in Notes : x = [of |-> m.of, n |-> m.n]
      BY <1>4, <1>6 DEF Notes
    <3>2. ASSUME NEW s \in Subs, s \in active[m.id]
          PROVE  sub'[s] \in SubRecords /\ Len(sub'[s].queue) <= QueueLimit
      <4>1. sub'[s] = [sub[s] EXCEPT !.queue = Append(@, x)]
        BY <2>2, <3>1, <3>2
      <4>2. sub[s].queue \in Seq(Notes) /\ Len(sub[s].queue) < QueueLimit
        BY <1>5, <2>2, <3>2 DEF SubRecords
      <4>3. Append(sub[s].queue, x) \in Seq(Notes) /\ Len(Append(sub[s].queue, x)) <= QueueLimit
        BY <3>1, <4>2, StreamAssumption
      <4>4. sub'[s] \in SubRecords
        BY <1>5, <4>1, <4>3 DEF SubRecords
      <4>5. sub'[s].queue = Append(sub[s].queue, x)
        BY <1>5, <4>1 DEF SubRecords
      <4> QED
        BY <4>3, <4>4, <4>5
    <3>3. ASSUME NEW s \in Subs, s \notin active[m.id]
          PROVE  sub'[s] \in SubRecords /\ Len(sub'[s].queue) <= QueueLimit
      <4>1. sub'[s] = sub[s]
        BY <2>2, <3>3
      <4> QED
        BY <1>5, <4>1
    <3>4. DOMAIN sub' = Subs /\ sub' = [s \in Subs |-> sub'[s]]
      BY <2>2
    <3> QED
      BY <3>2, <3>3, <3>4 DEF SubsKept
  <2>3. SubsKept
    BY <2>1, <2>2, SubStays DEF Notification
  <2>4. closed' \in {"no", "stopped", "yes"} /\ reader' \in BOOLEAN
    BY <2>1, StopKinds DEF Notification, StreamKinds, StreamTypeOK
  <2>5. RestKept
    BY <1>3, <2>1, <2>4 DEF Notification, RestKept, StreamKinds, StreamTypeOK
  <2> QED
    BY <2>3, <2>5, KindsKept
<1>7. CASE m.kind # "note"
  <2>1. Response(m)
    BY <1>2, <1>7 DEF ReadMessage
  <2>2. ASSUME NEW e \in BOOLEAN, sub' = [sub EXCEPT ![m.of].ready = TRUE, ![m.of].err = e]
        PROVE  SubsKept
    <3>1. PICK r : r = [sub[m.of] EXCEPT !.ready = TRUE, !.err = e]
      OBVIOUS
    <3>2. r \in SubRecords
      BY <1>4, <1>5, <3>1 DEF SubRecords
    <3>3. r.queue = sub[m.of].queue
      BY <1>4, <1>5, <3>1 DEF SubRecords
    <3>4. sub' = [sub EXCEPT ![m.of] = r]
      BY <1>4, <2>2, <3>1 DEF StreamKinds
    <3> QED
      BY <1>4, <1>5, <3>2, <3>3, <3>4, SubChanges
  <2>3. (m.kind = "error" \/ active[m.id] # {}) \in BOOLEAN
    OBVIOUS
  <2>4. SubsKept
    BY <2>1, <2>2, <2>3, SubStays DEF Response
  <2>5. closed' \in {"no", "stopped", "yes"} /\ reader' \in BOOLEAN
    BY <2>1, StopKinds DEF Response, StreamKinds, StreamTypeOK
  <2>6. active' \in [Ids -> SUBSET Subs]
    BY <1>4, <2>1 DEF Response, StreamKinds, StreamTypeOK
  <2>7. RestKept
    BY <1>3, <2>1, <2>5, <2>6 DEF Response, RestKept, StreamKinds, StreamTypeOK
  <2> QED
    BY <2>4, <2>7, KindsKept
<1> QED
  BY <1>6, <1>7

LEMMA StreamKindsStep == StreamKinds /\ [StreamNext]_streamVars => StreamKinds'
<1> SUFFICES ASSUME StreamKinds, [StreamNext]_streamVars PROVE StreamKinds'
  OBVIOUS
<1>1. ASSUME NEW s \in Subs, SubStep(s) PROVE StreamKinds'
  BY <1>1, NodeKinds, CallerKinds DEF SubStep
<1>2. CASE CloseStream \/ StreamFails
  <2>1. SubsKept
    BY <1>2, SubStays DEF CloseStream, StreamFails
  <2>2. closed' \in {"no", "stopped", "yes"}
    BY <1>2, StopKinds DEF CloseStream, StreamFails
  <2>3. <<>> \in Seq(Messages)
    OBVIOUS
  <2>4. wire' \in Seq(Messages) /\ reader' \in BOOLEAN
    BY <1>2, <2>3 DEF CloseStream, StreamFails, StreamKinds, StreamTypeOK
  <2>5. RestKept
    BY <1>2, <2>2, <2>4 DEF CloseStream, StreamFails, RestKept, StreamKinds, StreamTypeOK
  <2> QED
    BY <2>1, <2>5, KindsKept
<1>3. CASE UNCHANGED streamVars
  BY <1>3 DEF streamVars, StreamKinds, StreamTypeOK
<1> QED
  BY <1>1, <1>2, <1>3, ReaderKinds DEF StreamNext

\* An answer to the request of s, one that grants it, a notification sent for it.
Answers(m, s) == m.kind # "note" /\ m.of = s
Grants(m, s) == m.kind = "result" /\ m.of = s
Tells(m, s) == m.kind = "note" /\ m.of = s

\* The reader still hands messages over.
Reading == reader /\ closed # "yes"

\* The request of s is not answered by the node, which has it or will never get it.
Unanswered(s) == sub[s].pc \in {"idle", "write"} \/ sub[s].asked

CallsKept ==
    \A s \in Subs :
       /\ sub[s].pc \in {"idle", "write"} => ~sub[s].asked
       /\ Unanswered(s) => sub[s].id = NoId /\ ~sub[s].ready /\ ~sub[s].twice
       /\ sub[s].pc = "write" \/ sub[s].asked => s \in pending
       /\ sub[s].pc \in {"open", "recv"} \/ sub[s].done => sub[s].ready
       /\ sub[s].id = NoId /\ ~sub[s].done => sub[s].sent = 0

\* There is one answer, for a caller that has none, and it names the id the node gave.
AnswersKept ==
    \A k \in 1..Len(wire) : \A s \in Subs : Answers(wire[k], s) =>
       /\ ~Unanswered(s) /\ s \in pending /\ ~sub[s].ready
       /\ Grants(wire[k], s) => wire[k].id = sub[s].id
       /\ \A j \in 1..Len(wire) : Answers(wire[j], s) => j = k

\* Notifications follow the answer and carry the id it gave.
NotesKept ==
    \A k \in 1..Len(wire) : \A s \in Subs : Tells(wire[k], s) /\ ~sub[s].done =>
       /\ wire[k].id = sub[s].id
       /\ \A j \in 1..Len(wire) : Answers(wire[j], s) => j < k

\* An id is held by one subscription that was told so, or its answer is under way.
Holding ==
    /\ ~reader => Done
    /\ \A i \in Ids : \A s \in active[i] : sub[s].id = i /\ sub[s].ready /\ ~sub[s].done
    /\ \A i \in Ids : \A q, s \in active[i] : q = s
    /\ Reading => \A s \in Subs : sub[s].id # NoId /\ ~sub[s].done =>
          \/ s \in active[sub[s].id]
          \/ \E k \in 1..Len(wire) : Grants(wire[k], s)

\* A second subscription under the id of s was answered after s.
Later ==
    Reading => \A r, s \in Subs : r # s /\ sub[r].id = sub[s].id /\ sub[s].id # NoId /\ ~sub[s].twice =>
       /\ \A j \in 1..Len(wire) : Grants(wire[j], s) => \E k \in 1..Len(wire) : j < k /\ Grants(wire[k], r)
       /\ s \in active[sub[s].id] => \E k \in 1..Len(wire) : Grants(wire[k], r)

\* No answer between the positions j and k gives out the id i.
Unclaimed(i, j, k) == \A l \in 1..Len(wire) : j < l /\ l < k => ~(wire[l].kind = "result" /\ wire[l].id = i)

\* s has the id i, or will, when position k is read.
Holds(s, i, k) ==
    \/ s \in active[i] /\ Unclaimed(i, 0, k)
    \/ \E j \in 1..Len(wire) : j < k /\ Grants(wire[j], s) /\ wire[j].id = i /\ Unclaimed(i, j, k)

\* A notification meets the subscription it was sent for.
OwnNotes ==
    Reading => \A k \in 1..Len(wire), i \in Ids, s \in Subs :
       wire[k].kind = "note" /\ wire[k].id = i /\ ~sub[s].twice /\ Holds(s, i, k) => wire[k].of = s

Due(s) == sub[s].got + Len(sub[s].queue) + 1

\* What is under way for s is what is due, in order and without a gap.
Consecutive ==
    Reading => \A s \in Subs : ~sub[s].twice /\ ~sub[s].done =>
       /\ \A k \in 1..Len(wire) : Tells(wire[k], s) => wire[k].n \in Due(s)..sub[s].sent
       /\ \A j, k \in 1..Len(wire) : Tells(wire[j], s) /\ Tells(wire[k], s) /\ j < k => wire[j].n < wire[k].n
       /\ \A n \in Due(s)..sub[s].sent : \E k \in 1..Len(wire) : Tells(wire[k], s) /\ wire[k].n = n
       /\ Due(s) <= sub[s].sent + 1

QueueInOrder ==
    \A s \in Subs : ~sub[s].twice =>
       \A k \in 1..Len(sub[s].queue) : sub[s].queue[k] = [of |-> s, n |-> sub[s].got + k]

Delivery == CallsKept /\ AnswersKept /\ NotesKept /\ Holding /\ Later /\ OwnNotes /\ Consecutive /\ QueueInOrder

LEMMA DeliveryInit == StreamInit => Delivery
<1> SUFFICES ASSUME StreamInit PROVE Delivery
  OBVIOUS
<1>1. \A s \in Subs : sub[s] = NoSub
  BY DEF StreamInit
<1>2. Len(wire) = 0 /\ \A i \in Ids : active[i] = {}
  BY DEF StreamInit
<1>3. \A s \in Subs : /\ sub[s].pc = "idle" /\ ~sub[s].asked /\ sub[s].id = NoId /\ ~sub[s].ready /\ ~sub[s].twice
                      /\ ~sub[s].done /\ sub[s].sent = 0 /\ Len(sub[s].queue) = 0 /\ sub[s].got = 0
  BY <1>1 DEF NoSub
<1>4. CallsKept
  BY <1>3 DEF CallsKept, Unanswered
<1>5. AnswersKept /\ NotesKept /\ Later /\ OwnNotes
  BY <1>2, <1>3 DEF AnswersKept, NotesKept, Later, OwnNotes
<1>6. Holding
  BY <1>2, <1>3 DEF Holding, StreamInit
<1>7. Consecutive
  BY <1>2, <1>3 DEF Consecutive, Due
<1>8. QueueInOrder
  BY <1>3 DEF QueueInOrder
<1> QED
  BY <1>4, <1>5, <1>6, <1>7, <1>8 DEF Delivery

\* The fields of a subscription and of a message.
LEMMA StreamTypes ==
  ASSUME StreamKinds
  PROVE  /\ \A s \in Subs : /\ sub[s].queue \in Seq(Notes) /\ Len(sub[s].queue) \in Nat
                            /\ sub[s].got \in Nat /\ sub[s].sent \in Nat
                            /\ sub[s].id \in Ids \cup {NoId} /\ sub[s].pc \in Phases
                            /\ sub[s].ready \in BOOLEAN /\ sub[s].done \in BOOLEAN
                            /\ sub[s].asked \in BOOLEAN /\ sub[s].twice \in BOOLEAN
         /\ Len(wire) \in Nat
         /\ \A k \in 1..Len(wire) : /\ wire[k] \in Messages /\ wire[k].of \in Subs
                                    /\ wire[k].kind # "error" => wire[k].id \in Ids /\ wire[k].n \in Nat
         /\ active \in [Ids -> SUBSET Subs] /\ pending \subseteq Subs
<1>1. wire \in Seq(Messages) /\ sub \in [Subs -> SubRecords]
  BY DEF StreamKinds, StreamTypeOK
<1>2. Len(wire) \in Nat /\ \A k \in 1..Len(wire) : wire[k] \in Messages
  BY <1>1
<1>3. ASSUME NEW m \in Messages PROVE m.of \in Subs /\ (m.kind # "error" => m.id \in Ids /\ m.n \in Nat)
  BY DEF Messages
<1>4. ASSUME NEW s \in Subs
      PROVE  /\ sub[s].queue \in Seq(Notes)
             /\ sub[s].got \in Nat /\ sub[s].sent \in Nat
             /\ sub[s].id \in Ids \cup {NoId} /\ sub[s].pc \in Phases
             /\ sub[s].ready \in BOOLEAN /\ sub[s].done \in BOOLEAN
             /\ sub[s].asked \in BOOLEAN /\ sub[s].twice \in BOOLEAN
  <2>1. sub[s] \in SubRecords
    BY <1>1
  <2> QED
    BY <2>1 DEF SubRecords
<1>5. \A s \in Subs : Len(sub[s].queue) \in Nat
  BY <1>4
<1> QED
  BY <1>2, <1>3, <1>4, <1>5 DEF StreamKinds, StreamTypeOK

\* A step of a caller: what the others have, what is under way and what the node knows stay.
Moves(s) ==
    /\ wire' = wire /\ pending \subseteq pending'
    /\ (Reading' => Reading) /\ (~reader' => Done')
    /\ \A i \in Ids : active'[i] \subseteq active[i] /\ \A q \in active[i] : q # s => q \in active'[i]
    /\ \A q \in Subs : q # s => sub'[q] = sub[q]
    /\ sub'[s].ready = sub[s].ready /\ sub'[s].twice = sub[s].twice /\ sub'[s].sent = sub[s].sent
    /\ sub[s].done => sub'[s].done
    /\ sub'[s].done => sub'[s].ready
    /\ sub'[s].id = sub[s].id \/ (sub'[s].id = NoId /\ sub'[s].done)
    /\ \A i \in Ids : s \in active'[i] => ~sub'[s].done
    /\ ~sub'[s].done => \A i \in Ids : s \in active[i] => s \in active'[i]
    /\ Unanswered(s)' => Unanswered(s)
    /\ sub'[s].got + Len(sub'[s].queue) = sub[s].got + Len(sub[s].queue)

LEMMA CallersDeliver ==
  ASSUME StreamKinds, Delivery, NEW s \in Subs, Moves(s), CallsKept', QueueInOrder'
  PROVE  Delivery'
<1> USE DEF Delivery
<1>1. \A q \in Subs : /\ sub'[q].ready = sub[q].ready /\ sub'[q].twice = sub[q].twice
                      /\ sub'[q].sent = sub[q].sent /\ Due(q)' = Due(q) /\ (~sub'[q].done => ~sub[q].done)
                      /\ sub'[q].id = sub[q].id \/ (sub'[q].id = NoId /\ sub'[q].done /\ sub'[q].ready)
                      /\ (Unanswered(q)' => Unanswered(q))
  BY DEF Moves, Due, Unanswered
<1>2. wire' = wire /\ pending \subseteq pending' /\ (Reading' => Reading) /\ (~reader' => Done')
      /\ \A i \in Ids : active'[i] \subseteq active[i]
  BY DEF Moves
<1>3. AnswersKept'
  BY <1>1, <1>2 DEF AnswersKept, Answers, Grants
<1>4. NotesKept'
  BY <1>1, <1>2 DEF NotesKept, Tells, Answers
<1>5. Holding'
  <2>1. \A i \in Ids : \A q \in active'[i] : sub'[q].id = i /\ sub'[q].ready /\ ~sub'[q].done
    BY <1>1, <1>2, StreamTypes DEF Holding, Moves
  <2>2. \A i \in Ids : \A p, q \in active'[i] : p = q
    BY <1>2 DEF Holding
  <2>3. ASSUME Reading', NEW q \in Subs, sub'[q].id # NoId, ~sub'[q].done
        PROVE  q \in active'[sub'[q].id] \/ \E k \in 1..Len(wire) : Grants(wire[k], q)
    <3>1. sub'[q].id = sub[q].id /\ ~sub[q].done /\ sub[q].id \in Ids /\ Reading
      BY <1>1, <1>2, <2>3, StreamTypes
    <3>2. q \in active[sub[q].id] => q \in active'[sub[q].id]
      BY <3>1, <2>3 DEF Moves
    <3>3. q \in active[sub[q].id] \/ \E k \in 1..Len(wire) : Grants(wire[k], q)
      BY <2>3, <3>1 DEF Holding
    <3> QED
      BY <3>1, <3>2, <3>3
  <2> QED
    BY <1>2, <2>1, <2>2, <2>3 DEF Holding, Grants
<1>6. Later'
  <2> SUFFICES ASSUME Reading', NEW r \in Subs, NEW q \in Subs, r # q, sub'[r].id = sub'[q].id,
                      sub'[q].id # NoId, ~sub'[q].twice
               PROVE  /\ \A j \in 1..Len(wire) : Grants(wire[j], q) =>
                            \E k \in 1..Len(wire) : j < k /\ Grants(wire[k], r)
                      /\ q \in active'[sub'[q].id] => \E k \in 1..Len(wire) : Grants(wire[k], r)
    BY <1>2 DEF Later, Grants
  <2>1. sub'[r].id = sub[r].id /\ sub'[q].id = sub[q].id /\ ~sub[q].twice /\ Reading /\ sub[q].id \in Ids
    BY <1>1, <1>2, StreamTypes
  <2>2. q \in active'[sub'[q].id] => q \in active[sub[q].id]
    BY <1>2, <2>1
  <2> QED
    BY <2>1, <2>2 DEF Later
<1>7. OwnNotes'
  <2> SUFFICES ASSUME Reading', NEW k \in 1..Len(wire), NEW i \in Ids, wire[k].kind = "note", wire[k].id = i,
                      NEW q \in Subs, ~sub'[q].twice, Holds(q, i, k)'
               PROVE  wire[k].of = q
    BY <1>2 DEF OwnNotes
  <2>1. Holds(q, i, k)
    BY <1>2 DEF Holds, Unclaimed, Grants
  <2> QED
    BY <1>1, <1>2, <2>1 DEF OwnNotes
<1>8. Consecutive'
  BY <1>1, <1>2 DEF Consecutive, Tells
<1> QED
  BY <1>3, <1>4, <1>5, <1>6, <1>7, <1>8

LEMMA StopDelivers ==
  ASSUME Delivery, StopStream \/ UNCHANGED closed, UNCHANGED reader
  PROVE  (Reading' => Reading) /\ (~reader' => Done')
BY DEF Delivery, Holding, StopStream, Reading, Done

LEMMA ToDelivers ==
  ASSUME StreamKinds, Delivery, NEW s \in Subs, NEW pc \in Phases, To(s, pc),
         UNCHANGED <<wire, active, reader>>, StopStream \/ UNCHANGED closed, pending \subseteq pending',
         pc \in {"idle", "write"} => sub[s].pc \in {"idle", "write"} /\ s \in pending',
         pc \in {"open", "recv"} => sub[s].ready
  PROVE  Delivery'
<1> USE DEF Delivery
<1>1. sub \in [Subs -> SubRecords] /\ sub[s] \in SubRecords
  BY DEF StreamKinds
<1>2. \A q \in Subs : q # s => sub'[q] = sub[q]
  BY <1>1 DEF To
<1>3. sub'[s] = [sub[s] EXCEPT !.pc = pc]
  BY <1>1 DEF To
<1>4. /\ sub'[s].ready = sub[s].ready /\ sub'[s].twice = sub[s].twice /\ sub'[s].sent = sub[s].sent
      /\ sub'[s].done = sub[s].done /\ sub'[s].id = sub[s].id /\ sub'[s].asked = sub[s].asked
      /\ sub'[s].got = sub[s].got /\ sub'[s].queue = sub[s].queue /\ sub'[s].pc = pc
  BY <1>1, <1>3 DEF SubRecords
<1>5. Moves(s)
  <2>1. (Reading' => Reading) /\ (~reader' => Done')
    BY StopDelivers
  <2>2. Unanswered(s)' => Unanswered(s)
    BY <1>4 DEF Unanswered
  <2>3. sub[s].done => sub[s].ready
    BY DEF CallsKept
  <2>4. \A i \in Ids : s \in active[i] => ~sub[s].done
    BY DEF Holding
  <2> QED
    BY <1>2, <1>4, <2>1, <2>2, <2>3, <2>4 DEF Moves
<1>6. CallsKept'
  <2>1. \A q \in Subs : q # s => Unanswered(q)' = Unanswered(q)
    BY <1>2 DEF Unanswered
  <2>2. Unanswered(s)' => Unanswered(s)
    BY <1>4 DEF Unanswered
  <2> QED
    BY <1>2, <1>4, <2>1, <2>2 DEF CallsKept
<1>7. QueueInOrder'
  BY <1>2, <1>4 DEF QueueInOrder
<1> QED
  BY <1>5, <1>6, <1>7, CallersDeliver

LEMMA CallerDelivers ==
  ASSUME StreamKinds, Delivery, NEW s \in Subs,
         \/ SubscribeBegin(s) \/ SubscribeWrite(s) \/ SubscribeEnd(s) \/ RecvBegin(s)
         \/ RecvTake(s) \/ RecvEnds(s) \/ RecvCancelled(s) \/ Unsubscribe(s)
  PROVE  Delivery'
<1> USE DEF Delivery
<1>1. sub \in [Subs -> SubRecords] /\ sub[s] \in SubRecords
  BY DEF StreamKinds
<1>2. CASE SubscribeBegin(s)
  BY <1>2, ToDelivers DEF SubscribeBegin, Phases
<1>3. CASE SubscribeWrite(s)
  <2>1. CASE To(s, "ended") /\ StopStream
    BY <1>3, <2>1, ToDelivers DEF SubscribeWrite, Phases
  <2>2. CASE sub' = [sub EXCEPT ![s].pc = "wait", ![s].asked = TRUE] /\ UNCHANGED closed
    <3>1. \A q \in Subs : q # s => sub'[q] = sub[q]
      BY <1>1, <2>2
    <3>2. sub'[s] = [sub[s] EXCEPT !.pc = "wait", !.asked = TRUE]
      BY <1>1, <2>2
    <3>3. /\ sub'[s].ready = sub[s].ready /\ sub'[s].twice = sub[s].twice /\ sub'[s].sent = sub[s].sent
          /\ sub'[s].done = sub[s].done /\ sub'[s].id = sub[s].id /\ sub'[s].asked = TRUE
          /\ sub'[s].got = sub[s].got /\ sub'[s].queue = sub[s].queue /\ sub'[s].pc = "wait"
      BY <1>1, <3>2 DEF SubRecords
    <3>4. sub[s].pc = "write" /\ UNCHANGED <<reader, pending, active, wire>>
      BY <1>3 DEF SubscribeWrite
    <3>5. Moves(s)
      <4>1. (Reading' => Reading) /\ (~reader' => Done')
        BY <2>2, <3>4, StopDelivers
      <4>2. Unanswered(s)
        BY <3>4 DEF Unanswered
      <4>3. sub[s].done => sub[s].ready
        BY DEF CallsKept
      <4>4. \A i \in Ids : s \in active[i] => ~sub[s].done
        BY DEF Holding
      <4> QED
        BY <3>1, <3>3, <3>4, <4>1, <4>2, <4>3, <4>4 DEF Moves
    <3>6. CallsKept'
      <4>1. \A q \in Subs : q # s => Unanswered(q)' = Unanswered(q)
        BY <3>1 DEF Unanswered
      <4>2. Unanswered(s)
        BY <3>4 DEF Unanswered
      <4> QED
        BY <3>1, <3>3, <3>4, <4>1, <4>2 DEF CallsKept
    <3>7. QueueInOrder'
      BY <3>1, <3>3 DEF QueueInOrder
    <3> QED
      BY <3>5, <3>6, <3>7, CallersDeliver
  <2> QED
    BY <1>3, <2>1, <2>2 DEF SubscribeWrite
<1>4. CASE SubscribeEnd(s)
  <2>1. \E pc \in {"ended", "open"} : To(s, pc) /\ (pc = "open" => sub[s].ready)
    BY <1>4 DEF SubscribeEnd
  <2>2. UNCHANGED <<reader, pending, active, wire>> /\ (StopStream \/ UNCHANGED closed)
    BY <1>4 DEF SubscribeEnd
  <2> QED
    BY <2>1, <2>2, ToDelivers DEF Phases
<1>5. CASE RecvBegin(s)
  <2>1. sub[s].ready
    BY <1>5 DEF RecvBegin, CallsKept
  <2>2. \E pc \in {"ended", "recv"} : To(s, pc)
    BY <1>5 DEF RecvBegin
  <2>3. UNCHANGED <<closed, reader, pending, active, wire>>
    BY <1>5 DEF RecvBegin
  <2> QED
    BY <2>1, <2>2, <2>3, ToDelivers DEF Phases
<1>6. CASE RecvEnds(s)
  <2>1. To(s, "ended") /\ UNCHANGED <<closed, reader, pending, active, wire>>
    BY <1>6 DEF RecvEnds
  <2> QED
    BY <2>1, ToDelivers DEF Phases
<1>7. CASE RecvTake(s)
  <2>1. UNCHANGED <<closed, reader, pending, active, wire>> /\ sub[s].pc = "recv" /\ sub[s].queue # <<>>
    BY <1>7 DEF RecvTake
  <2>2. \A q \in Subs : q # s => sub'[q] = sub[q]
    BY <1>1, <1>7 DEF RecvTake
  <2>3. sub'[s] = [sub[s] EXCEPT !.pc = "open", !.queue = Tail(@), !.got = @ + 1]
    BY <1>1, <1>7 DEF RecvTake
  <2>4. /\ sub'[s].ready = sub[s].ready /\ sub'[s].twice = sub[s].twice /\ sub'[s].sent = sub[s].sent
        /\ sub'[s].done = sub[s].done /\ sub'[s].id = sub[s].id /\ sub'[s].asked = sub[s].asked
        /\ sub'[s].got = sub[s].got + 1 /\ sub'[s].queue = Tail(sub[s].queue) /\ sub'[s].pc = "open"
    BY <1>1, <2>3 DEF SubRecords
  <2>5. /\ sub[s].queue \in Seq(Notes) /\ sub[s].got \in Nat
    BY StreamTypes
  <2>6. /\ Len(Tail(sub[s].queue)) = Len(sub[s].queue) - 1 /\ Len(sub[s].queue) \in Nat
        /\ \A k \in 1..(Len(sub[s].queue) - 1) : Tail(sub[s].queue)[k] = sub[s].queue[k + 1]
    BY <2>1, <2>5
  <2>7. sub[s].ready
    BY <2>1 DEF CallsKept
  <2>8. Moves(s)
    <3>1. (Reading' => Reading) /\ (~reader' => Done')
      BY <2>1, StopDelivers
    <3>2. Unanswered(s)' => Unanswered(s)
      BY <2>4 DEF Unanswered
    <3>3. \A i \in Ids : s \in active[i] => ~sub[s].done
      BY DEF Holding
    <3>4. sub'[s].got + Len(sub'[s].queue) = sub[s].got + Len(sub[s].queue)
      BY <2>4, <2>5, <2>6
    <3> QED
      BY <2>1, <2>2, <2>4, <2>7, <3>1, <3>2, <3>3, <3>4 DEF Moves
  <2>9. CallsKept'
    <3>1. \A q \in Subs : q # s => Unanswered(q)' = Unanswered(q)
      BY <2>2 DEF Unanswered
    <3>2. Unanswered(s)' => Unanswered(s)
      BY <2>4 DEF Unanswered
    <3> QED
      BY <2>1, <2>2, <2>4, <2>7, <3>1, <3>2 DEF CallsKept
  <2>10. QueueInOrder'
    <3>1. ASSUME ~sub[s].twice, NEW k \in 1..(Len(sub[s].queue) - 1)
          PROVE  Tail(sub[s].queue)[k] = [of |-> s, n |-> sub[s].got + 1 + k]
      <4>1. k + 1 \in 1..Len(sub[s].queue) /\ sub[s].got + (k + 1) = sub[s].got + 1 + k
        BY ONLY <2>5, <2>6, k \in 1..(Len(sub[s].queue) - 1)
      <4>2. sub[s].queue[k + 1] = [of |-> s, n |-> sub[s].got + (k + 1)]
        BY <3>1, <4>1 DEF QueueInOrder
      <4> QED
        BY <2>6, <4>1, <4>2
    <3>2. ASSUME ~sub'[s].twice, NEW k \in 1..Len(sub'[s].queue)
          PROVE  sub'[s].queue[k] = [of |-> s, n |-> sub'[s].got + k]
      BY <2>4, <2>6, <3>1, <3>2
    <3>3. ASSUME NEW q \in Subs, q # s, ~sub'[q].twice, NEW k \in 1..Len(sub'[q].queue)
          PROVE  sub'[q].queue[k] = [of |-> q, n |-> sub'[q].got + k]
      BY <2>2, <3>3 DEF QueueInOrder
    <3> QED
      BY <3>2, <3>3 DEF QueueInOrder
  <2> QED
    BY <2>8, <2>9, <2>10, CallersDeliver
<1>8. CASE Unsubscribe(s)
  <2>1. /\ sub[s].pc \in {"open", "recv"} /\ ~sub[s].done /\ UNCHANGED <<reader, pending, wire>>
        /\ StopStream \/ UNCHANGED closed
        /\ active' = [i \in Ids |-> active[i] \ {s}]
    BY <1>8 DEF Unsubscribe
  <2>2. \A q \in Subs : q # s => sub'[q] = sub[q]
    BY <1>1, <1>8 DEF Unsubscribe
  <2>3. \E i \in {NoId, sub[s].id} : sub'[s] = [sub[s] EXCEPT !.done = TRUE, !.id = i]
    <3>1. sub[s] = [sub[s] EXCEPT !.id = sub[s].id]
      BY <1>1 DEF SubRecords
    <3>2. [sub[s] EXCEPT !.done = TRUE] = [sub[s] EXCEPT !.done = TRUE, !.id = sub[s].id]
      BY <1>1 DEF SubRecords
    <3> QED
      BY <1>1, <1>8, <3>2 DEF Unsubscribe
  <2>4. /\ sub'[s].ready = sub[s].ready /\ sub'[s].twice = sub[s].twice /\ sub'[s].sent = sub[s].sent
        /\ sub'[s].done = TRUE /\ sub'[s].id \in {NoId, sub[s].id} /\ sub'[s].asked = sub[s].asked
        /\ sub'[s].got = sub[s].got /\ sub'[s].queue = sub[s].queue /\ sub'[s].pc = sub[s].pc
    BY <1>1, <2>3 DEF SubRecords
  <2>5. sub[s].ready /\ ~Unanswered(s)
    BY <2>1 DEF CallsKept
  <2>6. Unanswered(s)' = Unanswered(s)
    BY <2>4 DEF Unanswered
  <2>7. Moves(s)
    <3>1. (Reading' => Reading) /\ (~reader' => Done')
      BY <2>1, StopDelivers
    <3>2. \A i \in Ids : active'[i] \subseteq active[i] /\ s \notin active'[i] /\ \A q \in active[i] : q # s => q \in active'[i]
      BY <2>1
    <3> QED
      BY <2>1, <2>2, <2>4, <2>5, <2>6, <3>1, <3>2 DEF Moves
  <2>8. CallsKept'
    <3>1. \A q \in Subs : q # s => Unanswered(q)' = Unanswered(q)
      BY <2>2 DEF Unanswered
    <3> QED
      BY <2>1, <2>2, <2>4, <2>5, <2>6, <3>1 DEF CallsKept
  <2>9. QueueInOrder'
    BY <2>2, <2>4 DEF QueueInOrder
  <2> QED
    BY <2>7, <2>8, <2>9, CallersDeliver
<1>9. CASE RecvCancelled(s)
  <2>1. sub[s].ready
    BY <1>9 DEF RecvCancelled, CallsKept
  <2>2. To(s, "open") /\ UNCHANGED <<closed, reader, pending, active, wire>>
    BY <1>9 DEF RecvCancelled
  <2> QED
    BY <2>1, <2>2, ToDelivers DEF Phases
<1> QED
  BY <1>2, <1>3, <1>4, <1>5, <1>6, <1>7, <1>8, <1>9

\* The end of the connection.
LEMMA EndDelivers == ASSUME StreamKinds, Delivery, CloseStream \/ StreamFails PROVE Delivery'
<1> USE DEF Delivery
<1>1. UNCHANGED <<pending, active, sub>> /\ ~Reading' /\ Done' /\ (wire' = wire \/ wire' = <<>>)
  BY DEF CloseStream, StreamFails, Reading, StopStream, Done
<1>2. CallsKept' /\ QueueInOrder'
  BY <1>1 DEF CallsKept, Unanswered, QueueInOrder
<1>3. AnswersKept' /\ NotesKept'
  <2>1. wire' = <<>> => Len(wire') = 0
    OBVIOUS
  <2> QED
    BY <1>1, <2>1 DEF AnswersKept, NotesKept, Answers, Grants, Tells, Unanswered
<1>4. Holding' /\ Later' /\ OwnNotes' /\ Consecutive'
  BY <1>1 DEF Holding, Later, OwnNotes, Consecutive
<1> QED
  BY <1>2, <1>3, <1>4

\* One more message.
LEMMA Appended ==
  ASSUME NEW m \in Messages, wire \in Seq(Messages), wire' = Append(wire, m)
  PROVE  /\ Len(wire') = Len(wire) + 1 /\ Len(wire) \in Nat /\ wire'[Len(wire) + 1] = m
         /\ \A k \in 1..Len(wire) : wire'[k] = wire[k]
         /\ \A k \in 1..Len(wire') : k \in 1..Len(wire) \/ k = Len(wire) + 1
  OBVIOUS

LEMMA NotifyDelivers == ASSUME StreamKinds, Delivery, NEW s \in Subs, NodeNotifies(s) PROVE Delivery'
<1> USE DEF Delivery
<1>1. /\ sub[s].id \in Ids /\ sub[s].sent \in Nat
      /\ UNCHANGED <<closed, reader, pending, active>>
  BY StreamTypes DEF NodeNotifies
<1>2. PICK m \in Messages : m = [kind |-> "note", of |-> s, id |-> sub[s].id, n |-> sub[s].sent + 1]
  <2>1. [kind |-> "note", of |-> s, id |-> sub[s].id, n |-> sub[s].sent + 1] \in Messages
    BY <1>1 DEF Messages
  <2> QED
    BY <2>1
<1>3. m.kind = "note" /\ m.of = s /\ m.id = sub[s].id /\ m.n = sub[s].sent + 1
  BY <1>2
<1>4. PICK n \in Nat : n = Len(wire)
  BY StreamTypes
<1>5. /\ Len(wire') = n + 1 /\ wire'[n + 1] = m
      /\ \A k \in 1..n : wire'[k] = wire[k]
      /\ \A k \in 1..(n + 1) : k \in 1..n \/ k = n + 1
  BY <1>2, <1>4, Appended DEF NodeNotifies, StreamKinds, StreamTypeOK
<1>6. \A q \in Subs : /\ sub'[q].pc = sub[q].pc /\ sub'[q].ready = sub[q].ready /\ sub'[q].twice = sub[q].twice
                      /\ sub'[q].done = sub[q].done /\ sub'[q].id = sub[q].id /\ sub'[q].asked = sub[q].asked
                      /\ sub'[q].got = sub[q].got /\ sub'[q].queue = sub[q].queue
                      /\ sub'[q].sent = IF q = s THEN sub[q].sent + 1 ELSE sub[q].sent
  <2>1. sub \in [Subs -> SubRecords] /\ sub' = [sub EXCEPT ![s] = [sub[s] EXCEPT !.sent = sub[s].sent + 1]]
    BY DEF StreamKinds, NodeNotifies
  <2>2. ASSUME NEW q \in Subs, q # s PROVE sub'[q] = sub[q]
    BY <2>1, <2>2
  <2>3. sub'[s] = [sub[s] EXCEPT !.sent = sub[s].sent + 1] /\ sub[s] \in SubRecords
    BY <2>1
  <2> QED
    BY <2>2, <2>3 DEF SubRecords
<1>7. Reading' = Reading /\ Done' = Done /\ \A q \in Subs : Unanswered(q)' = Unanswered(q) /\ Due(q)' = Due(q)
  BY <1>1, <1>6 DEF Reading, Done, Unanswered, Due
<1>8. CallsKept' /\ QueueInOrder'
  <2>1. sub[s].id # NoId
    BY DEF NodeNotifies
  <2> QED
    BY <1>1, <1>6, <1>7, <2>1 DEF CallsKept, QueueInOrder
<1>9. \A q \in Subs : ~Answers(m, q) /\ ~Grants(m, q) /\ (Tells(m, q) => q = s)
  BY <1>3 DEF Answers, Grants, Tells
<1>10. AnswersKept'
  BY <1>1, <1>4, <1>5, <1>6, <1>7, <1>9 DEF AnswersKept
<1>11. NotesKept'
  BY <1>3, <1>4, <1>5, <1>6, <1>9 DEF NotesKept
<1>12. Holding'
  <2>1. ASSUME NEW q \in Subs, \E k \in 1..Len(wire) : Grants(wire[k], q)
        PROVE  \E k \in 1..Len(wire') : Grants(wire'[k], q)
    BY <1>4, <1>5, <2>1
  <2>2. ASSUME Reading', NEW q \in Subs, sub[q].id # NoId, ~sub[q].done
        PROVE  q \in active[sub[q].id] \/ \E k \in 1..Len(wire') : Grants(wire'[k], q)
    BY <1>7, <2>1, <2>2 DEF Holding
  <2>3. (~reader' => Done') /\ \A i \in Ids : \A p, q \in active[i] : p = q
    BY <1>1, <1>7 DEF Holding
  <2>4. \A i \in Ids : \A q \in active[i] : sub[q].id = i /\ sub[q].ready /\ ~sub[q].done /\ q \in Subs
    BY StreamTypes DEF Holding
  <2> QED
    BY <1>1, <1>6, <2>2, <2>3, <2>4 DEF Holding
<1>13. Later'
  <2>1. \A k \in 1..n : k \in 1..(n + 1)
    OBVIOUS
  <2> QED
    BY <1>1, <1>4, <1>5, <1>6, <1>7, <1>9, <2>1 DEF Later
<1>14. OwnNotes'
  <2> SUFFICES ASSUME Reading', NEW k \in 1..(n + 1), NEW i \in Ids, wire'[k].kind = "note", wire'[k].id = i,
                      NEW q \in Subs, ~sub[q].twice, Holds(q, i, k)'
               PROVE  wire'[k].of = q
    BY <1>5, <1>6 DEF OwnNotes
  <2>2. \/ q \in active[i] /\ \A l \in 1..n : l < k => ~(wire[l].kind = "result" /\ wire[l].id = i)
        \/ \E j \in 1..n : /\ j < k /\ Grants(wire[j], q) /\ wire[j].id = i
                            /\ \A l \in 1..n : j < l /\ l < k => ~(wire[l].kind = "result" /\ wire[l].id = i)
    BY <1>1, <1>5, <1>9 DEF Holds, Unclaimed
  <2>3. CASE k \in 1..n
    <3>1. wire'[k] = wire[k]
      BY <1>5, <2>3
    <3>2. Holds(q, i, k)
      BY <1>4, <2>2 DEF Holds, Unclaimed
    <3> QED
      BY <1>4, <1>7, <2>3, <3>1, <3>2 DEF OwnNotes
  <2>4. CASE k = n + 1
    <3>1. wire'[k].of = s /\ i = sub[s].id /\ i \in Ids
      BY <1>1, <1>3, <1>5, <2>4
    <3>2. SUFFICES ASSUME q # s PROVE FALSE
      BY <3>1
    <3>3. \A l \in 1..n : Grants(wire[l], s) => wire[l].kind = "result" /\ wire[l].id = i /\ l < k
      BY <1>4, <2>4, <3>1 DEF AnswersKept, Answers, Grants
    <3>4. ASSUME q \in active[i], \A l \in 1..n : l < k => ~(wire[l].kind = "result" /\ wire[l].id = i)
          PROVE  FALSE
      <4>1. sub[q].id = i
        BY <3>1, <3>4 DEF Holding
      <4>2. \E l \in 1..n : Grants(wire[l], s)
        BY <1>1, <1>4, <1>7, <3>1, <3>2, <3>4, <4>1 DEF Later, NodeNotifies
      <4> QED
        BY <3>3, <3>4, <4>2
    <3>5. ASSUME NEW j \in 1..n, Grants(wire[j], q), wire[j].id = i,
                 \A l \in 1..n : j < l /\ l < k => ~(wire[l].kind = "result" /\ wire[l].id = i)
          PROVE  FALSE
      <4>1. sub[q].id = i
        BY <1>4, <3>5 DEF AnswersKept, Answers, Grants
      <4>2. \E l \in 1..n : j < l /\ Grants(wire[l], s)
        BY <1>1, <1>4, <1>7, <3>1, <3>2, <3>5, <4>1 DEF Later, NodeNotifies
      <4> QED
        BY <3>3, <3>5, <4>2
    <3> QED
      BY <2>2, <3>4, <3>5
  <2> QED
    BY <2>3, <2>4
<1>15. Consecutive'
  <2> SUFFICES ASSUME Reading', NEW q \in Subs, ~sub[q].twice, ~sub[q].done
               PROVE  /\ \A k \in 1..(n + 1) : Tells(wire'[k], q) => wire'[k].n \in Due(q)..sub'[q].sent
                      /\ \A j, k \in 1..(n + 1) : Tells(wire'[j], q) /\ Tells(wire'[k], q) /\ j < k
                            => wire'[j].n < wire'[k].n
                      /\ \A x \in Due(q)..sub'[q].sent : \E k \in 1..(n + 1) : Tells(wire'[k], q) /\ wire'[k].n = x
                      /\ Due(q) <= sub'[q].sent + 1
    BY <1>5, <1>6, <1>7 DEF Consecutive
  <2>1. /\ \A k \in 1..n : Tells(wire[k], q) => wire[k].n \in Due(q)..sub[q].sent
        /\ \A j, k \in 1..n : Tells(wire[j], q) /\ Tells(wire[k], q) /\ j < k => wire[j].n < wire[k].n
        /\ \A x \in Due(q)..sub[q].sent : \E k \in 1..n : Tells(wire[k], q) /\ wire[k].n = x
        /\ Due(q) <= sub[q].sent + 1
    BY <1>4, <1>7 DEF Consecutive
  <2>2. Due(q) \in Nat /\ sub[q].sent \in Nat
    BY StreamTypes DEF Due
  <2>3. CASE q # s
    BY <1>5, <1>6, <1>9, <2>1, <2>3
  <2>4. CASE q = s
    <3>1. sub'[q].sent = sub[q].sent + 1 /\ m.n = sub[q].sent + 1 /\ Tells(m, q)
      BY <1>3, <1>6, <2>4 DEF Tells
    <3>2. \A k \in 1..(n + 1) : Tells(wire'[k], q) => wire'[k].n \in Due(q)..sub'[q].sent
      BY <1>5, <2>1, <2>2, <3>1
    <3>3. \A j, k \in 1..(n + 1) : Tells(wire'[j], q) /\ Tells(wire'[k], q) /\ j < k => wire'[j].n < wire'[k].n
      BY <1>5, <2>1, <2>2, <3>1
    <3>4. ASSUME NEW x \in Due(q)..sub'[q].sent
          PROVE  \E k \in 1..(n + 1) : Tells(wire'[k], q) /\ wire'[k].n = x
      <4>1. CASE x = sub[q].sent + 1
        BY <1>5, <3>1, <4>1
      <4>2. CASE x \in Due(q)..sub[q].sent
        BY <1>5, <2>1, <4>2
      <4> QED
        BY <2>2, <3>1, <4>1, <4>2
    <3> QED
      BY <2>1, <2>2, <3>1, <3>2, <3>3, <3>4
  <2> QED
    BY <2>3, <2>4
<1> QED
  BY <1>8, <1>10, <1>11, <1>12, <1>13, <1>14, <1>15

LEMMA AnswerDelivers == ASSUME StreamKinds, Delivery, NEW s \in Subs, NodeAnswers(s) PROVE Delivery'
<1> USE DEF Delivery
<1>1. UNCHANGED <<closed, reader, pending, active>> /\ sub[s].asked
  BY DEF NodeAnswers
<1>2. PICK m \in Messages, i \in Ids \cup {NoId}, twice \in BOOLEAN :
         /\ m.kind # "note" /\ m.of = s /\ wire' = Append(wire, m)
         /\ m.kind = "error" => i = NoId /\ twice = FALSE
         /\ m.kind = "result" => m.id = i /\ i \in Ids /\ (twice <=> \E r \in Subs : sub[r].id = i)
         /\ sub' = [sub EXCEPT ![s] = [sub[s] EXCEPT !.asked = FALSE, !.id = i, !.twice = twice]]
  <2>1. sub \in [Subs -> SubRecords] /\ sub[s] \in SubRecords /\ sub[s].id = NoId /\ sub[s].twice = FALSE
    <3>1. sub[s].id = NoId /\ ~sub[s].twice
      BY <1>1 DEF CallsKept, Unanswered
    <3> QED
      BY <3>1, StreamTypes DEF StreamKinds
  <2>2. ASSUME wire' = Append(wire, [kind |-> "error", of |-> s]), sub' = [sub EXCEPT ![s].asked = FALSE]
        PROVE  \E m \in Messages, i \in Ids \cup {NoId}, twice \in BOOLEAN :
                 /\ m.kind # "note" /\ m.of = s /\ wire' = Append(wire, m)
                 /\ m.kind = "error" => i = NoId /\ twice = FALSE
                 /\ m.kind = "result" => m.id = i /\ i \in Ids /\ (twice <=> \E r \in Subs : sub[r].id = i)
                 /\ sub' = [sub EXCEPT ![s] = [sub[s] EXCEPT !.asked = FALSE, !.id = i, !.twice = twice]]
    <3>1. PICK m : m = [kind |-> "error", of |-> s]
      OBVIOUS
    <3>2. m \in Messages /\ m.kind = "error" /\ m.of = s
      BY <3>1 DEF Messages
    <3>3. [sub[s] EXCEPT !.asked = FALSE] = [sub[s] EXCEPT !.asked = FALSE, !.id = NoId, !.twice = FALSE]
      BY <2>1 DEF SubRecords
    <3>4. sub' = [sub EXCEPT ![s] = [sub[s] EXCEPT !.asked = FALSE, !.id = NoId, !.twice = FALSE]]
      BY <2>2, <3>3
    <3> QED
      BY <2>2, <3>1, <3>2, <3>4
  <2>3. ASSUME NEW i \in Ids, wire' = Append(wire, [kind |-> "result", of |-> s, id |-> i, n |-> 0]),
               sub' = [sub EXCEPT ![s].asked = FALSE, ![s].id = i, ![s].twice = \E r \in Subs : sub[r].id = i]
        PROVE  \E m \in Messages, j \in Ids \cup {NoId}, twice \in BOOLEAN :
                 /\ m.kind # "note" /\ m.of = s /\ wire' = Append(wire, m)
                 /\ m.kind = "error" => j = NoId /\ twice = FALSE
                 /\ m.kind = "result" => m.id = j /\ j \in Ids /\ (twice <=> \E r \in Subs : sub[r].id = j)
                 /\ sub' = [sub EXCEPT ![s] = [sub[s] EXCEPT !.asked = FALSE, !.id = j, !.twice = twice]]
    <3>1. PICK m : m = [kind |-> "result", of |-> s, id |-> i, n |-> 0]
      OBVIOUS
    <3>2. m \in Messages /\ m.kind = "result" /\ m.of = s /\ m.id = i
      BY <3>1 DEF Messages
    <3>3. PICK twice \in BOOLEAN : twice = \E r \in Subs : sub[r].id = i
      OBVIOUS
    <3>4. sub' = [sub EXCEPT ![s] = [sub[s] EXCEPT !.asked = FALSE, !.id = i, !.twice = twice]]
      BY <2>1, <2>3, <3>3
    <3> QED
      BY <2>3, <3>1, <3>2, <3>3, <3>4
  <2> QED
    BY <2>2, <2>3 DEF NodeAnswers
<1>3. PICK n \in Nat : n = Len(wire)
  BY StreamTypes
<1>4. /\ Len(wire') = n + 1 /\ wire'[n + 1] = m
      /\ \A k \in 1..n : wire'[k] = wire[k]
      /\ \A k \in 1..(n + 1) : k \in 1..n \/ k = n + 1
      /\ \A k \in 1..n : k \in 1..(n + 1) /\ k < n + 1
  BY <1>2, <1>3, Appended DEF StreamKinds, StreamTypeOK
<1>5. \A q \in Subs : q # s => sub'[q] = sub[q]
  BY <1>2 DEF StreamKinds
<1>6. /\ sub'[s].pc = sub[s].pc /\ sub'[s].ready = sub[s].ready /\ sub'[s].done = sub[s].done
      /\ sub'[s].got = sub[s].got /\ sub'[s].queue = sub[s].queue /\ sub'[s].sent = sub[s].sent
      /\ sub'[s].asked = FALSE /\ sub'[s].id = i /\ sub'[s].twice = twice
  <2>1. sub[s] \in SubRecords /\ sub'[s] = [sub[s] EXCEPT !.asked = FALSE, !.id = i, !.twice = twice]
    BY <1>2 DEF StreamKinds
  <2> QED
    BY <2>1 DEF SubRecords
<1>7. /\ sub[s].id = NoId /\ ~sub[s].ready /\ ~sub[s].twice /\ ~sub[s].done /\ sub[s].sent = 0
      /\ s \in pending /\ sub[s].pc \notin {"idle", "write"}
      /\ \A k \in 1..n : ~Answers(wire[k], s) /\ ~Grants(wire[k], s) /\ ~Tells(wire[k], s)
      /\ \A x \in Ids : s \notin active[x]
  <2>1. /\ sub[s].id = NoId /\ ~sub[s].ready /\ ~sub[s].twice /\ ~sub[s].done /\ sub[s].sent = 0
        /\ s \in pending /\ sub[s].pc \notin {"idle", "write"} /\ Unanswered(s)
    BY <1>1 DEF CallsKept, Unanswered
  <2>2. \A k \in 1..n : ~Answers(wire[k], s)
    BY <1>3, <2>1 DEF AnswersKept
  <2>3. \A k \in 1..n : Grants(wire[k], s) => Answers(wire[k], s)
    BY DEF Grants, Answers
  <2>4. ASSUME NEW k \in 1..n, Tells(wire[k], s) PROVE FALSE
    <3>1. wire[k].id = NoId
      BY <1>3, <2>1, <2>4 DEF NotesKept
    <3>2. wire[k].id \in Ids
      BY <1>3, <2>4, StreamTypes DEF Tells
    <3> QED
      BY <3>1, <3>2, StreamAssumption
  <2>5. \A x \in Ids : s \notin active[x]
    BY <2>1 DEF Holding
  <2> QED
    BY <2>1, <2>2, <2>3, <2>4, <2>5
<1>8. Reading' = Reading /\ Done' = Done /\ \A q \in Subs : Due(q)' = Due(q) /\ (q # s => Unanswered(q)' = Unanswered(q))
  BY <1>1, <1>5, <1>6 DEF Reading, Done, Unanswered, Due
<1>9. ~Unanswered(s)'
  BY <1>6, <1>7 DEF Unanswered
<1>10. \A q \in Subs : ~Tells(m, q) /\ (Answers(m, q) => q = s) /\ (Grants(m, q) => q = s)
  BY <1>2 DEF Answers, Grants, Tells
<1>11. CallsKept'
  BY <1>1, <1>5, <1>6, <1>7, <1>8, <1>9 DEF CallsKept
<1>12. QueueInOrder'
  BY <1>5, <1>6, <1>7 DEF QueueInOrder
<1>13. AnswersKept'
  <2>1. ASSUME NEW k \in 1..n, NEW q \in Subs, Answers(wire[k], q)
        PROVE  /\ q # s /\ ~Unanswered(q)' /\ q \in pending' /\ ~sub'[q].ready
               /\ Grants(wire[k], q) => wire[k].id = sub'[q].id
               /\ \A j \in 1..n : Answers(wire[j], q) => j = k
    BY <1>1, <1>3, <1>5, <1>7, <1>8, <2>1 DEF AnswersKept
  <2>2. Grants(m, s) => m.id = sub'[s].id
    BY <1>2, <1>6 DEF Grants
  <2> QED
    BY <1>1, <1>4, <1>6, <1>7, <1>9, <1>10, <2>1, <2>2 DEF AnswersKept
<1>14. NotesKept'
  <2>1. ASSUME NEW k \in 1..n, NEW q \in Subs, Tells(wire[k], q), ~sub'[q].done
        PROVE  q # s /\ wire[k].id = sub'[q].id /\ \A j \in 1..n : Answers(wire[j], q) => j < k
    BY <1>3, <1>5, <1>7, <2>1 DEF NotesKept
  <2> QED
    BY <1>4, <1>10, <2>1 DEF NotesKept
<1>15. Holding'
  <2>1. ASSUME Reading', NEW q \in Subs, sub'[q].id # NoId, ~sub'[q].done
        PROVE  q \in active[sub'[q].id] \/ \E k \in 1..(n + 1) : Grants(wire'[k], q)
    <3>1. CASE q = s
      <4>1. m.kind = "result"
        BY <1>2, <1>6, <2>1, <3>1 DEF Messages
      <4>2. Grants(wire'[n + 1], q)
        BY <1>2, <1>4, <3>1, <4>1 DEF Grants
      <4> QED
        BY <4>2
    <3>2. CASE q # s
      <4>1. q \in active[sub[q].id] \/ \E k \in 1..n : Grants(wire[k], q)
        BY <1>3, <1>5, <1>8, <2>1, <3>2 DEF Holding
      <4> QED
        BY <1>4, <1>5, <3>2, <4>1
    <3> QED
      BY <3>1, <3>2
  <2>2. (~reader' => Done') /\ \A x \in Ids : \A p, q \in active[x] : p = q
    BY <1>1, <1>8 DEF Holding
  <2>3. \A x \in Ids : \A q \in active[x] : sub'[q].id = x /\ sub'[q].ready /\ ~sub'[q].done
    BY <1>5, <1>7, StreamTypes DEF Holding
  <2> QED
    BY <1>1, <1>4, <2>1, <2>2, <2>3 DEF Holding
<1>16. Later'
  <2> SUFFICES ASSUME Reading', NEW r \in Subs, NEW q \in Subs, r # q, sub'[r].id = sub'[q].id,
                      sub'[q].id # NoId, ~sub'[q].twice
               PROVE  /\ \A j \in 1..(n + 1) : Grants(wire'[j], q) =>
                            \E k \in 1..(n + 1) : j < k /\ Grants(wire'[k], r)
                      /\ q \in active[sub'[q].id] => \E k \in 1..(n + 1) : Grants(wire'[k], r)
    BY <1>1, <1>4 DEF Later
  <2>1. q # s
    <3>1. SUFFICES ASSUME q = s PROVE FALSE
      OBVIOUS
    <3>2. sub[r].id = i /\ i # NoId /\ ~twice
      BY <1>5, <1>6, <3>1
    <3> QED
      BY <1>2, <3>2 DEF Messages
  <2>2. sub'[q] = sub[q] /\ ~Grants(m, q)
    BY <1>5, <1>10, <2>1
  <2>3. CASE r = s
    <3>1. i # NoId
      BY <1>6, <2>3
    <3>2. Grants(wire'[n + 1], s)
      BY <1>2, <1>4, <3>1 DEF Grants, Messages
    <3> QED
      BY <1>4, <2>2, <2>3, <3>2
  <2>4. CASE r # s
    <3>1. sub'[r] = sub[r]
      BY <1>5, <2>4
    <3>2. /\ \A j \in 1..n : Grants(wire[j], q) => \E k \in 1..n : j < k /\ Grants(wire[k], r)
          /\ q \in active[sub[q].id] => \E k \in 1..n : Grants(wire[k], r)
      BY <1>3, <1>8, <2>2, <3>1 DEF Later
    <3> QED
      BY <1>4, <2>2, <3>2
  <2> QED
    BY <2>3, <2>4
<1>17. OwnNotes'
  <2> SUFFICES ASSUME Reading', NEW k \in 1..(n + 1), NEW x \in Ids, wire'[k].kind = "note", wire'[k].id = x,
                      NEW q \in Subs, ~sub'[q].twice, Holds(q, x, k)'
               PROVE  wire'[k].of = q
    BY <1>4 DEF OwnNotes
  <2>1. k \in 1..n /\ wire'[k] = wire[k]
    BY <1>2, <1>4
  <2>2. Holds(q, x, k)
    BY <1>1, <1>3, <1>4, <2>1 DEF Holds, Unclaimed
  <2>3. q # s
    BY <1>3, <1>7, <2>2 DEF Holds
  <2> QED
    BY <1>3, <1>5, <1>8, <2>1, <2>2, <2>3 DEF OwnNotes
<1>18. Consecutive'
  <2> SUFFICES ASSUME Reading', NEW q \in Subs, ~sub'[q].twice, ~sub'[q].done
               PROVE  /\ \A k \in 1..(n + 1) : Tells(wire'[k], q) => wire'[k].n \in Due(q)..sub[q].sent
                      /\ \A j, k \in 1..(n + 1) : Tells(wire'[j], q) /\ Tells(wire'[k], q) /\ j < k
                            => wire'[j].n < wire'[k].n
                      /\ \A x \in Due(q)..sub[q].sent : \E k \in 1..(n + 1) : Tells(wire'[k], q) /\ wire'[k].n = x
                      /\ Due(q) <= sub[q].sent + 1
    <3>1. \A q \in Subs : sub'[q].sent = sub[q].sent
      BY <1>5, <1>6
    <3> QED
      BY <1>4, <1>8, <3>1 DEF Consecutive
  <2>1. ~sub[q].twice /\ ~sub[q].done /\ Reading
    BY <1>5, <1>6, <1>7, <1>8
  <2>2. /\ \A k \in 1..n : Tells(wire[k], q) => wire[k].n \in Due(q)..sub[q].sent
        /\ \A j, k \in 1..n : Tells(wire[j], q) /\ Tells(wire[k], q) /\ j < k => wire[j].n < wire[k].n
        /\ \A x \in Due(q)..sub[q].sent : \E k \in 1..n : Tells(wire[k], q) /\ wire[k].n = x
        /\ Due(q) <= sub[q].sent + 1
    BY <1>3, <2>1 DEF Consecutive
  <2> QED
    BY <1>4, <1>10, <2>2
<1> QED
  BY <1>11, <1>12, <1>13, <1>14, <1>15, <1>16, <1>17, <1>18

\* The reader has taken a message.
LEMMA Taken ==
  ASSUME wire \in Seq(Messages), wire # <<>>, wire' = Tail(wire)
  PROVE  /\ Len(wire) \in Nat /\ Len(wire) > 0 /\ Len(wire') = Len(wire) - 1
         /\ \A k \in 1..Len(wire') : k + 1 \in 1..Len(wire) /\ k + 1 > 1 /\ wire'[k] = wire[k + 1]
         /\ \A k \in 1..Len(wire) : k > 1 => k - 1 \in 1..Len(wire') /\ wire'[k - 1] = wire[k]
  OBVIOUS

\* A notification that is read has the number that is due.
LEMMA HeadDue ==
  ASSUME StreamKinds, Delivery, Reading, wire # <<>>, NEW s \in Subs, ~sub[s].twice,
         wire[1].kind = "note", s \in active[wire[1].id]
  PROVE  wire[1].of = s /\ wire[1].n = Due(s) /\ ~sub[s].done /\ Due(s) <= sub[s].sent
<1> USE DEF Delivery
<1>1. 1 \in 1..Len(wire) /\ wire[1].id \in Ids /\ Len(wire) \in Nat
  <2>1. wire \in Seq(Messages)
    BY DEF StreamKinds, StreamTypeOK
  <2>2. Len(wire) \in Nat /\ 1 \in 1..Len(wire)
    BY <2>1
  <2> QED
    BY <2>2, StreamTypes
<1>2. Holds(s, wire[1].id, 1)
  BY DEF Holds, Unclaimed
<1>3. wire[1].of = s
  BY <1>1, <1>2 DEF OwnNotes
<1>4. Tells(wire[1], s) /\ ~sub[s].done
  BY <1>1, <1>3 DEF Tells, Holding
<1>5. wire[1].n \in Due(s)..sub[s].sent /\ Due(s) \in Nat /\ sub[s].sent \in Nat
  BY <1>1, <1>4, StreamTypes DEF Consecutive, Due
<1>6. PICK k \in 1..Len(wire) : Tells(wire[k], s) /\ wire[k].n = Due(s)
  <2>1. Due(s) \in Due(s)..sub[s].sent
    BY <1>5
  <2> QED
    BY <1>4, <2>1 DEF Consecutive
<1>7. k > 1 => wire[1].n < wire[k].n
  BY <1>1, <1>4, <1>6 DEF Consecutive
<1> QED
  BY <1>3, <1>4, <1>5, <1>6, <1>7

\* A notification to s is not read while s has not its id.
LEMMA HeadMeets ==
  ASSUME StreamKinds, Delivery, Reading, wire # <<>>, NEW s \in Subs, ~sub[s].done, Tells(wire[1], s)
  PROVE  s \in active[wire[1].id]
<1> USE DEF Delivery
<1>1. 1 \in 1..Len(wire) /\ Len(wire) \in Nat /\ wire[1].id \in Ids
  <2>1. wire \in Seq(Messages)
    BY DEF StreamKinds, StreamTypeOK
  <2>2. Len(wire) \in Nat /\ 1 \in 1..Len(wire)
    BY <2>1
  <2> QED
    BY <2>2, StreamTypes DEF Tells
<1>2. wire[1].id = sub[s].id /\ \A j \in 1..Len(wire) : Answers(wire[j], s) => j < 1
  BY <1>1 DEF NotesKept
<1>3. \A j \in 1..Len(wire) : ~Grants(wire[j], s)
  BY <1>1, <1>2 DEF Grants, Answers
<1>4. sub[s].id # NoId
  BY <1>1, <1>2, StreamAssumption
<1> QED
  BY <1>2, <1>3, <1>4 DEF Holding

\* What a read leaves of a subscription, whatever the message.
Kept(q) ==
    /\ sub'[q].done = sub[q].done /\ sub'[q].id = sub[q].id /\ sub'[q].twice = sub[q].twice
    /\ sub'[q].sent = sub[q].sent /\ sub'[q].got = sub[q].got
    /\ sub'[q].pc = sub[q].pc /\ sub'[q].asked = sub[q].asked

LEMMA ReadKeeps ==
  ASSUME StreamKinds, Delivery, wire # <<>>, wire' = Tail(wire), \A q \in Subs : Kept(q),
         \A q \in Subs : IF Answers(wire[1], q) THEN sub'[q].ready
                         ELSE sub'[q].ready = sub[q].ready /\ (q \in pending => q \in pending')
  PROVE  CallsKept' /\ AnswersKept' /\ NotesKept'
<1> USE DEF Delivery
<1>1. /\ Len(wire) \in Nat /\ Len(wire') = Len(wire) - 1 /\ 1 \in 1..Len(wire)
      /\ \A k \in 1..Len(wire') : k + 1 \in 1..Len(wire) /\ k + 1 > 1 /\ wire'[k] = wire[k + 1]
  BY Taken DEF StreamKinds, StreamTypeOK
<1>2. \A q \in Subs : Unanswered(q)' = Unanswered(q)
  BY DEF Kept, Unanswered
<1>3. \A q \in Subs : Answers(wire[1], q) => ~Unanswered(q) /\ \A k \in 1..Len(wire) : Answers(wire[k], q) => k = 1
  BY <1>1 DEF AnswersKept
<1>4. CallsKept'
  <2>1. \A q \in Subs : sub[q].pc = "write" => Unanswered(q)
    BY DEF Unanswered
  <2>2. \A q \in Subs : sub[q].asked => Unanswered(q)
    BY DEF Unanswered
  <2> QED
    BY <1>2, <1>3, <2>1, <2>2 DEF CallsKept, Kept
<1>5. AnswersKept'
  <2> SUFFICES ASSUME NEW k \in 1..Len(wire'), NEW q \in Subs, Answers(wire'[k], q)
               PROVE  /\ ~Unanswered(q)' /\ q \in pending' /\ ~sub'[q].ready
                      /\ Grants(wire'[k], q) => wire'[k].id = sub'[q].id
                      /\ \A j \in 1..Len(wire') : Answers(wire'[j], q) => j = k
    BY DEF AnswersKept
  <2>1. k + 1 \in 1..Len(wire) /\ k + 1 # 1 /\ Answers(wire[k + 1], q) /\ wire'[k] = wire[k + 1]
    BY <1>1
  <2>2. ~Answers(wire[1], q)
    BY <1>3, <2>1
  <2>3. /\ ~Unanswered(q) /\ q \in pending /\ ~sub[q].ready
        /\ Grants(wire[k + 1], q) => wire[k + 1].id = sub[q].id
        /\ \A j \in 1..Len(wire) : Answers(wire[j], q) => j = k + 1
    BY <2>1 DEF AnswersKept
  <2>4. ASSUME NEW j \in 1..Len(wire'), Answers(wire'[j], q) PROVE j = k
    <3>1. j + 1 = k + 1
      BY <1>1, <2>3, <2>4
    <3> QED
      BY <1>1, <3>1
  <2> QED
    BY <1>2, <2>1, <2>2, <2>3, <2>4 DEF Kept
<1>6. NotesKept'
  <2> SUFFICES ASSUME NEW k \in 1..Len(wire'), NEW q \in Subs, Tells(wire'[k], q), ~sub'[q].done
               PROVE  /\ wire'[k].id = sub'[q].id
                      /\ \A j \in 1..Len(wire') : Answers(wire'[j], q) => j < k
    BY DEF NotesKept
  <2>1. k + 1 \in 1..Len(wire) /\ Tells(wire[k + 1], q) /\ wire'[k] = wire[k + 1] /\ ~sub[q].done
    BY <1>1 DEF Kept
  <2>2. wire[k + 1].id = sub[q].id /\ \A j \in 1..Len(wire) : Answers(wire[j], q) => j < k + 1
    BY <2>1 DEF NotesKept
  <2>3. ASSUME NEW j \in 1..Len(wire'), Answers(wire'[j], q) PROVE j < k
    <3>1. j + 1 < k + 1
      BY <1>1, <2>2, <2>3
    <3> QED
      BY <1>1, <3>1
  <2> QED
    BY <2>1, <2>2, <2>3 DEF Kept
<1> QED
  BY <1>4, <1>5, <1>6

\* The reader stops: nothing is delivered any more.
LEMMA RefusalDelivers ==
  ASSUME StreamKinds, Delivery, CallsKept', AnswersKept', NotesKept', \A q \in Subs : Kept(q),
         \A q \in Subs : sub[q].ready => sub'[q].ready, \A q \in Subs : sub'[q].queue = sub[q].queue,
         UNCHANGED active, StopStream, ~reader'
  PROVE  Delivery'
<1> USE DEF Delivery
<1>1. ~Reading' /\ Done'
  BY DEF Reading, StopStream, Done
<1>2. Holding'
  <2>1. \A i \in Ids : \A p, q \in active[i] : p = q
    BY DEF Holding
  <2>2. \A i \in Ids : \A q \in active[i] : sub'[q].id = i /\ sub'[q].ready /\ ~sub'[q].done
    BY StreamTypes DEF Holding, Kept
  <2> QED
    BY <1>1, <2>1, <2>2 DEF Holding
<1>3. Later' /\ OwnNotes' /\ Consecutive'
  BY <1>1 DEF Later, OwnNotes, Consecutive
<1>4. QueueInOrder'
  BY DEF QueueInOrder, Kept
<1> QED
  BY <1>2, <1>3, <1>4

\* The reader goes on: ids and answers are those of before, one message further.  The answer
\* it may have taken made the one that has it the holder of its id.
Granted ==
    /\ wire[1].kind = "result" /\ active[wire[1].id] = {}
    /\ active' = [active EXCEPT ![wire[1].id] = {wire[1].of}]

LEMMA ReadHolds ==
  ASSUME StreamKinds, Delivery, Reading, wire # <<>>, wire' = Tail(wire), \A q \in Subs : Kept(q),
         AnswersKept', NotesKept', UNCHANGED <<closed, reader>>,
         \A q \in Subs : IF Answers(wire[1], q) THEN sub'[q].ready ELSE sub'[q].ready = sub[q].ready,
         Granted \/ (wire[1].kind # "result" /\ UNCHANGED active)
  PROVE  Holding' /\ Later' /\ OwnNotes'
<1> USE DEF Delivery
<1>1. PICK n \in Nat : n = Len(wire')
  <2>1. Len(wire) \in Nat /\ Len(wire) > 0 /\ Len(wire') = Len(wire) - 1
    BY Taken DEF StreamKinds, StreamTypeOK
  <2>2. Len(wire') \in Nat
    BY ONLY <2>1
  <2> QED
    BY ONLY <2>2
<1>2. /\ Len(wire) = n + 1 /\ 1 \in 1..Len(wire)
      /\ \A k \in 1..n : k + 1 \in 1..Len(wire) /\ k + 1 > 1 /\ wire'[k] = wire[k + 1]
      /\ \A k \in 1..Len(wire) : k > 1 => k - 1 \in 1..n /\ wire'[k - 1] = wire[k]
  BY <1>1, Taken DEF StreamKinds, StreamTypeOK
<1>3. Reading' /\ Done' = Done
  BY DEF Reading, Done
<1>4. PICK i : i = wire[1].id
  OBVIOUS
<1>5. PICK s \in Subs : s = wire[1].of
  BY <1>2, StreamTypes
<1>6. /\ Granted => /\ i \in Ids /\ i # NoId /\ active' \in [Ids -> SUBSET Subs] /\ active'[i] = {s}
                    /\ \A x \in Ids : x # i => active'[x] = active[x]
                    /\ active[i] = {} /\ Grants(wire[1], s) /\ Answers(wire[1], s) /\ sub[s].id = i /\ ~sub[s].done
                    /\ \A k \in 1..Len(wire) : Grants(wire[k], s) => k = 1
  <2> SUFFICES ASSUME Granted
               PROVE  /\ i \in Ids /\ i # NoId /\ active' \in [Ids -> SUBSET Subs] /\ active'[i] = {s}
                      /\ \A x \in Ids : x # i => active'[x] = active[x]
                      /\ active[i] = {} /\ Grants(wire[1], s) /\ Answers(wire[1], s) /\ sub[s].id = i /\ ~sub[s].done
                      /\ \A k \in 1..Len(wire) : Grants(wire[k], s) => k = 1
    OBVIOUS
  <2>1. i \in Ids /\ i # NoId /\ active \in [Ids -> SUBSET Subs]
    BY <1>2, <1>4, StreamTypes, StreamAssumption DEF Granted
  <2>2. Grants(wire[1], s) /\ Answers(wire[1], s)
    BY <1>5 DEF Granted, Grants, Answers
  <2>3. ~sub[s].ready /\ sub[s].id = i /\ \A k \in 1..Len(wire) : Answers(wire[k], s) => k = 1
    BY <1>2, <1>4, <2>2 DEF AnswersKept
  <2>4. \A k \in 1..Len(wire) : Grants(wire[k], s) => k = 1
    BY <2>3 DEF Grants, Answers
  <2>5. ~sub[s].done
    BY <2>3 DEF CallsKept
  <2>6. active' \in [Ids -> SUBSET Subs] /\ active'[i] = {s} /\ \A x \in Ids : x # i => active'[x] = active[x]
    BY <1>4, <1>5, <2>1 DEF Granted
  <2> QED
    BY <1>4, <2>1, <2>2, <2>3, <2>4, <2>5, <2>6 DEF Granted
<1>7. ~Granted => UNCHANGED active /\ wire[1].kind # "result" /\ \A q \in Subs : ~Grants(wire[1], q)
  BY DEF Grants
<1>8. Holding'
  <2>1. ASSUME NEW x \in Ids, NEW q \in active'[x]
        PROVE  sub'[q].id = x /\ sub'[q].ready /\ ~sub'[q].done /\ \A p \in active'[x] : p = q
    <3>1. CASE Granted /\ x = i
      BY <1>6, <2>1, <3>1 DEF Kept
    <3>2. CASE ~(Granted /\ x = i)
      <4>1. active'[x] = active[x] /\ q \in Subs
        BY <1>6, <1>7, <2>1, <3>2, StreamTypes
      <4>2. sub[q].id = x /\ sub[q].ready /\ ~sub[q].done /\ \A p \in active[x] : p = q
        BY <2>1, <4>1 DEF Holding
      <4> QED
        BY <4>1, <4>2 DEF Kept
    <3> QED
      BY <3>1, <3>2
  <2>2. ASSUME NEW q \in Subs, sub'[q].id # NoId, ~sub'[q].done
        PROVE  q \in active'[sub'[q].id] \/ \E k \in 1..n : Grants(wire'[k], q)
    <3>1. sub[q].id # NoId /\ ~sub[q].done /\ sub'[q].id = sub[q].id /\ sub[q].id \in Ids
      BY <2>2, StreamTypes DEF Kept
    <3>2. CASE q \in active[sub[q].id]
      BY <1>6, <1>7, <3>1, <3>2
    <3>3. ASSUME NEW k \in 1..Len(wire), Grants(wire[k], q)
          PROVE  q \in active'[sub'[q].id] \/ \E l \in 1..n : Grants(wire'[l], q)
      <4>1. CASE k = 1
        <5>1. Granted
          BY <1>7, <3>3, <4>1
        <5>2. q = s
          BY <1>5, <3>3, <4>1 DEF Grants
        <5> QED
          BY <1>6, <3>1, <5>1, <5>2
      <4>2. CASE k > 1
        BY <1>2, <3>3, <4>2
      <4> QED
        BY <1>1, <1>2, <4>1, <4>2
    <3> QED
      BY <3>1, <3>2, <3>3 DEF Holding
  <2>3. ~reader' => Done'
    BY <1>3 DEF Holding
  <2> QED
    BY <1>1, <2>1, <2>2, <2>3 DEF Holding
<1>9. Later'
  <2> SUFFICES ASSUME NEW r \in Subs, NEW q \in Subs, r # q, sub'[r].id = sub'[q].id,
                      sub'[q].id # NoId, ~sub'[q].twice
               PROVE  /\ \A j \in 1..n : Grants(wire'[j], q) => \E k \in 1..n : j < k /\ Grants(wire'[k], r)
                      /\ q \in active'[sub'[q].id] => \E k \in 1..n : Grants(wire'[k], r)
    BY <1>1, <1>3 DEF Later
  <2>1. sub[r].id = sub[q].id /\ sub[q].id # NoId /\ ~sub[q].twice /\ sub'[q].id = sub[q].id /\ sub[q].id \in Ids
    BY StreamTypes DEF Kept
  <2>2. /\ \A j \in 1..Len(wire) : Grants(wire[j], q) => \E k \in 1..Len(wire) : j < k /\ Grants(wire[k], r)
        /\ q \in active[sub[q].id] => \E k \in 1..Len(wire) : Grants(wire[k], r)
    BY <2>1 DEF Later
  <2>3. ASSUME NEW j \in 1..n, Grants(wire'[j], q) PROVE \E k \in 1..n : j < k /\ Grants(wire'[k], r)
    <3>1. PICK k \in 1..Len(wire) : j + 1 < k /\ Grants(wire[k], r)
      BY <1>2, <2>2, <2>3
    <3>2. k > 1 /\ j < k - 1
      BY <3>1
    <3> QED
      BY <1>2, <3>1, <3>2
  <2>4. ASSUME q \in active'[sub'[q].id] PROVE \E k \in 1..n : Grants(wire'[k], r)
    <3>1. CASE Granted /\ sub[q].id = i
      <4>1. q = s
        BY <1>6, <2>1, <2>4, <3>1
      <4>2. PICK k \in 1..Len(wire) : 1 < k /\ Grants(wire[k], r)
        BY <1>2, <1>6, <2>2, <3>1, <4>1
      <4> QED
        BY <1>2, <4>2
    <3>2. CASE ~(Granted /\ sub[q].id = i)
      <4>1. q \in active[sub[q].id]
        BY <1>6, <1>7, <2>1, <2>4, <3>2
      <4>2. PICK k \in 1..Len(wire) : Grants(wire[k], r)
        BY <2>2, <4>1
      <4>3. k # 1
        <5>1. SUFFICES ASSUME Grants(wire[1], r) PROVE FALSE
          BY <4>2
        <5>2. Granted /\ r = s
          BY <1>5, <1>7, <5>1 DEF Grants
        <5> QED
          BY <1>6, <2>1, <3>2, <5>2
      <4>4. k > 1
        BY <1>1, <1>2, <4>3
      <4>5. k - 1 \in 1..n /\ Grants(wire'[k - 1], r)
        BY <1>2, <4>2, <4>4
      <4> QED
        BY <4>5
    <3> QED
      BY <3>1, <3>2
  <2> QED
    BY <2>3, <2>4
<1>10. OwnNotes'
  <2> SUFFICES ASSUME NEW k \in 1..n, NEW x \in Ids, wire'[k].kind = "note", wire'[k].id = x,
                      NEW q \in Subs, ~sub'[q].twice, Holds(q, x, k)'
               PROVE  wire'[k].of = q
    BY <1>1, <1>3 DEF OwnNotes
  <2>1. k + 1 \in 1..Len(wire) /\ wire[k + 1] = wire'[k]
    BY <1>2
  <2>2. Holds(q, x, k + 1)
    <3>1. ASSUME NEW j \in 1..n, j < k, Grants(wire'[j], q), wire'[j].id = x, Unclaimed(x, j, k)'
          PROVE  Holds(q, x, k + 1)
      <4>1. j + 1 \in 1..Len(wire) /\ j + 1 < k + 1 /\ Grants(wire[j + 1], q) /\ wire[j + 1].id = x
        BY <1>2, <3>1
      <4>2. ASSUME NEW l \in 1..Len(wire), j + 1 < l, l < k + 1, wire[l].kind = "result", wire[l].id = x
            PROVE  FALSE
        <5>1. l - 1 \in 1..n /\ wire'[l - 1] = wire[l] /\ j < l - 1 /\ l - 1 < k
          BY <1>2, <4>2
        <5> QED
          BY <1>1, <3>1, <4>2, <5>1 DEF Unclaimed
      <4> QED
        BY <4>1, <4>2 DEF Holds, Unclaimed
    <3>2. ASSUME q \in active'[x], Unclaimed(x, 0, k)'
          PROVE  Holds(q, x, k + 1)
      <4>1. ASSUME NEW l \in 1..Len(wire), 1 < l, l < k + 1, wire[l].kind = "result", wire[l].id = x
            PROVE  FALSE
        <5>1. l - 1 \in 1..n /\ wire'[l - 1] = wire[l] /\ 0 < l - 1 /\ l - 1 < k
          BY <1>2, <4>1
        <5> QED
          BY <1>1, <3>2, <4>1, <5>1 DEF Unclaimed
      <4>2. CASE Granted /\ x = i
        <5>1. q = s /\ Grants(wire[1], q) /\ wire[1].id = x /\ 1 < k + 1
          BY <1>4, <1>6, <3>2, <4>2
        <5> QED
          BY <1>2, <4>1, <5>1 DEF Holds, Unclaimed
      <4>3. CASE ~(Granted /\ x = i)
        <5>1. q \in active[x] /\ ~(wire[1].kind = "result" /\ wire[1].id = x)
          BY <1>4, <1>6, <1>7, <3>2, <4>3
        <5>2. \A l \in 1..Len(wire) : l = 1 \/ 1 < l
          BY <1>2
        <5> QED
          BY <4>1, <5>1, <5>2 DEF Holds, Unclaimed
      <4> QED
        BY <4>2, <4>3
    <3> QED
      BY <1>1, <3>1, <3>2 DEF Holds
  <2> QED
    BY <2>1, <2>2 DEF OwnNotes, Kept
<1> QED
  BY <1>8, <1>9, <1>10

LEMMA NoteDelivers ==
  ASSUME StreamKinds, Delivery, ReadMessage, wire[1].kind = "note"
  PROVE  Delivery'
<1> USE DEF Delivery
<1>1. Reading /\ wire # <<>> /\ wire' = Tail(wire) /\ wire \in Seq(Messages) /\ Head(wire) = wire[1]
  BY DEF ReadMessage, Reading, StreamKinds, StreamTypeOK
<1>2. Notification(wire[1]) /\ UNCHANGED <<pending, active>>
  BY <1>1 DEF ReadMessage, Notification
<1>3. \A q \in Subs : ~Answers(wire[1], q)
  BY DEF Answers
<1>4. CASE UNCHANGED sub /\ StopStream /\ reader' = FALSE
  <2>1. \A q \in Subs : Kept(q) /\ sub'[q] = sub[q]
    BY <1>4 DEF Kept
  <2>2. CallsKept' /\ AnswersKept' /\ NotesKept'
    BY <1>1, <1>2, <1>3, <2>1, ReadKeeps
  <2> QED
    BY <1>2, <1>4, <2>1, <2>2, RefusalDelivers
<1>5. ASSUME sub' = [s \in Subs |-> IF s \in active[wire[1].id]
                       THEN [sub[s] EXCEPT !.queue = Append(@, [of |-> wire[1].of, n |-> wire[1].n])]
                       ELSE sub[s]],
             UNCHANGED <<closed, reader>>
      PROVE  Delivery'
  <2>1. PICK i \in Ids : i = wire[1].id
    <3>1. 1 \in 1..Len(wire)
      BY <1>1
    <3> QED
      BY <3>1, StreamTypes
  <2>2. PICK x : x = [of |-> wire[1].of, n |-> wire[1].n]
    OBVIOUS
  <2>3. \A q \in Subs : q \notin active[i] => sub'[q] = sub[q]
    BY <1>5, <2>1
  <2>4. ASSUME NEW q \in Subs, q \in active[i]
        PROVE  Kept(q) /\ sub'[q].ready = sub[q].ready /\ sub'[q].queue = Append(sub[q].queue, x)
    <3>1. sub'[q] = [sub[q] EXCEPT !.queue = Append(sub[q].queue, x)] /\ sub[q] \in SubRecords
      BY <1>5, <2>1, <2>2, <2>4 DEF StreamKinds
    <3> QED
      BY <3>1 DEF SubRecords, Kept
  <2>5. \A q \in Subs : Kept(q) /\ sub'[q].ready = sub[q].ready
    BY <2>3, <2>4 DEF Kept
  <2>6. CallsKept' /\ AnswersKept' /\ NotesKept'
    BY <1>1, <1>2, <1>3, <2>5, ReadKeeps
  <2>7. Holding' /\ Later' /\ OwnNotes'
    BY <1>1, <1>2, <1>3, <1>5, <2>5, <2>6, ReadHolds
  <2>8. ASSUME NEW q \in Subs, q \in active[i], ~sub[q].twice
        PROVE  /\ x = [of |-> q, n |-> Due(q)] /\ wire[1].n = Due(q) /\ ~sub[q].done /\ Due(q) <= sub[q].sent
               /\ Len(sub'[q].queue) = Len(sub[q].queue) + 1 /\ sub'[q].queue[Len(sub[q].queue) + 1] = x
               /\ \A k \in 1..Len(sub[q].queue) : sub'[q].queue[k] = sub[q].queue[k]
               /\ Due(q)' = Due(q) + 1
    <3>1. wire[1].of = q /\ wire[1].n = Due(q) /\ ~sub[q].done /\ Due(q) <= sub[q].sent
      BY <1>1, <2>1, <2>8, HeadDue
    <3>2. x = [of |-> q, n |-> Due(q)]
      BY <2>2, <3>1
    <3>3. sub'[q].queue = Append(sub[q].queue, x) /\ sub'[q].got = sub[q].got
      BY <2>4, <2>8 DEF Kept
    <3>4. x \in Notes
      <4>1. Due(q) \in Nat
        BY StreamTypes DEF Due
      <4> QED
        BY <3>2, <4>1 DEF Notes
    <3>5. sub[q].queue \in Seq(Notes) /\ sub[q].got \in Nat
      BY StreamTypes
    <3>6. /\ Len(sub'[q].queue) = Len(sub[q].queue) + 1 /\ sub'[q].queue[Len(sub[q].queue) + 1] = x
          /\ \A k \in 1..Len(sub[q].queue) : sub'[q].queue[k] = sub[q].queue[k]
      BY <3>3, <3>4, <3>5
    <3>7. Due(q)' = Due(q) + 1
      <4>1. Len(sub[q].queue) \in Nat
        BY <3>5
      <4>2. sub[q].got + (Len(sub[q].queue) + 1) + 1 = sub[q].got + Len(sub[q].queue) + 1 + 1
        BY ONLY <3>5, <4>1
      <4>3. Due(q)' = sub[q].got + (Len(sub[q].queue) + 1) + 1
        BY <3>3, <3>6 DEF Due
      <4> QED
        BY <4>2, <4>3 DEF Due
    <3> QED
      BY <3>1, <3>2, <3>6, <3>7
  <2>9. QueueInOrder'
    <3>1. ASSUME NEW q \in Subs, ~sub'[q].twice, q \in active[i], NEW k \in 1..Len(sub'[q].queue)
          PROVE  sub'[q].queue[k] = [of |-> q, n |-> sub'[q].got + k]
      <4>1. ~sub[q].twice /\ sub'[q].got = sub[q].got
        BY <2>5, <3>1 DEF Kept
      <4>2. sub[q].got \in Nat /\ Len(sub[q].queue) \in Nat
        BY StreamTypes
      <4>3. CASE k \in 1..Len(sub[q].queue)
        BY <2>8, <3>1, <4>1, <4>3 DEF QueueInOrder
      <4>4. CASE k = Len(sub[q].queue) + 1
        <5>1. Due(q) = sub'[q].got + k
          BY <4>1, <4>2, <4>4 DEF Due
        <5> QED
          BY <2>8, <3>1, <4>1, <4>4, <5>1
      <4>5. k \in 1..Len(sub[q].queue) \/ k = Len(sub[q].queue) + 1
        BY <2>8, <3>1, <4>1, <4>2
      <4> QED
        BY <4>3, <4>4, <4>5
    <3>2. ASSUME NEW q \in Subs, ~sub'[q].twice, q \notin active[i], NEW k \in 1..Len(sub'[q].queue)
          PROVE  sub'[q].queue[k] = [of |-> q, n |-> sub'[q].got + k]
      BY <2>3, <3>2 DEF QueueInOrder
    <3> QED
      BY <3>1, <3>2 DEF QueueInOrder
  <2>10. Consecutive'
    <3>1. PICK n \in Nat : n = Len(wire')
      <4>1. Len(wire) \in Nat /\ Len(wire) > 0 /\ Len(wire') = Len(wire) - 1
        BY <1>1, Taken
      <4> QED
        BY <4>1
    <3>2. /\ Len(wire) = n + 1 /\ 1 \in 1..Len(wire)
          /\ \A k \in 1..n : k + 1 \in 1..Len(wire) /\ k + 1 > 1 /\ wire'[k] = wire[k + 1]
          /\ \A k \in 1..Len(wire) : k > 1 => k - 1 \in 1..n /\ wire'[k - 1] = wire[k]
      BY <1>1, <3>1, Taken
    <3> SUFFICES ASSUME NEW q \in Subs, ~sub[q].twice, ~sub[q].done
                 PROVE  /\ \A k \in 1..n : Tells(wire'[k], q) => wire'[k].n \in Due(q)'..sub[q].sent
                        /\ \A j, k \in 1..n : Tells(wire'[j], q) /\ Tells(wire'[k], q) /\ j < k
                              => wire'[j].n < wire'[k].n
                        /\ \A y \in Due(q)'..sub[q].sent : \E k \in 1..n : Tells(wire'[k], q) /\ wire'[k].n = y
                        /\ Due(q)' <= sub[q].sent + 1
      BY <2>5, <3>1 DEF Consecutive, Kept
    <3>3. /\ \A k \in 1..Len(wire) : Tells(wire[k], q) => wire[k].n \in Due(q)..sub[q].sent
          /\ \A j, k \in 1..Len(wire) : Tells(wire[j], q) /\ Tells(wire[k], q) /\ j < k => wire[j].n < wire[k].n
          /\ \A y \in Due(q)..sub[q].sent : \E k \in 1..Len(wire) : Tells(wire[k], q) /\ wire[k].n = y
          /\ Due(q) <= sub[q].sent + 1
      BY <1>1 DEF Consecutive
    <3>4. Due(q) \in Nat /\ sub[q].sent \in Nat
      BY StreamTypes DEF Due
    <3>5. ASSUME NEW j \in 1..n, NEW k \in 1..n, Tells(wire'[j], q), Tells(wire'[k], q), j < k
          PROVE  wire'[j].n < wire'[k].n
      <4>1. j + 1 < k + 1 /\ j + 1 \in 1..Len(wire) /\ k + 1 \in 1..Len(wire)
        BY <3>2, <3>5
      <4> QED
        BY <3>2, <3>3, <3>5, <4>1
    <3>6. CASE q \in active[i]
      <4>1. Tells(wire[1], q) /\ wire[1].n = Due(q) /\ Due(q) <= sub[q].sent /\ Due(q)' = Due(q) + 1
        BY <2>2, <2>8, <3>6 DEF Tells
      <4>2. ASSUME NEW k \in 1..n, Tells(wire'[k], q) PROVE wire'[k].n \in Due(q)'..sub[q].sent
        <5>1. Tells(wire[k + 1], q) /\ k + 1 \in 1..Len(wire) /\ k + 1 > 1 /\ wire'[k] = wire[k + 1]
          BY <3>2, <4>2
        <5>2. wire[1].n < wire[k + 1].n /\ wire[k + 1].n \in Due(q)..sub[q].sent
          BY <3>2, <3>3, <4>1, <5>1
        <5> QED
          BY <3>4, <4>1, <5>1, <5>2
      <4>3. ASSUME NEW y \in Due(q)'..sub[q].sent PROVE \E k \in 1..n : Tells(wire'[k], q) /\ wire'[k].n = y
        <5>1. y \in Due(q)..sub[q].sent /\ y > Due(q)
          BY <3>4, <4>1
        <5>2. PICK k \in 1..Len(wire) : Tells(wire[k], q) /\ wire[k].n = y
          BY <3>3, <5>1
        <5>3. k # 1
          BY <3>4, <4>1, <5>1, <5>2
        <5>4. k > 1
          BY <3>2, <5>3
        <5>5. k - 1 \in 1..n /\ wire'[k - 1] = wire[k]
          BY <3>2, <5>4
        <5> QED
          BY <5>2, <5>5
      <4> QED
        BY <3>4, <3>5, <4>1, <4>2, <4>3
    <3>7. CASE q \notin active[i]
      <4>1. ~Tells(wire[1], q)
        BY <1>1, <2>1, <3>7, HeadMeets
      <4>2. Due(q)' = Due(q)
        BY <2>3, <3>7 DEF Due
      <4>3. ASSUME NEW k \in 1..n, Tells(wire'[k], q) PROVE wire'[k].n \in Due(q)..sub[q].sent
        BY <3>2, <3>3, <4>3
      <4>4. ASSUME NEW y \in Due(q)..sub[q].sent PROVE \E k \in 1..n : Tells(wire'[k], q) /\ wire'[k].n = y
        <5>1. PICK k \in 1..Len(wire) : Tells(wire[k], q) /\ wire[k].n = y
          BY <3>3
        <5>2. k > 1
          BY <3>2, <4>1, <5>1
        <5>3. k - 1 \in 1..n /\ wire'[k - 1] = wire[k]
          BY <3>2, <5>2
        <5> QED
          BY <5>1, <5>3
      <4> QED
        BY <3>3, <3>5, <4>2, <4>3, <4>4
    <3> QED
      BY <3>6, <3>7
  <2> QED
    BY <2>6, <2>7, <2>9, <2>10
<1> QED
  BY <1>2, <1>4, <1>5 DEF Notification

LEMMA ResponseDelivers ==
  ASSUME StreamKinds, Delivery, ReadMessage, wire[1].kind # "note"
  PROVE  Delivery'
<1> USE DEF Delivery
<1>1. Reading /\ wire # <<>> /\ wire' = Tail(wire) /\ wire \in Seq(Messages) /\ Head(wire) = wire[1] /\ 1 \in 1..Len(wire)
  <2>1. Reading /\ wire # <<>> /\ wire' = Tail(wire) /\ wire \in Seq(Messages)
    BY DEF ReadMessage, Reading, StreamKinds, StreamTypeOK
  <2>2. Head(wire) = wire[1] /\ 1 \in 1..Len(wire)
    BY <2>1
  <2> QED
    BY <2>1, <2>2
<1>2. Response(wire[1])
  BY <1>1 DEF ReadMessage
<1>3. PICK s \in Subs : s = wire[1].of
  BY <1>1, StreamTypes
<1>4. Answers(wire[1], s) /\ s \in pending /\ \A q \in Subs : Answers(wire[1], q) => q = s
  BY <1>1, <1>3 DEF Answers, AnswersKept
<1>5. PICK e \in BOOLEAN : sub' = [sub EXCEPT ![s].ready = TRUE, ![s].err = e]
  <2>1. sub' = [sub EXCEPT ![s].ready = TRUE, ![s].err = (wire[1].kind = "error" \/ active[wire[1].id] # {})]
    BY <1>2, <1>3, <1>4 DEF Response
  <2>2. (wire[1].kind = "error" \/ active[wire[1].id] # {}) \in BOOLEAN
    OBVIOUS
  <2> QED
    BY <2>1, <2>2
<1>6. \A q \in Subs : q # s => sub'[q] = sub[q]
  BY <1>5 DEF StreamKinds
<1>7. Kept(s) /\ sub'[s].ready = TRUE /\ sub'[s].queue = sub[s].queue
  <2>1. sub'[s] = [sub[s] EXCEPT !.ready = TRUE, !.err = e] /\ sub[s] \in SubRecords
    BY <1>5 DEF StreamKinds
  <2> QED
    BY <2>1 DEF SubRecords, Kept
<1>8. /\ \A q \in Subs : Kept(q) /\ sub'[q].queue = sub[q].queue /\ (sub[q].ready => sub'[q].ready)
      /\ \A q \in Subs : IF Answers(wire[1], q) THEN sub'[q].ready ELSE sub'[q].ready = sub[q].ready
  BY <1>4, <1>6, <1>7 DEF Kept
<1>9. pending' = pending \ {s}
  BY <1>2, <1>3 DEF Response
<1>10. CallsKept' /\ AnswersKept' /\ NotesKept'
  BY <1>1, <1>4, <1>8, <1>9, ReadKeeps
<1>11. CASE wire[1].kind = "result" /\ active[wire[1].id] # {}
  <2>1. StopStream /\ reader' = FALSE /\ UNCHANGED active
    BY <1>2, <1>3, <1>4, <1>11 DEF Response
  <2> QED
    BY <1>8, <1>10, <2>1, RefusalDelivers
<1>12. CASE ~(wire[1].kind = "result" /\ active[wire[1].id] # {})
  <2>1. wire[1].kind \in {"result", "error"}
    <3>1. wire[1] \in Messages
      BY <1>1, StreamTypes
    <3> QED
      BY <3>1 DEF Messages
  <2>2. UNCHANGED <<closed, reader>> /\ (Granted \/ (wire[1].kind # "result" /\ UNCHANGED active))
    BY <1>2, <1>3, <1>4, <1>12, <2>1 DEF Response, Granted
  <2>3. Holding' /\ Later' /\ OwnNotes'
    BY <1>1, <1>8, <1>10, <2>2, ReadHolds
  <2>4. QueueInOrder'
    BY <1>8 DEF QueueInOrder, Kept
  <2>5. Consecutive'
    <3>1. PICK n \in Nat : n = Len(wire')
      <4>1. Len(wire) \in Nat /\ Len(wire) > 0 /\ Len(wire') = Len(wire) - 1
        BY <1>1, Taken
      <4> QED
        BY <4>1
    <3>2. /\ Len(wire) = n + 1
          /\ \A k \in 1..n : k + 1 \in 1..Len(wire) /\ k + 1 > 1 /\ wire'[k] = wire[k + 1]
          /\ \A k \in 1..Len(wire) : k > 1 => k - 1 \in 1..n /\ wire'[k - 1] = wire[k]
      BY <1>1, <3>1, Taken
    <3>3. \A q \in Subs : Due(q)' = Due(q)
      BY <1>8 DEF Due, Kept
    <3> SUFFICES ASSUME NEW q \in Subs, ~sub[q].twice, ~sub[q].done
                 PROVE  /\ \A k \in 1..n : Tells(wire'[k], q) => wire'[k].n \in Due(q)..sub[q].sent
                        /\ \A j, k \in 1..n : Tells(wire'[j], q) /\ Tells(wire'[k], q) /\ j < k
                              => wire'[j].n < wire'[k].n
                        /\ \A y \in Due(q)..sub[q].sent : \E k \in 1..n : Tells(wire'[k], q) /\ wire'[k].n = y
                        /\ Due(q) <= sub[q].sent + 1
      BY <1>8, <3>1, <3>3 DEF Consecutive, Kept
    <3>4. /\ \A k \in 1..Len(wire) : Tells(wire[k], q) => wire[k].n \in Due(q)..sub[q].sent
          /\ \A j, k \in 1..Len(wire) : Tells(wire[j], q) /\ Tells(wire[k], q) /\ j < k => wire[j].n < wire[k].n
          /\ \A y \in Due(q)..sub[q].sent : \E k \in 1..Len(wire) : Tells(wire[k], q) /\ wire[k].n = y
          /\ Due(q) <= sub[q].sent + 1
      BY <1>1 DEF Consecutive
    <3>5. ~Tells(wire[1], q)
      BY DEF Tells
    <3>6. ASSUME NEW j \in 1..n, NEW k \in 1..n, Tells(wire'[j], q), Tells(wire'[k], q), j < k
          PROVE  wire'[j].n < wire'[k].n
      <4>1. j + 1 < k + 1 /\ j + 1 \in 1..Len(wire) /\ k + 1 \in 1..Len(wire)
        BY <3>2, <3>6
      <4> QED
        BY <3>2, <3>4, <3>6, <4>1
    <3>7. ASSUME NEW y \in Due(q)..sub[q].sent PROVE \E k \in 1..n : Tells(wire'[k], q) /\ wire'[k].n = y
      <4>1. PICK k \in 1..Len(wire) : Tells(wire[k], q) /\ wire[k].n = y
        BY <3>4
      <4>2. k > 1
        BY <3>2, <3>5, <4>1
      <4>3. k - 1 \in 1..n /\ wire'[k - 1] = wire[k]
        BY <3>2, <4>2
      <4> QED
        BY <4>1, <4>3
    <3> QED
      BY <3>2, <3>4, <3>6, <3>7
  <2> QED
    BY <1>10, <2>3, <2>4, <2>5
<1> QED
  BY <1>11, <1>12

LEMMA DeliveryStep == StreamKinds /\ Delivery /\ [StreamNext]_streamVars => Delivery'
<1> SUFFICES ASSUME StreamKinds, Delivery, [StreamNext]_streamVars PROVE Delivery'
  OBVIOUS
<1>1. ASSUME NEW s \in Subs, SubStep(s) PROVE Delivery'
  BY <1>1, NotifyDelivers, AnswerDelivers, CallerDelivers DEF SubStep
<1>2. CASE CloseStream \/ StreamFails
  BY <1>2, EndDelivers
<1>3. CASE ReadMessage
  BY <1>3, NoteDelivers, ResponseDelivers
<1>4. CASE UNCHANGED streamVars
  BY <1>4 DEF streamVars, Delivery, CallsKept, AnswersKept, NotesKept, Holding, Later, OwnNotes, Consecutive,
     QueueInOrder, Unanswered, Due, Holds, Unclaimed, Reading, Done, Answers, Grants, Tells
<1> QED
  BY <1>1, <1>2, <1>3, <1>4 DEF StreamNext

\* As many notifications are under way for s as are due.
LEMMA DeliveryCounts == StreamKinds /\ Delivery => DeliversAll
<1> SUFFICES ASSUME StreamKinds, Delivery, NEW s \in Subs, ~sub[s].twice
             PROVE  /\ \A k \in 1..Len(sub[s].queue) : sub[s].queue[k] = [of |-> s, n |-> sub[s].got + k]
                    /\ ~Done /\ ~sub[s].done => sub[s].got + Len(sub[s].queue) + Cardinality(UnderWay(s)) = sub[s].sent
  BY DEF DeliversAll
<1>1. \A k \in 1..Len(sub[s].queue) : sub[s].queue[k] = [of |-> s, n |-> sub[s].got + k]
  BY DEF Delivery, QueueInOrder
<1>2. ASSUME ~Done, ~sub[s].done
      PROVE  sub[s].got + Len(sub[s].queue) + Cardinality(UnderWay(s)) = sub[s].sent
  <2>1. Reading
    BY <1>2 DEF Delivery, Holding, Reading, Done
  <2>2. /\ \A k \in 1..Len(wire) : Tells(wire[k], s) => wire[k].n \in Due(s)..sub[s].sent
        /\ \A j, k \in 1..Len(wire) : Tells(wire[j], s) /\ Tells(wire[k], s) /\ j < k => wire[j].n < wire[k].n
        /\ \A n \in Due(s)..sub[s].sent : \E k \in 1..Len(wire) : Tells(wire[k], s) /\ wire[k].n = n
        /\ Due(s) <= sub[s].sent + 1
    BY <1>2, <2>1 DEF Delivery, Consecutive
  <2>3. Due(s) \in Nat /\ sub[s].sent \in Nat /\ sub[s].got \in Nat /\ Len(sub[s].queue) \in Nat /\ Len(wire) \in Nat
    BY StreamTypes DEF Due
  <2>4. UnderWay(s) \subseteq 1..Len(wire) /\ \A k \in 1..Len(wire) : k \in UnderWay(s) <=> Tells(wire[k], s)
    BY DEF UnderWay, Tells
  <2>5. PICK F : F = [k \in UnderWay(s) |-> wire[k].n]
    OBVIOUS
  <2>6. F \in Bijection(UnderWay(s), Due(s)..sub[s].sent)
    <3>1. F \in [UnderWay(s) -> Due(s)..sub[s].sent]
      BY <2>2, <2>4, <2>5
    <3>2. ASSUME NEW j \in UnderWay(s), NEW k \in UnderWay(s), F[j] = F[k] PROVE j = k
      <4>1. j \in Nat /\ k \in Nat /\ wire[j].n = wire[k].n /\ wire[j].n \in Nat
        BY <2>2, <2>3, <2>4, <2>5, <3>2
      <4>2. ~(j < k) /\ ~(k < j)
        BY <2>2, <2>4, <4>1
      <4> QED
        BY <4>1, <4>2
    <3>3. \A n \in Due(s)..sub[s].sent : \E k \in UnderWay(s) : F[k] = n
      BY <2>2, <2>4, <2>5
    <3> QED
      BY <3>1, <3>2, <3>3, Fun_IsBij
  <2>7. IsFiniteSet(Due(s)..sub[s].sent) /\ Cardinality(Due(s)..sub[s].sent) = sub[s].sent - Due(s) + 1
    <3>1. Due(s) \in Int /\ sub[s].sent \in Int
      BY ONLY <2>3
    <3>2. /\ IsFiniteSet(Due(s)..sub[s].sent)
          /\ Cardinality(Due(s)..sub[s].sent) = IF Due(s) > sub[s].sent THEN 0 ELSE sub[s].sent - Due(s) + 1
      BY <3>1, FS_Interval
    <3>3. Due(s) <= sub[s].sent + 1
      BY <2>2
    <3> QED
      BY ONLY <2>3, <3>2, <3>3
  <2>8. IsFiniteSet(UnderWay(s))
    <3>1. 1 \in Int /\ Len(wire) \in Int
      BY ONLY <2>3
    <3>2. IsFiniteSet(1..Len(wire))
      BY <3>1, FS_Interval
    <3> QED
      BY <2>4, <3>2, FS_Subset
  <2>9. ExistsBijection(UnderWay(s), Due(s)..sub[s].sent)
    BY <2>6 DEF ExistsBijection
  <2>10. Cardinality(UnderWay(s)) = sub[s].sent - Due(s) + 1
    BY <2>7, <2>8, <2>9, FS_Bijection
  <2> QED
    BY <2>3, <2>10 DEF Due
<1> QED
  BY <1>1, <1>2

-----------------------------------------------------------------------------
\* The three together

PartsInv ==
    /\ SockInv
    /\ StreamKinds /\ Delivery
    /\ BatchTypeOK /\ HandedOut

LEMMA PartsStart == Init => PartsInv
BY SockInit, StreamKindsInit, DeliveryInit, BatchTypeInit DEF Init, PartsInv

LEMMA PartsStep == PartsInv /\ [Next]_partVars => PartsInv'
<1> SUFFICES ASSUME PartsInv, [Next]_partVars PROVE PartsInv'
  OBVIOUS
<1>1. [SocketNext]_socketVars /\ [StreamNext]_streamVars /\ [BatchNext]_batchVars
  BY DEF Next, partVars
<1> QED
  BY <1>1, SockStep, StreamKindsStep, DeliveryStep, BatchTypeStep, HandedOutStep DEF PartsInv

\* Mutexes are held by the calls that took them, queues keep their limit, every batch is one of
\* the capture's (client.go, ws_stream.go, read.go).
THEOREM PartsTypeCorrect == Spec => []PartsTypeOK
<1>1. PartsInv => PartsTypeOK
  BY DEF PartsInv, PartsTypeOK, SockInv, StreamKinds
<1> QED
  BY <1>1, PartsStart, PartsStep, PTL DEF Spec

\* A subscriber of a Solana connection gets every notification up to the end of its stream, in
\* order, even if the node gives an id out twice; a capture gets every tick of its batches or
\* none (ws_stream.go, read and recv; read.go, Read).
THEOREM PartsDeliverSafe == Spec => []PartsDeliver
<1>1. PartsInv => PartsDeliver
  BY DeliveryCounts, BatchWhole DEF PartsInv, PartsDeliver
<1> QED
  BY <1>1, PartsStart, PartsStep, PTL DEF Spec
=============================================================================

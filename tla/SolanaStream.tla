---------------------------- MODULE SolanaStream ----------------------------
(***************************************************************************)
(* One websocket connection to a Solana node and its subscriptions         *)
(* (go/solana/ws_stream.go).  A single reader hands the responses to the   *)
(* callers of subscribe and the notifications to bounded queues; whoever   *)
(* fails stops the connection for all.  A stopped connection is not        *)
(* reopened: the owner dials a new one.                                    *)
(*                                                                         *)
(* A notification is the pair of the subscription the node sends it for    *)
(* and its number; requests and responses keep their order on the wire.    *)
(***************************************************************************)
EXTENDS Naturals, Sequences, FiniteSetsExt

CONSTANTS
    Subs,           \* calls of subscribe
    Ids,            \* subscription ids of the node, which may give one out twice
    QueueLimit,     \* capacity of a queue (256)
    MaxNotes        \* bound: notifications the node sends

NoId == "no id"

ASSUME StreamAssumption == QueueLimit \in Nat \ {0} /\ MaxNotes \in Nat /\ NoId \notin Ids

VARIABLES
    closed,     \* the connection: "no", "stopped" (done is closed), "yes" (the socket too)
    reader,     \* does read() still run?
    pending, active,    \* c.pending, and c.active by subscription: the ids in use
    wire,       \* messages of the node that were not read
    sub         \* the subscriptions, with their caller and the node's view of them

streamVars == <<closed, reader, pending, active, wire, sub>>

Notes == [of : Subs, n : Nat]
Messages == [kind : {"result", "note"}, of : Subs, id : Ids, n : Nat]
            \cup [kind : {"error"}, of : Subs]

\* asked, id, twice and sent are the node's: was the request received, which id did it
\* get, was that in use already, how many notifications were sent.
NoSub == [pc |-> "idle", ready |-> FALSE, err |-> FALSE, done |-> FALSE, queue |-> <<>>,
          got |-> 0, asked |-> FALSE, id |-> NoId, twice |-> FALSE, sent |-> 0]

StreamTypeOK ==
    /\ closed \in {"no", "stopped", "yes"} /\ reader \in BOOLEAN
    /\ pending \subseteq Subs
    /\ active \in [Ids -> SUBSET Subs]
    /\ wire \in Seq(Messages)
    /\ \A s \in Subs :
          /\ sub[s].pc \in {"idle", "write", "wait", "open", "recv", "ended"}
          /\ sub[s].queue \in Seq(Notes) /\ Len(sub[s].queue) <= QueueLimit

StreamInit ==
    /\ closed = "no" /\ reader = TRUE
    /\ pending = {} /\ active = [i \in Ids |-> {}]
    /\ wire = <<>>
    /\ sub = [s \in Subs |-> NoSub]

Done == closed # "no"
StopStream == closed' = IF Done THEN closed ELSE "stopped"

-----------------------------------------------------------------------------
(* The node. *)

NodeAnswers(s) ==
    /\ sub[s].asked /\ closed # "yes"
    /\ \/ /\ wire' = Append(wire, [kind |-> "error", of |-> s])
          /\ sub' = [sub EXCEPT ![s].asked = FALSE]
       \/ \E i \in Ids :
             /\ wire' = Append(wire, [kind |-> "result", of |-> s, id |-> i, n |-> 0])
             /\ sub' = [sub EXCEPT ![s].asked = FALSE, ![s].id = i,
                                   ![s].twice = \E r \in Subs : sub[r].id = i]
    /\ UNCHANGED <<closed, reader, pending, active>>

Sent == MapThenSumSet(LAMBDA s : sub[s].sent, Subs)

NodeNotifies(s) ==
    /\ sub[s].id # NoId /\ Sent < MaxNotes /\ closed # "yes"
    /\ sub' = [sub EXCEPT ![s].sent = @ + 1]
    /\ wire' = Append(wire, [kind |-> "note", of |-> s, id |-> sub[s].id, n |-> sub[s].sent + 1])
    /\ UNCHANGED <<closed, reader, pending, active>>

-----------------------------------------------------------------------------
(* stop and read. *)

\* conn.Close, inside stop: what was not read is lost.
CloseStream ==
    /\ closed = "stopped"
    /\ closed' = "yes" /\ wire' = <<>>
    /\ UNCHANGED <<reader, pending, active, sub>>

\* ReadMessage or a deadline fails, a frame is not JSON, a ping was not written, the
\* owner calls Close.
StreamFails ==
    /\ reader
    /\ StopStream
    /\ reader' = FALSE
    /\ UNCHANGED <<pending, active, wire, sub>>

\* A response: errors and results wake the caller; a second subscription under an id in
\* use stops the connection.
Response(m) ==
    /\ pending' = pending \ {m.of}
    /\ IF m.of \notin pending
       THEN UNCHANGED <<sub, active, closed, reader>>
       ELSE /\ sub' = [sub EXCEPT ![m.of].ready = TRUE,
                                  ![m.of].err = (m.kind = "error" \/ active[m.id] # {})]
            /\ IF m.kind = "error" THEN UNCHANGED <<active, closed, reader>>
               ELSE IF active[m.id] # {} THEN StopStream /\ reader' = FALSE /\ UNCHANGED active
               ELSE active' = [active EXCEPT ![m.id] = {m.of}] /\ UNCHANGED <<closed, reader>>

\* Mutant: a full queue drops the notification.
NotificationDropped(m) ==
    /\ sub' = [s \in Subs |->
         IF s \in active[m.id] /\ Len(sub[s].queue) < QueueLimit
         THEN [sub[s] EXCEPT !.queue = Append(@, [of |-> m.of, n |-> m.n])] ELSE sub[s]]
    /\ UNCHANGED <<pending, active, closed, reader>>

\* A notification goes to the queue of its subscription, if there still is one; a full
\* queue stops the connection.
Notification(m) ==
    /\ IF \A s \in active[m.id] : Len(sub[s].queue) < QueueLimit
       THEN /\ sub' = [s \in Subs |->
                 IF s \in active[m.id]
                 THEN [sub[s] EXCEPT !.queue = Append(@, [of |-> m.of, n |-> m.n])]
                 ELSE sub[s]]
            /\ UNCHANGED <<closed, reader>>
       ELSE StopStream /\ reader' = FALSE /\ UNCHANGED sub
    /\ UNCHANGED <<pending, active>>

ReadMessage ==
    /\ reader /\ closed # "yes" /\ wire # <<>>
    /\ wire' = Tail(wire)
    /\ IF Head(wire).kind = "note" THEN Notification(Head(wire)) ELSE Response(Head(wire))

-----------------------------------------------------------------------------
(* subscribe, recv and Unsubscribe. *)

To(s, pc) == sub' = [sub EXCEPT ![s].pc = pc]

SubscribeBegin(s) ==
    /\ sub[s].pc = "idle"
    /\ IF Done THEN To(s, "ended") /\ UNCHANGED pending
               ELSE To(s, "write") /\ pending' = pending \cup {s}
    /\ UNCHANGED <<closed, reader, active, wire>>

SubscribeWrite(s) ==
    /\ sub[s].pc = "write"
    /\ \/ /\ closed # "yes"
          /\ sub' = [sub EXCEPT ![s].pc = "wait", ![s].asked = TRUE]
          /\ UNCHANGED closed
       \/ To(s, "ended") /\ StopStream
    /\ UNCHANGED <<reader, pending, active, wire>>

\* select: the response, the end of the connection, or the timer, which stops it.
SubscribeEnd(s) ==
    /\ sub[s].pc = "wait"
    /\ \/ sub[s].ready /\ To(s, IF sub[s].err THEN "ended" ELSE "open") /\ UNCHANGED closed
       \/ Done /\ To(s, "ended") /\ UNCHANGED closed
       \/ To(s, "ended") /\ StopStream
    /\ UNCHANGED <<reader, pending, active, wire>>

RecvBegin(s) ==
    /\ sub[s].pc = "open"
    /\ To(s, IF Done THEN "ended" ELSE "recv")
    /\ UNCHANGED <<closed, reader, pending, active, wire>>

\* select: of several ready channels Go takes any.
RecvTake(s) ==
    /\ sub[s].pc = "recv" /\ sub[s].queue # <<>>
    /\ sub' = [sub EXCEPT ![s].pc = "open", ![s].queue = Tail(@), ![s].got = @ + 1]
    /\ UNCHANGED <<closed, reader, pending, active, wire>>

RecvEnds(s) ==
    /\ sub[s].pc = "recv" /\ (sub[s].done \/ Done)
    /\ To(s, "ended")
    /\ UNCHANGED <<closed, reader, pending, active, wire>>

\* The caller's context ends: nothing is taken, and it may call recv again.
RecvCancelled(s) ==
    /\ sub[s].pc = "recv"
    /\ To(s, "open")
    /\ UNCHANGED <<closed, reader, pending, active, wire>>

\* Unsubscribe, also while a recv waits.  The request that follows frees the id, or is
\* not written, which stops the connection.
Unsubscribe(s) ==
    /\ sub[s].pc \in {"open", "recv"} /\ ~sub[s].done
    /\ active' = [i \in Ids |-> active[i] \ {s}]
    /\ \/ sub' = [sub EXCEPT ![s].done = TRUE, ![s].id = NoId] /\ UNCHANGED closed
       \/ sub' = [sub EXCEPT ![s].done = TRUE] /\ StopStream
    /\ UNCHANGED <<reader, pending, wire>>

SubStep(s) ==
    \/ SubscribeBegin(s) \/ SubscribeWrite(s) \/ SubscribeEnd(s) \/ RecvBegin(s) \/ RecvTake(s)
    \/ RecvEnds(s) \/ RecvCancelled(s) \/ Unsubscribe(s) \/ NodeAnswers(s) \/ NodeNotifies(s)

StreamNext ==
    \/ (\E s \in Subs : SubStep(s)) \/ CloseStream \/ StreamFails \/ ReadMessage

\* A write has a deadline and subscribe a timer; a goroutine whose select can proceed does.
StreamFair ==
    \A s \in Subs :
       /\ WF_streamVars(SubscribeWrite(s)) /\ WF_streamVars(SubscribeEnd(s))
       /\ WF_streamVars(RecvEnds(s) \/ RecvTake(s))

StreamSpec == StreamInit /\ [][StreamNext]_streamVars /\ StreamFair

-----------------------------------------------------------------------------
(* Properties. *)

UnderWay(s) == {k \in 1..Len(wire) : wire[k].kind = "note" /\ wire[k].of = s}

\* A subscription delivers what the node sends for it, in order and without a gap, from
\* its first notification until it is closed or the connection stops: an overflow, or an
\* id given out twice, ends the connection instead.  The second holder of such an id may
\* still see notifications of the first when that one was closed meanwhile.
DeliversAll ==
    \A s \in Subs : ~sub[s].twice =>
       /\ \A k \in 1..Len(sub[s].queue) :
             sub[s].queue[k] = [of |-> s, n |-> sub[s].got + k]
       /\ ~Done /\ ~sub[s].done =>
             sub[s].got + Len(sub[s].queue) + Cardinality(UnderWay(s)) = sub[s].sent

\* Every caller of subscribe gets an answer, and a stopped connection lets every receiver
\* go.
StreamReleases ==
    \A s \in Subs : sub[s].pc \in {"write", "wait"} \/ (sub[s].pc = "recv" /\ Done)
                       ~> sub[s].pc \in {"open", "ended"}
=============================================================================

---------------------------- MODULE EpochServer ----------------------------
(***************************************************************************)
(* The coordinator's transport: the accept thread, one thread per session, *)
(* the main thread that waits for a shutdown request and stops the server, *)
(* and the peers.                                                          *)
(*                                                                         *)
(* The runtime's operations are atomic, because each takes its lock once,  *)
(* but a session handler calls several of them: other sessions run between *)
(* its register_participant, its bind_session and its close_session.  The  *)
(* runtime is abstracted to the workers that hold a current incarnation    *)
(* and to the sessions that are bound.  A worker is a participant with a   *)
(* boot; each connection registers one, and several may register the same, *)
(* or one boot under two participants.                                     *)
(***************************************************************************)
EXTENDS Naturals, FiniteSets

CONSTANTS
  Connections,         \* connections peers make
  Worker,              \* the worker each of them registers, a participant
                       \* and a boot
  Sent,                \* frames they send over them
  MaxSessions,         \* limits.max_sessions
  FenceOnSessionLoss,  \* options.fence_on_session_loss
  SaveMayFail,         \* whether an operation or a fence may fail to save
  AnswersRead          \* whether peers take the answers they are sent, or
                       \* may leave them until the server's send blocks

\* The frames serve tells apart; a query is any frame that is answered and
\* neither changes the incarnations nor ends the session, and an unexpected
\* frame one that no case accepts or that does not decode.
Frames == {"hello", "register", "fence", "advance", "shutdown", "query", "unexpected"}

None == "none"

ASSUME ServerAssumption ==
  /\ IsFiniteSet(Connections)
  /\ Sent \subseteq Frames
  /\ MaxSessions \in Nat \ {0}
  /\ FenceOnSessionLoss \in BOOLEAN
  /\ SaveMayFail \in BOOLEAN
  /\ AnswersRead \in BOOLEAN

VARIABLES
  main,      \* the thread that waits for a shutdown request and calls stop
  accept,    \* the accept thread
  held,      \* the connection the accept thread has just accepted
  pc,        \* each connection, and the session thread that serves it
  greeted,   \* hello_seen of each session thread
  bound,     \* bound of each session thread
  threads,   \* session_threads
  stopNow,   \* stop_now
  shutdown,  \* shutdown_flag
  active,    \* active_sessions
  msg,       \* what each peer has sent and the server has not read
  gone,      \* the peers that have closed their connection
  live,      \* runtime: the workers whose incarnation is current
  due,       \* the threads about to bind an incarnation that is still current
  sessions,  \* runtime: the sessions that are bound
  adrift     \* history: workers left current without a session, by a full
             \* table, a boot of two participants or a save that failed

threadVars == <<main, accept, held, threads, stopNow, shutdown>>
workerVars == <<live, due, adrift>>
runtimeVars == <<workerVars, sessions>>
peerVars == <<msg, gone>>
vars == <<threadVars, pc, greeted, bound, active, peerVars, runtimeVars>>


Init ==
  /\ main = "waiting"
  /\ accept = "polling"
  /\ held = None
  /\ pc = [c \in Connections |-> "absent"]
  /\ greeted = {}
  /\ bound = {}
  /\ threads = {}
  /\ stopNow = FALSE
  /\ shutdown = FALSE
  /\ active = 0
  /\ msg = [c \in Connections |-> None]
  /\ gone = {}
  /\ live = {}
  /\ due = {}
  /\ sessions = {}
  /\ adrift = {}

\* The registry mutex is only held across steps by the waiting main thread,
\* between the test of its predicate and the wait that releases it.
MutexFree == main # "checked"

Goto(c, label) == pc' = [pc EXCEPT ![c] = label]

\* The server has not closed its end of the connection.
Open(c) == pc[c] \notin {"absent", "dropped", "finished", "joined"}

-----------------------------------------------------------------------------
(* Peers: they connect, send whole frames, stop in the middle of one, and   *)
(* leave when they please.                                                  *)

Connect(c) ==
  /\ pc[c] = "absent"
  /\ Goto(c, "queued")
  /\ UNCHANGED <<threadVars, greeted, bound, active, peerVars, runtimeVars>>

Send(c, m) ==
  /\ Open(c)
  /\ c \notin gone
  /\ msg[c] \in {None, "partial"}
  /\ msg' = [msg EXCEPT ![c] = m]
  /\ UNCHANGED <<threadVars, pc, greeted, bound, active, gone, runtimeVars>>

Leave(c) ==
  /\ Open(c)
  /\ c \notin gone
  /\ gone' = gone \cup {c}
  /\ UNCHANGED <<threadVars, pc, greeted, bound, active, msg, runtimeVars>>

\* A peer whose buffers were full reads, and the server's send goes on.
TakeAnswer(c) ==
  /\ pc[c] \in {"sending", "refusing"}
  /\ c \notin gone
  /\ Goto(c, IF pc[c] = "sending" THEN "loop" ELSE "closing")
  /\ UNCHANGED <<threadVars, greeted, bound, active, peerVars, runtimeVars>>

-----------------------------------------------------------------------------
(* The accept thread.  It is "polling" at the head of its loop and in        *)
(* accept_one, so that stop_now may be set while it waits for a peer.         *)

Reaped == {c \in threads : pc[c] = "finished"}

AcceptExit ==
  /\ accept = "polling"
  /\ stopNow
  /\ accept' = "exited"
  /\ UNCHANGED <<main, held, pc, greeted, bound, threads, stopNow, shutdown, active,
                 peerVars, runtimeVars>>

AcceptOne(c) ==
  /\ accept = "polling"
  /\ pc[c] = "queued"
  /\ accept' = "holding"
  /\ held' = c
  /\ UNCHANGED <<main, pc, greeted, bound, threads, stopNow, shutdown, active,
                 peerVars, runtimeVars>>

\* Nothing to accept: the threads that signalled completion are joined.
AcceptNone ==
  /\ accept = "polling"
  /\ MutexFree
  /\ Reaped # {}
  /\ threads' = threads \ Reaped
  /\ pc' = [c \in Connections |-> IF c \in Reaped THEN "joined" ELSE pc[c]]
  /\ UNCHANGED <<main, accept, held, greeted, bound, stopNow, shutdown, active,
                 peerVars, runtimeVars>>

\* stop_now is tested again for the connection that was accepted.
CheckStop ==
  /\ accept = "holding"
  /\ \/ /\ stopNow
        /\ accept' = "exited"
        /\ Goto(held, "dropped")
        /\ held' = None
     \/ /\ ~stopNow
        /\ accept' = "starting"
        /\ UNCHANGED <<pc, held>>
  /\ UNCHANGED <<main, greeted, bound, threads, stopNow, shutdown, active, peerVars, runtimeVars>>

StartSession ==
  /\ accept = "starting"
  /\ MutexFree
  /\ accept' = "polling"
  /\ held' = None
  /\ threads' = (threads \cup {held}) \ Reaped
  /\ pc' = [c \in Connections |-> IF c = held THEN "started"
                                  ELSE IF c \in Reaped THEN "joined" ELSE pc[c]]
  /\ UNCHANGED <<main, greeted, bound, stopNow, shutdown, active, peerVars, runtimeVars>>

-----------------------------------------------------------------------------
(* A session thread: serve. *)

\* A fault of BeginServe: the session is not counted when it begins.
BeginUncounted(c) ==
  /\ pc[c] = "started"
  /\ Goto(c, "loop")
  /\ UNCHANGED <<threadVars, greeted, bound, active, peerVars, runtimeVars>>

BeginServe(c) ==
  /\ pc[c] = "started"
  /\ active' = active + 1
  /\ Goto(c, "loop")
  /\ UNCHANGED <<threadVars, greeted, bound, peerVars, runtimeVars>>

Loop(c) ==
  /\ pc[c] = "loop"
  /\ Goto(c, IF stopNow THEN "closing" ELSE "waiting")
  /\ UNCHANGED <<threadVars, greeted, bound, active, peerVars, runtimeVars>>

\* wait_readable finds something to read, if only the peer's end of file, or
\* times out and goes back to the head of the loop.
WaitReadable(c) ==
  /\ pc[c] = "waiting"
  /\ Goto(c, IF msg[c] # None \/ c \in gone THEN "reading" ELSE "loop")
  /\ UNCHANGED <<threadVars, greeted, bound, active, peerVars, runtimeVars>>

\* An error is written, and the session ends.  send_all throws if the peer is
\* found gone, and has no timeout: it waits for a peer that does not read.
Refused(c) ==
  \/ Goto(c, "closing")
  \/ ~AnswersRead /\ c \notin gone /\ Goto(c, "refusing")

\* The answer is written by the same send_all, or refused by its encoder when
\* it does not fit a frame or its explanation is too long.
Answered(c) ==
  \/ Goto(c, "loop")
  \/ ~AnswersRead /\ c \notin gone /\ Goto(c, "sending")
  \/ Refused(c)

\* A send that was blocked throws when the peer closes its connection.
SendEnds(c) ==
  /\ pc[c] \in {"sending", "refusing"}
  /\ c \in gone
  /\ Goto(c, "closing")
  /\ UNCHANGED <<threadVars, greeted, bound, active, peerVars, runtimeVars>>

\* A fault of ReceiveEnds: a peer that stops in a frame is waited for.
ReceiveForever(c) ==
  /\ pc[c] = "reading"
  /\ c \in gone
  /\ msg[c] \in {None, "partial"}
  /\ Goto(c, "closing")
  /\ UNCHANGED <<threadVars, greeted, bound, active, peerVars, runtimeVars>>

\* No whole frame comes: the peer has left, before a frame or in it, or the
\* receive budget of a started frame is spent.  The budget is that of a single
\* recv; a frame is finite, so a peer that trickles its bytes delays the end and
\* does not avoid it.
ReceiveEnds(c) ==
  /\ pc[c] = "reading"
  /\ \/ msg[c] = None /\ c \in gone
     \/ msg[c] = "partial"
  /\ Refused(c)
  /\ UNCHANGED <<threadVars, greeted, bound, active, peerVars, runtimeVars>>

\* Frame m has been read.  Before HELLO no other frame is accepted.
Reads(c, m) ==
  /\ pc[c] = "reading"
  /\ msg[c] = m
  /\ msg' = [msg EXCEPT ![c] = None]
  /\ m = "hello" \/ c \in greeted

HandleHello(c) ==
  /\ Reads(c, "hello")
  /\ greeted' = greeted \cup {c}
  /\ Answered(c)
  /\ UNCHANGED <<threadVars, bound, active, gone, runtimeVars>>

\* A frame before HELLO, a frame no case accepts and a second registration end
\* the session.
HandleViolation(c) ==
  /\ pc[c] = "reading"
  /\ msg[c] \in Frames
  /\ \/ msg[c] # "hello" /\ c \notin greeted
     \/ msg[c] = "unexpected"
     \/ msg[c] = "register" /\ c \in bound
  /\ msg' = [msg EXCEPT ![c] = None]
  /\ Refused(c)
  /\ UNCHANGED <<threadVars, greeted, bound, active, gone, runtimeVars>>

Workers == {Worker[c] : c \in Connections}

\* No image that has a boot current for two participants is saved.
Storable(L) == \A v, w \in L : v.boot = w.boot => v = w

\* What is saved is the outcome L; an operation that changes nothing is not.
Saves(L) == L = live \/ Storable(L)
Fails(L) == SaveMayFail \/ ~Storable(L)

\* Of the workers only those kept are current still; one is admitted, to be
\* bound by the connections in binds, or to drift.
Keep(kept, admitted, binds, drifts) ==
  /\ live' = kept \cup admitted
  /\ due' = {d \in due : Worker[d] \in kept} \cup binds
  /\ adrift' = (adrift \cap kept) \cup drifts

Without(p) == {v \in live : v.participant # p}

\* A registration keeps the incarnations there are or replaces its
\* participant's.
Keeps(c) == IF Worker[c] \in live THEN {} ELSE {live, Without(Worker[c].participant)}

\* A fence takes one incarnation away, a retirement those of a participant.
Leaves == {live \ {w} : w \in Workers} \cup {Without(w.participant) : w \in Workers}

\* register_participant admits the incarnation, answers a retry with the
\* incarnation it admitted before, current or not, or refuses.  What it
\* answered is bound to the session in a call of its own.
HandleRegister(c) ==
  /\ Reads(c, "register")
  /\ c \notin bound
  /\ \/ \E kept \in Keeps(c) :
          /\ Saves(kept \cup {Worker[c]})
          /\ Keep(kept, {Worker[c]}, {c}, {})
          /\ Goto(c, "binding")
     \/ /\ due' \in {due, IF Worker[c] \in live THEN due \cup {c} ELSE due}
        /\ Goto(c, "binding")
        /\ UNCHANGED <<live, adrift>>
     \/ UNCHANGED workerVars /\ Answered(c)
  /\ UNCHANGED <<threadVars, greeted, bound, active, gone, sessions>>

\* A boot has one session, whatever participant it was bound for.
SameBoot(c) == {d \in sessions : Worker[d].boot = Worker[c].boot}

\* bind_session: refused when the incarnation is current no more or the boot
\* has a session, thrown out of when the table is full.  The incarnation is
\* left to the session its boot has, if that is one of the same participant.
Bind(c) ==
  /\ pc[c] = "binding"
  /\ due' = due \ {c}
  /\ \/ /\ c \in due /\ SameBoot(c) = {} /\ Cardinality(sessions) < MaxSessions
        /\ sessions' = sessions \cup {c}
        /\ bound' = bound \cup {c}
        /\ adrift' = adrift \ {Worker[c]}
        /\ Answered(c)
     \/ /\ ~(c \in due /\ SameBoot(c) = {} /\ Cardinality(sessions) < MaxSessions)
        /\ adrift' = IF c \in due /\ \A d \in SameBoot(c) : Worker[d] # Worker[c]
                     THEN adrift \cup {Worker[c]} ELSE adrift
        /\ Refused(c)
        /\ UNCHANGED <<sessions, bound>>
  /\ UNCHANGED <<threadVars, greeted, active, peerVars, live>>

HandleFence(c) ==
  /\ Reads(c, "fence")
  /\ \E kept \in Leaves : Saves(kept) /\ Keep(kept, {}, {}, {})
  /\ Answered(c)
  /\ UNCHANGED <<threadVars, greeted, bound, active, gone, sessions>>

HandleAdvance(c) ==
  /\ Reads(c, "advance")
  /\ Keep({}, {}, {}, {})
  /\ Answered(c)
  /\ UNCHANGED <<threadVars, greeted, bound, active, gone, sessions>>

\* A fault of FailToSave: the undo of a registration forgets the incarnation.
FailToUndo(c) ==
  /\ Reads(c, "register") /\ c \notin bound
  /\ \E kept \in Keeps(c) :
       Fails(kept \cup {Worker[c]}) /\ Keep(live, {Worker[c]}, {}, {})
  /\ Refused(c)
  /\ UNCHANGED <<threadVars, greeted, bound, active, gone, sessions>>

\* An operation whose save throws is undone, and ends the session.  A first
\* registration is undone by taking the last participant away, which need not
\* be the one that was added.
FailToSave(c) ==
  /\ \/ Reads(c, "register") /\ c \notin bound
        /\ \E kept \in Keeps(c) : Fails(kept \cup {Worker[c]})
     \/ Reads(c, "fence") /\ \E kept \in Leaves : Fails(kept)
     \/ Reads(c, "advance") /\ Fails({})
  /\ \/ UNCHANGED workerVars
     \/ /\ msg[c] = "register"
        /\ live = Without(Worker[c].participant)
        /\ \E kept \in {live} \cup {Without(v.participant) : v \in live} :
             Keep(kept, {Worker[c]}, {}, {Worker[c]})
  /\ Refused(c)
  /\ UNCHANGED <<threadVars, greeted, bound, active, gone, sessions>>

HandleQuery(c) ==
  /\ Reads(c, "query")
  /\ Answered(c)
  /\ UNCHANGED <<threadVars, greeted, bound, active, gone, runtimeVars>>

HandleShutdown(c) ==
  /\ Reads(c, "shutdown")
  /\ Goto(c, "requesting")
  /\ UNCHANGED <<threadVars, greeted, bound, active, gone, runtimeVars>>

\* A fault of SetFlag: the flag is set without the mutex.
SetFlagUnlocked(c) ==
  /\ pc[c] = "requesting"
  /\ shutdown' = TRUE
  /\ Goto(c, "notifying")
  /\ UNCHANGED <<main, accept, held, threads, stopNow, greeted, bound, active, peerVars, runtimeVars>>

\* request_shutdown sets the flag under the mutex and notifies after it, and
\* the handler then sets stop_now.
SetFlag(c) ==
  /\ pc[c] = "requesting"
  /\ MutexFree
  /\ shutdown' = TRUE
  /\ Goto(c, "notifying")
  /\ UNCHANGED <<main, accept, held, threads, stopNow, greeted, bound, active, peerVars, runtimeVars>>

Notify(c) ==
  /\ pc[c] = "notifying"
  /\ main' = IF main = "blocked" THEN "waiting" ELSE main
  /\ stopNow' = TRUE
  /\ Goto(c, "closing")
  /\ UNCHANGED <<accept, held, threads, shutdown, greeted, bound, active, peerVars, runtimeVars>>

\* The thread's locals end with it, and what was not read of its socket.
Finish(c) ==
  /\ pc[c] = "closing"
  /\ Goto(c, "finished")
  /\ greeted' = greeted \ {c}
  /\ bound' = bound \ {c}
  /\ msg' = [msg EXCEPT ![c] = None]
  /\ UNCHANGED <<threadVars, gone>>

\* A fault of EndServe: a session that ends leaves its binding behind.
EndWithoutClose(c) ==
  /\ Finish(c)
  /\ active' = active - 1
  /\ UNCHANGED runtimeVars

\* A fault of EndServe: a session that ends is erased and its boot not fenced.
EndWithoutFence(c) ==
  /\ Finish(c)
  /\ sessions' = sessions \ {c}
  /\ active' = active - 1
  /\ UNCHANGED workerVars

\* The end of serve.  close_session erases the session, then fences the boot
\* it was bound for, whichever incarnation that has by now; if that fence
\* cannot be saved the exception leaves serve before the counter.
EndServe(c) ==
  LET kept == live \ {Worker[c]} IN
  /\ Finish(c)
  /\ sessions' = sessions \ {c}
  /\ \/ /\ c \in bound
        /\ IF FenceOnSessionLoss
             THEN Saves(kept) /\ Keep(kept, {}, {}, {})
             ELSE UNCHANGED workerVars
        /\ active' = active - 1
     \/ /\ c \in bound
        /\ FenceOnSessionLoss /\ Worker[c] \in live /\ Fails(kept)
        /\ adrift' = adrift \cup {Worker[c]}
        /\ UNCHANGED <<live, due, active>>
     \/ /\ c \notin bound
        /\ active' = active - 1
        /\ UNCHANGED workerVars

-----------------------------------------------------------------------------
(* The main thread: wait_for_shutdown_request, then stop. *)

CheckFlag ==
  /\ main = "waiting"
  /\ main' = IF shutdown THEN "stopping" ELSE "checked"
  /\ UNCHANGED <<accept, held, pc, greeted, bound, threads, stopNow, shutdown, active,
                 peerVars, runtimeVars>>

Block ==
  /\ main = "checked"
  /\ main' = "blocked"
  /\ UNCHANGED <<accept, held, pc, greeted, bound, threads, stopNow, shutdown, active,
                 peerVars, runtimeVars>>

StopAccepting ==
  /\ main = "stopping"
  /\ stopNow' = TRUE
  /\ main' = "joining"
  /\ UNCHANGED <<accept, held, pc, greeted, bound, threads, shutdown, active,
                 peerVars, runtimeVars>>

\* A fault of JoinSessions: the sessions are swept before the accept thread is
\* joined.
JoinAnySessions ==
  /\ main = "joining"
  /\ \A c \in threads : pc[c] = "finished"
  /\ pc' = [c \in Connections |-> IF c \in threads THEN "joined" ELSE pc[c]]
  /\ threads' = {}
  /\ main' = "done"
  /\ UNCHANGED <<accept, held, greeted, bound, stopNow, shutdown, active,
                 peerVars, runtimeVars>>

\* The accept thread is joined, then every session thread that is left.
JoinSessions ==
  /\ main = "joining"
  /\ accept = "exited"
  /\ \A c \in threads : pc[c] = "finished"
  /\ pc' = [c \in Connections |-> IF c \in threads THEN "joined" ELSE pc[c]]
  /\ threads' = {}
  /\ main' = "done"
  /\ UNCHANGED <<accept, held, greeted, bound, stopNow, shutdown, active,
                 peerVars, runtimeVars>>

-----------------------------------------------------------------------------

Peer(c) ==
  \/ Connect(c)
  \/ \E m \in Sent \cup {"partial"} : Send(c, m)
  \/ Leave(c)
  \/ TakeAnswer(c)

AcceptThread ==
  \/ AcceptExit \/ AcceptNone \/ CheckStop \/ StartSession
  \/ \E c \in Connections : AcceptOne(c)

SessionThread(c) ==
  \/ BeginServe(c) \/ Loop(c) \/ WaitReadable(c) \/ ReceiveEnds(c) \/ SendEnds(c)
  \/ HandleHello(c) \/ HandleViolation(c) \/ HandleRegister(c) \/ Bind(c)
  \/ HandleFence(c) \/ HandleAdvance(c) \/ FailToSave(c) \/ HandleQuery(c)
  \/ HandleShutdown(c) \/ SetFlag(c) \/ Notify(c)
  \/ EndServe(c)

MainThread == CheckFlag \/ Block \/ StopAccepting \/ JoinSessions

Next ==
  \/ AcceptThread
  \/ MainThread
  \/ \E c \in Connections : Peer(c) \/ SessionThread(c)

\* Threads are scheduled and waits for input are bounded, so every thread that
\* can go on does; that peers send, read or leave is not assumed.
Fairness ==
  /\ WF_vars(AcceptThread)
  /\ WF_vars(MainThread)
  /\ \A c \in Connections : WF_vars(SessionThread(c))

Spec == Init /\ [][Next]_vars /\ Fairness

-----------------------------------------------------------------------------
(* Properties. *)

Serving == {"loop", "waiting", "reading", "sending", "refusing", "binding", "requesting",
            "notifying", "closing"}

\* Type invariant.
TypeOK ==
  /\ main \in {"waiting", "checked", "blocked", "stopping", "joining", "done"}
  /\ accept \in {"polling", "holding", "starting", "exited"}
  /\ held \in Connections \cup {None}
  /\ pc \in [Connections -> Serving \cup
               {"absent", "queued", "dropped", "started", "finished", "joined"}]
  /\ greeted \subseteq Connections
  /\ bound \subseteq Connections
  /\ threads \subseteq Connections
  /\ stopNow \in BOOLEAN
  /\ shutdown \in BOOLEAN
  /\ active \in 0..Cardinality(Connections)
  /\ msg \in [Connections -> Frames \cup {None, "partial"}]
  /\ gone \subseteq Connections
  /\ live \subseteq Workers
  /\ due \subseteq Connections
  /\ sessions \subseteq Connections
  /\ adrift \subseteq live

\* Once a peer has asked for a shutdown the server comes to a stop, whatever
\* its peers do as long as they read: no wakeup is lost, no session thread is pinned by a peer that
\* stops in the middle of a frame, and no join waits for its own thread.
ShutdownCompletes == shutdown ~> main = "done"

\* When stop has returned no thread is left running and no session is bound.
StoppedClean ==
  main = "done" =>
    /\ sessions = {}
    /\ \A c \in Connections : pc[c] \notin Serving \cup {"started", "finished"}

\* A worker whose connection is lost is fenced, soon or late, whichever
\* connection has registered it since.
LostWorkersAreFenced ==
  \A c \in Connections : (c \in gone /\ c \in sessions) ~> Worker[c] \notin live

\* The calls of a session handler leave no incarnation current that no end of
\* a session will fence: what is current is bound, is about to be, is that of a
\* boot whose earlier session is still open, or has been left adrift, because
\* the table was full, because the boot's session is another participant's, or
\* because a save failed.
NoOrphans ==
  FenceOnSessionLoss =>
    \A w \in live \ adrift : \E c \in due \cup sessions : Worker[c] = w

=============================================================================

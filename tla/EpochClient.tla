----------------------------- MODULE EpochClient -----------------------------
(***************************************************************************)
(* A CoordinatorClient shared by the threads of a worker.  One connection, *)
(* one mutex: a call holds the mutex from its request to its response, and *)
(* wait_for_disconnect takes it for each of its bounded waits, so that     *)
(* calls and close get in between.  The coordinator at the other end       *)
(* answers requests in order, hangs up when it pleases, and before it does *)
(* may send an error that answers no request.                              *)
(*                                                                         *)
(* Frames arrive whole: a coordinator that stops in the middle of one is   *)
(* left out.  The client never bounds its receive, so it would wait there, *)
(* mutex in hand, for as long as the coordinator does.                     *)
(***************************************************************************)
EXTENDS Naturals, Sequences

CONSTANTS
  Threads,         \* the threads that share the client
  MaxConnections,  \* bound of the model on connections made
  MaxCalls         \* bound of the model on calls begun

None == "none"

ASSUME ClientAssumption ==
  /\ None \notin Threads
  /\ MaxConnections \in Nat
  /\ MaxCalls \in Nat

VARIABLES
  holder,     \* the thread that holds the mutex over several steps
  open,       \* whether the socket is valid
  helloDone,  \* hello_done
  cancelled,  \* disconnect_wait_cancelled
  at,         \* where each thread is
  number,     \* the number of each thread's last call
  asked,      \* requests on this connection the coordinator has not answered
  inbox,      \* frames of this connection the client has not read
  lost,       \* whether the coordinator has hung up this connection
  made,       \* how many connections were made
  calls,      \* how many calls were begun
  greeted,    \* history: HELLO was acknowledged on this connection
  answer      \* history: the call whose answer each thread got, 0 for none

clientVars == <<open, helloDone, cancelled>>
wireVars == <<asked, inbox, lost>>
vars == <<holder, clientVars, at, number, wireVars, made, calls, greeted, answer>>

\* The public calls.  The requests other than HELLO are alike here: register,
\* fence, query and the others check that HELLO is done, send, and read one
\* frame, and differ in their payloads only.
Operations == {"connect", "close", "hello", "call", "shutdown", "wait"}

Init ==
  /\ holder = None
  /\ open = FALSE /\ helloDone = FALSE /\ cancelled = FALSE
  /\ at = [t \in Threads |-> "idle"]
  /\ number = [t \in Threads |-> 0]
  /\ asked = << >> /\ inbox = << >> /\ lost = FALSE
  /\ made = 0
  /\ calls = 0
  /\ greeted = FALSE
  /\ answer = [t \in Threads |-> 0]

Goto(t, label) == at' = [at EXCEPT ![t] = label]

\* A thread begins a call, which has to get the mutex first.
Begin(t, op) ==
  /\ at[t] = "idle"
  /\ calls < MaxCalls
  /\ calls' = calls + 1
  /\ number' = [number EXCEPT ![t] = calls']
  /\ answer' = [answer EXCEPT ![t] = 0]
  /\ Goto(t, op)
  /\ UNCHANGED <<holder, clientVars, wireVars, made, greeted>>

\* The call returns, or leaves with an exception.
Leave(t) == Goto(t, "idle") /\ UNCHANGED <<number, calls>>

\* The connection that was in use is gone, and what was under way on it.
DropWire == asked' = << >> /\ inbox' = << >> /\ lost' = FALSE

-----------------------------------------------------------------------------
(* connect, close and request_shutdown, each in one hold of the mutex. *)

\* A fault of Connect: hello_done survives a new connection.
ConnectKeepingHello(t) ==
  /\ at[t] = "connect"
  /\ holder = None
  /\ made < MaxConnections
  /\ made' = made + 1
  /\ open' = TRUE
  /\ cancelled' = FALSE
  /\ greeted' = FALSE
  /\ DropWire
  /\ Leave(t)
  /\ UNCHANGED <<holder, helloDone, answer>>

\* A new connection takes the place of the old one; connect_to may throw.
Connect(t) ==
  /\ at[t] = "connect"
  /\ holder = None
  /\ \/ /\ made < MaxConnections
        /\ made' = made + 1
        /\ open' = TRUE
        /\ helloDone' = FALSE
        /\ cancelled' = FALSE
        /\ greeted' = FALSE
        /\ DropWire
     \/ UNCHANGED <<clientVars, wireVars, made, greeted>>
  /\ Leave(t)
  /\ UNCHANGED <<holder, answer>>

Close(t) ==
  /\ at[t] = "close"
  /\ holder = None
  /\ cancelled' = TRUE
  /\ open' = FALSE
  /\ helloDone' = FALSE
  /\ DropWire
  /\ Leave(t)
  /\ UNCHANGED <<holder, made, greeted, answer>>

\* The request is sent and the socket closed without an answer.  hello_done
\* stays as it is.  Sending throws if the client is not connected, or may if
\* the coordinator has hung up.
RequestShutdown(t) ==
  /\ at[t] = "shutdown"
  /\ holder = None
  /\ \/ /\ helloDone /\ open
        /\ cancelled' = TRUE
        /\ open' = FALSE
        /\ DropWire
        /\ UNCHANGED helloDone
     \/ /\ ~helloDone \/ ~open \/ lost
        /\ UNCHANGED <<clientVars, wireVars>>
  /\ Leave(t)
  /\ UNCHANGED <<holder, made, greeted, answer>>

-----------------------------------------------------------------------------
(* hello and the other requests: send, then receive, under one hold. *)

\* Whether ensure_connected and ensure_hello let a request pass.
MaySend(t) == open /\ (at[t] = "hello" \/ helloDone)

Receiving(op) == IF op = "hello" THEN "hello_sent" ELSE "call_sent"

\* A fault of Send: the mutex is released while the answer is awaited.
SendUnlocked(t) ==
  /\ at[t] \in {"hello", "call"}
  /\ holder = None
  /\ MaySend(t)
  /\ asked' = Append(asked, [id |-> number[t], kind |-> at[t]])
  /\ Goto(t, Receiving(at[t]))
  /\ UNCHANGED <<holder, clientVars, number, inbox, lost, made, calls, greeted, answer>>

Send(t) ==
  /\ at[t] \in {"hello", "call"}
  /\ holder = None
  /\ \/ /\ MaySend(t)
        /\ holder' = t
        /\ asked' = IF lost THEN asked
                    ELSE Append(asked, [id |-> number[t], kind |-> at[t]])
        /\ Goto(t, Receiving(at[t]))
     \/ /\ ~MaySend(t) \/ lost
        /\ Goto(t, "idle")
        /\ UNCHANGED <<holder, asked>>
  /\ UNCHANGED <<clientVars, number, inbox, lost, made, calls, greeted, answer>>

\* The first frame that arrives is taken for the answer; only its type is
\* compared.  An error or an unexpected type leaves with an exception.
Receive(t, op) ==
  /\ at[t] = Receiving(op)
  /\ inbox # << >>
  /\ inbox' = Tail(inbox)
  /\ answer' = IF Head(inbox).kind = op
                 THEN [answer EXCEPT ![t] = Head(inbox).id]
                 ELSE answer
  /\ helloDone' = (helloDone \/ (op = "hello" /\ Head(inbox).kind = op))
  /\ greeted' = (greeted \/ (op = "hello" /\ Head(inbox).kind = op))
  /\ holder' = None
  /\ Leave(t)
  /\ UNCHANGED <<open, cancelled, asked, lost, made>>

\* The coordinator has hung up before it answered.
ReceiveNothing(t, op) ==
  /\ at[t] = Receiving(op)
  /\ inbox = << >>
  /\ lost
  /\ holder' = None
  /\ Leave(t)
  /\ UNCHANGED <<clientVars, wireVars, made, greeted, answer>>

-----------------------------------------------------------------------------
(* wait_for_disconnect. *)

\* The head of the loop: there is nothing to wait for, or the socket is
\* polled under the mutex.
Check(t) ==
  /\ at[t] = "wait"
  /\ holder = None
  /\ \/ /\ ~open \/ cancelled
        /\ Goto(t, "ending")
        /\ UNCHANGED holder
     \/ /\ open /\ ~cancelled
        /\ Goto(t, "polling")
        /\ holder' = t
  /\ UNCHANGED <<clientVars, number, wireVars, made, calls, greeted, answer>>

\* wait_readable sees a frame or the end of the connection, or times out.
Poll(t) ==
  /\ at[t] = "polling"
  /\ \/ /\ inbox # << >> \/ lost
        /\ Goto(t, "draining")
        /\ UNCHANGED holder
     \/ /\ inbox = << >> /\ ~lost
        /\ Goto(t, "wait")
        /\ holder' = None
  /\ UNCHANGED <<clientVars, number, wireVars, made, calls, greeted, answer>>

\* A fault of Drain: the end of the connection is taken for silence.
DrainDeaf(t) ==
  /\ at[t] = "draining"
  /\ inbox' = IF inbox = << >> THEN inbox ELSE Tail(inbox)
  /\ Goto(t, "wait")
  /\ holder' = None
  /\ UNCHANGED <<clientVars, number, asked, lost, made, calls, greeted, answer>>

\* A frame is read and dropped; the end of the connection ends the loop.
Drain(t) ==
  /\ at[t] = "draining"
  /\ \/ /\ inbox # << >>
        /\ inbox' = Tail(inbox)
        /\ Goto(t, "wait")
     \/ /\ inbox = << >>
        /\ Goto(t, "ending")
        /\ UNCHANGED inbox
  /\ holder' = None
  /\ UNCHANGED <<clientVars, number, asked, lost, made, calls, greeted, answer>>

\* After the loop the socket is closed, in a second hold of the mutex.
EndWait(t) ==
  /\ at[t] = "ending"
  /\ holder = None
  /\ cancelled' = TRUE
  /\ open' = FALSE
  /\ DropWire
  /\ Leave(t)
  /\ UNCHANGED <<holder, helloDone, made, greeted, answer>>

-----------------------------------------------------------------------------
(* The coordinator. *)

\* The oldest request is answered, with its result or with an error.
Answer(kind) ==
  /\ open /\ ~lost
  /\ asked # << >>
  /\ asked' = Tail(asked)
  /\ inbox' = Append(inbox, [id |-> Head(asked).id, kind |-> kind])
  /\ UNCHANGED <<holder, clientVars, at, number, lost, made, calls, greeted, answer>>

Answers == asked # << >> /\ \E kind \in {Head(asked).kind, "error"} : Answer(kind)

\* The connection is given up, with or without an error frame before it.
HangUp ==
  /\ open /\ ~lost
  /\ lost' = TRUE
  /\ asked' = << >>
  /\ inbox' \in {inbox, Append(inbox, [id |-> 0, kind |-> "error"])}
  /\ UNCHANGED <<holder, clientVars, at, number, made, calls, greeted, answer>>

-----------------------------------------------------------------------------

Proceed(t) ==
  \/ Connect(t) \/ Close(t) \/ RequestShutdown(t)
  \/ Send(t) \/ \E op \in {"hello", "call"} : Receive(t, op) \/ ReceiveNothing(t, op)
  \/ Check(t) \/ Poll(t) \/ Drain(t) \/ EndWait(t)

Next ==
  \/ \E t \in Threads : Proceed(t) \/ \E op \in Operations : Begin(t, op)
  \/ Answers
  \/ HangUp

\* Threads that can go on do, and the coordinator answers what it is asked
\* unless it hangs up.  The mutex is not assumed to be fair.
Fairness ==
  /\ \A t \in Threads : WF_vars(Proceed(t))
  /\ WF_vars(Answers)

Spec == Init /\ [][Next]_vars /\ Fairness

-----------------------------------------------------------------------------
(* Properties. *)

\* The steps in which a thread holds the mutex.
Inside == {"hello_sent", "call_sent", "polling", "draining"}

\* The frames under way, each with the number of the call it belongs to.
Requests == [id: 1..MaxCalls, kind: {"hello", "call"}]
Replies == [id: 0..MaxCalls, kind: {"hello", "call", "error"}]

Waiting(t) == at[t] \in {"wait", "polling", "draining", "ending"}

\* Type invariant, and the discipline of the mutex: its holder is the one
\* thread inside.
TypeOK ==
  /\ holder \in Threads \cup {None}
  /\ open \in BOOLEAN /\ helloDone \in BOOLEAN /\ cancelled \in BOOLEAN
  /\ at \in [Threads -> Operations \cup Inside \cup {"idle", "ending"}]
  /\ number \in [Threads -> 0..MaxCalls]
  /\ asked \in Seq(Requests)
  /\ inbox \in Seq(Replies)
  /\ lost \in BOOLEAN
  /\ made \in 0..MaxConnections
  /\ calls \in 0..MaxCalls
  /\ greeted \in BOOLEAN
  /\ answer \in [Threads -> 0..MaxCalls]
  /\ \A t \in Threads : at[t] \in Inside <=> holder = t

\* The answer a call returns is the answer to its own request, although
\* exchange does not compare request identifiers: other threads' calls,
\* errors, lost connections and a waiting thread that drops frames come
\* between, and none of them leaves a frame behind that a later call reads.
AnswersMatch ==
  \A t \in Threads : answer[t] # 0 => answer[t] = number[t]

\* No request is under way on a connection whose HELLO was not acknowledged,
\* over reconnection, close, shutdown and lost connections: the coordinator
\* would end the session for it.
HelloFirst ==
  \A t \in Threads : at[t] = "call_sent" => greeted

\* A thread in wait_for_disconnect comes back once the connection is lost,
\* closed or given up by another thread, unless a new connection is made.
WaitEnds ==
  \A t \in Threads :
    LET over == ~open \/ cancelled \/ lost IN
    (Waiting(t) /\ over) ~> (~Waiting(t) \/ ~over)

=============================================================================

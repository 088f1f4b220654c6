---------------------------- MODULE ClientProofs ----------------------------
(***************************************************************************)
(* Theorems about the client, for any number of threads, connections and   *)
(* calls.                                                                  *)
(***************************************************************************)
EXTENDS EpochClient, TLAPS, SequenceTheorems

USE ClientAssumption DEF ClientAssumption

\* The error frame of a coordinator that gives the connection up.
Goodbye == [id |-> 0, kind |-> "error"]

Awaiting(t) == at[t] \in {"hello_sent", "call_sent"}

\* A request of thread t's call, and a frame that answers it.
OwnRequest(t) == {[id |-> number[t], kind |-> k] : k \in {"hello", "call"}}
OwnReply(t) == {[id |-> number[t], kind |-> k] : k \in {"hello", "call", "error"}}

\* Nothing is under way, except the farewell of a connection that is lost.
Quiet ==
  /\ asked = << >>
  /\ inbox = << >> \/ (lost /\ inbox = <<Goodbye>>)

\* While thread t waits, its own request or its own reply is under way, or
\* the connection is lost.
Exchange(t) ==
  \/ lost /\ Quiet
  \/ ~lost /\ inbox = << >> /\ \E r \in OwnRequest(t) : asked = <<r>>
  \/ asked = << >> /\ \E r \in OwnReply(t) : inbox = <<r>> \/ (lost /\ inbox = <<r, Goodbye>>)

\* The inductive invariant.  Nothing a call has asked for is left when the
\* mutex is released, so that the first frame the next call reads is its own.
OneExchange ==
  /\ \A t \in Threads : Awaiting(t) => Exchange(t)
  /\ (\A t \in Threads : ~Awaiting(t)) => Quiet
  /\ \A t \in Threads : at[t] # "idle" => number[t] > 0
  /\ helloDone => greeted

-----------------------------------------------------------------------------
(* The sequences of frames that occur. *)

\* Sequences of at most two frames, taken apart and put together.
LEMMA ShortSequences ==
  ASSUME NEW x, NEW y
  PROVE  /\ Append(<< >>, x) = <<x>>
         /\ Append(<<x>>, y) = <<x, y>>
         /\ Head(<<x>>) = x /\ Head(<<x, y>>) = x
         /\ Tail(<<x>>) = << >> /\ Tail(<<x, y>>) = <<y>>
         /\ <<x>> # << >> /\ <<x, y>> # << >>
<1>1. Append(<< >>, x) = <<x>>
  OBVIOUS
<1>2. Append(<<x>>, y) = <<x, y>>
  <2>1. /\ Append(<<x>>, y) \in Seq({x, y}) /\ <<x, y>> \in Seq({x, y})
        /\ Len(Append(<<x>>, y)) = 2 /\ Len(<<x, y>>) = 2
        /\ Append(<<x>>, y)[1] = x /\ Append(<<x>>, y)[2] = y
    OBVIOUS
  <2>2. \A i \in 1..2 : Append(<<x>>, y)[i] = <<x, y>>[i]
    BY <2>1
  <2> QED
    BY <2>1, <2>2, SeqEqual, Zenon
<1>3. Head(<<x>>) = x /\ Head(<<x, y>>) = x
  OBVIOUS
<1>4. Tail(<<x>>) = << >>
  OBVIOUS
<1>5. Tail(<<x, y>>) = <<y>>
  OBVIOUS
<1>6. <<x>> # << >> /\ <<x, y>> # << >>
  OBVIOUS
<1> QED
  BY <1>1, <1>2, <1>3, <1>4, <1>5, <1>6

\* A sequence over a set, with an element added or taken.
LEMMA SequenceOver ==
  ASSUME NEW S, NEW s \in Seq(S), NEW x \in S
  PROVE  /\ << >> \in Seq(S)
         /\ Append(s, x) \in Seq(S)
         /\ s # << >> => Head(s) \in S /\ Tail(s) \in Seq(S)
OBVIOUS

-----------------------------------------------------------------------------
(* Types and the discipline of the mutex. *)

\* The initial client is well typed, and nothing is under way.
LEMMA ClientInit == Init => TypeOK /\ OneExchange
<1>1. 0 \in 0..MaxCalls /\ 0 \in 0..MaxConnections
  OBVIOUS
<1>2. Init => TypeOK
  <2> SUFFICES ASSUME Init PROVE TypeOK
    OBVIOUS
  <2>1. \A t \in Threads : at[t] \in Inside <=> holder = t
    BY DEF Init, Inside
  <2>2. /\ at \in [Threads -> Operations \cup Inside \cup {"idle", "ending"}]
        /\ number \in [Threads -> 0..MaxCalls]
        /\ answer \in [Threads -> 0..MaxCalls]
    BY <1>1 DEF Init
  <2>3. << >> \in Seq(Requests) /\ << >> \in Seq(Replies)
    OBVIOUS
  <2> QED
    BY <1>1, <2>1, <2>2, <2>3 DEF Init, TypeOK
<1>3. Init => OneExchange
  BY DEF Init, OneExchange, Awaiting, Quiet
<1> QED
  BY <1>2, <1>3

\* Every step keeps the types and the discipline of the mutex: the thread
\* that holds it is the one inside.
LEMMA ClientTypeStep == TypeOK /\ OneExchange /\ [Next]_vars => TypeOK'
<1> SUFFICES ASSUME TypeOK, OneExchange, [Next]_vars PROVE TypeOK'
  OBVIOUS
<1>0. << >> \in Seq(Requests) /\ << >> \in Seq(Replies)
  OBVIOUS
<1> USE <1>0 DEF clientVars, wireVars, Goto, Leave, DropWire, Inside, Operations
<1>1. ASSUME NEW t \in Threads, NEW op \in Operations, Begin(t, op) PROVE TypeOK'
  BY <1>1 DEF TypeOK, Begin
<1>2. ASSUME NEW t \in Threads, Connect(t) PROVE TypeOK'
  <2>1. CASE UNCHANGED <<clientVars, wireVars, made, greeted>>
    BY <1>2, <2>1 DEF TypeOK, Connect
  <2>2. CASE /\ made < MaxConnections /\ made' = made + 1
             /\ open' = TRUE /\ helloDone' = FALSE /\ cancelled' = FALSE /\ greeted' = FALSE
             /\ DropWire
    <3>1. made' \in 0..MaxConnections
      BY <2>2 DEF TypeOK
    <3> QED
      BY <1>2, <2>2, <3>1 DEF TypeOK, Connect
  <2> QED
    BY <1>2, <2>1, <2>2 DEF Connect
<1>3. ASSUME NEW t \in Threads, Close(t) PROVE TypeOK'
  BY <1>3 DEF TypeOK, Close
<1>4. ASSUME NEW t \in Threads, RequestShutdown(t) PROVE TypeOK'
  BY <1>4 DEF TypeOK, RequestShutdown
<1>5. ASSUME NEW t \in Threads, Send(t) PROVE TypeOK'
  <2>1. [id |-> number[t], kind |-> at[t]] \in Requests
    <3>1. at[t] \in {"hello", "call"} /\ number[t] \in 0..MaxCalls /\ number[t] > 0
      BY <1>5 DEF TypeOK, Send, OneExchange
    <3> QED
      BY <3>1 DEF Requests
  <2>2. asked' \in Seq(Requests)
    <3>1. Append(asked, [id |-> number[t], kind |-> at[t]]) \in Seq(Requests)
      BY <2>1 DEF TypeOK
    <3> QED
      BY <1>5, <3>1 DEF TypeOK, Send
  <2> QED
    BY <1>5, <2>2 DEF TypeOK, Send, Receiving
<1>6. ASSUME NEW t \in Threads, NEW op \in {"hello", "call"}, Receive(t, op) PROVE TypeOK'
  <2>1. /\ Head(inbox) \in Replies
        /\ inbox' \in Seq(Replies)
    BY <1>6 DEF TypeOK, Receive
  <2>2. answer' \in [Threads -> 0..MaxCalls]
    BY <1>6, <2>1 DEF TypeOK, Receive, Replies
  <2>3. helloDone' \in BOOLEAN /\ greeted' \in BOOLEAN
    BY <1>6 DEF Receive
  <2> QED
    BY <1>6, <2>1, <2>2, <2>3 DEF TypeOK, Receive, Receiving
<1>7. ASSUME NEW t \in Threads, NEW op \in {"hello", "call"}, ReceiveNothing(t, op)
      PROVE  TypeOK'
  BY <1>7 DEF TypeOK, ReceiveNothing, Receiving
<1>8. ASSUME NEW t \in Threads, Check(t) PROVE TypeOK'
  BY <1>8 DEF TypeOK, Check
<1>9. ASSUME NEW t \in Threads, Poll(t) PROVE TypeOK'
  BY <1>9 DEF TypeOK, Poll
<1>10. ASSUME NEW t \in Threads, Drain(t) PROVE TypeOK'
  <2>1. inbox' \in Seq(Replies)
    <3>1. inbox \in Seq(Replies)
      BY DEF TypeOK
    <3>2. inbox # << >> => Tail(inbox) \in Seq(Replies)
      BY <3>1
    <3> QED
      BY <1>10, <3>1, <3>2 DEF Drain
  <2> QED
    BY <1>10, <2>1 DEF TypeOK, Drain
<1>11. ASSUME NEW t \in Threads, EndWait(t) PROVE TypeOK'
  BY <1>11 DEF TypeOK, EndWait
<1>12. CASE Answers
  <2>1. PICK kind \in {Head(asked).kind, "error"} : asked # << >> /\ Answer(kind)
    BY <1>12 DEF Answers
  <2>2. /\ Head(asked) \in Requests
        /\ asked' \in Seq(Requests)
    BY <2>1 DEF TypeOK, Answer
  <2>3. [id |-> Head(asked).id, kind |-> kind]
          \in Replies
    BY <2>1, <2>2 DEF Requests, Replies
  <2>4. inbox' \in Seq(Replies)
    BY <2>1, <2>3 DEF TypeOK, Answer
  <2> QED
    BY <2>1, <2>2, <2>4 DEF TypeOK, Answer
<1>13. CASE HangUp
  <2>1. [id |-> 0, kind |-> "error"] \in Replies
    BY DEF Replies
  <2>2. inbox \in Seq(Replies)
    BY DEF TypeOK
  <2>3. Append(inbox, [id |-> 0, kind |-> "error"]) \in Seq(Replies)
    BY <2>1, <2>2
  <2>4. inbox' \in Seq(Replies)
    BY <1>13, <2>2, <2>3 DEF HangUp
  <2> QED
    BY <1>13, <2>4 DEF TypeOK, HangUp
<1>14. CASE UNCHANGED vars
  BY <1>14 DEF TypeOK, vars
<1> QED
  BY <1>1, <1>2, <1>3, <1>4, <1>5, <1>6, <1>7, <1>8, <1>9, <1>10, <1>11, <1>12, <1>13, <1>14
  DEF Next, Proceed

-----------------------------------------------------------------------------
(* One exchange at a time. *)

\* Only the holder of the mutex can be waiting for an answer.
LEMMA AwaitingHolds ==
  ASSUME TypeOK, NEW t \in Threads, Awaiting(t)
  PROVE  holder = t
BY DEF TypeOK, Awaiting, Inside

\* While the mutex is free, or its holder drains the inbox, nothing is under
\* way.
LEMMA QuietUnlessAwaited ==
  ASSUME TypeOK, OneExchange,
         holder = None \/ \E t \in Threads : holder = t /\ ~Awaiting(t)
  PROVE  Quiet
BY AwaitingHolds DEF OneExchange

\* A step of a thread that neither waits for an answer before nor after it,
\* and leaves the wire as it is, keeps every exchange.
LEMMA ExchangeUntouched ==
  ASSUME TypeOK, OneExchange, NEW t \in Threads,
         ~Awaiting(t), ~Awaiting(t)',
         \A u \in Threads \ {t} : at'[u] = at[u] /\ number'[u] = number[u],
         UNCHANGED wireVars
  PROVE  /\ \A u \in Threads : Awaiting(u)' => Exchange(u)'
         /\ (\A u \in Threads : ~Awaiting(u)') => Quiet'
<1> USE DEF wireVars
<1>1. Quiet' <=> Quiet
  BY DEF Quiet
<1>2. ASSUME NEW u \in Threads, u # t, Awaiting(u)' PROVE Exchange(u)'
  <2>1. Exchange(u)
    BY <1>2 DEF OneExchange, Awaiting
  <2>2. OwnReply(u)' = OwnReply(u) /\ OwnRequest(u)' = OwnRequest(u)
    BY <1>2 DEF OwnReply, OwnRequest
  <2> QED
    BY <1>1, <2>1, <2>2 DEF Exchange
<1>3. (\A u \in Threads : ~Awaiting(u)') => \A u \in Threads : ~Awaiting(u)
  BY DEF Awaiting
<1> QED
  BY <1>1, <1>2, <1>3 DEF OneExchange

\* When the mutex is free after a step, nobody waits for an answer any more
\* and it is enough that nothing is under way.
LEMMA QuietWhenReleased ==
  ASSUME TypeOK', holder' = None, Quiet'
  PROVE  /\ \A u \in Threads : Awaiting(u)' => Exchange(u)'
         /\ (\A u \in Threads : ~Awaiting(u)') => Quiet'
BY DEF TypeOK, Awaiting, Inside

\* The frame a waiting thread reads is its own reply or the farewell, and
\* nothing but a farewell is left behind it.
LEMMA ReadsOwnReply ==
  ASSUME TypeOK, OneExchange, NEW t \in Threads, Awaiting(t), inbox # << >>
  PROVE  /\ Head(inbox) \in OwnReply(t) \cup {Goodbye}
         /\ asked = << >>
         /\ Tail(inbox) = << >> \/ (lost /\ Tail(inbox) = <<Goodbye>>)
<1>1. Exchange(t)
  BY DEF OneExchange
<1>2. CASE lost /\ Quiet
  BY <1>2, ShortSequences DEF Quiet
<1>3. ASSUME NEW r \in OwnReply(t), asked = << >>,
             inbox = <<r>> \/ (lost /\ inbox = <<r, Goodbye>>)
      PROVE  /\ Head(inbox) \in OwnReply(t) \cup {Goodbye}
             /\ Tail(inbox) = << >> \/ (lost /\ Tail(inbox) = <<Goodbye>>)
  <2>1. CASE inbox = <<r>>
    BY <2>1, ShortSequences
  <2>2. CASE lost /\ inbox = <<r, Goodbye>>
    BY <2>2, ShortSequences
  <2> QED
    BY <1>3, <2>1, <2>2
<1> QED
  BY <1>1, <1>2, <1>3 DEF Exchange, Quiet

\* Every step keeps the exchanges apart.
LEMMA ExchangeStep ==
  ASSUME TypeOK, OneExchange, [Next]_vars, TypeOK'
  PROVE  /\ \A t \in Threads : Awaiting(t)' => Exchange(t)'
         /\ (\A t \in Threads : ~Awaiting(t)') => Quiet'
<1> DEFINE Goal == /\ \A t \in Threads : Awaiting(t)' => Exchange(t)'
                   /\ (\A t \in Threads : ~Awaiting(t)') => Quiet'
<1> USE DEF Goto, Leave
<1>0. DropWire => Quiet'
  BY DEF DropWire, Quiet
<1>a. at \in [Threads -> Operations \cup Inside \cup {"idle", "ending"}]
  BY DEF TypeOK
<1>1. ASSUME NEW t \in Threads, NEW op \in Operations, Begin(t, op) PROVE Goal
  BY <1>1, <1>a, ExchangeUntouched DEF Begin, Awaiting, Operations
<1>2. ASSUME NEW t \in Threads, Connect(t) PROVE Goal
  <2>1. CASE DropWire
    BY <1>0, <1>2, <2>1, QuietWhenReleased DEF Connect
  <2>2. CASE UNCHANGED wireVars
    BY <1>2, <2>2, <1>a, ExchangeUntouched DEF Connect, Awaiting
  <2> QED
    BY <1>2, <2>1, <2>2 DEF Connect
<1>3. ASSUME NEW t \in Threads, Close(t) \/ EndWait(t) PROVE Goal
  BY <1>0, <1>3, QuietWhenReleased DEF Close, EndWait
<1>4. ASSUME NEW t \in Threads, RequestShutdown(t) PROVE Goal
  <2>1. CASE DropWire
    BY <1>0, <1>4, <2>1, QuietWhenReleased DEF RequestShutdown
  <2>2. CASE UNCHANGED wireVars
    BY <1>4, <2>2, <1>a, ExchangeUntouched DEF RequestShutdown, Awaiting
  <2> QED
    BY <1>4, <2>1, <2>2 DEF RequestShutdown
<1>5. ASSUME NEW t \in Threads, Send(t) PROVE Goal
  <2>1. Quiet
    BY <1>5, QuietUnlessAwaited DEF Send
  <2>2. CASE holder' = t
    <3>1. ~ \E u \in Threads \ {t} : Awaiting(u)'
      BY <2>2 DEF TypeOK, Awaiting, Inside
    <3>2. Awaiting(t)'
      BY <1>5, <1>a, <2>2 DEF Send, Awaiting, Receiving, TypeOK
    <3>3. CASE lost
      BY <1>5, <2>1, <3>1, <3>2, <3>3 DEF Send, Exchange, Quiet
    <3>4. CASE ~lost
      <4>1. asked' = <<[id |-> number[t], kind |-> at[t]]>> /\ inbox' = << >> /\ ~lost'
        BY <1>5, <2>1, <2>2, <3>4, ShortSequences DEF Send, Quiet, TypeOK
      <4>2. [id |-> number[t], kind |-> at[t]] \in OwnRequest(t)'
        BY <1>5 DEF Send, OwnRequest
      <4> QED
        BY <3>1, <3>2, <4>1, <4>2 DEF Exchange
    <3> QED
      BY <3>3, <3>4
  <2>3. CASE holder' = holder
    <3>1. UNCHANGED <<wireVars, holder>>
      BY <1>5, <2>3 DEF Send, wireVars, TypeOK
    <3>2. holder' = None
      BY <1>5, <2>3 DEF Send
    <3> QED
      BY <2>1, <3>1, <3>2, QuietWhenReleased DEF Quiet, wireVars
  <2> QED
    BY <1>5, <2>2, <2>3 DEF Send
<1>6. ASSUME NEW t \in Threads, NEW op \in {"hello", "call"}, Receive(t, op) PROVE Goal
  <2>1. Awaiting(t)
    BY <1>6 DEF Receive, Receiving, Awaiting
  <2>2. Quiet'
    BY <1>6, <2>1, ReadsOwnReply DEF Receive, Quiet
  <2> QED
    BY <1>6, <2>2, QuietWhenReleased DEF Receive
<1>7. ASSUME NEW t \in Threads, NEW op \in {"hello", "call"}, ReceiveNothing(t, op) PROVE Goal
  <2>1. Exchange(t)
    BY <1>7 DEF ReceiveNothing, Receiving, Awaiting, OneExchange
  <2>2. Quiet
    BY <1>7, <2>1, ShortSequences DEF ReceiveNothing, Exchange, Quiet
  <2> QED
    BY <1>7, <2>2, QuietWhenReleased DEF ReceiveNothing, Quiet, wireVars
<1>8. ASSUME NEW t \in Threads, Check(t) \/ Poll(t) PROVE Goal
  BY <1>8, <1>a, ExchangeUntouched DEF Check, Poll, Awaiting
<1>9. ASSUME NEW t \in Threads, Drain(t) PROVE Goal
  <2>1. holder = t /\ ~Awaiting(t)
    BY <1>9 DEF Drain, TypeOK, Inside, Awaiting
  <2>2. Quiet
    BY <2>1, QuietUnlessAwaited
  <2>3. Quiet'
    BY <1>9, <2>2, ShortSequences DEF Drain, Quiet
  <2> QED
    BY <1>9, <2>3, QuietWhenReleased DEF Drain
<1>10. CASE Answers
  <2>1. PICK kind \in {Head(asked).kind, "error"} : asked # << >> /\ Answer(kind)
    BY <1>10 DEF Answers
  <2>2. PICK t \in Threads : Awaiting(t)
    BY <2>1 DEF OneExchange, Quiet
  <2>3. Exchange(t) /\ holder = t
    BY <2>2, AwaitingHolds DEF OneExchange
  <2>4. PICK r \in OwnRequest(t) : ~lost /\ inbox = << >> /\ asked = <<r>>
    BY <2>1, <2>3 DEF Exchange, Quiet
  <2>5. /\ asked' = << >> /\ inbox' = <<[id |-> r.id, kind |-> kind]>>
        /\ lost' = lost /\ at' = at /\ number' = number
    BY <2>1, <2>4, ShortSequences DEF Answer
  <2>6. [id |-> r.id, kind |-> kind] \in OwnReply(t)'
    BY <2>1, <2>4, <2>5, ShortSequences DEF OwnRequest, OwnReply
  <2>7. Exchange(t)'
    BY <2>5, <2>6 DEF Exchange
  <2>8. \A u \in Threads : Awaiting(u)' <=> u = t
    BY <2>2, <2>3, <2>5, AwaitingHolds DEF Awaiting
  <2> QED
    BY <2>7, <2>8
<1>11. CASE HangUp
  <2>1. /\ asked' = << >> /\ lost' = TRUE /\ at' = at /\ number' = number /\ ~lost
        /\ inbox' = inbox \/ inbox' = Append(inbox, Goodbye)
    BY <1>11 DEF HangUp, Goodbye
  <2>2. ASSUME inbox = << >> PROVE Quiet' /\ lost'
    BY <2>1, <2>2, ShortSequences DEF Quiet
  <2>3. ASSUME NEW u \in Threads, Awaiting(u)' PROVE Exchange(u)'
    <3>1. Exchange(u)
      BY <2>1, <2>3 DEF OneExchange, Awaiting
    <3>2. OwnReply(u)' = OwnReply(u)
      BY <2>1 DEF OwnReply
    <3>3. CASE inbox = << >>
      BY <2>2, <3>3 DEF Exchange
    <3>4. ASSUME NEW r \in OwnReply(u), inbox = <<r>> PROVE Exchange(u)'
      BY <2>1, <3>2, <3>4, ShortSequences DEF Exchange
    <3> QED
      BY <2>1, <3>1, <3>3, <3>4 DEF Exchange
  <2>4. (\A u \in Threads : ~Awaiting(u)') => Quiet'
    BY <2>1, <2>2 DEF OneExchange, Awaiting, Quiet
  <2> QED
    BY <2>3, <2>4
<1>12. CASE UNCHANGED vars
  BY <1>12 DEF vars, wireVars, OneExchange, Awaiting, Exchange, Quiet, OwnReply, OwnRequest
<1> QED
  BY <1>1, <1>2, <1>3, <1>4, <1>5, <1>6, <1>7, <1>8, <1>9, <1>10, <1>11, <1>12
  DEF Next, Proceed

\* Every step keeps the numbers of calls under way positive, and a client
\* that takes HELLO for done has had it acknowledged on this connection.
LEMMA GreetedStep ==
  ASSUME TypeOK, OneExchange, [Next]_vars
  PROVE  /\ \A t \in Threads : at'[t] # "idle" => number'[t] > 0
         /\ helloDone' => greeted'
<1> USE DEF Goto, Leave, clientVars
<1>0. ASSUME NEW t \in Threads, NEW op \in Operations, Begin(t, op)
      PROVE  \A u \in Threads : at'[u] # "idle" => number'[u] > 0
  BY <1>0 DEF TypeOK, OneExchange, Begin
<1>1. ASSUME UNCHANGED number, NEW t \in Threads, at[t] # "idle",
             \A u \in Threads \ {t} : at'[u] = at[u]
      PROVE  \A u \in Threads : at'[u] # "idle" => number'[u] > 0
  BY <1>1 DEF OneExchange
<1>p. ASSUME NEW t \in Threads, Proceed(t)
      PROVE  /\ UNCHANGED number /\ at[t] # "idle"
             /\ \A u \in Threads \ {t} : at'[u] = at[u]
  BY <1>p DEF TypeOK, Proceed, Connect, Close, RequestShutdown, Send, Receive, Receiving,
     ReceiveNothing, Check, Poll, Drain, EndWait
<1>n. \A u \in Threads : at'[u] # "idle" => number'[u] > 0
  BY <1>0, <1>1, <1>p DEF Next, vars, OneExchange, Answers, Answer, HangUp
<1>2. ASSUME NEW t \in Threads, NEW op \in {"hello", "call"}, Receive(t, op)
      PROVE  helloDone' => greeted'
  BY <1>2, Zenon DEF Receive, OneExchange
<1>3. helloDone' => greeted'
  BY <1>2 DEF OneExchange, Next, Proceed, vars, Begin, Connect, Close, RequestShutdown, Send,
     ReceiveNothing, Check, Poll, Drain, EndWait, Answers, Answer, HangUp
<1> QED
  BY <1>n, <1>3

\* The inductive invariant holds in every state of the client.
LEMMA OneExchangeAlways == Spec => [](TypeOK /\ OneExchange)
<1>1. TypeOK /\ OneExchange /\ [Next]_vars => TypeOK' /\ OneExchange'
  BY ClientTypeStep, ExchangeStep, GreetedStep DEF OneExchange
<1> QED
  BY <1>1, ClientInit, PTL DEF Spec

-----------------------------------------------------------------------------
(* The theorems. *)

\* The client's variables keep their types, and the thread that holds the
\* mutex is the one inside, over calls, waits, closes and lost connections.
THEOREM ClientTypeCorrect == Spec => []TypeOK
BY OneExchangeAlways, PTL

\* What a step does to the answer a thread has got: a new call forgets it, and
\* a read frame is only taken for an answer when it is the call's own.
LEMMA AnswersMatchStep ==
  ASSUME TypeOK, OneExchange, AnswersMatch, [Next]_vars
  PROVE  AnswersMatch'
<1> USE DEF Goto, Leave, clientVars, wireVars
<1>1. ASSUME NEW t \in Threads, NEW op \in Operations, Begin(t, op) PROVE AnswersMatch'
  BY <1>1 DEF Begin, AnswersMatch, TypeOK
<1>2. ASSUME NEW t \in Threads, NEW op \in {"hello", "call"}, Receive(t, op)
      PROVE  AnswersMatch'
  <2>1. Awaiting(t) /\ inbox # << >>
    BY <1>2 DEF Receive, Receiving, Awaiting
  <2>2. Head(inbox).kind = op => Head(inbox).id = number[t]
    <3>1. Head(inbox) \in OwnReply(t) \cup {Goodbye}
      BY <2>1, ReadsOwnReply
    <3> QED
      BY <3>1 DEF OwnReply, Goodbye
  <2> QED
    BY <1>2, <2>2 DEF Receive, AnswersMatch, TypeOK
<1>3. ASSUME UNCHANGED <<answer, number>> PROVE AnswersMatch'
  BY <1>3 DEF AnswersMatch
<1> QED
  BY <1>1, <1>2, <1>3 DEF Next, Proceed, vars, Connect, Close, RequestShutdown, Send,
     ReceiveNothing, Check, Poll, Drain, EndWait, Answers, Answer, HangUp

\* The answer a call returns is the answer to its own request, with any number
\* of threads, although request identifiers are not compared.
THEOREM AnswersAreOwn == Spec => []AnswersMatch
<1>1. Init => AnswersMatch
  BY DEF Init, AnswersMatch
<1>2. TypeOK /\ OneExchange /\ AnswersMatch /\ [Next]_vars => AnswersMatch'
  BY AnswersMatchStep
<1> QED
  BY <1>1, <1>2, OneExchangeAlways, PTL DEF Spec

\* Only a new connection forgets that HELLO was acknowledged, and it is made
\* under the mutex, when no request is under way.
LEMMA HelloFirstStep ==
  ASSUME TypeOK, OneExchange, HelloFirst, [Next]_vars, TypeOK'
  PROVE  HelloFirst'
<1> USE DEF Goto, Leave, clientVars
<1>1. ASSUME NEW t \in Threads, Connect(t) PROVE HelloFirst'
  <2>1. holder' = None
    BY <1>1 DEF Connect
  <2> QED
    BY <2>1 DEF TypeOK, Inside, HelloFirst
<1>2. ASSUME NEW t \in Threads, NEW op \in {"hello", "call"}, Receive(t, op) PROVE HelloFirst'
  <2>1. holder' = None
    BY <1>2 DEF Receive
  <2> QED
    BY <2>1 DEF TypeOK, Inside, HelloFirst
<1>3. ASSUME NEW t \in Threads, Send(t) PROVE HelloFirst'
  <2>1. ASSUME at'[t] = "call_sent" PROVE greeted
    <3>1. at[t] = "call" /\ helloDone
      BY <1>3, <2>1 DEF Send, MaySend, Receiving, TypeOK
    <3> QED
      BY <3>1 DEF OneExchange
  <2>2. \A u \in Threads \ {t} : at'[u] = at[u]
    BY <1>3 DEF Send, TypeOK
  <2> QED
    BY <1>3, <2>1, <2>2 DEF Send, HelloFirst
<1>4. ASSUME NEW t \in Threads, NEW op \in Operations, Begin(t, op) PROVE HelloFirst'
  BY <1>4 DEF Begin, HelloFirst, TypeOK, Operations
<1>5. ASSUME UNCHANGED greeted, \A u \in Threads : at'[u] = "call_sent" => at[u] = "call_sent"
      PROVE  HelloFirst'
  BY <1>5 DEF HelloFirst
<1>6. ASSUME NEW t \in Threads,
             \/ Close(t) \/ RequestShutdown(t) \/ Check(t) \/ Poll(t) \/ Drain(t) \/ EndWait(t)
             \/ \E op \in {"hello", "call"} : ReceiveNothing(t, op)
      PROVE  /\ UNCHANGED greeted
             /\ \A u \in Threads : at'[u] = "call_sent" => at[u] = "call_sent"
  BY <1>6 DEF TypeOK, Close, RequestShutdown, Check, Poll, Drain, EndWait, ReceiveNothing
<1>7. ASSUME Answers \/ HangUp \/ UNCHANGED vars PROVE UNCHANGED <<greeted, at>>
  BY <1>7 DEF Answers, Answer, HangUp, vars
<1> QED
  BY <1>1, <1>2, <1>3, <1>4, <1>5, <1>6, <1>7 DEF Next, Proceed

\* No request is under way on a connection whose HELLO was not acknowledged,
\* with any number of threads that connect, close, wait and call.
THEOREM HelloComesFirst == Spec => []HelloFirst
<1>1. Init => HelloFirst
  BY DEF Init, HelloFirst
<1>2. /\ TypeOK /\ OneExchange /\ HelloFirst /\ [Next]_vars => HelloFirst'
  BY HelloFirstStep, ClientTypeStep
<1> QED
  BY <1>1, <1>2, OneExchangeAlways, PTL DEF Spec

=============================================================================

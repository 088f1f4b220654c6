---------------------------- MODULE ServerProofs ----------------------------
(***************************************************************************)
(* Theorems about the coordinator's transport, for any finite number of    *)
(* connections.                                                            *)
(***************************************************************************)
EXTENDS EpochServer, TLAPS, FiniteSetTheorems

USE ServerAssumption DEF ServerAssumption

\* The session threads that are serving, and those that have begun to.
InService == {c \in Connections : pc[c] \in Serving}
Begun == {c \in Connections : pc[c] \in Serving \cup {"finished", "joined"}}

\* The counter of active sessions never falls below the sessions that are
\* served; it may exceed them when a fence fails to save at the end of one.
Counted ==
  /\ Cardinality(InService) <= active
  /\ active <= Cardinality(Begun)

\* What the accept thread holds is a connection nobody serves yet, the threads
\* to join are those that run or have ended unjoined, the sessions bound in
\* the runtime are those the running threads have bound, and what is due to be
\* bound is current and at a thread about to bind it.
Accounted ==
  /\ accept \in {"holding", "starting"} => held \in Connections /\ pc[held] = "queued"
  /\ \A c \in Connections : c \in threads <=> pc[c] \in Serving \cup {"started", "finished"}
  /\ \A c \in bound : pc[c] \in Serving \ {"binding"}
  /\ sessions = bound
  /\ \A c \in due : pc[c] = "binding" /\ Worker[c] \in live
  /\ main = "done" => accept = "exited" /\ threads = {}

\* A boot is registered by one participant only, every save succeeds and the
\* table has room for a session of every connection.
NothingGoesWrong ==
  /\ \A c, d \in Connections : Worker[c].boot = Worker[d].boot => Worker[c] = Worker[d]
  /\ ~SaveMayFail
  /\ Cardinality(Connections) <= MaxSessions

\* No incarnation has been left current without a session.
NothingAdrift == adrift = {}

\* Each current incarnation has a session that will fence it, or is due one.
AllCovered == \A w \in live : \E c \in due \cup sessions : Worker[c] = w

-----------------------------------------------------------------------------
(* Steps of a session thread between its begin and its end. *)

\* The steps in which connection c is in service before and after.
ServiceStep(c) ==
  \/ Loop(c) \/ WaitReadable(c) \/ ReceiveEnds(c) \/ SendEnds(c)
  \/ HandleHello(c) \/ HandleViolation(c) \/ HandleRegister(c) \/ Bind(c)
  \/ HandleFence(c) \/ HandleAdvance(c) \/ FailToSave(c) \/ HandleQuery(c)
  \/ HandleShutdown(c) \/ SetFlag(c) \/ Notify(c)
  \/ TakeAnswer(c)

\* They move the thread from one place in serve to another, and leave the
\* accept thread, the list of threads and the counter alone.
LEMMA ServiceStays ==
  ASSUME NEW c \in Connections, ServiceStep(c)
  PROVE  /\ pc[c] \in Serving
         /\ \E l \in Serving : pc' = [pc EXCEPT ![c] = l]
         /\ UNCHANGED <<accept, held, threads, active>>
         /\ main' = main \/ (main = "blocked" /\ main' = "waiting")
<1> USE DEF Goto, Serving, threadVars
<1>1. Answered(c) => \E l \in Serving : pc' = [pc EXCEPT ![c] = l]
  BY DEF Answered, Refused
<1>2. Refused(c) => \E l \in Serving : pc' = [pc EXCEPT ![c] = l]
  BY DEF Refused
<1>3. CASE Loop(c) \/ WaitReadable(c) \/ SendEnds(c) \/ TakeAnswer(c)
  BY <1>3 DEF Loop, WaitReadable, SendEnds, TakeAnswer
<1>4. CASE ReceiveEnds(c) \/ HandleViolation(c) \/ FailToSave(c)
  BY <1>2, <1>4 DEF ReceiveEnds, HandleViolation, FailToSave, Reads
<1>5. CASE HandleHello(c) \/ HandleRegister(c) \/ HandleFence(c) \/ HandleAdvance(c)
           \/ HandleQuery(c)
  BY <1>1, <1>5 DEF HandleHello, HandleRegister, HandleFence, HandleAdvance, HandleQuery, Reads
<1>6. CASE Bind(c)
  BY <1>1, <1>2, <1>6 DEF Bind
<1>7. CASE HandleShutdown(c) \/ SetFlag(c) \/ Notify(c)
  BY <1>7 DEF HandleShutdown, SetFlag, Notify, Reads
<1> QED
  BY <1>3, <1>4, <1>5, <1>6, <1>7 DEF ServiceStep

\* The steps of the specification, with those in service taken together.
LEMMA ServerSteps ==
  ASSUME [Next]_vars
  PROVE  \/ AcceptExit \/ AcceptNone \/ CheckStop \/ StartSession
         \/ CheckFlag \/ Block \/ StopAccepting \/ JoinSessions
         \/ UNCHANGED vars
         \/ \E c \in Connections :
              \/ AcceptOne(c) \/ Connect(c) \/ Leave(c)
              \/ \E m \in Sent \cup {"partial"} : Send(c, m)
              \/ BeginServe(c) \/ ServiceStep(c) \/ EndServe(c)
BY DEF Next, AcceptThread, MainThread, Peer, SessionThread, ServiceStep

-----------------------------------------------------------------------------
(* The counter. *)

\* The sets that are counted are finite, and one contains the other.
LEMMA CountedSets ==
  /\ IsFiniteSet(InService) /\ IsFiniteSet(Begun)
  /\ Cardinality(InService) \in Nat /\ Cardinality(Begun) \in Nat
  /\ Cardinality(Begun) <= Cardinality(Connections)
<1>1. InService \subseteq Connections /\ Begun \subseteq Connections
  BY DEF InService, Begun
<1> QED
  BY <1>1, FS_Subset, FS_CardinalityType

\* A step that changes neither set nor the counter keeps it right.
LEMMA CountedUntouched ==
  ASSUME Counted, InService' = InService, Begun' = Begun, active' = active
  PROVE  Counted'
BY DEF Counted

\* A session that begins is counted.
LEMMA CountedBegin ==
  ASSUME TypeOK, Counted, NEW c \in Connections, BeginServe(c)
  PROVE  Counted'
<1>1. InService' = InService \cup {c} /\ c \notin InService
  BY DEF InService, BeginServe, Goto, TypeOK, Serving
<1>2. Begun' = Begun \cup {c} /\ c \notin Begun
  BY DEF Begun, BeginServe, Goto, TypeOK, Serving
<1>3. /\ Cardinality(InService') = Cardinality(InService) + 1
      /\ Cardinality(Begun') = Cardinality(Begun) + 1
  BY <1>1, <1>2, CountedSets, FS_AddElement
<1>4. active' = active + 1 /\ active \in Nat
  BY DEF BeginServe, TypeOK
<1> HIDE DEF InService, Begun
<1> QED
  BY <1>3, <1>4, CountedSets DEF Counted

\* A session that ends is counted no more, unless its fence cannot be saved.
LEMMA CountedEnd ==
  ASSUME TypeOK, Counted, NEW c \in Connections, EndServe(c)
  PROVE  Counted' /\ active' \in Nat
<1>1. InService' = InService \ {c} /\ c \in InService
  BY DEF InService, EndServe, Finish, Goto, TypeOK, Serving
<1>2. Begun' = Begun
  BY DEF Begun, EndServe, Finish, Goto, TypeOK, Serving
<1>3. /\ Cardinality(InService') = Cardinality(InService) - 1
      /\ Cardinality(InService) > 0
  <2>1. Cardinality(InService') = Cardinality(InService) - 1
    BY <1>1, CountedSets, FS_RemoveElement
  <2>2. Cardinality(InService) # 0
    BY <1>1, CountedSets, FS_EmptySet
  <2> QED
    BY <2>1, <2>2, CountedSets
<1>4. /\ active' = active - 1 \/ active' = active
      /\ active \in Nat
  BY DEF EndServe, TypeOK
<1> QED
  BY <1>2, <1>3, <1>4, CountedSets DEF Counted

\* Joining threads takes finished sessions from the list and changes neither
\* set that is counted.
LEMMA CountedJoin ==
  ASSUME TypeOK, Counted, active' = active,
         NEW ended \in SUBSET Connections, \A c \in ended : pc[c] = "finished",
         NEW begins \in SUBSET Connections, \A c \in begins : pc[c] = "queued",
         pc' = [c \in Connections |-> IF c \in begins THEN "started"
                                      ELSE IF c \in ended THEN "joined" ELSE pc[c]]
  PROVE  Counted'
<1>1. InService' = InService
  BY DEF InService, TypeOK, Serving
<1>2. Begun' = Begun
  BY DEF Begun, TypeOK, Serving
<1> QED
  BY <1>1, <1>2, CountedUntouched

\* Every step keeps the counter right.
LEMMA CountedStep ==
  ASSUME TypeOK, Counted, Accounted, [Next]_vars
  PROVE  Counted' /\ active' \in Nat
<1>t. active \in Nat
  BY DEF TypeOK
<1>1. ASSUME UNCHANGED <<pc, active>> PROVE Counted' /\ active' \in Nat
  BY <1>1, <1>t DEF Counted, InService, Begun
<1>n. {} \in SUBSET Connections /\ \A c \in {} : pc[c] = "queued"
  OBVIOUS
<1>2. CASE AcceptNone
  <2>1. pc' = [c \in Connections |-> IF c \in {} THEN "started"
                                     ELSE IF c \in Reaped THEN "joined" ELSE pc[c]]
    BY <1>2 DEF AcceptNone
  <2>2. Reaped \in SUBSET Connections /\ \A c \in Reaped : pc[c] = "finished"
    BY DEF Reaped, TypeOK
  <2>3. active' = active
    BY <1>2 DEF AcceptNone
  <2>4. Counted'
    BY <1>n, <2>1, <2>2, <2>3, CountedJoin
  <2> QED
    BY <2>3, <2>4, <1>t
<1>3. CASE CheckStop
  <2>1. CASE UNCHANGED pc
    BY <1>1, <1>3, <2>1 DEF CheckStop
  <2>2. CASE pc' = [pc EXCEPT ![held] = "dropped"]
    <3>1. held \in Connections /\ pc[held] = "queued"
      BY <1>3 DEF CheckStop, Accounted
    <3>2. InService' = InService /\ Begun' = Begun
      BY <2>2, <3>1 DEF InService, Begun, Serving, TypeOK
    <3> QED
      BY <1>3, <1>t, <3>2, CountedUntouched DEF CheckStop
  <2> QED
    BY <1>3, <2>1, <2>2 DEF CheckStop, Goto
<1>4. CASE StartSession
  <2>1. held \in Connections /\ pc[held] = "queued"
    BY <1>4 DEF StartSession, Accounted
  <2>2. pc' = [c \in Connections |-> IF c \in {held} THEN "started"
                                     ELSE IF c \in Reaped THEN "joined" ELSE pc[c]]
    BY <1>4 DEF StartSession
  <2>3. Reaped \in SUBSET Connections /\ \A c \in Reaped : pc[c] = "finished"
    BY DEF Reaped, TypeOK
  <2>4. active' = active
    BY <1>4 DEF StartSession
  <2> QED
    BY <2>1, <2>2, <2>3, <2>4, <1>t, CountedJoin
<1>5. CASE JoinSessions
  <2>1. pc' = [c \in Connections |-> IF c \in {} THEN "started"
                                     ELSE IF c \in threads THEN "joined" ELSE pc[c]]
    BY <1>5 DEF JoinSessions
  <2>2. threads \in SUBSET Connections /\ \A c \in threads : pc[c] = "finished"
    BY <1>5 DEF JoinSessions, TypeOK
  <2>3. active' = active
    BY <1>5 DEF JoinSessions
  <2>4. Counted'
    BY <1>n, <2>1, <2>2, <2>3, CountedJoin
  <2> QED
    BY <2>3, <2>4, <1>t
<1>6. ASSUME NEW c \in Connections, Connect(c) PROVE Counted' /\ active' \in Nat
  <2>1. InService' = InService /\ Begun' = Begun
    BY <1>6 DEF Connect, Goto, InService, Begun, Serving, TypeOK
  <2> QED
    BY <1>6, <1>t, <2>1, CountedUntouched DEF Connect
<1>7. ASSUME NEW c \in Connections, ServiceStep(c) PROVE Counted' /\ active' \in Nat
  <2>1. PICK l \in Serving : pc' = [pc EXCEPT ![c] = l]
    BY <1>7, ServiceStays
  <2>2. pc[c] \in Serving /\ active' = active
    BY <1>7, ServiceStays
  <2>3. InService' = InService /\ Begun' = Begun
    BY <2>1, <2>2 DEF InService, Begun, TypeOK
  <2> QED
    BY <1>t, <2>2, <2>3, CountedUntouched
<1>8. ASSUME NEW c \in Connections, BeginServe(c) PROVE Counted' /\ active' \in Nat
  BY <1>8, <1>t, CountedBegin DEF BeginServe
<1>9. ASSUME NEW c \in Connections, EndServe(c) PROVE Counted' /\ active' \in Nat
  BY <1>9, CountedEnd
<1>10. \/ AcceptExit \/ CheckFlag \/ Block \/ StopAccepting \/ UNCHANGED vars
       \/ \E c \in Connections : AcceptOne(c) \/ Leave(c) \/ \E m \in Sent \cup {"partial"} : Send(c, m)
       => UNCHANGED <<pc, active>>
  BY DEF AcceptExit, CheckFlag, Block, StopAccepting, vars, AcceptOne, Leave, Send
<1> QED
  BY <1>1, <1>2, <1>3, <1>4, <1>5, <1>6, <1>7, <1>8, <1>9, <1>10, ServerSteps

-----------------------------------------------------------------------------
(* Types. *)

\* The initial server is well typed, and counts and accounts for nothing.
LEMMA ServerInit == Init => TypeOK /\ Counted /\ Accounted /\ NoOrphans /\ NothingAdrift
<1> SUFFICES ASSUME Init PROVE TypeOK /\ Counted /\ Accounted /\ NoOrphans /\ NothingAdrift
  OBVIOUS
<1>1. Cardinality(Connections) \in Nat
  BY FS_CardinalityType
<1>2. TypeOK
  <2>1. /\ pc \in [Connections -> Serving \cup
                {"absent", "queued", "dropped", "started", "finished", "joined"}]
        /\ msg \in [Connections -> Frames \cup {None, "partial"}]
    BY DEF Init
  <2>2. active \in 0..Cardinality(Connections)
    BY <1>1 DEF Init
  <2> QED
    BY <2>1, <2>2 DEF Init, TypeOK
<1>3. InService = {} /\ Begun = {}
  BY DEF Init, InService, Begun, Serving
<1>4. Counted
  BY <1>3, FS_EmptySet DEF Counted, Init
<1>5. Accounted /\ NoOrphans /\ NothingAdrift
  BY DEF Init, Accounted, NoOrphans, NothingAdrift, Serving
<1> QED
  BY <1>2, <1>4, <1>5

\* What is kept by an operation was current before it.
LEMMA KeptWereLive ==
  ASSUME NEW c
  PROVE  /\ \A kept \in Keeps(c) : kept \subseteq live
         /\ \A kept \in Leaves : kept \subseteq live
         /\ \A kept \in {live} \cup {Without(v.participant) : v \in live} : kept \subseteq live
BY DEF Keeps, Leaves, Without

\* The operations of a session change the workers in one of four ways: they
\* keep some and may admit the connection's own, which is bound next or adrift;
\* they answer a retry; they bind; or they do nothing.
LEMMA WorkerChanges ==
  ASSUME TypeOK, NEW c \in Connections, ServiceStep(c)
  PROVE  \/ UNCHANGED <<workerVars, sessions>> /\ pc[c] # "binding"
         \/ \E kept \in SUBSET live :
              /\ sessions' = sessions
              /\ \/ Keep(kept, {}, {}, {}) /\ pc[c] # "binding"
                 \/ /\ Keep(kept, {Worker[c]}, {c}, {})
                    /\ pc[c] # "binding" /\ pc'[c] = "binding"
                 \/ /\ Keep(kept, {Worker[c]}, {}, {Worker[c]})
                    /\ pc[c] # "binding" /\ FailToSave(c)
         \/ /\ Worker[c] \in live /\ due' = due \cup {c} /\ pc'[c] = "binding"
            /\ UNCHANGED <<live, adrift, sessions>>
         \/ Bind(c)
<1> USE DEF Goto, Reads, runtimeVars, workerVars
<1>1. CASE HandleRegister(c)
  BY <1>1, KeptWereLive DEF HandleRegister, TypeOK
<1>2. CASE HandleFence(c)
  BY <1>2, KeptWereLive DEF HandleFence
<1>3. CASE HandleAdvance(c)
  BY <1>3 DEF HandleAdvance
<1>4. CASE FailToSave(c)
  BY <1>4, KeptWereLive DEF FailToSave
<1>5. CASE Bind(c)
  BY <1>5
<1>6. CASE Loop(c) \/ WaitReadable(c) \/ ReceiveEnds(c) \/ SendEnds(c) \/ HandleHello(c)
           \/ HandleViolation(c) \/ HandleQuery(c) \/ HandleShutdown(c) \/ SetFlag(c)
           \/ Notify(c) \/ TakeAnswer(c)
  BY <1>6 DEF Loop, WaitReadable, ReceiveEnds, SendEnds, HandleHello, HandleViolation,
     HandleQuery, HandleShutdown, SetFlag, Notify, TakeAnswer
<1> QED
  BY <1>1, <1>2, <1>3, <1>4, <1>5, <1>6 DEF ServiceStep

\* They keep the types of what they change.
LEMMA WorkerTypes ==
  ASSUME TypeOK, Accounted, NEW c \in Connections, ServiceStep(c)
  PROVE  live' \subseteq Workers /\ adrift' \subseteq live' /\ due' \subseteq Connections
<1>1. live \subseteq Workers /\ adrift \subseteq live /\ due \subseteq Connections
  BY DEF TypeOK
<1>2. Worker[c] \in Workers
  BY DEF Workers
<1>3. CASE Bind(c)
  <2>1. live' = live /\ due' = due \ {c}
    BY <1>3 DEF Bind
  <2>2. adrift' \subseteq adrift \/ (c \in due /\ adrift' = adrift \cup {Worker[c]})
    BY <1>3 DEF Bind
  <2> QED
    BY <1>1, <2>1, <2>2 DEF Accounted
<1>4. CASE ~Bind(c)
  BY <1>1, <1>2, <1>4, WorkerChanges DEF Keep, workerVars
<1> QED
  BY <1>3, <1>4

\* Every step keeps the types.
LEMMA ServerTypeStep ==
  ASSUME TypeOK, Counted, Accounted, [Next]_vars
  PROVE  TypeOK'
<1>1. active' \in 0..Cardinality(Connections)
  <2>1. Counted' /\ active' \in Nat
    BY CountedStep
  <2>2. Cardinality(Begun') \in Nat /\ Cardinality(Begun') <= Cardinality(Connections)
    <3>1. Begun' \subseteq Connections
      BY DEF Begun
    <3> QED
      BY <3>1, FS_Subset, FS_CardinalityType
  <2>3. active' <= Cardinality(Begun')
    BY <2>1 DEF Counted
  <2>4. Cardinality(Connections) \in Nat
    BY FS_CardinalityType
  <2> QED
    BY <2>1, <2>2, <2>3, <2>4
<1> USE DEF Goto, threadVars, peerVars, runtimeVars, workerVars
<1>2. CASE AcceptExit \/ AcceptNone \/ StartSession \/ CheckFlag \/ Block \/ StopAccepting
           \/ JoinSessions
  <2>1. CASE AcceptExit \/ CheckFlag \/ Block \/ StopAccepting
    BY <1>1, <2>1 DEF TypeOK, AcceptExit, CheckFlag, Block, StopAccepting
  <2>2. CASE AcceptNone \/ JoinSessions
    BY <1>1, <2>2 DEF TypeOK, AcceptNone, JoinSessions
  <2>3. CASE StartSession
    BY <1>1, <2>3 DEF TypeOK, StartSession, Accounted
  <2> QED
    BY <1>2, <2>1, <2>2, <2>3
<1>3. CASE CheckStop
  BY <1>1, <1>3 DEF TypeOK, CheckStop
<1>4. ASSUME NEW c \in Connections,
             AcceptOne(c) \/ Connect(c) \/ Leave(c) \/ BeginServe(c)
      PROVE  TypeOK'
  BY <1>1, <1>4 DEF TypeOK, AcceptOne, Connect, Leave, BeginServe, Serving
<1>5. ASSUME NEW c \in Connections, NEW m \in Sent \cup {"partial"}, Send(c, m) PROVE TypeOK'
  BY <1>1, <1>5 DEF TypeOK, Send, Frames
<1>6. ASSUME NEW c \in Connections, EndServe(c) PROVE TypeOK'
  <2>1. live' \subseteq Workers /\ adrift' \subseteq live' /\ due' \subseteq Connections
    BY <1>6 DEF TypeOK, EndServe, Keep
  <2> QED
    BY <1>1, <1>6, <2>1 DEF TypeOK, EndServe, Finish
<1>7. ASSUME NEW c \in Connections, ServiceStep(c) PROVE TypeOK'
  <2>1. pc' \in [Connections -> Serving \cup
               {"absent", "queued", "dropped", "started", "finished", "joined"}]
    BY <1>7, ServiceStays DEF TypeOK
  <2>2. /\ UNCHANGED <<accept, held, threads, active>>
        /\ main' = main \/ main' = "waiting"
    BY <1>7, ServiceStays
  <2>3. /\ msg' \in [Connections -> Frames \cup {None, "partial"}]
        /\ gone' \subseteq Connections /\ sessions' \subseteq Connections
        /\ greeted' \subseteq Connections /\ bound' \subseteq Connections
    BY <1>7 DEF TypeOK, ServiceStep, Loop, WaitReadable, ReceiveEnds, SendEnds, HandleHello,
       HandleViolation, HandleRegister, Bind, HandleFence, HandleAdvance, HandleQuery,
       FailToSave, HandleShutdown, SetFlag, Notify, TakeAnswer, Reads
  <2>4. stopNow' \in BOOLEAN /\ shutdown' \in BOOLEAN
    BY <1>7 DEF TypeOK, ServiceStep, Loop, WaitReadable, ReceiveEnds, SendEnds, HandleHello,
       HandleViolation, HandleRegister, Bind, HandleFence, HandleAdvance, HandleQuery,
       FailToSave, HandleShutdown, SetFlag, Notify, TakeAnswer
  <2>5. live' \subseteq Workers /\ adrift' \subseteq live' /\ due' \subseteq Connections
    BY <1>7, WorkerTypes DEF TypeOK
  <2> QED
    BY <1>1, <2>1, <2>2, <2>3, <2>4, <2>5 DEF TypeOK
<1>8. CASE UNCHANGED vars
  BY <1>1, <1>8 DEF TypeOK, vars
<1> QED
  BY <1>2, <1>3, <1>4, <1>5, <1>6, <1>7, <1>8, ServerSteps

-----------------------------------------------------------------------------
(* Threads, sessions and what the accept thread holds. *)

\* A step in service leaves the bindings of the thread and of the runtime
\* alike, and a thread about to bind has bound nothing.
LEMMA ServiceBindings ==
  ASSUME TypeOK, Accounted, NEW c \in Connections, ServiceStep(c)
  PROVE  /\ sessions' = bound'
         /\ bound' = bound \/ (bound' = bound \cup {c} /\ pc'[c] # "binding")
         /\ pc'[c] = "binding" => c \notin bound'
<1> USE DEF Goto, Answered, Refused, Accounted, TypeOK, runtimeVars
<1>1. CASE HandleRegister(c)
  BY <1>1 DEF HandleRegister, Reads, Serving
<1>2. CASE Bind(c)
  BY <1>2 DEF Bind
<1>3. CASE Loop(c) \/ WaitReadable(c) \/ ReceiveEnds(c) \/ SendEnds(c) \/ HandleHello(c)
           \/ HandleViolation(c) \/ HandleFence(c) \/ HandleAdvance(c) \/ FailToSave(c)
           \/ HandleQuery(c) \/ HandleShutdown(c) \/ SetFlag(c) \/ Notify(c) \/ TakeAnswer(c)
  BY <1>3 DEF Loop, WaitReadable, ReceiveEnds, SendEnds, HandleHello, HandleViolation,
     HandleFence, HandleAdvance, FailToSave, HandleQuery, HandleShutdown, SetFlag, Notify,
     TakeAnswer, Reads
<1> QED
  BY <1>1, <1>2, <1>3 DEF ServiceStep

\* What is due to be bound stays current and at a thread about to bind it.
LEMMA ServiceDue ==
  ASSUME TypeOK, Accounted, NEW c \in Connections, ServiceStep(c)
  PROVE  \A d \in due' : pc'[d] = "binding" /\ Worker[d] \in live'
<1>1. \A d \in due : pc[d] = "binding" /\ Worker[d] \in live
  BY DEF Accounted
<1>2. \A d \in Connections : d # c => pc'[d] = pc[d]
  BY ServiceStays DEF TypeOK
<1>3. due \subseteq Connections
  BY DEF TypeOK
<1>4. CASE Bind(c)
  BY <1>1, <1>2, <1>3, <1>4 DEF Bind
<1>5. CASE UNCHANGED <<workerVars, sessions>> /\ pc[c] # "binding"
  BY <1>1, <1>2, <1>3, <1>5 DEF workerVars
<1>6. CASE Worker[c] \in live /\ due' = due \cup {c} /\ pc'[c] = "binding" /\ live' = live
  BY <1>1, <1>2, <1>3, <1>6
<1>7. ASSUME NEW kept \in SUBSET live, pc[c] # "binding",
             \/ Keep(kept, {}, {}, {})
             \/ Keep(kept, {Worker[c]}, {c}, {}) /\ pc'[c] = "binding"
             \/ Keep(kept, {Worker[c]}, {}, {Worker[c]})
      PROVE  \A d \in due' : pc'[d] = "binding" /\ Worker[d] \in live'
  BY <1>1, <1>2, <1>3, <1>7 DEF Keep
<1> QED
  BY <1>4, <1>5, <1>6, <1>7, WorkerChanges

\* Every step keeps the threads and the sessions accounted for.
LEMMA AccountedStep ==
  ASSUME TypeOK, Accounted, [Next]_vars
  PROVE  Accounted'
<1> USE DEF Goto, threadVars, runtimeVars, workerVars
<1>1. CASE AcceptExit \/ CheckFlag \/ Block \/ StopAccepting
  BY <1>1 DEF Accounted, AcceptExit, CheckFlag, Block, StopAccepting
<1>2. CASE AcceptNone
  BY <1>2 DEF Accounted, AcceptNone, Reaped, Serving, TypeOK
<1>3. CASE CheckStop
  BY <1>3 DEF Accounted, CheckStop, Serving, TypeOK
<1>4. CASE StartSession
  BY <1>4 DEF Accounted, StartSession, Reaped, Serving, TypeOK
<1>5. CASE JoinSessions
  <2>1. bound = {}
    BY <1>5 DEF Accounted, JoinSessions, Serving, TypeOK
  <2> QED
    BY <1>5, <2>1 DEF Accounted, JoinSessions, Serving, TypeOK
<1>6. ASSUME NEW c \in Connections, AcceptOne(c) \/ Connect(c) \/ Leave(c) PROVE Accounted'
  BY <1>6 DEF Accounted, AcceptOne, Connect, Leave, Serving, TypeOK
<1>7. ASSUME NEW c \in Connections, NEW m \in Sent \cup {"partial"}, Send(c, m)
      PROVE  Accounted'
  BY <1>7 DEF Accounted, Send
<1>8. ASSUME NEW c \in Connections, BeginServe(c) PROVE Accounted'
  BY <1>8 DEF Accounted, BeginServe, Serving, TypeOK
<1>9. ASSUME NEW c \in Connections, EndServe(c) PROVE Accounted'
  <2>1. \A d \in due' : d # c /\ d \in due /\ Worker[d] \in live'
    BY <1>9 DEF Accounted, EndServe, Finish, Keep
  <2> QED
    BY <1>9, <2>1 DEF Accounted, EndServe, Finish, Serving, TypeOK
<1>10. ASSUME NEW c \in Connections, ServiceStep(c) PROVE Accounted'
  <2>1. PICK l \in Serving : pc' = [pc EXCEPT ![c] = l]
    BY <1>10, ServiceStays
  <2>2. /\ pc[c] \in Serving /\ UNCHANGED <<accept, held, threads>>
        /\ main' = "done" => main = "done"
    BY <1>10, ServiceStays
  <2>3. /\ sessions' = bound'
        /\ bound' = bound \/ (bound' = bound \cup {c} /\ pc'[c] # "binding")
        /\ pc'[c] = "binding" => c \notin bound'
    BY <1>10, ServiceBindings
  <2>4. accept' \in {"holding", "starting"} => held' \in Connections /\ pc'[held'] = "queued"
    BY <2>1, <2>2 DEF Accounted, TypeOK, Serving
  <2>5. \A d \in Connections : d \in threads' <=> pc'[d] \in Serving \cup {"started", "finished"}
    BY <2>1, <2>2 DEF Accounted, TypeOK
  <2>6. \A d \in bound' : pc'[d] \in Serving \ {"binding"}
    BY <2>1, <2>2, <2>3 DEF Accounted, TypeOK
  <2> QED
    BY <1>10, <2>2, <2>3, <2>4, <2>5, <2>6, ServiceDue DEF Accounted
<1>11. CASE UNCHANGED vars
  BY <1>11 DEF Accounted, vars
<1> QED
  BY <1>1, <1>2, <1>3, <1>4, <1>5, <1>6, <1>7, <1>8, <1>9, <1>10, <1>11, ServerSteps

-----------------------------------------------------------------------------
(* Incarnations and their sessions. *)

\* The steps outside a session's operations and its end change neither the
\* runtime nor what is due.
LEMMA WorkersUntouched ==
  ASSUME \/ AcceptExit \/ AcceptNone \/ CheckStop \/ StartSession
         \/ CheckFlag \/ Block \/ StopAccepting \/ JoinSessions
         \/ UNCHANGED vars
         \/ \E c \in Connections :
              \/ AcceptOne(c) \/ Connect(c) \/ Leave(c) \/ BeginServe(c)
              \/ \E m \in Sent \cup {"partial"} : Send(c, m)
  PROVE  UNCHANGED <<workerVars, sessions>>
BY DEF AcceptExit, AcceptNone, CheckStop, StartSession, CheckFlag, Block, StopAccepting,
   JoinSessions, vars, AcceptOne, Connect, Leave, BeginServe, Send, runtimeVars

\* Every step leaves each current incarnation that is not adrift bound or due.
LEMMA NoOrphansStep ==
  ASSUME TypeOK, Accounted, NoOrphans, [Next]_vars
  PROVE  NoOrphans'
<1> SUFFICES ASSUME FenceOnSessionLoss, NEW w \in live', w \notin adrift'
             PROVE  \E d \in due' \cup sessions' : Worker[d] = w
  BY DEF NoOrphans
<1> DEFINE Cover == \E d \in due \cup sessions : Worker[d] = w
<1>1. w \in live /\ w \notin adrift => Cover
  BY DEF NoOrphans
<1>2. CASE UNCHANGED <<workerVars, sessions>>
  BY <1>1, <1>2 DEF workerVars
<1>3. ASSUME NEW c \in Connections, EndServe(c)
      PROVE  \E d \in due' \cup sessions' : Worker[d] = w
  <2>1. sessions' = sessions \ {c} /\ c \notin due
    BY <1>3 DEF EndServe, Finish, Accounted
  <2>2. CASE Keep(live \ {Worker[c]}, {}, {}, {})
    <3>1. w \in live /\ w # Worker[c] /\ w \notin adrift
      BY <2>2 DEF Keep
    <3>2. PICK d \in due \cup sessions : Worker[d] = w
      BY <1>1, <3>1
    <3> QED
      BY <2>1, <2>2, <3>1, <3>2 DEF Keep
  <2>3. CASE UNCHANGED <<live, due>> /\ adrift' = adrift \cup {Worker[c]}
    <3>1. w # Worker[c] /\ Cover
      BY <1>1, <2>3
    <3> QED
      BY <2>1, <2>3, <3>1
  <2>4. CASE UNCHANGED workerVars /\ c \notin bound
    <3>1. sessions' = sessions
      BY <2>1, <2>4 DEF Accounted
    <3> QED
      BY <1>1, <2>4, <3>1 DEF workerVars
  <2> QED
    BY <1>3, <2>2, <2>3, <2>4 DEF EndServe
<1>4. ASSUME NEW c \in Connections, Bind(c)
      PROVE  \E d \in due' \cup sessions' : Worker[d] = w
  <2>1. live' = live /\ due' = due \ {c}
    BY <1>4 DEF Bind
  <2>2. CASE sessions' = sessions \cup {c} /\ adrift' = adrift \ {Worker[c]}
    <3>1. CASE w = Worker[c]
      BY <2>2, <3>1
    <3>2. CASE w # Worker[c]
      BY <1>1, <2>1, <2>2, <3>2
    <3> QED
      BY <3>1, <3>2
  <2>3. CASE /\ sessions' = sessions
             /\ adrift' = IF c \in due /\ \A d \in SameBoot(c) : Worker[d] # Worker[c]
                          THEN adrift \cup {Worker[c]} ELSE adrift
    <3>1. Cover
      BY <1>1, <2>1, <2>3
    <3>2. CASE c \notin due
      BY <2>1, <2>3, <3>1, <3>2
    <3>3. CASE w # Worker[c]
      BY <2>1, <2>3, <3>1, <3>3
    <3>4. CASE c \in due /\ w = Worker[c]
      <4>1. \E d \in SameBoot(c) : Worker[d] = Worker[c]
        BY <2>3, <3>4
      <4> QED
        BY <2>3, <3>4, <4>1 DEF SameBoot
    <3> QED
      BY <3>2, <3>3, <3>4
  <2> QED
    BY <1>4, <2>2, <2>3 DEF Bind
<1>5. ASSUME NEW c \in Connections, ServiceStep(c), ~Bind(c)
      PROVE  \E d \in due' \cup sessions' : Worker[d] = w
  <2>1. CASE due' = due \cup {c} /\ UNCHANGED <<live, adrift, sessions>>
    BY <1>1, <2>1
  <2>2. ASSUME NEW kept \in SUBSET live, sessions' = sessions,
               \/ Keep(kept, {}, {}, {})
               \/ Keep(kept, {Worker[c]}, {c}, {})
               \/ Keep(kept, {Worker[c]}, {}, {Worker[c]})
        PROVE  \E d \in due' \cup sessions' : Worker[d] = w
    <3>1. CASE w \notin kept
      BY <2>2, <3>1 DEF Keep
    <3>2. CASE w \in kept
      <4>1. Cover
        BY <1>1, <2>2, <3>2 DEF Keep
      <4> QED
        BY <2>2, <3>2, <4>1 DEF Keep
    <3> QED
      BY <3>1, <3>2
  <2> QED
    BY <1>2, <1>5, <2>1, <2>2, WorkerChanges
<1> QED
  BY <1>2, <1>3, <1>4, <1>5, WorkersUntouched, ServerSteps

\* When no more connections are made than the table has room for, a thread
\* about to bind finds room.
LEMMA RoomToBind ==
  ASSUME TypeOK, Accounted, NothingGoesWrong, NEW c \in Connections, pc[c] = "binding"
  PROVE  Cardinality(sessions) < MaxSessions
<1>1. sessions \subseteq Connections \ {c}
  BY DEF Accounted, TypeOK
<1>2. Cardinality(Connections \ {c}) = Cardinality(Connections) - 1
  BY FS_RemoveElement
<1>3. IsFiniteSet(Connections \ {c})
  BY FS_RemoveElement
<1>4. Cardinality(sessions) <= Cardinality(Connections \ {c})
  BY <1>1, <1>3, FS_Subset
<1>5. Cardinality(sessions) \in Nat /\ Cardinality(Connections) \in Nat
  BY <1>1, <1>3, FS_Subset, FS_CardinalityType
<1> QED
  BY <1>2, <1>4, <1>5 DEF NothingGoesWrong

\* When boots are not shared and saves succeed, what sets of workers an
\* operation leads to can be saved.
LEMMA EverythingSaves ==
  ASSUME NothingGoesWrong, NEW L \in SUBSET Workers
  PROVE  ~Fails(L)
BY DEF NothingGoesWrong, Fails, Storable, Workers

\* When nothing goes wrong no step sets an incarnation adrift.
LEMMA AdriftStep ==
  ASSUME TypeOK, Accounted, NothingGoesWrong, NothingAdrift, [Next]_vars
  PROVE  NothingAdrift'
<1> USE DEF NothingAdrift
<1>1. CASE UNCHANGED <<workerVars, sessions>>
  BY <1>1 DEF workerVars
<1>2. ASSUME NEW c \in Connections, EndServe(c) PROVE adrift' = {}
  <2>1. ~Fails(live \ {Worker[c]})
    BY EverythingSaves DEF TypeOK
  <2> QED
    BY <1>2, <2>1 DEF EndServe, Keep, workerVars
<1>3. ASSUME NEW c \in Connections, Bind(c) PROVE adrift' = {}
  <2>1. Cardinality(sessions) < MaxSessions
    BY <1>3, RoomToBind DEF Bind
  <2>2. \A d \in SameBoot(c) : Worker[d] = Worker[c]
    BY DEF SameBoot, NothingGoesWrong, TypeOK
  <2> QED
    BY <1>3, <2>1, <2>2 DEF Bind
<1>4. ASSUME NEW c \in Connections, FailToSave(c) PROVE FALSE
  <2>1. \A kept \in SUBSET live : ~Fails(kept) /\ ~Fails(kept \cup {Worker[c]})
    BY EverythingSaves DEF TypeOK, Workers
  <2> QED
    BY <1>4, <2>1, KeptWereLive DEF FailToSave
<1>5. ASSUME NEW c \in Connections, ServiceStep(c), ~Bind(c) PROVE adrift' = {}
  BY <1>4, <1>5, WorkerChanges DEF Keep, workerVars
<1> QED
  BY <1>1, <1>2, <1>3, <1>5, WorkersUntouched, ServerSteps

-----------------------------------------------------------------------------
(* The theorems. *)

\* The inductive invariant holds in every state of the server.
LEMMA ServerInvariant == Spec => [](TypeOK /\ Counted /\ Accounted)
<1>1. TypeOK /\ Counted /\ Accounted /\ [Next]_vars => TypeOK' /\ Counted' /\ Accounted'
  BY ServerTypeStep, CountedStep, AccountedStep
<1> QED
  BY <1>1, ServerInit, PTL DEF Spec

\* The server's variables keep their types; in particular the counter of
\* active sessions never passes below zero, also when fences fail to save.
THEOREM ServerTypeCorrect == Spec => []TypeOK
BY ServerInvariant, PTL

\* When stop has returned no thread is left running and no session is bound,
\* however accepting, serving and stopping interleave.
THEOREM StopsClean == Spec => []StoppedClean
<1>1. TypeOK /\ Accounted => StoppedClean
  <2> SUFFICES ASSUME TypeOK, Accounted, main = "done"
               PROVE  /\ sessions = {}
                      /\ \A c \in Connections : pc[c] \notin Serving \cup {"started", "finished"}
    BY DEF StoppedClean
  <2>1. \A c \in Connections : pc[c] \notin Serving \cup {"started", "finished"}
    BY DEF Accounted
  <2>2. bound = {}
    BY <2>1 DEF Accounted, TypeOK
  <2> QED
    BY <2>1, <2>2 DEF Accounted
<1> QED
  BY <1>1, ServerInvariant, PTL

\* With fence_on_session_loss each current incarnation is bound, about to be,
\* or that of a boot whose earlier session is still open, unless it has been
\* left adrift for one of the three causes there are; also when saves fail, the
\* table is full and participants share boots.
THEOREM OrphansAreAccounted == Spec => []NoOrphans
<1>1. TypeOK /\ Accounted /\ NoOrphans /\ [Next]_vars => NoOrphans'
  BY NoOrphansStep
<1> QED
  BY <1>1, ServerInit, ServerInvariant, PTL DEF Spec

\* The causes are all there are: with boots of one participant each, saves that
\* succeed and room for every session, each current incarnation has a session
\* that will fence it or is due one, though connections may register one worker
\* again in a later epoch while its earlier session is open.
THEOREM NoOrphanIncarnations ==
  ASSUME NothingGoesWrong, FenceOnSessionLoss
  PROVE  Spec => []AllCovered
<1>1. TypeOK /\ Accounted /\ NothingAdrift /\ [Next]_vars => NothingAdrift'
  BY AdriftStep
<1>2. NoOrphans /\ NothingAdrift => AllCovered
  BY DEF NoOrphans, NothingAdrift, AllCovered
<1> QED
  BY <1>1, <1>2, ServerInit, ServerInvariant, OrphansAreAccounted, PTL DEF Spec

=============================================================================

---------------------------- MODULE EpochRuntime ----------------------------
(***************************************************************************)
(* A coordinator process on its durable store.                             *)
(*                                                                         *)
(* Every public operation of EpochRuntime takes the exclusive lock, so an  *)
(* operation is one action: classify the request, mutate the in-memory     *)
(* state, save the whole image, and either keep the new state or run the   *)
(* undo log.  What can intervene is the outcome of the save (io):          *)
(*   "ok"        the image and the watermark are written, unless           *)
(*               validate_durable_state rejects the image;                 *)
(*   "crash"     the process dies once the image is replaced, before or    *)
(*               after the watermark follows it;                           *)
(*   "failed"    the save throws before it replaces the image;             *)
(*   "unmarked"  the image is replaced and writing the watermark throws.   *)
(* A crash at any other moment is the action Crash.                        *)
(***************************************************************************)
EXTENDS AuthorityState

CONSTANTS
  Deployment,         \* the <<participant, boot>> pairs workers present
  Batched,            \* the pairs of these that are registered in one call
  OfferedPolicies,    \* incarnation policies registrations ask for
  OfferedScopes,      \* scope sets registrations and grants ask for
  OfferedGens,        \* expected registration generations; 0 means absent
  SessionIds,         \* session identifiers
  MaxSessions,        \* limits.max_sessions
  FenceOnSessionLoss, \* options.fence_on_session_loss
  OpenModes,          \* how processes open: options.advance_epoch_on_open or not
  MaxGen,             \* bound of the model: no mutation beyond this generation
  MaxMinted           \* bound of the model: grant identifiers ever generated

ASSUME RuntimeAssumption ==
  /\ Deployment \subseteq Participants \X Boots
  /\ Batched \subseteq Deployment \X Deployment
  /\ OfferedPolicies \subseteq Policies
  /\ OfferedScopes \subseteq SUBSET Scopes
  /\ OfferedGens \subseteq Nat
  /\ MaxSessions \in Nat \ {0}
  /\ FenceOnSessionLoss \in BOOLEAN
  /\ OpenModes \subseteq {"advance", "keep"}
  /\ MaxGen \in Nat
  /\ MaxMinted \in Nat

VARIABLES
  up,         \* whether a coordinator process is running
  mem,        \* its in-memory authority state
  disk,       \* the durable image
  watermark,  \* the durable epoch watermark
  sessions,   \* the sessions bound to incarnations
  minted,     \* history: how many grant identifiers were generated
  issued,     \* history: the tokens of every incarnation ever admitted
  exposed     \* history: the highest epoch the process showed

vars == <<up, mem, disk, watermark, sessions, minted, issued, exposed>>

-----------------------------------------------------------------------------
(* Requests. *)

Epochs == 1..MaxEpoch

RegisterRequest(a, d, pol, sc, e, g) ==
  [attempt |-> a, participant |-> d[1], boot |-> d[2], policy |-> pol,
   scopes |-> sc, epoch |-> e, gen |-> g]

RegisterRequests ==
  {RegisterRequest(a, d, pol, sc, e, g) :
     a \in Attempts, d \in Deployment, pol \in OfferedPolicies,
     sc \in OfferedScopes, e \in Epochs, g \in OfferedGens}

\* Two registrations of one caller, under the epoch it knows.
BatchRequests ==
  {<<RegisterRequest(a, d[1], pol, sc, e, g), RegisterRequest(b, d[2], pol, sc, e, g)>> :
     a, b \in Attempts, d \in Batched, pol \in OfferedPolicies,
     sc \in OfferedScopes, e \in Epochs, g \in OfferedGens}

FenceRequests ==
  {[attempt |-> a, participant |-> d[1], boot |-> d[2], epoch |-> e, reason |-> x] :
     a \in Attempts, d \in Deployment, e \in Epochs, x \in Reasons}

AdvanceRequests == [attempt: Attempts, epoch: Epochs, reason: Reasons]

\* A grant goes to an incarnation that was shown; its parent is any grant.
GrantRequests ==
  {[attempt |-> a, participant |-> k.participant, boot |-> k.boot, inc |-> k.inc,
    scopes |-> sc, epoch |-> e, parent |-> g] :
     a \in Attempts, k \in issued, sc \in OfferedScopes, e \in Epochs, g \in 0..minted}

RevokeRequests == [attempt: Attempts, grant: 1..minted, epoch: Epochs, reason: Reasons]

RetireRequests == [attempt: Attempts, participant: Participants, epoch: Epochs]

-----------------------------------------------------------------------------
(* Tokens. *)

Tokens == [epoch: Nat, participant: Participants, boot: Boots, inc: Nat]

\* The tokens a state's current incarnations hold.
TokensOf(s) ==
  {[epoch |-> s.epoch, participant |-> l[1], boot |-> l[2], inc |-> l[3]] : l \in Live(s)}

\* Whether the runtime answers that the incarnation of token k is current.
Accepts(s, k) ==
  \E sc \in Scopes :
    ValidateToken(s, [token |-> k, scope |-> sc, gen |-> 0]) \in {"Current", "UnauthorizedScope"}

-----------------------------------------------------------------------------
(* The durability barrier. *)

\* Every step shows its state to callers; a process that dies in a save leaves
\* incarnations in the image that it never showed.
Show ==
  /\ issued' = issued \cup TokensOf(IF up' THEN mem' ELSE disk')
  /\ exposed' = IF up' THEN MaxOf(exposed, mem'.epoch) ELSE exposed

\* A fault of Commit: the caller is answered before the image is replaced.
CommitLazily(t, kept) ==
  /\ Valid(t)
  /\ mem' = t
  /\ sessions' = kept
  /\ UNCHANGED <<up, disk, watermark>>

\* The image is replaced, then the watermark is raised if the epoch is higher.
Commit(t, kept) ==
  /\ Valid(t)
  /\ mem' = t
  /\ disk' = t
  /\ watermark' = MaxOf(watermark, t.epoch)
  /\ sessions' = kept
  /\ UNCHANGED up

\* The save throws before the image is replaced; the undo log runs.
RollBack(undone, kept) ==
  /\ mem' = undone
  /\ sessions' = kept
  /\ UNCHANGED <<up, disk, watermark>>

\* The image is replaced but raising the watermark throws; the undo log runs.
RollBackUnmarked(t, undone, kept) ==
  /\ Valid(t)
  /\ t.epoch > watermark
  /\ mem' = undone
  /\ disk' = t
  /\ sessions' = kept
  /\ UNCHANGED <<up, watermark>>

\* A fault of DieInSave: the watermark is raised before the image is replaced.
DieMarkedFirst(t) ==
  /\ Valid(t)
  /\ disk' \in {disk, t}
  /\ watermark' = MaxOf(watermark, t.epoch)
  /\ up' = FALSE
  /\ mem' = InitialState
  /\ sessions' = {}

\* The process dies after the image is replaced.
DieInSave(t) ==
  /\ Valid(t)
  /\ disk' = t
  /\ watermark' \in {watermark, MaxOf(watermark, t.epoch)}
  /\ up' = FALSE
  /\ mem' = InitialState
  /\ sessions' = {}

Save(t, undone, kept, io) ==
  /\ \/ io = "ok" /\ Commit(t, kept)
     \/ io = "ok" /\ ~Valid(t) /\ RollBack(undone, kept)
     \/ io = "failed" /\ RollBack(undone, kept)
     \/ io = "unmarked" /\ RollBackUnmarked(t, undone, kept)
     \/ io = "crash" /\ DieInSave(t)
  /\ Show

\* A refused, replayed or otherwise unmutating request saves nothing, so that
\* there is one way for it to end.
Answer(io) == io = "ok" /\ UNCHANGED vars

-----------------------------------------------------------------------------
(* Operations. *)

Register(r, io) ==
  /\ up
  /\ \/ /\ RegisterOutcome(mem, r) = "Registered"
        /\ RegisterTo(mem, r).gen <= MaxGen
        /\ Save(RegisterTo(mem, r), RegisterUndo(mem, r), sessions, io)
        /\ UNCHANGED minted
     \/ RegisterOutcome(mem, r) # "Registered" /\ Answer(io)

\* register_participants: one save for the batch, if any request mutated.
RegisterBatch(batch, io) ==
  LET mutated == \E i \in 1..2 : BatchOutcomes(mem, batch)[i] = "Registered" IN
  /\ up
  /\ \/ /\ mutated
        /\ BatchTo(mem, batch).gen <= MaxGen
        /\ Save(BatchTo(mem, batch), BatchUndo(mem, batch), sessions, io)
        /\ UNCHANGED minted
     \/ ~mutated /\ Answer(io)

FenceWorker(r, io) ==
  /\ up
  /\ \/ /\ FenceOutcome(mem, r) = "Fenced"
        /\ FenceTo(mem, r).gen <= MaxGen
        /\ Save(FenceTo(mem, r), FenceUndo(mem, r), sessions, io)
        /\ UNCHANGED minted
     \/ FenceOutcome(mem, r) # "Fenced" /\ Answer(io)

AdvanceEpoch(r, io) ==
  /\ up
  /\ \/ /\ AdvanceOutcome(mem, r) = "Advanced"
        /\ AdvanceTo(mem, r).gen <= MaxGen
        /\ Save(AdvanceTo(mem, r), AdvanceUndo(mem, r), sessions, io)
        /\ UNCHANGED minted
     \/ AdvanceOutcome(mem, r) # "Advanced" /\ Answer(io)

\* AuthorityGrantId::generate is modelled by numbering the identifiers.
GrantAuthority(r, io) ==
  LET id == minted + 1 IN
  /\ up
  /\ \/ /\ GrantOutcome(mem, r) = "Granted"
        /\ GrantTo(mem, r, id).gen <= MaxGen
        /\ minted < MaxMinted
        /\ minted' = id
        /\ Save(GrantTo(mem, r, id), GrantUndo(mem, r, id), sessions, io)
     \/ GrantOutcome(mem, r) # "Granted" /\ Answer(io)

RevokeAuthority(r, io) ==
  /\ up
  /\ \/ /\ RevokeOutcome(mem, r) = "Revoked"
        /\ RevokeTo(mem, r).gen <= MaxGen
        /\ Save(RevokeTo(mem, r), RevokeUndo(mem, r), sessions, io)
        /\ UNCHANGED minted
     \/ RevokeOutcome(mem, r) # "Revoked" /\ Answer(io)

RetireParticipant(r, io) ==
  /\ up
  /\ \/ /\ RetireOutcome(mem, r) = "Retired"
        /\ RetireTo(mem, r).gen <= MaxGen
        /\ Save(RetireTo(mem, r), RetireUndo(mem, r), sessions, io)
        /\ UNCHANGED minted
     \/ RetireOutcome(mem, r) # "Retired" /\ Answer(io)

-----------------------------------------------------------------------------
(* Sessions. *)

\* Token k may be bound: it is of this epoch, its incarnation is current, its
\* boot has no session yet, and there is room.
MayBind(k) ==
  /\ k.epoch = mem.epoch
  /\ mem.parts[k.participant].status = "registered"
  /\ FindIncarnation(mem.parts[k.participant], k.boot) = k.inc
  /\ \A b \in sessions : b.token.boot # k.boot
  /\ Cardinality(sessions) < MaxSessions

\* A session identifier in use is not bound again: the server generates one for
\* each connection.
BindSession(id, k) ==
  /\ up
  /\ \A b \in sessions : b.id # id
  /\ \/ /\ MayBind(k)
        /\ sessions' = sessions \cup {[id |-> id, token |-> k]}
        /\ UNCHANGED <<up, mem, disk, watermark, minted, issued, exposed>>
     \/ ~MayBind(k) /\ UNCHANGED vars

\* A fault of CloseSession: the session goes and its incarnation stays.
CloseSilently(b, io) ==
  /\ up
  /\ sessions' = sessions \ {b}
  /\ UNCHANGED <<up, mem, disk, watermark, minted, issued, exposed>>

\* Closing erases the session first.  The boot of the session is then fenced
\* if it is current, whichever incarnation it now holds.
CloseSession(b, io) ==
  LET p == b.token.participant
      boot == b.token.boot
      kept == sessions \ {b}
      fences == /\ FenceOnSessionLoss
                /\ IsLive(mem.parts[p], boot)
                /\ RecordFenceOutcome(mem, p, boot, FALSE) = "Fenced"
      t == RecordFence(mem, p, boot)
  IN /\ up
     /\ \/ /\ fences
           /\ t.gen <= MaxGen
           /\ Save(t, [mem EXCEPT !.fences = Truncate(t.fences, Len(mem.fences))], kept, io)
           /\ UNCHANGED minted
        \/ /\ ~fences
           /\ sessions' = kept
           /\ UNCHANGED <<up, mem, disk, watermark, minted, issued, exposed>>

-----------------------------------------------------------------------------
(* Starting, stopping and flushing the process. *)

\* What store.load checks of the state it has decoded: durable validation, and
\* that it is not older than the watermark.  Whether the bytes decode is told in
\* EpochImage; a process that starts is taken to decode them.
Admissible == Valid(disk) /\ disk.epoch >= watermark

\* A fault of OpenAdvancing: an established store is reopened at its epoch.
OpenWithoutAdvance(io) ==
  LET t == IF disk.epoch = 0 THEN MutateEpoch(disk) ELSE disk IN
  /\ up' = TRUE
  /\ mem' = t
  /\ disk' = t
  /\ watermark' = MaxOf(watermark, t.epoch)
  /\ UNCHANGED sessions

\* The constructor establishes a new epoch on top of the image; a failed save
\* leaves no process behind.
OpenAdvancing(io) ==
  LET t == MutateEpoch(disk) IN
  /\ "advance" \in OpenModes
  /\ disk.epoch < MaxEpoch
  /\ \/ /\ io = "ok"
        /\ Valid(t)
        /\ up' = TRUE
        /\ mem' = t
        /\ disk' = t
        /\ watermark' = MaxOf(watermark, t.epoch)
        /\ UNCHANGED sessions
     \/ io \in {"unmarked", "crash"} /\ DieInSave(t)

OpenKeeping ==
  /\ "keep" \in OpenModes
  /\ disk.epoch # 0
  /\ up' = TRUE
  /\ mem' = disk
  /\ UNCHANGED <<disk, watermark, sessions>>

\* The constructor throws: the image is refused, its epoch is the last one, or
\* there is no epoch to keep.
OpenRefused ==
  /\ \/ ~Admissible
     \/ "advance" \in OpenModes /\ disk.epoch = MaxEpoch
     \/ "keep" \in OpenModes /\ disk.epoch = 0
  /\ UNCHANGED vars

Open(io) ==
  /\ ~up
  /\ \/ /\ Admissible
        /\ OpenAdvancing(io) \/ OpenKeeping
        /\ Show
        /\ UNCHANGED minted
     \/ OpenRefused

Crash ==
  /\ up
  /\ up' = FALSE
  /\ mem' = InitialState
  /\ sessions' = {}
  /\ UNCHANGED <<disk, watermark, minted, issued, exposed>>

\* flush saves the state as it is, without an undo.
Flush(io) ==
  /\ up
  /\ Save(mem, mem, sessions, io)
  /\ UNCHANGED minted

-----------------------------------------------------------------------------

Init ==
  /\ up = FALSE
  /\ mem = InitialState
  /\ disk = InitialState
  /\ watermark = 0
  /\ sessions = {}
  /\ minted = 0
  /\ issued = {}
  /\ exposed = 0

\* One step of the process when a save may end as one of Outcomes.
Step(Outcomes) ==
  \/ Crash
  \/ \E id \in SessionIds, k \in issued : BindSession(id, k)
  \/ \E io \in Outcomes :
       \/ \E r \in RegisterRequests : Register(r, io)
       \/ \E batch \in BatchRequests : RegisterBatch(batch, io)
       \/ \E r \in FenceRequests : FenceWorker(r, io)
       \/ \E r \in AdvanceRequests : AdvanceEpoch(r, io)
       \/ \E r \in GrantRequests : GrantAuthority(r, io)
       \/ \E r \in RevokeRequests : RevokeAuthority(r, io)
       \/ \E r \in RetireRequests : RetireParticipant(r, io)
       \/ \E b \in sessions : CloseSession(b, io)
       \/ Open(io)
       \/ Flush(io)

\* Saves succeed, or the process dies in them.
Next == Step({"ok", "crash"})

Spec == Init /\ [][Next]_vars

\* Saves may also fail and leave the process running.
FaultyNext == Step({"ok", "crash", "failed", "unmarked"})

FaultySpec == Init /\ [][FaultyNext]_vars

=============================================================================

--------------------------- MODULE AuthorityState ---------------------------
(***************************************************************************)
(* The durable authority state of a Fabric Epoch coordinator and the pure  *)
(* part of its operations: for each request the outcome the runtime        *)
(* classifies it as, the state it leads to, and the state the undo log     *)
(* restores when the save that follows fails.  There are no variables      *)
(* here; EpochRuntime.tla runs these operators on the in-memory state and  *)
(* on the durable image.                                                   *)
(*                                                                         *)
(* Wording, provenance texts, transition and coordinator identifiers are   *)
(* left out.  Requests that are malformed because an identifier is nil do  *)
(* not arise; an empty scope set stands for them.                          *)
(***************************************************************************)
EXTENDS Integers, Sequences, FiniteSets

CONSTANTS
  Participants,      \* participant identifiers; their numeric order is the
                     \* canonical order of the durable image
  Boots,             \* worker boot identifiers
  Attempts,          \* caller-chosen mutation attempt identifiers
  Scopes,            \* authority scopes
  Registrable,       \* the scopes whose kind participants may register
  Reasons,           \* fence and revoke reasons, epoch transition causes
  MaxEpoch,          \* the largest CoordinatorEpoch (UINT64_MAX in the code)
  MaxParticipants,   \* limits.max_participants
  MaxActiveWorkers,  \* limits.max_active_workers
  MaxRecentFences,   \* limits.max_recent_fences
  MaxFencedBoots,    \* limits.max_fenced_boots_per_participant
  MaxGrants,         \* limits.max_authority_grants
  MaxScopes,         \* limits.max_scopes_per_grant
  MaxTransitions,    \* limits.max_transition_history
  MaxIdempotency,    \* limits.max_idempotency_records_per_participant
  AllowMulti,        \* options.allow_multi_incarnation
  ReplaceIncumbent   \* options.replacement_policy is ReplaceIncumbent

\* Identifiers are ordered, and every option that selects code is Boolean.
ASSUME IdentifierAssumption ==
  /\ Participants \subseteq Nat
  /\ Registrable \subseteq Scopes
  /\ AllowMulti \in BOOLEAN
  /\ ReplaceIncumbent \in BOOLEAN

\* is_viable(limits), which the runtime's constructor insists on.
ASSUME LimitAssumption ==
  /\ MaxEpoch \in Nat \ {0}
  /\ MaxParticipants \in Nat \ {0}
  /\ MaxActiveWorkers \in Nat \ {0}
  /\ MaxActiveWorkers <= MaxParticipants
  /\ MaxRecentFences \in Nat \ {0}
  /\ MaxFencedBoots \in Nat \ {0}
  /\ MaxGrants \in Nat \ {0}
  /\ MaxScopes \in Nat \ {0}
  /\ MaxTransitions \in Nat \ {0}
  /\ MaxIdempotency \in Nat \ {0}

-----------------------------------------------------------------------------
(* Records of the durable image. *)

Policies == {"single", "multi"}

\* A current incarnation: the boot and the sequence number it was issued.
Incarnations == [boot: Boots, seq: Nat]

\* What the semantic digest of a request tells apart.  The expected epoch and
\* the expected generation are not part of any digest.
Digests ==
  [op: {"register"}, participant: Participants, boot: Boots,
   policy: Policies, scopes: SUBSET Scopes]
    \cup [op: {"fence"}, participant: Participants, boot: Boots, reason: Reasons]
    \cup [op: {"grant"}, participant: Participants, boot: Boots, inc: Nat,
          scopes: SUBSET Scopes, parent: Nat]
    \cup [op: {"revoke"}, grant: Nat, reason: Reasons]
    \cup [op: {"retire"}, participant: Participants]
    \cup [op: {"advance"}, reason: Reasons]

\* An idempotency record.  Only successes are remembered, so the outcome is
\* implied by the operation; value is the result a replay answers with: the
\* incarnation of a registration or a fence (0 when the fence was
\* preventive), the grant, the grant generation, the number of incarnations a
\* retirement fenced, or the epoch an advancement reached.
IdempotencyRecords == [attempt: Attempts, sem: Digests, value: Nat]

\* A participant.  live lists the active incarnation first and then the extra
\* incarnations in the order they registered.
ParticipantRecords ==
  [status: {"unknown", "registered", "retired"},
   regGen: Nat, fenceGen: Nat, floor: Nat, next: Nat,
   policy: Policies, reval: BOOLEAN, scopes: SUBSET Scopes,
   live: Seq(Incarnations), ring: Seq(Boots), idem: Seq(IdempotencyRecords)]

FenceRecords ==
  [boot: Boots, participant: Participants, gen: Nat, epoch: Nat, inc: Nat]

\* A grant; parent 0 stands for none, revokedAt 0 for not revoked.
GrantRecords ==
  [id: Nat, epoch: Nat, participant: Participants, boot: Boots, inc: Nat,
   scopes: SUBSET Scopes, parent: Nat, gen: Nat, revokedAt: Nat]

TransitionRecords == [from: Nat, to: Nat, gen: Nat]

States ==
  [epoch: Nat, gen: Nat, regFloor: Nat, fenceFloor: Nat,
   parts: [Participants -> ParticipantRecords],
   fences: Seq(FenceRecords), grants: Seq(GrantRecords),
   transitions: Seq(TransitionRecords), control: Seq(IdempotencyRecords)]

\* A participant the store has no record of; a first registration starts from
\* these values.
FreshParticipant ==
  [status |-> "unknown", regGen |-> 0, fenceGen |-> 0, floor |-> 0, next |-> 1,
   policy |-> "single", reval |-> FALSE, scopes |-> {},
   live |-> << >>, ring |-> << >>, idem |-> << >>]

\* The state of a store that was never established.
InitialState ==
  [epoch |-> 0, gen |-> 0, regFloor |-> 0, fenceFloor |-> 0,
   parts |-> [p \in Participants |-> FreshParticipant],
   fences |-> << >>, grants |-> << >>, transitions |-> << >>, control |-> << >>]

-----------------------------------------------------------------------------
(* Helpers shared by the operations. *)

\* A fault of MaxOf: the later value, whichever is larger.
LaterOf(a, b) == b

MaxOf(a, b) == IF a >= b THEN a ELSE b

\* A fault of Retain: the table keeps one entry too many.
RetainOneMore(seq, max) ==
  IF Len(seq) > max + 1 THEN SubSeq(seq, Len(seq) - max, Len(seq)) ELSE seq

\* Bounded retention: an append to a full table drops the oldest entries.
Retain(seq, max) ==
  IF Len(seq) > max THEN SubSeq(seq, Len(seq) - max + 1, Len(seq)) ELSE seq

\* The first n entries, which is what vector::resize(n) leaves of a table that
\* is at least that long.
Truncate(seq, n) == SubSeq(seq, 1, n)

\* The sequence without its i-th entry.
Without(seq, i) ==
  [j \in 1..(Len(seq) - 1) |-> IF j < i THEN seq[j] ELSE seq[j + 1]]

\* The entries of seq at the positions in I, in order.
Select(seq, I) ==
  LET at == CHOOSE f \in [1..Cardinality(I) -> I] :
              \A i, j \in DOMAIN f : i < j => f[i] < f[j]
  IN [i \in 1..Cardinality(I) |-> seq[at[i]]]

Known(s) == {p \in Participants : s.parts[p].status # "unknown"}

IsLive(part, b) == \E i \in DOMAIN part.live : part.live[i].boot = b

\* The position of boot b among the current incarnations.
Position(part, b) == CHOOSE i \in DOMAIN part.live : part.live[i].boot = b

\* find_incarnation, with 0 for none.
FindIncarnation(part, b) ==
  IF IsLive(part, b) THEN part.live[Position(part, b)].seq ELSE 0

\* Every current incarnation, as <<participant, boot, sequence>>.
Live(s) ==
  UNION {{<<p, s.parts[p].live[i].boot, s.parts[p].live[i].seq>> :
            i \in DOMAIN s.parts[p].live} : p \in Participants}

ActiveWorkers(s) == Cardinality(Live(s))

\* A fence is known from the recent fence records or from the participant's
\* ring of fenced boots.  The records are found through fence_index, which
\* keeps the positions a boot had in the table when the indexes were last
\* rebuilt (indexed); at such a position only the participant is compared.
LookupFenceIn(s, indexed, p, b) ==
  \/ \E i \in DOMAIN indexed : /\ indexed[i].boot = b
                               /\ i \in DOMAIN s.fences
                               /\ s.fences[i].participant = p
  \/ \E i \in DOMAIN s.parts[p].ring : s.parts[p].ring[i] = b

\* Every save rebuilds the indexes, so an operation starts with fresh ones.
LookupFence(s, p, b) == LookupFenceIn(s, s.fences, p, b)

\* A fault of EvaluateIncarnation: a current boot answers for every sequence.
EvaluateBootOnly(s, p, b, claimed) ==
  IF IsLive(s.parts[p], b) THEN "Current" ELSE "Fenced"

\* How an incarnation stands: Current, Fenced, or RevalidationRequired after
\* an epoch change took the participant's incarnations away.
EvaluateIncarnation(s, p, b, claimed) ==
  LET part == s.parts[p] IN
  IF IsLive(part, b)
    THEN IF claimed \in {0, FindIncarnation(part, b)} THEN "Current" ELSE "Fenced"
    ELSE IF \/ LookupFence(s, p, b)
            \/ claimed # 0 /\ claimed <= part.floor
            \/ part.live # << >>
            \/ ~part.reval
           THEN "Fenced"
           ELSE "RevalidationRequired"

Attempted(table, attempt) == \E i \in DOMAIN table : table[i].attempt = attempt

\* A remembered attempt replays when the payload is the same, else conflicts.
ReplayOutcome(table, attempt, digest) ==
  IF \E i \in DOMAIN table : table[i].attempt = attempt /\ table[i].sem = digest
    THEN "Replayed"
    ELSE "ConflictingAttempt"

Remember(table, attempt, digest, value) ==
  Retain(Append(table, [attempt |-> attempt, sem |-> digest, value |-> value]),
         MaxIdempotency)

-----------------------------------------------------------------------------
(* Fencing. *)

RecordFenceOutcome(s, p, b, allowDefensive) ==
  IF s.parts[p].status = "unknown" THEN "UnknownParticipant"
  ELSE IF LookupFence(s, p, b) THEN "AlreadyFenced"
  ELSE IF ~IsLive(s.parts[p], b) /\ ~allowDefensive THEN "AlreadyFenced"
  ELSE IF ~IsLive(s.parts[p], b) /\ Len(s.fences) >= MaxRecentFences
    THEN "ResourceLimit"
  ELSE "Fenced"

\* A fault of FencePreventively: the fencing generation is used, not claimed.
FenceWithoutFloor(s, p, b) ==
  [s EXCEPT !.gen = @ + 1,
            !.fences = Append(@, [boot |-> b, participant |-> p,
                                  gen |-> s.fenceFloor + 1, epoch |-> s.epoch, inc |-> 0])]

\* A fence of a boot that holds no incarnation only leaves a record.
FencePreventively(s, p, b) ==
  LET g == s.fenceFloor + 1 IN
  [s EXCEPT !.gen = @ + 1,
            !.fenceFloor = g,
            !.parts[p].fenceGen = g,
            !.fences = Append(@, [boot |-> b, participant |-> p, gen |-> g,
                                  epoch |-> s.epoch, inc |-> 0])]

\* A fault of FenceIncarnation: the incarnation stays current.
FenceButKeep(s, p, b) ==
  LET t == FencePreventively(s, p, b) IN
  [t EXCEPT !.fences = Retain(@, MaxRecentFences),
            !.parts[p].ring = Retain(Append(@, b), MaxFencedBoots)]

\* A fence of a current incarnation takes it out of the live list, raises the
\* floor and retains the boot in both bounded tables.
FenceIncarnation(s, p, b) ==
  LET part == s.parts[p]
      i == Position(part, b)
      inc == part.live[i].seq
      g == s.fenceFloor + 1
  IN [s EXCEPT
       !.gen = @ + 1,
       !.fenceFloor = g,
       !.parts[p] = [part EXCEPT
                      !.live = Without(part.live, i),
                      !.floor = MaxOf(part.floor, inc),
                      !.fenceGen = g,
                      !.ring = Retain(Append(part.ring, b), MaxFencedBoots)],
       !.fences = Retain(Append(@, [boot |-> b, participant |-> p, gen |-> g,
                                    epoch |-> s.epoch, inc |-> inc]),
                         MaxRecentFences)]

RecordFence(s, p, b) ==
  IF IsLive(s.parts[p], b) THEN FenceIncarnation(s, p, b)
                           ELSE FencePreventively(s, p, b)

FenceDigest(r) ==
  [op |-> "fence", participant |-> r.participant, boot |-> r.boot, reason |-> r.reason]

FenceOutcome(s, r) ==
  LET part == s.parts[r.participant] IN
  IF r.epoch # s.epoch THEN "StaleEpoch"
  ELSE IF part.status = "unknown" THEN "UnknownParticipant"
  ELSE IF Attempted(part.idem, r.attempt)
    THEN ReplayOutcome(part.idem, r.attempt, FenceDigest(r))
  ELSE RecordFenceOutcome(s, r.participant, r.boot, TRUE)

FenceTo(s, r) ==
  LET p == r.participant
      t == RecordFence(s, p, r.boot)
  IN [t EXCEPT !.parts[p].idem = Remember(s.parts[p].idem, r.attempt, FenceDigest(r),
                                          FindIncarnation(s.parts[p], r.boot))]

\* The undo restores the record fields one by one and truncates the fence
\* table to its old length; the idempotency record is not undone.
FenceUndo(s, r) ==
  LET t == FenceTo(s, r) IN
  [s EXCEPT !.fences = Truncate(t.fences, Len(s.fences)),
            !.parts[r.participant].idem = t.parts[r.participant].idem]

-----------------------------------------------------------------------------
(* Registration. *)

RegisterDigest(r) ==
  [op |-> "register", participant |-> r.participant, boot |-> r.boot,
   policy |-> r.policy, scopes |-> r.scopes]

\* A fault of HasIncumbent: only the boot itself counts as an incumbent.
HasOwnIncumbent(s, r) ==
  /\ IsLive(s.parts[r.participant], r.boot)
  /\ s.parts[r.participant].policy = "single"

\* The incumbent a single-incarnation participant must lose first.
HasIncumbent(s, r) ==
  /\ s.parts[r.participant].live # << >>
  /\ s.parts[r.participant].policy = "single"

\* ReplaceIncumbent fences the active incarnation within the registration,
\* unless a fence of it is already on record.
DisplaceIncumbent(s, indexed, r) ==
  LET p == r.participant
      incumbent == s.parts[p].live[1].boot
  IN IF HasIncumbent(s, r) /\ ~LookupFenceIn(s, indexed, p, incumbent)
       THEN FenceIncarnation(s, p, incumbent)
       ELSE s

RegistrationOutcome(s, indexed, r) ==
  LET p == r.participant
      part == s.parts[p]
      known == part.status # "unknown"
  IN IF r.scopes = {} THEN "MalformedRequest"
     ELSE IF Cardinality(r.scopes) > MaxScopes THEN "ResourceLimit"
     ELSE IF r.policy = "multi" /\ ~AllowMulti THEN "UnauthorizedScope"
     ELSE IF ~(r.scopes \subseteq Registrable) THEN "UnauthorizedScope"
     ELSE IF r.epoch # s.epoch THEN "StaleEpoch"
     ELSE IF part.status = "retired" THEN "RetiredParticipant"
     ELSE IF known /\ LookupFenceIn(s, indexed, p, r.boot) THEN "StaleWorkerBoot"
     ELSE IF known /\ Attempted(part.idem, r.attempt)
       THEN ReplayOutcome(part.idem, r.attempt, RegisterDigest(r))
     ELSE IF known /\ r.gen \notin {0, part.regGen} THEN "RevalidationRequired"
     ELSE IF known /\ part.policy # r.policy THEN "ConflictingIncarnation"
     ELSE IF known /\ IsLive(part, r.boot) THEN "AlreadyActive"
     ELSE IF HasIncumbent(s, r) /\ ~ReplaceIncumbent THEN "ConflictingIncarnation"
     ELSE IF ~known /\ Cardinality(Known(s)) >= MaxParticipants THEN "ResourceLimit"
     ELSE IF ActiveWorkers(DisplaceIncumbent(s, indexed, r)) >= MaxActiveWorkers
       THEN "ResourceLimit"
     ELSE "Registered"

RegisterOutcome(s, r) == RegistrationOutcome(s, s.fences, r)

\* The next sequence number of the participant's allocator becomes a current
\* incarnation of the requesting boot.
AdmitIncarnation(s, r) ==
  LET p == r.participant
      part == s.parts[p]
  IN [s EXCEPT
       !.gen = @ + 1,
       !.regFloor = @ + 1,
       !.parts[p] = [part EXCEPT
                      !.status = "registered",
                      !.regGen = s.regFloor + 1,
                      !.next = part.next + 1,
                      !.policy = r.policy,
                      !.scopes = r.scopes,
                      !.reval = FALSE,
                      !.live = Append(part.live, [boot |-> r.boot, seq |-> part.next]),
                      !.idem = Remember(part.idem, r.attempt, RegisterDigest(r), part.next)]]

RegisterTo(s, r) == AdmitIncarnation(DisplaceIncumbent(s, s.fences, r), r)

\* The save sorts the participants before it writes.  Undoing the creation of
\* a participant then removes whichever record is last in that order.
PopParticipant(parts) ==
  LET known == {p \in Participants : parts[p].status # "unknown"}
      last == CHOOSE p \in known : \A q \in known : q <= p
  IN [parts EXCEPT ![last] = FreshParticipant]

\* A participant that existed is restored by its identity.
RegisterUndo(s, r) ==
  LET t == RegisterTo(s, r)
  IN [s EXCEPT !.fences = Truncate(t.fences, Len(s.fences)),
               !.parts = IF s.parts[r.participant].status = "unknown"
                           THEN PopParticipant(t.parts)
                           ELSE s.parts]

-----------------------------------------------------------------------------
(* Batch registration.  register_participants applies its requests one     *)
(* after the other and saves once, so that each finds the indexes as they  *)
(* were before the first.  The model has batches of two.                   *)

\* One request of a batch; the state generation waits for the end.
ApplyInBatch(s, indexed, r) ==
  LET d == DisplaceIncumbent(s, indexed, r) IN
  IF RegistrationOutcome(s, indexed, r) = "Registered"
    THEN [AdmitIncarnation(d, r) EXCEPT !.gen = d.gen]
    ELSE s

\* The outcomes of the two requests.
BatchOutcomes(s, batch) ==
  LET t == ApplyInBatch(s, s.fences, batch[1]) IN
  <<RegistrationOutcome(s, s.fences, batch[1]), RegistrationOutcome(t, s.fences, batch[2])>>

BatchTo(s, batch) ==
  LET t == ApplyInBatch(ApplyInBatch(s, s.fences, batch[1]), s.fences, batch[2])
  IN [t EXCEPT !.gen = @ + 1]

\* Undoing a request that was applied to state s; a record that is no longer
\* there is not restored.
UndoRegistration(parts, s, outcome, r) ==
  LET p == r.participant IN
  IF outcome # "Registered" THEN parts
  ELSE IF s.parts[p].status = "unknown" THEN PopParticipant(parts)
  ELSE IF parts[p].status = "unknown" THEN parts
  ELSE [parts EXCEPT ![p] = s.parts[p]]

\* The undo log runs backwards.
BatchUndo(s, batch) ==
  LET t == BatchTo(s, batch)
      outcomes == BatchOutcomes(s, batch)
      between == ApplyInBatch(s, s.fences, batch[1])
      parts == UndoRegistration(t.parts, between, outcomes[2], batch[2])
  IN [s EXCEPT !.fences = Truncate(t.fences, Len(s.fences)),
               !.parts = UndoRegistration(parts, s, outcomes[1], batch[1])]

-----------------------------------------------------------------------------
(* Epoch advancement. *)

AdvanceDigest(r) == [op |-> "advance", reason |-> r.reason]

\* Replay is classified before the expected epoch, for this operation only.
AdvanceOutcome(s, r) ==
  IF Attempted(s.control, r.attempt)
    THEN ReplayOutcome(s.control, r.attempt, AdvanceDigest(r))
  ELSE IF r.epoch # s.epoch THEN "StaleExpectedEpoch"
  ELSE IF s.epoch = MaxEpoch THEN "EpochExhausted"
  ELSE "Advanced"

\* A fault of MutateEpoch: incarnations are numbered from one in each epoch.
MutateEpochRenumbering(s) ==
  [s EXCEPT
    !.epoch = @ + 1,
    !.gen = @ + 1,
    !.parts = [p \in Participants |->
                [s.parts[p] EXCEPT !.reval = @ \/ s.parts[p].live # << >>,
                                   !.live = << >>, !.floor = 0, !.next = 1]]]

\* A fault of MutateEpoch: the grants of the old epoch are dropped.
MutateEpochDroppingGrants(s) ==
  [s EXCEPT
    !.epoch = @ + 1,
    !.gen = @ + 1,
    !.grants = << >>,
    !.parts = [p \in Participants |->
                [s.parts[p] EXCEPT !.reval = @ \/ s.parts[p].live # << >>,
                                   !.live = << >>]]]

\* A new epoch takes every incarnation away; a participant that had one must
\* register again.  (A first establishment has no incarnation to take.)
MutateEpoch(s) ==
  [s EXCEPT
    !.epoch = @ + 1,
    !.gen = @ + 1,
    !.parts = [p \in Participants |->
                [s.parts[p] EXCEPT !.reval = @ \/ s.parts[p].live # << >>,
                                   !.live = << >>]],
    !.transitions = Retain(Append(@, [from |-> s.epoch, to |-> s.epoch + 1,
                                      gen |-> s.gen + 1]),
                           MaxTransitions)]

AdvanceTo(s, r) ==
  [MutateEpoch(s) EXCEPT
    !.control = Remember(s.control, r.attempt, AdvanceDigest(r), s.epoch + 1)]

\* The undo copies the participants back and truncates the transitions; the
\* attempt stays in the control table.
AdvanceUndo(s, r) ==
  LET t == AdvanceTo(s, r) IN
  [s EXCEPT !.transitions = Truncate(t.transitions, Len(s.transitions)),
            !.control = t.control]

-----------------------------------------------------------------------------
(* Grants and delegation. *)

GrantDigest(r) ==
  [op |-> "grant", participant |-> r.participant, boot |-> r.boot, inc |-> r.inc,
   scopes |-> r.scopes, parent |-> r.parent]

\* The positions that hold the grant named id (at most one).
GrantAt(s, id) == {i \in DOMAIN s.grants : s.grants[i].id = id}

Revoked(g) == g.revokedAt # 0

\* A parent passes authority on only while it is unrevoked, of this epoch and
\* held by a current incarnation, and never more scopes than it has.
MayDelegate(s, g, scopes) ==
  /\ ~Revoked(g)
  /\ g.epoch = s.epoch
  /\ s.parts[g.participant].status # "unknown"
  /\ EvaluateIncarnation(s, g.participant, g.boot, g.inc) = "Current"
  /\ scopes \subseteq g.scopes

GrantOutcome(s, r) ==
  LET p == r.participant
      part == s.parts[p]
  IN IF r.scopes = {} \/ r.inc = 0 THEN "MalformedRequest"
     ELSE IF Cardinality(r.scopes) > MaxScopes THEN "ResourceLimit"
     ELSE IF r.epoch # s.epoch THEN "StaleEpoch"
     ELSE IF part.status = "unknown" THEN "UnknownParticipant"
     ELSE IF EvaluateIncarnation(s, p, r.boot, r.inc) # "Current" THEN "StaleWorkerBoot"
     ELSE IF ~(r.scopes \subseteq part.scopes) THEN "UnauthorizedScope"
     ELSE IF Attempted(part.idem, r.attempt)
       THEN ReplayOutcome(part.idem, r.attempt, GrantDigest(r))
     ELSE IF r.parent # 0 /\ ~(\E i \in GrantAt(s, r.parent) :
                                 MayDelegate(s, s.grants[i], r.scopes))
       THEN "DelegationRejected"
     ELSE IF Len(s.grants) >= MaxGrants THEN "ResourceLimit"
     ELSE "Granted"

\* id is the freshly generated AuthorityGrantId.
GrantTo(s, r, id) ==
  [s EXCEPT
    !.gen = @ + 1,
    !.grants = Append(@, [id |-> id, epoch |-> s.epoch, participant |-> r.participant,
                          boot |-> r.boot, inc |-> r.inc, scopes |-> r.scopes,
                          parent |-> r.parent, gen |-> s.gen + 1, revokedAt |-> 0]),
    !.parts[r.participant].idem = Remember(@, r.attempt, GrantDigest(r), id)]

\* The grant is popped; its idempotency record is not.
GrantUndo(s, r, id) ==
  [s EXCEPT !.parts[r.participant].idem = GrantTo(s, r, id).parts[r.participant].idem]

RevokeDigest(r) == [op |-> "revoke", grant |-> r.grant, reason |-> r.reason]

RevokeOutcome(s, r) ==
  IF r.epoch # s.epoch THEN "StaleEpoch"
  ELSE IF Attempted(s.control, r.attempt)
    THEN ReplayOutcome(s.control, r.attempt, RevokeDigest(r))
  ELSE IF GrantAt(s, r.grant) = {} THEN "UnknownGrant"
  ELSE IF \E i \in GrantAt(s, r.grant) : Revoked(s.grants[i]) THEN "AlreadyRevoked"
  ELSE "Revoked"

\* The worklist of the cascade visits the least set of positions that holds
\* the roots and, with a position it may enter, the children of that grant.
Descend(gs, roots, mayEnter) ==
  LET closed(C) == \A i \in C, j \in mayEnter :
                     gs[j].parent = gs[i].id => j \in C
  IN {i \in DOMAIN gs : \A C \in SUBSET (DOMAIN gs) :
                          roots \subseteq C /\ closed(C) => i \in C}

\* A fault of Cascade: what is derived from the grant survives it.
CascadeRootOnly(s, r) == GrantAt(s, r.grant)

\* A fault of Cascade: the grant itself is forgotten.
CascadeBelowRoot(s, r) ==
  Descend(s.grants, GrantAt(s, r.grant), {j \in DOMAIN s.grants : ~Revoked(s.grants[j])})
    \ GrantAt(s, r.grant)

\* Revocation enters only grants that are not revoked yet.
Cascade(s, r) ==
  Descend(s.grants, GrantAt(s, r.grant), {j \in DOMAIN s.grants : ~Revoked(s.grants[j])})

RevokeTo(s, r) ==
  LET root == GrantAt(s, r.grant) IN
  [s EXCEPT
    !.gen = @ + 1,
    !.grants = [i \in DOMAIN s.grants |->
                 [s.grants[i] EXCEPT
                   !.revokedAt = IF i \in Cascade(s, r) THEN s.epoch ELSE @,
                   !.gen = IF i \in root THEN s.gen + 1 ELSE @]],
    !.control = Remember(@, r.attempt, RevokeDigest(r), s.gen + 1)]

\* The undo un-revokes the whole sub-graph below the grant, whatever was
\* revoked before, and truncates the control table to its old length.
RevokeUndo(s, r) ==
  [s EXCEPT
    !.grants = [i \in DOMAIN s.grants |->
                 [s.grants[i] EXCEPT
                   !.revokedAt = IF i \in Descend(s.grants, GrantAt(s, r.grant),
                                                  DOMAIN s.grants)
                                   THEN 0 ELSE @]],
    !.control = Truncate(RevokeTo(s, r).control, Len(s.control))]

-----------------------------------------------------------------------------
(* Retirement. *)

RetireDigest(r) == [op |-> "retire", participant |-> r.participant]

RetireOutcome(s, r) ==
  LET part == s.parts[r.participant] IN
  IF r.epoch # s.epoch THEN "StaleEpoch"
  ELSE IF part.status = "unknown" THEN "UnknownParticipant"
  ELSE IF Attempted(part.idem, r.attempt)
    THEN ReplayOutcome(part.idem, r.attempt, RetireDigest(r))
  ELSE IF part.status = "retired" THEN "AlreadyRetired"
  ELSE "Retired"

\* The positions of the current incarnations a retirement fences: all of them,
\* unless a fence of one is already on record, which makes record_fence leave
\* it alone.  Fences are looked up in the tables as they were; those recorded here
\* are of other boots.
RetireVictims(s, p) ==
  {i \in DOMAIN s.parts[p].live : ~LookupFence(s, p, s.parts[p].live[i].boot)}

RetireTo(s, r) ==
  LET p == r.participant
      part == s.parts[p]
      victims == Select(part.live, RetireVictims(s, p))
      spared == Select(part.live, DOMAIN part.live \ RetireVictims(s, p))
      n == Len(victims)
  IN [s EXCEPT
       !.gen = @ + n + 1,
       !.fenceFloor = @ + n,
       !.fences = Retain(@ \o [i \in 1..n |->
                                [boot |-> victims[i].boot, participant |-> p,
                                 gen |-> s.fenceFloor + i, epoch |-> s.epoch,
                                 inc |-> victims[i].seq]],
                         MaxRecentFences),
       !.parts[p] = [part EXCEPT
                      !.status = "retired",
                      !.reval = FALSE,
                      !.floor = MaxOf(part.floor, part.next - 1),
                      !.fenceGen = IF n = 0 THEN part.fenceGen ELSE s.fenceFloor + n,
                      !.live = spared,
                      !.ring = Retain(part.ring \o [i \in 1..n |-> victims[i].boot],
                                      MaxFencedBoots),
                      !.idem = Remember(part.idem, r.attempt, RetireDigest(r),
                                        Len(part.live))]]

RetireUndo(s, r) ==
  LET t == RetireTo(s, r) IN
  [s EXCEPT !.fences = Truncate(t.fences, Len(s.fences)),
            !.parts[r.participant].idem = t.parts[r.participant].idem]

-----------------------------------------------------------------------------
(* Validation of a token, alone or with a grant. *)

\* A request carries a token, a scope, an expected registration generation
\* (0 for none) and a grant (0 for none).
ValidateWithGrant(s, q) ==
  LET g == s.grants[CHOOSE i \in GrantAt(s, q.grant) : TRUE]
      owner == s.parts[g.participant]
      standing == EvaluateIncarnation(s, g.participant, q.token.boot, q.token.inc)
  IN IF GrantAt(s, q.grant) = {} THEN "UnknownGrant"
     ELSE IF g.epoch # s.epoch THEN "StaleEpoch"
     ELSE IF Revoked(g) THEN "Revoked"
     ELSE IF g.boot # q.token.boot THEN "StaleWorkerBoot"
     ELSE IF owner.status = "unknown" THEN "UnknownParticipant"
     ELSE IF standing = "Fenced" THEN "StaleWorkerBoot"
     ELSE IF standing = "RevalidationRequired" THEN "RevalidationRequired"
     ELSE IF q.scope \notin g.scopes THEN "UnauthorizedScope"
     ELSE IF g.gen # owner.regGen /\ q.gen \notin {0, owner.regGen}
       THEN "RevalidationRequired"
     ELSE "Current"

ValidateToken(s, q) ==
  LET part == s.parts[q.token.participant]
      standing == EvaluateIncarnation(s, q.token.participant, q.token.boot, q.token.inc)
  IN IF q.token.epoch # s.epoch THEN "StaleEpoch"
     ELSE IF part.status = "unknown" THEN "UnknownParticipant"
     ELSE IF part.status = "retired" THEN "Retired"
     ELSE IF standing = "Fenced" THEN "StaleWorkerBoot"
     ELSE IF standing = "RevalidationRequired" THEN "RevalidationRequired"
     ELSE IF q.scope \notin part.scopes THEN "UnauthorizedScope"
     ELSE IF q.gen \notin {0, part.regGen} THEN "RevalidationRequired"
     ELSE "Current"

Validate(s, q) == IF q.grant # 0 THEN ValidateWithGrant(s, q) ELSE ValidateToken(s, q)

-----------------------------------------------------------------------------
(* What validate_durable_state accepts, on a save and on a load. *)

Distinct(seq) == \A i, j \in DOMAIN seq : seq[i] = seq[j] => i = j

DistinctAttempts(table) ==
  \A i, j \in DOMAIN table : table[i].attempt = table[j].attempt => i = j

ValidParticipant(s, part) ==
  /\ part.regGen <= s.regFloor
  /\ part.fenceGen <= s.fenceFloor
  /\ part.status = "retired" => part.live = << >>
  /\ part.next > part.floor
  /\ \A i \in DOMAIN part.live :
       /\ part.live[i].seq < part.next
       /\ \A j \in DOMAIN part.ring : part.ring[j] # part.live[i].boot
       /\ \A j \in DOMAIN part.live : part.live[i].boot = part.live[j].boot => i = j
  /\ Distinct(part.ring)
  /\ DistinctAttempts(part.idem)

OneOwnerPerBoot(s) ==
  \A p, q \in Participants :
    \A i \in DOMAIN s.parts[p].live, j \in DOMAIN s.parts[q].live :
      s.parts[p].live[i].boot = s.parts[q].live[j].boot => p = q

ValidFences(s) ==
  /\ \A i \in DOMAIN s.fences : /\ s.fences[i].gen <= s.fenceFloor
                                /\ s.fences[i].epoch <= s.epoch
  /\ \A i, j \in DOMAIN s.fences :
       /\ s.fences[i].participant = s.fences[j].participant
       /\ s.fences[i].boot = s.fences[j].boot
       => i = j

ValidGrants(s) ==
  /\ \A i, j \in DOMAIN s.grants : s.grants[i].id = s.grants[j].id => i = j
  /\ \A i \in DOMAIN s.grants :
       LET g == s.grants[i] IN
       /\ g.epoch <= s.epoch
       /\ g.scopes # {}
       /\ g.revokedAt <= s.epoch
       /\ g.parent # 0 => g.parent # g.id /\ GrantAt(s, g.parent) # {}

ValidTransitions(s) ==
  /\ \A i \in DOMAIN s.transitions :
       /\ s.transitions[i].to <= s.epoch
       /\ s.transitions[i].from < s.transitions[i].to
  /\ s.gen >= Len(s.transitions)

ValidControl(s) ==
  /\ \A i \in DOMAIN s.control : s.control[i].sem.op \in {"advance", "revoke"}
  /\ DistinctAttempts(s.control)

Valid(s) ==
  IF s.epoch = 0
    THEN s = [InitialState EXCEPT !.control = s.control]
    ELSE /\ \A p \in Known(s) : ValidParticipant(s, s.parts[p])
         /\ OneOwnerPerBoot(s)
         /\ ValidFences(s)
         /\ ValidGrants(s)
         /\ ValidTransitions(s)
         /\ ValidControl(s)

=============================================================================

----------------------------- MODULE EpochImage -----------------------------
(***************************************************************************)
(* What the coordinator's state becomes when it leaves the process: the    *)
(* durable image that a save publishes and the next start decodes, and the *)
(* snapshots and participant views that peers decode.  The states are the  *)
(* ones EpochRuntime reaches.                                              *)
(*                                                                         *)
(* Identifiers and digests that are read back without a check are written  *)
(* as 0 where the model has no number for them.                            *)
(***************************************************************************)
EXTENDS RuntimeProperties

CONSTANTS
  MaxString,        \* limits.max_string_size
  NameSize,         \* the length of every participant name and scope subject
  NoteSize,         \* the length of the notes and provenances requests carry
  ProvenanceSize,   \* the length of options.provenance
  MaxFramePayload   \* limits.max_frame_payload

INSTANCE ByteLayout

W == INSTANCE WireMessages

\* kAbsoluteMaxRecords, kAbsoluteMaxScopesPerSet, kAbsoluteMaxDurableText and
\* kAbsoluteMaxPayloadLength.
AbsoluteMaxRecords == 4 * 1024 * 1024
AbsoluteMaxScopes == 64
AbsoluteMaxText == 4096
AbsoluteMaxPayload == 2^30

\* The texts fit the limits their own types and the requests' checks enforce;
\* nothing checks the length of options.provenance.
ASSUME SizeAssumption ==
  /\ NameSize \in 1..128 /\ NameSize <= MaxString
  /\ NoteSize \in 0..MaxString
  /\ ProvenanceSize \in Nat
  /\ MaxFramePayload \in Nat \ {0}

-----------------------------------------------------------------------------
(* The layout of the durable payload. *)

Records(least, row) == Rows(AbsoluteMaxRecords, least, row)

DurableName == Text(1, 128)
DurableText == Text(0, AbsoluteMaxText)
DurableScopes == RisingRows(AbsoluteMaxScopes, <<Code(1, W!ScopeKinds, 0..5), DurableName>>)

\* A fault of IdempotencyRow: retirement came after the decoder's bound.
IdempotencyRowBeforeRetire ==
  <<Num(16), Code(1, 1..6, 1..5), Num(32), Num(2), Num(8), Num(8), Num(16)>>

IdempotencyRow == <<Num(16), Code(1, 1..6, 1..6), Num(32), Num(2), Num(8), Num(8), Num(16)>>

ParticipantRow ==
  <<DurableName, Num(8), Num(8), Num(8), W!Policy, Code(1, 0..7, 0..7), Num(16), Num(8), Num(8),
    Records(32, <<Num(16), Num(8), Num(8)>>), DurableScopes, Num(8), Num(8),
    Records(16, <<Num(16)>>), Records(83, IdempotencyRow)>>

FenceRow == <<Num(16), DurableName, W!Reason, Num(8), Num(8), Num(8), DurableText>>

GrantRow ==
  <<Num(16), Num(8), DurableName, Num(16), Num(8), DurableScopes, Num(8),
    Code(1, 0..7, 0..7), Num(16), Num(16), Num(8), DurableText>>

TransitionRow ==
  <<Num(16), Num(8), Num(8), Code(1, W!TransitionCauses, 0..3), Num(16), Num(8), DurableText>>

DurablePayload ==
  <<Num(8), Num(16), Num(8), Num(8), Num(8),
    Records(32, ParticipantRow), Records(49, FenceRow), Records(89, GrantRow),
    Records(65, TransitionRow), Records(83, IdempotencyRow)>>

-----------------------------------------------------------------------------
(* The records of a state. *)

Bit(condition, value) == IF condition THEN value ELSE 0

Named(p) == <<NameSize, p>>

\* The members of a set in increasing order, a numbering of the scopes, and
\* the rows of a scope set: each of the same kind, its subject its number.
Ascending(S) == CHOOSE f \in [1..Cardinality(S) -> S] : \A i, j \in DOMAIN f : i < j => f[i] < f[j]

ScopeNumber == CHOOSE f \in [Scopes -> 1..Cardinality(Scopes)] : \A a, b \in Scopes : f[a] = f[b] => a = b

ScopeRows(S) ==
  LET order == Ascending({ScopeNumber[a] : a \in S})
  IN [i \in DOMAIN order |-> <<0, Named(order[i])>>]

PolicyCode(policy) == IF policy = "single" THEN 0 ELSE 1

Flags(part) ==
  Bit(part.status = "retired", 1) + Bit(part.reval, 2) + Bit(part.live # << >>, 4)

Active(part) == IF part.live = << >> THEN [boot |-> 0, seq |-> 0] ELSE Head(part.live)
Extra(part) == IF part.live = << >> THEN << >> ELSE Tail(part.live)

OperationKind ==
  [register |-> 1, grant |-> 2, fence |-> 3, revoke |-> 4, advance |-> 5, retire |-> 6]

IdempotencyFields(idem) ==
  [i \in DOMAIN idem |-> <<0, OperationKind[idem[i].sem.op], 0, 0, idem[i].value, 0, 0>>]

ParticipantFields(p, part) ==
  <<Named(p), part.regGen, part.fenceGen, part.floor, PolicyCode(part.policy), Flags(part),
    Active(part).boot, Active(part).seq, part.next,
    [i \in DOMAIN Extra(part) |-> <<Extra(part)[i].boot, Extra(part)[i].seq, 0>>],
    ScopeRows(part.scopes), 0, 0,
    [i \in DOMAIN part.ring |-> <<part.ring[i]>>],
    IdempotencyFields(part.idem)>>

FenceFields(f) == <<f.boot, Named(f.participant), 0, f.gen, f.epoch, f.inc, <<NoteSize, 0>>>>

GrantFields(g) ==
  <<g.id, g.epoch, Named(g.participant), g.boot, g.inc, ScopeRows(g.scopes), g.gen,
    Bit(g.parent # 0, 1) + Bit(g.parent # 0, 2) + Bit(g.revokedAt # 0, 4),
    g.parent, 0, g.revokedAt, <<NoteSize, 0>>>>

\* mutate_epoch gives every transition the provenance of the options.
TransitionFields(t) == <<0, t.from, t.to, 0, 0, t.gen, <<ProvenanceSize, 0>>>>

DurableFields(s) ==
  LET known == Ascending(Known(s))
  IN <<s.epoch, 0, s.gen, s.regFloor, s.fenceFloor,
       [i \in DOMAIN known |-> ParticipantFields(known[i], s.parts[known[i]])],
       [i \in DOMAIN s.fences |-> FenceFields(s.fences[i])],
       [i \in DOMAIN s.grants |-> GrantFields(s.grants[i])],
       [i \in DOMAIN s.transitions |-> TransitionFields(s.transitions[i])],
       IdempotencyFields(s.control)>>

-----------------------------------------------------------------------------
(* The image.  The digest behind the payload is left out: damage to images   *)
(* is a matter of EpochStore.tla.                                            *)

EncodeImage(s) == PutAll(DurablePayload, DurableFields(s))

\* The header declares the payload's length, and decode has a ceiling for it.
DecodeImage(payload) ==
  IF Size(payload) <= AbsoluteMaxPayload THEN Decode(DurablePayload, payload) ELSE Refused

\* Every image a save has published is one the next start decodes, to the
\* state that was saved: what encode writes for a state the runtime reached,
\* decode_durable_payload takes, in spite of its own ceilings on counts and
\* texts and of what it believes the smallest record of each kind to be.
ImageLoads ==
  DecodeImage(EncodeImage(disk)) = Got(DurableFields(disk), << >>)

-----------------------------------------------------------------------------
(* What peers are sent. *)

ViewFields(p, part) ==
  <<Named(p), part.regGen, part.fenceGen, part.floor, PolicyCode(part.policy), Flags(part),
    Active(part).boot, Active(part).seq,
    [i \in DOMAIN Extra(part) |-> <<Extra(part)[i].boot>>],
    ScopeRows(part.scopes), 0, 0>>

GrantViewFields(g) ==
  <<g.id, g.epoch, Named(g.participant), g.boot, g.gen,
    Bit(g.revokedAt # 0, 1), Bit(g.parent # 0, 1), ScopeRows(g.scopes)>>

\* The order of the fences in a snapshot.
FencePrecedes(f, g) ==
  \/ f.participant < g.participant
  \/ f.participant = g.participant /\ f.boot < g.boot
  \/ f.participant = g.participant /\ f.boot = g.boot /\ f.gen < g.gen

SortedFences(fences) ==
  CHOOSE sorted \in [DOMAIN fences -> {fences[i] : i \in DOMAIN fences}] :
    /\ \A i \in DOMAIN fences : \E j \in DOMAIN fences : sorted[j] = fences[i]
    /\ \A i, j \in DOMAIN fences : i < j => ~FencePrecedes(sorted[j], sorted[i])

\* build_snapshot.  Grant identifiers are random, so their order in a
\* snapshot is any; here it is the order of the grants.
SnapshotFields(s) ==
  LET known == Ascending(Known(s))
      fences == SortedFences(s.fences)
  IN <<0, s.epoch, 0, s.gen, s.regFloor, s.fenceFloor,
       [i \in DOMAIN known |-> ViewFields(known[i], s.parts[known[i]])],
       [i \in DOMAIN fences |-> FenceFields(fences[i])],
       [i \in DOMAIN s.grants |-> GrantViewFields(s.grants[i])],
       0>>

\* A payload that fits a frame is decoded to what was encoded.
Readable(layout, fields) ==
  LET payload == PutAll(layout, fields)
  IN Size(payload) <= MaxFramePayload => Decode(layout, payload) = Got(fields, << >>)

\* A peer with the coordinator's limits can read whatever the coordinator
\* shows of its state: no history of registrations, fences, grants and epochs
\* makes a participant view or a snapshot that its decoder refuses.
ShownIsReadable ==
  /\ Readable(W!Snapshot, SnapshotFields(mem))
  /\ \A p \in Known(mem) : Readable(W!ParticipantView, ViewFields(p, mem.parts[p]))

=============================================================================

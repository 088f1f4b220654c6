---------------------------- MODULE WireMessages ----------------------------
(***************************************************************************)
(* The messages of the wire protocol: which there are, which of them are   *)
(* requests, and how the payload of each is laid out, with the limits its  *)
(* decoder enforces.  A payload's encoder and its decoder are one layout;  *)
(* where they differ, in the codes the one can write and the other takes,  *)
(* in flags that are checked or ignored, in bounds that only the decoder   *)
(* has, the layout says so.  That both go through the fields in the same   *)
(* order is so not shown but assumed.                                      *)
(***************************************************************************)
EXTENDS ByteLayout

CONSTANTS
  MaxString,         \* limits.max_string_size
  MaxParticipants,   \* limits.max_participants
  MaxActiveWorkers,  \* limits.max_active_workers
  MaxRecentFences,   \* limits.max_recent_fences
  MaxGrants,         \* limits.max_authority_grants
  MaxScopes          \* limits.max_scopes_per_grant

-----------------------------------------------------------------------------
(* Codes, as the enumerations of the headers declare them. *)

ScopeKinds == 0..5
FenceReasons == 0..7
TransitionCauses == 0..3
IncarnationPolicies == 0..1
RegistrationOutcomes == 0..11
ValidationCodes == 0..9
Currentness == 0..6
FenceOutcomes == 0..7
RevokeOutcomes == 0..5
AdvanceOutcomes == 0..4
RetireOutcomes == 0..5
ExplanationCodes == 1..22

-----------------------------------------------------------------------------
(* Parts that several payloads share. *)

\* string(limits, max): a text is bounded by its own maximum and by
\* limits.max_string_size.
Bounded(min, max) == Text(min, IF max <= MaxString THEN max ELSE MaxString)

\* Identifiers are never empty and have at most 128 characters; one that was
\* never given a value is empty, and its encoder does not ask.
Name == Unchecked(Bounded(1, 128), {0})

Note == Text(0, MaxString)

Scope == <<Code(1, ScopeKinds, 0..5), Name>>

\* A fault of ScopeSet: a full set is refused.
ScopeSetNotFull == RisingRows(MaxScopes - 1, Scope)

\* encode_scope_set_canonical writes any number of scopes.
ScopeSet == Unchecked(RisingRows(MaxScopes, Scope), {MaxScopes + 1})

Policy == Code(1, IncarnationPolicies, 0..1)

\* A fault of Reason: the last reason was added after the decoder's bound.
ReasonBefore7 == Code(1, FenceReasons, 0..6)

Reason == Code(1, FenceReasons, 0..7)
Flag == Code(1, 0..1, 0..1)

\* A presence flag other than 0 and 1 is refused; only a registration request
\* also refuses a value whose flag is not set.
Optional(w) == Option(w, FALSE)

\* A fault of Explanation: the last code was added after the decoder's bound.
ExplanationBefore22 == <<Code(2, ExplanationCodes, 1..21), Rows(64, 0, <<Note, Note>>)>>

Explanation == <<Code(2, ExplanationCodes, 1..22), Rows(64, 0, <<Note, Note>>)>>

Token == <<Num(8), Name, Num(16), Num(8), Num(8)>>

ParticipantView ==
  <<Name, Num(8), Num(8), Num(8), Policy, Code(1, 0..7, 0..7), Num(16), Num(8),
    Rows(MaxActiveWorkers, 0, <<Num(16)>>), ScopeSet, Num(8), Num(8)>>

FenceView == <<Num(16), Name, Reason, Num(8), Num(8), Num(8), Note>>

GrantView == <<Num(16), Num(8), Name, Num(16), Num(8), Flag, Flag, ScopeSet>>

-----------------------------------------------------------------------------
(* Payloads. *)

\* The texts of the greeting and of its answer are bounded by their decoders
\* only.
Hello ==
  <<Code(2, {1}, {1}), Unchecked(Bounded(0, 64), {65}), Unchecked(Bounded(0, 32), {33})>>
HelloAck == <<Num(8), Num(16), Num(16), Unchecked(Bounded(0, 64), {65})>>

RegisterRequest ==
  <<Num(16), Num(8), Name, Num(16), ScopeSet, Policy, Option(8, TRUE), Note, Num(16)>>
RegisterResult ==
  <<Code(1, RegistrationOutcomes, 0..11), Num(8), Num(16), Optional(8), Optional(8), Flag>>
    \o Explanation

ValidateRequest == Token \o Scope \o <<Optional(8), Optional(16)>>
ValidateResult ==
  <<Code(1, ValidationCodes, 0..9), Code(1, Currentness, 0..6), Num(8), Num(16),
    Optional(8), Optional(8), Optional(8), Optional(16)>> \o Explanation

FenceRequest == <<Num(16), Num(8), Name, Num(16), Reason, Note>>
FenceResult == <<Code(1, FenceOutcomes, 0..7), Num(8), Optional(8), Optional(8)>> \o Explanation

RevokeRequest == <<Num(16), Num(8), Num(16), Reason, Note>>
RevokeResult == <<Code(1, RevokeOutcomes, 0..5), Num(8), Optional(8), Num(8)>> \o Explanation

AdvanceRequest == <<Num(16), Num(8), Code(1, TransitionCauses, 0..3), Note>>
AdvanceResult ==
  <<Code(1, AdvanceOutcomes, 0..4), Num(8), Num(16), Optional(16), Flag>> \o Explanation

RetireRequest == <<Num(16), Num(8), Name, Note>>
RetireResult == <<Code(1, RetireOutcomes, 0..5), Num(8), Num(8)>> \o Explanation

EpochState == <<Num(8), Num(16)>> \o [i \in 1..8 |-> Num(8)]

ExplainRequest == <<Name, Num(16)>>

\* The four reserved bytes of the requests that say nothing more; the server
\* refuses any but zeros.
Reserved == <<Code(4, {0}, {0})>>

Snapshot ==
  <<Num(16), Num(8), Num(16), Num(8), Num(8), Num(8),
    Rows(MaxParticipants, 0, ParticipantView),
    Rows(MaxRecentFences, 0, FenceView),
    Rows(MaxGrants, 0, GrantView),
    Num(32)>>

\* encode_error cuts the message to what the decoder takes.
Error == <<Num(2), Note>>

-----------------------------------------------------------------------------
(* Message types. *)

\* Every message type with its payload.
Payload ==
  [Hello |-> Hello, HelloAck |-> HelloAck,
   RegisterParticipant |-> RegisterRequest, RegisterAck |-> RegisterResult,
   FenceWorker |-> FenceRequest, FenceAck |-> FenceResult,
   ValidateAuthority |-> ValidateRequest, ValidateResult |-> ValidateResult,
   AdvanceEpoch |-> AdvanceRequest, AdvanceEpochAck |-> AdvanceResult,
   EpochStateRequest |-> Reserved, EpochStateResponse |-> EpochState,
   RevokeAuthority |-> RevokeRequest, RevokeAck |-> RevokeResult,
   QueryParticipant |-> <<Name>>, ParticipantState |-> ParticipantView,
   SnapshotRequest |-> Reserved, SnapshotResponse |-> Snapshot,
   ExplainRequest |-> ExplainRequest, ExplainResponse |-> Explanation,
   RetireParticipant |-> RetireRequest, RetireAck |-> RetireResult,
   Shutdown |-> Reserved, Error |-> Error]

\* The stable wire identifiers, in their order.
MessageTypes ==
  <<"Hello", "HelloAck", "RegisterParticipant", "RegisterAck", "FenceWorker", "FenceAck",
    "ValidateAuthority", "ValidateResult", "AdvanceEpoch", "EpochStateRequest",
    "EpochStateResponse", "RevokeAuthority", "RevokeAck", "QueryParticipant",
    "ParticipantState", "SnapshotRequest", "SnapshotResponse", "ExplainRequest",
    "ExplainResponse", "Shutdown", "Error", "AdvanceEpochAck", "RetireParticipant", "RetireAck">>

\* The answer serve writes to each request; a shutdown is not answered.
AnswerTo ==
  [Hello |-> "HelloAck", RegisterParticipant |-> "RegisterAck", FenceWorker |-> "FenceAck",
   ValidateAuthority |-> "ValidateResult", AdvanceEpoch |-> "AdvanceEpochAck",
   EpochStateRequest |-> "EpochStateResponse", RevokeAuthority |-> "RevokeAck",
   QueryParticipant |-> "ParticipantState", SnapshotRequest |-> "SnapshotResponse",
   ExplainRequest |-> "ExplainResponse", RetireParticipant |-> "RetireAck"]

\* is_request_message: the types bounded by limits.max_request_size too.
Requests == DOMAIN AnswerTo

=============================================================================

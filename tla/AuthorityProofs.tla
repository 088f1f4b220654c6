--------------------------- MODULE AuthorityProofs ---------------------------
(***************************************************************************)
(* What each operation of the coordinator does to a sound state: it leaves *)
(* one, which durable validation accepts, and it loses no history.         *)
(*                                                                         *)
(* Sound is the inductive part of the argument about incarnations, fences  *)
(* and grants: durable validation itself (Valid) neither keeps a recent    *)
(* fence and a current incarnation apart, nor bounds the incarnations of a *)
(* single-incarnation participant, nor follows a delegation to its parent. *)
(***************************************************************************)
EXTENDS RuntimeProofs

\* Every registration is a call of its own, and no boot is presented for two
\* participants.  (MCBatch shows what a batch does to FencedNotLive; durable
\* validation refuses an image in which a boot is current for two.)
OneByOne ==
  /\ Batched = {}
  /\ \A d, e \in Deployment : d[2] = e[2] => d[1] = e[1]

\* The record of participant p is as the operations keep it: a store without
\* it has nothing of it, a retired one has no incarnation, and the current
\* incarnations are deployed boots with their own sequences below the
\* allocator, none of them in the ring of fenced boots.
PartSound(s, p) ==
  LET part == s.parts[p] IN
  /\ part.status = "unknown" => part = FreshParticipant
  /\ part.status = "retired" => part.live = << >>
  /\ part.regGen <= s.regFloor
  /\ part.fenceGen <= s.fenceFloor
  /\ part.floor < part.next
  /\ part.policy = "single" => Len(part.live) <= 1
  /\ \A i \in DOMAIN part.live :
       /\ <<p, part.live[i].boot>> \in Deployment
       /\ 1 <= part.live[i].seq /\ part.live[i].seq < part.next
       /\ \A j \in DOMAIN part.ring : part.ring[j] # part.live[i].boot
       /\ \A j \in DOMAIN part.live :
            part.live[i].boot = part.live[j].boot \/ part.live[i].seq = part.live[j].seq
              => i = j
  /\ Distinct(part.ring)
  /\ DistinctAttempts(part.idem)

\* The recent fences are of known participants, at most one per boot, and none
\* of a current incarnation.
FencesSound(s) ==
  /\ \A i \in DOMAIN s.fences :
       LET f == s.fences[i] IN
       /\ f.gen <= s.fenceFloor
       /\ f.epoch <= s.epoch
       /\ s.parts[f.participant].status # "unknown"
       /\ ~IsLive(s.parts[f.participant], f.boot)
  /\ \A i, j \in DOMAIN s.fences :
       /\ s.fences[i].participant = s.fences[j].participant
       /\ s.fences[i].boot = s.fences[j].boot
       => i = j

\* A delegated grant is within its parent and is revoked with it.
Delegated(s) ==
  \A i \in DOMAIN s.grants :
    s.grants[i].parent # 0 =>
      \E j \in GrantAt(s, s.grants[i].parent) :
        /\ s.grants[i].scopes \subseteq s.grants[j].scopes
        /\ s.grants[i].epoch = s.grants[j].epoch
        /\ Revoked(s.grants[j]) => Revoked(s.grants[i])

Sound(s) ==
  /\ Wf(s)
  /\ \A p \in Participants : PartSound(s, p)
  /\ FencesSound(s)
  /\ ValidGrants(s)
  /\ Delegated(s)
  /\ ValidTransitions(s)
  /\ ValidControl(s)

\* Participant p loses no history from s to t, and its current incarnations in
\* t were current in s, in the same epoch, or have new sequences.
PartFollows(s, t, p) ==
  LET old == s.parts[p]
      new == t.parts[p]
  IN /\ old.status # "unknown" => new.status # "unknown"
     /\ old.status = "retired" => new.status = "retired"
     /\ new.floor >= old.floor
     /\ new.next >= old.next
     /\ new.regGen >= old.regGen
     /\ new.fenceGen >= old.fenceGen
     /\ \A i \in DOMAIN new.live :
          \/ new.live[i].seq >= old.next
          \/ t.epoch = s.epoch /\ \E j \in DOMAIN old.live : old.live[j] = new.live[i]

\* No grant of s is forgotten or un-revoked in t.
GrantsFollow(s, t) ==
  \A i \in DOMAIN s.grants :
    /\ i \in DOMAIN t.grants
    /\ t.grants[i].id = s.grants[i].id
    /\ Revoked(s.grants[i]) => Revoked(t.grants[i])

\* State t is a later one than s.
Follows(s, t) ==
  /\ t.epoch >= s.epoch
  /\ \A p \in Participants : PartFollows(s, t, p)
  /\ GrantsFollow(s, t)

-----------------------------------------------------------------------------
(* Tables. *)

\* How many entries a bounded table drops.
Dropped(seq, max) == IF Len(seq) > max THEN Len(seq) - max ELSE 0

\* What a bounded table keeps are entries of it, in their order.
LEMMA RetainedEntries ==
  ASSUME NEW S, NEW seq \in Seq(S), NEW max \in Nat \ {0}
  PROVE  /\ DOMAIN Retain(seq, max) \subseteq Nat
         /\ Dropped(seq, max) \in Nat
         /\ \A j \in DOMAIN Retain(seq, max) :
              /\ j + Dropped(seq, max) \in DOMAIN seq
              /\ Retain(seq, max)[j] = seq[j + Dropped(seq, max)]
<1>1. DOMAIN seq = 1..Len(seq) /\ Len(seq) \in Nat
  OBVIOUS
<1>2. CASE Len(seq) > max
  <2> DEFINE off == Len(seq) - max
             new == SubSeq(seq, off + 1, Len(seq))
  <2>1. Retain(seq, max) = new /\ off \in Nat /\ Dropped(seq, max) = off
    BY <1>1, <1>2 DEF Retain, Dropped
  <2>2. DOMAIN new = 1..max /\ \A j \in 1..max : new[j] = seq[j + off]
    BY <1>1, <1>2
  <2>3. \A j \in 1..max : j + off \in 1..Len(seq)
    BY <1>1, <1>2
  <2>4. 1..max \subseteq Nat
    OBVIOUS
  <2> HIDE DEF off, new
  <2> QED
    BY <1>1, <2>1, <2>2, <2>3, <2>4
<1>3. CASE ~(Len(seq) > max)
  <2>1. Retain(seq, max) = seq /\ Dropped(seq, max) = 0
    BY <1>3 DEF Retain, Dropped
  <2>2. \A j \in DOMAIN seq : j \in Nat /\ j + 0 = j
    BY <1>1
  <2> QED
    BY <1>1, <2>1, <2>2
<1> QED
  BY <1>2, <1>3

\* What an append to a bounded table leaves: entries it had, in their order,
\* and the new one.
LEMMA RetainedAppend ==
  ASSUME NEW S, NEW seq \in Seq(S), NEW x \in S, NEW max \in Nat \ {0},
         NEW new, new = Retain(Append(seq, x), max),
         NEW off, off = Dropped(Append(seq, x), max)
  PROVE  /\ DOMAIN new \subseteq Nat /\ off \in Nat
         /\ \A j \in DOMAIN new :
              \/ j + off \in DOMAIN seq /\ new[j] = seq[j + off]
              \/ j + off = Len(seq) + 1 /\ new[j] = x
<1> DEFINE app == Append(seq, x)
<1>1. app \in Seq(S)
  OBVIOUS
<1>2. \A j \in DOMAIN app : \/ j \in DOMAIN seq /\ app[j] = seq[j]
                            \/ j = Len(seq) + 1 /\ app[j] = x
  OBVIOUS
<1> HIDE DEF app
<1>3. /\ DOMAIN new \subseteq Nat /\ off \in Nat
      /\ \A j \in DOMAIN new : j + off \in DOMAIN app /\ new[j] = app[j + off]
  BY <1>1, RetainedEntries DEF app
<1> QED
  BY <1>2, <1>3

\* The same of several entries appended at once.
LEMMA RetainedConcat ==
  ASSUME NEW S, NEW seq \in Seq(S), NEW ext \in Seq(S), NEW max \in Nat \ {0},
         NEW new, new = Retain(seq \o ext, max),
         NEW off, off = Dropped(seq \o ext, max)
  PROVE  /\ DOMAIN new \subseteq Nat /\ off \in Nat
         /\ \A j \in DOMAIN new :
              \/ j + off \in DOMAIN seq /\ new[j] = seq[j + off]
              \/ j + off - Len(seq) \in DOMAIN ext /\ new[j] = ext[j + off - Len(seq)]
<1> DEFINE app == seq \o ext
<1>1. app \in Seq(S)
  OBVIOUS
<1>2. \A j \in DOMAIN app : \/ j \in DOMAIN seq /\ app[j] = seq[j]
                            \/ j - Len(seq) \in DOMAIN ext /\ app[j] = ext[j - Len(seq)]
  OBVIOUS
<1> HIDE DEF app
<1>3. /\ DOMAIN new \subseteq Nat /\ off \in Nat
      /\ \A j \in DOMAIN new : j + off \in DOMAIN app /\ new[j] = app[j + off]
  BY <1>1, RetainedEntries DEF app
<1> QED
  BY <1>2, <1>3

\* A new boot in the ring keeps the ring free of repetitions.
LEMMA RingAppend ==
  ASSUME NEW ring \in Seq(Boots), NEW b \in Boots, Distinct(ring),
         \A j \in DOMAIN ring : ring[j] # b,
         NEW new, new = Retain(Append(ring, b), MaxFencedBoots)
  PROVE  /\ Distinct(new)
         /\ \A j \in DOMAIN new : new[j] = b \/ \E i \in DOMAIN ring : ring[i] = new[j]
<1> DEFINE off == Dropped(Append(ring, b), MaxFencedBoots)
<1>1. /\ DOMAIN new \subseteq Nat /\ off \in Nat
      /\ \A j \in DOMAIN new :
           \/ j + off \in DOMAIN ring /\ new[j] = ring[j + off]
           \/ j + off = Len(ring) + 1 /\ new[j] = b
  BY RetainedAppend, LimitAssumption
<1> HIDE DEF off
<1>2. Distinct(new)
  BY <1>1 DEF Distinct
<1> QED
  BY <1>1, <1>2

\* A new attempt in an idempotency table keeps the attempts distinct; every
\* other record was there before.
LEMMA RememberDistinct ==
  ASSUME NEW table \in Seq(IdempotencyRecords), NEW a \in Attempts, NEW d \in Digests,
         NEW v \in Nat, DistinctAttempts(table), ~Attempted(table, a),
         NEW new, new = Remember(table, a, d, v)
  PROVE  /\ DistinctAttempts(new)
         /\ \A j \in DOMAIN new : \/ new[j] = [attempt |-> a, sem |-> d, value |-> v]
                                  \/ \E i \in DOMAIN table : table[i] = new[j]
<1> DEFINE rec == [attempt |-> a, sem |-> d, value |-> v]
           off == Dropped(Append(table, rec), MaxIdempotency)
<1>1. rec \in IdempotencyRecords /\ rec.attempt = a
  BY DEF IdempotencyRecords
<1> HIDE DEF rec
<1>2. new = Retain(Append(table, rec), MaxIdempotency)
  BY DEF Remember, rec
<1>3. /\ DOMAIN new \subseteq Nat /\ off \in Nat
      /\ \A j \in DOMAIN new :
           \/ j + off \in DOMAIN table /\ new[j] = table[j + off]
           \/ j + off = Len(table) + 1 /\ new[j] = rec
  BY <1>1, <1>2, RetainedAppend, LimitAssumption
<1> HIDE DEF off
<1>4. DistinctAttempts(new)
  BY <1>1, <1>3 DEF DistinctAttempts, Attempted
<1> QED
  BY <1>3, <1>4 DEF rec

\* Taking one entry out of a sequence leaves the others, each once.
LEMMA WithoutEntries ==
  ASSUME NEW S, NEW seq \in Seq(S), NEW i \in DOMAIN seq
  PROVE  /\ Without(seq, i) \in Seq(S)
         /\ Len(Without(seq, i)) = Len(seq) - 1
         /\ \A j \in DOMAIN Without(seq, i) :
              \E k \in DOMAIN seq : /\ k # i
                                    /\ k = (IF j < i THEN j ELSE j + 1)
                                    /\ Without(seq, i)[j] = seq[k]
<1>1. Len(seq) \in Nat /\ DOMAIN seq = 1..Len(seq) /\ i \in 1..Len(seq) /\ Len(seq) - 1 \in Nat
  OBVIOUS
<1>2. Without(seq, i) = [j \in 1..(Len(seq) - 1) |-> IF j < i THEN seq[j] ELSE seq[j + 1]]
  BY DEF Without
<1>3. Without(seq, i) \in Seq(S)
  BY WithoutType
<1>4. DOMAIN Without(seq, i) = 1..(Len(seq) - 1)
  BY <1>2
<1>5. Len(Without(seq, i)) = Len(seq) - 1
  <2> HIDE DEF Without
  <2>1. \A q \in Seq(S) : \A n \in Nat : DOMAIN q = 1..n => Len(q) = n
    OBVIOUS
  <2> QED
    BY <1>1, <1>3, <1>4, <2>1
<1>6. \A j \in DOMAIN Without(seq, i) :
        \E k \in DOMAIN seq : /\ k # i
                              /\ k = (IF j < i THEN j ELSE j + 1)
                              /\ Without(seq, i)[j] = seq[k]
  BY <1>1, <1>2, <1>4
<1> QED
  BY <1>3, <1>5, <1>6

-----------------------------------------------------------------------------
(* Sound states. *)

\* The fields of a well-formed state are of their kinds.
LEMMA StateFields ==
  ASSUME NEW s, Wf(s)
  PROVE  /\ s.epoch \in Nat /\ s.gen \in Nat /\ s.regFloor \in Nat /\ s.fenceFloor \in Nat
         /\ s.parts \in [Participants -> ParticipantRecords]
         /\ s.fences \in Seq(FenceRecords) /\ s.grants \in Seq(GrantRecords)
         /\ s.transitions \in Seq(TransitionRecords)
         /\ s.control \in Seq(IdempotencyRecords)
  BY DEF Wf, States

\* The fields of a participant are of their kinds.
LEMMA PartFields ==
  ASSUME NEW s, Wf(s), NEW p \in Participants
  PROVE  /\ s.parts[p] \in ParticipantRecords
         /\ s.parts[p].status \in {"unknown", "registered", "retired"}
         /\ s.parts[p].regGen \in Nat /\ s.parts[p].fenceGen \in Nat
         /\ s.parts[p].floor \in Nat /\ s.parts[p].next \in Nat
         /\ s.parts[p].live \in Seq(Incarnations)
         /\ s.parts[p].ring \in Seq(Boots)
         /\ s.parts[p].idem \in Seq(IdempotencyRecords)
         /\ \A i \in DOMAIN s.parts[p].live : /\ s.parts[p].live[i].boot \in Boots
                                              /\ s.parts[p].live[i].seq \in Nat
<1>1. s.parts[p] \in ParticipantRecords
  BY StateFields
<1>2. s.parts[p].live \in Seq(Incarnations)
  BY <1>1 DEF ParticipantRecords
<1>3. \A i \in DOMAIN s.parts[p].live : s.parts[p].live[i] \in Incarnations
  BY <1>2
<1> QED
  BY <1>1, <1>3 DEF ParticipantRecords, Incarnations

\* In a sound state no retained fence names a current incarnation.
LEMMA SoundIsFenced ==
  ASSUME NEW s, Sound(s)
  PROVE  NoFencedLive(s)
<1> SUFFICES ASSUME NEW p \in Participants, NEW i \in DOMAIN s.parts[p].live,
                    LookupFence(s, p, s.parts[p].live[i].boot)
             PROVE  FALSE
  BY DEF NoFencedLive
<1> DEFINE b == s.parts[p].live[i].boot
<1>1. IsLive(s.parts[p], b)
  BY DEF IsLive
<1>2. \/ \E j \in DOMAIN s.fences : s.fences[j].boot = b /\ s.fences[j].participant = p
      \/ \E j \in DOMAIN s.parts[p].ring : s.parts[p].ring[j] = b
  BY DEF LookupFence, LookupFenceIn
<1>3. ~(\E j \in DOMAIN s.fences : s.fences[j].boot = b /\ s.fences[j].participant = p)
  BY <1>1 DEF Sound, FencesSound
<1>4. ~(\E j \in DOMAIN s.parts[p].ring : s.parts[p].ring[j] = b)
  BY DEF Sound, PartSound
<1> QED
  BY <1>2, <1>3, <1>4

\* Durable validation accepts a sound state of an established store, when no
\* boot is presented for two participants.
LEMMA SoundIsValid ==
  ASSUME NEW s, Sound(s), s.epoch # 0, OneByOne
  PROVE  Valid(s)
<1>1. ASSUME NEW p \in Participants PROVE ValidParticipant(s, s.parts[p])
  <2>1. PartSound(s, p)
    BY DEF Sound
  <2>2. /\ s.parts[p].floor \in Nat /\ s.parts[p].next \in Nat
    BY PartFields DEF Sound
  <2> QED
    BY <2>1, <2>2 DEF PartSound, ValidParticipant
<1>2. OneOwnerPerBoot(s)
  <2> SUFFICES ASSUME NEW p \in Participants, NEW q \in Participants,
                      NEW i \in DOMAIN s.parts[p].live, NEW j \in DOMAIN s.parts[q].live,
                      s.parts[p].live[i].boot = s.parts[q].live[j].boot
               PROVE  p = q
    BY DEF OneOwnerPerBoot
  <2>1. /\ <<p, s.parts[p].live[i].boot>> \in Deployment
        /\ <<q, s.parts[q].live[j].boot>> \in Deployment
    BY DEF Sound, PartSound
  <2> QED
    BY <2>1 DEF OneByOne
<1>3. ValidFences(s)
  BY DEF Sound, FencesSound, ValidFences
<1> QED
  BY <1>1, <1>2, <1>3 DEF Valid, Known, Sound

\* The state of a store that was never established is sound.
LEMMA InitialIsSound == Sound(InitialState)
<1>1. Wf(InitialState)
  BY InitialType
<1>2. \A p \in Participants : InitialState.parts[p] = FreshParticipant
  BY DEF InitialState
<1>3. \A p \in Participants : PartSound(InitialState, p)
  BY <1>2 DEF PartSound, FreshParticipant, InitialState, Distinct, DistinctAttempts
<1>4. FencesSound(InitialState)
  BY DEF InitialState, FencesSound
<1>5. ValidGrants(InitialState) /\ Delegated(InitialState)
  BY DEF InitialState, ValidGrants, Delegated
<1>6. ValidTransitions(InitialState) /\ ValidControl(InitialState)
  BY DEF InitialState, ValidTransitions, ValidControl, DistinctAttempts
<1> QED
  BY <1>1, <1>3, <1>4, <1>5, <1>6 DEF Sound

\* Every well-formed state follows itself.
LEMMA FollowsItself ==
  ASSUME NEW s, Wf(s)
  PROVE  Follows(s, s)
<1>1. \A p \in Participants : PartFollows(s, s, p)
  BY PartFields DEF PartFollows
<1>2. GrantsFollow(s, s)
  BY DEF GrantsFollow
<1> QED
  BY <1>1, <1>2, StateFields DEF Follows

\* What follows a later state follows the earlier one.
LEMMA FollowsThrough ==
  ASSUME NEW s, NEW t, NEW u, Wf(s), Wf(t), Wf(u), Follows(s, t), Follows(t, u)
  PROVE  Follows(s, u)
<1>1. s.epoch \in Nat /\ t.epoch \in Nat /\ u.epoch \in Nat
  BY StateFields
<1>2. t.epoch >= s.epoch /\ u.epoch >= t.epoch
  BY DEF Follows
<1>3. ASSUME NEW p \in Participants PROVE PartFollows(s, u, p)
  <2>1. PartFollows(s, t, p) /\ PartFollows(t, u, p)
    BY DEF Follows
  <2>2. /\ s.parts[p].next \in Nat /\ t.parts[p].next \in Nat /\ u.parts[p].next \in Nat
        /\ s.parts[p].floor \in Nat /\ t.parts[p].floor \in Nat /\ u.parts[p].floor \in Nat
        /\ s.parts[p].regGen \in Nat /\ t.parts[p].regGen \in Nat /\ u.parts[p].regGen \in Nat
        /\ s.parts[p].fenceGen \in Nat /\ t.parts[p].fenceGen \in Nat
        /\ u.parts[p].fenceGen \in Nat
        /\ \A i \in DOMAIN u.parts[p].live : u.parts[p].live[i].seq \in Nat
        /\ \A i \in DOMAIN t.parts[p].live : t.parts[p].live[i].seq \in Nat
    BY PartFields
  <2>3. ASSUME NEW i \in DOMAIN u.parts[p].live
        PROVE  \/ u.parts[p].live[i].seq >= s.parts[p].next
               \/ /\ u.epoch = s.epoch
                  /\ \E j \in DOMAIN s.parts[p].live : s.parts[p].live[j] = u.parts[p].live[i]
    <3>1. CASE u.parts[p].live[i].seq >= t.parts[p].next
      BY <2>1, <2>2, <3>1 DEF PartFollows
    <3>2. CASE /\ u.epoch = t.epoch
               /\ \E j \in DOMAIN t.parts[p].live : t.parts[p].live[j] = u.parts[p].live[i]
      <4>1. PICK j \in DOMAIN t.parts[p].live : t.parts[p].live[j] = u.parts[p].live[i]
        BY <3>2
      <4> QED
        BY <2>1, <3>2, <4>1 DEF PartFollows
    <3> QED
      BY <2>1, <3>1, <3>2 DEF PartFollows
  <2> QED
    BY <2>1, <2>2, <2>3 DEF PartFollows
<1>4. GrantsFollow(s, u)
  BY DEF Follows, GrantsFollow
<1> QED
  BY <1>1, <1>2, <1>3, <1>4 DEF Follows

\* An operation that changes one participant and the fences leaves a sound and
\* later state when it does so for the participant and the fences.
LEMMA PartChange ==
  ASSUME NEW s, Sound(s), NEW t, Wf(t), NEW p \in Participants,
         t.epoch = s.epoch, t.grants = s.grants, t.transitions = s.transitions,
         t.control = s.control, t.gen >= s.gen, t.regFloor >= s.regFloor,
         t.fenceFloor >= s.fenceFloor,
         \A q \in Participants : q # p => t.parts[q] = s.parts[q],
         PartSound(t, p), FencesSound(t), PartFollows(s, t, p)
  PROVE  Sound(t) /\ Follows(s, t)
<1>1. Wf(s)
  BY DEF Sound
<1>2. /\ s.gen \in Nat /\ t.gen \in Nat /\ s.regFloor \in Nat /\ t.regFloor \in Nat
      /\ s.fenceFloor \in Nat /\ t.fenceFloor \in Nat /\ s.epoch \in Nat
  BY <1>1, StateFields
<1>3. ASSUME NEW q \in Participants, q # p PROVE PartSound(t, q) /\ PartFollows(s, t, q)
  <2>1. PartSound(s, q) /\ t.parts[q] = s.parts[q]
    BY <1>3 DEF Sound
  <2>2. s.parts[q].regGen \in Nat /\ s.parts[q].fenceGen \in Nat /\ s.parts[q].next \in Nat
        /\ s.parts[q].floor \in Nat
    BY <1>1, PartFields
  <2>3. s.parts[q].regGen <= t.regFloor /\ s.parts[q].fenceGen <= t.fenceFloor
    <3>1. s.parts[q].regGen <= s.regFloor /\ s.parts[q].fenceGen <= s.fenceFloor
      BY <2>1 DEF PartSound
    <3> QED
      BY <1>2, <2>2, <3>1
  <2>4. PartSound(t, q)
    BY <2>1, <2>3 DEF PartSound
  <2> QED
    BY <2>1, <2>2, <2>4 DEF PartFollows
<1>4. ValidGrants(t) /\ Delegated(t)
  BY DEF Sound, ValidGrants, Delegated, GrantAt
<1>5. ValidTransitions(t)
  <2>1. Len(s.transitions) \in Nat
    BY <1>1, StateFields
  <2> QED
    BY <1>2, <2>1 DEF Sound, ValidTransitions
<1>6. ValidControl(t)
  BY DEF Sound, ValidControl
<1>7. GrantsFollow(s, t)
  BY DEF GrantsFollow
<1> QED
  BY <1>2, <1>3, <1>4, <1>5, <1>6, <1>7 DEF Sound, Follows

-----------------------------------------------------------------------------
(* Fencing. *)

\* What fencing a current incarnation changes.
LEMMA FenceIncarnationShape ==
  ASSUME NEW s, Wf(s), NEW p \in Participants, NEW b \in Boots,
         NEW t, t = FenceIncarnation(s, p, b)
  PROVE  /\ t.epoch = s.epoch /\ t.gen = s.gen + 1 /\ t.regFloor = s.regFloor
         /\ t.fenceFloor = s.fenceFloor + 1 /\ t.grants = s.grants
         /\ t.transitions = s.transitions /\ t.control = s.control
         /\ \A q \in Participants : q # p => t.parts[q] = s.parts[q]
         /\ t.parts[p].status = s.parts[p].status
         /\ t.parts[p].regGen = s.parts[p].regGen
         /\ t.parts[p].next = s.parts[p].next
         /\ t.parts[p].policy = s.parts[p].policy
         /\ t.parts[p].idem = s.parts[p].idem
         /\ t.parts[p].fenceGen = s.fenceFloor + 1
         /\ t.parts[p].floor = MaxOf(s.parts[p].floor,
                                     s.parts[p].live[Position(s.parts[p], b)].seq)
         /\ t.parts[p].live = Without(s.parts[p].live, Position(s.parts[p], b))
         /\ t.parts[p].ring = Retain(Append(s.parts[p].ring, b), MaxFencedBoots)
         /\ t.fences =
              Retain(Append(s.fences,
                            [boot |-> b, participant |-> p, gen |-> s.fenceFloor + 1,
                             epoch |-> s.epoch,
                             inc |-> s.parts[p].live[Position(s.parts[p], b)].seq]),
                     MaxRecentFences)
<1> DEFINE part == s.parts[p]
           live == Without(part.live, Position(part, b))
           floor == MaxOf(part.floor, part.live[Position(part, b)].seq)
           ring == Retain(Append(part.ring, b), MaxFencedBoots)
           g == s.fenceFloor + 1
           fences == Retain(Append(s.fences,
                            [boot |-> b, participant |-> p, gen |-> g,
                             epoch |-> s.epoch, inc |-> part.live[Position(part, b)].seq]),
                     MaxRecentFences)
           new == [part EXCEPT !.live = live, !.floor = floor, !.fenceGen = g, !.ring = ring]
<1>1. t = [s EXCEPT !.gen = s.gen + 1, !.fenceFloor = g,
                    !.parts = [s.parts EXCEPT ![p] = new], !.fences = fences]
  BY DEF FenceIncarnation
<1>2. part \in ParticipantRecords /\ s \in States
  BY PartFields DEF Wf
<1> HIDE DEF live, floor, ring, fences, g, part
<1>3. /\ new.status = part.status /\ new.regGen = part.regGen /\ new.next = part.next
      /\ new.policy = part.policy /\ new.idem = part.idem /\ new.fenceGen = g
      /\ new.floor = floor /\ new.live = live /\ new.ring = ring
  BY <1>2 DEF ParticipantRecords
<1> HIDE DEF new
<1>4. /\ t.epoch = s.epoch /\ t.gen = s.gen + 1 /\ t.regFloor = s.regFloor
      /\ t.fenceFloor = g /\ t.grants = s.grants
      /\ t.transitions = s.transitions /\ t.control = s.control
      /\ t.fences = fences /\ t.parts = [s.parts EXCEPT ![p] = new]
  BY <1>1, <1>2 DEF States
<1>5. t.parts[p] = new /\ \A q \in Participants : q # p => t.parts[q] = s.parts[q]
  BY <1>2, <1>4 DEF States
<1> QED
  BY <1>3, <1>4, <1>5 DEF live, floor, ring, fences, g, part

\* A fence takes the boot out of the current incarnations and leaves the
\* others.
LEMMA FencedLive ==
  ASSUME NEW part \in ParticipantRecords, NEW b, IsLive(part, b),
         \A i, j \in DOMAIN part.live : part.live[i].boot = part.live[j].boot => i = j,
         NEW live, live = Without(part.live, Position(part, b))
  PROVE  /\ Len(live) = Len(part.live) - 1
         /\ \A j \in DOMAIN live :
              LET k == IF j < Position(part, b) THEN j ELSE j + 1 IN
              k \in DOMAIN part.live /\ live[j] = part.live[k] /\ live[j].boot # b
         /\ DOMAIN live \subseteq Nat
<1> DEFINE at == Position(part, b)
<1>1. at \in DOMAIN part.live /\ part.live[at].boot = b
  BY PositionType
<1>2. part.live \in Seq(Incarnations)
  BY DEF ParticipantRecords
<1>3. /\ live \in Seq(Incarnations)
      /\ Len(live) = Len(part.live) - 1
      /\ \A j \in DOMAIN live :
           \E k \in DOMAIN part.live : /\ k # at
                                       /\ k = (IF j < at THEN j ELSE j + 1)
                                       /\ live[j] = part.live[k]
  BY <1>1, <1>2, WithoutEntries
<1> HIDE DEF at
<1>4. DOMAIN live \subseteq Nat
  BY <1>3
<1> QED
  BY <1>1, <1>3, <1>4 DEF at

\* Fencing a current incarnation of a sound state leaves a sound, later one in
\* which the boot is not current.
LEMMA FenceIncarnationSound ==
  ASSUME NEW s, Sound(s), NEW p \in Participants, NEW b \in Boots, IsLive(s.parts[p], b),
         NEW t, t = FenceIncarnation(s, p, b)
  PROVE  /\ Sound(t) /\ Follows(s, t)
         /\ ~IsLive(t.parts[p], b)
         /\ t.parts[p].status = s.parts[p].status
         /\ t.parts[p].policy = s.parts[p].policy
         /\ t.parts[p].idem = s.parts[p].idem
         /\ t.parts[p].next = s.parts[p].next
         /\ Len(t.parts[p].live) = Len(s.parts[p].live) - 1
         /\ \A i \in DOMAIN t.parts[p].ring :
              \/ t.parts[p].ring[i] = b
              \/ \E j \in DOMAIN s.parts[p].ring : s.parts[p].ring[j] = t.parts[p].ring[i]
         /\ \A i \in DOMAIN t.fences :
              \/ t.fences[i].participant = p /\ t.fences[i].boot = b
              \/ \E j \in DOMAIN s.fences : s.fences[j] = t.fences[i]
<1> DEFINE old == s.parts[p]
           new == t.parts[p]
           at == Position(old, b)
           fence == [boot |-> b, participant |-> p, gen |-> s.fenceFloor + 1,
                     epoch |-> s.epoch, inc |-> old.live[at].seq]
           off == Dropped(Append(s.fences, fence), MaxRecentFences)
           From(j) == IF j < at THEN j ELSE j + 1
<1>1. Wf(s) /\ Wf(t)
  BY FenceIncarnationType DEF Sound
<1>a. /\ t.epoch = s.epoch /\ t.gen = s.gen + 1 /\ t.regFloor = s.regFloor
      /\ t.fenceFloor = s.fenceFloor + 1 /\ t.grants = s.grants
      /\ t.transitions = s.transitions /\ t.control = s.control
      /\ \A q \in Participants : q # p => t.parts[q] = s.parts[q]
      /\ new.status = old.status /\ new.regGen = old.regGen /\ new.next = old.next
      /\ new.policy = old.policy /\ new.idem = old.idem
      /\ new.fenceGen = s.fenceFloor + 1
      /\ new.floor = MaxOf(old.floor, old.live[at].seq)
      /\ new.live = Without(old.live, at)
      /\ new.ring = Retain(Append(old.ring, b), MaxFencedBoots)
      /\ t.fences = Retain(Append(s.fences, fence), MaxRecentFences)
  BY <1>1, FenceIncarnationShape
<1>2. /\ t.epoch = s.epoch /\ t.gen = s.gen + 1 /\ t.regFloor = s.regFloor
      /\ t.fenceFloor = s.fenceFloor + 1 /\ t.grants = s.grants
      /\ t.transitions = s.transitions /\ t.control = s.control
      /\ \A q \in Participants : q # p => t.parts[q] = s.parts[q]
  <2> HIDE DEF old, new, at, fence
  <2> QED
    BY <1>a
<1>3. /\ new.status = old.status /\ new.regGen = old.regGen /\ new.next = old.next
      /\ new.policy = old.policy /\ new.idem = old.idem
      /\ new.fenceGen = s.fenceFloor + 1
      /\ new.floor = MaxOf(old.floor, old.live[at].seq)
  <2> HIDE DEF old, new, at, fence
  <2> QED
    BY <1>a
<1>4. /\ new.live = Without(old.live, at)
      /\ new.ring = Retain(Append(old.ring, b), MaxFencedBoots)
      /\ t.fences = Retain(Append(s.fences, fence), MaxRecentFences)
  <2> HIDE DEF old, new, at, fence
  <2> QED
    BY <1>a
<1>5. /\ old \in ParticipantRecords
      /\ old.ring \in Seq(Boots) /\ old.live \in Seq(Incarnations) /\ Len(old.live) \in Nat
      /\ s.fences \in Seq(FenceRecords)
  BY <1>1, PartFields, StateFields
<1>6. /\ old.regGen \in Nat /\ old.fenceGen \in Nat /\ old.floor \in Nat /\ old.next \in Nat
      /\ s.fenceFloor \in Nat /\ s.gen \in Nat /\ s.regFloor \in Nat /\ s.epoch \in Nat
      /\ \A i \in DOMAIN old.live : old.live[i].seq \in Nat
  BY <1>1, PartFields, StateFields
<1>7. at \in DOMAIN old.live /\ old.live[at].boot = b
  BY <1>5, PositionType
<1>8. FencesSound(s) /\ PartSound(s, p)
  BY DEF Sound
<1>9. \A i \in DOMAIN old.live :
           /\ <<p, old.live[i].boot>> \in Deployment
           /\ 1 <= old.live[i].seq /\ old.live[i].seq < old.next
           /\ \A j \in DOMAIN old.ring : old.ring[j] # old.live[i].boot
  BY <1>8 DEF PartSound
<1>10. \A i, j \in DOMAIN old.live :
         old.live[i].boot = old.live[j].boot \/ old.live[i].seq = old.live[j].seq => i = j
  BY <1>8 DEF PartSound
<1>11. /\ Distinct(old.ring) /\ DistinctAttempts(old.idem)
       /\ old.regGen <= s.regFloor /\ old.fenceGen <= s.fenceFloor
       /\ old.floor < old.next
       /\ old.policy = "single" => Len(old.live) <= 1
  BY <1>8 DEF PartSound
<1>12. old.status = "registered"
  <2>1. old.live # << >>
    BY <1>7
  <2>2. FreshParticipant.live = << >>
    BY DEF FreshParticipant
  <2>3. /\ old.status = "unknown" => old = FreshParticipant
        /\ old.status = "retired" => old.live = << >>
    BY <1>8 DEF PartSound
  <2>4. old.status \in {"unknown", "registered", "retired"}
    BY <1>1, PartFields
  <2> HIDE DEF old
  <2> QED
    BY <2>1, <2>2, <2>3, <2>4
<1>13. fence \in FenceRecords /\ fence.boot = b /\ fence.participant = p
       /\ fence.gen = s.fenceFloor + 1 /\ fence.epoch = s.epoch
  BY <1>6, <1>7 DEF FenceRecords
<1> HIDE DEF old, new, at, fence
<1>14. /\ Len(new.live) = Len(old.live) - 1
       /\ \A j \in DOMAIN new.live :
            From(j) \in DOMAIN old.live /\ new.live[j] = old.live[From(j)] /\ new.live[j].boot # b
       /\ DOMAIN new.live \subseteq Nat
  <2>1. \A i, j \in DOMAIN old.live : old.live[i].boot = old.live[j].boot => i = j
    BY <1>10
  <2>2. new.live = Without(old.live, Position(old, b)) /\ IsLive(old, b)
    BY <1>4 DEF at, old
  <2> QED
    BY <1>5, <2>1, <2>2, FencedLive DEF at
<1>15. /\ Distinct(new.ring)
       /\ \A j \in DOMAIN new.ring :
            new.ring[j] = b \/ \E i \in DOMAIN old.ring : old.ring[i] = new.ring[j]
  <2>1. \A j \in DOMAIN old.ring : old.ring[j] # b
    BY <1>7, <1>9
  <2> QED
    BY <1>4, <1>5, <1>11, <2>1, RingAppend
<1>16. /\ DOMAIN t.fences \subseteq Nat /\ off \in Nat
       /\ \A j \in DOMAIN t.fences :
            \/ j + off \in DOMAIN s.fences /\ t.fences[j] = s.fences[j + off]
            \/ j + off = Len(s.fences) + 1 /\ t.fences[j] = fence
  <2>1. MaxRecentFences \in Nat \ {0}
    BY LimitAssumption
  <2> QED
    BY <1>4, <1>5, <1>13, <2>1, RetainedAppend
<1> HIDE DEF off
<1>17. PartSound(t, p)
  <2>1. \A i \in DOMAIN new.live :
          /\ <<p, new.live[i].boot>> \in Deployment
          /\ 1 <= new.live[i].seq /\ new.live[i].seq < new.next
          /\ \A j \in DOMAIN new.ring : new.ring[j] # new.live[i].boot
    <3> SUFFICES ASSUME NEW i \in DOMAIN new.live
                 PROVE  /\ <<p, new.live[i].boot>> \in Deployment
                        /\ 1 <= new.live[i].seq /\ new.live[i].seq < new.next
                        /\ \A j \in DOMAIN new.ring : new.ring[j] # new.live[i].boot
      OBVIOUS
    <3>1. PICK k \in DOMAIN old.live : new.live[i] = old.live[k] /\ new.live[i].boot # b
      BY <1>14
    <3> QED
      BY <1>3, <1>9, <1>15, <3>1
  <2>2. \A i, j \in DOMAIN new.live :
          new.live[i].boot = new.live[j].boot \/ new.live[i].seq = new.live[j].seq => i = j
    <3> SUFFICES ASSUME NEW i \in DOMAIN new.live, NEW j \in DOMAIN new.live,
                        new.live[i].boot = new.live[j].boot \/ new.live[i].seq = new.live[j].seq
                 PROVE  i = j
      OBVIOUS
    <3>1. at \in Nat
      <4>1. DOMAIN old.live \subseteq Nat
        BY <1>5
      <4> QED
        BY <1>7, <4>1
    <3>2. i \in Nat /\ j \in Nat
      BY <1>14
    <3>3. From(i) = From(j)
      <4>1. /\ From(i) \in DOMAIN old.live /\ new.live[i] = old.live[From(i)]
            /\ From(j) \in DOMAIN old.live /\ new.live[j] = old.live[From(j)]
        BY <1>14
      <4> HIDE DEF From
      <4> QED
        BY <1>10, <4>1
    <3>4. From(i) # at /\ From(j) # at
      BY <3>1, <3>2
    <3> QED
      BY <3>1, <3>2, <3>3
  <2>3. new.floor < new.next
    BY <1>3, <1>6, <1>7, <1>9, <1>11 DEF MaxOf
  <2>4. new.fenceGen <= t.fenceFloor /\ new.regGen <= t.regFloor
    BY <1>2, <1>3, <1>6, <1>11
  <2>5. new.policy = "single" => Len(new.live) <= 1
    BY <1>3, <1>5, <1>11, <1>14
  <2>6. new.status = "registered" /\ Distinct(new.ring) /\ DistinctAttempts(new.idem)
    BY <1>3, <1>11, <1>12, <1>15
  <2> QED
    BY <2>1, <2>2, <2>3, <2>4, <2>5, <2>6 DEF PartSound, new
<1>18. ~IsLive(new, b)
  BY <1>14 DEF IsLive
<1>19. \A q \in Participants : \A c : IsLive(t.parts[q], c) => IsLive(s.parts[q], c)
  <2>1. \A c : IsLive(new, c) => IsLive(old, c)
    BY <1>14 DEF IsLive
  <2> QED
    BY <1>2, <2>1 DEF old, new
<1>20. \A q \in Participants : t.parts[q].status = s.parts[q].status
  BY <1>2, <1>3 DEF old, new
<1>21. FencesSound(t)
  <2>1. \A i \in DOMAIN s.fences : s.fences[i].participant \in Participants /\ s.fences[i].gen \in Nat
    <3>1. \A i \in DOMAIN s.fences : s.fences[i] \in FenceRecords
      BY <1>5
    <3> QED
      BY <3>1 DEF FenceRecords
  <2>2. ~(\E i \in DOMAIN s.fences : s.fences[i].participant = p /\ s.fences[i].boot = b)
    BY <1>8 DEF FencesSound
  <2>3. ASSUME NEW i \in DOMAIN t.fences
        PROVE  /\ t.fences[i].gen <= t.fenceFloor
               /\ t.fences[i].epoch <= t.epoch
               /\ t.parts[t.fences[i].participant].status # "unknown"
               /\ ~IsLive(t.parts[t.fences[i].participant], t.fences[i].boot)
    <3>1. CASE i + off \in DOMAIN s.fences /\ t.fences[i] = s.fences[i + off]
      <4> DEFINE f == s.fences[i + off]
      <4>1. /\ f.gen <= s.fenceFloor
            /\ f.epoch <= s.epoch
            /\ s.parts[f.participant].status # "unknown"
            /\ ~IsLive(s.parts[f.participant], f.boot)
        BY <1>8, <3>1 DEF FencesSound
      <4>2. f.participant \in Participants /\ f.gen \in Nat /\ t.fences[i] = f
        BY <2>1, <3>1
      <4> HIDE DEF f
      <4>3. f.gen <= t.fenceFloor /\ f.epoch <= t.epoch
        BY <1>2, <1>6, <4>1, <4>2
      <4> QED
        BY <1>19, <1>20, <4>1, <4>2, <4>3
    <3>2. CASE t.fences[i] = fence
      <4>1. fence.gen <= t.fenceFloor /\ fence.epoch <= t.epoch
        BY <1>2, <1>6, <1>13
      <4>2. t.parts[p].status # "unknown" /\ ~IsLive(t.parts[p], b)
        BY <1>3, <1>12, <1>18 DEF new
      <4> QED
        BY <1>13, <3>2, <4>1, <4>2
    <3> QED
      BY <1>16, <3>1, <3>2
  <2>4. ASSUME NEW i \in DOMAIN t.fences, NEW j \in DOMAIN t.fences,
               t.fences[i].participant = t.fences[j].participant,
               t.fences[i].boot = t.fences[j].boot
        PROVE  i = j
    <3>1. i + off = j + off
      <4>1. CASE i + off \in DOMAIN s.fences /\ j + off \in DOMAIN s.fences
                 /\ t.fences[i] = s.fences[i + off] /\ t.fences[j] = s.fences[j + off]
        BY <1>8, <2>4, <4>1 DEF FencesSound
      <4> QED
        BY <1>13, <1>16, <2>2, <2>4, <4>1
    <3> QED
      BY <1>16, <3>1
  <2> QED
    BY <2>3, <2>4 DEF FencesSound
<1>22. PartFollows(s, t, p)
  <2>1. \A i \in DOMAIN new.live : \E j \in DOMAIN old.live : old.live[j] = new.live[i]
    BY <1>14
  <2>2. new.floor >= old.floor
    BY <1>3, <1>6, <1>7 DEF MaxOf
  <2>3. new.fenceGen >= old.fenceGen /\ new.regGen >= old.regGen /\ new.next >= old.next
    BY <1>3, <1>6, <1>11
  <2> QED
    BY <1>2, <1>3, <2>1, <2>2, <2>3 DEF PartFollows, old, new
<1>23. Sound(t) /\ Follows(s, t)
  <2>1. t.gen >= s.gen /\ t.regFloor >= s.regFloor /\ t.fenceFloor >= s.fenceFloor
    BY <1>2, <1>6
  <2> QED
    BY <1>1, <1>2, <1>17, <1>21, <1>22, <2>1, PartChange
<1>24. \A i \in DOMAIN t.fences :
         \/ t.fences[i].participant = p /\ t.fences[i].boot = b
         \/ \E j \in DOMAIN s.fences : s.fences[j] = t.fences[i]
  BY <1>13, <1>16
<1> QED
  BY <1>3, <1>14, <1>15, <1>18, <1>23, <1>24 DEF old, new

\* The record of a known participant whose incarnations and ring are left
\* alone stays sound under new generations and a new idempotency table.
LEMMA PartSoundKept ==
  ASSUME NEW s, NEW t, NEW p, PartSound(s, p), t.parts[p].status # "unknown",
         t.parts[p].status = s.parts[p].status,
         t.parts[p].next = s.parts[p].next, t.parts[p].floor = s.parts[p].floor,
         t.parts[p].policy = s.parts[p].policy,
         t.parts[p].live = s.parts[p].live, t.parts[p].ring = s.parts[p].ring,
         t.parts[p].regGen <= t.regFloor, t.parts[p].fenceGen <= t.fenceFloor,
         DistinctAttempts(t.parts[p].idem)
  PROVE  PartSound(t, p)
<1> DEFINE old == s.parts[p]
           new == t.parts[p]
<1>1. /\ old.status = "retired" => old.live = << >>
      /\ old.floor < old.next
      /\ old.policy = "single" => Len(old.live) <= 1
      /\ Distinct(old.ring)
  BY DEF PartSound
<1>2. \A i \in DOMAIN old.live :
       /\ <<p, old.live[i].boot>> \in Deployment
       /\ 1 <= old.live[i].seq /\ old.live[i].seq < old.next
       /\ \A j \in DOMAIN old.ring : old.ring[j] # old.live[i].boot
       /\ \A j \in DOMAIN old.live :
            old.live[i].boot = old.live[j].boot \/ old.live[i].seq = old.live[j].seq
              => i = j
  BY DEF PartSound
<1>3. \A i \in DOMAIN new.live :
       /\ <<p, new.live[i].boot>> \in Deployment
       /\ 1 <= new.live[i].seq /\ new.live[i].seq < new.next
       /\ \A j \in DOMAIN new.ring : new.ring[j] # new.live[i].boot
       /\ \A j \in DOMAIN new.live :
            new.live[i].boot = new.live[j].boot \/ new.live[i].seq = new.live[j].seq
              => i = j
  <2>1. new.live = old.live /\ new.ring = old.ring /\ new.next = old.next
    OBVIOUS
  <2> HIDE DEF old, new
  <2> QED
    BY <1>2, <2>1
<1> QED
  BY <1>1, <1>3 DEF PartSound

\* A boot that no retained fence names is in neither table.
LEMMA NotFenced ==
  ASSUME NEW s, NEW p, NEW b, ~LookupFence(s, p, b)
  PROVE  /\ \A i \in DOMAIN s.fences : ~(s.fences[i].participant = p /\ s.fences[i].boot = b)
         /\ \A i \in DOMAIN s.parts[p].ring : s.parts[p].ring[i] # b
  BY DEF LookupFence, LookupFenceIn

\* A preventive fence of a sound state leaves a sound, later one.
LEMMA FencePreventivelySound ==
  ASSUME NEW s, Sound(s), NEW p \in Participants, NEW b \in Boots,
         s.parts[p].status # "unknown", ~IsLive(s.parts[p], b), ~LookupFence(s, p, b),
         Len(s.fences) < MaxRecentFences,
         NEW t, t = FencePreventively(s, p, b)
  PROVE  Sound(t) /\ Follows(s, t) /\ t.parts[p].idem = s.parts[p].idem
         /\ t.parts[p].status = s.parts[p].status
<1> DEFINE old == s.parts[p]
           new == [old EXCEPT !.fenceGen = s.fenceFloor + 1]
           fence == [boot |-> b, participant |-> p, gen |-> s.fenceFloor + 1,
                     epoch |-> s.epoch, inc |-> 0]
<1>1. Wf(s) /\ Wf(t)
  BY FencePreventivelyType DEF Sound
<1>2. t = [s EXCEPT !.gen = s.gen + 1, !.fenceFloor = s.fenceFloor + 1,
                    !.parts = [s.parts EXCEPT ![p] = new],
                    !.fences = Append(s.fences, fence)]
  BY DEF FencePreventively
<1>3. fence \in FenceRecords /\ fence.boot = b /\ fence.participant = p
      /\ fence.gen = s.fenceFloor + 1 /\ fence.epoch = s.epoch
  BY <1>1, StateFields DEF FenceRecords
<1>4. /\ new.status = old.status /\ new.regGen = old.regGen /\ new.next = old.next
      /\ new.policy = old.policy /\ new.idem = old.idem /\ new.floor = old.floor
      /\ new.live = old.live /\ new.ring = old.ring /\ new.fenceGen = s.fenceFloor + 1
  BY <1>1, PartFields DEF ParticipantRecords
<1> HIDE DEF fence, new
<1>5. /\ t.epoch = s.epoch /\ t.gen = s.gen + 1 /\ t.regFloor = s.regFloor
      /\ t.fenceFloor = s.fenceFloor + 1 /\ t.grants = s.grants
      /\ t.transitions = s.transitions /\ t.control = s.control
      /\ t.parts = [s.parts EXCEPT ![p] = new]
      /\ t.fences = Append(s.fences, fence)
  BY <1>1, <1>2 DEF Wf, States
<1>6. t.parts[p] = new /\ \A q \in Participants : q # p => t.parts[q] = s.parts[q]
  BY <1>1, <1>5, StateFields
<1>7. /\ s.fenceFloor \in Nat /\ s.gen \in Nat /\ s.regFloor \in Nat /\ s.epoch \in Nat
      /\ s.fences \in Seq(FenceRecords) /\ old.fenceGen \in Nat /\ old.next \in Nat
      /\ old.regGen \in Nat /\ old.floor \in Nat
  BY <1>1, StateFields, PartFields
<1>8. PartSound(s, p) /\ FencesSound(s)
  BY DEF Sound
<1> HIDE DEF old
<1>9. PartSound(t, p)
  <2>1. new.fenceGen <= t.fenceFloor /\ new.regGen <= t.regFloor
    BY <1>4, <1>5, <1>7, <1>8 DEF PartSound, old
  <2>2. DistinctAttempts(new.idem) /\ new.status # "unknown"
    BY <1>4, <1>8 DEF PartSound, old
  <2> QED
    BY <1>4, <1>6, <1>8, <2>1, <2>2, PartSoundKept DEF old
<1>10. PartFollows(s, t, p)
  <2>1. new.fenceGen >= old.fenceGen
    BY <1>4, <1>7, <1>8 DEF PartSound, old
  <2> QED
    BY <1>4, <1>5, <1>6, <1>7, <2>1 DEF PartFollows, old
<1>11. /\ \A q \in Participants : t.parts[q].status = s.parts[q].status
       /\ \A q \in Participants : \A c : IsLive(t.parts[q], c) <=> IsLive(s.parts[q], c)
  BY <1>4, <1>6 DEF IsLive, old
<1>12. \A i \in DOMAIN t.fences : \/ i \in DOMAIN s.fences /\ t.fences[i] = s.fences[i]
                                  \/ i = Len(s.fences) + 1 /\ t.fences[i] = fence
  BY <1>3, <1>5, <1>7
<1>13. FencesSound(t)
  <2>1. \A i \in DOMAIN s.fences : s.fences[i].participant \in Participants /\ s.fences[i].gen \in Nat
    <3>1. \A i \in DOMAIN s.fences : s.fences[i] \in FenceRecords
      BY <1>7
    <3> QED
      BY <3>1 DEF FenceRecords
  <2>2. \A i \in DOMAIN s.fences : ~(s.fences[i].participant = p /\ s.fences[i].boot = b)
    BY NotFenced
  <2>3. ASSUME NEW i \in DOMAIN t.fences
        PROVE  /\ t.fences[i].gen <= t.fenceFloor
               /\ t.fences[i].epoch <= t.epoch
               /\ t.parts[t.fences[i].participant].status # "unknown"
               /\ ~IsLive(t.parts[t.fences[i].participant], t.fences[i].boot)
    <3>1. CASE i \in DOMAIN s.fences /\ t.fences[i] = s.fences[i]
      <4> DEFINE f == s.fences[i]
      <4>1. /\ f.gen <= s.fenceFloor
            /\ f.epoch <= s.epoch
            /\ s.parts[f.participant].status # "unknown"
            /\ ~IsLive(s.parts[f.participant], f.boot)
        BY <1>8, <3>1 DEF FencesSound
      <4>2. f.participant \in Participants /\ f.gen \in Nat /\ t.fences[i] = f
        BY <2>1, <3>1
      <4> HIDE DEF f
      <4>3. f.gen <= t.fenceFloor /\ f.epoch <= t.epoch
        BY <1>5, <1>7, <4>1, <4>2
      <4> QED
        BY <1>11, <4>1, <4>2, <4>3
    <3>2. CASE t.fences[i] = fence
      <4>1. fence.gen <= t.fenceFloor /\ fence.epoch <= t.epoch
        BY <1>3, <1>5, <1>7
      <4> QED
        BY <1>3, <1>11, <3>2, <4>1
    <3> QED
      BY <1>12, <3>1, <3>2
  <2>4. ASSUME NEW i \in DOMAIN t.fences, NEW j \in DOMAIN t.fences,
               t.fences[i].participant = t.fences[j].participant,
               t.fences[i].boot = t.fences[j].boot
        PROVE  i = j
    <3>1. CASE i \in DOMAIN s.fences /\ j \in DOMAIN s.fences
               /\ t.fences[i] = s.fences[i] /\ t.fences[j] = s.fences[j]
      BY <1>8, <2>4, <3>1 DEF FencesSound
    <3> QED
      BY <1>3, <1>12, <2>2, <2>4, <3>1
  <2> QED
    BY <2>3, <2>4 DEF FencesSound
<1>14. Sound(t) /\ Follows(s, t)
  <2>1. t.gen >= s.gen /\ t.regFloor >= s.regFloor /\ t.fenceFloor >= s.fenceFloor
    BY <1>5, <1>7
  <2>2. /\ t.epoch = s.epoch /\ t.grants = s.grants
        /\ t.transitions = s.transitions /\ t.control = s.control
    BY <1>5
  <2> QED
    BY <1>1, <1>6, <1>9, <1>10, <1>13, <2>1, <2>2, PartChange
<1> QED
  BY <1>4, <1>6, <1>14 DEF old

\* record_fence of a sound state leaves a sound, later one.
LEMMA RecordFenceSound ==
  ASSUME NEW s, Sound(s), NEW p \in Participants, NEW b \in Boots, NEW d \in BOOLEAN,
         RecordFenceOutcome(s, p, b, d) = "Fenced",
         NEW t, t = RecordFence(s, p, b)
  PROVE  /\ Sound(t) /\ Follows(s, t)
         /\ t.parts[p].idem = s.parts[p].idem
         /\ t.parts[p].status # "unknown"
         /\ ~IsLive(t.parts[p], b)
<1>1. /\ s.parts[p].status # "unknown" /\ ~LookupFence(s, p, b)
      /\ ~IsLive(s.parts[p], b) => ~(Len(s.fences) >= MaxRecentFences)
  BY DEF RecordFenceOutcome
<1>2. CASE IsLive(s.parts[p], b)
  <2>1. t = FenceIncarnation(s, p, b)
    BY <1>2 DEF RecordFence
  <2> QED
    BY <1>1, <1>2, <2>1, FenceIncarnationSound
<1>3. CASE ~IsLive(s.parts[p], b)
  <2>1. t = FencePreventively(s, p, b)
    BY <1>3 DEF RecordFence
  <2>2. Len(s.fences) < MaxRecentFences
    BY <1>1, <1>3, LimitAssumption, FencesCounted DEF Sound
  <2>3. Sound(t) /\ Follows(s, t) /\ t.parts[p].idem = s.parts[p].idem
        /\ t.parts[p].status = s.parts[p].status
    BY <1>1, <1>3, <2>1, <2>2, FencePreventivelySound
  <2>4. t.parts[p].live = s.parts[p].live
    BY <2>1 DEF FencePreventively, Sound, Wf, States, ParticipantRecords
  <2>5. ~IsLive(t.parts[p], b)
    BY <1>3, <2>4 DEF IsLive
  <2> QED
    BY <1>1, <2>3, <2>5
<1> QED
  BY <1>2, <1>3

\* Remembering a new attempt of a known participant leaves a sound, later
\* state that differs in this table alone.
LEMMA RememberSound ==
  ASSUME NEW s, Sound(s), NEW p \in Participants, s.parts[p].status # "unknown",
         NEW a \in Attempts, NEW d \in Digests, NEW v \in Nat,
         ~Attempted(s.parts[p].idem, a),
         NEW t, t = [s EXCEPT !.parts[p].idem = Remember(s.parts[p].idem, a, d, v)]
  PROVE  /\ Sound(t) /\ Follows(s, t)
         /\ t.parts[p].idem = Remember(s.parts[p].idem, a, d, v)
         /\ t.parts[p].live = s.parts[p].live
         /\ t.parts[p].next = s.parts[p].next
         /\ t.parts[p].status = s.parts[p].status
         /\ \A q \in Participants : q # p => t.parts[q] = s.parts[q]
         /\ t.grants = s.grants /\ t.epoch = s.epoch /\ t.gen = s.gen /\ t.control = s.control
<1> DEFINE old == s.parts[p]
           idem == Remember(old.idem, a, d, v)
           new == [old EXCEPT !.idem = idem]
<1>1. Wf(s)
  BY DEF Sound
<1>2. /\ old \in ParticipantRecords /\ old.idem \in Seq(IdempotencyRecords)
      /\ old.next \in Nat /\ old.floor \in Nat /\ old.regGen \in Nat /\ old.fenceGen \in Nat
  BY <1>1, PartFields
<1>3. idem \in Seq(IdempotencyRecords) /\ Len(idem) <= MaxIdempotency
  BY <1>2, RememberType
<1>4. DistinctAttempts(idem)
  <2>1. DistinctAttempts(old.idem)
    BY DEF Sound, PartSound
  <2> QED
    BY <1>2, <2>1, RememberDistinct
<1>5. Wf(t)
  BY <1>1, <1>3, IdemUpdateType
<1> HIDE DEF idem, old
<1>6. /\ new.status = old.status /\ new.regGen = old.regGen /\ new.next = old.next
      /\ new.policy = old.policy /\ new.idem = idem /\ new.floor = old.floor
      /\ new.live = old.live /\ new.ring = old.ring /\ new.fenceGen = old.fenceGen
  BY <1>2 DEF ParticipantRecords
<1>7. t = [s EXCEPT !.parts = [s.parts EXCEPT ![p] = new]]
  BY DEF idem, old
<1> HIDE DEF new
<1>8. /\ t.epoch = s.epoch /\ t.gen = s.gen /\ t.regFloor = s.regFloor
      /\ t.fenceFloor = s.fenceFloor /\ t.grants = s.grants
      /\ t.transitions = s.transitions /\ t.control = s.control /\ t.fences = s.fences
      /\ t.parts = [s.parts EXCEPT ![p] = new]
  BY <1>1, <1>7 DEF Wf, States
<1>9. t.parts[p] = new /\ \A q \in Participants : q # p => t.parts[q] = s.parts[q]
  BY <1>1, <1>8, StateFields
<1>10. PartSound(s, p) /\ FencesSound(s) /\ old.status # "unknown"
  BY DEF Sound, old
<1>11. PartSound(t, p)
  <2>1. new.fenceGen <= t.fenceFloor /\ new.regGen <= t.regFloor
    BY <1>6, <1>8, <1>10 DEF PartSound, old
  <2>2. DistinctAttempts(new.idem) /\ new.status # "unknown"
    BY <1>4, <1>6, <1>10
  <2> QED
    BY <1>6, <1>9, <1>10, <2>1, <2>2, PartSoundKept DEF old
<1>12. PartFollows(s, t, p)
  BY <1>2, <1>6, <1>8, <1>9 DEF PartFollows, old
<1>13. FencesSound(t)
  <2>1. \A i \in DOMAIN s.fences : s.fences[i].participant \in Participants
    <3>1. \A i \in DOMAIN s.fences : s.fences[i] \in FenceRecords
      BY <1>1, StateFields
    <3> QED
      BY <3>1 DEF FenceRecords
  <2>2. /\ \A q \in Participants : t.parts[q].status = s.parts[q].status
        /\ \A q \in Participants : \A c : IsLive(t.parts[q], c) <=> IsLive(s.parts[q], c)
    BY <1>6, <1>9 DEF IsLive, old
  <2> QED
    BY <1>8, <1>10, <2>1, <2>2 DEF FencesSound
<1>14. Sound(t) /\ Follows(s, t)
  <2>1. t.gen >= s.gen /\ t.regFloor >= s.regFloor /\ t.fenceFloor >= s.fenceFloor
    BY <1>1, <1>8, StateFields
  <2> QED
    BY <1>5, <1>8, <1>9, <1>11, <1>12, <1>13, <2>1, PartChange
<1> QED
  BY <1>6, <1>8, <1>9, <1>14 DEF old, idem

\* fence_worker leaves a sound, later state.
LEMMA FenceSound ==
  ASSUME NEW s, Sound(s), NEW r \in FenceRequests, FenceOutcome(s, r) = "Fenced"
  PROVE  Sound(FenceTo(s, r)) /\ Follows(s, FenceTo(s, r))
<1> DEFINE p == r.participant
           t == RecordFence(s, p, r.boot)
           v == FindIncarnation(s.parts[p], r.boot)
           u == FenceTo(s, r)
<1>1. /\ r.attempt \in Attempts /\ p \in Participants /\ r.boot \in Boots
      /\ r.reason \in Reasons
  BY RuntimeAssumption DEF FenceRequests
<1>2. RecordFenceOutcome(s, p, r.boot, TRUE) = "Fenced" /\ ~Attempted(s.parts[p].idem, r.attempt)
  BY DEF FenceOutcome, ReplayOutcome
<1>3. /\ Sound(t) /\ Follows(s, t)
      /\ t.parts[p].idem = s.parts[p].idem /\ t.parts[p].status # "unknown"
  <2> HIDE DEF p
  <2> QED
    BY <1>1, <1>2, RecordFenceSound
<1>4. v \in Nat
  BY <1>1, PartFields, FindIncarnationType DEF Sound
<1>5. FenceDigest(r) \in Digests
  BY <1>1 DEF FenceDigest, Digests
<1>6. u = [t EXCEPT !.parts[p].idem = Remember(s.parts[p].idem, r.attempt, FenceDigest(r), v)]
  BY DEF FenceTo
<1> HIDE DEF t, u, v, p
<1>7. Sound(u) /\ Follows(t, u)
  BY <1>1, <1>2, <1>3, <1>4, <1>5, <1>6, RememberSound
<1>8. Follows(s, u)
  BY <1>3, <1>7, FollowsThrough DEF Sound
<1> QED
  BY <1>7, <1>8 DEF u

-----------------------------------------------------------------------------
(* Registration. *)

\* Admitting a boot that is neither current nor fenced, for a participant that
\* may have it, leaves a sound, later state.
LEMMA AdmitSound ==
  ASSUME NEW s, Sound(s), NEW r \in RegisterRequests, NEW p, p = r.participant,
         s.parts[p].status # "retired", ~IsLive(s.parts[p], r.boot),
         \A i \in DOMAIN s.fences : ~(s.fences[i].participant = p /\ s.fences[i].boot = r.boot),
         \A i \in DOMAIN s.parts[p].ring : s.parts[p].ring[i] # r.boot,
         r.policy = "single" => s.parts[p].live = << >>,
         ~Attempted(s.parts[p].idem, r.attempt),
         NEW t, t = AdmitIncarnation(s, r)
  PROVE  Sound(t) /\ Follows(s, t)
<1> DEFINE old == s.parts[p]
           inc == [boot |-> r.boot, seq |-> old.next]
           idem == Remember(old.idem, r.attempt, RegisterDigest(r), old.next)
           live == Append(old.live, inc)
           new == [old EXCEPT !.status = "registered",
                              !.regGen = s.regFloor + 1,
                              !.next = old.next + 1,
                              !.policy = r.policy,
                              !.scopes = r.scopes,
                              !.reval = FALSE,
                              !.live = live,
                              !.idem = idem]
<1>1. /\ r.attempt \in Attempts /\ p \in Participants /\ r.boot \in Boots
      /\ RegisterDigest(r) \in Digests
  BY RegisterRequestType
<1>2. <<p, r.boot>> \in Deployment
  <2>1. PICK d \in Deployment : r.participant = d[1] /\ r.boot = d[2]
    BY DEF RegisterRequests, RegisterRequest
  <2> QED
    BY <2>1, RuntimeAssumption
<1>3. Wf(s) /\ Wf(t)
  BY AdmitIncarnationType DEF Sound
<1>4. /\ old \in ParticipantRecords /\ old.live \in Seq(Incarnations)
      /\ old.idem \in Seq(IdempotencyRecords)
  BY <1>1, <1>3, PartFields
<1>5. /\ old.next \in Nat /\ old.floor \in Nat /\ old.regGen \in Nat /\ old.fenceGen \in Nat
      /\ s.gen \in Nat /\ s.regFloor \in Nat /\ s.fenceFloor \in Nat
      /\ \A i \in DOMAIN old.live : old.live[i].seq \in Nat
  BY <1>1, <1>3, PartFields, StateFields
<1>6. PartSound(s, p) /\ FencesSound(s)
  BY <1>1 DEF Sound
<1>7. DistinctAttempts(idem)
  <2>1. DistinctAttempts(old.idem)
    BY <1>6 DEF PartSound
  <2> HIDE DEF old
  <2> QED
    BY <1>1, <1>4, <1>5, <2>1, RememberDistinct DEF old
<1>8. t = [s EXCEPT !.gen = s.gen + 1, !.regFloor = s.regFloor + 1,
                    !.parts = [s.parts EXCEPT ![p] = new]]
  BY DEF AdmitIncarnation
<1>9. inc \in Incarnations /\ inc.boot = r.boot /\ inc.seq = old.next
  BY <1>1, <1>5 DEF Incarnations
<1>10. \A i \in DOMAIN old.live :
         /\ <<p, old.live[i].boot>> \in Deployment
         /\ 1 <= old.live[i].seq /\ old.live[i].seq < old.next
         /\ \A j \in DOMAIN old.ring : old.ring[j] # old.live[i].boot
         /\ old.live[i].boot # r.boot
  BY <1>6 DEF PartSound, IsLive
<1>11. \A i, j \in DOMAIN old.live :
         old.live[i].boot = old.live[j].boot \/ old.live[i].seq = old.live[j].seq => i = j
  BY <1>6 DEF PartSound
<1>12. /\ Distinct(old.ring) /\ old.floor < old.next
       /\ old.regGen <= s.regFloor /\ old.fenceGen <= s.fenceFloor
       /\ \A j \in DOMAIN old.ring : old.ring[j] # r.boot
       /\ r.policy = "single" => old.live = << >>
  BY <1>6 DEF PartSound
<1> HIDE DEF inc, idem
<1>13. /\ \A i \in DOMAIN live : \/ i \in DOMAIN old.live /\ live[i] = old.live[i]
                                 \/ i = Len(old.live) + 1 /\ live[i] = inc
       /\ Len(live) = Len(old.live) + 1
  <2> HIDE DEF old
  <2> QED
    BY <1>4, <1>9
<1>14. ~IsLive(old, r.boot) /\ old.status # "retired"
  OBVIOUS
<1> HIDE DEF old, live
<1>15. /\ new.status = "registered" /\ new.regGen = s.regFloor + 1 /\ new.next = old.next + 1
       /\ new.policy = r.policy /\ new.idem = idem /\ new.floor = old.floor
       /\ new.live = live /\ new.ring = old.ring /\ new.fenceGen = old.fenceGen
  BY <1>4 DEF ParticipantRecords
<1> HIDE DEF new
<1>16. /\ t.epoch = s.epoch /\ t.grants = s.grants
       /\ t.transitions = s.transitions /\ t.control = s.control
  BY <1>3, <1>8 DEF Wf, States
<1>17. /\ t.gen = s.gen + 1 /\ t.regFloor = s.regFloor + 1 /\ t.fenceFloor = s.fenceFloor
       /\ t.fences = s.fences /\ t.parts = [s.parts EXCEPT ![p] = new]
  BY <1>3, <1>8 DEF Wf, States
<1>18. t.parts[p] = new /\ \A q \in Participants : q # p => t.parts[q] = s.parts[q]
  BY <1>1, <1>3, <1>17, StateFields
<1>19. PartSound(t, p)
  <2>1. ASSUME NEW i \in DOMAIN new.live
        PROVE  /\ <<p, new.live[i].boot>> \in Deployment
               /\ 1 <= new.live[i].seq /\ new.live[i].seq < new.next
               /\ \A j \in DOMAIN new.ring : new.ring[j] # new.live[i].boot
    <3>1. CASE i \in DOMAIN old.live /\ live[i] = old.live[i]
      BY <1>5, <1>10, <1>15, <3>1
    <3>2. CASE live[i] = inc
      <4>1. 1 <= old.next /\ old.next < old.next + 1
        BY <1>5, <1>12
      <4> QED
        BY <1>2, <1>9, <1>12, <1>15, <3>2, <4>1
    <3> QED
      BY <1>13, <1>15, <3>1, <3>2
  <2>2. ASSUME NEW i \in DOMAIN new.live, NEW j \in DOMAIN new.live,
               new.live[i].boot = new.live[j].boot \/ new.live[i].seq = new.live[j].seq
        PROVE  i = j
    <3>1. i \in DOMAIN live /\ j \in DOMAIN live
          /\ (live[i].boot = live[j].boot \/ live[i].seq = live[j].seq)
      BY <1>15, <2>2
    <3>2. \A k \in DOMAIN old.live : old.live[k].boot # inc.boot
      BY <1>9, <1>10
    <3>3. ASSUME NEW k \in DOMAIN old.live PROVE old.live[k].seq # inc.seq
      <4>1. old.live[k].seq < old.next /\ old.live[k].seq \in Nat
        BY <1>5, <1>10
      <4> QED
        BY <1>5, <1>9, <4>1
    <3> QED
      BY <1>11, <1>13, <3>1, <3>2, <3>3
  <2>3. new.floor < new.next /\ new.regGen <= t.regFloor /\ new.fenceGen <= t.fenceFloor
    BY <1>5, <1>12, <1>15, <1>17
  <2>4. new.policy = "single" => Len(new.live) <= 1
    BY <1>12, <1>13, <1>15
  <2>5. new.status = "registered" /\ Distinct(new.ring) /\ DistinctAttempts(new.idem)
    BY <1>7, <1>12, <1>15
  <2> QED
    BY <1>18, <2>1, <2>2, <2>3, <2>4, <2>5 DEF PartSound
<1>20. PartFollows(s, t, p)
  <2>1. ASSUME NEW i \in DOMAIN new.live
        PROVE  \/ new.live[i].seq >= old.next
               \/ \E j \in DOMAIN old.live : old.live[j] = new.live[i]
    BY <1>5, <1>9, <1>13, <1>15
  <2>2. new.floor >= old.floor /\ new.next >= old.next /\ new.regGen >= old.regGen
        /\ new.fenceGen >= old.fenceGen
    BY <1>5, <1>12, <1>15
  <2>3. new.status = "registered" /\ old.status # "retired"
    BY <1>14, <1>15
  <2> QED
    BY <1>16, <1>18, <2>1, <2>2, <2>3 DEF PartFollows, old
<1>21. FencesSound(t)
  <2>1. \A i \in DOMAIN s.fences : s.fences[i].participant \in Participants
    <3>1. \A i \in DOMAIN s.fences : s.fences[i] \in FenceRecords
      BY <1>3, StateFields
    <3> QED
      BY <3>1 DEF FenceRecords
  <2>2. \A q \in Participants : s.parts[q].status # "unknown" => t.parts[q].status # "unknown"
    BY <1>15, <1>18
  <2>3. \A q \in Participants : \A c :
          IsLive(t.parts[q], c) => IsLive(s.parts[q], c) \/ (q = p /\ c = r.boot)
    <3>1. \A c : IsLive(new, c) => IsLive(old, c) \/ c = r.boot
      BY <1>9, <1>13, <1>15 DEF IsLive
    <3> QED
      BY <1>18, <3>1 DEF old
  <2>4. ASSUME NEW i \in DOMAIN s.fences
        PROVE  /\ s.parts[s.fences[i].participant].status # "unknown"
               /\ ~IsLive(s.parts[s.fences[i].participant], s.fences[i].boot)
               /\ s.fences[i].gen <= s.fenceFloor /\ s.fences[i].epoch <= s.epoch
    BY <1>6 DEF FencesSound
  <2>5. ASSUME NEW i \in DOMAIN s.fences
        PROVE  /\ t.parts[s.fences[i].participant].status # "unknown"
               /\ ~IsLive(t.parts[s.fences[i].participant], s.fences[i].boot)
    BY <2>1, <2>2, <2>3, <2>4
  <2>6. \A i, j \in DOMAIN s.fences :
          /\ s.fences[i].participant = s.fences[j].participant
          /\ s.fences[i].boot = s.fences[j].boot
          => i = j
    BY <1>6 DEF FencesSound
  <2> QED
    BY <1>16, <1>17, <2>4, <2>5, <2>6 DEF FencesSound
<1> QED
  <2>1. t.gen >= s.gen /\ t.regFloor >= s.regFloor /\ t.fenceFloor >= s.fenceFloor
    BY <1>5, <1>17
  <2> QED
    BY <1>1, <1>3, <1>16, <1>18, <1>19, <1>20, <1>21, <2>1, PartChange

\* apply_registration leaves a sound, later state: a single-incarnation
\* participant has lost its incumbent by the time the new boot is admitted.
LEMMA RegisterSound ==
  ASSUME NEW s, Sound(s), NEW r \in RegisterRequests, RegisterOutcome(s, r) = "Registered"
  PROVE  Sound(RegisterTo(s, r)) /\ Follows(s, RegisterTo(s, r))
<1> DEFINE p == r.participant
           old == s.parts[p]
           d == DisplaceIncumbent(s, s.fences, r)
           t == RegisterTo(s, r)
           incumbent == old.live[1].boot
<1>1. p \in Participants /\ r.boot \in Boots
  BY RegisterRequestType
<1>2. /\ old.status # "retired"
      /\ old.status # "unknown" => /\ ~LookupFence(s, p, r.boot)
                                   /\ ~Attempted(old.idem, r.attempt)
                                   /\ old.policy = r.policy
                                   /\ ~IsLive(old, r.boot)
  BY DEF RegisterOutcome, RegistrationOutcome, ReplayOutcome, LookupFence
<1>3. Wf(s) /\ PartSound(s, p) /\ FencesSound(s)
  BY <1>1 DEF Sound
<1>4. old.live \in Seq(Incarnations)
  BY <1>1, <1>3, PartFields
<1>5. old.status = "unknown" =>
        old.live = << >> /\ old.ring = << >> /\ old.idem = << >>
  BY <1>3 DEF PartSound, FreshParticipant
<1>6. \A i \in DOMAIN s.fences : ~(s.fences[i].participant = p /\ s.fences[i].boot = r.boot)
  BY <1>2, <1>3, NotFenced DEF FencesSound
<1>7. \A i \in DOMAIN old.ring : old.ring[i] # r.boot
  <2>1. CASE old.status = "unknown"
    BY <1>5, <2>1
  <2>2. CASE old.status # "unknown"
    BY <1>2, <2>2, NotFenced
  <2> QED
    BY <2>1, <2>2
<1>8. ~IsLive(old, r.boot) /\ ~Attempted(old.idem, r.attempt)
  <2>1. CASE old.status = "unknown"
    BY <1>5, <2>1 DEF IsLive, Attempted
  <2>2. CASE old.status # "unknown"
    BY <1>2, <2>2
  <2> QED
    BY <2>1, <2>2
<1>9. t = AdmitIncarnation(d, r)
  BY DEF RegisterTo
<1>10. CASE HasIncumbent(s, r)
  <2>1. old.live # << >> /\ old.policy = "single"
    BY <1>10 DEF HasIncumbent
  <2>2. 1 \in DOMAIN old.live /\ old.live[1] \in Incarnations
    BY <1>4, <2>1, NonEmptyHead
  <2>3. IsLive(old, incumbent) /\ incumbent \in Boots /\ incumbent # r.boot
    BY <1>8, <2>2 DEF IsLive, Incarnations
  <2>4. ~LookupFence(s, p, incumbent)
    BY <1>1, <2>2, SoundIsFenced DEF NoFencedLive
  <2>5. d = FenceIncarnation(s, p, incumbent)
    BY <1>10, <2>4 DEF DisplaceIncumbent, LookupFence
  <2> HIDE DEF d, p, incumbent
  <2>6. /\ Sound(d) /\ Follows(s, d)
        /\ ~IsLive(d.parts[p], incumbent)
        /\ d.parts[p].status = old.status
        /\ d.parts[p].policy = old.policy
        /\ d.parts[p].idem = old.idem
        /\ d.parts[p].next = old.next
        /\ Len(d.parts[p].live) = Len(old.live) - 1
        /\ \A i \in DOMAIN d.parts[p].ring :
             \/ d.parts[p].ring[i] = incumbent
             \/ \E j \in DOMAIN old.ring : old.ring[j] = d.parts[p].ring[i]
        /\ \A i \in DOMAIN d.fences :
             \/ d.fences[i].participant = p /\ d.fences[i].boot = incumbent
             \/ \E j \in DOMAIN s.fences : s.fences[j] = d.fences[i]
    BY <1>1, <2>3, <2>5, FenceIncarnationSound
  <2>7. d.parts[p].live = << >>
    <3>1. Len(old.live) <= 1 /\ Len(old.live) \in Nat /\ Len(old.live) # 0
      BY <1>3, <1>4, <2>1 DEF PartSound
    <3>2. d.parts[p].live \in Seq(Incarnations)
      BY <1>1, <2>6, PartFields DEF Sound
    <3>3. Len(d.parts[p].live) \in Nat
      BY <3>2
    <3>4. Len(d.parts[p].live) = Len(old.live) - 1
      BY <2>6
    <3>5. Len(d.parts[p].live) = 0
      <4>1. \A m, n \in Nat : m <= 1 /\ m # 0 /\ n = m - 1 => n = 0
        OBVIOUS
      <4> QED
        BY <3>1, <3>3, <3>4, <4>1, Zenon
    <3> QED
      BY <3>2, <3>5
  <2>8. ~IsLive(d.parts[p], r.boot)
    BY <2>7 DEF IsLive
  <2>9. \A i \in DOMAIN d.fences : ~(d.fences[i].participant = p /\ d.fences[i].boot = r.boot)
    BY <1>6, <2>3, <2>6
  <2>10. \A i \in DOMAIN d.parts[p].ring : d.parts[p].ring[i] # r.boot
    BY <1>7, <2>3, <2>6
  <2>11. d.parts[p].status # "retired" /\ ~Attempted(d.parts[p].idem, r.attempt)
    BY <1>2, <1>8, <2>6
  <2> HIDE DEF t
  <2>12. Sound(t) /\ Follows(d, t)
    BY <1>9, <2>6, <2>7, <2>8, <2>9, <2>10, <2>11, AdmitSound DEF p
  <2>13. Follows(s, t)
    BY <1>3, <2>6, <2>12, FollowsThrough DEF Sound
  <2> QED
    BY <2>12, <2>13 DEF t
<1>11. CASE ~HasIncumbent(s, r)
  <2>1. d = s
    BY <1>11 DEF DisplaceIncumbent
  <2>2. r.policy = "single" => old.live = << >>
    BY <1>2, <1>5, <1>11 DEF HasIncumbent
  <2> HIDE DEF t, d
  <2> QED
    BY <1>2, <1>6, <1>7, <1>8, <1>9, <2>1, <2>2, AdmitSound DEF t
<1> QED
  BY <1>10, <1>11

-----------------------------------------------------------------------------
(* Epoch advancement. *)

\* A new epoch of a sound state is a sound, later state.
LEMMA MutateEpochSound ==
  ASSUME NEW s, Sound(s), NEW t, t = MutateEpoch(s)
  PROVE  /\ Sound(t) /\ Follows(s, t)
         /\ t.epoch = s.epoch + 1 /\ t.control = s.control /\ t.grants = s.grants
         /\ \A p \in Participants : /\ t.parts[p].live = << >>
                                    /\ t.parts[p].idem = s.parts[p].idem
                                    /\ t.parts[p].status = s.parts[p].status
                                    /\ t.parts[p].next = s.parts[p].next
<1> DEFINE parts == [p \in Participants |->
                      [s.parts[p] EXCEPT !.reval = @ \/ s.parts[p].live # << >>,
                                         !.live = << >>]]
           rec == [from |-> s.epoch, to |-> s.epoch + 1, gen |-> s.gen + 1]
           transitions == Retain(Append(s.transitions, rec), MaxTransitions)
           off == Dropped(Append(s.transitions, rec), MaxTransitions)
<1>1. Wf(s) /\ Wf(t)
  BY MutateEpochType DEF Sound
<1>2. t = [s EXCEPT !.epoch = s.epoch + 1, !.gen = s.gen + 1, !.parts = parts,
                    !.transitions = transitions]
  BY DEF MutateEpoch
<1>3. ASSUME NEW p \in Participants
      PROVE  LET old == s.parts[p]
                 new == parts[p]
             IN /\ new.status = old.status /\ new.regGen = old.regGen /\ new.next = old.next
                /\ new.policy = old.policy /\ new.idem = old.idem /\ new.floor = old.floor
                /\ new.ring = old.ring /\ new.fenceGen = old.fenceGen
                /\ new.live = << >>
                /\ old = FreshParticipant => new = FreshParticipant
  <2> DEFINE old == s.parts[p]
             flag == old.reval \/ old.live # << >>
  <2>1. old \in ParticipantRecords
    BY <1>1, StateFields
  <2>2. parts[p] = [old EXCEPT !.reval = flag, !.live = << >>]
    OBVIOUS
  <2>3. old = FreshParticipant => flag = FALSE
    BY DEF FreshParticipant
  <2> HIDE DEF old, flag, parts
  <2>4. old = FreshParticipant => parts[p] = FreshParticipant
    <3>1. [FreshParticipant EXCEPT !.reval = FALSE, !.live = << >>] = FreshParticipant
      <4>1. \A x \in ParticipantRecords : [x EXCEPT !.reval = x.reval, !.live = x.live] = x
        BY DEF ParticipantRecords
      <4>2. FreshParticipant.reval = FALSE /\ FreshParticipant.live = << >>
        BY DEF FreshParticipant
      <4> QED
        BY <4>1, <4>2, FreshType
    <3> QED
      BY <2>2, <2>3, <3>1
  <2> DEFINE new == [old EXCEPT !.reval = flag, !.live = << >>]
  <2>5. /\ new.status = old.status /\ new.regGen = old.regGen /\ new.next = old.next
        /\ new.policy = old.policy /\ new.idem = old.idem /\ new.floor = old.floor
        /\ new.ring = old.ring /\ new.fenceGen = old.fenceGen
        /\ new.live = << >>
    BY <2>1 DEF ParticipantRecords
  <2> QED
    BY <2>2, <2>4, <2>5 DEF old
<1>4. /\ s.epoch \in Nat /\ s.gen \in Nat /\ s.transitions \in Seq(TransitionRecords)
      /\ Len(s.transitions) \in Nat
  BY <1>1, StateFields
<1>5. rec \in TransitionRecords /\ rec.from = s.epoch /\ rec.to = s.epoch + 1
  BY <1>4 DEF TransitionRecords
<1> HIDE DEF rec, parts
<1>6. /\ DOMAIN transitions \subseteq Nat /\ off \in Nat
      /\ \A j \in DOMAIN transitions :
           \/ j + off \in DOMAIN s.transitions /\ transitions[j] = s.transitions[j + off]
           \/ j + off = Len(s.transitions) + 1 /\ transitions[j] = rec
  <2>1. MaxTransitions \in Nat \ {0}
    BY LimitAssumption
  <2>2. /\ transitions = Retain(Append(s.transitions, rec), MaxTransitions)
        /\ off = Dropped(Append(s.transitions, rec), MaxTransitions)
    OBVIOUS
  <2>3. s.transitions \in Seq(TransitionRecords) /\ rec \in TransitionRecords
    BY <1>4, <1>5
  <2> HIDE DEF transitions, off
  <2> QED
    BY <2>1, <2>2, <2>3, RetainedAppend
<1>7. Len(transitions) \in Nat /\ Len(transitions) <= Len(s.transitions) + 1
  <2>1. Append(s.transitions, rec) \in Seq(TransitionRecords)
        /\ Len(Append(s.transitions, rec)) = Len(s.transitions) + 1
    BY <1>4, <1>5
  <2> DEFINE app == Append(s.transitions, rec)
  <2>2. /\ transitions \in Seq(TransitionRecords)
        /\ Len(app) <= MaxTransitions => Len(transitions) = Len(app)
        /\ Len(app) > MaxTransitions => Len(transitions) = MaxTransitions
    BY <2>1, RetainType, LimitAssumption
  <2> HIDE DEF transitions, app
  <2>3. Len(transitions) \in Nat
    BY <2>2
  <2> QED
    BY <1>4, <2>1, <2>2, <2>3, LimitAssumption DEF app
<1> HIDE DEF transitions, off
<1>8. /\ t.epoch = s.epoch + 1 /\ t.gen = s.gen + 1 /\ t.regFloor = s.regFloor
      /\ t.fenceFloor = s.fenceFloor /\ t.grants = s.grants /\ t.fences = s.fences
      /\ t.transitions = transitions /\ t.control = s.control /\ t.parts = parts
  BY <1>1, <1>2 DEF Wf, States
<1>9. ASSUME NEW p \in Participants PROVE PartSound(t, p) /\ PartFollows(s, t, p)
  <2> DEFINE old == s.parts[p]
             new == t.parts[p]
  <2>1. /\ new.status = old.status /\ new.regGen = old.regGen /\ new.next = old.next
        /\ new.policy = old.policy /\ new.idem = old.idem /\ new.floor = old.floor
        /\ new.ring = old.ring /\ new.fenceGen = old.fenceGen
        /\ new.live = << >>
        /\ old = FreshParticipant => new = FreshParticipant
    BY <1>3, <1>8
  <2>2. /\ old.next \in Nat /\ old.floor \in Nat /\ old.regGen \in Nat /\ old.fenceGen \in Nat
    BY <1>1, PartFields
  <2>3. /\ old.status = "unknown" => old = FreshParticipant
        /\ old.regGen <= s.regFloor /\ old.fenceGen <= s.fenceFloor /\ old.floor < old.next
        /\ Distinct(old.ring) /\ DistinctAttempts(old.idem)
    BY DEF Sound, PartSound
  <2> HIDE DEF old, new
  <2>4. Len(new.live) = 0 /\ DOMAIN new.live = {}
    BY <2>1
  <2>5. PartSound(t, p)
    BY <1>8, <2>1, <2>3, <2>4 DEF PartSound, new
  <2>6. PartFollows(s, t, p)
    BY <2>1, <2>2, <2>4 DEF PartFollows, old, new
  <2> QED
    BY <2>5, <2>6
<1>10. FencesSound(t)
  <2>1. \A i \in DOMAIN s.fences : /\ s.fences[i].participant \in Participants
                                   /\ s.fences[i].epoch \in Nat
    <3>1. \A i \in DOMAIN s.fences : s.fences[i] \in FenceRecords
      BY <1>1, StateFields
    <3> QED
      BY <3>1 DEF FenceRecords
  <2>2. \A q \in Participants : t.parts[q].status = s.parts[q].status
    BY <1>3, <1>8
  <2>3. \A q \in Participants : \A c : ~IsLive(t.parts[q], c)
    BY <1>3, <1>8 DEF IsLive
  <2>4. \A i \in DOMAIN s.fences : /\ s.fences[i].gen <= s.fenceFloor
                                   /\ s.fences[i].epoch <= s.epoch
                                   /\ s.parts[s.fences[i].participant].status # "unknown"
    BY DEF Sound, FencesSound
  <2>5. \A i \in DOMAIN s.fences : s.fences[i].epoch <= t.epoch
    BY <1>4, <1>8, <2>1, <2>4
  <2>6. \A i, j \in DOMAIN s.fences :
          /\ s.fences[i].participant = s.fences[j].participant
          /\ s.fences[i].boot = s.fences[j].boot
          => i = j
    BY DEF Sound, FencesSound
  <2> QED
    BY <1>8, <2>1, <2>2, <2>3, <2>4, <2>5, <2>6 DEF FencesSound
<1>11. ValidGrants(t) /\ Delegated(t)
  <2>1. \A i \in DOMAIN s.grants : s.grants[i].epoch \in Nat /\ s.grants[i].revokedAt \in Nat
    <3>1. \A i \in DOMAIN s.grants : s.grants[i] \in GrantRecords
      BY <1>1, StateFields
    <3> QED
      BY <3>1 DEF GrantRecords
  <2>2. ValidGrants(s) /\ Delegated(s)
    BY DEF Sound
  <2>3. \A i \in DOMAIN s.grants : s.grants[i].epoch <= t.epoch /\ s.grants[i].revokedAt <= t.epoch
    BY <1>4, <1>8, <2>1, <2>2 DEF ValidGrants
  <2>4. \A id : GrantAt(t, id) = GrantAt(s, id)
    BY <1>8 DEF GrantAt
  <2> QED
    BY <1>8, <2>2, <2>3, <2>4 DEF ValidGrants, Delegated
<1>12. ValidTransitions(t)
  <2>1. \A i \in DOMAIN s.transitions :
          s.transitions[i].to \in Nat /\ s.transitions[i].from \in Nat
    <3>1. \A i \in DOMAIN s.transitions : s.transitions[i] \in TransitionRecords
      BY <1>4
    <3> QED
      BY <3>1 DEF TransitionRecords
  <2>2. /\ \A i \in DOMAIN s.transitions :
             /\ s.transitions[i].to <= s.epoch
             /\ s.transitions[i].from < s.transitions[i].to
        /\ s.gen >= Len(s.transitions)
    BY DEF Sound, ValidTransitions
  <2>3. t.gen >= Len(t.transitions)
    BY <1>4, <1>7, <1>8, <2>2
  <2>4. ASSUME NEW i \in DOMAIN transitions
        PROVE  transitions[i].to <= t.epoch /\ transitions[i].from < transitions[i].to
    <3>1. CASE i + off \in DOMAIN s.transitions /\ transitions[i] = s.transitions[i + off]
      BY <1>4, <1>8, <2>1, <2>2, <3>1
    <3>2. CASE transitions[i] = rec
      BY <1>4, <1>5, <1>8, <3>2
    <3> QED
      BY <1>6, <3>1, <3>2
  <2> QED
    BY <1>8, <2>3, <2>4 DEF ValidTransitions
<1>13. ValidControl(t)
  BY <1>8 DEF Sound, ValidControl
<1>14. GrantsFollow(s, t) /\ t.epoch >= s.epoch
  BY <1>4, <1>8 DEF GrantsFollow
<1>15. Sound(t) /\ Follows(s, t)
  BY <1>1, <1>9, <1>10, <1>11, <1>12, <1>13, <1>14 DEF Sound, Follows
<1> QED
  BY <1>3, <1>8, <1>15

\* Remembering a new control attempt leaves a sound, later state that differs
\* in this table alone.
LEMMA ControlSound ==
  ASSUME NEW s, Sound(s), NEW a \in Attempts, NEW d \in Digests,
         d.op \in {"advance", "revoke"}, NEW v \in Nat, ~Attempted(s.control, a),
         NEW t, t = [s EXCEPT !.control = Remember(s.control, a, d, v)]
  PROVE  /\ Sound(t) /\ Follows(s, t)
         /\ t.control = Remember(s.control, a, d, v)
         /\ t.parts = s.parts /\ t.grants = s.grants /\ t.epoch = s.epoch
<1> DEFINE control == Remember(s.control, a, d, v)
           rec == [attempt |-> a, sem |-> d, value |-> v]
<1>1. Wf(s) /\ s.control \in Seq(IdempotencyRecords)
  BY StateFields DEF Sound
<1>2. control \in Seq(IdempotencyRecords) /\ Len(control) <= MaxIdempotency
  BY <1>1, RememberType
<1>3. /\ DistinctAttempts(control)
      /\ \A j \in DOMAIN control : \/ control[j] = rec
                                   \/ \E i \in DOMAIN s.control : s.control[i] = control[j]
  <2>1. DistinctAttempts(s.control)
    BY DEF Sound, ValidControl
  <2> QED
    BY <1>1, <2>1, RememberDistinct
<1>4. rec.sem = d
  OBVIOUS
<1> HIDE DEF control, rec
<1>5. t = [s EXCEPT !.control = control]
  BY DEF control
<1>6. Wf(t)
  BY <1>1, <1>2, <1>5, ControlUpdateType
<1>7. /\ t.epoch = s.epoch /\ t.gen = s.gen /\ t.regFloor = s.regFloor
      /\ t.fenceFloor = s.fenceFloor /\ t.grants = s.grants /\ t.fences = s.fences
      /\ t.transitions = s.transitions /\ t.control = control /\ t.parts = s.parts
  BY <1>1, <1>5 DEF Wf, States
<1>8. ValidControl(t)
  <2>1. \A i \in DOMAIN s.control : s.control[i].sem.op \in {"advance", "revoke"}
    BY DEF Sound, ValidControl
  <2> QED
    BY <1>3, <1>4, <1>7, <2>1 DEF ValidControl
<1>9. \A p \in Participants : PartSound(t, p)
  <2>1. \A p \in Participants : PartSound(s, p)
    BY DEF Sound
  <2> QED
    BY <1>7, <2>1 DEF PartSound
<1>10. FencesSound(t)
  <2>1. FencesSound(s)
    BY DEF Sound
  <2> QED
    BY <1>7, <2>1 DEF FencesSound
<1>11. ValidGrants(t) /\ Delegated(t) /\ ValidTransitions(t)
  <2>1. ValidGrants(s) /\ Delegated(s) /\ ValidTransitions(s)
    BY DEF Sound
  <2>2. \A id : GrantAt(t, id) = GrantAt(s, id)
    BY <1>7 DEF GrantAt
  <2> QED
    BY <1>7, <2>1, <2>2 DEF ValidGrants, Delegated, ValidTransitions
<1>12. Follows(s, t)
  <2>1. Follows(s, s)
    BY <1>1, FollowsItself
  <2> QED
    BY <1>7, <2>1 DEF Follows, PartFollows, GrantsFollow
<1> QED
  BY <1>6, <1>7, <1>8, <1>9, <1>10, <1>11, <1>12 DEF Sound, control

\* advance_epoch leaves a sound, later state.
LEMMA AdvanceSound ==
  ASSUME NEW s, Sound(s), NEW r \in AdvanceRequests, AdvanceOutcome(s, r) = "Advanced"
  PROVE  /\ Sound(AdvanceTo(s, r)) /\ Follows(s, AdvanceTo(s, r))
         /\ AdvanceTo(s, r).epoch = s.epoch + 1
<1> DEFINE m == MutateEpoch(s)
           t == AdvanceTo(s, r)
<1>1. Sound(m) /\ Follows(s, m) /\ m.epoch = s.epoch + 1 /\ m.control = s.control
  BY MutateEpochSound
<1>2. t = [m EXCEPT !.control = Remember(s.control, r.attempt, AdvanceDigest(r), s.epoch + 1)]
  BY DEF AdvanceTo
<1>3. /\ r.attempt \in Attempts /\ AdvanceDigest(r) \in Digests
      /\ AdvanceDigest(r).op \in {"advance", "revoke"}
  BY DEF AdvanceRequests, AdvanceDigest, Digests
<1>4. ~Attempted(s.control, r.attempt)
  BY DEF AdvanceOutcome, ReplayOutcome
<1>5. s.epoch + 1 \in Nat
  BY StateFields DEF Sound
<1> HIDE DEF m, t
<1>6. Sound(t) /\ Follows(m, t) /\ t.epoch = m.epoch
  BY <1>1, <1>2, <1>3, <1>4, <1>5, ControlSound
<1>7. Follows(s, t)
  BY <1>1, <1>6, FollowsThrough DEF Sound
<1> QED
  BY <1>1, <1>6, <1>7 DEF t

-----------------------------------------------------------------------------
(* Grants. *)

\* An operation that changes the grants alone leaves a sound, later state when
\* it does so for the grants.
LEMMA GrantChange ==
  ASSUME NEW s, Sound(s), NEW t, Wf(t),
         t.epoch = s.epoch, t.gen = s.gen + 1, t.regFloor = s.regFloor,
         t.fenceFloor = s.fenceFloor, t.parts = s.parts, t.fences = s.fences,
         t.transitions = s.transitions, t.control = s.control,
         ValidGrants(t), Delegated(t), GrantsFollow(s, t)
  PROVE  Sound(t) /\ Follows(s, t)
<1>1. Wf(s)
  BY DEF Sound
<1>2. \A p \in Participants : PartSound(t, p)
  <2>1. \A p \in Participants : PartSound(s, p)
    BY DEF Sound
  <2> QED
    BY <2>1 DEF PartSound
<1>3. FencesSound(t)
  <2>1. FencesSound(s)
    BY DEF Sound
  <2> QED
    BY <2>1 DEF FencesSound
<1>4. ValidControl(t)
  BY DEF Sound, ValidControl
<1>5. ValidTransitions(t)
  <2>1. s.gen \in Nat /\ Len(s.transitions) \in Nat
    BY <1>1, StateFields
  <2>2. ValidTransitions(s)
    BY DEF Sound
  <2> QED
    BY <2>1, <2>2 DEF ValidTransitions
<1>6. \A p \in Participants : PartFollows(s, t, p)
  <2>1. \A p \in Participants : PartFollows(s, s, p)
    BY <1>1, FollowsItself DEF Follows
  <2> QED
    BY <2>1 DEF PartFollows
<1>7. t.epoch >= s.epoch
  BY <1>1, StateFields
<1> QED
  BY <1>2, <1>3, <1>4, <1>5, <1>6, <1>7 DEF Sound, Follows

\* Counting a change of the grants keeps the state well formed.
LEMMA GrantsUpdateType ==
  ASSUME NEW s, Wf(s), NEW grants \in Seq(GrantRecords), Len(grants) <= MaxGrants,
         NEW u, u = [s EXCEPT !.gen = s.gen + 1, !.grants = grants]
  PROVE  /\ Wf(u)
         /\ u.epoch = s.epoch /\ u.gen = s.gen + 1 /\ u.regFloor = s.regFloor
         /\ u.fenceFloor = s.fenceFloor /\ u.grants = grants /\ u.fences = s.fences
         /\ u.transitions = s.transitions /\ u.control = s.control /\ u.parts = s.parts
<1>1. s \in States /\ s.gen + 1 \in Nat
  BY DEF Wf, States
<1>2. u \in States
  BY <1>1 DEF States
<1>3. /\ u.epoch = s.epoch /\ u.gen = s.gen + 1 /\ u.regFloor = s.regFloor
      /\ u.fenceFloor = s.fenceFloor /\ u.grants = grants /\ u.fences = s.fences
      /\ u.transitions = s.transitions /\ u.control = s.control /\ u.parts = s.parts
  BY <1>1 DEF States
<1>4. WithinLimits(u)
  BY <1>3 DEF Wf, WithinLimits
<1> QED
  BY <1>2, <1>3, <1>4 DEF Wf

\* apply_grant with a fresh identifier leaves a sound, later state: a
\* delegation stays within an unrevoked parent of this epoch.
LEMMA GrantSound ==
  ASSUME NEW s, Sound(s), NEW r, NEW id \in Nat,
         r.attempt \in Attempts, r.participant \in Participants, r.boot \in Boots,
         r.inc \in Nat, r.scopes \in SUBSET Scopes, r.parent \in Nat,
         r.parent # id, \A i \in DOMAIN s.grants : s.grants[i].id # id,
         GrantOutcome(s, r) = "Granted",
         NEW t, t = GrantTo(s, r, id)
  PROVE  /\ Sound(t) /\ Follows(s, t)
         /\ \A i \in DOMAIN t.grants :
              t.grants[i].id = id \/ \E j \in DOMAIN s.grants : s.grants[j].id = t.grants[i].id
<1> DEFINE p == r.participant
           g == [id |-> id, epoch |-> s.epoch, participant |-> p,
                 boot |-> r.boot, inc |-> r.inc, scopes |-> r.scopes,
                 parent |-> r.parent, gen |-> s.gen + 1, revokedAt |-> 0]
           grants == Append(s.grants, g)
           u == [s EXCEPT !.gen = s.gen + 1, !.grants = grants]
<1>1. /\ Wf(s) /\ ValidGrants(s) /\ Delegated(s)
      /\ s.gen \in Nat /\ s.epoch \in Nat /\ s.grants \in Seq(GrantRecords)
  BY StateFields DEF Sound
<1>2. /\ r.scopes # {} /\ s.parts[p].status # "unknown" /\ ~Attempted(s.parts[p].idem, r.attempt)
      /\ r.parent # 0 => \E i \in GrantAt(s, r.parent) : MayDelegate(s, s.grants[i], r.scopes)
      /\ ~(Len(s.grants) >= MaxGrants)
  BY DEF GrantOutcome, ReplayOutcome
<1>3. g \in GrantRecords
  BY <1>1 DEF GrantRecords
<1>4. /\ g.id = id /\ g.epoch = s.epoch /\ g.scopes = r.scopes /\ g.parent = r.parent
      /\ g.revokedAt = 0
  OBVIOUS
<1> HIDE DEF g
<1>5. /\ grants \in Seq(GrantRecords) /\ Len(grants) <= MaxGrants
      /\ \A i \in DOMAIN grants : \/ i \in DOMAIN s.grants /\ grants[i] = s.grants[i]
                                  \/ i = Len(s.grants) + 1 /\ grants[i] = g
      /\ \A i \in DOMAIN s.grants : i \in DOMAIN grants /\ grants[i] = s.grants[i]
  BY <1>1, <1>2, <1>3, LimitAssumption
<1> HIDE DEF grants
<1>6. Wf(u)
  BY <1>1, <1>5, GrantsUpdateType
<1>7. /\ u.epoch = s.epoch /\ u.gen = s.gen + 1 /\ u.regFloor = s.regFloor
      /\ u.fenceFloor = s.fenceFloor /\ u.grants = grants /\ u.fences = s.fences
      /\ u.transitions = s.transitions /\ u.control = s.control /\ u.parts = s.parts
  BY <1>1 DEF Wf, States
<1>8. t = [u EXCEPT !.parts[p].idem = Remember(s.parts[p].idem, r.attempt, GrantDigest(r), id)]
  <2>1. t = [s EXCEPT !.gen = s.gen + 1, !.grants = grants,
                      !.parts[p].idem = Remember(s.parts[p].idem, r.attempt, GrantDigest(r), id)]
    BY DEF GrantTo, grants, g
  <2> HIDE DEF p
  <2> QED
    BY <1>1, <2>1 DEF Wf, States
<1> HIDE DEF u
<1>9. \A n : GrantAt(s, n) \subseteq GrantAt(u, n)
  BY <1>5, <1>7 DEF GrantAt
<1>10. ValidGrants(u)
  <2>1. ASSUME NEW i \in DOMAIN grants, NEW j \in DOMAIN grants, grants[i].id = grants[j].id
        PROVE  i = j
    <3>1. \A k, l \in DOMAIN s.grants : s.grants[k].id = s.grants[l].id => k = l
      BY <1>1 DEF ValidGrants
    <3> QED
      BY <1>4, <1>5, <2>1, <3>1
  <2>2. ASSUME NEW i \in DOMAIN grants
        PROVE  /\ grants[i].epoch <= s.epoch
               /\ grants[i].scopes # {}
               /\ grants[i].revokedAt <= s.epoch
               /\ grants[i].parent # 0 =>
                    grants[i].parent # grants[i].id /\ GrantAt(u, grants[i].parent) # {}
    <3>1. CASE i \in DOMAIN s.grants /\ grants[i] = s.grants[i]
      <4>1. /\ s.grants[i].epoch <= s.epoch
            /\ s.grants[i].scopes # {}
            /\ s.grants[i].revokedAt <= s.epoch
            /\ s.grants[i].parent # 0 =>
                 s.grants[i].parent # s.grants[i].id /\ GrantAt(s, s.grants[i].parent) # {}
        BY <1>1, <3>1 DEF ValidGrants
      <4> QED
        BY <1>9, <3>1, <4>1
    <3>2. CASE grants[i] = g
      <4>1. s.epoch <= s.epoch /\ 0 <= s.epoch
        BY <1>1
      <4> QED
        BY <1>2, <1>4, <1>9, <3>2, <4>1
    <3> QED
      BY <1>5, <3>1, <3>2
  <2> QED
    BY <1>7, <2>1, <2>2 DEF ValidGrants
<1>11. Delegated(u)
  <2> SUFFICES ASSUME NEW i \in DOMAIN grants, grants[i].parent # 0
               PROVE  \E j \in GrantAt(u, grants[i].parent) :
                        /\ grants[i].scopes \subseteq grants[j].scopes
                        /\ grants[i].epoch = grants[j].epoch
                        /\ Revoked(grants[j]) => Revoked(grants[i])
    BY <1>7 DEF Delegated
  <2>1. CASE i \in DOMAIN s.grants /\ grants[i] = s.grants[i]
    <3>1. PICK j \in GrantAt(s, s.grants[i].parent) :
             /\ s.grants[i].scopes \subseteq s.grants[j].scopes
             /\ s.grants[i].epoch = s.grants[j].epoch
             /\ Revoked(s.grants[j]) => Revoked(s.grants[i])
      BY <1>1, <2>1 DEF Delegated
    <3>2. j \in GrantAt(u, grants[i].parent) /\ grants[j] = s.grants[j]
      BY <1>5, <1>9, <2>1, <3>1 DEF GrantAt
    <3> QED
      BY <2>1, <3>1, <3>2
  <2>2. CASE grants[i] = g
    <3>1. PICK j \in GrantAt(s, r.parent) : MayDelegate(s, s.grants[j], r.scopes)
      BY <1>2, <1>4, <2>2
    <3>2. j \in GrantAt(u, r.parent) /\ grants[j] = s.grants[j]
      BY <1>5, <1>9, <3>1 DEF GrantAt
    <3> QED
      BY <1>4, <2>2, <3>1, <3>2 DEF MayDelegate
  <2> QED
    BY <1>5, <2>1, <2>2
<1>12. GrantsFollow(s, u)
  BY <1>5, <1>7 DEF GrantsFollow
<1>13. Sound(u) /\ Follows(s, u)
  BY <1>6, <1>7, <1>10, <1>11, <1>12, GrantChange
<1>14. Sound(t) /\ Follows(u, t) /\ t.grants = u.grants
  <2>1. GrantDigest(r) \in Digests
    BY DEF GrantDigest, Digests
  <2>2. u.parts[p].status # "unknown" /\ ~Attempted(u.parts[p].idem, r.attempt)
    BY <1>2, <1>7
  <2>3. t = [u EXCEPT !.parts[p].idem = Remember(u.parts[p].idem, r.attempt, GrantDigest(r), id)]
    BY <1>7, <1>8
  <2>4. p \in Participants
    OBVIOUS
  <2> HIDE DEF p
  <2> QED
    BY <1>13, <2>1, <2>2, <2>3, <2>4, RememberSound
<1>15. Follows(s, t)
  BY <1>1, <1>6, <1>13, <1>14, FollowsThrough DEF Sound
<1> QED
  BY <1>4, <1>5, <1>7, <1>14, <1>15

\* The cascade of a revocation holds the grant and, with any grant in it, every
\* grant derived from it that is not revoked yet.
LEMMA CascadeCloses ==
  ASSUME NEW s, NEW r
  PROVE  /\ Cascade(s, r) \subseteq DOMAIN s.grants
         /\ \A i \in Cascade(s, r), j \in DOMAIN s.grants :
              s.grants[j].parent = s.grants[i].id /\ ~Revoked(s.grants[j]) => j \in Cascade(s, r)
<1> DEFINE gs == s.grants
           root == GrantAt(s, r.grant)
           open == {j \in DOMAIN gs : ~Revoked(gs[j])}
           Closed(C) == \A i \in C, j \in open : gs[j].parent = gs[i].id => j \in C
<1>1. Cascade(s, r) = {i \in DOMAIN gs : \A C \in SUBSET (DOMAIN gs) :
                                           root \subseteq C /\ Closed(C) => i \in C}
  BY DEF Cascade, Descend
<1>2. ASSUME NEW i \in Cascade(s, r), NEW j \in DOMAIN gs,
             gs[j].parent = gs[i].id, ~Revoked(gs[j])
      PROVE  j \in Cascade(s, r)
  <2>1. j \in open
    BY <1>2
  <2> SUFFICES ASSUME NEW C \in SUBSET (DOMAIN gs), root \subseteq C, Closed(C)
               PROVE  j \in C
    BY <1>1
  <2>2. i \in C
    BY <1>1
  <2> HIDE DEF gs, open
  <2> QED
    BY <1>2, <2>1, <2>2
<1> QED
  BY <1>1, <1>2

\* apply_revoke leaves a sound, later state: what is derived from a revoked
\* grant is revoked with it, or was before.
LEMMA RevokeSound ==
  ASSUME NEW s, Sound(s), s.epoch # 0, NEW r,
         r.attempt \in Attempts, r.grant \in Nat, r.reason \in Reasons,
         RevokeOutcome(s, r) = "Revoked",
         NEW t, t = RevokeTo(s, r)
  PROVE  /\ Sound(t) /\ Follows(s, t)
         /\ \A i \in DOMAIN t.grants : \E j \in DOMAIN s.grants : s.grants[j].id = t.grants[i].id
<1> DEFINE gs == s.grants
           root == GrantAt(s, r.grant)
           down == Cascade(s, r)
           marked == [i \in DOMAIN gs |->
                       [gs[i] EXCEPT !.revokedAt = IF i \in down THEN s.epoch ELSE @,
                                     !.gen = IF i \in root THEN s.gen + 1 ELSE @]]
           control == Remember(s.control, r.attempt, RevokeDigest(r), s.gen + 1)
           u == [s EXCEPT !.gen = s.gen + 1, !.grants = marked]
<1>1. /\ Wf(s) /\ ValidGrants(s) /\ Delegated(s)
      /\ s.gen \in Nat /\ s.epoch \in Nat /\ s.grants \in Seq(GrantRecords)
      /\ s.control \in Seq(IdempotencyRecords)
  BY StateFields DEF Sound
<1>2. DOMAIN marked = DOMAIN gs
  OBVIOUS
<1>3. ASSUME NEW i \in DOMAIN gs
      PROVE  /\ marked[i] \in GrantRecords
             /\ marked[i].id = gs[i].id /\ marked[i].epoch = gs[i].epoch
             /\ marked[i].scopes = gs[i].scopes /\ marked[i].parent = gs[i].parent
             /\ i \in down => marked[i].revokedAt = s.epoch
             /\ i \notin down => marked[i].revokedAt = gs[i].revokedAt
  <2> DEFINE g == gs[i]
             a == i \in down
             b == i \in root
  <2>1. g \in GrantRecords /\ s.gen + 1 \in Nat
    BY <1>1
  <2>2. marked[i] = [g EXCEPT !.revokedAt = IF a THEN s.epoch ELSE g.revokedAt,
                              !.gen = IF b THEN s.gen + 1 ELSE g.gen]
    OBVIOUS
  <2> HIDE DEF g, a, b, marked
  <2> DEFINE m == [g EXCEPT !.revokedAt = IF a THEN s.epoch ELSE g.revokedAt,
                            !.gen = IF b THEN s.gen + 1 ELSE g.gen]
  <2>3. /\ m \in GrantRecords /\ m.id = g.id /\ m.epoch = g.epoch
        /\ m.scopes = g.scopes /\ m.parent = g.parent
        /\ a => m.revokedAt = s.epoch
        /\ ~a => m.revokedAt = g.revokedAt
    BY <1>1, <2>1 DEF GrantRecords
  <2> QED
    BY <2>2, <2>3 DEF g, a
<1> HIDE DEF down, marked
<1>4. marked \in Seq(GrantRecords) /\ Len(marked) <= MaxGrants
  <2>1. Len(gs) \in Nat /\ DOMAIN gs = 1..Len(gs) /\ Len(gs) <= MaxGrants
    BY <1>1 DEF Wf, WithinLimits
  <2>2. marked = [i \in 1..Len(gs) |-> marked[i]]
    BY <2>1 DEF marked
  <2>3. marked \in [1..Len(gs) -> GrantRecords]
    BY <1>3, <2>1, <2>2
  <2> QED
    BY <2>1, <2>3, SequenceOfFunction
<1>5. Wf(u)
  BY <1>1, <1>4, GrantsUpdateType
<1>6. /\ u.epoch = s.epoch /\ u.gen = s.gen + 1 /\ u.regFloor = s.regFloor
      /\ u.fenceFloor = s.fenceFloor /\ u.grants = marked /\ u.fences = s.fences
      /\ u.transitions = s.transitions /\ u.control = s.control /\ u.parts = s.parts
  BY <1>1 DEF Wf, States
<1>7. t = [u EXCEPT !.control = control]
  <2>1. t = [s EXCEPT !.gen = s.gen + 1, !.grants = marked, !.control = control]
    BY DEF RevokeTo, marked, down
  <2> HIDE DEF control
  <2> QED
    BY <1>1, <2>1 DEF Wf, States
<1> HIDE DEF u
<1>8. \A n : GrantAt(u, n) = GrantAt(s, n)
  BY <1>2, <1>3, <1>6 DEF GrantAt
<1>9. ValidGrants(u)
  <2>1. s.epoch <= s.epoch
    BY <1>1
  <2>2. \A i \in DOMAIN gs : /\ gs[i].epoch <= s.epoch /\ gs[i].scopes # {}
                             /\ gs[i].revokedAt <= s.epoch
                             /\ gs[i].parent # 0 =>
                                  gs[i].parent # gs[i].id /\ GrantAt(s, gs[i].parent) # {}
    BY <1>1 DEF ValidGrants
  <2>3. \A i, j \in DOMAIN gs : gs[i].id = gs[j].id => i = j
    BY <1>1 DEF ValidGrants
  <2>4. ASSUME NEW i \in DOMAIN marked
        PROVE  /\ marked[i].epoch <= s.epoch /\ marked[i].scopes # {}
               /\ marked[i].revokedAt <= s.epoch
               /\ marked[i].parent # 0 =>
                    marked[i].parent # marked[i].id /\ GrantAt(u, marked[i].parent) # {}
    BY <1>2, <1>3, <1>8, <2>1, <2>2
  <2>5. \A i, j \in DOMAIN marked : marked[i].id = marked[j].id => i = j
    BY <1>2, <1>3, <2>3
  <2> QED
    BY <1>6, <2>4, <2>5 DEF ValidGrants
<1>10. Delegated(u)
  <2> SUFFICES ASSUME NEW i \in DOMAIN marked, marked[i].parent # 0
               PROVE  \E j \in GrantAt(u, marked[i].parent) :
                        /\ marked[i].scopes \subseteq marked[j].scopes
                        /\ marked[i].epoch = marked[j].epoch
                        /\ Revoked(marked[j]) => Revoked(marked[i])
    BY <1>6 DEF Delegated
  <2>1. PICK j \in GrantAt(s, gs[i].parent) :
           /\ gs[i].scopes \subseteq gs[j].scopes
           /\ gs[i].epoch = gs[j].epoch
           /\ Revoked(gs[j]) => Revoked(gs[i])
    BY <1>1, <1>2, <1>3 DEF Delegated
  <2>2. i \in DOMAIN gs /\ j \in DOMAIN gs /\ gs[j].id = gs[i].parent
    BY <1>2, <2>1 DEF GrantAt
  <2>3. Revoked(marked[j]) => Revoked(marked[i])
    <3>1. CASE i \in down
      BY <1>3, <2>2, <3>1 DEF Revoked
    <3>2. CASE i \notin down /\ j \in down
      <4>1. Revoked(gs[i])
        BY <2>2, <3>2, CascadeCloses DEF down
      <4> QED
        BY <1>3, <2>2, <3>2, <4>1 DEF Revoked
    <3>3. CASE i \notin down /\ j \notin down
      BY <1>3, <2>1, <2>2, <3>3 DEF Revoked
    <3> QED
      BY <3>1, <3>2, <3>3
  <2> QED
    BY <1>3, <1>8, <2>1, <2>2, <2>3
<1>11. GrantsFollow(s, u)
  <2> SUFFICES ASSUME NEW i \in DOMAIN gs
               PROVE  /\ i \in DOMAIN marked /\ marked[i].id = gs[i].id
                      /\ Revoked(gs[i]) => Revoked(marked[i])
    BY <1>6 DEF GrantsFollow
  <2> QED
    BY <1>2, <1>3 DEF Revoked
<1>12. Sound(u) /\ Follows(s, u)
  BY <1>5, <1>6, <1>9, <1>10, <1>11, GrantChange
<1>13. Sound(t) /\ Follows(u, t) /\ t.grants = u.grants
  <2>1. RevokeDigest(r) \in Digests /\ RevokeDigest(r).op \in {"advance", "revoke"}
    BY DEF RevokeDigest, Digests
  <2>2. ~Attempted(u.control, r.attempt)
    BY <1>6 DEF RevokeOutcome, ReplayOutcome
  <2>3. t = [u EXCEPT !.control = Remember(u.control, r.attempt, RevokeDigest(r), s.gen + 1)]
    BY <1>6, <1>7
  <2>4. s.gen + 1 \in Nat
    BY <1>1
  <2> QED
    BY <1>12, <2>1, <2>2, <2>3, <2>4, ControlSound
<1>14. Follows(s, t)
  BY <1>1, <1>5, <1>12, <1>13, FollowsThrough DEF Sound
<1> QED
  BY <1>2, <1>3, <1>6, <1>13, <1>14

-----------------------------------------------------------------------------
(* Retirement. *)

\* The positions Select takes for a set of positions.
Places(I) == CHOOSE f \in [1..Cardinality(I) -> I] :
               \A i, j \in DOMAIN f : i < j => f[i] < f[j]

\* The elements at a set of positions are entries of the sequence, each once.
LEMMA SelectEntries ==
  ASSUME NEW S, NEW seq \in Seq(S), NEW I \in SUBSET (DOMAIN seq),
         NEW sel, sel = Select(seq, I)
  PROVE  /\ Cardinality(I) \in Nat
         /\ sel \in Seq(S) /\ DOMAIN sel = 1..Cardinality(I) /\ Len(sel) = Cardinality(I)
         /\ \A i \in DOMAIN sel : Places(I)[i] \in I /\ sel[i] = seq[Places(I)[i]]
         /\ \A i, j \in DOMAIN sel : Places(I)[i] = Places(I)[j] => i = j
<1> DEFINE at == Places(I)
           n == Cardinality(I)
<1>1. Len(seq) \in Nat /\ DOMAIN seq = 1..Len(seq)
  OBVIOUS
<1>2. n \in Nat
  <2>1. IsFiniteSet(1..Len(seq))
    BY <1>1, FS_Interval
  <2>2. IsFiniteSet(I)
    BY <1>1, <2>1, FS_Subset
  <2> QED
    BY <2>2, FS_CardinalityType
<1>3. \E f \in [1..n -> I] : \A i, j \in DOMAIN f : i < j => f[i] < f[j]
  BY <1>1, AscentsExist DEF Ascents
<1>4. at \in [1..n -> I] /\ \A i, j \in DOMAIN at : i < j => at[i] < at[j]
  BY <1>3 DEF Places
<1>5. sel = [i \in 1..n |-> seq[at[i]]]
  BY DEF Select, Places
<1>6. sel \in Seq(S)
  BY SelectType
<1> HIDE DEF at, n
<1>7. DOMAIN sel = 1..n /\ \A i \in 1..n : at[i] \in I /\ sel[i] = seq[at[i]]
  BY <1>4, <1>5
<1>8. Len(sel) = n
  BY <1>2, <1>6, <1>7
<1>9. \A i \in 1..n : at[i] \in Nat
  BY <1>1, <1>4
<1>10. \A i, j \in 1..n : at[i] = at[j] => i = j
  <2> SUFFICES ASSUME NEW i \in 1..n, NEW j \in 1..n, at[i] = at[j], i # j PROVE FALSE
    OBVIOUS
  <2>1. i < j \/ j < i
    BY <1>2
  <2>2. at[i] < at[j] \/ at[j] < at[i]
    BY <1>4, <2>1
  <2>3. \A k \in Nat : ~(k < k)
    OBVIOUS
  <2> QED
    BY <1>9, <2>2, <2>3
<1> QED
  BY <1>2, <1>6, <1>7, <1>8, <1>10 DEF at, n

\* Several new boots in the ring keep the ring free of repetitions.
LEMMA RingConcat ==
  ASSUME NEW ring \in Seq(Boots), NEW boots \in Seq(Boots), Distinct(ring), Distinct(boots),
         \A i \in DOMAIN ring, j \in DOMAIN boots : ring[i] # boots[j],
         NEW new, new = Retain(ring \o boots, MaxFencedBoots)
  PROVE  Distinct(new)
<1> DEFINE off == Dropped(ring \o boots, MaxFencedBoots)
<1>1. /\ DOMAIN new \subseteq Nat /\ off \in Nat
      /\ \A j \in DOMAIN new :
           \/ j + off \in DOMAIN ring /\ new[j] = ring[j + off]
           \/ j + off - Len(ring) \in DOMAIN boots /\ new[j] = boots[j + off - Len(ring)]
  BY RetainedConcat, LimitAssumption
<1>2. Len(ring) \in Nat
  OBVIOUS
<1> HIDE DEF off
<1> QED
  BY <1>1, <1>2 DEF Distinct

\* What several fences appended to the recent ones leave of them.
LEMMA FencesConcat ==
  ASSUME NEW seq \in Seq(FenceRecords), NEW ext \in Seq(FenceRecords),
         NEW new, new = Retain(seq \o ext, MaxRecentFences),
         NEW off, off = Dropped(seq \o ext, MaxRecentFences)
  PROVE  /\ DOMAIN new \subseteq Nat /\ off \in Nat
         /\ \A j \in DOMAIN new :
              \/ j + off \in DOMAIN seq /\ new[j] = seq[j + off]
              \/ j + off - Len(seq) \in DOMAIN ext /\ new[j] = ext[j + off - Len(seq)]
<1> DEFINE S == FenceRecords
<1>1. seq \in Seq(S) /\ ext \in Seq(S)
  OBVIOUS
<1> HIDE DEF S
<1> QED
  BY <1>1, RetainedConcat, LimitAssumption

\* apply_retire leaves a sound, later state without a current incarnation of
\* the participant: record_fence spares none, for no fence of one is on record.
LEMMA RetireSound ==
  ASSUME NEW s, Sound(s), NEW r \in RetireRequests, RetireOutcome(s, r) = "Retired",
         NEW t, t = RetireTo(s, r)
  PROVE  /\ Sound(t) /\ Follows(s, t)
         /\ t.parts[r.participant].live = << >>
         /\ \A q \in Participants : q # r.participant => t.parts[q] = s.parts[q]
<1> DEFINE p == r.participant
           part == s.parts[p]
           all == DOMAIN part.live
           victims == Select(part.live, all)
           n == Len(victims)
           records == [i \in 1..n |->
                        [boot |-> victims[i].boot, participant |-> p,
                         gen |-> s.fenceFloor + i, epoch |-> s.epoch,
                         inc |-> victims[i].seq]]
           boots == [i \in 1..n |-> victims[i].boot]
           fences == Retain(s.fences \o records, MaxRecentFences)
           ring == Retain(part.ring \o boots, MaxFencedBoots)
           idem == Remember(part.idem, r.attempt, RetireDigest(r), Len(part.live))
           floor == MaxOf(part.floor, part.next - 1)
           fenceGen == IF n = 0 THEN part.fenceGen ELSE s.fenceFloor + n
           new == [part EXCEPT !.status = "retired", !.reval = FALSE, !.floor = floor,
                               !.fenceGen = fenceGen, !.live = << >>, !.ring = ring,
                               !.idem = idem]
           off == Dropped(s.fences \o records, MaxRecentFences)
<1>1. Wf(s) /\ s \in States /\ r.attempt \in Attempts /\ p \in Participants
  BY DEF Sound, Wf, RetireRequests
<1>2. Wf(t)
  BY <1>1, RetireType
<1>3. /\ part \in ParticipantRecords /\ part.live \in Seq(Incarnations)
      /\ part.ring \in Seq(Boots) /\ part.idem \in Seq(IdempotencyRecords)
      /\ part.floor \in Nat /\ part.next \in Nat /\ part.fenceGen \in Nat /\ part.regGen \in Nat
  BY <1>1, PartFields
<1>4. /\ s.fenceFloor \in Nat /\ s.epoch \in Nat /\ s.gen \in Nat /\ s.regFloor \in Nat
      /\ s.fences \in Seq(FenceRecords)
  BY <1>1, StateFields
<1>5. PartSound(s, p) /\ FencesSound(s)
  BY <1>1 DEF Sound
<1>6. part.status # "unknown" /\ ~Attempted(part.idem, r.attempt)
  BY DEF RetireOutcome, ReplayOutcome
<1>7. RetireVictims(s, p) = all
  <2>1. NoFencedLive(s)
    BY SoundIsFenced
  <2> QED
    BY <1>1, <2>1 DEF NoFencedLive, RetireVictims
<1>8. Select(part.live, all \ all) = << >>
  <2> DEFINE none == Select(part.live, {})
  <2>1. all \ all = {} /\ {} \in SUBSET (DOMAIN part.live)
    OBVIOUS
  <2>2. Cardinality({}) = 0
    BY FS_EmptySet
  <2>3. /\ none \in Seq(Incarnations) /\ Len(none) = Cardinality({})
    <3> HIDE DEF part
    <3> QED
      BY <1>3, <2>1, SelectEntries
  <2>4. none = << >>
    <3> HIDE DEF none
    <3> QED
      BY <2>2, <2>3
  <2> QED
    BY <2>1, <2>4
<1>9. t = [s EXCEPT !.gen = s.gen + n + 1, !.fenceFloor = s.fenceFloor + n,
                    !.fences = fences, !.parts = [s.parts EXCEPT ![p] = new]]
  BY <1>7, <1>8 DEF RetireTo
<1> DEFINE at == Places(all)
<1>10. /\ n \in Nat
       /\ \A i \in 1..n : at[i] \in all /\ victims[i] = part.live[at[i]]
       /\ \A i, j \in 1..n : at[i] = at[j] => i = j
  <2>1. all \in SUBSET (DOMAIN part.live)
    OBVIOUS
  <2> HIDE DEF part, all
  <2>2. victims = Select(part.live, all)
    OBVIOUS
  <2> HIDE DEF victims
  <2>3. /\ Cardinality(all) \in Nat
        /\ victims \in Seq(Incarnations) /\ DOMAIN victims = 1..Cardinality(all)
        /\ Len(victims) = Cardinality(all)
        /\ \A i \in DOMAIN victims : Places(all)[i] \in all /\ victims[i] = part.live[Places(all)[i]]
        /\ \A i, j \in DOMAIN victims : Places(all)[i] = Places(all)[j] => i = j
    BY ONLY <1>3, <2>1, <2>2, SelectEntries
  <2> QED
    BY <2>3
<1> HIDE DEF victims, n, at
<1>11. \A i \in DOMAIN part.live :
         /\ part.live[i].boot \in Boots /\ part.live[i].seq \in Nat
         /\ \A j \in DOMAIN part.ring : part.ring[j] # part.live[i].boot
  BY <1>1, <1>5, PartFields DEF PartSound
<1>12. \A i, j \in DOMAIN part.live : part.live[i].boot = part.live[j].boot => i = j
  BY <1>5 DEF PartSound
<1>13. \A i \in DOMAIN s.fences :
         s.fences[i].participant = p => ~IsLive(part, s.fences[i].boot)
  BY <1>5 DEF FencesSound
<1>14. /\ Distinct(part.ring) /\ DistinctAttempts(part.idem)
       /\ part.regGen <= s.regFloor /\ part.fenceGen <= s.fenceFloor
       /\ part.floor < part.next
  BY <1>5 DEF PartSound
<1> HIDE DEF all
<1>15. \A i \in 1..n : /\ victims[i].boot \in Boots /\ victims[i].seq \in Nat
                       /\ IsLive(part, victims[i].boot)
                       /\ \A j \in DOMAIN part.ring : part.ring[j] # victims[i].boot
  <2> HIDE DEF part
  <2> QED
    BY <1>10, <1>11 DEF all, IsLive
<1>16. \A i, j \in 1..n : victims[i].boot = victims[j].boot => i = j
  <2> HIDE DEF part
  <2> QED
    BY <1>10, <1>12 DEF all
<1>17. boots \in Seq(Boots) /\ DOMAIN boots = 1..n /\ \A i \in 1..n : boots[i] = victims[i].boot
  <2>1. boots \in [1..n -> Boots]
    BY <1>15
  <2> QED
    BY <1>10, <2>1, SequenceOfFunction
<1>18. /\ records \in Seq(FenceRecords) /\ DOMAIN records = 1..n
       /\ \A i \in 1..n : /\ records[i].boot = victims[i].boot /\ records[i].participant = p
                          /\ records[i].gen = s.fenceFloor + i /\ records[i].epoch = s.epoch
  <2> HIDE DEF p
  <2>1. \A i \in 1..n : [boot |-> victims[i].boot, participant |-> p,
                         gen |-> s.fenceFloor + i, epoch |-> s.epoch,
                         inc |-> victims[i].seq] \in FenceRecords
    BY <1>1, <1>4, <1>10, <1>15 DEF FenceRecords
  <2>2. records \in [1..n -> FenceRecords]
    BY <2>1
  <2>3. records \in Seq(FenceRecords)
    <3> HIDE DEF records
    <3> QED
      BY <1>10, <2>2, SequenceOfFunction
  <2> QED
    BY <2>3
<1>19. Distinct(ring)
  <2>1. Distinct(boots)
    BY <1>16, <1>17 DEF Distinct
  <2> HIDE DEF boots, part
  <2>2. \A i \in DOMAIN part.ring, j \in DOMAIN boots : part.ring[i] # boots[j]
    BY <1>15, <1>17
  <2> QED
    BY <1>3, <1>14, <1>17, <2>1, <2>2, RingConcat
<1>20. DistinctAttempts(idem)
  <2>1. RetireDigest(r) \in Digests /\ Len(part.live) \in Nat
    BY <1>1, <1>3 DEF RetireDigest, Digests
  <2> HIDE DEF part
  <2> QED
    BY <1>1, <1>3, <1>6, <1>14, <2>1, RememberDistinct
<1>21. /\ floor >= part.floor /\ floor < part.next
       /\ fenceGen >= part.fenceGen /\ fenceGen <= s.fenceFloor + n
  <2>1. n \in Nat
    BY <1>10
  <2> HIDE DEF part
  <2> QED
    BY <1>3, <1>4, <1>14, <2>1 DEF MaxOf
<1>22. /\ DOMAIN fences \subseteq Nat /\ off \in Nat
       /\ \A j \in DOMAIN fences :
            \/ j + off \in DOMAIN s.fences /\ fences[j] = s.fences[j + off]
            \/ j + off - Len(s.fences) \in DOMAIN records
               /\ fences[j] = records[j + off - Len(s.fences)]
  <2> HIDE DEF records
  <2>1. /\ s.fences \in Seq(FenceRecords) /\ records \in Seq(FenceRecords)
        /\ MaxRecentFences \in Nat \ {0}
    BY <1>4, <1>18, LimitAssumption
  <2> DEFINE seq == s.fences
  <2>2. /\ seq \in Seq(FenceRecords)
        /\ fences = Retain(seq \o records, MaxRecentFences)
        /\ off = Dropped(seq \o records, MaxRecentFences)
    BY <2>1
  <2> HIDE DEF fences, off, seq
  <2>3. /\ DOMAIN fences \subseteq Nat /\ off \in Nat
        /\ \A j \in DOMAIN fences :
             \/ j + off \in DOMAIN seq /\ fences[j] = seq[j + off]
             \/ j + off - Len(seq) \in DOMAIN records /\ fences[j] = records[j + off - Len(seq)]
    BY <2>1, <2>2, FencesConcat
  <2> QED
    BY <2>3 DEF seq
<1>23. /\ new.status = "retired" /\ new.floor = floor /\ new.fenceGen = fenceGen
       /\ new.live = << >> /\ new.ring = ring /\ new.idem = idem
       /\ new.next = part.next /\ new.regGen = part.regGen /\ new.policy = part.policy
  <2> HIDE DEF part, floor, fenceGen, ring, idem
  <2> QED
    BY <1>3 DEF ParticipantRecords
<1> HIDE DEF new, records, fences, off, floor, fenceGen, ring, idem, boots
<1>24. /\ t.epoch = s.epoch /\ t.fences = fences /\ t.grants = s.grants
       /\ t.transitions = s.transitions /\ t.control = s.control
       /\ t.gen = s.gen + n + 1 /\ t.regFloor = s.regFloor
       /\ t.fenceFloor = s.fenceFloor + n
       /\ t.parts = [s.parts EXCEPT ![p] = new]
  BY <1>1, <1>9 DEF States
<1>25. t.parts[p] = new /\ \A q \in Participants : q # p => t.parts[q] = s.parts[q]
  <2>1. s.parts \in [Participants -> ParticipantRecords]
    BY <1>1, StateFields
  <2> HIDE DEF p
  <2> QED
    BY <1>1, <1>24, <2>1
<1> HIDE DEF p, part
<1>26. t.gen >= s.gen /\ t.regFloor >= s.regFloor /\ t.fenceFloor >= s.fenceFloor
  BY <1>4, <1>10, <1>24
<1>27. PartSound(t, p)
  <2>1. DOMAIN new.live = {} /\ Len(new.live) = 0
    BY <1>23
  <2>2. /\ new.regGen <= t.regFloor /\ new.fenceGen <= t.fenceFloor
        /\ new.floor < new.next /\ new.status = "retired"
        /\ Distinct(new.ring) /\ DistinctAttempts(new.idem)
    BY <1>14, <1>19, <1>20, <1>21, <1>23, <1>24
  <2> QED
    BY <1>23, <1>25, <2>1, <2>2 DEF PartSound
<1>28. PartFollows(s, t, p)
  <2>1. DOMAIN new.live = {}
    BY <1>23
  <2>2. /\ new.floor >= part.floor /\ new.next >= part.next /\ new.regGen >= part.regGen
        /\ new.fenceGen >= part.fenceGen /\ new.status = "retired"
    BY <1>3, <1>21, <1>23
  <2> QED
    BY <1>25, <2>1, <2>2 DEF PartFollows, part
<1>29. FencesSound(t)
  <2>1. \A b : ~IsLive(new, b)
    BY <1>23 DEF IsLive
  <2>2. ASSUME NEW i \in DOMAIN fences
        PROVE  /\ fences[i].gen <= t.fenceFloor /\ fences[i].epoch <= t.epoch
               /\ t.parts[fences[i].participant].status # "unknown"
               /\ ~IsLive(t.parts[fences[i].participant], fences[i].boot)
    <3>1. CASE i + off \in DOMAIN s.fences /\ fences[i] = s.fences[i + off]
      <4> DEFINE f == s.fences[i + off]
      <4>1. f \in FenceRecords
        BY <1>4, <3>1
      <4>2. f.participant \in Participants /\ f.gen \in Nat
        BY <4>1 DEF FenceRecords
      <4>3. /\ f.gen <= s.fenceFloor /\ f.epoch <= s.epoch
            /\ s.parts[f.participant].status # "unknown"
            /\ ~IsLive(s.parts[f.participant], f.boot)
        BY <1>5, <3>1 DEF FencesSound
      <4>4. f.gen <= t.fenceFloor
        BY <1>4, <1>10, <1>24, <4>2, <4>3
      <4>5. CASE f.participant = p
        BY <1>23, <1>24, <1>25, <2>1, <3>1, <4>3, <4>4, <4>5
      <4>6. CASE f.participant # p
        BY <1>24, <1>25, <3>1, <4>2, <4>3, <4>4, <4>6
      <4> QED
        BY <4>5, <4>6
    <3>2. CASE i + off - Len(s.fences) \in DOMAIN records
               /\ fences[i] = records[i + off - Len(s.fences)]
      <4> DEFINE k == i + off - Len(s.fences)
      <4>1. k \in 1..n /\ fences[i] = records[k]
        BY <1>18, <3>2
      <4> HIDE DEF k
      <4>2. s.fenceFloor + k <= t.fenceFloor /\ s.epoch <= s.epoch
        BY <1>4, <1>10, <1>24, <4>1
      <4> QED
        BY <1>18, <1>23, <1>24, <1>25, <2>1, <4>1, <4>2
    <3> QED
      BY <1>22, <3>1, <3>2
  <2>3. ASSUME NEW i \in DOMAIN fences, NEW j \in DOMAIN fences,
               fences[i].participant = fences[j].participant, fences[i].boot = fences[j].boot
        PROVE  i = j
    <3> DEFINE a == i + off
               b == j + off
               c == i + off - Len(s.fences)
               d == j + off - Len(s.fences)
    <3>1. /\ i \in Nat /\ j \in Nat /\ off \in Nat /\ Len(s.fences) \in Nat
      BY <1>4, <1>22
    <3>2. a = b => i = j
      BY <3>1
    <3>3. c = d => i = j
      BY <3>1
    <3>4. \/ a \in DOMAIN s.fences /\ fences[i] = s.fences[a]
          \/ c \in DOMAIN records /\ fences[i] = records[c]
      BY <1>22
    <3>5. \/ b \in DOMAIN s.fences /\ fences[j] = s.fences[b]
          \/ d \in DOMAIN records /\ fences[j] = records[d]
      BY <1>22
    <3> HIDE DEF a, b, c, d
    <3>6. \A k, l \in DOMAIN s.fences :
            s.fences[k].participant = s.fences[l].participant
            /\ s.fences[k].boot = s.fences[l].boot => k = l
      BY <1>5 DEF FencesSound
    <3>7. \A k \in DOMAIN records : records[k].participant = p /\ IsLive(part, records[k].boot)
      BY <1>15, <1>18
    <3>8. \A k, l \in DOMAIN records : records[k].boot = records[l].boot => k = l
      BY <1>16, <1>18
    <3>9. CASE a \in DOMAIN s.fences /\ fences[i] = s.fences[a]
               /\ b \in DOMAIN s.fences /\ fences[j] = s.fences[b]
      BY <2>3, <3>2, <3>6, <3>9
    <3>10. CASE a \in DOMAIN s.fences /\ fences[i] = s.fences[a]
                /\ d \in DOMAIN records /\ fences[j] = records[d]
      BY <1>13, <2>3, <3>7, <3>10
    <3>11. CASE c \in DOMAIN records /\ fences[i] = records[c]
                /\ b \in DOMAIN s.fences /\ fences[j] = s.fences[b]
      BY <1>13, <2>3, <3>7, <3>11
    <3>12. CASE c \in DOMAIN records /\ fences[i] = records[c]
                /\ d \in DOMAIN records /\ fences[j] = records[d]
      BY <2>3, <3>3, <3>8, <3>12
    <3> QED
      BY <3>4, <3>5, <3>9, <3>10, <3>11, <3>12
  <2> QED
    BY <1>24, <2>2, <2>3 DEF FencesSound
<1>30. Sound(t) /\ Follows(s, t)
  BY <1>1, <1>2, <1>24, <1>25, <1>26, <1>27, <1>28, <1>29, PartChange
<1> QED
  BY <1>23, <1>25, <1>30 DEF p

=============================================================================

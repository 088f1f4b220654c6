---------------------------- MODULE RuntimeProofs ----------------------------
(***************************************************************************)
(* Proofs about the coordinator on its store, for every deployment, every  *)
(* limits and every outcome of its saves.                                  *)
(*                                                                         *)
(* First the helpers on tables, then one lemma per operation that says its *)
(* result and its undo are well formed and what they do to the epoch, then *)
(* the durability barrier, the step and the theorems.                      *)
(***************************************************************************)
EXTENDS RuntimeProperties, TLAPS, FiniteSetTheorems, WellFoundedInduction

\* Retain keeps at most max records of a table, and all of a table within
\* the limit.
LEMMA RetainType ==
  ASSUME NEW S, NEW seq \in Seq(S), NEW max \in Nat \ {0}
  PROVE  /\ Retain(seq, max) \in Seq(S)
         /\ Len(Retain(seq, max)) <= max
         /\ Len(seq) <= max => Len(Retain(seq, max)) = Len(seq)
         /\ Len(seq) > max => Len(Retain(seq, max)) = max
  BY DEF Retain

\* Appending to a table and pruning it keeps it within its limit and never
\* makes it shorter.
LEMMA BoundedAppendType ==
  ASSUME NEW S, NEW seq \in Seq(S), NEW x \in S, NEW max \in Nat \ {0},
         Len(seq) <= max
  PROVE  /\ Retain(Append(seq, x), max) \in Seq(S)
         /\ Len(Retain(Append(seq, x), max)) <= max
         /\ Len(seq) <= Len(Retain(Append(seq, x), max))
<1>1. Append(seq, x) \in Seq(S) /\ Len(Append(seq, x)) = Len(seq) + 1 /\ Len(seq) \in Nat
  OBVIOUS
<1> DEFINE app == Append(seq, x)
<1>2. /\ Retain(app, max) \in Seq(S)
      /\ Len(Retain(app, max)) <= max
      /\ Len(app) <= max => Len(Retain(app, max)) = Len(app)
      /\ Len(app) > max => Len(Retain(app, max)) = max
  BY <1>1, RetainType
<1> QED
  BY <1>1, <1>2

\* A sequence that is not empty has a first element.
LEMMA NonEmptyHead ==
  ASSUME NEW S, NEW seq \in Seq(S), seq # << >>
  PROVE  1 \in DOMAIN seq /\ seq[1] \in S
  OBVIOUS

\* Removing one position of a sequence leaves a sequence of the same kind.
LEMMA WithoutType ==
  ASSUME NEW S, NEW seq \in Seq(S), NEW i \in DOMAIN seq
  PROVE  Without(seq, i) \in Seq(S)
<1>1. Len(seq) \in Nat /\ i \in 1..Len(seq)
  OBVIOUS
<1>2. \A j \in 1..(Len(seq) - 1) : (IF j < i THEN seq[j] ELSE seq[j + 1]) \in S
  BY <1>1
<1> QED
  BY <1>1, <1>2 DEF Without

\* resize to a smaller length keeps that many records.
LEMMA TruncateType ==
  ASSUME NEW S, NEW seq \in Seq(S), NEW n \in Nat, n <= Len(seq)
  PROVE  Truncate(seq, n) \in Seq(S) /\ Len(Truncate(seq, n)) = n
  BY DEF Truncate

\* The ways to list a set of positions in ascending order.
Ascents(I) == {f \in [1..Cardinality(I) -> I] : \A i, j \in DOMAIN f : i < j => f[i] < f[j]}

\* Every finite set of positions can be listed in ascending order.  The set
\* of counterexamples has a least member, and taking the largest position away
\* from it gives a smaller one.
LEMMA AscentsExist ==
  \A n \in Nat : \A I \in SUBSET (1..n) : Ascents(I) # {}
<1> DEFINE Good(n) == \A I \in SUBSET (1..n) : Ascents(I) # {}
           T == {n \in Nat : ~Good(n)}
<1>1. SUFFICES ASSUME T # {} PROVE FALSE
  OBVIOUS
<1>2. PICK x \in T : \A y \in T : <<y, x>> \notin OpToRel(<, Nat)
  <2>1. T \subseteq Nat
    OBVIOUS
  <2> HIDE DEF T
  <2> QED
    BY <1>1, <2>1, NatLessThanWellFounded, WFMin
<1>3. x \in Nat /\ ~Good(x)
  OBVIOUS
<1>4. \A y \in Nat : y < x => Good(y)
  <2> HIDE DEF Good
  <2> QED
    BY <1>2, <1>3 DEF OpToRel
<1> HIDE DEF T
<1>5. PICK I \in SUBSET (1..x) : Ascents(I) = {}
  BY <1>3
<1>6. ASSUME x \notin I PROVE FALSE
  <2>1. CASE x = 0
    <3>1. I = {}
      BY <2>1
    <3>2. Cardinality(I) = 0
      BY <3>1, FS_EmptySet
    <3>3. << >> \in Ascents(I)
      BY <3>1, <3>2 DEF Ascents
    <3> QED
      BY <1>5, <3>3
  <2>2. CASE x # 0
    <3>1. I \in SUBSET (1..(x - 1)) /\ x - 1 \in Nat /\ x - 1 < x
      BY <1>3, <1>6, <2>2
    <3>2. Good(x - 1)
      BY <1>4, <3>1
    <3> QED
      BY <1>5, <3>1, <3>2
  <2> QED
    BY <2>1, <2>2
<1>7. ASSUME x \in I PROVE FALSE
  <2> DEFINE J == I \ {x}
             c == Cardinality(J)
  <2>1. J \in SUBSET (1..(x - 1)) /\ x - 1 \in Nat /\ x - 1 < x /\ J \in SUBSET (1..x)
    BY <1>3, <1>7
  <2>2. Ascents(J) # {}
    <3> HIDE DEF J
    <3>1. Good(x - 1)
      BY <1>4, <2>1
    <3> QED
      BY <2>1, <3>1
  <2>3. PICK g : g \in Ascents(J)
    BY <2>2
  <2>4. IsFiniteSet(J) /\ IsFiniteSet(I)
    <3>1. IsFiniteSet(1..x)
      BY <1>3, FS_Interval
    <3> QED
      BY <2>1, <3>1, FS_Subset
  <2>5. c \in Nat /\ Cardinality(I) = c + 1
    <3>1. Cardinality(J) \in Nat /\ Cardinality(I) \in Nat
      BY <2>4, FS_CardinalityType
    <3>2. Cardinality(J) = Cardinality(I) - 1
      BY <1>7, <2>4, FS_RemoveElement
    <3> HIDE DEF J
    <3> QED
      BY <3>1, <3>2
  <2>6. g \in [1..c -> J] /\ \A i, j \in 1..c : i < j => g[i] < g[j]
    BY <2>3 DEF Ascents
  <2> DEFINE f == [i \in 1..(c + 1) |-> IF i <= c THEN g[i] ELSE x]
  <2>7. \A i \in 1..c : g[i] \in I /\ g[i] \in Nat /\ g[i] < x
    <3>1. \A j \in J : j \in I /\ j \in Nat /\ j < x
      BY <1>3, <2>1
    <3> HIDE DEF J, c
    <3> QED
      BY <2>6, <3>1
  <2> HIDE DEF c, J
  <2>8. f \in [1..(c + 1) -> I]
    BY <1>7, <2>5, <2>7
  <2>9. \A i, j \in 1..(c + 1) : i < j => f[i] < f[j]
    BY <2>5, <2>6, <2>7
  <2>10. f \in Ascents(I)
    BY <2>5, <2>8, <2>9 DEF Ascents
  <2> QED
    BY <1>5, <2>10
<1> QED
  BY <1>6, <1>7

\* The elements at a set of positions, in order, are a sequence of the same
\* kind.
LEMMA SelectType ==
  ASSUME NEW S, NEW seq \in Seq(S), NEW I \in SUBSET (DOMAIN seq)
  PROVE  Select(seq, I) \in Seq(S)
<1> DEFINE at == CHOOSE f \in [1..Cardinality(I) -> I] :
                   \A i, j \in DOMAIN f : i < j => f[i] < f[j]
           n == Cardinality(I)
<1>1. Len(seq) \in Nat /\ DOMAIN seq = 1..Len(seq)
  OBVIOUS
<1>2. n \in Nat
  <2>1. IsFiniteSet(1..Len(seq))
    BY <1>1, FS_Interval
  <2>2. IsFiniteSet(I)
    BY <1>1, <2>1, FS_Subset
  <2> QED
    BY <2>2, FS_CardinalityType
<1>3. \E f \in [1..n -> I] : \A i, j \in DOMAIN f : i < j => f[i] < f[j]
  BY <1>1, AscentsExist DEF Ascents
<1>4. at \in [1..n -> I]
  BY <1>3
<1> HIDE DEF at, n
<1>5. \A i \in 1..n : seq[at[i]] \in S
  BY <1>1, <1>4
<1>6. Select(seq, I) = [i \in 1..n |-> seq[at[i]]]
  BY DEF Select, at, n
<1> QED
  BY <1>2, <1>5, <1>6

\* A function on 1..n is a sequence of length n.
LEMMA SequenceOfFunction ==
  ASSUME NEW S, NEW n \in Nat, NEW f \in [1..n -> S]
  PROVE  f \in Seq(S) /\ Len(f) = n
  OBVIOUS

\* remember_attempt keeps an idempotency table typed and within its limit.
LEMMA RememberType ==
  ASSUME NEW table \in Seq(IdempotencyRecords), NEW a \in Attempts,
         NEW d \in Digests, NEW v \in Nat
  PROVE  /\ Remember(table, a, d, v) \in Seq(IdempotencyRecords)
         /\ Len(Remember(table, a, d, v)) <= MaxIdempotency
<1> DEFINE rec == [attempt |-> a, sem |-> d, value |-> v]
<1>1. rec \in IdempotencyRecords
  BY DEF IdempotencyRecords
<1>2. Append(table, rec) \in Seq(IdempotencyRecords)
  BY <1>1
<1> QED
  BY <1>2, RetainType, LimitAssumption DEF Remember

\* A well-formed state: typed, and within its limits.
Wf(s) == s \in States /\ WithinLimits(s)

\* The position of a current boot is one of the positions of live.
LEMMA PositionType ==
  ASSUME NEW part \in ParticipantRecords, NEW b, IsLive(part, b)
  PROVE  /\ Position(part, b) \in DOMAIN part.live
         /\ part.live[Position(part, b)].boot = b
         /\ part.live[Position(part, b)] \in Incarnations
<1>1. PICK i \in DOMAIN part.live : part.live[i].boot = b
  BY DEF IsLive
<1>2. Position(part, b) \in DOMAIN part.live /\ part.live[Position(part, b)].boot = b
  BY <1>1 DEF Position
<1>3. part.live \in Seq(Incarnations)
  BY DEF ParticipantRecords
<1> QED
  BY <1>2, <1>3

\* Fencing a current incarnation keeps the state well formed and its epoch,
\* and does not shorten the recent fences, which the undo truncates.
LEMMA FenceIncarnationType ==
  ASSUME NEW s, Wf(s), NEW p \in Participants, NEW b \in Boots, IsLive(s.parts[p], b)
  PROVE  /\ Wf(FenceIncarnation(s, p, b))
         /\ FenceIncarnation(s, p, b).epoch = s.epoch
         /\ Len(s.fences) <= Len(FenceIncarnation(s, p, b).fences)
<1> DEFINE part == s.parts[p]
           i == Position(part, b)
           inc == part.live[i].seq
           g == s.fenceFloor + 1
           fence == [boot |-> b, participant |-> p, gen |-> g,
                     epoch |-> s.epoch, inc |-> inc]
           part2 == [part EXCEPT !.live = Without(part.live, i),
                                 !.floor = MaxOf(part.floor, inc),
                                 !.fenceGen = g,
                                 !.ring = Retain(Append(part.ring, b), MaxFencedBoots)]
           fences2 == Retain(Append(s.fences, fence), MaxRecentFences)
<1>1. /\ s \in States
      /\ WithinLimits(s)
  BY DEF Wf
<1>2. part \in ParticipantRecords
  BY <1>1 DEF States
<1>3. i \in DOMAIN part.live /\ inc \in Nat
  BY <1>2, PositionType DEF Incarnations
<1>4. Without(part.live, i) \in Seq(Incarnations)
  BY <1>2, <1>3, WithoutType DEF ParticipantRecords
<1>5. /\ Retain(Append(part.ring, b), MaxFencedBoots) \in Seq(Boots)
      /\ Len(Retain(Append(part.ring, b), MaxFencedBoots)) <= MaxFencedBoots
  <2>1. Append(part.ring, b) \in Seq(Boots)
    BY <1>2 DEF ParticipantRecords
  <2> QED
    BY <2>1, RetainType, LimitAssumption
<1>6. part2 \in ParticipantRecords
  <2>1. MaxOf(part.floor, inc) \in Nat /\ g \in Nat
    BY <1>1, <1>2, <1>3 DEF ParticipantRecords, States, MaxOf
  <2> HIDE DEF part, g, i, inc
  <2> QED
    BY <1>2, <1>4, <1>5, <2>1 DEF ParticipantRecords
<1>7. fence \in FenceRecords
  BY <1>1, <1>3 DEF FenceRecords, States
<1>8. /\ fences2 \in Seq(FenceRecords)
      /\ Len(fences2) <= MaxRecentFences
      /\ Len(s.fences) <= Len(fences2)
  BY <1>1, <1>7, BoundedAppendType, LimitAssumption DEF WithinLimits, States
<1>9. FenceIncarnation(s, p, b) =
        [s EXCEPT !.gen = s.gen + 1, !.fenceFloor = g,
                  !.parts = [s.parts EXCEPT ![p] = part2], !.fences = fences2]
  BY DEF FenceIncarnation
<1>10. FenceIncarnation(s, p, b) \in States
  <2>1. g \in Nat /\ s.gen + 1 \in Nat
    BY <1>1 DEF States
  <2>2. [s.parts EXCEPT ![p] = part2] \in [Participants -> ParticipantRecords]
    BY <1>1, <1>6 DEF States
  <2> HIDE DEF part2, fences2, g
  <2> QED
    BY <1>1, <1>8, <1>9, <2>1, <2>2 DEF States
<1>11. WithinLimits(FenceIncarnation(s, p, b))
  <2>1. part2.ring = Retain(Append(part.ring, b), MaxFencedBoots) /\ part2.idem = part.idem
    BY <1>2 DEF ParticipantRecords
  <2> QED
    BY <1>1, <1>5, <1>8, <1>9, <2>1 DEF WithinLimits, States
<1> QED
  BY <1>1, <1>8, <1>9, <1>10, <1>11 DEF Wf, States

\* Replacing one participant record keeps the participants well formed.
LEMMA PartsUpdateType ==
  ASSUME NEW s, Wf(s), NEW p \in Participants, NEW new \in ParticipantRecords,
         Len(new.ring) <= MaxFencedBoots, Len(new.idem) <= MaxIdempotency
  PROVE  /\ [s.parts EXCEPT ![p] = new] \in [Participants -> ParticipantRecords]
         /\ \A q \in Participants :
              /\ Len([s.parts EXCEPT ![p] = new][q].ring) <= MaxFencedBoots
              /\ Len([s.parts EXCEPT ![p] = new][q].idem) <= MaxIdempotency
  BY DEF Wf, States, WithinLimits

\* Replacing one participant's idempotency table keeps the state well formed.
LEMMA IdemUpdateType ==
  ASSUME NEW s, Wf(s), NEW p \in Participants,
         NEW idem \in Seq(IdempotencyRecords), Len(idem) <= MaxIdempotency
  PROVE  LET t == [s EXCEPT !.parts[p].idem = idem]
         IN  /\ Wf(t) /\ t.epoch = s.epoch /\ t.fences = s.fences
             /\ t.parts[p].idem = idem
<1> DEFINE new == [s.parts[p] EXCEPT !.idem = idem]
           parts == [s.parts EXCEPT ![p] = new]
           t == [s EXCEPT !.parts = parts]
<1>1. s.parts[p] \in ParticipantRecords /\ Len(s.parts[p].ring) <= MaxFencedBoots
  BY DEF Wf, States, WithinLimits
<1>2. new \in ParticipantRecords /\ new.ring = s.parts[p].ring /\ new.idem = idem
  BY <1>1 DEF ParticipantRecords
<1>3. /\ parts \in [Participants -> ParticipantRecords]
      /\ \A q \in Participants : /\ Len(parts[q].ring) <= MaxFencedBoots
                                 /\ Len(parts[q].idem) <= MaxIdempotency
  <2> HIDE DEF new
  <2> QED
    BY <1>1, <1>2, PartsUpdateType
<1>4. Wf(t) /\ t.epoch = s.epoch /\ t.fences = s.fences
  <2> HIDE DEF parts
  <2> QED
    BY <1>3 DEF Wf, States, WithinLimits
<1>5. t.parts = parts /\ parts[p] = new
  BY DEF Wf, States
<1>6. t.parts[p].idem = idem
  BY <1>2, <1>5
<1> QED
  BY <1>4, <1>6

\* Replacing the recent fences keeps the state well formed.
LEMMA FencesUpdateType ==
  ASSUME NEW s, Wf(s), NEW fences \in Seq(FenceRecords), Len(fences) <= MaxRecentFences
  PROVE  Wf([s EXCEPT !.fences = fences]) /\ [s EXCEPT !.fences = fences].epoch = s.epoch
  BY DEF Wf, States, WithinLimits

\* A preventive fence keeps the state well formed when there is room for it.
LEMMA FencePreventivelyType ==
  ASSUME NEW s, Wf(s), NEW p \in Participants, NEW b \in Boots,
         Len(s.fences) < MaxRecentFences
  PROVE  /\ Wf(FencePreventively(s, p, b))
         /\ FencePreventively(s, p, b).epoch = s.epoch
         /\ Len(s.fences) <= Len(FencePreventively(s, p, b).fences)
<1> DEFINE g == s.fenceFloor + 1
           fence == [boot |-> b, participant |-> p, gen |-> g, epoch |-> s.epoch, inc |-> 0]
           new == [s.parts[p] EXCEPT !.fenceGen = g]
           parts == [s.parts EXCEPT ![p] = new]
           fences == Append(s.fences, fence)
<1>1. g \in Nat /\ s.gen + 1 \in Nat /\ s \in States
  BY DEF Wf, States
<1>2. s.parts[p] \in ParticipantRecords /\ Len(s.parts[p].ring) <= MaxFencedBoots
      /\ Len(s.parts[p].idem) <= MaxIdempotency
  BY DEF Wf, States, WithinLimits
<1>3. new \in ParticipantRecords /\ new.ring = s.parts[p].ring /\ new.idem = s.parts[p].idem
  <2> HIDE DEF g
  <2> QED
    BY <1>1, <1>2 DEF ParticipantRecords
<1>4. /\ parts \in [Participants -> ParticipantRecords]
      /\ \A q \in Participants : /\ Len(parts[q].ring) <= MaxFencedBoots
                                 /\ Len(parts[q].idem) <= MaxIdempotency
  <2> HIDE DEF new
  <2> QED
    BY <1>2, <1>3, PartsUpdateType
<1>5. fence \in FenceRecords
  BY <1>1 DEF FenceRecords, States
<1>6. /\ fences \in Seq(FenceRecords) /\ Len(fences) = Len(s.fences) + 1 /\ Len(s.fences) \in Nat
      /\ Len(fences) <= MaxRecentFences
  <2> HIDE DEF fence
  <2> QED
    BY <1>1, <1>5, LimitAssumption DEF States
<1>7. FencePreventively(s, p, b) =
        [s EXCEPT !.gen = s.gen + 1, !.fenceFloor = g, !.parts = parts, !.fences = fences]
  BY DEF FencePreventively
<1> HIDE DEF g, parts, fences
<1>8. FencePreventively(s, p, b) \in States
  BY <1>1, <1>4, <1>6, <1>7 DEF States
<1>9. WithinLimits(FencePreventively(s, p, b))
  BY <1>1, <1>4, <1>6, <1>7 DEF Wf, WithinLimits, States
<1>10. FencePreventively(s, p, b).fences = fences /\ FencePreventively(s, p, b).epoch = s.epoch
  BY <1>1, <1>7 DEF States
<1> QED
  BY <1>6, <1>8, <1>9, <1>10 DEF Wf

\* record_fence keeps the state well formed whenever it fences.
LEMMA RecordFenceType ==
  ASSUME NEW s, Wf(s), NEW p \in Participants, NEW b \in Boots, NEW d \in BOOLEAN,
         RecordFenceOutcome(s, p, b, d) = "Fenced"
  PROVE  /\ Wf(RecordFence(s, p, b))
         /\ RecordFence(s, p, b).epoch = s.epoch
         /\ Len(s.fences) <= Len(RecordFence(s, p, b).fences)
<1>1. CASE IsLive(s.parts[p], b)
  BY <1>1, FenceIncarnationType DEF RecordFence
<1>2. CASE ~IsLive(s.parts[p], b)
  <2>1. ~(Len(s.fences) >= MaxRecentFences)
    BY <1>2 DEF RecordFenceOutcome
  <2>2. Len(s.fences) < MaxRecentFences
    BY <2>1, LimitAssumption DEF Wf, States
  <2> QED
    BY <1>2, <2>2, FencePreventivelyType DEF RecordFence
<1> QED
  BY <1>1, <1>2

\* find_incarnation answers with a sequence number, or 0.
LEMMA FindIncarnationType ==
  ASSUME NEW part \in ParticipantRecords, NEW b
  PROVE  FindIncarnation(part, b) \in Nat
  BY PositionType DEF FindIncarnation, Incarnations

\* The recent fences that the undo leaves are recent fences.
LEMMA TruncatedFencesType ==
  ASSUME NEW s, Wf(s), NEW t, Wf(t), Len(s.fences) <= Len(t.fences)
  PROVE  /\ Truncate(t.fences, Len(s.fences)) \in Seq(FenceRecords)
         /\ Len(Truncate(t.fences, Len(s.fences))) <= MaxRecentFences
<1>1. /\ t.fences \in Seq(FenceRecords)
      /\ Len(s.fences) \in Nat
      /\ Len(s.fences) <= MaxRecentFences
  BY DEF Wf, States, WithinLimits
<1> QED
  BY <1>1, TruncateType

\* fence_worker and its undo keep the state well formed and its epoch.
LEMMA FenceType ==
  ASSUME NEW s, Wf(s), NEW r \in FenceRequests, FenceOutcome(s, r) = "Fenced"
  PROVE  /\ Wf(FenceTo(s, r)) /\ FenceTo(s, r).epoch = s.epoch
         /\ Wf(FenceUndo(s, r)) /\ FenceUndo(s, r).epoch = s.epoch
<1> DEFINE p == r.participant
           t == RecordFence(s, p, r.boot)
           idem == Remember(s.parts[p].idem, r.attempt, FenceDigest(r),
                            FindIncarnation(s.parts[p], r.boot))
           fences == Truncate(t.fences, Len(s.fences))
<1>1. /\ r.attempt \in Attempts /\ p \in Participants /\ r.boot \in Boots
      /\ r.reason \in Reasons
  BY RuntimeAssumption DEF FenceRequests
<1>2. RecordFenceOutcome(s, p, r.boot, TRUE) = "Fenced"
  BY DEF FenceOutcome, ReplayOutcome
<1>3. Wf(t) /\ t.epoch = s.epoch /\ Len(s.fences) <= Len(t.fences)
  BY <1>1, <1>2, RecordFenceType
<1>4. s.parts[p] \in ParticipantRecords /\ s.parts[p].idem \in Seq(IdempotencyRecords)
  BY <1>1 DEF Wf, States, ParticipantRecords
<1>5. FenceDigest(r) \in Digests
  BY <1>1 DEF FenceDigest, Digests
<1>6. idem \in Seq(IdempotencyRecords) /\ Len(idem) <= MaxIdempotency
  BY <1>1, <1>4, <1>5, FindIncarnationType, RememberType
<1>7. FenceTo(s, r) = [t EXCEPT !.parts[p].idem = idem]
  BY DEF FenceTo
<1>8. /\ Wf(FenceTo(s, r)) /\ FenceTo(s, r).epoch = s.epoch /\ FenceTo(s, r).fences = t.fences
      /\ FenceTo(s, r).parts[p].idem = idem
  <2> HIDE DEF t, p, idem
  <2> QED
    BY <1>1, <1>3, <1>6, <1>7, IdemUpdateType
<1>9. fences \in Seq(FenceRecords) /\ Len(fences) <= MaxRecentFences
  <2> HIDE DEF t
  <2> QED
    BY <1>3, TruncatedFencesType
<1> DEFINE v == [s EXCEPT !.fences = fences]
<1>10. Wf(v) /\ v.epoch = s.epoch
  <2> HIDE DEF fences
  <2> QED
    BY <1>9, FencesUpdateType
<1>11. FenceUndo(s, r) = [v EXCEPT !.parts[p].idem = idem]
  <2>1. FenceUndo(s, r) = [s EXCEPT !.fences = fences, !.parts[p].idem = idem]
    BY <1>8 DEF FenceUndo
  <2> HIDE DEF fences, p, idem
  <2> QED
    BY <2>1 DEF Wf, States
<1>12. Wf(FenceUndo(s, r)) /\ FenceUndo(s, r).epoch = s.epoch
  <2> HIDE DEF v, p, idem
  <2> QED
    BY <1>1, <1>6, <1>10, <1>11, IdemUpdateType
<1> QED
  BY <1>8, <1>12

\* The fields of a registration are of their kinds.
LEMMA RegisterRequestType ==
  ASSUME NEW r \in RegisterRequests
  PROVE  /\ r.attempt \in Attempts /\ r.participant \in Participants /\ r.boot \in Boots
         /\ r.policy \in Policies /\ r.scopes \in SUBSET Scopes
         /\ RegisterDigest(r) \in Digests
<1>1. /\ r.attempt \in Attempts /\ r.participant \in Participants /\ r.boot \in Boots
      /\ r.policy \in Policies /\ r.scopes \in SUBSET Scopes
  BY RuntimeAssumption DEF RegisterRequests, RegisterRequest
<1> QED
  BY <1>1 DEF RegisterDigest, Digests

\* Admitting an incarnation keeps the state well formed and its epoch.
LEMMA AdmitIncarnationType ==
  ASSUME NEW s, Wf(s), NEW r \in RegisterRequests
  PROVE  /\ Wf(AdmitIncarnation(s, r))
         /\ AdmitIncarnation(s, r).epoch = s.epoch
         /\ AdmitIncarnation(s, r).fences = s.fences
<1> DEFINE p == r.participant
           part == s.parts[p]
           idem == Remember(part.idem, r.attempt, RegisterDigest(r), part.next)
           live == Append(part.live, [boot |-> r.boot, seq |-> part.next])
           new == [part EXCEPT !.status = "registered",
                               !.regGen = s.regFloor + 1,
                               !.next = part.next + 1,
                               !.policy = r.policy,
                               !.scopes = r.scopes,
                               !.reval = FALSE,
                               !.live = live,
                               !.idem = idem]
           parts == [s.parts EXCEPT ![p] = new]
           t == AdmitIncarnation(s, r)
<1>1. /\ r.attempt \in Attempts /\ p \in Participants /\ r.boot \in Boots
      /\ r.policy \in Policies /\ r.scopes \in SUBSET Scopes
      /\ RegisterDigest(r) \in Digests
  BY RegisterRequestType
<1>2. s \in States /\ s.gen + 1 \in Nat /\ s.regFloor + 1 \in Nat
  BY DEF Wf, States
<1>3. /\ part \in ParticipantRecords
      /\ Len(part.ring) <= MaxFencedBoots
  BY <1>1 DEF Wf, States, WithinLimits
<1>4. part.next \in Nat /\ part.next + 1 \in Nat /\ part.idem \in Seq(IdempotencyRecords)
      /\ part.live \in Seq(Incarnations)
  <2> HIDE DEF part
  <2> QED
    BY <1>3 DEF ParticipantRecords
<1>5. idem \in Seq(IdempotencyRecords) /\ Len(idem) <= MaxIdempotency
  BY <1>1, <1>4, RememberType
<1>6. live \in Seq(Incarnations)
  <2>1. [boot |-> r.boot, seq |-> part.next] \in Incarnations
    BY <1>1, <1>4 DEF Incarnations
  <2> QED
    BY <1>4, <2>1
<1>7. new \in ParticipantRecords /\ new.ring = part.ring /\ new.idem = idem
  <2> HIDE DEF part, idem, live
  <2> QED
    BY <1>1, <1>2, <1>3, <1>4, <1>5, <1>6 DEF ParticipantRecords
<1>8. /\ parts \in [Participants -> ParticipantRecords]
      /\ \A q \in Participants : /\ Len(parts[q].ring) <= MaxFencedBoots
                                 /\ Len(parts[q].idem) <= MaxIdempotency
  <2> HIDE DEF new, p, part, idem
  <2> QED
    BY <1>1, <1>3, <1>5, <1>7, PartsUpdateType
<1>9. t = [s EXCEPT !.gen = s.gen + 1, !.regFloor = s.regFloor + 1, !.parts = parts]
  BY <1>2 DEF AdmitIncarnation, States
<1> HIDE DEF parts, t
<1>10. t \in States
  BY <1>2, <1>8, <1>9 DEF States
<1>11. /\ t.epoch = s.epoch /\ t.fences = s.fences /\ t.grants = s.grants
       /\ t.transitions = s.transitions /\ t.control = s.control /\ t.parts = parts
  BY <1>2, <1>9 DEF States
<1>12. WithinLimits(t)
  BY <1>8, <1>11 DEF Wf, WithinLimits
<1> QED
  BY <1>10, <1>11, <1>12 DEF Wf, t

\* Displacing an incumbent keeps the state well formed and its epoch.
LEMMA DisplaceIncumbentType ==
  ASSUME NEW s, Wf(s), NEW indexed, NEW r \in RegisterRequests
  PROVE  /\ Wf(DisplaceIncumbent(s, indexed, r))
         /\ DisplaceIncumbent(s, indexed, r).epoch = s.epoch
         /\ Len(s.fences) <= Len(DisplaceIncumbent(s, indexed, r).fences)
<1> DEFINE p == r.participant
           incumbent == s.parts[p].live[1].boot
<1>1. p \in Participants
  BY RegisterRequestType
<1>2. CASE HasIncumbent(s, r) /\ ~LookupFenceIn(s, indexed, p, incumbent)
  <2>1. s.parts[p].live \in Seq(Incarnations) /\ s.parts[p].live # << >>
    BY <1>1, <1>2 DEF Wf, States, ParticipantRecords, HasIncumbent
  <2>2. 1 \in DOMAIN s.parts[p].live /\ s.parts[p].live[1] \in Incarnations
    BY <2>1, NonEmptyHead
  <2>. incumbent \in Boots
    BY <2>2 DEF Incarnations
  <2>3. IsLive(s.parts[p], incumbent)
    BY <2>2 DEF IsLive
  <2> QED
    BY <1>1, <1>2, <2>2, <2>3, FenceIncarnationType DEF DisplaceIncumbent
<1>3. CASE ~(HasIncumbent(s, r) /\ ~LookupFenceIn(s, indexed, p, incumbent))
  <2>1. DisplaceIncumbent(s, indexed, r) = s
    BY <1>3 DEF DisplaceIncumbent
  <2>2. Len(s.fences) \in Nat
    BY DEF Wf, States
  <2> QED
    BY <2>1, <2>2
<1> QED
  BY <1>2, <1>3

\* The record of an unknown participant is a participant record.
LEMMA FreshType == FreshParticipant \in ParticipantRecords
                   /\ FreshParticipant.ring = << >> /\ FreshParticipant.idem = << >>
  BY DEF FreshParticipant, ParticipantRecords, Policies

\* The state of a store that was never established is well formed.
LEMMA InitialType == Wf(InitialState) /\ InitialState.epoch = 0
<1>1. InitialState \in States
  BY FreshType DEF InitialState, States
<1>2. WithinLimits(InitialState)
  BY FreshType, LimitAssumption DEF InitialState, WithinLimits
<1> QED
  BY <1>1, <1>2 DEF Wf, InitialState

\* Participant tables whose bounded parts are within their limits.
Tables == {parts \in [Participants -> ParticipantRecords] :
             \A q \in Participants : /\ Len(parts[q].ring) <= MaxFencedBoots
                                     /\ Len(parts[q].idem) <= MaxIdempotency}

\* The participants of a well-formed state are such a table.
LEMMA TablesOfState ==
  ASSUME NEW s, Wf(s)
  PROVE  s.parts \in Tables
  BY DEF Wf, States, WithinLimits, Tables

\* Removing the last record leaves a table, whichever record that is.
LEMMA PopParticipantType ==
  ASSUME NEW parts \in Tables
  PROVE  PopParticipant(parts) \in Tables
<1> DEFINE known == {p \in Participants : parts[p].status # "unknown"}
           last == CHOOSE p \in known : \A q \in known : q <= p
<1>1. PopParticipant(parts) = [parts EXCEPT ![last] = FreshParticipant]
  BY DEF PopParticipant
<1>2. Len(FreshParticipant.ring) <= MaxFencedBoots /\ Len(FreshParticipant.idem) <= MaxIdempotency
  BY FreshType, LimitAssumption
<1> HIDE DEF last, known
<1> QED
  BY <1>1, <1>2, FreshType DEF Tables

\* A well-formed state stays so under a table of participants and a fence
\* table within its limit.
LEMMA UndoneType ==
  ASSUME NEW s, Wf(s), NEW parts \in Tables,
         NEW fences \in Seq(FenceRecords), Len(fences) <= MaxRecentFences,
         NEW t, t = [s EXCEPT !.fences = fences, !.parts = parts]
  PROVE  Wf(t) /\ t.epoch = s.epoch
  BY DEF Wf, States, WithinLimits, Tables

\* bump_generation keeps the state well formed.
LEMMA CountedType ==
  ASSUME NEW s, Wf(s), NEW t, t = [s EXCEPT !.gen = @ + 1]
  PROVE  Wf(t) /\ t.epoch = s.epoch /\ t.fences = s.fences
<1>1. s \in States /\ WithinLimits(s)
  BY DEF Wf
<1>2. s.gen + 1 \in Nat
  BY <1>1 DEF States
<1>3. t \in States /\ t.epoch = s.epoch /\ t.fences = s.fences
  BY <1>1, <1>2 DEF States
<1>4. /\ t.parts = s.parts /\ t.transitions = s.transitions
      /\ t.grants = s.grants /\ t.control = s.control
  BY <1>1 DEF States
<1>5. WithinLimits(t)
  BY <1>1, <1>3, <1>4 DEF WithinLimits
<1> QED
  BY <1>3, <1>5 DEF Wf

\* The fences of a well-formed state can be counted.
LEMMA FencesCounted ==
  ASSUME NEW s, Wf(s)
  PROVE  Len(s.fences) \in Nat
  BY DEF Wf, States

\* apply_registration and its undo keep the state well formed and its epoch.
LEMMA RegisterType ==
  ASSUME NEW s, Wf(s), NEW r \in RegisterRequests
  PROVE  /\ Wf(RegisterTo(s, r)) /\ RegisterTo(s, r).epoch = s.epoch
         /\ Wf(RegisterUndo(s, r)) /\ RegisterUndo(s, r).epoch = s.epoch
<1> DEFINE d == DisplaceIncumbent(s, s.fences, r)
           t == RegisterTo(s, r)
           fences == Truncate(t.fences, Len(s.fences))
           parts == IF s.parts[r.participant].status = "unknown"
                      THEN PopParticipant(t.parts)
                      ELSE s.parts
<1>1. Wf(d) /\ d.epoch = s.epoch /\ Len(s.fences) <= Len(d.fences)
  BY DisplaceIncumbentType
<1>2. Wf(t) /\ t.epoch = s.epoch /\ t.fences = d.fences
  <2> HIDE DEF d
  <2>1. t = AdmitIncarnation(d, r)
    BY DEF RegisterTo, d
  <2> HIDE DEF t
  <2> QED
    BY <1>1, <2>1, AdmitIncarnationType
<1>3. fences \in Seq(FenceRecords) /\ Len(fences) <= MaxRecentFences
  <2> HIDE DEF t, d
  <2> QED
    BY <1>1, <1>2, TruncatedFencesType
<1>4. parts \in Tables
  <2> HIDE DEF t
  <2> QED
    BY <1>2, TablesOfState, PopParticipantType
<1>5. RegisterUndo(s, r) = [s EXCEPT !.fences = fences, !.parts = parts]
  BY DEF RegisterUndo
<1>6. Wf(RegisterUndo(s, r)) /\ RegisterUndo(s, r).epoch = s.epoch
  <2> HIDE DEF fences, parts
  <2> QED
    BY <1>3, <1>4, <1>5, UndoneType
<1> QED
  BY <1>2, <1>6

\* One request of a batch keeps the state well formed, its epoch and its
\* fences.
LEMMA ApplyInBatchType ==
  ASSUME NEW s, Wf(s), NEW indexed, NEW r \in RegisterRequests
  PROVE  LET t == ApplyInBatch(s, indexed, r)
         IN Wf(t) /\ t.epoch = s.epoch /\ Len(s.fences) <= Len(t.fences)
<1> DEFINE d == DisplaceIncumbent(s, indexed, r)
           u == AdmitIncarnation(d, r)
           t == ApplyInBatch(s, indexed, r)
<1>1. Wf(d) /\ d.epoch = s.epoch /\ Len(s.fences) <= Len(d.fences)
  BY DisplaceIncumbentType
<1>2. t = [u EXCEPT !.gen = d.gen] \/ t = s
  BY DEF ApplyInBatch
<1> HIDE DEF d
<1>3. Wf(u) /\ u.epoch = d.epoch /\ u.fences = d.fences
  BY <1>1, AdmitIncarnationType
<1> HIDE DEF t, u
<1>4. CASE t = [u EXCEPT !.gen = d.gen]
  BY <1>1, <1>3, <1>4 DEF Wf, States, WithinLimits, t
<1>5. CASE t = s
  <2>1. Len(s.fences) \in Nat
    BY DEF Wf, States
  <2> QED
    BY <1>5, <2>1 DEF t
<1> QED
  BY <1>2, <1>4, <1>5

\* Undoing one request of a batch leaves a table of participants.
LEMMA UndoRegistrationType ==
  ASSUME NEW parts \in Tables, NEW s, Wf(s), NEW outcome, NEW r \in RegisterRequests
  PROVE  UndoRegistration(parts, s, outcome, r) \in Tables
<1>1. r.participant \in Participants
  BY RegisterRequestType
<1>2. s.parts \in Tables /\ PopParticipant(parts) \in Tables
  BY TablesOfState, PopParticipantType
<1>3. [parts EXCEPT ![r.participant] = s.parts[r.participant]] \in Tables
  BY <1>1, <1>2 DEF Tables
<1> QED
  BY <1>2, <1>3 DEF UndoRegistration

\* A batch and its undo keep the state well formed and its epoch.
LEMMA BatchType ==
  ASSUME NEW s, Wf(s), NEW batch \in BatchRequests
  PROVE  /\ Wf(BatchTo(s, batch)) /\ BatchTo(s, batch).epoch = s.epoch
         /\ Wf(BatchUndo(s, batch)) /\ BatchUndo(s, batch).epoch = s.epoch
<1> DEFINE u == ApplyInBatch(s, s.fences, batch[1])
           v == ApplyInBatch(u, s.fences, batch[2])
           t == BatchTo(s, batch)
           outcomes == BatchOutcomes(s, batch)
           mid == UndoRegistration(t.parts, u, outcomes[2], batch[2])
           parts == UndoRegistration(mid, s, outcomes[1], batch[1])
           fences == Truncate(t.fences, Len(s.fences))
<1>1. batch[1] \in RegisterRequests /\ batch[2] \in RegisterRequests
  BY RuntimeAssumption DEF BatchRequests, RegisterRequests
<1>2. Wf(u) /\ u.epoch = s.epoch /\ Len(s.fences) <= Len(u.fences)
  BY <1>1, ApplyInBatchType
<1>3. Wf(v) /\ v.epoch = s.epoch /\ Len(s.fences) <= Len(v.fences)
  <2> HIDE DEF u
  <2>1. Wf(v) /\ v.epoch = u.epoch /\ Len(u.fences) <= Len(v.fences)
    BY <1>1, <1>2, ApplyInBatchType
  <2>2. Len(s.fences) \in Nat /\ Len(u.fences) \in Nat /\ Len(v.fences) \in Nat
    BY <1>2, <2>1, FencesCounted
  <2> QED
    BY <1>2, <2>1, <2>2
<1>4. Wf(t) /\ t.epoch = s.epoch /\ t.fences = v.fences
  <2>1. t = [v EXCEPT !.gen = @ + 1]
    BY DEF BatchTo
  <2> HIDE DEF t, v
  <2> QED
    BY <1>3, <2>1, CountedType
<1>5. fences \in Seq(FenceRecords) /\ Len(fences) <= MaxRecentFences
  <2> HIDE DEF t, u, v
  <2> QED
    BY <1>3, <1>4, TruncatedFencesType
<1>6. parts \in Tables
  <2> HIDE DEF t, u, outcomes
  <2>1. mid \in Tables
    BY <1>1, <1>2, <1>4, TablesOfState, UndoRegistrationType
  <2> HIDE DEF mid
  <2> QED
    BY <1>1, <2>1, UndoRegistrationType
<1>7. BatchUndo(s, batch) = [s EXCEPT !.fences = fences, !.parts = parts]
  BY DEF BatchUndo
<1>8. Wf(BatchUndo(s, batch)) /\ BatchUndo(s, batch).epoch = s.epoch
  <2> HIDE DEF fences, parts
  <2> QED
    BY <1>5, <1>6, <1>7, UndoneType
<1> QED
  BY <1>4, <1>8

\* mutate_epoch keeps the state well formed and raises its epoch by one.
LEMMA MutateEpochType ==
  ASSUME NEW s, Wf(s)
  PROVE  /\ Wf(MutateEpoch(s))
         /\ MutateEpoch(s).epoch = s.epoch + 1
         /\ Len(s.transitions) <= Len(MutateEpoch(s).transitions)
         /\ MutateEpoch(s).control = s.control
<1> DEFINE parts == [p \in Participants |->
                      [s.parts[p] EXCEPT !.reval = @ \/ s.parts[p].live # << >>,
                                         !.live = << >>]]
           rec == [from |-> s.epoch, to |-> s.epoch + 1, gen |-> s.gen + 1]
           transitions == Retain(Append(s.transitions, rec), MaxTransitions)
           t == MutateEpoch(s)
<1>1. s \in States /\ s.epoch + 1 \in Nat /\ s.gen + 1 \in Nat
  BY DEF Wf, States
<1>2. ASSUME NEW p \in Participants
      PROVE  /\ parts[p] \in ParticipantRecords
             /\ parts[p].ring = s.parts[p].ring /\ parts[p].idem = s.parts[p].idem
  <2> DEFINE part == s.parts[p]
             flag == part.reval \/ part.live # << >>
  <2>1. part \in ParticipantRecords
    BY <1>1 DEF States
  <2>2. parts[p] = [part EXCEPT !.reval = flag, !.live = << >>]
    OBVIOUS
  <2>3. flag \in BOOLEAN /\ << >> \in Seq(Incarnations)
    OBVIOUS
  <2> HIDE DEF part, flag, parts
  <2>4. /\ [part EXCEPT !.reval = flag, !.live = << >>] \in ParticipantRecords
        /\ [part EXCEPT !.reval = flag, !.live = << >>].ring = part.ring
        /\ [part EXCEPT !.reval = flag, !.live = << >>].idem = part.idem
    BY <2>1, <2>3 DEF ParticipantRecords
  <2> QED
    BY <2>2, <2>4 DEF part
<1>3. /\ parts \in [Participants -> ParticipantRecords]
      /\ \A q \in Participants : /\ Len(parts[q].ring) <= MaxFencedBoots
                                 /\ Len(parts[q].idem) <= MaxIdempotency
  <2>1. parts = [p \in Participants |-> parts[p]]
    OBVIOUS
  <2> HIDE DEF parts
  <2> QED
    BY <1>2, <2>1 DEF Wf, WithinLimits
<1>4. rec \in TransitionRecords
  BY <1>1 DEF TransitionRecords, States
<1>5. /\ transitions \in Seq(TransitionRecords)
      /\ Len(transitions) <= MaxTransitions
      /\ Len(s.transitions) <= Len(transitions)
  <2> HIDE DEF rec
  <2> QED
    BY <1>1, <1>4, BoundedAppendType, LimitAssumption DEF Wf, WithinLimits, States
<1>6. t = [s EXCEPT !.epoch = s.epoch + 1, !.gen = s.gen + 1, !.parts = parts,
                    !.transitions = transitions]
  BY DEF MutateEpoch
<1> HIDE DEF parts, transitions, t
<1>7. t \in States
  BY <1>1, <1>3, <1>5, <1>6 DEF States
<1>8. /\ t.epoch = s.epoch + 1 /\ t.fences = s.fences /\ t.grants = s.grants
      /\ t.transitions = transitions /\ t.control = s.control /\ t.parts = parts
  BY <1>1, <1>6 DEF States
<1>9. WithinLimits(t)
  BY <1>3, <1>5, <1>8 DEF Wf, WithinLimits
<1> QED
  BY <1>5, <1>7, <1>8, <1>9 DEF Wf, t

\* Replacing the control table keeps the state well formed.
LEMMA ControlUpdateType ==
  ASSUME NEW s, Wf(s), NEW control \in Seq(IdempotencyRecords), Len(control) <= MaxIdempotency
  PROVE  /\ Wf([s EXCEPT !.control = control])
         /\ [s EXCEPT !.control = control].epoch = s.epoch
         /\ [s EXCEPT !.control = control].transitions = s.transitions
         /\ [s EXCEPT !.control = control].control = control
  BY DEF Wf, States, WithinLimits

\* advance_epoch keeps the state well formed; its undo returns to the epoch.
LEMMA AdvanceType ==
  ASSUME NEW s, Wf(s), NEW r \in AdvanceRequests
  PROVE  /\ Wf(AdvanceTo(s, r)) /\ AdvanceTo(s, r).epoch = s.epoch + 1
         /\ Wf(AdvanceUndo(s, r)) /\ AdvanceUndo(s, r).epoch = s.epoch
<1> DEFINE m == MutateEpoch(s)
           control == Remember(s.control, r.attempt, AdvanceDigest(r), s.epoch + 1)
           t == AdvanceTo(s, r)
           transitions == Truncate(t.transitions, Len(s.transitions))
<1>1. /\ Wf(m) /\ m.epoch = s.epoch + 1 /\ m.control = s.control
      /\ Len(s.transitions) <= Len(m.transitions)
  BY MutateEpochType
<1>2. control \in Seq(IdempotencyRecords) /\ Len(control) <= MaxIdempotency
  <2>1. s.control \in Seq(IdempotencyRecords) /\ s.epoch + 1 \in Nat
    BY DEF Wf, States
  <2>2. r.attempt \in Attempts /\ AdvanceDigest(r) \in Digests
    BY DEF AdvanceRequests, AdvanceDigest, Digests
  <2> QED
    BY <2>1, <2>2, RememberType
<1>3. t = [m EXCEPT !.control = control]
  BY DEF AdvanceTo
<1>4. Wf(t) /\ t.epoch = s.epoch + 1 /\ t.transitions = m.transitions /\ t.control = control
  <2> HIDE DEF m, control, t
  <2> QED
    BY <1>1, <1>2, <1>3, ControlUpdateType
<1>5. transitions \in Seq(TransitionRecords) /\ Len(transitions) <= MaxTransitions
  <2>1. /\ m.transitions \in Seq(TransitionRecords)
        /\ Len(s.transitions) \in Nat /\ Len(s.transitions) <= MaxTransitions
    BY <1>1 DEF Wf, States, WithinLimits
  <2> HIDE DEF m, t
  <2> QED
    BY <1>1, <1>4, <2>1, TruncateType
<1>6. AdvanceUndo(s, r) = [s EXCEPT !.transitions = transitions, !.control = control]
  BY <1>4 DEF AdvanceUndo
<1>7. Wf(AdvanceUndo(s, r)) /\ AdvanceUndo(s, r).epoch = s.epoch
  <2> HIDE DEF transitions, control
  <2> QED
    BY <1>2, <1>5, <1>6 DEF Wf, States, WithinLimits
<1> QED
  BY <1>4, <1>7

\* apply_grant and its undo keep the state well formed and its epoch.
LEMMA GrantType ==
  ASSUME NEW s, Wf(s), NEW r, NEW id \in Nat,
         r.attempt \in Attempts, r.participant \in Participants, r.boot \in Boots,
         r.inc \in Nat, r.scopes \in SUBSET Scopes, r.parent \in Nat,
         GrantOutcome(s, r) = "Granted"
  PROVE  /\ Wf(GrantTo(s, r, id)) /\ GrantTo(s, r, id).epoch = s.epoch
         /\ Wf(GrantUndo(s, r, id)) /\ GrantUndo(s, r, id).epoch = s.epoch
<1> DEFINE p == r.participant
           idem == Remember(s.parts[p].idem, r.attempt, GrantDigest(r), id)
           g == [id |-> id, epoch |-> s.epoch, participant |-> p,
                 boot |-> r.boot, inc |-> r.inc, scopes |-> r.scopes,
                 parent |-> r.parent, gen |-> s.gen + 1, revokedAt |-> 0]
           grants == Append(s.grants, g)
           v == [s EXCEPT !.gen = s.gen + 1, !.grants = grants]
<1>1. /\ s \in States /\ s.gen + 1 \in Nat /\ s.epoch \in Nat /\ s.grants \in Seq(GrantRecords)
      /\ s.parts[p].idem \in Seq(IdempotencyRecords)
  <2>1. s \in States
    BY DEF Wf
  <2>2. s.gen + 1 \in Nat /\ s.epoch \in Nat /\ s.grants \in Seq(GrantRecords)
    BY <2>1 DEF States
  <2>3. s.parts[p] \in ParticipantRecords
    BY <2>1 DEF States
  <2>4. s.parts[p].idem \in Seq(IdempotencyRecords)
    BY <2>3 DEF ParticipantRecords
  <2> QED
    BY <2>1, <2>2, <2>4
<1>2. idem \in Seq(IdempotencyRecords) /\ Len(idem) <= MaxIdempotency
  <2>1. GrantDigest(r) \in Digests
    BY DEF GrantDigest, Digests
  <2> QED
    BY <1>1, <2>1, RememberType
<1>3. g \in GrantRecords
  BY <1>1 DEF GrantRecords
<1>4. grants \in Seq(GrantRecords) /\ Len(grants) <= MaxGrants
  <2>1. ~(Len(s.grants) >= MaxGrants)
    BY DEF GrantOutcome, ReplayOutcome
  <2>2. Len(s.grants) + 1 <= MaxGrants
    BY <1>1, <2>1, LimitAssumption
  <2> HIDE DEF g
  <2> QED
    BY <1>1, <1>3, <2>2
<1>5. Wf(v) /\ v.epoch = s.epoch /\ v.parts = s.parts
  <2> HIDE DEF grants
  <2> QED
    BY <1>1, <1>4 DEF Wf, States, WithinLimits
<1>6. GrantTo(s, r, id) = [v EXCEPT !.parts[p].idem = idem]
  <2>1. GrantTo(s, r, id) = [s EXCEPT !.gen = s.gen + 1, !.grants = grants, !.parts[p].idem = idem]
    BY DEF GrantTo
  <2> HIDE DEF grants, p, idem
  <2> QED
    BY <1>1, <2>1 DEF States
<1>7. /\ Wf(GrantTo(s, r, id)) /\ GrantTo(s, r, id).epoch = s.epoch
      /\ GrantTo(s, r, id).parts[p].idem = idem
  <2> HIDE DEF v, idem
  <2> QED
    BY <1>2, <1>5, <1>6, IdemUpdateType
<1>8. GrantUndo(s, r, id) = [s EXCEPT !.parts[p].idem = idem]
  BY <1>7 DEF GrantUndo
<1>9. Wf(GrantUndo(s, r, id)) /\ GrantUndo(s, r, id).epoch = s.epoch
  <2> HIDE DEF idem, p
  <2>1. p \in Participants
    BY DEF p
  <2> QED
    BY <1>2, <1>8, <2>1, IdemUpdateType
<1> QED
  BY <1>7, <1>9

\* apply_revoke and its undo keep the state well formed and its epoch.
LEMMA RevokeType ==
  ASSUME NEW s, Wf(s), NEW r,
         r.attempt \in Attempts, r.grant \in Nat, r.reason \in Reasons
  PROVE  /\ Wf(RevokeTo(s, r)) /\ RevokeTo(s, r).epoch = s.epoch
         /\ Wf(RevokeUndo(s, r)) /\ RevokeUndo(s, r).epoch = s.epoch
<1> DEFINE gs == s.grants
           root == GrantAt(s, r.grant)
           below == Descend(s.grants, root, DOMAIN s.grants)
           marked == [i \in DOMAIN gs |->
                       [gs[i] EXCEPT !.revokedAt = IF i \in Cascade(s, r) THEN s.epoch ELSE @,
                                     !.gen = IF i \in root THEN s.gen + 1 ELSE @]]
           cleared == [i \in DOMAIN gs |->
                        [gs[i] EXCEPT !.revokedAt = IF i \in below THEN 0 ELSE @]]
           control == Remember(s.control, r.attempt, RevokeDigest(r), s.gen + 1)
           short == Truncate(control, Len(s.control))
<1>1. /\ s \in States /\ gs \in Seq(GrantRecords) /\ Len(gs) \in Nat /\ Len(gs) <= MaxGrants
      /\ DOMAIN gs = 1..Len(gs) /\ s.gen \in Nat /\ s.epoch \in Nat
      /\ s.control \in Seq(IdempotencyRecords) /\ Len(s.control) <= MaxIdempotency
  BY DEF Wf, States, WithinLimits
<1>2. ASSUME NEW i \in DOMAIN gs
      PROVE  /\ [gs[i] EXCEPT !.revokedAt = IF i \in Cascade(s, r) THEN s.epoch ELSE @,
                              !.gen = IF i \in root THEN s.gen + 1 ELSE @] \in GrantRecords
             /\ [gs[i] EXCEPT !.revokedAt = IF i \in below THEN 0 ELSE @] \in GrantRecords
  <2> DEFINE g == gs[i]
             a == i \in Cascade(s, r)
             b == i \in root
             c == i \in below
  <2>1. g \in GrantRecords /\ s.gen + 1 \in Nat /\ s.epoch \in Nat
    BY <1>1
  <2> HIDE DEF g, a, b, c
  <2>2. /\ [g EXCEPT !.revokedAt = IF a THEN s.epoch ELSE @,
                     !.gen = IF b THEN s.gen + 1 ELSE @] \in GrantRecords
        /\ [g EXCEPT !.revokedAt = IF c THEN 0 ELSE @] \in GrantRecords
    BY <2>1 DEF GrantRecords
  <2> QED
    BY <2>2 DEF g, a, b, c
<1>3. /\ marked \in Seq(GrantRecords) /\ Len(marked) <= MaxGrants
      /\ cleared \in Seq(GrantRecords) /\ Len(cleared) <= MaxGrants
  <2>1. marked \in [1..Len(gs) -> GrantRecords] /\ cleared \in [1..Len(gs) -> GrantRecords]
    BY <1>1, <1>2
  <2> HIDE DEF marked, cleared, gs
  <2> QED
    BY <1>1, <2>1, SequenceOfFunction
<1>4. RevokeDigest(r) \in Digests
  BY DEF RevokeDigest, Digests
<1>5. /\ control \in Seq(IdempotencyRecords) /\ Len(control) <= MaxIdempotency
      /\ Len(s.control) <= Len(control)
  <2> DEFINE rec == [attempt |-> r.attempt, sem |-> RevokeDigest(r), value |-> s.gen + 1]
  <2>1. rec \in IdempotencyRecords
    BY <1>1, <1>4 DEF IdempotencyRecords
  <2>2. control = Retain(Append(s.control, rec), MaxIdempotency)
    BY DEF Remember
  <2> HIDE DEF rec, control
  <2> QED
    BY <1>1, <2>1, <2>2, BoundedAppendType, LimitAssumption
<1>6. short \in Seq(IdempotencyRecords) /\ Len(short) <= MaxIdempotency
  <2>1. Len(s.control) \in Nat
    BY <1>1
  <2> HIDE DEF control
  <2> QED
    BY <1>1, <1>5, <2>1, TruncateType
<1> DEFINE t == RevokeTo(s, r)
           u == RevokeUndo(s, r)
<1>7. t = [s EXCEPT !.gen = s.gen + 1, !.grants = marked, !.control = control]
  BY DEF RevokeTo
<1>8. Wf(t) /\ t.epoch = s.epoch /\ t.control = control
  <2> HIDE DEF marked, control, t
  <2>1. s.gen + 1 \in Nat
    BY <1>1
  <2>2. t \in States
    BY <1>1, <1>3, <1>5, <1>7, <2>1 DEF States
  <2>3. /\ t.epoch = s.epoch /\ t.fences = s.fences /\ t.grants = marked
        /\ t.transitions = s.transitions /\ t.control = control /\ t.parts = s.parts
    BY <1>1, <1>7 DEF States
  <2>4. WithinLimits(t)
    BY <1>3, <1>5, <2>3 DEF Wf, WithinLimits
  <2> QED
    BY <2>2, <2>3, <2>4 DEF Wf
<1>9. u = [s EXCEPT !.grants = cleared, !.control = short]
  BY <1>8 DEF RevokeUndo
<1>10. Wf(u) /\ u.epoch = s.epoch
  <2> HIDE DEF cleared, short, u
  <2>1. u \in States
    BY <1>1, <1>3, <1>6, <1>9 DEF States
  <2>2. /\ u.epoch = s.epoch /\ u.fences = s.fences /\ u.grants = cleared
        /\ u.transitions = s.transitions /\ u.control = short /\ u.parts = s.parts
    BY <1>1, <1>9 DEF States
  <2>3. WithinLimits(u)
    BY <1>3, <1>6, <2>2 DEF Wf, WithinLimits
  <2> QED
    BY <2>1, <2>2, <2>3 DEF Wf
<1> QED
  BY <1>8, <1>10

\* apply_retire and its undo keep the state well formed and its epoch.
LEMMA RetireType ==
  ASSUME NEW s, Wf(s), NEW r \in RetireRequests
  PROVE  /\ Wf(RetireTo(s, r)) /\ RetireTo(s, r).epoch = s.epoch
         /\ Wf(RetireUndo(s, r)) /\ RetireUndo(s, r).epoch = s.epoch
<1> DEFINE p == r.participant
           part == s.parts[p]
           victims == Select(part.live, RetireVictims(s, p))
           spared == Select(part.live, DOMAIN part.live \ RetireVictims(s, p))
           n == Len(victims)
           records == [i \in 1..n |->
                        [boot |-> victims[i].boot, participant |-> p,
                         gen |-> s.fenceFloor + i, epoch |-> s.epoch,
                         inc |-> victims[i].seq]]
           boots == [i \in 1..n |-> victims[i].boot]
           fences == Retain(s.fences \o records, MaxRecentFences)
           ring == Retain(part.ring \o boots, MaxFencedBoots)
           idem == Remember(part.idem, r.attempt, RetireDigest(r), Len(part.live))
           floor == MaxOf(part.floor, part.next - 1)
           fenceGen == IF n = 0 THEN part.fenceGen ELSE s.fenceFloor + n
           new == [part EXCEPT !.status = "retired", !.reval = FALSE, !.floor = floor,
                               !.fenceGen = fenceGen, !.live = spared, !.ring = ring,
                               !.idem = idem]
           parts == [s.parts EXCEPT ![p] = new]
           t == RetireTo(s, r)
           old == Truncate(t.fences, Len(s.fences))
<1>1. s \in States /\ r.attempt \in Attempts /\ p \in Participants
  BY DEF Wf, RetireRequests
<1>2. /\ part \in ParticipantRecords
      /\ Len(part.ring) <= MaxFencedBoots
  BY <1>1 DEF Wf, States, WithinLimits
<1>3. /\ part.live \in Seq(Incarnations) /\ part.ring \in Seq(Boots)
      /\ part.idem \in Seq(IdempotencyRecords) /\ part.floor \in Nat /\ part.next \in Nat
      /\ part.fenceGen \in Nat
  <2> HIDE DEF part
  <2> QED
    BY <1>2 DEF ParticipantRecords
<1>4. victims \in Seq(Incarnations) /\ spared \in Seq(Incarnations)
  <2>1. /\ RetireVictims(s, p) \in SUBSET (DOMAIN part.live)
        /\ DOMAIN part.live \ RetireVictims(s, p) \in SUBSET (DOMAIN part.live)
    BY DEF RetireVictims
  <2> HIDE DEF part
  <2> QED
    BY <1>3, <2>1, SelectType
<1>5. n \in Nat /\ \A i \in 1..n : victims[i].boot \in Boots /\ victims[i].seq \in Nat
  <2> HIDE DEF victims
  <2>1. n \in Nat /\ \A i \in 1..n : victims[i] \in Incarnations
    BY <1>4
  <2>2. \A x \in Incarnations : x.boot \in Boots /\ x.seq \in Nat
    BY DEF Incarnations
  <2> QED
    BY <2>1, <2>2
<1>6. s.fenceFloor \in Nat /\ s.epoch \in Nat /\ s.gen \in Nat /\ s.fences \in Seq(FenceRecords)
      /\ Len(s.fences) <= MaxRecentFences
  BY DEF Wf, States, WithinLimits
<1>7. records \in Seq(FenceRecords) /\ Len(records) = n
  <2> HIDE DEF victims, n, p
  <2>1. \A i \in 1..n : [boot |-> victims[i].boot, participant |-> p,
                         gen |-> s.fenceFloor + i, epoch |-> s.epoch,
                         inc |-> victims[i].seq] \in FenceRecords
    BY <1>1, <1>5, <1>6 DEF FenceRecords
  <2>2. records \in [1..n -> FenceRecords]
    BY <2>1
  <2> HIDE DEF records
  <2> QED
    BY <1>5, <2>2, SequenceOfFunction
<1>8. boots \in Seq(Boots)
  <2> HIDE DEF victims, n
  <2> QED
    BY <1>5
<1>9. /\ fences \in Seq(FenceRecords) /\ Len(fences) <= MaxRecentFences
      /\ Len(s.fences) <= Len(fences)
  <2> DEFINE all == s.fences \o records
  <2> HIDE DEF records, n
  <2>1. all \in Seq(FenceRecords) /\ Len(all) = Len(s.fences) + Len(records) /\ Len(s.fences) \in Nat
    BY <1>6, <1>7
  <2> HIDE DEF all
  <2>2. /\ Retain(all, MaxRecentFences) \in Seq(FenceRecords)
        /\ Len(Retain(all, MaxRecentFences)) <= MaxRecentFences
        /\ Len(all) <= MaxRecentFences => Len(Retain(all, MaxRecentFences)) = Len(all)
        /\ Len(all) > MaxRecentFences => Len(Retain(all, MaxRecentFences)) = MaxRecentFences
    BY <2>1, RetainType, LimitAssumption
  <2>3. Len(s.fences) <= Len(Retain(all, MaxRecentFences))
    BY <1>5, <1>6, <1>7, <2>1, <2>2, LimitAssumption
  <2> QED
    BY <2>2, <2>3 DEF all
<1>10. ring \in Seq(Boots) /\ Len(ring) <= MaxFencedBoots
  <2> HIDE DEF boots, part
  <2>1. part.ring \o boots \in Seq(Boots)
    BY <1>3, <1>8
  <2> QED
    BY <2>1, RetainType, LimitAssumption
<1>11. idem \in Seq(IdempotencyRecords) /\ Len(idem) <= MaxIdempotency
  <2>1. RetireDigest(r) \in Digests
    BY <1>1 DEF RetireDigest, Digests
  <2>2. Len(part.live) \in Nat
    BY <1>3
  <2> HIDE DEF part
  <2> QED
    BY <1>1, <1>3, <2>1, <2>2, RememberType
<1>12. floor \in Nat /\ fenceGen \in Nat
  <2> HIDE DEF part, n
  <2> QED
    BY <1>3, <1>5, <1>6 DEF MaxOf
<1>13. new \in ParticipantRecords /\ new.ring = ring /\ new.idem = idem
  <2> HIDE DEF part, floor, fenceGen, spared, ring, idem
  <2> QED
    BY <1>2, <1>4, <1>10, <1>11, <1>12 DEF ParticipantRecords
<1>14. /\ parts \in [Participants -> ParticipantRecords]
       /\ \A q \in Participants : /\ Len(parts[q].ring) <= MaxFencedBoots
                                  /\ Len(parts[q].idem) <= MaxIdempotency
  <2> HIDE DEF new, p, ring, idem
  <2> QED
    BY <1>1, <1>10, <1>11, <1>13, PartsUpdateType
<1>15. t = [s EXCEPT !.gen = s.gen + n + 1, !.fenceFloor = s.fenceFloor + n,
                     !.fences = fences, !.parts = parts]
  BY DEF RetireTo
<1>16. s.gen + n + 1 \in Nat /\ s.fenceFloor + n \in Nat
  <2> HIDE DEF n
  <2> QED
    BY <1>5, <1>6
<1>17. t \in States
  <2> HIDE DEF n, fences, parts, t
  <2> QED
    BY <1>1, <1>9, <1>14, <1>15, <1>16 DEF States
<1>18. /\ t.epoch = s.epoch /\ t.fences = fences /\ t.grants = s.grants
       /\ t.transitions = s.transitions /\ t.control = s.control /\ t.parts = parts
  <2> HIDE DEF n, fences, parts, t
  <2> QED
    BY <1>1, <1>15 DEF States
<1>19. WithinLimits(t)
  <2> HIDE DEF fences, parts, t
  <2> QED
    BY <1>9, <1>14, <1>18 DEF Wf, WithinLimits
<1>20. t.parts[p].idem = idem
  <2>1. parts[p] = new
    <3> HIDE DEF new, p
    <3> QED
      BY <1>1 DEF States
  <2> HIDE DEF t, new, idem, parts
  <2> QED
    BY <1>13, <1>18, <2>1
<1>21. old \in Seq(FenceRecords) /\ Len(old) <= MaxRecentFences
  <2> HIDE DEF t, fences
  <2> QED
    BY <1>9, <1>17, <1>18, <1>19, TruncatedFencesType DEF Wf
<1> DEFINE v == [s EXCEPT !.fences = old]
<1>22. Wf(v) /\ v.epoch = s.epoch
  <2> HIDE DEF old
  <2> QED
    BY <1>21, FencesUpdateType
<1>23. RetireUndo(s, r) = [v EXCEPT !.parts[p].idem = idem]
  <2>1. RetireUndo(s, r) = [s EXCEPT !.fences = old, !.parts[p].idem = idem]
    <3> HIDE DEF idem
    <3> QED
      BY <1>20 DEF RetireUndo
  <2> HIDE DEF old, p, idem
  <2> QED
    BY <1>1, <2>1 DEF States
<1>24. Wf(RetireUndo(s, r)) /\ RetireUndo(s, r).epoch = s.epoch
  <2> HIDE DEF v, p, idem
  <2> QED
    BY <1>1, <1>11, <1>22, <1>23, IdemUpdateType
<1> QED
  BY <1>17, <1>18, <1>19, <1>24 DEF Wf

\* The tokens of a well-formed state's current incarnations are tokens.
LEMMA TokensType ==
  ASSUME NEW s, Wf(s)
  PROVE  TokensOf(s) \in SUBSET Tokens
<1> SUFFICES ASSUME NEW l \in Live(s)
             PROVE  [epoch |-> s.epoch, participant |-> l[1], boot |-> l[2], inc |-> l[3]] \in Tokens
  BY DEF TokensOf
<1>1. PICK p \in Participants : \E i \in DOMAIN s.parts[p].live :
        l = <<p, s.parts[p].live[i].boot, s.parts[p].live[i].seq>>
  BY DEF Live
<1>6. PICK i \in DOMAIN s.parts[p].live :
        l = <<p, s.parts[p].live[i].boot, s.parts[p].live[i].seq>>
  BY <1>1
<1>2. s.epoch \in Nat /\ s.parts[p] \in ParticipantRecords
  BY DEF Wf, States
<1>3. s.parts[p].live \in Seq(Incarnations)
  BY <1>2 DEF ParticipantRecords
<1>4. s.parts[p].live[i] \in Incarnations
  BY <1>3
<1>5. s.parts[p].live[i].boot \in Boots /\ s.parts[p].live[i].seq \in Nat
  BY <1>4 DEF Incarnations
<1> QED
  BY <1>2, <1>5, <1>6 DEF Tokens

\* The inductive invariant.  TypeOK alone is inductive; what callers were
\* shown, the image and the watermark have to be related for the others.
IInv == TypeOK /\ Durable

\* The inductive invariant holds of a store that was never established.
LEMMA InitInv == Init => IInv
<1> SUFFICES ASSUME Init PROVE IInv
  OBVIOUS
<1>1. Wf(InitialState) /\ InitialState.epoch = 0
  BY InitialType
<1>2. TypeOK
  BY <1>1 DEF Init, TypeOK, Wf
<1>3. InitialState = [InitialState EXCEPT !.control = InitialState.control]
  BY <1>1 DEF Wf, States
<1>4. Valid(InitialState)
  BY <1>1, <1>3 DEF Valid
<1> QED
  BY <1>1, <1>2, <1>4 DEF Init, IInv, Durable, Admissible

\* What a step shows is typed, and raises the highest epoch shown to the one
\* in memory.
LEMMA ShowType ==
  ASSUME TypeOK, Show, up' \in BOOLEAN, Wf(mem'), Wf(disk')
  PROVE  /\ issued' \in SUBSET Tokens
         /\ exposed' \in Nat
         /\ exposed' = IF up' THEN MaxOf(exposed, mem'.epoch) ELSE exposed
<1>1. TokensOf(mem') \in SUBSET Tokens /\ TokensOf(disk') \in SUBSET Tokens
  BY TokensType
<1>2. issued \in SUBSET Tokens /\ exposed \in Nat
  BY DEF TypeOK
<1>3. mem'.epoch \in Nat
  BY DEF Wf, States
<1>4. issued' = issued \cup TokensOf(IF up' THEN mem' ELSE disk')
  BY DEF Show
<1>5. issued' \in SUBSET Tokens
  BY <1>1, <1>2, <1>4
<1>6. exposed' = IF up' THEN MaxOf(exposed, mem'.epoch) ELSE exposed
  BY DEF Show
<1> QED
  BY <1>2, <1>3, <1>5, <1>6 DEF MaxOf

\* The durability barrier keeps the inductive invariant, however the save
\* ends, for an operation that does not lower the epoch and whose undo keeps
\* it.
LEMMA SaveInv ==
  ASSUME IInv, up, NEW io, NEW t, Wf(t), t.epoch >= mem.epoch,
         NEW undone, Wf(undone), undone.epoch = mem.epoch,
         NEW kept \in SUBSET Bindings, Save(t, undone, kept, io), minted' \in Nat
  PROVE  IInv' /\ (up' => mem'.epoch >= exposed)
<1>1. /\ mem.epoch \in Nat /\ disk.epoch \in Nat /\ watermark \in Nat /\ exposed \in Nat
      /\ t.epoch \in Nat /\ undone.epoch \in Nat /\ mem.epoch = exposed
      /\ watermark <= mem.epoch /\ disk.epoch >= exposed /\ disk.epoch >= watermark
      /\ Valid(disk) /\ Wf(disk)
  BY DEF IInv, TypeOK, Durable, Admissible, Wf, States
<1>2. Show
  BY DEF Save
<1>3. SUFFICES /\ up' \in BOOLEAN /\ Wf(mem') /\ Wf(disk') /\ Valid(disk')
               /\ watermark' \in Nat /\ watermark' <= disk'.epoch
               /\ sessions' \in SUBSET Bindings
               /\ disk'.epoch >= mem.epoch
               /\ up' => mem'.epoch >= mem.epoch /\ watermark' <= mem'.epoch
                         /\ disk'.epoch >= mem'.epoch
  <2>1. TypeOK
    BY DEF IInv
  <2>2. /\ issued' \in SUBSET Tokens /\ exposed' \in Nat
        /\ exposed' = IF up' THEN MaxOf(exposed, mem'.epoch) ELSE exposed
    BY <1>2, <1>3, <2>1, ShowType
  <2>3. TypeOK'
    BY <1>3, <2>2 DEF TypeOK, Wf
  <2>4. mem'.epoch \in Nat /\ disk'.epoch \in Nat
    BY <1>3 DEF Wf, States
  <2>5. Durable'
    BY <1>1, <1>3, <2>2, <2>4 DEF Durable, Admissible, MaxOf
  <2> QED
    BY <1>1, <1>3, <2>3, <2>4, <2>5 DEF IInv
<1>4. CASE Commit(t, kept)
  BY <1>1, <1>4 DEF Commit, MaxOf
<1>5. CASE RollBack(undone, kept)
  BY <1>1, <1>5 DEF RollBack
<1>6. CASE RollBackUnmarked(t, undone, kept)
  BY <1>1, <1>6 DEF RollBackUnmarked
<1>7. CASE DieInSave(t)
  <2>1. /\ up' = FALSE /\ disk' = t /\ Valid(t) /\ sessions' = {} /\ mem' = InitialState
        /\ watermark' \in {watermark, MaxOf(watermark, t.epoch)}
    BY <1>7 DEF DieInSave
  <2>2. watermark' \in Nat /\ watermark' <= t.epoch
    BY <1>1, <2>1 DEF MaxOf
  <2> QED
    BY <1>1, <2>1, <2>2, InitialType
<1> QED
  BY <1>4, <1>5, <1>6, <1>7 DEF Save

\* Every step keeps the inductive invariant, shows no epoch below one shown
\* before, and starts a process only above every epoch shown, unless processes
\* may keep the epoch on open.  One step per action, each reduced to SaveInv.
LEMMA StepInv ==
  ASSUME IInv, NEW Outcomes, Step(Outcomes) \/ UNCHANGED vars
  PROVE  /\ IInv'
         /\ (UNCHANGED vars \/ (up' => mem'.epoch >= exposed))
         /\ ~up /\ up' => mem'.epoch > exposed \/ "keep" \in OpenModes
<1> DEFINE Goal == /\ IInv'
                   /\ (UNCHANGED vars \/ (up' => mem'.epoch >= exposed))
                   /\ ~up /\ up' => mem'.epoch > exposed \/ "keep" \in OpenModes
<1>1. /\ TypeOK /\ Durable /\ Wf(mem) /\ Wf(disk) /\ sessions \in SUBSET Bindings
      /\ minted \in Nat /\ up \in BOOLEAN
  BY DEF IInv, TypeOK, Wf
<1>2. /\ mem.epoch \in Nat /\ disk.epoch \in Nat /\ watermark \in Nat /\ exposed \in Nat
      /\ disk.epoch >= exposed /\ disk.epoch >= watermark /\ Valid(disk)
      /\ (up => mem.epoch = exposed /\ watermark <= mem.epoch)
  BY <1>1 DEF TypeOK, Durable, Admissible, Wf, States
<1>3. ASSUME up, NEW io, NEW t, Wf(t), t.epoch >= mem.epoch,
             NEW undone, Wf(undone), undone.epoch = mem.epoch,
             NEW kept \in SUBSET Bindings, Save(t, undone, kept, io), minted' \in Nat
      PROVE  Goal
  BY <1>3, SaveInv
<1>4. ASSUME UNCHANGED vars PROVE Goal
  BY <1>4, <1>1, <1>2 DEF vars, IInv, TypeOK, Durable, Admissible
<1> HIDE DEF Goal
<1>5. ASSUME Crash PROVE Goal
  <2>1. TypeOK'
    BY <1>1, <1>5, InitialType DEF Crash, TypeOK, Wf
  <2> QED
    BY <1>2, <1>5, <2>1 DEF Goal, Crash, IInv, Durable, Admissible
<1>6. ASSUME NEW id \in SessionIds, NEW k \in issued, BindSession(id, k) PROVE Goal
  <2>1. CASE UNCHANGED vars
    BY <1>4, <2>1
  <2>2. CASE /\ sessions' = sessions \cup {[id |-> id, token |-> k]}
             /\ UNCHANGED <<up, mem, disk, watermark, minted, issued, exposed>>
    <3>1. k \in Tokens
      BY <1>1 DEF TypeOK
    <3>2. sessions' \in SUBSET Bindings
      BY <1>1, <2>2, <3>1 DEF Bindings
    <3>3. TypeOK'
      BY <1>1, <2>2, <3>2 DEF TypeOK
    <3> QED
      BY <1>2, <2>2, <3>3 DEF Goal, IInv, Durable, Admissible
  <2> QED
    BY <1>6, <2>1, <2>2 DEF BindSession
<1>7. ASSUME NEW io, NEW r \in RegisterRequests, Register(r, io) PROVE Goal
  <2>1. CASE Answer(io)
    BY <1>4, <2>1 DEF Answer
  <2>2. CASE /\ Save(RegisterTo(mem, r), RegisterUndo(mem, r), sessions, io)
             /\ UNCHANGED minted
    <3>1. /\ Wf(RegisterTo(mem, r)) /\ RegisterTo(mem, r).epoch = mem.epoch
          /\ Wf(RegisterUndo(mem, r)) /\ RegisterUndo(mem, r).epoch = mem.epoch
      BY <1>1, RegisterType
    <3>2. up
      BY <1>7 DEF Register
    <3> QED
      BY <1>1, <1>2, <1>3, <2>2, <3>1, <3>2
  <2> QED
    BY <1>7, <2>1, <2>2 DEF Register
<1>7b. ASSUME NEW io, NEW batch \in BatchRequests, RegisterBatch(batch, io) PROVE Goal
  <2>1. CASE Answer(io)
    BY <1>4, <2>1 DEF Answer
  <2>2. CASE /\ Save(BatchTo(mem, batch), BatchUndo(mem, batch), sessions, io)
             /\ UNCHANGED minted
    <3>1. /\ Wf(BatchTo(mem, batch)) /\ BatchTo(mem, batch).epoch = mem.epoch
          /\ Wf(BatchUndo(mem, batch)) /\ BatchUndo(mem, batch).epoch = mem.epoch
      BY <1>1, BatchType
    <3>2. up
      BY <1>7b DEF RegisterBatch
    <3> QED
      BY <1>1, <1>2, <1>3, <2>2, <3>1, <3>2
  <2> QED
    BY <1>7b, <2>1, <2>2 DEF RegisterBatch
<1>8. ASSUME NEW io, NEW r \in FenceRequests, FenceWorker(r, io) PROVE Goal
  <2>1. CASE Answer(io)
    BY <1>4, <2>1 DEF Answer
  <2>2. CASE /\ FenceOutcome(mem, r) = "Fenced"
             /\ Save(FenceTo(mem, r), FenceUndo(mem, r), sessions, io)
             /\ UNCHANGED minted
    <3>1. /\ Wf(FenceTo(mem, r)) /\ FenceTo(mem, r).epoch = mem.epoch
          /\ Wf(FenceUndo(mem, r)) /\ FenceUndo(mem, r).epoch = mem.epoch
      BY <1>1, <2>2, FenceType
    <3>2. up
      BY <1>8 DEF FenceWorker
    <3> QED
      BY <1>1, <1>2, <1>3, <2>2, <3>1, <3>2
  <2> QED
    BY <1>8, <2>1, <2>2 DEF FenceWorker
<1>9. ASSUME NEW io, NEW r \in AdvanceRequests, AdvanceEpoch(r, io) PROVE Goal
  <2>1. CASE Answer(io)
    BY <1>4, <2>1 DEF Answer
  <2>2. CASE /\ Save(AdvanceTo(mem, r), AdvanceUndo(mem, r), sessions, io)
             /\ UNCHANGED minted
    <3>1. /\ Wf(AdvanceTo(mem, r)) /\ AdvanceTo(mem, r).epoch = mem.epoch + 1
          /\ Wf(AdvanceUndo(mem, r)) /\ AdvanceUndo(mem, r).epoch = mem.epoch
      BY <1>1, AdvanceType
    <3>2. up /\ AdvanceTo(mem, r).epoch >= mem.epoch
      BY <1>2, <1>9, <3>1 DEF AdvanceEpoch
    <3> QED
      BY <1>1, <1>3, <2>2, <3>1, <3>2
  <2> QED
    BY <1>9, <2>1, <2>2 DEF AdvanceEpoch
<1>10. ASSUME NEW io, NEW r \in GrantRequests, GrantAuthority(r, io) PROVE Goal
  <2> DEFINE id == minted + 1
  <2>1. CASE Answer(io)
    BY <1>4, <2>1 DEF Answer
  <2>2. CASE /\ GrantOutcome(mem, r) = "Granted"
             /\ Save(GrantTo(mem, r, id), GrantUndo(mem, r, id), sessions, io)
             /\ minted' = id
    <3>1. /\ r.attempt \in Attempts /\ r.participant \in Participants /\ r.boot \in Boots
          /\ r.inc \in Nat /\ r.scopes \in SUBSET Scopes /\ r.parent \in Nat
      <4>1. PICK a \in Attempts, k \in issued, sc \in OfferedScopes, e \in Epochs, g \in 0..minted :
              r = [attempt |-> a, participant |-> k.participant, boot |-> k.boot, inc |-> k.inc,
                   scopes |-> sc, epoch |-> e, parent |-> g]
        BY DEF GrantRequests
      <4>2. k.participant \in Participants /\ k.boot \in Boots /\ k.inc \in Nat
        BY <1>1 DEF TypeOK, Tokens
      <4>3. sc \in SUBSET Scopes /\ g \in Nat
        BY <1>1, RuntimeAssumption
      <4> QED
        BY <4>1, <4>2, <4>3
    <3>2. id \in Nat
      BY <1>1
    <3> HIDE DEF id
    <3>3. /\ Wf(GrantTo(mem, r, id)) /\ GrantTo(mem, r, id).epoch = mem.epoch
          /\ Wf(GrantUndo(mem, r, id)) /\ GrantUndo(mem, r, id).epoch = mem.epoch
      BY <1>1, <2>2, <3>1, <3>2, GrantType
    <3>4. up
      BY <1>10 DEF GrantAuthority
    <3> QED
      BY <1>1, <1>2, <1>3, <2>2, <3>2, <3>3, <3>4
  <2> QED
    BY <1>10, <2>1, <2>2 DEF GrantAuthority
<1>11. ASSUME NEW io, NEW r \in RevokeRequests, RevokeAuthority(r, io) PROVE Goal
  <2>1. CASE Answer(io)
    BY <1>4, <2>1 DEF Answer
  <2>2. CASE /\ Save(RevokeTo(mem, r), RevokeUndo(mem, r), sessions, io)
             /\ UNCHANGED minted
    <3>1. r.attempt \in Attempts /\ r.grant \in Nat /\ r.reason \in Reasons
      BY <1>1 DEF RevokeRequests
    <3>2. /\ Wf(RevokeTo(mem, r)) /\ RevokeTo(mem, r).epoch = mem.epoch
          /\ Wf(RevokeUndo(mem, r)) /\ RevokeUndo(mem, r).epoch = mem.epoch
      BY <1>1, <3>1, RevokeType
    <3>3. up
      BY <1>11 DEF RevokeAuthority
    <3> QED
      BY <1>1, <1>2, <1>3, <2>2, <3>2, <3>3
  <2> QED
    BY <1>11, <2>1, <2>2 DEF RevokeAuthority
<1>12. ASSUME NEW io, NEW r \in RetireRequests, RetireParticipant(r, io) PROVE Goal
  <2>1. CASE Answer(io)
    BY <1>4, <2>1 DEF Answer
  <2>2. CASE /\ Save(RetireTo(mem, r), RetireUndo(mem, r), sessions, io)
             /\ UNCHANGED minted
    <3>1. /\ Wf(RetireTo(mem, r)) /\ RetireTo(mem, r).epoch = mem.epoch
          /\ Wf(RetireUndo(mem, r)) /\ RetireUndo(mem, r).epoch = mem.epoch
      BY <1>1, RetireType
    <3>2. up
      BY <1>12 DEF RetireParticipant
    <3> QED
      BY <1>1, <1>2, <1>3, <2>2, <3>1, <3>2
  <2> QED
    BY <1>12, <2>1, <2>2 DEF RetireParticipant
<1>13. ASSUME NEW io, NEW b \in sessions, CloseSession(b, io) PROVE Goal
  <2> DEFINE p == b.token.participant
             boot == b.token.boot
             t == RecordFence(mem, p, boot)
             undone == [mem EXCEPT !.fences = Truncate(t.fences, Len(mem.fences))]
             kept == sessions \ {b}
  <2>1. up /\ kept \in SUBSET Bindings /\ p \in Participants /\ boot \in Boots
    BY <1>1, <1>13 DEF CloseSession, Bindings, Tokens
  <2>2. CASE /\ RecordFenceOutcome(mem, p, boot, FALSE) = "Fenced"
             /\ Save(t, undone, kept, io)
             /\ UNCHANGED minted
    <3>1. Wf(t) /\ t.epoch = mem.epoch /\ Len(mem.fences) <= Len(t.fences)
      BY <1>1, <2>1, <2>2, RecordFenceType
    <3> HIDE DEF t
    <3>2. Wf(undone) /\ undone.epoch = mem.epoch
      BY <1>1, <3>1, TruncatedFencesType, FencesUpdateType
    <3> HIDE DEF undone, kept
    <3> QED
      BY <1>1, <1>2, <1>3, <2>1, <2>2, <3>1, <3>2
  <2>3. CASE /\ sessions' = kept
             /\ UNCHANGED <<up, mem, disk, watermark, minted, issued, exposed>>
    <3>1. TypeOK'
      BY <1>1, <2>1, <2>3 DEF TypeOK
    <3> QED
      BY <1>2, <2>3, <3>1 DEF Goal, IInv, Durable, Admissible
  <2> QED
    BY <1>13, <2>2, <2>3 DEF CloseSession
<1>14. ASSUME NEW io, Open(io) PROVE Goal
  <2>1. CASE OpenRefused
    BY <1>4, <2>1 DEF OpenRefused
  <2> DEFINE t == MutateEpoch(disk)
  <2>2. Wf(t) /\ t.epoch = disk.epoch + 1 /\ t.epoch \in Nat
    BY <1>1, <1>2, MutateEpochType
  <2> HIDE DEF t
  <2>3. ASSUME ~up, Show, minted' = minted, up' \in BOOLEAN, Wf(mem'), Wf(disk'), Valid(disk'),
               watermark' \in Nat, watermark' <= disk'.epoch, sessions' \in SUBSET Bindings,
               disk'.epoch >= disk.epoch,
               up' => mem' = disk' /\ (mem'.epoch > disk.epoch \/ "keep" \in OpenModes)
        PROVE  Goal
    <3>1. /\ issued' \in SUBSET Tokens /\ exposed' \in Nat
          /\ exposed' = IF up' THEN MaxOf(exposed, mem'.epoch) ELSE exposed
      BY <1>1, <2>3, ShowType
    <3>2. TypeOK'
      BY <1>1, <2>3, <3>1 DEF TypeOK, Wf
    <3>3. mem'.epoch \in Nat /\ disk'.epoch \in Nat
      BY <2>3 DEF Wf, States
    <3>4. Durable'
      BY <1>2, <2>3, <3>1, <3>3 DEF Durable, Admissible, MaxOf
    <3> QED
      BY <1>2, <2>3, <3>2, <3>3, <3>4 DEF Goal, IInv
  <2>4. CASE OpenKeeping /\ Show /\ UNCHANGED minted /\ ~up
    <3>1. /\ up' = TRUE /\ mem' = disk /\ disk' = disk /\ watermark' = watermark
          /\ sessions' = sessions /\ "keep" \in OpenModes
      BY <2>4 DEF OpenKeeping
    <3> QED
      BY <1>1, <1>2, <2>3, <2>4, <3>1
  <2>5. CASE OpenAdvancing(io) /\ Show /\ UNCHANGED minted /\ ~up
    <3>1. CASE /\ Valid(t) /\ up' = TRUE /\ mem' = t /\ disk' = t
               /\ watermark' = MaxOf(watermark, t.epoch) /\ UNCHANGED sessions
      <4>1. watermark' \in Nat /\ watermark' <= t.epoch /\ t.epoch > disk.epoch /\ t.epoch >= disk.epoch
        BY <1>2, <2>2, <3>1 DEF MaxOf
      <4> QED
        BY <1>1, <2>2, <2>3, <2>5, <3>1, <4>1
    <3>2. CASE DieInSave(t)
      <4>1. /\ up' = FALSE /\ disk' = t /\ Valid(t) /\ sessions' = {} /\ mem' = InitialState
            /\ watermark' \in {watermark, MaxOf(watermark, t.epoch)}
        BY <3>2 DEF DieInSave
      <4>2. watermark' \in Nat /\ watermark' <= t.epoch /\ t.epoch >= disk.epoch
        BY <1>2, <2>2, <4>1 DEF MaxOf
      <4> QED
        BY <2>2, <2>3, <2>5, <4>1, <4>2, InitialType
    <3> QED
      BY <2>5, <3>1, <3>2 DEF OpenAdvancing, t
  <2> QED
    BY <1>14, <2>1, <2>4, <2>5 DEF Open
<1>15. ASSUME NEW io, Flush(io) PROVE Goal
  <2>1. up /\ Save(mem, mem, sessions, io) /\ minted' = minted
    BY <1>15 DEF Flush
  <2>2. mem.epoch >= mem.epoch
    BY <1>2
  <2> QED
    BY <1>1, <1>3, <2>1, <2>2
<1>16. ASSUME Step(Outcomes) PROVE Goal
  <2>1. CASE Crash
    BY <1>5, <2>1
  <2>2. CASE \E id \in SessionIds, k \in issued : BindSession(id, k)
    BY <1>6, <2>2
  <2>3. CASE \E io \in Outcomes :
               \/ \E r \in RegisterRequests : Register(r, io)
               \/ \E batch \in BatchRequests : RegisterBatch(batch, io)
               \/ \E r \in FenceRequests : FenceWorker(r, io)
               \/ \E r \in AdvanceRequests : AdvanceEpoch(r, io)
               \/ \E r \in GrantRequests : GrantAuthority(r, io)
               \/ \E r \in RevokeRequests : RevokeAuthority(r, io)
               \/ \E r \in RetireRequests : RetireParticipant(r, io)
               \/ \E b \in sessions : CloseSession(b, io)
               \/ Open(io)
               \/ Flush(io)
    BY <1>7, <1>7b, <1>8, <1>9, <1>10, <1>11, <1>12, <1>13, <1>14, <1>15, <2>3
  <2> QED
    BY <1>16, <2>1, <2>2, <2>3 DEF Step
<1>17. Goal
  BY <1>4, <1>16
<1> QED
  BY <1>17 DEF Goal

\* A behaviour whose saves never fail is one whose saves may, so the theorems
\* below hold of both specifications.
LEMMA SpecIsFaulty == Spec => FaultySpec
<1>1. Next => FaultyNext
  <2> HIDE DEF Step
  <2>1. \A X, Y : X \subseteq Y /\ Step(X) => Step(Y)
    BY DEF Step
  <2> QED
    BY <2>1 DEF Next, FaultyNext
<1>2. [Next]_vars => [FaultyNext]_vars
  BY <1>1
<1> QED
  BY <1>2, PTL DEF Spec, FaultySpec

\* For every deployment and every limits, the tables the runtime keeps stay
\* typed and within their limits, whatever fails.
THEOREM TypeCorrect == FaultySpec => []TypeOK
<1>1. IInv /\ [FaultyNext]_vars => IInv'
  BY StepInv DEF FaultyNext
<1>2. IInv => TypeOK
  BY DEF IInv
<1> QED
  BY InitInv, <1>1, <1>2, PTL DEF FaultySpec

\* Of the state it decodes, load refuses none after any crash or failed save: it
\* is valid and not below the watermark, which is raised after the image is
\* replaced.  Whether the bytes of the image decode is another matter (ImageLoads
\* in EpochImage): the decoder does refuse some images that are admissible here.
THEOREM RestartsAreAdmitted == FaultySpec => []RestartAdmitted
<1>1. IInv /\ [FaultyNext]_vars => IInv'
  BY StepInv DEF FaultyNext
<1>2. IInv => RestartAdmitted
  BY DEF IInv, Durable, RestartAdmitted
<1> QED
  BY InitInv, <1>1, <1>2, PTL DEF FaultySpec

\* No caller is ever shown an epoch that the durable image does not have, and
\* the watermark never passes the epoch in memory.
THEOREM ShownIsDurable == FaultySpec => []Durable
<1>1. IInv /\ [FaultyNext]_vars => IInv'
  BY StepInv DEF FaultyNext
<1>2. IInv => Durable
  BY DEF IInv
<1> QED
  BY InitInv, <1>1, <1>2, PTL DEF FaultySpec

\* No process shows an epoch below one that was shown before, across failed
\* advancements, which the undo log takes back, and across restarts.
THEOREM EpochNeverFalls == FaultySpec => EpochMonotone
<1>1. IInv /\ [FaultyNext]_vars => IInv'
  BY StepInv DEF FaultyNext
<1>2. IInv /\ [FaultyNext]_vars => [up' => mem'.epoch >= exposed]_vars
  BY StepInv DEF FaultyNext
<1> QED
  BY InitInv, <1>1, <1>2, PTL DEF FaultySpec, EpochMonotone

\* When every process advances the epoch on open, each shows an epoch above
\* every epoch shown before it.
THEOREM RestartsAdvance ==
  ASSUME "keep" \notin OpenModes
  PROVE  FaultySpec => RestartAdvances
<1>1. IInv /\ [FaultyNext]_vars => IInv'
  BY StepInv DEF FaultyNext
<1>2. IInv /\ [FaultyNext]_vars => [~up /\ up' => mem'.epoch > exposed]_vars
  BY StepInv DEF FaultyNext
<1> QED
  BY InitInv, <1>1, <1>2, PTL DEF FaultySpec, RestartAdvances

=============================================================================
